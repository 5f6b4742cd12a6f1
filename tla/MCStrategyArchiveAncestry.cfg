SPECIFICATION ArchiveSpec
CONSTANTS
    Exps = {1, 2}
    Shas = {s1, s2}
    ParentShas = {s1, s2}
    Lineages = {l1}
    Problem <- MCProblem
    Kinds = {"novel", "library", "mutate", "crossover"}
    Attributions = 3
    Nothing = Nothing
SYMMETRY ArchiveSymmetry
INVARIANTS
    AncestryRecorded
CHECK_DEADLOCK FALSE
