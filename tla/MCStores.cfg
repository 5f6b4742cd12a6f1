SPECIFICATION MCSpec
CONSTANTS
    Entries = {1, 2}
    Parents <- MCParents
    Kills = 2
    None = None
    Promoters = {p1, p2}
    Versions = {v1, v2}
    Promotions = 4
    Failures = 2
    Absent = Absent
    Exps = {1, 2}
    Shas = {s1}
    ParentShas = {a1, a2}
    Lineages = {l1, l2}
    Problem <- MCProblem
    Kinds = {"novel", "crossover"}
    Attributions = 3
    Nothing = Nothing
    Features = {0, 1, 3}
    Targets = {0, 2}
    MaxExamples = 3
    MaxK = 3
    Percentiles = {0, 60, 90, 100}
    Models = 3
    Clients = {w1, w2}
    Contents = {d1, d2}
    Coded = {d2}
    NoContent = NoContent
    Accesses = 6
SYMMETRY MCSymmetry
INVARIANTS
    StoresTypeOK
    EntriesKept
    PaperSurvives
    AttributionsKept
    RollbackIsParent
    PredictionIsLocal
    ArtifactsSound
PROPERTIES
    RowsKeepState
CHECK_DEADLOCK FALSE
