SPECIFICATION MCSpec
CONSTANTS
    Works = {1, 2, 3, 4, 5}
    References <- MCReferences
    Citing <- MCCiting
    Related <- MCRelated
    Citations <- MCCitations
    OpenAccess = {1, 2, 3, 4}
    Found <- MCFound
    Policies <- MCPolicies
    PromoteTopK = 2
    MaxPerPage = 1
    MaxRetries = 2
    Crawls = 2
    Mishaps = 2
    Cycles = {c1, c2}
    Gates = {g1, g2}
    Interruptions = 1
    SkipBound = 1
    Generators = {p1, p2}
    Checks <- MCChecks
    Rewriting = {"lint"}
    MaxTurns = 2
    Attempts = 2
    Versions = 2
    Ladders <- MCLadders
    Metrics = {0, 1, 2}
    Strategies = {1, 2, 3}
    Evidence <- MCEvidence
    Cells = {A, B}
    NoCell = NoCell
    Exploration <- MCExploration
    MaxSelected = 4
INVARIANTS
    CycleTypeOK
    CrawlSound
    GatesRunOnce
    DestinationPassed
    LadderHolds
    SelectionDiverse
PROPERTIES
    WorkEnds
CHECK_DEADLOCK FALSE
