SPECIFICATION MCSpec
CONSTANTS
    Sims <- MCSims
    Manifests <- MCManifests
    Tolerances = {1, 2}
    Failings <- MCFailings
    Commands = {c1, c2}
    Onboardings = 3
    Reindexings = 1
    Failures = 1
    None = None
    Torn = Torn
    Simulators <- MCSimulators
    Registries <- MCRegistries
    Telemetries <- MCTelemetries
    MinRuns = 3
    WeightTables <- MCWeightTables
    Caps <- MCCaps
    Scopes <- MCScopes
    Moves <- MCMoves
    Selections = 2
SYMMETRY CommandSymmetry
INVARIANTS
    MCTypeOK
    IndexSound
    SelectionIsCurrent
    RankingSound
CHECK_DEADLOCK FALSE
