SPECIFICATION RankingSpec
CONSTANTS
    Simulators <- MCSimulators
    Registries <- MCRegistries
    Telemetries <- MCTelemetries
    MinRuns = 3
    WeightTables <- MCWeightTables
    Caps <- MCCaps
    Scopes <- MCScopes
    Moves <- MCMoves
    Selections = 2
INVARIANTS
    OverBudgetRankedBelow
CHECK_DEADLOCK FALSE
