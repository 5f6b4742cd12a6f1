SPECIFICATION Spec
CONSTANTS
    Clients = {c1, c2}
    Hyps = {h1}
    Surfaces <- MCSurfaces
    Costs <- MCCosts
    MaxCost = 2
    HypCaps <- MCHypCaps
    ConfigAggCap = 2
    ConfigDayCap <- MCDayCap
    AggCaps = {4}
    TierCaps = {1}
    Fuels <- MCFuels
    None = None
SYMMETRY BudgetSymmetry
INVARIANTS
    TypeOK
    PromisesOutlastRestarts
    TiersAgree
    OvershootBounded
PROPERTIES
    HaltNeverBypassed
    SpendingAccounted
CHECK_DEADLOCK FALSE
