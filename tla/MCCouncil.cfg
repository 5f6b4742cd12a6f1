SPECIFICATION MCSpec
CONSTANTS
    Size = 2
    Costs = {1, 2}
    MaxCost = 2
    Cap = 4
    Policies = {"random", "round_robin"}
    Sessions = 3
    NoUsage = NoUsage
    None = None
    Models = {m1, m2}
    Prices = {1, 2}
    CostCap = 5
    Probes = 2
    Views = {"for", "against"}
    Commands = 3
    Members = {o1, o2, o3}
    Texts <- MCTexts
    Nli <- MCNli
    Alike <- MCAlike
    NoText = NoText
INVARIANTS
    CouncilTypeOK
    CostsAccountedFor
    NoCallAfterReturn
    ChairmanRotates
    CertificateTrue
    ReportsGrounded
    NothingSynthesisedAway
PROPERTIES
    DeliberationEnds
CHECK_DEADLOCK FALSE
