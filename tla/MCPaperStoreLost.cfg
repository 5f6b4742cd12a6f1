SPECIFICATION PaperSpec
CONSTANTS
    Promoters = {p1, p2}
    Versions = {v1, v2}
    Promotions = 4
    Failures = 2
    Absent = Absent
INVARIANTS
    PromotedStaysReadable
CHECK_DEADLOCK FALSE
