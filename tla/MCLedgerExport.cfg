SPECIFICATION LedgerSpec
CONSTANTS
    Entries = {1, 2}
    Parents <- MCParents
    Kills = 0
    None = None
INVARIANTS
    ExportSucceeds
CHECK_DEADLOCK FALSE
