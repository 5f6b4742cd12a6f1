SPECIFICATION CrawlSpec
CONSTANTS
    Works = {1, 2, 3, 4, 5}
    References <- MCReferences
    Citing <- MCCiting
    Related <- MCRelated
    Citations <- MCCitations
    OpenAccess = {1, 2, 3, 4}
    Found <- MCFound
    Policies <- MCCut
    PromoteTopK = 2
    MaxPerPage = 1
    MaxRetries = 2
    Crawls = 2
    Mishaps = 0
INVARIANTS
    IdenticalCallIsLocal
CHECK_DEADLOCK FALSE
