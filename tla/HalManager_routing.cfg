CONSTANTS
    d1 = d1
    d2 = d2
    a = a
    b = b
    w1 = w1
    w2 = w2
    x1 = x1
    x2 = x2
    None = None
    Poller = Poller
    Domains = {d1}
    Providers = {a, b}
    Devices = {x1}
    DomainOf <- MCDomainOf
    Rank <- MCRank
    Catalogs <- MCFixedCatalog
    Answers = {"available", "unavailable", "error"}
    Workers = {w1}
    Requests <- RouteRequests
    MaxRevision = 1
    MaxRestarts = 0
SPECIFICATION FairSpec
INVARIANTS TypeOK PinnedFailsVisibly
PROPERTIES CallsReturn StaleRoutesHeal
CHECK_DEADLOCK FALSE
