CONSTANTS
    d1 = d1
    d2 = d2
    a = a
    b = b
    w1 = w1
    w2 = w2
    x1 = x1
    x2 = x2
    None = None
    Poller = Poller
    Domains = {d1}
    Providers = {a, b}
    Devices = {x1}
    DomainOf <- MCDomainOf
    Rank <- MCRank
    Catalogs <- MCFixedCatalog
    Answers = {"available"}
    Workers = {w1, w2}
    Requests <- SelectRequests
    MaxRevision = 2
    MaxRestarts = 1
SPECIFICATION Spec
INVARIANTS SelectionDurable CasKeepsOthers
CHECK_DEADLOCK FALSE
PROPERTIES OwnerLostByProbeOnly PolicyImplemented
SYMMETRY Symmetry
