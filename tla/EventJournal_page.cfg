CONSTANTS
    d1 = d1
    d2 = d2
    w1 = w1
    w2 = w2
    Domains = {d1, d2}
    Watchers = {w1, w2}
    Filter <- MCFilter
    JournalCap = 2
    PageCap = 1
    Resume = "revision"
    MaxRevision = 3
    MaxRestarts = 0
SPECIFICATION Spec
INVARIANTS NoSilentGap
CHECK_DEADLOCK FALSE
