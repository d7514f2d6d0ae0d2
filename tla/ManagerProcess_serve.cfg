CONSTANTS
    d1 = d1
    d2 = d2
    w1 = w1
    w2 = w2
    Domains = {d1, d2}
    Watchers = {w1, w2}
    Filter <- MCFilter
    JournalCap = 2
    PageCap = 1
    Resume = "lastEvent"
    MaxRevision = 3
    MaxRestarts = 1
    Calls = {c1, c2, c3}
    Workers = 1
SPECIFICATION ProcessSpec
INVARIANTS
    TypeOK MipcTypeOK JournalIsSuffix NoSilentGap SlotsBalanced AtMostOneReply
    SilentMeansUntouched
PROPERTIES WatchersAreWoken EveryCallAnswered
CHECK_DEADLOCK FALSE
