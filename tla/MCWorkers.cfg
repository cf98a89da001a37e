CONSTANTS
    k1 = k1  k2 = k2  w1 = w1  w2 = w2  c1 = c1  c2 = c2
    NoKey = NoKey
    Keys <- OneKey
    Unhandled <- NoKeys
    Workers <- TwoWorkers
    Clients <- OneClient
    MaxJobs = 2
    MaxAttempts = 2
    song1 = song1  song2 = song2
    tab1 = tab1  tab2 = tab2  tab3 = tab3
    first = first  second = second  other = other
    NoRequest = NoRequest
    SharedKeys = {song1, song2}
    Callers = {tab1, tab2, tab3}
    Requests = {first, second, other}
    KeyOf <- RequestKeys  Compressed = {song1}
    MaxPending = 2  Limit = 1  MaxWaiters = 1
SPECIFICATION MCSpec
INVARIANTS PoisonIsBounded LoadsAreShared SlotsGoToTheWanted
PROPERTIES LedgerSpec QueueMakesProgress EveryCallerIsAnswered
