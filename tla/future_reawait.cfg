\* Futures of Galfus functions, awaited more than once.
CONSTANTS
    t1 = t1
    t2 = t2
    Threads = {t1, t2}
    Waiters = {t1, t2}
    FutureIds = {1, 2}
    RequestIds = {1}
    Kinds = {"galfus"}
    MaxFutures = 2
    MaxRequests = 1
    MaxGeneration = 1
    Workers = FALSE
SPECIFICATION Spec
INVARIANT EveryAwaitServed
