\* Two threads share two future ids and two request ids, each id allocated up
\* to twice, every id in use at once.
CONSTANTS
    t1 = t1
    t2 = t2
    Threads = {t1, t2}
    Waiters = {t1, t2}
    FutureIds = {1, 2}
    RequestIds = {1, 2}
    Kinds = {"galfus", "provider"}
    MaxFutures = 2
    MaxRequests = 2
    MaxGeneration = 2
    Workers = TRUE
SPECIFICATION Spec
INVARIANTS ResolvedByOwnLease BlockedIsServed AccountsExact CancelledCallsAreTold
SYMMETRY ThreadSymmetry
