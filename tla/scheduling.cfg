SPECIFICATION MCLiveSpec
CONSTANTS
    Parts = {"driver", "kernel"}
    Threads = {t1, t2}
    Pool = {w1, w2}
    SpawnMayFail = TRUE
    EventLimit = 1
    MaxTurns = 1
    Events <- MCEvents
    k1 = k1
    NoKey = NoKey
    ThreadIds <- MCThreadIds
    Keys <- MCKeys
    MaxThreads = 2
    MaxRunnable = 2
    MaxPending = 2
    Tombstones = 1
    MaxTasks = 2
    MaxWaits = 2
    MaxBorn = 2
INVARIANTS DeliveredInOrder NoSleepOnEvents OneCarrier NoQueueingBehindWorkers
           AccountingExact NobodyForgotten
PROPERTIES EventsHandled QueuedRuns
