SPECIFICATION Spec
CONSTANTS
    a = a
    b = b
    Anyone = Anyone
    Forever = Forever
    Threads <- MCThreads
    FutureIds = {1, 2}
    Coordinators = {1}
    Ops <- MCOps
    Links <- MCLinks
    RaceOps <- MCRaceOps
    MaxMailbox = 2
    MaxSends = 2
    MaxGeneration = 2
CHECK_DEADLOCK FALSE
INVARIANTS MessagesInOrder WaitsAreServed  IdsExact
