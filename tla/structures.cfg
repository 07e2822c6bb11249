\* Five ids; three threads and five tokens; two objects in two frames.
CONSTANTS
    MaxId = 5
    t1 = t1
    t2 = t2
    t3 = t3
    ThreadIds <- MCThreads
    None = None
    MaxToken = 5
    Null = Null
    Fields = 1
    MaxGen = 2
    MaxCount = 3
    MaxObjects = 2
    FrameSize = 2
    MaxDepth = 2
    Modes <- MCModes
    Parts = {"ids", "queue", "vm"}
SPECIFICATION MCSpec
INVARIANTS Partition AnchoredValueLives CountsCoverHolders HeapAccounting
PROPERTIES ImplementsPool ImplementsFifo DeadStaysDead
