\* Four objects, three registers, a collection at the fourth allocation.
CONSTANTS
    MaxId = 5
    t1 = t1
    t2 = t2
    t3 = t3
    ThreadIds <- MCThreads
    None = None
    MaxToken = 5
    Null = Null
    Fields = 1
    MaxGen = 2
    MaxCount = 3
    MaxObjects = 4
    FrameSize = 3
    MaxDepth = 1
    Modes <- MCSharing
    Parts = {"vm"}
SPECIFICATION MCSpec
INVARIANT AnchoredValueLives
