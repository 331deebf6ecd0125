SPECIFICATION Spec
CONSTANTS
    HeapWords = 36
    Requests = {8, 24, 60}
    Alignments = {8, 32}
    PoolStarts = {3}
    PoolUnits = 6
    MaxOrder = 4
    ObjectSizes = {16, 32}
    SlabPages = {1, 2}
    PageSize = 80
    Sizes = {16, 17, 40, 100}
    Key = {"a", "b", "c", "d"}
    Value = {"u", "v"}
    Hash <- MCHash
    Capacities = {1, 2, 4}
    MaxCapacity = 8
    p1 = p1
    p2 = p2
    Proc = {p1, p2}
    Frame = {1, 2, 3, 4, 5, 6, 7, 8, 9}
    Fb = 1
    KernelFrames = {{1}, {1, 7, 8, 9}}
    Path <- MCPath
    CodePages <- MCCode
    StackPages <- MCStack
    HeapStart = 10
    MmapStart = 20
    FbPage = 30
    HeapPages = 2
    MmapPages = 1
SYMMETRY MCProcs
CONSTRAINT OneCause
INVARIANTS
    HeapTiled 
    BuddyTiled SlabListsAgree HeldFits
    MapAgrees
     NoLeakWithoutCause
CHECK_DEADLOCK FALSE
