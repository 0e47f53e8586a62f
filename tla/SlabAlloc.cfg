SPECIFICATION Spec
CONSTANTS
    t1 = t1
    t2 = t2
    b1 = b1
    b2 = b2
    b3 = b3
    Threads = {t1, t2}
    TaskIds = {1}
    Blocks = {b1, b2, b3}
    ClassSize <- Sizes2
    Align = 2
    ObjHdr = 2
    SlabHdr = 2
    LargeHdr = 2
    BlockSizes = {8, 10}
    Requests = {1, 3, 5}
    MaxAllocs = 4
    MaxSlots = 2
    None = None
SYMMETRY BlockSymmetry
CHECK_DEADLOCK FALSE
INVARIANTS TypeOK AccountingExact ListsExact ObjectsFit
PROPERTIES LeastOccupiedFirst ImplementsStore ReallocKeepsObject
