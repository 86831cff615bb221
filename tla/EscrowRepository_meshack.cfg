CONSTANTS
    Heads = {"a1", "a2", "a3", "f2"}
    NoHead = NoHead
    Slot = {"s"}
    Writer = {"w", "v"}
    slotOf <- slotOfValue
    seqOf <- seqOfValue
    parentOf <- parentOfValue
    writerOf <- writerOfValue
    MaxSeq = 3
    Room = {"m"}
    MeshRoom = {"m"}
    Peer = {"p", "o"}
    NoOwner = NoOwner
    Task = {"t1", "t2"}
    size <- sizeValue
    reserveSize <- reserveSizeValue
    ownerLimit <- ownerLimitValue
    MaxTotal = 6
    MaxSlots = 1
    MaxPulls = 2
    NoRec = NoRec
SPECIFICATION Spec
PROPERTY
    AckMeansStored
