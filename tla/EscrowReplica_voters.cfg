CONSTANTS
    Heads = {"a1"}
    NoHead = NoHead
    Slot = {"s"}
    Writer = {"w"}
    slotOf <- slotOfValue
    seqOf <- seqOfValue
    parentOf <- parentOfValue
    writerOf <- writerOfValue
    MaxSeq = 2
    Node = {n1, n2, n3}
    Voter = {n1, n2, n3}
    n1 = n1
    n2 = n2
    n3 = n3
    NoMsg = NoMsg
    NoOffer = NoOffer
    MaxSlots = 1
    MaxArchive = 4
    CompactLen = 9
    MaxEntries = 9
    MaxBatch = 1
    LateCancel = FALSE
    MaxTerm = 2
    MaxIndex = 2
    MaxFaults = 1
    Faults = {"crash"}
    Ops = {"put"}
SYMMETRY Symmetry
VIEW View
SPECIFICATION Spec
INVARIANTS
    ReplicasAgree
    AckedOnMajority
    BarrierFresh
