CONSTANTS
    Heads = {"a1"}
    NoHead = NoHead
    Slot = {"s"}
    Writer = {"w"}
    slotOf <- slotOfValue
    seqOf <- seqOfValue
    parentOf <- parentOfValue
    writerOf <- writerOfValue
    MaxSeq = 2
    Node = {n1, n2}
    Voter = {n1, n2}
    n1 = n1
    n2 = n2
    NoMsg = NoMsg
    NoOffer = NoOffer
    MaxSlots = 1
    MaxArchive = 4
    CompactLen = 2
    MaxEntries = 9
    MaxBatch = 2
    LateCancel = FALSE
    MaxTerm = 2
    MaxIndex = 2
    MaxFaults = 1
    Faults = {"crash"}
    Ops = {"put", "delete"}
SYMMETRY Symmetry
VIEW View
SPECIFICATION Spec
INVARIANTS
    ReplicasAgree
    AckedOnMajority
