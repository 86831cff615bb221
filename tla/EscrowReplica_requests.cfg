CONSTANTS
    Heads = {"a1", "b1", "c1"}
    NoHead = NoHead
    Slot = {"s", "q"}
    Writer = {"w"}
    slotOf <- slotOfValue
    seqOf <- seqOfValue
    parentOf <- parentOfValue
    writerOf <- writerOfValue
    MaxSeq = 2
    Node = {n1, n2}
    Voter = {n1, n2}
    n1 = n1
    n2 = n2
    NoMsg = NoMsg
    NoOffer = NoOffer
    MaxSlots = 1
    MaxArchive = 4
    CompactLen = 9
    MaxEntries = 9
    MaxBatch = 2
    LateCancel = TRUE
    MaxTerm = 2
    MaxIndex = 4
    MaxFaults = 1
    Faults = {"cancel"}
    Ops = {"get", "put", "delete"}
SYMMETRY Symmetry
VIEW View
SPECIFICATION Spec
INVARIANTS
    CommittedAccepted
