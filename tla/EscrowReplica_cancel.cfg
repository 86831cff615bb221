CONSTANTS
    Heads = {"a1"}
    NoHead = NoHead
    Slot = {"s"}
    Writer = {"w"}
    slotOf <- slotOfValue
    seqOf <- seqOfValue
    parentOf <- parentOfValue
    writerOf <- writerOfValue
    MaxSeq = 2
    Node = {n1}
    Voter = {n1}
    n1 = n1
    NoMsg = NoMsg
    NoOffer = NoOffer
    MaxSlots = 1
    MaxArchive = 4
    CompactLen = 9
    MaxEntries = 9
    MaxBatch = 2
    LateCancel = TRUE
    MaxTerm = 1
    MaxIndex = 2
    MaxFaults = 1
    Faults = {"cancel"}
    Ops = {"put"}
SYMMETRY Symmetry
VIEW View
SPECIFICATION Spec
INVARIANTS
    ReferencesArchived
