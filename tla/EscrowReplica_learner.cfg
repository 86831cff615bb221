CONSTANTS
    Heads = {"a1", "a2"}
    NoHead = NoHead
    Slot = {"s"}
    Writer = {"w"}
    slotOf <- slotOfValue
    seqOf <- seqOfValue
    parentOf <- parentOfValue
    writerOf <- writerOfValue
    MaxSeq = 2
    Node = {n1, n2}
    Voter = {n1}
    n1 = n1
    n2 = n2
    NoMsg = NoMsg
    NoOffer = NoOffer
    MaxSlots = 1
    MaxArchive = 2
    CompactLen = 3
    MaxEntries = 9
    MaxBatch = 2
    LateCancel = FALSE
    MaxTerm = 2
    MaxIndex = 4
    MaxFaults = 2
    Faults = {"crash", "delay", "cancel"}
    Ops = {"put", "delete"}
SYMMETRY Symmetry
VIEW View
SPECIFICATION Spec
INVARIANTS
    ReplicaTypeOK
    ReferencesArchived
    NeverStops
