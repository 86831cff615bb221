CONSTANTS
    \* repository and gossip
    Heads = {"a1"}
    NoHead = NoHead
    Slot = {"s"}
    Writer = {"w"}
    slotOf <- slotOfValue
    seqOf <- seqOfValue
    parentOf <- parentOfValue
    writerOf <- writerOfValue
    MaxSeq = 3
    Room = {"m"}
    MeshRoom = {"m"}
    Peer = {"p"}
    NoOwner = NoOwner
    Task = {"t1", "t2"}
    size <- sizeValue
    reserveSize <- reserveSizeValue
    ownerLimit <- ownerLimitValue
    MaxTotal = 6
    MaxSlots = 2
    MaxPulls = 2
    NoRec = NoRec
    Provider = {"p", "q"}
    MaxFaults = 1
    MaxMsgs = 1
    NoRecord = NoRecord
    NoPeer = NoPeer
    NoOne = NoOne
    \* bot
    Item = {1, 2}
    kindOf <- kindOfValue
    senderOf <- senderOfValue
    Sink = {"a", "b"}
    Capacity = 2
    MaxItems = 3
    PollLimit = 1
    ProcessedCap = 2
    BufCap = 2
    SenderCap = 2
    MaxBotEvents = 0
    MaxSent = 0
    NoItem = NoItem
    \* share
    FilePath = {"x"}
    Content = {1}
    BusCap = 1
    MaxEdits = 1
    MaxShareFaults = 0
    MaxStops = 0
    \* mesh
    RelayNode = {"a", "b"}
    NoLeader = "none"
    MaxTime = 1
    PageEvents = 1
    SessionPages = 3
    RingEntries = 1
    MeshBuffer = 1
    InboundCap = 2
    MaxLeaderChanges = 1
    MaxMeshDrops = 1
    Publisher = {"a"}
    Puller = {"b"}
    FirstLeader = "none"
    CatchUpFrom = {1}
SPECIFICATION ProgressSpec
PROPERTIES
    RequestsReturn
    
    BotRetried
    
    
CHECK_DEADLOCK FALSE
