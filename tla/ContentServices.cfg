CONSTANTS
    \* sched
    Job = {"j"}
    SchedTask = {"t", "u"}
    MaxRev = 3
    MaxDisk = 1
    RunLogCap = 1
    MaxRuns = 1
    NoJob = NoJob
    \* bot
    Item = {1, 2}
    kindOf <- kindOfValue
    senderOf <- senderOfValue
    Sink = {"a", "b"}
    Capacity = 1
    MaxItems = 3
    PollLimit = 1
    ProcessedCap = 1
    BufCap = 2
    SenderCap = 2
    MaxBotEvents = 2
    MaxSent = 2
    NoItem = NoItem
    \* share
    FilePath = {"x"}
    Content = {1}
    BusCap = 1
    MaxEdits = 1
    MaxShareFaults = 1
    MaxStops = 1
    \* nostr
    NostrEvent <- NostrEventValue
    NoAddress = "none"
    Submitter = {"t1", "t2"}
    MaxEvents = 2
    CompactionSlack = 0
    SeenCapacity = 2
    LiveBuffer = 1
    MaxSubmits = 3
    MaxNostrFaults = 1
    MaxConnects = 1
    \* mesh
    RelayNode = {"a", "b"}
    NoLeader = "none"
    MaxTime = 5
    PageEvents = 2
    SessionPages = 3
    RingEntries = 3
    MeshBuffer = 1
    InboundCap = 1
    MaxLeaderChanges = 0
    MaxMeshDrops = 0
    Publisher = {"a"}
    Puller = {}
    FirstLeader = "a"
    CatchUpFrom = {4}
    \* gossip
    Heads = {"a1", "a2"}
    NoHead = NoHead
    Slot = {"s"}
    Writer = {"w"}
    slotOf <- slotOfValue
    seqOf <- seqOfValue
    parentOf <- parentOfValue
    writerOf <- writerOfValue
    MaxSeq = 3
    Provider = {"p", "q"}
    MaxFaults = 1
    MaxMsgs = 1
    NoRecord = NoRecord
    NoPeer = NoPeer
    NoOne = NoOne
    \* provider
    AiPeer = {"a", "b"}
    AiReq = {"l", "v", "s", "o"}
    aiKind <- aiKindValue
    UploadEnd = 2
    AiTask = {"t1", "t2"}
    MaxJobs = 1
    MaxJobsPeer = 1
    SttMax = 2
    SttMaxPeer = 1
    SttMaxBytes = 3
    SttMaxTotal = 4
    OaiMax = 1
    OaiMaxPeer = 1
    OaiMaxTotal = 3
    MaxAiLog = 1
    MaxDeltas = 1
    MaxAiMessages = 5
    NoTask = NoTask
    \* consumer
    AiNode = {"p", "q"}
    NoNode = NoNode
    AiCall = {"c", "o", "v", "s"}
    callKind <- callKindValue
    Together = {{"c"}, {"o"}, {"v", "s"}}
    AnswerEnd = 2
    MaxCatalog = 1
    MaxSeqGap = 2
    MaxBuffered = 2
    MaxPending = 1
    QueueCap = 2
    MaxAiEvents = 2
    MaxRepeats = 1
VIEW PartState
SPECIFICATION ContentServicesSpec
INVARIANTS
    
    RunsPersisted
    
    EventsCovered
    
PROPERTIES
    NoRollback
    BotDelivery
    StoppedStays
CHECK_DEADLOCK FALSE
