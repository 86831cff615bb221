CONSTANTS
    \* tcp
    MaxData = 2
    MaxConn = 2
    BufferMsgs = 1
    MaxTcpFaults = 2
    \* auth
    TunnelPeer = {"p"}
    ForwardKey = {"k", "g"}
    AuthTask = {"t1", "t2"}
    AllowedPeer = {"p"}
    RemoteForward = {"g"}
    MaxRows = 2
    MaxWaiters = 2
    MaxPeerRows = 1
    MaxAuthEvents = 1
    \* forward
    Proposal = {1, 2}
    MaxOutgoing = 1
    MaxIncoming = 1
    MaxFwdEvents = 1
    \* graph
    GraphRoom = {"r1", "r2"}
    GraphTarget = {"f"}
    GraphCmd = {1, 2}
    InboxCap = 1
    MaxGraphEvents = 2
    \* access
    Requester = {"a", "b"}
    Folder = {"f"}
    RequestKey = {1}
    PendingMaxTotal = 1
    PendingMaxPeer = 1
    AccessMaxInflight = 1
    MaxAllowed = 1
    MaxAccessEvents = 1
    \* relay
    RelayPeer = {"p"}
    MaxPeers = 1
    ReplayWindow = 2
    PeerTimeout = 1
    ClockSkew = 1
    MaxNow = 3
    MaxRelaySeq = 3
    MaxBoot = 2
    MaxRefusals = 1
    \* dm
    DmPeer = {"p", "q"}
    DmWire <- DmWireValue
    DmOwnId = {"x"}
    MaxMessages = 1
    MaxConversations = 1
    MaxSkew = 1
    DedupeTtl = 3
    DedupeMax = 9
    PerSender = 1
    GlobalPerWindow = 2
    MaxDmTime = 4
    MaxDmOps = 2
    MaxDmFaults = 1
    \* peers
    AuthRoom = {"r"}
    AuthNode = {"a", "b"}
    VerifiedTtl = 2
    MaxClockSkew = 1
    MaxVerified = 1
    MaxVerifiedRoom = 1
    MaxNonces = 2
    ReplyThrottle = 1
    MaxReplies = 1
    MaxHellos = 2
    MaxAuthTime = 4
    \* chat
    WireId = {"w1", "w2", "w3"}
    ChatNode = {"n"}
    WireTask = {"s", "t"}
    WireLogCap = 1
    CompactSlack = 1
    VerifyBurst = 2
    StoreBurst = 2
    MaxChatFaults = 2
    MaxRefills = 1
    Garbled = "garbled"
    \* caps
    Cap = {"c1", "c2", "m", "s"}
    capOf <- capOfValue
    NoCap = "none"
    Did = {"me", "i", "h", "g"}
    Me = "me"
    MaxLifetime = 3
    MaxHeld = 1
    MaxDelivered = 1
    MaxIssued = 1
    MaxPresented = 2
    MaxPerNode = 1
    MaxRevoked = 1
    MaxCapTime = 3
    MaxCapOps = 3
    MaxCapFaults = 1
    \* usage
    UsagePeer = {"p"}
    ApiToken = {"k"}
    UsageTask = {"t1", "t2"}
    Overflow = "*"
    UsageLimits <- UsageLimitsValue
    FirstLimits <- FirstLimitsValue
    MonthDays = 2
    MaxAccounts = 1
    MaxTokens = 1
    FirstDay = 2
    LastDay = 3
    MaxUsageOps = 2
    MaxUsageFaults = 1
    NoLimits = NoLimits
    \* cast
    Sharer = {"s", "t"}
    FellowRelay = {"x"}
    TrackOffer <- TrackOfferValue
    MaxCachedPeers = 2
    RepublishAttempts = 2
    MaxTracks = 3
    MaxUntaken = 1
    MaxEnds = 1
    MaxViews = 2
    NoLock = NoLock
    \* video
    Packet <- PacketValue
    SeqRange = 8
    MaxAuSize = 3
    MaxLost = 3
    MaxLate = 3
    \* placement
    Heads = {"a1"}
    NoHead = NoHead
    Slot = {"s"}
    Writer = {"w"}
    slotOf <- slotOfValue
    seqOf <- seqOfValue
    parentOf <- parentOfValue
    writerOf <- writerOfValue
    MaxSeq = 3
    Provider = {"p", "q", "r"}
    Contact = {"r"}
    Roomy = {"p", "q", "r"}
    rank <- rankValue
    replicas = 2
    MaxFaults = 1
    NoRecord = NoRecord
    NoPeer = NoPeer
    NoOne = NoOne
VIEW PartState
SPECIFICATION PeerServicesSpec
INVARIANTS
    
    
    
    
    DecisionsSettled
    UsageCounted
    GraphInStep
    
    ConversationsSaved
CHECK_DEADLOCK FALSE
