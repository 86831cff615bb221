CONSTANTS
    DmPeer = {"p", "q"}
    DmWire <- DmWireValue
    DmOwnId = {"x"}
    MaxMessages = 1
    MaxConversations = 1
    MaxSkew = 1
    DedupeTtl = 3
    DedupeMax = 9
    PerSender = 1
    GlobalPerWindow = 2
    MaxDmTime = 2
    MaxDmOps = 2
    MaxDmFaults = 1
SPECIFICATION DmSpec
INVARIANT
    ClearedDeleted
CHECK_DEADLOCK FALSE
