------------------------------ MODULE ChatRelay ------------------------------
(* The chat history relay (src/src/chat_relay/mod.rs) of one room: every wire *)
(* that arrives is handled by a task of its own, which looks the id up,       *)
(* verifies the signature under rate limits and appends the wire to the       *)
(* room's log.  The lock is held for the lookup and for the append, not       *)
(* between them.  A wire is its id, its author and whether its signature      *)
(* holds; a line of the log that cannot be parsed is Garbled.                 *)
EXTENDS Naturals, Sequences, FiniteSets, SequencesExt, VecOps

CONSTANTS
    WireId,          \* ids of wires
    ChatNode,        \* nodes that send or forward wires
    WireTask,        \* handle_wire tasks
    WireLogCap,      \* WIRELOG_CAP
    CompactSlack,    \* WIRELOG_COMPACT_SLACK
    VerifyBurst,     \* NODE_VERIFY_BURST
    StoreBurst,      \* GLOBAL_STORE_BURST (and FROM_ID_BURST: one author)
    MaxChatFaults,   \* bound on torn appends and restarts
    MaxRefills,      \* bound on refilled tokens
    Garbled          \* a line no id can be read from

ASSUME ChatAssumption ==
    /\ {WireLogCap, VerifyBurst, StoreBurst} \subseteq Nat \ {0}
    /\ {CompactSlack, MaxChatFaults, MaxRefills} \subseteq Nat
    /\ Garbled \notin WireId

VARIABLES
    wirelog,     \* the lines of wirelog.jsonl
    torn,        \* the file ends in the middle of a line
    known,       \* RoomIds.order: the ids in memory, or <<Garbled>> if not loaded
    chatTask,    \* the wire each task handles and how far it is
    verifyTokens, storeTokens,   \* WireLimits
    wireReplayed,    \* nodes answered within REPLAY_THROTTLE
    chatFaults, refills

chatVars == <<wirelog, torn, known, chatTask, verifyTokens, storeTokens, wireReplayed,
              chatFaults, refills>>

ChatWire == [id : WireId, node : ChatNode, genuine : BOOLEAN]
FreeTask == [pc |-> "free"]
NotLoaded == <<Garbled>>

(* read_wirelog_lines and RoomIds::from_lines: lines with no id are skipped, *)
(* a second copy of an id is not counted.                                    *)
LineIds(lines) == Retain(lines, WireId)
RoomIds == IF known = NotLoaded THEN LineIds(wirelog) ELSE known

ChatInit ==
    /\ wirelog = <<>> /\ torn = FALSE /\ known = NotLoaded
    /\ chatTask = [t \in WireTask |-> FreeTask]
    /\ verifyTokens = [n \in ChatNode |-> VerifyBurst] /\ storeTokens = StoreBurst
    /\ wireReplayed = {} /\ chatFaults = 0 /\ refills = 0

(* register_handler spawns handle_wire, whose first step is wire_known.     *)
HandleWire(t, w) ==
    /\ chatTask[t] = FreeTask
    /\ known' = RoomIds
    /\ ~Contains(RoomIds, w.id)
    /\ chatTask' = [chatTask EXCEPT ![t] = [pc |-> "verify", wire |-> w]]
    /\ UNCHANGED <<wirelog, torn, verifyTokens, storeTokens, wireReplayed, chatFaults,
                   refills>>

(* The sender's verification budget is taken before the signature is         *)
(* checked, the author's and the global budget after it.                     *)
VerifyWire(t) ==
    LET w == chatTask[t].wire
        drop == chatTask' = [chatTask EXCEPT ![t] = FreeTask]
    IN  /\ chatTask[t].pc = "verify"
        /\ \/ verifyTokens[w.node] = 0 /\ drop /\ UNCHANGED <<verifyTokens, storeTokens>>
           \/ /\ verifyTokens[w.node] > 0
              /\ verifyTokens' = [verifyTokens EXCEPT ![w.node] = @ - 1]
              /\ \/ ~w.genuine /\ drop /\ UNCHANGED storeTokens
                 \/ w.genuine /\ storeTokens = 0 /\ drop /\ UNCHANGED storeTokens
                 \/ /\ w.genuine /\ storeTokens > 0
                    /\ storeTokens' = storeTokens - 1
                    /\ chatTask' = [chatTask EXCEPT ![t].pc = "persist"]
        /\ UNCHANGED <<wirelog, torn, known, wireReplayed, chatFaults, refills>>

(* RateLimiter::allow refills by the time that has passed.                  *)
Refill ==
    /\ refills < MaxRefills /\ refills' = refills + 1
    /\ \/ \E n \in ChatNode : /\ verifyTokens[n] < VerifyBurst
                              /\ verifyTokens' = [verifyTokens EXCEPT ![n] = @ + 1]
                              /\ UNCHANGED storeTokens
       \/ /\ storeTokens < StoreBurst /\ storeTokens' = storeTokens + 1
          /\ UNCHANGED verifyTokens
    /\ UNCHANGED <<wirelog, torn, known, chatTask, wireReplayed, chatFaults>>

(* The append: a line that follows a torn one is joined to it.              *)
WireAppended(id) ==
    IF torn THEN [wirelog EXCEPT ![Len(wirelog)] = Garbled] ELSE Append(wirelog, id)

(* Compaction keeps the newest WIRELOG_CAP lines, garbled ones included, and *)
(* the ids are those of the lines kept.                                      *)
Newest(lines) ==
    IF Len(lines) <= WireLogCap THEN lines
    ELSE SubSeq(lines, 1 + Len(lines) - WireLogCap, Len(lines))
Overfull(ids) == Len(ids) > WireLogCap + CompactSlack

(* persist_wire: under the lock the id is looked up again, the line          *)
(* appended and the log compacted.                                           *)
PersistWire(t) ==
    LET id == chatTask[t].wire.id
        lines == WireAppended(id)
        ids == Append(RoomIds, id)
    IN  /\ chatTask[t].pc = "persist"
        /\ chatTask' = [chatTask EXCEPT ![t] = FreeTask]
        /\ \/ /\ Contains(RoomIds, id)
              /\ known' = RoomIds /\ UNCHANGED <<wirelog, torn, chatFaults>>
           \/ /\ ~Contains(RoomIds, id) /\ torn' = FALSE /\ UNCHANGED chatFaults
              /\ IF Overfull(ids)
                 THEN wirelog' = Newest(lines) /\ known' = LineIds(Newest(lines))
                 ELSE wirelog' = lines /\ known' = ids
           \/ /\ ~Contains(RoomIds, id) /\ known' = RoomIds
              /\ chatFaults < MaxChatFaults /\ chatFaults' = chatFaults + 1
              /\ wirelog' = IF torn THEN wirelog ELSE Append(wirelog, Garbled)
              /\ torn' = TRUE
        /\ UNCHANGED <<verifyTokens, storeTokens, wireReplayed, refills>>

(* handle_history_request: answered from the file, throttled per node and    *)
(* for all nodes; the answer itself changes nothing here.                    *)
HistoryRequest(n) ==
    /\ wireReplayed = {} /\ wireReplayed' = {n}
    /\ UNCHANGED <<wirelog, torn, known, chatTask, verifyTokens, storeTokens,
                   chatFaults, refills>>
ReplayThrottleElapses ==
    /\ wireReplayed # {} /\ wireReplayed' = {}
    /\ UNCHANGED <<wirelog, torn, known, chatTask, verifyTokens, storeTokens,
                   chatFaults, refills>>

(* The daemon stops, maybe in the middle of an append, and starts again.    *)
ChatRestart ==
    /\ chatFaults < MaxChatFaults /\ chatFaults' = chatFaults + 1
    /\ \/ UNCHANGED <<wirelog, torn>>
       \/ /\ \E t \in WireTask : chatTask[t].pc = "persist"
          /\ ~torn /\ torn' = TRUE /\ wirelog' = Append(wirelog, Garbled)
    /\ known' = NotLoaded /\ wireReplayed' = {}
    /\ chatTask' = [t \in WireTask |-> FreeTask]
    /\ verifyTokens' = [n \in ChatNode |-> VerifyBurst] /\ storeTokens' = StoreBurst
    /\ UNCHANGED refills

ChatNext ==
    \/ \E t \in WireTask :
        (\E w \in ChatWire : HandleWire(t, w)) \/ VerifyWire(t) \/ PersistWire(t)
    \/ \E n \in ChatNode : HistoryRequest(n)
    \/ Refill \/ ReplayThrottleElapses \/ ChatRestart

ChatSpec == ChatInit /\ [][ChatNext]_chatVars

(***************************************************************************)
(* Properties                                                              *)
(***************************************************************************)
(* Types of the state.                                                      *)
ChatTypeOK ==
    /\ wirelog \in Seq(WireId \cup {Garbled})
    /\ known = NotLoaded \/ known \in Seq(WireId)
    /\ \A t \in WireTask : chatTask[t].pc \in {"free", "verify", "persist"}
    /\ storeTokens \in 0..StoreBurst

(* The log holds each wire once, although copies of it are verified by       *)
(* several tasks at a time, arrive again while the log is compacted, or come *)
(* back from another relay's history after a restart; and what memory counts *)
(* never falls behind the readable lines, so the log does not outgrow its    *)
(* cap.                                                                      *)
WireLogOnce ==
    /\ IsInjective(LineIds(wirelog))
    /\ known # NotLoaded =>
        \A i \in DOMAIN wirelog : wirelog[i] = Garbled \/ Contains(known, wirelog[i])
==============================================================================
