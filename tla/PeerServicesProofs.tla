------------------------- MODULE PeerServicesProofs -------------------------
(***************************************************************************)
(* Proofs about the services of MCPeerServices, for every instance of them:*)
(* the graph editor of the tunnels (GraphInStep), the history of direct    *)
(* messages (ConversationsSaved), the meters and tokens of authorization   *)
(* (UsageCounted, TokensStayRevoked), the authorization of connections and *)
(* the forwards of tunnels, the access to shared folders and the           *)
(* capabilities.  The services share no state, so each has an inductive    *)
(* invariant and a specification of its own; the last section puts them    *)
(* together (AtMostOnce, OperatorConsent, DecisionsSettled,                *)
(* StreamsIntact).                                                         *)
(***************************************************************************)
EXTENDS PeerComponentProofs

-----------------------------------------------------------------------------
(***************************************************************************)
(* Proofs about the graph editor of the tunnels: outside a change of room  *)
(* the forwards that run are the saved ones, and a command is reported as  *)
(* applied only if the owner applied it (GraphInStep), for any rooms,      *)
(* edges, commands and limits.  The invariant adds the shape of commands   *)
(* and messages, and that a positive reply on the wire is to a command     *)
(* that was applied.                                                       *)
(***************************************************************************)

GraphCmdState ==
    {NewCmd} \cup [at : {"waiting", "confirmed", "refused", "unknown"}, act : GraphAction]
GraphOrder == [id : GraphCmd, act : GraphAction]
GraphWire ==
    [room : GraphRoom, id : GraphCmd,
     body : [t : {"command"}, act : GraphAction] \cup [t : {"reply"}, ok : BOOLEAN]]

(* What GraphTypeOK says, with the shape of commands and messages.          *)
GraphShape ==
    /\ gRoom \in [name : GraphRoom, suspended : BOOLEAN]
    /\ saved \in Saved /\ graphFile \in [GraphRoom -> Saved]
    /\ gRunning \subseteq GraphTarget
    /\ inbox \in Seq(GraphOrder) /\ Len(inbox) <= InboxCap
    /\ cmd \in [GraphCmd -> GraphCmdState]
    /\ wire \subseteq GraphWire
    /\ done \subseteq GraphCmd
    /\ graphEvents \in 0..MaxGraphEvents

(* A reply that reports success was sent by an owner that applied the       *)
(* command.                                                                 *)
RepliesTrue == \A m \in wire : m.body.t = "reply" /\ m.body.ok => m.id \in done

GraphInv == GraphShape /\ GraphInStep /\ RepliesTrue

LEMMA EditedOK ==
    ASSUME NEW act \in GraphAction, NEW before \in Saved
    PROVE  /\ Edited(act, before) \in Saved
           /\ Edited(act, before).forwards =
                IF act.a = "add" THEN before.forwards \cup {act.target}
                ELSE before.forwards \ {act.target}
BY DEF Edited, GraphAction, Saved

LEMMA GraphApplyOK ==
    ASSUME GraphInv, NEW act \in GraphAction, GraphApply(act) \/ GraphApplyFails(act)
    PROVE  /\ saved' \in Saved /\ graphFile' \in [GraphRoom -> Saved]
           /\ gRunning' \subseteq GraphTarget
           /\ ~gRoom.suspended => gRunning' = saved'.forwards
<1>1. gRoom.name \in GraphRoom /\ saved \in Saved /\ graphFile \in [GraphRoom -> Saved]
      /\ gRunning \subseteq GraphTarget /\ act.target \in GraphTarget
  BY DEF GraphInv, GraphShape, GraphAction
<1>2. Edited(act, saved) \in Saved
  BY <1>1, EditedOK
<1>3. CASE GraphApply(act)
  BY <1>1, <1>2, <1>3, EditedOK DEF GraphApply, GraphPersist, GraphInv, GraphInStep
<1>4. CASE GraphApplyFails(act)
  BY <1>1, <1>2, <1>4 DEF GraphApplyFails, GraphInv, GraphInStep
<1> QED BY <1>3, <1>4

LEMMA GraphEventOK ==
    ASSUME GraphInv, GraphEvent
    PROVE  graphEvents' \in 0..MaxGraphEvents
BY GraphAssumption DEF GraphInv, GraphShape, GraphEvent

LEMMA OwnerEditsOK ==
    ASSUME GraphInv, NEW act \in GraphAction, OwnerEdits(act)
    PROVE  GraphInv'
<1>1. /\ saved' \in Saved /\ graphFile' \in [GraphRoom -> Saved] /\ gRunning' \subseteq GraphTarget
      /\ ~gRoom.suspended => gRunning' = saved'.forwards
  BY GraphApplyOK DEF OwnerEdits
<1>2. graphEvents' \in 0..MaxGraphEvents
  BY GraphEventOK DEF OwnerEdits
<1> QED
  BY <1>1, <1>2 DEF OwnerEdits, GraphInv, GraphShape, GraphInStep, RepliesTrue

LEMMA OwnerSetsPolicyOK ==
    ASSUME GraphInv, NEW l \in BOOLEAN, NEW g \in BOOLEAN, OwnerSetsPolicy(l, g)
    PROVE  GraphInv'
<1> DEFINE next == [saved EXCEPT !.locked = l, !.granted = g]
<1>1. saved \in Saved /\ gRoom.name \in GraphRoom /\ graphFile \in [GraphRoom -> Saved]
  BY DEF GraphInv, GraphShape
<1>2. next \in Saved /\ next.forwards = saved.forwards
  BY <1>1 DEF Saved
<1>3. saved' = next /\ graphFile' = [graphFile EXCEPT ![gRoom.name] = next]
  BY DEF OwnerSetsPolicy, GraphPersist
<1>4. graphEvents' \in 0..MaxGraphEvents
  BY GraphEventOK DEF OwnerSetsPolicy
<1> HIDE DEF next
<1> QED
  BY <1>1, <1>2, <1>3, <1>4 DEF OwnerSetsPolicy, GraphInv, GraphShape, GraphInStep, RepliesTrue

LEMMA PeerCommandsOK ==
    ASSUME GraphInv, NEW c \in GraphCmd, NEW act \in GraphAction, PeerCommands(c, act)
    PROVE  GraphInv'
<1> DEFINE m == [room |-> gRoom.name, id |-> c, body |-> [t |-> "command", act |-> act]]
<1>1. m \in GraphWire /\ m.body.t = "command"
  BY DEF GraphInv, GraphShape, GraphWire
<1>2. [at |-> "waiting", act |-> act] \in GraphCmdState
  BY DEF GraphCmdState
<1>3. wire' = wire \cup {m} /\ cmd' = [cmd EXCEPT ![c] = [at |-> "waiting", act |-> act]]
  BY DEF PeerCommands
<1> HIDE DEF m
<1>4. GraphShape'
  BY <1>1, <1>2, <1>3 DEF PeerCommands, GraphInv, GraphShape
<1>5. GraphInStep'
  BY <1>3 DEF PeerCommands, GraphInv, GraphShape, GraphInStep
<1>6. RepliesTrue'
  BY <1>1, <1>3 DEF PeerCommands, GraphInv, RepliesTrue
<1> QED
  BY <1>4, <1>5, <1>6 DEF GraphInv

LEMMA ReceiveCommandOK ==
    ASSUME GraphInv, NEW m \in wire, ReceiveCommand(m)
    PROVE  GraphInv'
<1> DEFINE c == [id |-> m.id, act |-> m.body.act]
<1>1. m \in GraphWire /\ m.body.t = "command"
  BY DEF GraphInv, GraphShape, ReceiveCommand
<1>2. c \in GraphOrder
  BY <1>1 DEF GraphWire, GraphOrder
<1>3. inbox' = inbox \/ (Len(inbox) < InboxCap /\ inbox' = Append(inbox, c))
  BY DEF ReceiveCommand
<1> HIDE DEF c
<1>4. inbox' \in Seq(GraphOrder) /\ Len(inbox') <= InboxCap
  <2>1. inbox \in Seq(GraphOrder) /\ Len(inbox) <= InboxCap /\ InboxCap \in Nat
    BY GraphAssumption DEF GraphInv, GraphShape
  <2> QED BY <1>2, <1>3, <2>1, AppendOf
<1> QED
  BY <1>4 DEF ReceiveCommand, GraphInv, GraphShape, GraphInStep, RepliesTrue

LEMMA GraphTickOK ==
    ASSUME GraphInv, GraphTick
    PROVE  GraphInv'
<1> DEFINE c == inbox[1]
           reply(ok) == [room |-> gRoom.name, id |-> c.id, body |-> [t |-> "reply", ok |-> ok]]
<1>1. inbox \in Seq(GraphOrder) /\ inbox # <<>> /\ Len(inbox) <= InboxCap
      /\ InboxCap \in Nat
  BY GraphAssumption DEF GraphTick, GraphInv, GraphShape
<1>2. c \in GraphOrder
  BY <1>1, HeadTailOf
<1>3. inbox' \in Seq(GraphOrder) /\ Len(inbox') <= InboxCap
  BY <1>1, HeadTailOf DEF GraphTick
<1>4. \A ok \in BOOLEAN : reply(ok) \in GraphWire /\ reply(ok).body.ok = ok /\ reply(ok).id = c.id
  BY <1>2 DEF GraphInv, GraphShape, GraphWire, GraphOrder
<1> HIDE DEF c
<1>5. UNCHANGED <<gRoom, cmd>> /\ ~gRoom.suspended
  BY DEF GraphTick
<1>6. CASE GraphApply(c.act) /\ wire' = wire \cup {reply(TRUE)} /\ done' = done \cup {c.id}
           /\ UNCHANGED graphEvents
  <2>1. /\ saved' \in Saved /\ graphFile' \in [GraphRoom -> Saved] /\ gRunning' \subseteq GraphTarget
        /\ gRunning' = saved'.forwards
    BY <1>2, <1>5, <1>6, GraphApplyOK DEF GraphOrder
  <2>2. GraphShape'
    BY <1>2, <1>3, <1>4, <1>5, <1>6, <2>1 DEF GraphInv, GraphShape, GraphOrder
  <2>3. RepliesTrue'
    BY <1>4, <1>6 DEF GraphInv, RepliesTrue
  <2> QED BY <1>5, <1>6, <2>1, <2>2, <2>3 DEF GraphInv, GraphInStep
<1>7. CASE GraphEvent /\ GraphApplyFails(c.act) /\ wire' = wire \cup {reply(FALSE)} /\ UNCHANGED done
  <2>1. /\ saved' \in Saved /\ graphFile' \in [GraphRoom -> Saved] /\ gRunning' \subseteq GraphTarget
        /\ gRunning' = saved'.forwards
    BY <1>2, <1>5, <1>7, GraphApplyOK DEF GraphOrder
  <2>2. GraphShape'
    BY <1>2, <1>3, <1>4, <1>5, <1>7, <2>1, GraphEventOK DEF GraphInv, GraphShape
  <2>3. RepliesTrue'
    BY <1>4, <1>7 DEF GraphInv, RepliesTrue
  <2> QED BY <1>5, <1>7, <2>1, <2>2, <2>3 DEF GraphInv, GraphInStep
<1>8. CASE /\ wire' = wire \cup {reply(FALSE)} \/ UNCHANGED wire
           /\ UNCHANGED <<saved, graphFile, gRunning, done, graphEvents>>
  <2>2. GraphShape'
    BY <1>3, <1>4, <1>5, <1>8 DEF GraphInv, GraphShape
  <2>3. RepliesTrue'
    BY <1>4, <1>8 DEF GraphInv, RepliesTrue
  <2> QED BY <1>5, <1>8, <2>2, <2>3 DEF GraphInv, GraphInStep
<1> QED
  BY <1>6, <1>7, <1>8 DEF GraphTick, c

LEMMA ReceiveReplyOK ==
    ASSUME GraphInv, NEW m \in wire, ReceiveReply(m)
    PROVE  GraphInv'
<1> DEFINE at == IF m.body.ok THEN "confirmed" ELSE "refused"
<1>1. m \in GraphWire /\ m.body.t = "reply" /\ m.id \in GraphCmd
  BY DEF GraphInv, GraphShape, ReceiveReply, GraphWire
<1>2. m.body.ok => m.id \in done
  BY <1>1 DEF GraphInv, RepliesTrue
<1>3. CASE cmd[m.id].at = "waiting"
  <2>1. cmd[m.id] \in [at : {"waiting", "confirmed", "refused", "unknown"}, act : GraphAction]
    BY <1>1, <1>3 DEF GraphInv, GraphShape, GraphCmdState, NewCmd
  <2>2. [cmd[m.id] EXCEPT !.at = at] = [at |-> at, act |-> cmd[m.id].act]
    BY <2>1
  <2>3. cmd' = [cmd EXCEPT ![m.id] = [cmd[m.id] EXCEPT !.at = at]]
    BY <1>3 DEF ReceiveReply
  <2>4. cmd' = [cmd EXCEPT ![m.id] = [at |-> at, act |-> cmd[m.id].act]]
    BY <2>2, <2>3
  <2>5. cmd' \in [GraphCmd -> GraphCmdState]
    BY <1>1, <2>1, <2>4 DEF GraphInv, GraphShape, GraphCmdState
  <2>6. \A c \in GraphCmd : cmd'[c].at = "confirmed" => c \in done
    BY <1>1, <1>2, <2>4 DEF GraphInv, GraphShape, GraphInStep
  <2> QED
    BY <2>5, <2>6 DEF ReceiveReply, GraphInv, GraphShape, GraphInStep, RepliesTrue
<1>4. CASE cmd[m.id].at # "waiting"
  BY <1>4 DEF ReceiveReply, GraphInv, GraphShape, GraphInStep, RepliesTrue
<1> QED BY <1>3, <1>4

LEMMA CommandTimesOutOK ==
    ASSUME GraphInv, NEW c \in GraphCmd, CommandTimesOut(c)
    PROVE  GraphInv'
<1>1. cmd[c] \in [at : {"waiting", "confirmed", "refused", "unknown"}, act : GraphAction]
  BY DEF GraphInv, GraphShape, GraphCmdState, NewCmd, CommandTimesOut
<1>2. [cmd[c] EXCEPT !.at = "unknown"] = [at |-> "unknown", act |-> cmd[c].act]
  BY <1>1
<1>3. cmd' = [cmd EXCEPT ![c] = [cmd[c] EXCEPT !.at = "unknown"]]
  BY DEF CommandTimesOut
<1>4. cmd' = [cmd EXCEPT ![c] = [at |-> "unknown", act |-> cmd[c].act]]
  BY <1>2, <1>3
<1>5. cmd' \in [GraphCmd -> GraphCmdState]
  BY <1>1, <1>4 DEF GraphInv, GraphShape, GraphCmdState
<1>6. \A d \in GraphCmd : cmd'[d].at = "confirmed" => d \in done
  BY <1>4 DEF GraphInv, GraphShape, GraphInStep
<1> QED
  BY <1>5, <1>6 DEF CommandTimesOut, GraphInv, GraphShape, GraphInStep, RepliesTrue

LEMMA RoomStepOK ==
    ASSUME GraphInv, NEW r \in GraphRoom,
           SwitchRoomStarts(r) \/ SwitchRoomEnds(r) \/ GraphRestarts
    PROVE  GraphInv'
<1>0. /\ gRoom \in [name : GraphRoom, suspended : BOOLEAN]
      /\ saved \in Saved /\ graphFile \in [GraphRoom -> Saved]
      /\ \A s \in Saved : s.forwards \subseteq GraphTarget
  BY DEF GraphInv, GraphShape, Saved
<1>1. CASE SwitchRoomStarts(r)
  <2>1. gRoom' \in [name : GraphRoom, suspended : BOOLEAN] /\ gRoom'.suspended
    BY <1>0, <1>1 DEF SwitchRoomStarts
  <2>2. GraphShape'
    BY <1>1, <2>1, GraphEventOK DEF SwitchRoomStarts, GraphInv, GraphShape
  <2> QED
    BY <1>1, <2>1, <2>2 DEF SwitchRoomStarts, GraphInv, GraphInStep, RepliesTrue
<1>2. CASE SwitchRoomEnds(r)
  <2>1. gRoom' \in [name : GraphRoom, suspended : BOOLEAN] /\ saved' \in Saved
        /\ gRunning' = saved'.forwards /\ (inbox' = <<>> \/ UNCHANGED inbox)
    <3>1. CASE /\ gRoom' = [name |-> r, suspended |-> FALSE]
               /\ saved' = graphFile[r] /\ inbox' = <<>> /\ gRunning' = graphFile[r].forwards
      BY <1>0, <3>1
    <3>2. CASE /\ gRoom' = [gRoom EXCEPT !.suspended = FALSE]
               /\ gRunning' = saved.forwards /\ UNCHANGED <<saved, inbox>>
      BY <1>0, <3>2
    <3> QED BY <1>2, <3>1, <3>2 DEF SwitchRoomEnds
  <2>2. GraphShape'
    <3>1. CASE inbox' = <<>>
      BY <3>1, <1>0, <1>2, <2>1, GraphAssumption DEF SwitchRoomEnds, GraphInv, GraphShape
    <3>2. CASE UNCHANGED inbox
      BY <3>2, <1>0, <1>2, <2>1 DEF SwitchRoomEnds, GraphInv, GraphShape
    <3> QED BY <2>1, <3>1, <3>2 DEF SwitchRoomEnds, GraphInv, GraphShape
  <2> QED
    BY <1>2, <2>1, <2>2 DEF SwitchRoomEnds, GraphInv, GraphInStep, RepliesTrue
<1>3. CASE GraphRestarts
  <2>1. gRoom' \in [name : GraphRoom, suspended : BOOLEAN] /\ saved' \in Saved
        /\ gRunning' = saved'.forwards /\ inbox' = <<>>
    BY <1>0, <1>3 DEF GraphRestarts
  <2>2. GraphShape'
    BY <1>0, <1>3, <2>1, GraphAssumption, GraphEventOK DEF GraphRestarts, GraphInv, GraphShape
  <2> QED
    BY <1>3, <2>1, <2>2 DEF GraphRestarts, GraphInv, GraphInStep, RepliesTrue
<1> QED BY <1>1, <1>2, <1>3

LEMMA GraphInitOK == GraphInit => GraphInv
BY GraphAssumption DEF GraphInit, GraphInv, GraphShape, GraphInStep, RepliesTrue, DefaultSaved, Saved,
   GraphCmdState, NewCmd

LEMMA GraphStepOK == GraphInv /\ [GraphNext]_graphVars => GraphInv'
<1> SUFFICES ASSUME GraphInv, [GraphNext]_graphVars PROVE GraphInv'
  OBVIOUS
<1>1. CASE UNCHANGED graphVars
  BY <1>1 DEF graphVars, GraphInv, GraphShape, GraphInStep, RepliesTrue
<1>2. ASSUME NEW act \in GraphAction, OwnerEdits(act) PROVE GraphInv'
  BY <1>2, OwnerEditsOK
<1>3. ASSUME NEW act \in GraphAction, NEW c \in GraphCmd, PeerCommands(c, act) PROVE GraphInv'
  BY <1>3, PeerCommandsOK
<1>4. ASSUME NEW l \in BOOLEAN, NEW g \in BOOLEAN, OwnerSetsPolicy(l, g) PROVE GraphInv'
  BY <1>4, OwnerSetsPolicyOK
<1>5. ASSUME NEW m \in wire, ReceiveCommand(m) \/ ReceiveReply(m) PROVE GraphInv'
  BY <1>5, ReceiveCommandOK, ReceiveReplyOK
<1>6. CASE GraphTick
  BY <1>6, GraphTickOK
<1>7. ASSUME NEW c \in GraphCmd, CommandTimesOut(c) PROVE GraphInv'
  BY <1>7, CommandTimesOutOK
<1>8. ASSUME NEW r \in GraphRoom, SwitchRoomStarts(r) \/ SwitchRoomEnds(r) PROVE GraphInv'
  BY <1>8, RoomStepOK
<1>9. CASE GraphRestarts
  BY <1>9, RoomStepOK, GraphAssumption
<1> QED
  BY <1>1, <1>2, <1>3, <1>4, <1>5, <1>6, <1>7, <1>8, <1>9 DEF GraphNext

LEMMA GraphShapeIsType == GraphShape => GraphTypeOK
BY DEF GraphShape, GraphTypeOK, GraphOrder, GraphCmdState, GraphWire, NewCmd

(* Graphs, commands and messages of the editor keep their types.           *)
THEOREM GraphTypeCorrect == GraphSpec => []GraphTypeOK
<1>1. GraphInv => GraphTypeOK BY GraphShapeIsType DEF GraphInv
<1> QED BY <1>1, GraphInitOK, GraphStepOK, PTL DEF GraphSpec

(* graph.rs keeps running what it saved through edits, failed writes, room *)
(* changes and restarts, and confirms to a peer only what it applied.      *)
THEOREM ForwardsInStep == GraphSpec => []GraphInStep
<1>1. GraphInv => GraphInStep BY DEF GraphInv
<1> QED BY <1>1, GraphInitOK, GraphStepOK, PTL DEF GraphSpec

-----------------------------------------------------------------------------
(***************************************************************************)
(* Direct messages: the history is written by flushes that take their work *)
(* under the lock and do it after.  The invariant speaks of the files as   *)
(* they will be when the flush under way is done: a conversation that is   *)
(* not queued is there as it is in memory, and none is about to be deleted.*)
(***************************************************************************)

(* What the file of p will hold once the flush under way is done.           *)
FileToBe(p) ==
    IF dmFlush.taken THEN FilesAfter(dmFlush.deletes, dmFlush.writes)[p] ELSE convFiles[p]

Conversation(c) == c = [exists |-> c.exists, unread |-> c.unread,
                        updated |-> c.updated, messages |-> c.messages]
Conversations(table) ==
    table = [p \in DmPeer |-> table[p]] /\ \A p \in DmPeer : Conversation(table[p])

(* A conversation is queued to be written, or its file holds it when the    *)
(* flush under way is done; none is queued to be deleted.                   *)
HistoryInv ==
    /\ Conversations(convs) /\ Conversations(convFiles) /\ Conversations(dmFlush.bytes)
    /\ \A p \in Existing(convs) : p \notin removed /\ (p \in dirty \/ FileToBe(p) = convs[p])

(* An operation that queues every conversation it changes keeps this.       *)
LEMMA ChangedQueued ==
    ASSUME HistoryInv, UNCHANGED <<convFiles, dmFlush>>,
           Conversations(convs'),
           \A p \in Existing(convs') : \/ p \in dirty' /\ p \notin removed'
                                       \/ /\ convs'[p] = convs[p]
                                          /\ p \in dirty => p \in dirty'
                                          /\ p \in removed' => p \in removed
    PROVE  HistoryInv'
<1>1. \A p \in DmPeer : FileToBe(p)' = FileToBe(p)
  BY DEF FileToBe, FilesAfter
<1>2. Conversations(convs') /\ Conversations(convFiles') /\ Conversations(dmFlush.bytes')
  BY DEF HistoryInv
<1>3. ASSUME NEW p \in Existing(convs')
      PROVE  p \notin removed' /\ (p \in dirty' \/ FileToBe(p)' = convs'[p])
  <2>1. p \in DmPeer /\ convs'[p].exists
    BY DEF Existing
  <2>2. CASE convs'[p] = convs[p] /\ (p \in dirty => p \in dirty') /\ (p \in removed' => p \in removed)
    <3>1. p \in Existing(convs)
      BY <2>1, <2>2 DEF Existing
    <3> QED BY <1>1, <2>1, <2>2, <3>1 DEF HistoryInv
  <2> QED BY <1>3, <2>2
<1> QED BY <1>2, <1>3 DEF HistoryInv

LEMMA AddQueued ==
    ASSUME HistoryInv, NEW p \in DmPeer, NEW message, NEW remote, HistoryAdd(p, message, remote),
           UNCHANGED <<convFiles, dmFlush>>
    PROVE  HistoryInv'
<1>0. PICK victim \in (IF NeedsRoom(p) THEN Victims(remote) ELSE {p}) :
        LET roomy == IF NeedsRoom(p) THEN [convs EXCEPT ![victim] = NoConv] ELSE convs
            c == roomy[p]
            evicted == IF NeedsRoom(p) THEN {victim} ELSE {}
        IN  /\ convs' = [roomy EXCEPT ![p] =
                   [exists |-> TRUE, unread |-> IF remote THEN 1 ELSE c.unread,
                    updated |-> Max({dmNow, c.updated}),
                    messages |-> TrimMessages(Append(c.messages, message))]]
            /\ dirty' = (dirty \ evicted) \cup {p}
            /\ removed' = (removed \cup evicted) \ {p}
  BY DEF HistoryAdd
<1> DEFINE roomy == IF NeedsRoom(p) THEN [convs EXCEPT ![victim] = NoConv] ELSE convs
           evicted == IF NeedsRoom(p) THEN {victim} ELSE {}
<1>1. PICK c : convs' = [roomy EXCEPT ![p] = c] /\ Conversation(c)
  <2>1. PICK n, u, s : convs' = [roomy EXCEPT ![p] =
                           [exists |-> TRUE, unread |-> n, updated |-> u, messages |-> s]]
    BY <1>0
  <2>2. Conversation([exists |-> TRUE, unread |-> n, updated |-> u, messages |-> s])
    BY DEF Conversation
  <2> QED BY <2>1, <2>2
<1>2. dirty' = (dirty \ evicted) \cup {p} /\ removed' = (removed \cup evicted) \ {p}
  BY <1>0
<1>3. /\ DOMAIN convs = DmPeer /\ convs = [q \in DmPeer |-> convs[q]]
      /\ \A q \in DmPeer : Conversation(convs[q])
  BY DEF HistoryInv, Conversations
<1>4. /\ roomy = [q \in DmPeer |-> roomy[q]]
      /\ \A q \in DmPeer : q \notin evicted => roomy[q] = convs[q]
      /\ \A q \in DmPeer : q \in evicted => ~roomy[q].exists
      /\ \A q \in DmPeer : Conversation(roomy[q])
  BY <1>3 DEF NoConv, Conversation
<1> HIDE DEF roomy, evicted
<1>5. Conversations(convs') /\ \A q \in DmPeer : q # p => convs'[q] = roomy[q]
  BY <1>1, <1>4 DEF Conversations
<1>6. ASSUME NEW q \in Existing(convs')
      PROVE  \/ q \in dirty' /\ q \notin removed'
             \/ /\ convs'[q] = convs[q] /\ (q \in dirty => q \in dirty')
                /\ (q \in removed' => q \in removed)
  <2>1. q \in DmPeer /\ convs'[q].exists
    BY DEF Existing
  <2>2. CASE q # p
    BY <1>2, <1>4, <1>5, <2>1, <2>2
  <2> QED BY <1>2, <2>2
<1> QED BY <1>5, <1>6, ChangedQueued

LEMMA HistoryNext ==
    ASSUME HistoryInv, DmNext
    PROVE  HistoryInv'
<1>0. /\ DOMAIN convs = DmPeer /\ convs = [q \in DmPeer |-> convs[q]]
      /\ \A q \in DmPeer : Conversation(convs[q])
  BY DEF HistoryInv, Conversations
<1>1. ASSUME UNCHANGED <<historyVars, convFiles, dmFlush>> PROVE HistoryInv'
  BY <1>1, ChangedQueued DEF historyVars, HistoryInv
<1>2. ASSUME NEW p \in DmPeer, NEW c, convs' = [convs EXCEPT ![p] = c], Conversation(c),
             c.exists = convs[p].exists, c # convs[p] => p \in dirty', dirty \subseteq dirty',
             removed' = removed, UNCHANGED <<convFiles, dmFlush>>
      PROVE  HistoryInv'
  <2>1. Conversations(convs') /\ convs'[p] = c /\ \A q \in DmPeer : q # p => convs'[q] = convs[q]
    BY <1>0, <1>2 DEF Conversations
  <2>2. ASSUME NEW q \in Existing(convs')
        PROVE  \/ q \in dirty' /\ q \notin removed'
               \/ /\ convs'[q] = convs[q] /\ (q \in dirty => q \in dirty')
                  /\ (q \in removed' => q \in removed)
    <3>1. q \in DmPeer /\ convs'[q].exists /\ convs[q].exists
      BY <1>2, <2>1 DEF Existing
    <3>2. q \notin removed
      BY <3>1 DEF HistoryInv, Existing
    <3> QED BY <1>2, <2>1, <3>1, <3>2
  <2> QED BY <1>2, <2>1, <2>2, ChangedQueued
<1>3. ASSUME NEW m \in DmWire, InboundMessage(m) PROVE HistoryInv'
  <2>1. m.from \in DmPeer /\ UNCHANGED <<convFiles, dmFlush>>
    BY <1>3, DmAssumption DEF InboundMessage
  <2>2. CASE UNCHANGED historyVars
    BY <1>1, <2>1, <2>2
  <2>3. CASE HistoryAdd(m.from, [id |-> m.id, mine |-> FALSE, status |-> "received"], TRUE)
    BY <2>1, <2>3, AddQueued
  <2> QED BY <1>3, <2>2, <2>3 DEF InboundMessage
<1>4. ASSUME NEW p \in DmPeer, NEW id, InboundAck(p, id) PROVE HistoryInv'
  <2>1. /\ convs' = MarkDelivered(p, id) /\ dirty' = IF convs' # convs THEN dirty \cup {p} ELSE dirty
        /\ UNCHANGED <<removed, convFiles, dmFlush>>
    BY <1>4 DEF InboundAck
  <2>2. PICK s : convs' = [convs EXCEPT ![p] = [convs[p] EXCEPT !.messages = s]]
    BY <1>0, <2>1 DEF MarkDelivered
  <2> DEFINE c == [convs[p] EXCEPT !.messages = s]
  <2>3. Conversation(c) /\ c.exists = convs[p].exists
    BY <1>0 DEF Conversation
  <2> HIDE DEF c
  <2>4. c # convs[p] => convs' # convs
    BY <1>0, <2>2 DEF c
  <2> QED BY <1>2, <2>1, <2>2, <2>3, <2>4 DEF c
<1>5. ASSUME NEW p \in DmPeer, SendRecords(p) PROVE HistoryInv'
  <2>1. PICK message : HistoryAdd(p, message, FALSE) /\ UNCHANGED <<convFiles, dmFlush>>
    BY <1>5 DEF SendRecords
  <2> QED BY <2>1, AddQueued
<1>6. ASSUME NEW p \in DmPeer, MarkRead(p) PROVE HistoryInv'
  <2> DEFINE c == [convs[p] EXCEPT !.unread = 0]
  <2>1. /\ convs' = [convs EXCEPT ![p] = c] /\ dirty' = dirty \cup {p}
        /\ UNCHANGED <<removed, convFiles, dmFlush>>
    BY <1>0, <1>6 DEF MarkRead
  <2>2. Conversation(c) /\ c.exists = convs[p].exists
    BY <1>0 DEF Conversation
  <2> HIDE DEF c
  <2> QED BY <1>2, <2>1, <2>2
<1>7. ASSUME NEW p \in DmPeer, ClearConv(p) PROVE HistoryInv'
  <2>1. /\ convs' = [convs EXCEPT ![p] = NoConv] /\ dirty' = dirty \ {p} /\ removed' = removed \cup {p}
        /\ UNCHANGED <<convFiles, dmFlush>>
    BY <1>7 DEF ClearConv
  <2>2. /\ Conversations(convs') /\ ~convs'[p].exists
        /\ \A q \in DmPeer : q # p => convs'[q] = convs[q]
    BY <1>0, <2>1 DEF Conversations, Conversation, NoConv
  <2> QED BY <2>1, <2>2, ChangedQueued DEF Existing
<1>8. CASE FlushTakesWork
  <2>1. /\ ~dmFlush.taken /\ dirty' = {} /\ removed' = {} /\ UNCHANGED <<convs, convFiles>>
        /\ dmFlush' = [taken |-> TRUE, deletes |-> removed, writes |-> dirty \cap Existing(convs),
                       bytes |-> convs]
    BY <1>8 DEF FlushTakesWork
  <2>2. ASSUME NEW p \in Existing(convs) PROVE FileToBe(p)' = convs[p]
    <3>1. p \in DmPeer /\ p \notin removed /\ (p \in dirty \/ convFiles[p] = convs[p])
      BY <2>1 DEF HistoryInv, FileToBe, Existing
    <3> QED BY <2>1, <3>1 DEF FileToBe, FilesAfter
  <2> QED BY <2>1, <2>2 DEF HistoryInv
<1>9. ASSUME NEW deleted, NEW written, dmFlush.taken, dmFlush' = NoWork,
             convFiles' = FilesAfter(deleted, written)
      PROVE  Conversations(convFiles') /\ Conversations(dmFlush.bytes')
  <2>1. /\ \A p \in DmPeer : Conversation(dmFlush.bytes[p]) /\ Conversation(convFiles[p])
        /\ Conversation(NoConv)
    BY DEF HistoryInv, Conversations, Conversation, NoConv
  <2>2. dmFlush.bytes' = [p \in DmPeer |-> NoConv]
    BY <1>9 DEF NoWork
  <2>3. Conversations(convFiles')
    BY <1>9, <2>1 DEF FilesAfter, Conversations
  <2> QED BY <2>1, <2>2, <2>3 DEF Conversations
<1>10. CASE ApplyPending
  <2>1. /\ dmFlush.taken /\ dmFlush' = NoWork /\ UNCHANGED <<convs, dirty, removed>>
        /\ convFiles' = FilesAfter(dmFlush.deletes, dmFlush.writes)
    BY <1>10 DEF ApplyPending, historyVars
  <2>2. \A p \in DmPeer : FileToBe(p)' = FileToBe(p)
    BY <2>1 DEF FileToBe, NoWork
  <2> QED BY <1>9, <2>1, <2>2 DEF HistoryInv, Existing
<1>11. CASE ApplyPendingFails
  <2>1. /\ dmFlush.taken /\ dmFlush' = NoWork /\ UNCHANGED <<convs, removed>>
        /\ dirty' = dirty \cup Existing(convs)
    BY <1>11 DEF ApplyPendingFails
  <2>2. PICK deleted, written : convFiles' = FilesAfter(deleted, written)
    BY <1>11 DEF ApplyPendingFails
  <2> QED BY <1>9, <2>1, <2>2 DEF HistoryInv
<1>12. CASE DmRestart
  <2>1. PICK loaded \in SUBSET Existing(convFiles) :
           convs' = [p \in DmPeer |-> IF p \in loaded THEN convFiles[p] ELSE NoConv]
    BY <1>12 DEF DmRestart
  <2>2. removed' = {} /\ dmFlush' = NoWork /\ convFiles' = convFiles
    BY <1>12 DEF DmRestart
  <2>3. /\ \A p \in DmPeer : Conversation(convFiles[p])
        /\ Conversation(NoConv) /\ ~NoConv.exists
    BY DEF HistoryInv, Conversations, Conversation, NoConv
  <2>4. /\ Conversations(convs') /\ Conversations(convFiles') /\ Conversations(dmFlush.bytes')
    BY <2>1, <2>2, <2>3 DEF Conversations, NoWork, HistoryInv
  <2>5. ASSUME NEW p \in Existing(convs') PROVE FileToBe(p)' = convs'[p]
    BY <2>1, <2>2, <2>3 DEF FileToBe, Existing, NoWork
  <2> QED BY <2>2, <2>4, <2>5 DEF HistoryInv
<1>13. CASE DmTick
  BY <1>1, <1>13 DEF DmTick
<1>14. ASSUME NEW m \in DmWire, InboundForged(m) PROVE HistoryInv'
  BY <1>1, <1>14 DEF InboundForged
<1>15. ASSUME NEW p \in DmPeer, NEW id, NEW ok, SendRoutes(p, id, ok) PROVE HistoryInv'
  BY <1>1, <1>15 DEF SendRoutes
<1> QED
  BY <1>3, <1>4, <1>5, <1>6, <1>7, <1>8, <1>10, <1>11, <1>12, <1>13, <1>14, <1>15 DEF DmNext

LEMMA HistoryInvariant ==
    DmSpec => []HistoryInv
<1>1. DmInit => HistoryInv
  BY DEF DmInit, HistoryInv, Conversations, Conversation, NoConv, NoWork, Existing
<1>2. HistoryInv /\ [DmNext]_dmVars => HistoryInv'
  <2>1. HistoryInv /\ UNCHANGED dmVars => HistoryInv'
    BY DEF dmVars, HistoryInv, Existing, FileToBe, FilesAfter
  <2> QED BY <2>1, HistoryNext
<1> QED BY <1>1, <1>2, PTL DEF DmSpec

(* Every conversation reaches its file (history.rs flush, mark_all_dirty),  *)
(* for any peers, messages and caps: whichever deletions and writes of a    *)
(* flush fail and whatever is received, sent, read, cleared or evicted      *)
(* while it runs.                                                           *)
THEOREM HistorySaved == DmSpec => []ConversationsSaved
<1>1. HistoryInv => ConversationsSaved
  BY DEF HistoryInv, ConversationsSaved, FileToBe
<1> QED BY <1>1, HistoryInvariant, PTL

-----------------------------------------------------------------------------
(***************************************************************************)
(* Usage meters: accounts with limits of different periods share the       *)
(* overflow meter.  UsageCounted is inductive only together with the reason*)
(* why a rollover does not discard what still counts: the meter runs for a *)
(* period at least as long as any it was charged with, and its start is the*)
(* start of that period today (Counts).  The same holds of the file and of *)
(* what was charged when it was written, which a restart goes back to.     *)
(***************************************************************************)

UsageMeter == [start : Nat, requests : Nat, longest : Period \cup {NoLimits}]
UsageToken == [limits : UsageLimits, revoked : BOOLEAN]
UsageGrant == [account : Account, limits : UsageLimits]

StartOn(t, period) ==
    CASE period = "day" -> t
      [] period = "month" -> t - (t % MonthDays)
      [] period = "total" -> 0

(* On day t the meter m counts n requests charged with the given period: it *)
(* runs for a period at least as long, which has not ended.                 *)
Counts(m, t, period, n) ==
    /\ m.longest \in Period /\ PeriodRank(m.longest) >= PeriodRank(period)
    /\ m.start = StartOn(t, m.longest)
    /\ m.requests >= n

(* The table f counts what c says was charged to the overflow account.      *)
MetersCount(f, c, t) ==
    /\ c \in [Period -> Nat]
    /\ IsFiniteSet(DOMAIN f) /\ ValidUsage(f)
    /\ Overflow \in DOMAIN f => f[Overflow] \in UsageMeter
    /\ \A p \in Period : c[p] > 0 => Overflow \in DOMAIN f /\ Counts(f[Overflow], t, p, c[p])

UsageInv ==
    /\ today \in Nat /\ access.limits \in UsageLimits
    /\ tokens \in [ApiToken -> UsageToken \cup {NoLimits}]
    /\ tokensFile \in [ApiToken -> UsageToken \cup {NoLimits}]
    /\ authorized \in [UsageTask -> UsageGrant \cup {NoLimits}]
    /\ MetersCount(meters, charged, today) /\ MetersCount(usageFile, chargedSaved, today)

LEMMA PeriodFacts ==
    ASSUME NEW t \in Nat, NEW p \in Period
    PROVE  /\ StartOn(t, p) \in Nat /\ PeriodRank(p) \in 0..2
           /\ StartOn(t, "day") = t /\ StartOn(t, "total") = 0
           /\ StartOn(t, "month") = t - (t % MonthDays)
           /\ PeriodRank("day") = 0 /\ PeriodRank("month") = 1 /\ PeriodRank("total") = 2
           /\ (t = today => PeriodStart(p) = StartOn(t, p))
<1>1. MonthDays \in Nat \ {0}
  BY UsageAssumption
<1>2. t - (t % MonthDays) \in Nat
  <2>1. PICK q \in Nat : t = MonthDays * q + (t % MonthDays)
    BY <1>1, RemainderOf
  <2>2. t % MonthDays \in 0..(MonthDays - 1)
    BY <1>1, RemainderRange
  <2>3. MonthDays * q \in Nat
    BY <1>1
  <2>4. ASSUME NEW r \in Nat, NEW s \in Nat, t = s + r PROVE t - r \in Nat
    BY <2>4
  <2>5. t % MonthDays \in Nat
    BY <1>1, <2>2
  <2> QED BY <2>1, <2>3, <2>4, <2>5
<1>3. /\ StartOn(t, "day") = t /\ StartOn(t, "total") = 0
      /\ StartOn(t, "month") = t - (t % MonthDays)
  BY DEF StartOn
<1>4. PeriodRank("day") = 0 /\ PeriodRank("month") = 1 /\ PeriodRank("total") = 2
  BY DEF PeriodRank
<1>5. t = today => PeriodStart(p) = StartOn(t, p)
  BY DEF PeriodStart, StartOn
<1>6. p = "day" \/ p = "month" \/ p = "total"
  BY DEF Period
<1> QED BY <1>2, <1>3, <1>4, <1>5, <1>6

LEMMA MeterForms ==
    ASSUME NEW m \in UsageMeter
    PROVE  /\ m.start \in Nat /\ m.requests \in Nat /\ m.longest \in Period \cup {NoLimits}
           /\ \A x : [m EXCEPT !.longest = x] =
                     [start |-> m.start, requests |-> m.requests, longest |-> x]
           /\ [m EXCEPT !.requests = @ + 1] =
                     [start |-> m.start, requests |-> m.requests + 1, longest |-> m.longest]
BY DEF UsageMeter

(* The overflow meter goes over to the longest period used with it, and     *)
(* keeps on counting whatever it counted.                                   *)
LEMMA OverflowRolls ==
    ASSUME today \in Nat, NEW m \in UsageMeter, NEW period \in Period
    PROVE  LET r == RolloverAccount(m, Overflow, period) IN
           /\ r \in UsageMeter /\ Counts(r, today, period, 0)
           /\ \A p \in Period, n \in Nat : Counts(m, today, p, n) => Counts(r, today, p, n)
<1> DEFINE r == RolloverAccount(m, Overflow, period)
           roll(x) == Rollover(m, x)
<1>1. /\ m.start \in Nat /\ m.requests \in Nat /\ m.longest \in Period \cup {NoLimits}
      /\ NoLimits \notin Period
  BY MeterForms, UsageAssumption
<1>2. ASSUME NEW x \in Period
      PROVE  /\ roll(x) \in UsageMeter /\ roll(x).start = StartOn(today, x)
             /\ roll(x).longest = m.longest
             /\ m.start = StartOn(today, x) => roll(x) = m
  <2>1. PeriodStart(x) = StartOn(today, x) /\ StartOn(today, x) \in Nat
    BY PeriodFacts
  <2>2. CASE m.start = StartOn(today, x)
    BY <2>1, <2>2 DEF Rollover
  <2>3. CASE m.start # StartOn(today, x)
    <3>1. roll(x) = [start |-> StartOn(today, x), requests |-> 0, longest |-> m.longest]
      <4>1. roll(x) = [m EXCEPT !.start = PeriodStart(x), !.requests = 0]
        BY <2>1, <2>3 DEF Rollover
      <4>2. roll(x) = [start |-> PeriodStart(x), requests |-> 0, longest |-> m.longest]
        BY <4>1 DEF UsageMeter
      <4> HIDE DEF roll
      <4> QED BY <2>1, <4>2
    <3> HIDE DEF roll
    <3> QED BY <1>1, <2>1, <2>3, <3>1 DEF UsageMeter
  <2> QED BY <2>2, <2>3
<1>3. \A p \in Period : PeriodRank(p) \in Nat /\ PeriodStart(p) = StartOn(today, p) /\ StartOn(today, p) \in Nat
  BY PeriodFacts
<1>4. CASE m.longest = NoLimits
  <2>1. r = [roll(period) EXCEPT !.longest = period]
    BY <1>4 DEF RolloverAccount
  <2>2. roll(period) \in UsageMeter /\ roll(period).start = StartOn(today, period)
    BY <1>2
  <2>3. r = [start |-> StartOn(today, period), requests |-> roll(period).requests, longest |-> period]
    BY <2>1, <2>2, MeterForms
  <2>4. roll(period).requests \in Nat
    BY <2>2, MeterForms
  <2> HIDE DEF r, roll
  <2>5. /\ r \in UsageMeter /\ r.start = StartOn(today, period) /\ r.longest = period
        /\ r.requests >= 0
    BY <1>3, <2>3, <2>4 DEF UsageMeter
  <2>6. Counts(r, today, period, 0)
    BY <1>3, <2>5 DEF Counts
  <2>7. \A p \in Period, n \in Nat : ~Counts(m, today, p, n)
    BY <1>1, <1>4 DEF Counts
  <2> QED BY <2>5, <2>6, <2>7 DEF r
<1>5. CASE m.longest # NoLimits /\ PeriodRank(period) > PeriodRank(m.longest)
  <2>1. r = [start |-> StartOn(today, period), requests |-> m.requests, longest |-> period]
    <3>1. r = [m EXCEPT !.longest = period, !.start = PeriodStart(period)]
      BY <1>5 DEF RolloverAccount
    <3>2. r = [start |-> PeriodStart(period), requests |-> m.requests, longest |-> period]
      BY <3>1 DEF UsageMeter
    <3> HIDE DEF r
    <3> QED BY <1>3, <3>2
  <2> HIDE DEF r
  <2>2. /\ r \in UsageMeter /\ r.start = StartOn(today, period) /\ r.longest = period
        /\ r.requests = m.requests
    BY <1>1, <1>3, <2>1 DEF UsageMeter
  <2>3. Counts(r, today, period, 0)
    BY <1>1, <1>3, <2>2 DEF Counts
  <2>4. ASSUME NEW p \in Period, NEW n \in Nat, Counts(m, today, p, n) PROVE Counts(r, today, p, n)
    <3>1. m.longest \in Period /\ PeriodRank(m.longest) >= PeriodRank(p) /\ m.requests >= n
      BY <2>4 DEF Counts
    <3>2. PeriodRank(period) >= PeriodRank(p)
      BY <1>3, <1>5, <3>1
    <3> QED BY <2>2, <3>1, <3>2 DEF Counts
  <2> QED BY <2>2, <2>3, <2>4 DEF r
<1>6. CASE m.longest # NoLimits /\ ~(PeriodRank(period) > PeriodRank(m.longest))
  <2>0. m.longest \in Period
    BY <1>1, <1>6
  <2>1. r = roll(m.longest)
    BY <1>6 DEF RolloverAccount
  <2>2. /\ r \in UsageMeter /\ r.start = StartOn(today, m.longest) /\ r.longest = m.longest
        /\ m.start = StartOn(today, m.longest) => r = m
    BY <1>2, <2>0, <2>1
  <2> HIDE DEF r, roll
  <2>3. Counts(r, today, period, 0)
    <3>1. r.requests \in Nat
      BY <2>2, MeterForms
    <3> QED BY <1>3, <1>6, <2>0, <2>2, <3>1 DEF Counts
  <2>4. \A p \in Period, n \in Nat : Counts(m, today, p, n) => Counts(r, today, p, n)
    BY <2>2 DEF Counts
  <2> QED BY <2>2, <2>3, <2>4 DEF r
<1> QED BY <1>4, <1>5, <1>6

(* A meter that check or record writes for the account it found.            *)
LEMMA MeterWritten ==
    ASSUME MetersCount(meters, charged, today), NEW x \in Account, NEW m,
           NEW c \in [Period -> Nat],
           AccountFor(x) # Overflow => c = charged,
           AccountFor(x) = Overflow =>
               /\ m \in UsageMeter
               /\ \A p \in Period : c[p] > 0 => Counts(m, today, p, c[p])
    PROVE  MetersCount(WithMeter(AccountFor(x), m), c, today)
<1> DEFINE a == AccountFor(x)
           f == WithMeter(a, m)
           D == DOMAIN meters
<1>1. DOMAIN f = D \cup {a} /\ f[a] = m /\ \A b \in D : b # a => f[b] = meters[b]
  BY DEF WithMeter
<1>2. /\ IsFiniteSet(D) /\ Cardinality(D \ {Overflow}) <= MaxAccounts
      /\ Overflow \in D => meters[Overflow] \in UsageMeter
      /\ \A p \in Period : charged[p] > 0 => Overflow \in D /\ Counts(meters[Overflow], today, p, charged[p])
      /\ MaxAccounts \in Nat
  BY UsageAssumption DEF MetersCount, ValidUsage
<1>3. a \in D \/ Cardinality(D \ {Overflow}) < MaxAccounts \/ a = Overflow
  BY DEF AccountFor
<1>4. IsFiniteSet(D \cup {a})
  BY <1>2, FS_AddElement
<1> HIDE DEF f, D
<1>5. ValidUsage(f)
  <2> DEFINE E == D \ {Overflow}
  <2>1. IsFiniteSet(E) /\ Cardinality(E) \in Nat
    BY <1>2, FS_Subset, FS_CardinalityType
  <2>2. CASE a = Overflow \/ a \in D
    <3>1. DOMAIN f \ {Overflow} = E
      BY <1>1, <2>2
    <3> QED BY <1>2, <3>1 DEF ValidUsage
  <2>3. CASE a # Overflow /\ a \notin D
    <3>1. DOMAIN f \ {Overflow} = E \cup {a} /\ a \notin E
      BY <1>1, <2>3
    <3>2. Cardinality(E \cup {a}) = Cardinality(E) + 1
      BY <2>1, <3>1, FS_AddElement
    <3>3. Cardinality(E) < MaxAccounts
      BY <1>3, <2>3
    <3> HIDE DEF E
    <3>4. Cardinality(E \cup {a}) <= MaxAccounts
      BY <1>2, <2>1, <3>2, <3>3
    <3> QED BY <3>1, <3>4 DEF ValidUsage
  <2> QED BY <2>2, <2>3
<1>6. IsFiniteSet(DOMAIN f) /\ c \in [Period -> Nat]
  BY <1>1, <1>4
<1>7. /\ Overflow \in DOMAIN f => f[Overflow] \in UsageMeter
      /\ \A p \in Period : c[p] > 0 => Overflow \in DOMAIN f /\ Counts(f[Overflow], today, p, c[p])
  <2>1. CASE a = Overflow
    BY <1>1, <2>1
  <2>2. CASE a # Overflow
    <3>1. c = charged /\ (Overflow \in DOMAIN f <=> Overflow \in D)
      BY <1>1, <2>2
    <3>2. Overflow \in D => f[Overflow] = meters[Overflow]
      BY <1>1, <2>2
    <3> QED BY <1>2, <3>1, <3>2
  <2> QED BY <2>1, <2>2
<1>8. MetersCount(f, c, today)
  BY <1>5, <1>6, <1>7 DEF MetersCount
<1> QED BY <1>8 DEF f

LEMMA AccountFound ==
    ASSUME UsageInv, NEW x \in Account
    PROVE  /\ AccountFor(x) \in Account
           /\ AccountFor(x) = Overflow => MeterOf(AccountFor(x)) \in UsageMeter
           /\ \A p \in Period : AccountFor(x) = Overflow /\ charged[p] > 0
                                 => Counts(MeterOf(AccountFor(x)), today, p, charged[p])
<1>1. NewMeter \in UsageMeter
  BY DEF NewMeter, UsageMeter
<1>2. AccountFor(x) \in Account
  BY DEF AccountFor, Account
<1> QED BY <1>1, <1>2 DEF UsageInv, MetersCount, MeterOf

(* UsageBook::check                                                         *)
LEMMA CheckCounts ==
    ASSUME UsageInv, NEW t \in UsageTask, NEW x \in Account, NEW limits \in UsageLimits,
           CheckUsage(t, AccountFor(x), limits)
    PROVE  /\ MetersCount(meters', charged, today)
           /\ authorized' \in [UsageTask -> UsageGrant \cup {NoLimits}]
<1> DEFINE a == AccountFor(x)
           m == RolloverAccount(MeterOf(a), a, limits.period)
<1>1. /\ meters' = WithMeter(a, m)
      /\ authorized' = IF m.requests >= limits.max THEN authorized
                       ELSE [authorized EXCEPT ![t] = [account |-> a, limits |-> limits]]
  BY DEF CheckUsage
<1>2. limits.period \in Period
  BY UsageAssumption
<1>3. a \in Account /\ today \in Nat /\ MetersCount(meters, charged, today)
      /\ authorized \in [UsageTask -> UsageGrant \cup {NoLimits}] /\ charged \in [Period -> Nat]
  BY AccountFound DEF UsageInv, MetersCount
<1>4. [account |-> a, limits |-> limits] \in UsageGrant
  BY <1>3 DEF UsageGrant
<1>5. authorized' \in [UsageTask -> UsageGrant \cup {NoLimits}]
  <2> HIDE DEF m
  <2>1. CASE m.requests >= limits.max
    BY <1>1, <1>3, <2>1
  <2>2. CASE ~(m.requests >= limits.max)
    BY <1>1, <1>3, <1>4, <2>2
  <2> QED BY <2>1, <2>2
<1>6. a = Overflow => /\ m \in UsageMeter
                      /\ \A p \in Period : charged[p] > 0 => Counts(m, today, p, charged[p])
  BY <1>2, <1>3, AccountFound, OverflowRolls
<1> HIDE DEF m
<1> QED BY <1>1, <1>3, <1>5, <1>6, MeterWritten

(* Authorized::record                                                       *)
LEMMA RecordCounts ==
    ASSUME UsageInv, NEW t \in UsageTask, RecordUsage(t)
    PROVE  /\ MetersCount(meters', charged', today)
           /\ authorized' \in [UsageTask -> UsageGrant \cup {NoLimits}]
<1> DEFINE g == authorized[t]
           a == AccountFor(g.account)
           period == g.limits.period
           m == RolloverAccount(MeterOf(a), a, period)
           n == [m EXCEPT !.requests = @ + 1]
<1>1. /\ g # NoLimits /\ authorized' = [authorized EXCEPT ![t] = NoLimits]
      /\ meters' = WithMeter(a, n)
      /\ charged' = IF a = Overflow THEN [charged EXCEPT ![period] = @ + 1] ELSE charged
  BY DEF RecordUsage
<1>2. g \in UsageGrant /\ authorized' \in [UsageTask -> UsageGrant \cup {NoLimits}]
  BY <1>1 DEF UsageInv
<1>3. g.account \in Account /\ g.limits \in UsageLimits
  BY <1>2 DEF UsageGrant
<1>4. period \in Period /\ today \in Nat /\ MetersCount(meters, charged, today) /\ charged \in [Period -> Nat]
  BY <1>3, UsageAssumption DEF UsageInv, MetersCount
<1> HIDE DEF period
<1>5. charged' \in [Period -> Nat]
  <2>1. CASE a = Overflow
    BY <1>1, <1>4, <2>1
  <2> QED BY <1>1, <1>4, <2>1
<1>6. ASSUME a = Overflow
      PROVE  /\ n \in UsageMeter
             /\ \A p \in Period : charged'[p] > 0 => Counts(n, today, p, charged'[p])
  <2>0. charged' = [charged EXCEPT ![period] = @ + 1]
    BY <1>1, <1>6
  <2>1. /\ m \in UsageMeter /\ Counts(m, today, period, 0)
        /\ \A p \in Period : charged[p] > 0 => Counts(m, today, p, charged[p])
    BY <1>3, <1>4, <1>6, AccountFound, OverflowRolls
  <2>2. n = [start |-> m.start, requests |-> m.requests + 1, longest |-> m.longest]
    BY <2>1, MeterForms
  <2>3. m.start \in Nat /\ m.requests \in Nat /\ m.longest \in Period \cup {NoLimits}
    BY <2>1, MeterForms
  <2> HIDE DEF m, n
  <2>4. n \in UsageMeter /\ n.start = m.start /\ n.requests = m.requests + 1 /\ n.longest = m.longest
    BY <2>2, <2>3 DEF UsageMeter
  <2>5. ASSUME NEW p \in Period, charged'[p] > 0 PROVE Counts(n, today, p, charged'[p])
    <3>1. charged[p] \in Nat /\ charged'[p] = IF p = period THEN charged[p] + 1 ELSE charged[p]
      BY <1>4, <2>0
    <3>2. CASE charged[p] > 0
      BY <2>1, <2>3, <2>4, <3>1, <3>2 DEF Counts
    <3>3. CASE charged[p] = 0
      <4>1. p = period /\ charged'[p] = 1
        BY <2>5, <3>1, <3>3
      <4> QED BY <2>1, <2>3, <2>4, <4>1 DEF Counts
    <3> QED BY <3>1, <3>2, <3>3
  <2> QED BY <2>4, <2>5
<1>7. a # Overflow => charged' = charged
  BY <1>1
<1> HIDE DEF n
<1> QED BY <1>1, <1>2, <1>3, <1>4, <1>5, <1>6, <1>7, MeterWritten

(* At the end of a day the overflow meter still counts what was charged in  *)
(* a period that goes on.                                                   *)
LEMMA DayCounts ==
    ASSUME NEW f, NEW c, NEW t \in Nat, MetersCount(f, c, t)
    PROVE  MetersCount(f, [p \in Period |->
                IF p = "day" \/ (p = "month" /\ (t + 1) % MonthDays = 0) THEN 0 ELSE c[p]], t + 1)
<1> DEFINE d == [p \in Period |->
                IF p = "day" \/ (p = "month" /\ (t + 1) % MonthDays = 0) THEN 0 ELSE c[p]]
           m == f[Overflow]
<1>1. c \in [Period -> Nat] /\ d \in [Period -> Nat]
  BY DEF MetersCount
<1>2. ASSUME NEW p \in Period, d[p] > 0
      PROVE  Overflow \in DOMAIN f /\ Counts(m, t + 1, p, d[p])
  <2>1. p # "day" /\ d[p] = c[p] /\ (p = "month" => (t + 1) % MonthDays # 0)
    BY <1>2
  <2>2. Overflow \in DOMAIN f /\ Counts(m, t, p, c[p])
    BY <1>2, <2>1 DEF MetersCount
  <2>3. m.longest \in Period /\ PeriodRank(m.longest) >= PeriodRank(p) /\ m.start = StartOn(t, m.longest)
    BY <2>2 DEF Counts
  <2>4. StartOn(t + 1, m.longest) = StartOn(t, m.longest)
    <3>1. PeriodRank("day") = 0 /\ PeriodRank("month") = 1 /\ PeriodRank("total") = 2
      BY DEF PeriodRank
    <3>2. (p = "month" \/ p = "total") /\ (m.longest = "day" \/ m.longest = "month" \/ m.longest = "total")
      BY <2>1, <2>3 DEF Period
    <3>3. CASE m.longest = "total"
      BY <3>3 DEF StartOn
    <3>4. CASE m.longest = "month"
      <4>1. p = "month"
        BY <2>3, <3>1, <3>2, <3>4
      <4>2. (t + 1) % MonthDays # 0 /\ MonthDays \in Nat \ {0}
        BY <2>1, <4>1, UsageAssumption
      <4>3. (t + 1) - ((t + 1) % MonthDays) = t - (t % MonthDays)
        <5>1. PICK n \in Nat : n = t + 1
          OBVIOUS
        <5> QED BY <4>2, <5>1, SamePeriod
      <4> QED BY <3>4, <4>3 DEF StartOn
    <3> QED BY <2>3, <3>1, <3>2, <3>3, <3>4
  <2> QED BY <2>1, <2>2, <2>3, <2>4 DEF Counts
<1> HIDE DEF d, m
<1>3. MetersCount(f, d, t + 1)
  BY <1>1, <1>2 DEF MetersCount, m
<1> QED BY <1>3 DEF d

LEMMA ResetCounts ==
    ASSUME MetersCount(meters, charged, today), NEW accounts
    PROVE  MetersCount([a \in DOMAIN meters \ accounts |-> meters[a]],
                       IF Overflow \in accounts THEN NoCharges ELSE charged, today)
<1> DEFINE D == DOMAIN meters
           f == [a \in D \ accounts |-> meters[a]]
           c == IF Overflow \in accounts THEN NoCharges ELSE charged
<1>1. /\ IsFiniteSet(D) /\ Cardinality(D \ {Overflow}) <= MaxAccounts /\ MaxAccounts \in Nat
      /\ charged \in [Period -> Nat]
  BY UsageAssumption DEF MetersCount, ValidUsage
<1>2. DOMAIN f = D \ accounts /\ \A a \in D \ accounts : f[a] = meters[a]
  OBVIOUS
<1> HIDE DEF f
<1>3. IsFiniteSet(DOMAIN f)
  BY <1>1, <1>2, FS_Subset
<1>4. ValidUsage(f)
  <2> DEFINE E == D \ {Overflow}
             F == DOMAIN f \ {Overflow}
  <2>1. IsFiniteSet(E) /\ F \in SUBSET E
    BY <1>1, <1>2, FS_Subset
  <2>2. Cardinality(F) <= Cardinality(E) /\ Cardinality(F) \in Nat /\ Cardinality(E) \in Nat
    <3> HIDE DEF E, F
    <3> QED BY <2>1, FS_Subset, FS_CardinalityType
  <2> QED BY <1>1, <2>2 DEF ValidUsage
<1>5. c \in [Period -> Nat]
  BY <1>1 DEF NoCharges
<1>6. CASE Overflow \in accounts
  <2>1. Overflow \notin DOMAIN f /\ \A p \in Period : ~(c[p] > 0)
    BY <1>2, <1>6 DEF NoCharges
  <2> HIDE DEF c
  <2>2. MetersCount(f, c, today)
    BY <1>3, <1>4, <1>5, <2>1 DEF MetersCount
  <2> QED BY <2>2 DEF f, c
<1>7. CASE Overflow \notin accounts
  <2>1. c = charged /\ (Overflow \in DOMAIN f <=> Overflow \in D)
        /\ (Overflow \in D => f[Overflow] = meters[Overflow])
    BY <1>2, <1>7
  <2> HIDE DEF c
  <2>2. MetersCount(f, c, today)
    BY <1>3, <1>4, <1>5, <2>1 DEF MetersCount
  <2> QED BY <2>2 DEF f, c
<1> QED BY <1>6, <1>7

LEMMA UsageNextCounts ==
    ASSUME UsageInv, UsageNext
    PROVE  UsageInv'
<1>0. /\ today \in Nat /\ access.limits \in UsageLimits
      /\ tokens \in [ApiToken -> UsageToken \cup {NoLimits}]
      /\ tokensFile \in [ApiToken -> UsageToken \cup {NoLimits}]
      /\ authorized \in [UsageTask -> UsageGrant \cup {NoLimits}]
      /\ MetersCount(meters, charged, today) /\ MetersCount(usageFile, chargedSaved, today)
  BY DEF UsageInv
<1>1. \A k \in ApiToken : tokens[k] # NoLimits => tokens[k].limits \in UsageLimits
  BY <1>0 DEF UsageToken
<1>2. ASSUME NEW t \in UsageTask, NEW p \in UsagePeer, AuthorizePeer(t, p) PROVE UsageInv'
  <2>1. /\ CheckUsage(t, AccountFor(p), access.limits)
        /\ UNCHANGED <<access, tokens, tokensFile, usageFile, today, charged, chargedSaved>>
    BY <1>2 DEF AuthorizePeer, tokenVars
  <2>2. p \in Account
    BY DEF Account
  <2> QED BY <1>0, <2>1, <2>2, CheckCounts DEF UsageInv
<1>3. ASSUME NEW t \in UsageTask, NEW k \in ApiToken, AuthorizeApi(t, k) PROVE UsageInv'
  <2>1. /\ CheckUsage(t, AccountFor(k), tokens[k].limits) /\ tokens[k] # NoLimits
        /\ UNCHANGED <<access, tokens, tokensFile, usageFile, today, charged, chargedSaved>>
    BY <1>3 DEF AuthorizeApi
  <2>2. k \in Account
    BY DEF Account
  <2> QED BY <1>0, <1>1, <2>1, <2>2, CheckCounts DEF UsageInv
<1>4. ASSUME NEW t \in UsageTask, RecordUsage(t) PROVE UsageInv'
  <2>1. UNCHANGED <<access, tokens, tokensFile, usageFile, today, chargedSaved>>
    BY <1>4 DEF RecordUsage, tokenVars
  <2> QED BY <1>0, <1>4, <2>1, RecordCounts DEF UsageInv
<1>5. ASSUME NEW t \in UsageTask, NotCharged(t) PROVE UsageInv'
  BY <1>0, <1>5 DEF NotCharged, tokenVars, meterVars, UsageInv
<1>6. CASE FlushUsage
  <2>1. UNCHANGED <<access, tokens, tokensFile, authorized, today, meters, charged>>
    BY <1>6 DEF FlushUsage, tokenVars
  <2>2. \/ usageFile' = meters /\ chargedSaved' = charged
        \/ UNCHANGED <<usageFile, chargedSaved>>
    BY <1>6 DEF FlushUsage
  <2> QED BY <1>0, <2>1, <2>2 DEF UsageInv
<1>7. CASE FlushTokens
  BY <1>0, <1>7 DEF FlushTokens, meterVars, UsageInv
<1>8. ASSUME NEW next \in [ApiToken -> UsageToken \cup {NoLimits}], NEW out, TokenCommand(next, out)
      PROVE  UsageInv'
  BY <1>0, <1>8 DEF TokenCommand, meterVars, UsageInv
<1>9. ASSUME NEW k \in ApiToken, NEW limits \in UsageLimits,
             TokenCreate(k, limits) \/ TokenUpdate(k, limits)
      PROVE  UsageInv'
  <2>1. CASE TokenCreate(k, limits)
    <3> DEFINE next == [tokens EXCEPT ![k] = [limits |-> limits, revoked |-> FALSE]]
    <3>1. [limits |-> limits, revoked |-> FALSE] \in UsageToken
      BY DEF UsageToken
    <3>2. next \in [ApiToken -> UsageToken \cup {NoLimits}]
      BY <1>0, <3>1
    <3>3. TokenCommand(next, {})
      BY <2>1 DEF TokenCreate
    <3> HIDE DEF next
    <3> QED BY <1>8, <3>2, <3>3
  <2>2. CASE TokenUpdate(k, limits)
    <3> DEFINE next == [tokens EXCEPT ![k].limits = limits]
    <3>1. tokens[k] # NoLimits /\ TokenCommand(next, {})
      BY <2>2 DEF TokenUpdate
    <3>2. [tokens[k] EXCEPT !.limits = limits] \in UsageToken
      BY <1>0, <3>1 DEF UsageToken
    <3>3. next \in [ApiToken -> UsageToken \cup {NoLimits}]
      BY <1>0, <3>2
    <3> HIDE DEF next
    <3> QED BY <1>8, <3>1, <3>3
  <2> QED BY <1>9, <2>1, <2>2
<1>10. ASSUME NEW k \in ApiToken, TokenRevoke(k) \/ TokenDelete(k) PROVE UsageInv'
  <2>1. CASE TokenRevoke(k)
    <3> DEFINE next == [tokens EXCEPT ![k].revoked = TRUE]
    <3>1. tokens[k] # NoLimits /\ TokenCommand(next, {k})
      BY <2>1 DEF TokenRevoke
    <3>2. [tokens[k] EXCEPT !.revoked = TRUE] \in UsageToken
      BY <1>0, <3>1 DEF UsageToken
    <3>3. next \in [ApiToken -> UsageToken \cup {NoLimits}]
      BY <1>0, <3>2
    <3> HIDE DEF next
    <3> QED BY <1>8, <3>1, <3>3
  <2>2. CASE TokenDelete(k)
    <3> DEFINE next == [tokens EXCEPT ![k] = NoLimits]
    <3>1. next \in [ApiToken -> UsageToken \cup {NoLimits}] /\ TokenCommand(next, {k})
      BY <1>0, <2>2 DEF TokenDelete
    <3> HIDE DEF next
    <3> QED BY <1>8, <3>1
  <2> QED BY <1>10, <2>1, <2>2
<1>11. ASSUME NEW accounts, UsageReset(accounts) PROVE UsageInv'
  <2> DEFINE left == [a \in DOMAIN meters \ accounts |-> meters[a]]
             kept == IF Overflow \in accounts THEN NoCharges ELSE charged
  <2>1. MetersCount(left, kept, today)
    BY <1>0, ResetCounts
  <2>2. UNCHANGED <<access, tokens, tokensFile, authorized, today>>
    BY <1>11 DEF UsageReset, tokenVars
  <2>3. \/ meters' = left /\ usageFile' = left /\ charged' = kept /\ chargedSaved' = kept
        \/ /\ UNCHANGED <<meters, charged>>
           /\ \/ usageFile' = left /\ chargedSaved' = kept
              \/ UNCHANGED <<usageFile, chargedSaved>>
    BY <1>11 DEF UsageReset
  <2> HIDE DEF left, kept
  <2> QED BY <1>0, <2>1, <2>2, <2>3 DEF UsageInv
<1>12. ASSUME NEW denied, NEW limits \in UsageLimits, SetPolicy(denied, limits) PROVE UsageInv'
  BY <1>0, <1>12 DEF SetPolicy, tokenVars, meterVars, UsageInv
<1>13. CASE DayPasses
  <2> DEFINE left(c) == [p \in Period |->
                IF p = "day" \/ (p = "month" /\ (today + 1) % MonthDays = 0) THEN 0 ELSE c[p]]
  <2>1. /\ today' = today + 1 /\ UNCHANGED <<access, tokens, tokensFile, meters, usageFile, authorized>>
        /\ charged' = left(charged) /\ chargedSaved' = left(chargedSaved)
    BY <1>13 DEF DayPasses, tokenVars
  <2>2. MetersCount(meters, left(charged), today + 1) /\ MetersCount(usageFile, left(chargedSaved), today + 1)
    BY <1>0, DayCounts
  <2> HIDE DEF left
  <2> QED BY <1>0, <2>1, <2>2 DEF UsageInv
<1>14. CASE AuthzRestart
  <2>1. /\ meters' = (IF ValidUsage(usageFile) THEN usageFile ELSE <<>>) /\ tokens' = tokensFile
        /\ charged' = chargedSaved /\ authorized' = [t \in UsageTask |-> NoLimits]
        /\ UNCHANGED <<access, tokensFile, usageFile, today, chargedSaved>>
    BY <1>14 DEF AuthzRestart
  <2>2. ValidUsage(usageFile)
    BY <1>0 DEF MetersCount
  <2>3. meters' = usageFile
    BY <2>1, <2>2
  <2> QED BY <1>0, <2>1, <2>3 DEF UsageInv
<1> QED
  BY <1>2, <1>3, <1>4, <1>5, <1>6, <1>7, <1>9, <1>10, <1>11, <1>12, <1>13, <1>14 DEF UsageNext

LEMMA UsageInvariant ==
    UsageSpec => []UsageInv
<1>1. UsageInit => UsageInv
  <2> SUFFICES ASSUME UsageInit PROVE UsageInv
    OBVIOUS
  <2>1. /\ today \in Nat /\ access.limits \in UsageLimits
        /\ tokens \in [ApiToken -> UsageToken \cup {NoLimits}]
        /\ tokensFile \in [ApiToken -> UsageToken \cup {NoLimits}]
        /\ authorized \in [UsageTask -> UsageGrant \cup {NoLimits}]
    BY UsageAssumption DEF UsageInit
  <2>2. MetersCount(<<>>, NoCharges, today)
    <3>1. DOMAIN <<>> = {} /\ IsFiniteSet({}) /\ Cardinality({}) = 0
      BY FS_EmptySet
    <3>2. DOMAIN <<>> \ {Overflow} = {} /\ MaxAccounts \in Nat
      BY <3>1, UsageAssumption
    <3>3. IsFiniteSet(DOMAIN <<>>) /\ ValidUsage(<<>>)
      BY <3>1, <3>2 DEF ValidUsage
    <3>4. NoCharges \in [Period -> Nat] /\ \A p \in Period : ~(NoCharges[p] > 0)
      BY DEF NoCharges
    <3> QED BY <3>1, <3>3, <3>4 DEF MetersCount
  <2> QED BY <2>1, <2>2 DEF UsageInv, UsageInit
<1>2. UsageInv /\ [UsageNext]_usageVars => UsageInv'
  <2>1. UsageInv /\ UNCHANGED usageVars => UsageInv'
    BY DEF usageVars, UsageInv
  <2> QED BY <2>1, UsageNextCounts
<1> QED BY <1>1, <1>2, PTL DEF UsageSpec

(* The overflow meter forgets no request charged to it in a period that     *)
(* lasts, whatever periods share it (usage.rs rollover_account), and a      *)
(* restart never finds more accounts than it accepts (load_or_recover), for *)
(* any peers, tokens, limits, months and number of tasks.                   *)
THEOREM UsageNotForgotten == UsageSpec => []UsageCounted
<1>1. UsageInv => UsageCounted
  BY DEF UsageInv, MetersCount, Counts, UsageCounted
<1> QED BY <1>1, UsageInvariant, PTL

(* A withdrawn token is out in memory and in the file.                      *)
TokensOut(table) == \A k \in withdrawnTokens : table[k] = NoLimits \/ table[k].revoked

TokenInv ==
    /\ withdrawnTokens \subseteq ApiToken
    /\ TokensStayRevoked /\ TokensOut(tokensFile)

LEMMA TokenNext ==
    ASSUME UsageInv, TokenInv, UsageNext
    PROVE  TokenInv'
<1>0. /\ tokens \in [ApiToken -> UsageToken \cup {NoLimits}]
      /\ withdrawnTokens \subseteq ApiToken
      /\ \A k \in withdrawnTokens : tokens[k] = NoLimits \/ tokens[k].revoked
      /\ \A k \in withdrawnTokens : tokensFile[k] = NoLimits \/ tokensFile[k].revoked
  BY DEF UsageInv, TokenInv, TokensStayRevoked, TokensOut
<1>1. ASSUME withdrawnTokens' = withdrawnTokens, tokens' \in {tokens, tokensFile},
             tokensFile' \in {tokens, tokensFile}
      PROVE  TokenInv'
  BY <1>0, <1>1 DEF TokenInv, TokensStayRevoked, TokensOut
<1>2. ASSUME NEW next, NEW out \in SUBSET ApiToken, TokenCommand(next, out),
             \A k \in withdrawnTokens \cup out : next[k] = NoLimits \/ next[k].revoked
      PROVE  TokenInv'
  <2>1. \/ tokensFile' = next /\ tokens' = next /\ withdrawnTokens' = withdrawnTokens \cup out
        \/ tokensFile' \in {tokensFile, next} /\ UNCHANGED <<tokens, withdrawnTokens>>
    BY <1>2 DEF TokenCommand
  <2> QED BY <1>0, <1>2, <2>1 DEF TokenInv, TokensStayRevoked, TokensOut
<1>4. ASSUME NEW k \in ApiToken, NEW limits \in UsageLimits, TokenCreate(k, limits) PROVE TokenInv'
  <2> DEFINE next == [tokens EXCEPT ![k] = [limits |-> limits, revoked |-> FALSE]]
  <2>1. TokenCommand(next, {}) /\ k \notin withdrawnTokens
    BY <1>4 DEF TokenCreate
  <2>2. \A j \in withdrawnTokens : next[j] = NoLimits \/ next[j].revoked
    BY <1>0, <2>1
  <2> HIDE DEF next
  <2> QED BY <1>2, <2>1, <2>2
<1>5. ASSUME NEW k \in ApiToken, NEW limits \in UsageLimits, TokenUpdate(k, limits) PROVE TokenInv'
  <2> DEFINE next == [tokens EXCEPT ![k].limits = limits]
  <2>1. TokenCommand(next, {}) /\ tokens[k] \in UsageToken
    BY <1>0, <1>5 DEF TokenUpdate
  <2>2. next[k].revoked = tokens[k].revoked /\ \A j \in ApiToken : j # k => next[j] = tokens[j]
    BY <1>0, <2>1 DEF UsageToken
  <2>3. k \in withdrawnTokens => tokens[k].revoked
    BY <1>0, <1>5 DEF TokenUpdate
  <2> HIDE DEF next
  <2>4. \A j \in withdrawnTokens : next[j] = NoLimits \/ next[j].revoked
    BY <1>0, <2>2, <2>3
  <2> QED BY <1>2, <2>1, <2>4
<1>6. ASSUME NEW k \in ApiToken, TokenRevoke(k) PROVE TokenInv'
  <2> DEFINE next == [tokens EXCEPT ![k].revoked = TRUE]
  <2>1. TokenCommand(next, {k}) /\ tokens[k] \in UsageToken
    BY <1>0, <1>6 DEF TokenRevoke
  <2>2. next[k].revoked /\ \A j \in ApiToken : j # k => next[j] = tokens[j]
    BY <1>0, <2>1 DEF UsageToken
  <2> HIDE DEF next
  <2>3. \A j \in withdrawnTokens \cup {k} : next[j] = NoLimits \/ next[j].revoked
    BY <1>0, <2>2
  <2> QED BY <1>2, <2>1, <2>3
<1>7. ASSUME NEW k \in ApiToken, TokenDelete(k) PROVE TokenInv'
  <2> DEFINE next == [tokens EXCEPT ![k] = NoLimits]
  <2>1. TokenCommand(next, {k})
    BY <1>7 DEF TokenDelete
  <2>2. \A j \in withdrawnTokens \cup {k} : next[j] = NoLimits \/ next[j].revoked
    BY <1>0
  <2> HIDE DEF next
  <2> QED BY <1>2, <2>1, <2>2
<1>8. CASE FlushTokens
  BY <1>1, <1>8 DEF FlushTokens
<1>9. CASE AuthzRestart
  BY <1>1, <1>9 DEF AuthzRestart
<1>10. ASSUME UNCHANGED tokenVars PROVE TokenInv'
  BY <1>1, <1>10 DEF tokenVars
<1>11. ASSUME NEW t \in UsageTask, NEW p \in UsagePeer, AuthorizePeer(t, p) PROVE TokenInv'
  BY <1>10, <1>11 DEF AuthorizePeer
<1>12. ASSUME NEW t \in UsageTask, NEW k \in ApiToken, AuthorizeApi(t, k) PROVE TokenInv'
  BY <1>1, <1>12 DEF AuthorizeApi
<1>13. ASSUME NEW t \in UsageTask, RecordUsage(t) \/ NotCharged(t) PROVE TokenInv'
  BY <1>10, <1>13 DEF RecordUsage, NotCharged
<1>14. CASE FlushUsage
  BY <1>10, <1>14 DEF FlushUsage
<1>15. CASE DayPasses
  BY <1>10, <1>15 DEF DayPasses
<1>16. ASSUME NEW accounts, UsageReset(accounts) PROVE TokenInv'
  BY <1>10, <1>16 DEF UsageReset
<1>17. ASSUME NEW denied, NEW limits, SetPolicy(denied, limits) PROVE TokenInv'
  BY <1>10, <1>17 DEF SetPolicy
<1> QED
  BY <1>4, <1>5, <1>6, <1>7, <1>8, <1>9, <1>11, <1>12, <1>13, <1>14, <1>15, <1>16, <1>17
  DEF UsageNext

(* A token reported as revoked or deleted is not let in again (tokens.rs,   *)
(* Store::command, flush_best_effort): no failed command, activity flush or *)
(* restart brings it back, for any tokens, limits and number of tasks.      *)
THEOREM TokensWithdrawn == UsageSpec => []TokensStayRevoked
<1>1. UsageInit => TokenInv
  BY DEF UsageInit, TokenInv, TokensStayRevoked, TokensOut
<1>2. UsageInv /\ TokenInv /\ [UsageNext]_usageVars => TokenInv'
  <2>1. TokenInv /\ UNCHANGED usageVars => TokenInv'
    BY DEF usageVars, TokenInv, TokensStayRevoked, TokensOut
  <2> QED BY <2>1, TokenNext
<1>3. TokenInv => TokensStayRevoked
  BY DEF TokenInv
<1> QED BY <1>1, <1>2, <1>3, UsageInvariant, PTL DEF UsageSpec

-----------------------------------------------------------------------------
(***************************************************************************)
(* Authorization of tunnel connections: rows and waiting calls name each   *)
(* other (RowsAgree), so that an answer reaches the calls with the request *)
(* the operator saw and no others; and what is remembered, answered or     *)
(* about to be saved as allowed was consented to (TrustConsented,          *)
(* CallsConsented).                                                        *)
(***************************************************************************)
TrustTable == [TrustKeys -> {"none", "allow", "deny"}]
AuthCall ==
    [at : {"enqueue", "waiting", "expired", "answered", "persist", "done"}, req : Request,
     epoch : Nat, row : 0..MaxRows, got : Decision \cup {"none"}]
AuthRow == [req : Request, waiters : SUBSET AuthTask]

AuthShape ==
    /\ trust \in TrustTable /\ trustFile \in TrustTable
    /\ auth \in [AuthTask -> {IdleCall} \cup AuthCall]
    /\ rows \in [DOMAIN rows -> AuthRow]
    /\ nextRow \in 1..MaxRows + 1
    /\ \A n \in DOMAIN rows : n \in 1..MaxRows /\ n < nextRow
    /\ linked \in [peers : SUBSET TunnelPeer, epoch : Nat]
    /\ consent \subseteq TrustKeys \cup Request
    /\ authEvents \in 0..MaxAuthEvents

RowsAgree ==
    \A n \in DOMAIN rows : \A t \in rows[n].waiters :
        auth[t].at = "waiting" /\ auth[t].row = n /\ auth[t].req = rows[n].req

TrustConsented ==
    \A r \in Request :
        /\ trust[NodeKey(r)] = "allow" => NodeKey(r) \in consent
        /\ r.verified /\ trust[DidKey(r)] = "allow" => r \in consent \/ NodeKey(r) \in consent

CallsConsented ==
    \A t \in AuthTask :
        auth[t].at \in {"answered", "persist"} /\ auth[t].got \in {"allow", "allowAlways"}
            => auth[t].req \in consent

AuthInv ==
    /\ AuthShape /\ RowsAgree /\ AuthRowsLive
    /\ TrustConsented /\ CallsConsented /\ AuthConsented

LEMMA AuthKeys ==
    ASSUME NEW r \in Request
    PROVE  /\ DidKey(r) \in TrustKeys /\ NodeKey(r) \in TrustKeys /\ DidKey(r) # NodeKey(r)
           /\ r.peer \in TunnelPeer /\ r.key \in ForwardKey /\ r.verified \in BOOLEAN
           /\ \A q \in Request : /\ DidKey(r) # NodeKey(q)
                                 /\ DidKey(q) = DidKey(r) => NodeKey(q) = NodeKey(r)
                                 /\ NodeKey(q) = NodeKey(r) => DidKey(q) = DidKey(r)
                                 /\ DidKey(q) = DidKey(r) /\ q.verified /\ r.verified => q = r
BY DEF Request, DidKey, NodeKey, TrustKeys

LEMMA AuthNats == MaxRows \in Nat /\ MaxAuthEvents \in Nat
BY AuthAssumption

LEMMA CallFacts ==
    ASSUME AuthInv, NEW t \in AuthTask, auth[t].at # "idle"
    PROVE  /\ auth[t] \in AuthCall /\ auth[t].req \in Request /\ auth[t].epoch \in Nat
           /\ auth[t].row \in 0..MaxRows /\ auth[t].got \in Decision \cup {"none"}
<1>1. auth[t] \in AuthCall
  BY DEF AuthInv, AuthShape, IdleCall
<1> QED BY <1>1 DEF AuthCall

(* A call that ends: the guards that Finished applies.                      *)
LEMMA FinishedOK ==
    ASSUME AuthInv, NEW t \in AuthTask, NEW r \in Request, NEW e \in Nat, NEW d \in {"allow", "deny"},
           Finished(t, r, e, d)
    PROVE  /\ auth' \in [AuthTask -> {IdleCall} \cup AuthCall]
           /\ auth'[t].at = "done" /\ auth'[t].req = r /\ auth'[t].got \in {d, "deny"}
           /\ \A u \in AuthTask : u # t => auth'[u] = auth[u]
<1>0. auth \in [AuthTask -> {IdleCall} \cup AuthCall]
  BY DEF AuthInv, AuthShape
<1>1. PICK g \in {d, "deny"} :
         auth' = [auth EXCEPT ![t] = [at |-> "done", req |-> r, epoch |-> e, row |-> 0, got |-> g]]
  BY DEF Finished
<1>2. [at |-> "done", req |-> r, epoch |-> e, row |-> 0, got |-> g] \in AuthCall
  BY AuthNats DEF AuthCall, Decision
<1> QED BY <1>0, <1>1, <1>2

(* When a call that does not wait and was not expired ends, or an expired    *)
(* one whose row has other waiters, the rows stay in step.                   *)
LEMMA RowsStay ==
    ASSUME AuthInv, NEW t \in AuthTask, rows' = rows,
           \A u \in AuthTask : u # t => auth'[u] = auth[u],
           auth[t].at # "waiting", auth'[t].at # "waiting", auth[t].at # "expired"
    PROVE  RowsAgree' /\ AuthRowsLive'
<1>1. RowsAgree'
  <2> SUFFICES ASSUME NEW n \in DOMAIN rows, NEW u \in rows[n].waiters
               PROVE  auth'[u].at = "waiting" /\ auth'[u].row = n /\ auth'[u].req = rows[n].req
    BY DEF RowsAgree
  <2>1. auth[u].at = "waiting" /\ auth[u].row = n /\ auth[u].req = rows[n].req
    BY DEF AuthInv, RowsAgree
  <2>2. u \in AuthTask /\ u # t BY <2>1 DEF AuthInv, AuthShape, AuthRow
  <2> QED BY <2>1, <2>2
<1>2. AuthRowsLive'
  <2>1. ASSUME NEW u \in AuthTask, auth'[u].at = "waiting"
        PROVE  auth'[u].row \in DOMAIN rows /\ u \in rows[auth'[u].row].waiters
    BY <2>1 DEF AuthInv, AuthRowsLive
  <2>2. ASSUME NEW n \in DOMAIN rows, rows[n].waiters = {}
        PROVE  \E u \in AuthTask : auth'[u].at = "expired" /\ auth'[u].row = n
    BY <2>2 DEF AuthInv, AuthRowsLive
  <2> QED BY <2>1, <2>2 DEF AuthRowsLive
<1> QED BY <1>1, <1>2

(* Calls that keep what they were answered stay consented.                  *)
LEMMA CallsStay ==
    ASSUME AuthInv, NEW t \in AuthTask, consent \subseteq consent',
           \A u \in AuthTask : u # t => auth'[u] = auth[u],
           auth'[t].at \notin {"answered", "persist", "done"}
    PROVE  CallsConsented' /\ AuthConsented'
<1>1. CallsConsented'
  BY DEF AuthInv, CallsConsented
<1>2. AuthConsented'
  BY DEF AuthInv, AuthConsented, PolicyAllows, NodeKey
<1> QED BY <1>1, <1>2

LEMMA DoneConsented ==
    ASSUME AuthInv, NEW t \in AuthTask, consent' = consent,
           \A u \in AuthTask : u # t => auth'[u] = auth[u],
           auth'[t].at = "done",
           auth'[t].got = "allow" => \/ auth'[t].req \in consent
                                     \/ auth'[t].req.verified
                                        /\ (PolicyAllows(auth'[t].req) \/ NodeKey(auth'[t].req) \in consent)
    PROVE  CallsConsented' /\ AuthConsented'
<1>1. CallsConsented'
  BY DEF AuthInv, CallsConsented
<1>2. AuthConsented'
  BY DEF AuthInv, AuthConsented, PolicyAllows, NodeKey
<1> QED BY <1>1, <1>2

LEMMA MigrateOK ==
    ASSUME AuthInv, NEW r \in Request, Migrate(r), consent' = consent
    PROVE  /\ trust' \in TrustTable /\ trustFile' \in TrustTable /\ TrustConsented'
           /\ authEvents' \in 0..MaxAuthEvents
<1>0. trust \in TrustTable /\ trustFile \in TrustTable /\ authEvents \in 0..MaxAuthEvents
      /\ MaxAuthEvents \in Nat
  BY AuthNats DEF AuthInv, AuthShape
<1>1. CASE UNCHANGED <<trust, trustFile, authEvents>>
  BY <1>0, <1>1 DEF AuthInv, TrustConsented
<1>2. CASE ~(UNCHANGED <<trust, trustFile, authEvents>>)
  <2> DEFINE added == [trust EXCEPT ![DidKey(r)] = trust[NodeKey(r)]]
  <2>1. \/ /\ trust' = [added EXCEPT ![NodeKey(r)] = "none"]
           /\ trustFile' = trust' /\ UNCHANGED authEvents
        \/ /\ trust' = added /\ UNCHANGED trustFile /\ Event
    BY <1>2 DEF Migrate
  <2>2. /\ added \in TrustTable /\ added[DidKey(r)] = trust[NodeKey(r)]
        /\ \A k \in TrustKeys : k # DidKey(r) => added[k] = trust[k]
    BY <1>0, AuthKeys DEF TrustTable
  <2> HIDE DEF added
  <2>3. /\ trust' \in TrustTable /\ trust'[DidKey(r)] = trust[NodeKey(r)]
        /\ trust'[NodeKey(r)] \in {"none", trust[NodeKey(r)]}
        /\ \A k \in TrustKeys : k # DidKey(r) /\ k # NodeKey(r) => trust'[k] = trust[k]
    BY <2>1, <2>2, AuthKeys DEF TrustTable
  <2>4. TrustConsented'
    <3> SUFFICES ASSUME NEW q \in Request
                 PROVE  /\ trust'[NodeKey(q)] = "allow" => NodeKey(q) \in consent
                        /\ q.verified /\ trust'[DidKey(q)] = "allow" => q \in consent \/ NodeKey(q) \in consent
      BY DEF TrustConsented, NodeKey, DidKey
    <3>1. DidKey(q) \in TrustKeys /\ NodeKey(q) \in TrustKeys /\ DidKey(r) # NodeKey(q)
          /\ DidKey(q) # NodeKey(r)
          /\ (DidKey(q) = DidKey(r) => NodeKey(q) = NodeKey(r))
      BY AuthKeys
    <3>2. /\ trust[NodeKey(q)] = "allow" => NodeKey(q) \in consent
          /\ q.verified /\ trust[DidKey(q)] = "allow" => q \in consent \/ NodeKey(q) \in consent
          /\ trust[NodeKey(r)] = "allow" => NodeKey(r) \in consent
      BY DEF AuthInv, TrustConsented
    <3>3. trust'[NodeKey(q)] = "allow" => NodeKey(q) \in consent
      BY <2>3, <3>1, <3>2
    <3>4. q.verified /\ trust'[DidKey(q)] = "allow" => q \in consent \/ NodeKey(q) \in consent
      BY <2>3, <3>1, <3>2
    <3> QED BY <3>3, <3>4
  <2>5. trustFile' \in TrustTable
    BY <1>0, <2>1, <2>3
  <2>6. authEvents' \in 0..MaxAuthEvents
    BY <1>0, <2>1 DEF Event
  <2> QED BY <2>3, <2>4, <2>5, <2>6
<1> QED BY <1>1, <1>2

LEMMA AuthorizeOK ==
    ASSUME AuthInv, NEW t \in AuthTask, NEW r \in Request, Authorize(t, r)
    PROVE  AuthInv'
<1>1. auth[t].at = "idle" /\ UNCHANGED <<rows, nextRow, linked, consent>>
  BY DEF Authorize, IdleCall
<1>2. auth \in [AuthTask -> {IdleCall} \cup AuthCall] /\ linked.epoch \in Nat
  BY DEF AuthInv, AuthShape
<1>3. Lookup(r) \in {"none", "allow", "deny"}
      /\ (Lookup(r) = "allow" => r.verified /\ (r \in consent \/ NodeKey(r) \in consent))
  <2>1. trust[DidKey(r)] \in {"none", "allow", "deny"} /\ trust[NodeKey(r)] \in {"none", "allow", "deny"}
    BY AuthKeys DEF AuthInv, AuthShape, TrustTable
  <2>2. /\ trust[NodeKey(r)] = "allow" => NodeKey(r) \in consent
        /\ r.verified /\ trust[DidKey(r)] = "allow" => r \in consent \/ NodeKey(r) \in consent
    BY DEF AuthInv, TrustConsented
  <2> QED BY <2>1, <2>2 DEF Lookup
<1>4. /\ trust' \in TrustTable /\ trustFile' \in TrustTable /\ TrustConsented'
      /\ authEvents' \in 0..MaxAuthEvents
  <2>1. CASE Migrate(r) BY <1>1, <2>1, MigrateOK
  <2>2. CASE UNCHANGED <<trust, trustFile, authEvents>>
    BY <1>1, <2>2 DEF AuthInv, AuthShape, TrustConsented
  <2> QED BY <2>1, <2>2 DEF Authorize
<1>5. ASSUME NEW d \in {"allow", "deny"}, Finished(t, r, linked.epoch, d),
             d = "allow" => \/ r \in consent
                            \/ r.verified /\ (PolicyAllows(r) \/ NodeKey(r) \in consent)
      PROVE  AuthInv'
  <2>1. /\ auth' \in [AuthTask -> {IdleCall} \cup AuthCall]
        /\ auth'[t].at = "done" /\ auth'[t].req = r /\ auth'[t].got \in {d, "deny"}
        /\ \A u \in AuthTask : u # t => auth'[u] = auth[u]
    BY <1>2, <1>5, FinishedOK
  <2>2. RowsAgree' /\ AuthRowsLive' BY <1>1, <2>1, RowsStay
  <2>3. CallsConsented' /\ AuthConsented' BY <1>1, <1>5, <2>1, DoneConsented
  <2> QED BY <1>1, <1>4, <2>1, <2>2, <2>3 DEF AuthInv, AuthShape
<1>6. CASE auth' = [auth EXCEPT ![t] = [at |-> "enqueue", req |-> r, epoch |-> linked.epoch, row |-> 0,
                                        got |-> "none"]]
  <2>0. [at |-> "enqueue", req |-> r, epoch |-> linked.epoch, row |-> 0, got |-> "none"] \in AuthCall
    BY <1>2, AuthNats DEF AuthCall
  <2>1. /\ auth' \in [AuthTask -> {IdleCall} \cup AuthCall] /\ auth'[t].at = "enqueue"
        /\ \A u \in AuthTask : u # t => auth'[u] = auth[u]
    BY <1>2, <1>6, <2>0
  <2>2. RowsAgree' /\ AuthRowsLive' BY <1>1, <2>1, RowsStay
  <2>3. CallsConsented' /\ AuthConsented' BY <1>1, <2>1, CallsStay
  <2> QED BY <1>1, <1>4, <2>1, <2>2, <2>3 DEF AuthInv, AuthShape
<1>7. \/ Finished(t, r, linked.epoch, "deny")
      \/ Lookup(r) # "none" /\ Finished(t, r, linked.epoch, Lookup(r))
      \/ PolicyAllows(r) /\ Finished(t, r, linked.epoch, "allow")
      \/ auth' = [auth EXCEPT ![t] = [at |-> "enqueue", req |-> r, epoch |-> linked.epoch, row |-> 0,
                                      got |-> "none"]]
  BY DEF Authorize
<1>8. CASE Lookup(r) # "none" /\ Finished(t, r, linked.epoch, Lookup(r))
  BY <1>3, <1>5, <1>8
<1>9. CASE PolicyAllows(r) /\ Finished(t, r, linked.epoch, "allow")
  BY <1>5, <1>9 DEF PolicyAllows
<1> QED BY <1>5, <1>6, <1>7, <1>8, <1>9

(* Calls whose row is answered or purged leave with its request.             *)
LEMMA AnsweredOK ==
    ASSUME AuthInv, NEW G \in SUBSET DOMAIN rows, NEW d \in Decision,
           rows' = [n \in DOMAIN rows \ G |-> rows[n]],
           auth' = [t \in AuthTask |-> IF \E n \in G : t \in rows[n].waiters
                                       THEN [auth[t] EXCEPT !.at = "answered", !.got = d]
                                       ELSE auth[t]],
           consent \subseteq consent', consent' \subseteq TrustKeys \cup Request,
           d \in {"allow", "allowAlways"} => \A n \in G : rows[n].req \in consent',
           UNCHANGED <<trust, trustFile, nextRow, linked, authEvents>>
    PROVE  AuthInv'
<1> DEFINE hit(t) == \E n \in G : t \in rows[n].waiters
<1>0. auth \in [AuthTask -> {IdleCall} \cup AuthCall] /\ rows \in [DOMAIN rows -> AuthRow]
  BY DEF AuthInv, AuthShape
<1>1. ASSUME NEW t \in AuthTask, hit(t)
      PROVE  /\ auth'[t] \in AuthCall /\ auth'[t].at = "answered" /\ auth'[t].got = d
             /\ auth'[t].req = auth[t].req /\ auth[t].at = "waiting" /\ auth[t].row \in G
             /\ \E n \in G : auth[t].req = rows[n].req
  <2>1. PICK n \in G : t \in rows[n].waiters BY <1>1
  <2>2. auth[t].at = "waiting" /\ auth[t].row = n /\ auth[t].req = rows[n].req
    BY <2>1 DEF AuthInv, RowsAgree
  <2>3. auth[t] \in AuthCall BY <2>2, CallFacts
  <2>4. auth'[t] = [auth[t] EXCEPT !.at = "answered", !.got = d] BY <1>1
  <2>5. /\ auth'[t] \in AuthCall /\ auth'[t].at = "answered" /\ auth'[t].got = d
        /\ auth'[t].req = auth[t].req
    BY <2>3, <2>4 DEF AuthCall
  <2> QED BY <2>1, <2>2, <2>5
<1>2. ASSUME NEW t \in AuthTask, ~hit(t) PROVE auth'[t] = auth[t]
  BY <1>2
<1>3. \A n \in DOMAIN rows \ G : rows'[n] = rows[n]
  OBVIOUS
<1>4. DOMAIN rows' = DOMAIN rows \ G
  OBVIOUS
<1>5. auth' = [t \in AuthTask |-> auth'[t]]
  OBVIOUS
<1> HIDE DEF hit
<1>6. AuthShape'
  <2>1. auth' \in [AuthTask -> {IdleCall} \cup AuthCall]
    <3>1. \A t \in AuthTask : auth'[t] \in {IdleCall} \cup AuthCall BY <1>0, <1>1, <1>2
    <3> QED BY <3>1, <1>5
  <2>2. rows' \in [DOMAIN rows' -> AuthRow]
    <3>1. \A n \in DOMAIN rows' : rows'[n] \in AuthRow BY <1>0, <1>3, <1>4
    <3> QED BY <3>1
  <2>3. \A n \in DOMAIN rows' : n \in 1..MaxRows /\ n < nextRow'
    BY <1>4 DEF AuthInv, AuthShape
  <2> QED BY <2>1, <2>2, <2>3 DEF AuthInv, AuthShape
<1>7. RowsAgree'
  <2> SUFFICES ASSUME NEW n \in DOMAIN rows', NEW t \in rows'[n].waiters
               PROVE  auth'[t].at = "waiting" /\ auth'[t].row = n /\ auth'[t].req = rows'[n].req
    BY DEF RowsAgree
  <2>0. n \in DOMAIN rows \ G /\ rows'[n] = rows[n] BY <1>3, <1>4
  <2>1. auth[t].at = "waiting" /\ auth[t].row = n /\ auth[t].req = rows[n].req
    BY <2>0 DEF AuthInv, RowsAgree
  <2>2. t \in AuthTask BY <1>0, <2>0 DEF AuthRow
  <2>3. ~hit(t) BY <2>0, <2>1, <2>2, <1>1
  <2> QED BY <2>0, <2>1, <2>2, <2>3, <1>2
<1>8. AuthRowsLive'
  <2>1. ASSUME NEW t \in AuthTask, auth'[t].at = "waiting"
        PROVE  auth'[t].row \in DOMAIN rows' /\ t \in rows'[auth'[t].row].waiters
    <3>1. ~hit(t) BY <1>1, <2>1
    <3>2. auth'[t] = auth[t] BY <3>1, <1>2
    <3>3. auth[t].row \in DOMAIN rows /\ t \in rows[auth[t].row].waiters
      BY <2>1, <3>2 DEF AuthInv, AuthRowsLive
    <3>4. auth[t].row \notin G BY <3>1, <3>3 DEF hit
    <3> QED BY <3>2, <3>3, <3>4, <1>3, <1>4
  <2>2. ASSUME NEW n \in DOMAIN rows', rows'[n].waiters = {}
        PROVE  \E t \in AuthTask : auth'[t].at = "expired" /\ auth'[t].row = n
    <3>1. n \in DOMAIN rows /\ rows[n].waiters = {} BY <2>2, <1>3, <1>4
    <3>2. PICK t \in AuthTask : auth[t].at = "expired" /\ auth[t].row = n
      BY <3>1 DEF AuthInv, AuthRowsLive
    <3>3. ~hit(t) BY <3>2, <1>1
    <3> QED BY <3>2, <3>3, <1>2
  <2> QED BY <2>1, <2>2 DEF AuthRowsLive
<1>9. TrustConsented'
  BY DEF AuthInv, TrustConsented, NodeKey, DidKey
<1>10. CallsConsented'
  <2> SUFFICES ASSUME NEW t \in AuthTask, auth'[t].at \in {"answered", "persist"},
                      auth'[t].got \in {"allow", "allowAlways"}
               PROVE  auth'[t].req \in consent'
    BY DEF CallsConsented
  <2>1. CASE hit(t)
    <3>1. auth'[t].got = d /\ auth'[t].req = auth[t].req /\ \E n \in G : auth[t].req = rows[n].req
      BY <2>1, <1>1
    <3> QED BY <3>1
  <2>2. CASE ~hit(t) BY <2>2, <1>2 DEF AuthInv, CallsConsented
  <2> QED BY <2>1, <2>2
<1>11. AuthConsented'
  <2> SUFFICES ASSUME NEW t \in AuthTask, auth'[t].at = "done", auth'[t].got = "allow"
               PROVE  \/ auth'[t].req \in consent'
                      \/ auth'[t].req.verified
                         /\ (PolicyAllows(auth'[t].req) \/ NodeKey(auth'[t].req) \in consent')
    BY DEF AuthConsented, PolicyAllows, NodeKey
  <2>1. ~hit(t) BY <1>1
  <2> QED BY <2>1, <1>2 DEF AuthInv, AuthConsented
<1> QED BY <1>6, <1>7, <1>8, <1>9, <1>10, <1>11 DEF AuthInv

LEMMA ResolveOK ==
    ASSUME AuthInv, NEW n, NEW d \in Decision, Resolve(n, d)
    PROVE  AuthInv'
<1>1. /\ n \in DOMAIN rows /\ rows' = [m \in DOMAIN rows \ {n} |-> rows[m]]
      /\ consent' = consent \cup (IF d \in {"allow", "allowAlways"} THEN {rows[n].req} ELSE {})
      /\ UNCHANGED <<trust, trustFile, nextRow, linked, authEvents>>
  BY DEF Resolve, WithoutRow
<1>2. auth' = [t \in AuthTask |-> IF \E m \in {n} : t \in rows[m].waiters
                                  THEN [auth[t] EXCEPT !.at = "answered", !.got = d]
                                  ELSE auth[t]]
  BY Zenon DEF Resolve, Answer
<1>3. rows[n].req \in Request BY <1>1 DEF AuthInv, AuthShape, AuthRow
<1>4. consent' \subseteq TrustKeys \cup Request /\ consent \subseteq consent'
  BY <1>1, <1>3 DEF AuthInv, AuthShape
<1>5. {n} \in SUBSET DOMAIN rows BY <1>1
<1> QED BY <1>1, <1>2, <1>4, <1>5, AnsweredOK

LEMMA PurgePeerOK ==
    ASSUME AuthInv, NEW p, PurgePeer(p)
    PROVE  AuthInv'
<1> DEFINE purged == {n \in DOMAIN rows : rows[n].req.peer = p}
<1>1. /\ rows' = [n \in DOMAIN rows \ purged |-> rows[n]]
      /\ auth' = [t \in AuthTask |-> IF \E n \in purged : t \in rows[n].waiters
                                     THEN [auth[t] EXCEPT !.at = "answered", !.got = "deny"]
                                     ELSE auth[t]]
      /\ UNCHANGED <<trust, trustFile, nextRow, linked, consent, authEvents>>
  BY DEF PurgePeer
<1>2. purged \in SUBSET DOMAIN rows /\ "deny" \in Decision BY DEF Decision
<1>3. consent' \subseteq TrustKeys \cup Request /\ consent \subseteq consent'
  BY <1>1 DEF AuthInv, AuthShape
<1> HIDE DEF purged
<1> QED BY <1>1, <1>2, <1>3, AnsweredOK

LEMMA EnqueueOK ==
    ASSUME AuthInv, NEW t \in AuthTask, Enqueue(t)
    PROVE  AuthInv'
<1> DEFINE r == auth[t].req
           same == {n \in DOMAIN rows : rows[n].req = r}
           wait(n) == auth' = [auth EXCEPT ![t].at = "waiting", ![t].row = n]
<1>0. /\ auth \in [AuthTask -> {IdleCall} \cup AuthCall] /\ rows \in [DOMAIN rows -> AuthRow]
      /\ MaxRows \in Nat /\ nextRow \in 1..MaxRows + 1
      /\ \A n \in DOMAIN rows : n \in 1..MaxRows /\ n < nextRow
  BY AuthNats DEF AuthInv, AuthShape
<1>1. /\ auth[t].at = "enqueue" /\ auth[t] \in AuthCall /\ r \in Request /\ auth[t].epoch \in Nat
      /\ UNCHANGED <<trust, trustFile, linked, consent, authEvents>>
  BY CallFacts DEF Enqueue
<1>2. \A n \in DOMAIN rows : t \notin rows[n].waiters
  BY <1>1 DEF AuthInv, RowsAgree
<1>w. ASSUME NEW n \in 1..MaxRows, wait(n)
      PROVE  /\ auth' \in [AuthTask -> {IdleCall} \cup AuthCall]
             /\ auth'[t].at = "waiting" /\ auth'[t].row = n /\ auth'[t].req = r
             /\ \A u \in AuthTask : u # t => auth'[u] = auth[u]
  <2>0. auth'[t] = [[auth[t] EXCEPT !.at = "waiting"] EXCEPT !.row = n]
    BY <1>0, <1>w
  <2>1. /\ auth'[t].at = "waiting" /\ auth'[t].row = n /\ auth'[t].req = r
        /\ auth'[t] \in AuthCall
    <3>1. n \in 0..MaxRows BY <1>0, <1>w
    <3>2. [auth[t] EXCEPT !.at = "waiting"] \in AuthCall
          /\ [auth[t] EXCEPT !.at = "waiting"].at = "waiting"
          /\ [auth[t] EXCEPT !.at = "waiting"].req = r
      BY <1>1 DEF AuthCall
    <3> QED BY <2>0, <3>1, <3>2 DEF AuthCall
  <2>2. \A u \in AuthTask : u # t => auth'[u] = auth[u]
    BY <1>0, <1>w
  <2>3. auth' = [u \in AuthTask |-> auth'[u]]
    BY <1>0, <1>w
  <2>4. \A u \in AuthTask : auth'[u] \in {IdleCall} \cup AuthCall
    BY <1>0, <2>1, <2>2
  <2> QED BY <2>1, <2>2, <2>3, <2>4
<1>3. ASSUME NEW n \in 1..MaxRows, wait(n), n < nextRow', nextRow' \in 1..MaxRows + 1,
             nextRow <= nextRow', NEW W \in SUBSET AuthTask, t \in W,
             DOMAIN rows' = DOMAIN rows \cup {n},
             rows' = [m \in DOMAIN rows' |-> IF m = n THEN [req |-> r, waiters |-> W] ELSE rows[m]],
             n \in DOMAIN rows => rows[n].req = r /\ W = rows[n].waiters \cup {t},
             n \notin DOMAIN rows => W = {t}
      PROVE  AuthInv'
  <2>1. /\ auth' \in [AuthTask -> {IdleCall} \cup AuthCall]
        /\ auth'[t].at = "waiting" /\ auth'[t].row = n /\ auth'[t].req = r
        /\ \A u \in AuthTask : u # t => auth'[u] = auth[u]
    BY <1>3, <1>w
  <2> DEFINE new == [req |-> r, waiters |-> W]
  <2>2. new \in AuthRow /\ new.req = r /\ new.waiters = W BY <1>1, <1>3 DEF AuthRow
  <2>3. rows'[n] = new /\ \A m \in DOMAIN rows : m # n => rows'[m] = rows[m]
    BY <1>3
  <2>4. rows' \in [DOMAIN rows' -> AuthRow] BY <1>0, <1>3, <2>2, <2>3
  <2>5. \A m \in DOMAIN rows' : m \in 1..MaxRows /\ m < nextRow' BY <1>0, <1>3
  <2> HIDE DEF new
  <2>6. AuthShape' BY <1>1, <1>3, <2>1, <2>4, <2>5 DEF AuthInv, AuthShape
  <2>7. RowsAgree'
    <3> SUFFICES ASSUME NEW m \in DOMAIN rows', NEW u \in rows'[m].waiters
                 PROVE  auth'[u].at = "waiting" /\ auth'[u].row = m /\ auth'[u].req = rows'[m].req
      BY DEF RowsAgree
    <3>1. CASE u = t
      <4>1. m = n BY <1>2, <1>3, <2>3, <3>1
      <4> QED BY <4>1, <2>1, <2>2, <2>3, <3>1
    <3>2. CASE u # t
      <4>1. m \in DOMAIN rows /\ u \in rows[m].waiters /\ rows[m].req = rows'[m].req
        BY <1>3, <2>2, <2>3, <3>2
      <4>2. auth[u].at = "waiting" /\ auth[u].row = m /\ auth[u].req = rows[m].req /\ u \in AuthTask
        BY <4>1, <1>0 DEF AuthInv, RowsAgree, AuthRow
      <4> QED BY <4>1, <4>2, <2>1, <3>2
    <3> QED BY <3>1, <3>2
  <2>8. AuthRowsLive'
    <3>1. ASSUME NEW u \in AuthTask, auth'[u].at = "waiting"
          PROVE  auth'[u].row \in DOMAIN rows' /\ u \in rows'[auth'[u].row].waiters
      <4>1. CASE u = t BY <4>1, <1>3, <2>1, <2>2, <2>3
      <4>2. CASE u # t
        <5>1. auth'[u] = auth[u] /\ auth[u].row \in DOMAIN rows /\ u \in rows[auth[u].row].waiters
          BY <3>1, <4>2, <2>1 DEF AuthInv, AuthRowsLive
        <5> QED BY <5>1, <1>3, <2>2, <2>3
      <4> QED BY <4>1, <4>2
    <3>2. ASSUME NEW m \in DOMAIN rows', rows'[m].waiters = {}
          PROVE  \E u \in AuthTask : auth'[u].at = "expired" /\ auth'[u].row = m
      <4>1. m \in DOMAIN rows /\ rows[m].waiters = {} BY <1>3, <2>2, <2>3, <3>2
      <4>2. PICK u \in AuthTask : auth[u].at = "expired" /\ auth[u].row = m
        BY <4>1 DEF AuthInv, AuthRowsLive
      <4> QED BY <4>2, <1>1, <2>1
    <3> QED BY <3>1, <3>2 DEF AuthRowsLive
  <2>9. TrustConsented' BY <1>1 DEF AuthInv, TrustConsented, NodeKey, DidKey
  <2>10. CallsConsented' /\ AuthConsented' BY <1>1, <2>1, CallsStay
  <2> QED BY <2>6, <2>7, <2>8, <2>9, <2>10 DEF AuthInv
<1>4. CASE \E n \in same : /\ rows' = [rows EXCEPT ![n].waiters = @ \cup {t}]
                            /\ wait(n) /\ UNCHANGED nextRow
  <2>1. PICK n \in DOMAIN rows : /\ rows[n].req = r /\ wait(n) /\ UNCHANGED nextRow
                                 /\ rows' = [rows EXCEPT ![n].waiters = @ \cup {t}]
    BY <1>4
  <2> DEFINE W == rows[n].waiters \cup {t}
  <2>2. rows[n] \in AuthRow BY <1>0
  <2>3. W \in SUBSET AuthTask /\ t \in W BY <2>2 DEF AuthRow
  <2>4. [rows[n] EXCEPT !.waiters = W] = [req |-> r, waiters |-> W] BY <2>1, <2>2 DEF AuthRow
  <2>5. rows' = [rows EXCEPT ![n] = [rows[n] EXCEPT !.waiters = W]] BY <2>1
  <2>6. DOMAIN rows' = DOMAIN rows \cup {n} BY <2>5
  <2>7. rows' = [m \in DOMAIN rows' |-> IF m = n THEN [req |-> r, waiters |-> W] ELSE rows[m]]
    <3> HIDE DEF W
    <3>1. rows' = [rows EXCEPT ![n] = [req |-> r, waiters |-> W]] BY <2>4, <2>5
    <3> QED BY <3>1, <2>6
  <2> HIDE DEF W
  <2>8. n \in 1..MaxRows /\ n < nextRow' /\ nextRow' \in 1..MaxRows + 1 /\ nextRow <= nextRow'
    BY <1>0, <2>1
  <2>9. n \in DOMAIN rows => rows[n].req = r /\ W = rows[n].waiters \cup {t} BY <2>1 DEF W
  <2> QED BY <1>3, <2>1, <2>3, <2>6, <2>7, <2>8, <2>9
<1>5. CASE /\ nextRow <= MaxRows /\ nextRow' = nextRow + 1 /\ wait(nextRow)
           /\ rows' = [n \in DOMAIN rows \cup {nextRow} |->
                         IF n = nextRow THEN [req |-> r, waiters |-> {t}] ELSE rows[n]]
  <2>1. nextRow \in 1..MaxRows /\ nextRow < nextRow' /\ nextRow' \in 1..MaxRows + 1
        /\ nextRow <= nextRow' /\ nextRow \notin DOMAIN rows
    BY <1>0, <1>5
  <2>2. DOMAIN rows' = DOMAIN rows \cup {nextRow} BY <1>5
  <2>3. rows' = [m \in DOMAIN rows' |-> IF m = nextRow THEN [req |-> r, waiters |-> {t}] ELSE rows[m]]
    BY <1>5, <2>2
  <2>4. {t} \in SUBSET AuthTask /\ t \in {t} OBVIOUS
  <2> QED BY <1>3, <1>5, <2>1, <2>2, <2>3, <2>4
<1>6. CASE Finished(t, r, auth[t].epoch, "deny") /\ UNCHANGED <<rows, nextRow>>
  <2>1. /\ auth' \in [AuthTask -> {IdleCall} \cup AuthCall]
        /\ auth'[t].at = "done" /\ auth'[t].req = r /\ auth'[t].got \in {"deny"}
        /\ \A u \in AuthTask : u # t => auth'[u] = auth[u]
    BY <1>1, <1>6, FinishedOK
  <2>2. RowsAgree' /\ AuthRowsLive' BY <1>1, <1>6, <2>1, RowsStay
  <2>3. CallsConsented' /\ AuthConsented' BY <1>1, <2>1, DoneConsented
  <2> QED BY <1>1, <1>6, <2>1, <2>2, <2>3 DEF AuthInv, AuthShape, TrustConsented
<1> QED BY <1>4, <1>5, <1>6 DEF Enqueue

LEMMA ExpiresOK ==
    ASSUME AuthInv, NEW t \in AuthTask, Expires(t)
    PROVE  AuthInv'
<1> DEFINE n == auth[t].row
           W == rows[n].waiters \ {t}
<1>0. auth \in [AuthTask -> {IdleCall} \cup AuthCall] /\ rows \in [DOMAIN rows -> AuthRow]
  BY DEF AuthInv, AuthShape
<1>1. /\ auth[t].at = "waiting" /\ auth[t] \in AuthCall
      /\ n \in DOMAIN rows /\ rows[n] \in AuthRow /\ t \in rows[n].waiters
      /\ UNCHANGED <<trust, trustFile, nextRow, linked, consent, authEvents>>
  BY <1>0, CallFacts DEF Expires, AuthInv, AuthRowsLive
<1>2. /\ auth' \in [AuthTask -> {IdleCall} \cup AuthCall]
      /\ auth'[t].at = "expired" /\ auth'[t].row = n
      /\ \A u \in AuthTask : u # t => auth'[u] = auth[u]
  <2>1. auth' = [auth EXCEPT ![t] = [auth[t] EXCEPT !.at = "expired"]]
    BY DEF Expires
  <2>2. /\ [auth[t] EXCEPT !.at = "expired"] \in AuthCall
        /\ [auth[t] EXCEPT !.at = "expired"].at = "expired"
        /\ [auth[t] EXCEPT !.at = "expired"].row = n
    BY <1>1 DEF AuthCall
  <2> QED BY <1>0, <2>1, <2>2
<1>3. /\ rows' \in [DOMAIN rows -> AuthRow] /\ DOMAIN rows' = DOMAIN rows
      /\ rows'[n].waiters = W /\ rows'[n].req = rows[n].req
      /\ \A m \in DOMAIN rows : m # n => rows'[m] = rows[m]
  <2>1. rows' = [rows EXCEPT ![n] = [rows[n] EXCEPT !.waiters = W]]
    BY DEF Expires
  <2>2. /\ [rows[n] EXCEPT !.waiters = W] \in AuthRow
        /\ [rows[n] EXCEPT !.waiters = W].waiters = W
        /\ [rows[n] EXCEPT !.waiters = W].req = rows[n].req
    BY <1>1 DEF AuthRow
  <2> HIDE DEF W, n
  <2> QED BY <1>0, <1>1, <2>1, <2>2
<1>4. AuthShape' BY <1>1, <1>2, <1>3 DEF AuthInv, AuthShape
<1>5. RowsAgree'
  <2> SUFFICES ASSUME NEW m \in DOMAIN rows', NEW u \in rows'[m].waiters
               PROVE  auth'[u].at = "waiting" /\ auth'[u].row = m /\ auth'[u].req = rows'[m].req
    BY DEF RowsAgree
  <2>1. m \in DOMAIN rows /\ u \in rows[m].waiters /\ rows[m].req = rows'[m].req
    BY <1>3
  <2>2. auth[u].at = "waiting" /\ auth[u].row = m /\ auth[u].req = rows[m].req /\ u \in AuthTask
    BY <2>1, <1>0 DEF AuthInv, RowsAgree, AuthRow
  <2>3. u # t BY <2>2, <1>3
  <2> QED BY <2>1, <2>2, <2>3, <1>2
<1>6. AuthRowsLive'
  <2>1. ASSUME NEW u \in AuthTask, auth'[u].at = "waiting"
        PROVE  auth'[u].row \in DOMAIN rows' /\ u \in rows'[auth'[u].row].waiters
    <3>1. u # t /\ auth'[u] = auth[u] BY <2>1, <1>2
    <3>2. auth[u].row \in DOMAIN rows /\ u \in rows[auth[u].row].waiters
      BY <2>1, <3>1 DEF AuthInv, AuthRowsLive
    <3> QED BY <3>1, <3>2, <1>3
  <2>2. ASSUME NEW m \in DOMAIN rows', rows'[m].waiters = {}
        PROVE  \E u \in AuthTask : auth'[u].at = "expired" /\ auth'[u].row = m
    <3>1. CASE m = n BY <3>1, <1>2
    <3>2. CASE m # n
      <4>1. m \in DOMAIN rows /\ rows[m].waiters = {} BY <1>3, <2>2, <3>2
      <4>2. PICK u \in AuthTask : auth[u].at = "expired" /\ auth[u].row = m
        BY <4>1 DEF AuthInv, AuthRowsLive
      <4> QED BY <4>2, <1>1, <1>2
    <3> QED BY <3>1, <3>2
  <2> QED BY <2>1, <2>2 DEF AuthRowsLive
<1>7. TrustConsented' BY <1>1 DEF AuthInv, TrustConsented, NodeKey, DidKey
<1>8. CallsConsented' /\ AuthConsented' BY <1>1, <1>2, CallsStay
<1> QED BY <1>4, <1>5, <1>6, <1>7, <1>8 DEF AuthInv

LEMMA RemoveUnresolvedOK ==
    ASSUME AuthInv, NEW t \in AuthTask, RemoveUnresolved(t)
    PROVE  AuthInv'
<1> DEFINE n == auth[t].row
           G == {m \in DOMAIN rows : m = n /\ rows[m].waiters = {}}
<1>0. rows \in [DOMAIN rows -> AuthRow]
  BY DEF AuthInv, AuthShape
<1>1. /\ auth[t].at = "expired" /\ auth[t].req \in Request /\ auth[t].epoch \in Nat
      /\ Finished(t, auth[t].req, auth[t].epoch, "deny")
      /\ UNCHANGED <<trust, trustFile, nextRow, linked, consent, authEvents>>
  BY CallFacts DEF RemoveUnresolved
<1>2. /\ auth' \in [AuthTask -> {IdleCall} \cup AuthCall]
      /\ auth'[t].at = "done" /\ auth'[t].got \in {"deny"}
      /\ \A u \in AuthTask : u # t => auth'[u] = auth[u]
  BY <1>1, FinishedOK
<1>3. /\ DOMAIN rows' = DOMAIN rows \ G
      /\ \A m \in DOMAIN rows' : rows'[m] = rows[m] /\ m \in DOMAIN rows
      /\ rows' \in [DOMAIN rows' -> AuthRow]
  <2>1. CASE n \in DOMAIN rows /\ rows[n].waiters = {}
    <3>1. rows' = [m \in DOMAIN rows \ {n} |-> rows[m]] BY <2>1 DEF RemoveUnresolved, WithoutRow
    <3>2. G = {n} BY <2>1
    <3> HIDE DEF G
    <3> QED BY <1>0, <3>1, <3>2
  <2>2. CASE ~(n \in DOMAIN rows /\ rows[n].waiters = {})
    <3>1. rows' = rows BY <2>2 DEF RemoveUnresolved
    <3>2. G = {} BY <2>2
    <3> QED BY <1>0, <3>1, <3>2
  <2> QED BY <2>1, <2>2
<1>4. AuthShape' BY <1>1, <1>2, <1>3 DEF AuthInv, AuthShape
<1>5. RowsAgree'
  <2> SUFFICES ASSUME NEW m \in DOMAIN rows', NEW u \in rows'[m].waiters
               PROVE  auth'[u].at = "waiting" /\ auth'[u].row = m /\ auth'[u].req = rows'[m].req
    BY DEF RowsAgree
  <2>1. auth[u].at = "waiting" /\ auth[u].row = m /\ auth[u].req = rows[m].req /\ u \in AuthTask
        /\ rows'[m] = rows[m]
    BY <1>0, <1>3 DEF AuthInv, RowsAgree, AuthRow
  <2> QED BY <2>1, <1>1, <1>2
<1>6. AuthRowsLive'
  <2>1. ASSUME NEW u \in AuthTask, auth'[u].at = "waiting"
        PROVE  auth'[u].row \in DOMAIN rows' /\ u \in rows'[auth'[u].row].waiters
    <3>1. u # t /\ auth'[u] = auth[u] BY <2>1, <1>2
    <3>2. auth[u].row \in DOMAIN rows /\ u \in rows[auth[u].row].waiters
      BY <2>1, <3>1 DEF AuthInv, AuthRowsLive
    <3>3. auth[u].row \in DOMAIN rows' BY <1>3, <3>2
    <3> QED BY <3>1, <3>2, <3>3, <1>3
  <2>2. ASSUME NEW m \in DOMAIN rows', rows'[m].waiters = {}
        PROVE  \E u \in AuthTask : auth'[u].at = "expired" /\ auth'[u].row = m
    <3>1. m \in DOMAIN rows /\ rows[m].waiters = {} /\ m # n BY <1>3, <2>2
    <3>2. PICK u \in AuthTask : auth[u].at = "expired" /\ auth[u].row = m
      BY <3>1 DEF AuthInv, AuthRowsLive
    <3> QED BY <3>1, <3>2, <1>2
  <2> QED BY <2>1, <2>2 DEF AuthRowsLive
<1>7. TrustConsented' BY <1>1 DEF AuthInv, TrustConsented, NodeKey, DidKey
<1>8. CallsConsented' /\ AuthConsented' BY <1>1, <1>2, DoneConsented
<1> QED BY <1>4, <1>5, <1>6, <1>7, <1>8 DEF AuthInv

LEMMA RememberOK ==
    ASSUME AuthInv, NEW t \in AuthTask, Remember(t)
    PROVE  AuthInv'
<1> DEFINE r == auth[t].req
           d == auth[t].got
           always == d \in {"allowAlways", "denyAlways"} /\ r.verified
           once == IF d = "allowAlways" THEN "allow" ELSE IF d = "denyAlways" THEN "deny" ELSE d
<1>0. /\ auth \in [AuthTask -> {IdleCall} \cup AuthCall] /\ trust \in TrustTable
      /\ auth[t].at = "answered"
  BY DEF AuthInv, AuthShape, Remember
<1>1. /\ auth[t] \in AuthCall /\ r \in Request /\ auth[t].epoch \in Nat
      /\ d \in Decision \cup {"none"}
      /\ UNCHANGED <<trustFile, rows, nextRow, linked, consent, authEvents>>
  BY <1>0, CallFacts DEF Remember
<1>2. once = "allow" => r \in consent
  BY <1>0 DEF AuthInv, CallsConsented
<1>3. once \in {"allow", "deny", "none"}
  BY <1>1 DEF Decision
<1>4. CASE always
  <2>0. /\ trust' = [trust EXCEPT ![DidKey(r)] = once]
        /\ auth' = [auth EXCEPT ![t].at = "persist", ![t].got = once]
    BY <1>4 DEF Remember
  <2>1. /\ auth' \in [AuthTask -> {IdleCall} \cup AuthCall]
        /\ auth'[t].at = "persist" /\ auth'[t].got = once /\ auth'[t].req = r
        /\ \A u \in AuthTask : u # t => auth'[u] = auth[u]
    <3> HIDE DEF once, r, d
    <3>1. auth'[t] = [[auth[t] EXCEPT !.at = "persist"] EXCEPT !.got = once] BY <1>0, <2>0
    <3>2. /\ [auth[t] EXCEPT !.at = "persist"] \in AuthCall
          /\ [auth[t] EXCEPT !.at = "persist"].at = "persist"
          /\ [auth[t] EXCEPT !.at = "persist"].req = r
      BY <1>1 DEF AuthCall, r
    <3>3. once \in Decision \cup {"none"} BY <1>3 DEF Decision
    <3>4. /\ auth'[t] \in AuthCall
          /\ auth'[t].at = "persist" /\ auth'[t].got = once /\ auth'[t].req = r
      BY <3>1, <3>2, <3>3 DEF AuthCall
    <3>5. \A u \in AuthTask : u # t => auth'[u] = auth[u] BY <1>0, <2>0
    <3>6. auth' = [u \in AuthTask |-> auth'[u]] BY <1>0, <2>0
    <3>7. \A u \in AuthTask : auth'[u] \in {IdleCall} \cup AuthCall BY <1>0, <3>4, <3>5
    <3> QED BY <3>4, <3>5, <3>6, <3>7
  <2>2. RowsAgree' /\ AuthRowsLive' BY <1>0, <1>1, <2>1, RowsStay
  <2>3. trust' \in TrustTable BY <1>0, <1>1, <1>3, <2>0, AuthKeys DEF TrustTable
  <2>4. TrustConsented'
    <3> HIDE DEF once
    <3> SUFFICES ASSUME NEW q \in Request
                 PROVE  /\ trust'[NodeKey(q)] = "allow" => NodeKey(q) \in consent
                        /\ q.verified /\ trust'[DidKey(q)] = "allow" => q \in consent \/ NodeKey(q) \in consent
      BY <1>1 DEF TrustConsented, NodeKey, DidKey
    <3>1. /\ DidKey(q) \in TrustKeys /\ NodeKey(q) \in TrustKeys /\ DidKey(r) # NodeKey(q)
          /\ (DidKey(q) = DidKey(r) /\ q.verified /\ r.verified => q = r)
          /\ DidKey(r) \in TrustKeys
      BY <1>1, AuthKeys
    <3>2. /\ trust[NodeKey(q)] = "allow" => NodeKey(q) \in consent
          /\ q.verified /\ trust[DidKey(q)] = "allow" => q \in consent \/ NodeKey(q) \in consent
      BY DEF AuthInv, TrustConsented
    <3>3. trust'[NodeKey(q)] = trust[NodeKey(q)] BY <1>0, <2>0, <3>1 DEF TrustTable
    <3>4. CASE DidKey(q) = DidKey(r)
      <4>1. trust'[DidKey(q)] = once BY <1>0, <2>0, <3>1, <3>4 DEF TrustTable
      <4>2. q.verified => q = r BY <1>4, <3>1, <3>4
      <4> QED BY <1>2, <3>2, <3>3, <4>1, <4>2
    <3>5. CASE DidKey(q) # DidKey(r)
      <4>1. trust'[DidKey(q)] = trust[DidKey(q)] BY <1>0, <2>0, <3>1, <3>5 DEF TrustTable
      <4> QED BY <3>2, <3>3, <4>1
    <3> QED BY <3>4, <3>5
  <2>5. CallsConsented'
    <3> HIDE DEF once
    <3> QED BY <1>1, <1>2, <1>3, <2>1 DEF AuthInv, CallsConsented
  <2>6. AuthConsented'
    BY <1>1, <2>1 DEF AuthInv, AuthConsented, PolicyAllows, NodeKey
  <2> QED BY <1>1, <2>1, <2>2, <2>3, <2>4, <2>5, <2>6 DEF AuthInv, AuthShape
<1>5. CASE ~always
  <2>0. Finished(t, r, auth[t].epoch, once) /\ UNCHANGED trust
    BY <1>5 DEF Remember
  <2>1. PICK g \in {once, "deny"} :
          auth' = [auth EXCEPT ![t] = [at |-> "done", req |-> r, epoch |-> auth[t].epoch, row |-> 0, got |-> g]]
    BY <2>0 DEF Finished
  <2> DEFINE c == [at |-> "done", req |-> r, epoch |-> auth[t].epoch, row |-> 0, got |-> g]
  <2>2. g \in Decision \cup {"none"} /\ (g = "allow" => r \in consent)
    BY <1>2, <1>3, <2>1 DEF Decision
  <2>3. c \in AuthCall /\ c.at = "done" /\ c.req = r /\ c.got = g
    BY <1>1, <2>2, AuthNats DEF AuthCall
  <2>4. /\ auth' \in [AuthTask -> {IdleCall} \cup AuthCall]
        /\ auth'[t] = c
        /\ \A u \in AuthTask : u # t => auth'[u] = auth[u]
    <3> HIDE DEF r, once
    <3> QED BY <1>0, <2>1, <2>3
  <2> HIDE DEF c
  <2>5. auth'[t].at = "done" /\ (auth'[t].got = "allow" => auth'[t].req \in consent)
    BY <2>2, <2>3, <2>4
  <2>6. RowsAgree' /\ AuthRowsLive' BY <1>0, <1>1, <2>4, <2>5, RowsStay
  <2>7. CallsConsented' /\ AuthConsented' BY <1>1, <2>4, <2>5, DoneConsented
  <2> QED BY <1>1, <2>0, <2>4, <2>6, <2>7 DEF AuthInv, AuthShape, TrustConsented
<1> QED BY <1>4, <1>5

LEMMA PersistTrustOK ==
    ASSUME AuthInv, NEW t \in AuthTask, PersistTrust(t)
    PROVE  AuthInv'
<1> DEFINE r == auth[t].req
           d == auth[t].got
<1>0. /\ auth \in [AuthTask -> {IdleCall} \cup AuthCall] /\ trust \in TrustTable /\ trustFile \in TrustTable
      /\ auth[t].at = "persist" /\ authEvents \in 0..MaxAuthEvents /\ MaxAuthEvents \in Nat
  BY AuthNats DEF AuthInv, AuthShape, PersistTrust
<1>1. /\ r \in Request /\ auth[t].epoch \in Nat /\ d \in Decision \cup {"none"}
      /\ Finished(t, r, auth[t].epoch, d) /\ UNCHANGED <<trust, rows, nextRow, linked, consent>>
  BY <1>0, CallFacts DEF PersistTrust
<1>2. trustFile' \in TrustTable /\ authEvents' \in 0..MaxAuthEvents
  BY <1>0, <1>1 DEF PersistTrust, Persist, Event
<1>3. PICK g \in {d, "deny"} :
        auth' = [auth EXCEPT ![t] = [at |-> "done", req |-> r, epoch |-> auth[t].epoch, row |-> 0, got |-> g]]
  BY <1>1 DEF Finished
<1> DEFINE c == [at |-> "done", req |-> r, epoch |-> auth[t].epoch, row |-> 0, got |-> g]
<1>4. g \in Decision \cup {"none"} /\ (g = "allow" => r \in consent)
  BY <1>0, <1>1, <1>3 DEF Decision, AuthInv, CallsConsented
<1>5. c \in AuthCall /\ c.at = "done" /\ c.req = r /\ c.got = g
  BY <1>1, <1>4, AuthNats DEF AuthCall
<1>6. /\ auth' \in [AuthTask -> {IdleCall} \cup AuthCall]
      /\ auth'[t] = c
      /\ \A u \in AuthTask : u # t => auth'[u] = auth[u]
  <2> HIDE DEF r, d
  <2> QED BY <1>0, <1>3, <1>5
<1> HIDE DEF c
<1>7. auth'[t].at = "done" /\ (auth'[t].got = "allow" => auth'[t].req \in consent)
  BY <1>4, <1>5, <1>6
<1>8. RowsAgree' /\ AuthRowsLive' BY <1>0, <1>1, <1>6, <1>7, RowsStay
<1>9. CallsConsented' /\ AuthConsented' BY <1>1, <1>6, <1>7, DoneConsented
<1> QED BY <1>1, <1>2, <1>6, <1>8, <1>9 DEF AuthInv, AuthShape, TrustConsented

LEMMA CallReturnsOK ==
    ASSUME AuthInv, NEW t \in AuthTask, CallReturns(t)
    PROVE  AuthInv'
<1>0. auth \in [AuthTask -> {IdleCall} \cup AuthCall] /\ auth[t].at = "done"
  BY DEF AuthInv, AuthShape, CallReturns
<1>1. /\ auth' = [auth EXCEPT ![t] = IdleCall]
      /\ UNCHANGED <<trust, trustFile, rows, nextRow, linked, consent, authEvents>>
  BY DEF CallReturns
<1>2. /\ auth' \in [AuthTask -> {IdleCall} \cup AuthCall] /\ auth'[t].at = "idle"
      /\ \A u \in AuthTask : u # t => auth'[u] = auth[u]
  BY <1>0, <1>1 DEF IdleCall
<1>3. RowsAgree' /\ AuthRowsLive' BY <1>0, <1>1, <1>2, RowsStay
<1>4. CallsConsented' /\ AuthConsented' BY <1>1, <1>2, CallsStay
<1> QED BY <1>1, <1>2, <1>3, <1>4 DEF AuthInv, AuthShape, TrustConsented

(* Revoked trust, a change of policy and steps that leave the calls alone.   *)
LEMMA CallsUnchangedOK ==
    ASSUME AuthInv, UNCHANGED <<auth, rows, nextRow, consent>>,
           trust' \in TrustTable, trustFile' \in TrustTable, authEvents' \in 0..MaxAuthEvents,
           linked' \in [peers : SUBSET TunnelPeer, epoch : Nat],
           \A k \in TrustKeys : trust'[k] \in {"none", trust[k]}
    PROVE  AuthInv'
<1>1. AuthShape' /\ RowsAgree' /\ AuthRowsLive'
  BY DEF AuthInv, AuthShape, RowsAgree, AuthRowsLive
<1>2. TrustConsented'
  <2> SUFFICES ASSUME NEW q \in Request
               PROVE  /\ trust'[NodeKey(q)] = "allow" => NodeKey(q) \in consent
                      /\ q.verified /\ trust'[DidKey(q)] = "allow" => q \in consent \/ NodeKey(q) \in consent
    BY DEF TrustConsented, NodeKey, DidKey
  <2>1. trust'[NodeKey(q)] \in {"none", trust[NodeKey(q)]} /\ trust'[DidKey(q)] \in {"none", trust[DidKey(q)]}
    BY AuthKeys
  <2>2. /\ trust[NodeKey(q)] = "allow" => NodeKey(q) \in consent
        /\ q.verified /\ trust[DidKey(q)] = "allow" => q \in consent \/ NodeKey(q) \in consent
    BY DEF AuthInv, TrustConsented
  <2> QED BY <2>1, <2>2
<1>3. CallsConsented' /\ AuthConsented'
  BY DEF AuthInv, CallsConsented, AuthConsented, PolicyAllows, NodeKey
<1> QED BY <1>1, <1>2, <1>3 DEF AuthInv

LEMMA RemoveTrustOK ==
    ASSUME AuthInv, NEW k \in TrustKeys, RemoveTrust(k)
    PROVE  AuthInv'
<1>1. /\ trust \in TrustTable /\ trustFile \in TrustTable /\ authEvents \in 0..MaxAuthEvents
      /\ MaxAuthEvents \in Nat /\ linked \in [peers : SUBSET TunnelPeer, epoch : Nat]
  BY AuthNats DEF AuthInv, AuthShape
<1>2. /\ trust' = [trust EXCEPT ![k] = "none"] /\ trustFile' \in {trust', trustFile}
      /\ UNCHANGED <<auth, rows, nextRow, linked, consent>>
  BY DEF RemoveTrust
<1>3. trust' \in TrustTable /\ \A j \in TrustKeys : trust'[j] \in {"none", trust[j]}
  BY <1>1, <1>2 DEF TrustTable
<1>4. authEvents' \in 0..MaxAuthEvents BY <1>1 DEF RemoveTrust, Event
<1>5. trustFile' \in TrustTable BY <1>1, <1>2, <1>3
<1> QED BY <1>1, <1>2, <1>3, <1>4, <1>5, CallsUnchangedOK

LEMMA ChangePolicyOK ==
    ASSUME AuthInv, NEW peers \in SUBSET TunnelPeer, NEW newRoom \in BOOLEAN,
           ChangePolicy(peers, newRoom)
    PROVE  AuthInv'
<1>1. /\ trust \in TrustTable /\ trustFile \in TrustTable /\ authEvents \in 0..MaxAuthEvents
      /\ MaxAuthEvents \in Nat /\ linked.epoch \in Nat
  BY AuthNats DEF AuthInv, AuthShape
<1>2. UNCHANGED <<trust, trustFile, auth, rows, nextRow, consent>> BY DEF ChangePolicy
<1>3. linked' \in [peers : SUBSET TunnelPeer, epoch : Nat] BY <1>1 DEF ChangePolicy
<1>4. authEvents' \in 0..MaxAuthEvents BY <1>1 DEF ChangePolicy, Event
<1>5. \A j \in TrustKeys : trust'[j] \in {"none", trust[j]} BY <1>2
<1> QED BY <1>1, <1>2, <1>3, <1>4, <1>5, CallsUnchangedOK

LEMMA AuthInitOK == AuthInit => AuthInv
<1> SUFFICES ASSUME AuthInit PROVE AuthInv OBVIOUS
<1>1. /\ trust \in TrustTable /\ \A k \in TrustKeys : k.kind = "did" => trust[k] = "none"
      /\ trustFile = trust /\ auth = [t \in AuthTask |-> IdleCall]
      /\ consent = {k \in TrustKeys : trust[k] = "allow"}
  BY DEF AuthInit, TrustTable
<1>2. AuthShape
  <2>1. rows \in [DOMAIN rows -> AuthRow] /\ DOMAIN rows = {} BY DEF AuthInit
  <2>2. linked \in [peers : SUBSET TunnelPeer, epoch : Nat] BY DEF AuthInit
  <2>3. nextRow \in 1..MaxRows + 1 /\ authEvents \in 0..MaxAuthEvents BY AuthNats DEF AuthInit
  <2> QED BY <1>1, <2>1, <2>2, <2>3 DEF AuthShape
<1>3. \A t \in AuthTask : auth[t].at = "idle" BY <1>1 DEF IdleCall
<1>4. RowsAgree /\ AuthRowsLive BY <1>3 DEF RowsAgree, AuthRowsLive, AuthInit
<1>5. CallsConsented /\ AuthConsented BY <1>3 DEF CallsConsented, AuthConsented
<1>6. TrustConsented
  <2> SUFFICES ASSUME NEW r \in Request
               PROVE  /\ trust[NodeKey(r)] = "allow" => NodeKey(r) \in consent
                      /\ trust[DidKey(r)] # "allow"
    BY DEF TrustConsented
  <2>1. DidKey(r) \in TrustKeys /\ NodeKey(r) \in TrustKeys BY AuthKeys
  <2>2. DidKey(r).kind = "did" BY DEF DidKey
  <2> QED BY <1>1, <2>1, <2>2
<1> QED BY <1>2, <1>4, <1>5, <1>6 DEF AuthInv

LEMMA AuthInvariant == AuthSpec => []AuthInv
<1>1. AuthInit => AuthInv BY AuthInitOK
<1>2. AuthInv /\ [AuthNext]_authVars => AuthInv'
  <2> SUFFICES ASSUME AuthInv, [AuthNext]_authVars PROVE AuthInv' OBVIOUS
  <2>1. CASE UNCHANGED authVars
    <3>1. \A k \in TrustKeys : trust'[k] \in {"none", trust[k]} BY <2>1 DEF authVars
    <3>2. /\ trust \in TrustTable /\ trustFile \in TrustTable /\ authEvents \in 0..MaxAuthEvents
          /\ linked \in [peers : SUBSET TunnelPeer, epoch : Nat]
      BY DEF AuthInv, AuthShape
    <3> QED BY <2>1, <3>1, <3>2, CallsUnchangedOK DEF authVars
  <2>2. CASE AuthNext
    <3>1. CASE \E t \in AuthTask :
                 \/ \E r \in Request : Authorize(t, r)
                 \/ Enqueue(t) \/ Expires(t) \/ RemoveUnresolved(t)
                 \/ Remember(t) \/ PersistTrust(t) \/ CallReturns(t)
      BY <3>1, AuthorizeOK, EnqueueOK, ExpiresOK, RemoveUnresolvedOK, RememberOK, PersistTrustOK,
         CallReturnsOK
    <3>2. CASE \E n \in 1..MaxRows, d \in Decision : Resolve(n, d) BY <3>2, ResolveOK
    <3>3. CASE \E p \in TunnelPeer : PurgePeer(p) BY <3>3, PurgePeerOK
    <3>4. CASE \E k \in TrustKeys : RemoveTrust(k) BY <3>4, RemoveTrustOK
    <3>5. CASE \E peers \in SUBSET TunnelPeer, newRoom \in BOOLEAN : ChangePolicy(peers, newRoom)
      BY <3>5, ChangePolicyOK
    <3> QED BY <2>2, <3>1, <3>2, <3>3, <3>4, <3>5 DEF AuthNext
  <2> QED BY <2>1, <2>2
<1> QED BY <1>1, <1>2, PTL DEF AuthSpec

LEMMA AuthShapeIsType == AuthInv => AuthTypeOK
<1> SUFFICES ASSUME AuthInv PROVE AuthTypeOK OBVIOUS
<1>1. \A t \in AuthTask :
          \/ auth[t] = IdleCall
          \/ /\ auth[t].at \in {"enqueue", "waiting", "expired", "answered", "persist", "done"}
             /\ auth[t].req \in Request /\ auth[t].epoch \in Nat
             /\ auth[t].row \in 0..MaxRows /\ auth[t].got \in Decision \cup {"none"}
  BY DEF AuthInv, AuthShape, AuthCall
<1>2. \A n \in DOMAIN rows : n \in 1..MaxRows /\ rows[n].req \in Request
                              /\ rows[n].waiters \subseteq AuthTask
  BY DEF AuthInv, AuthShape, AuthRow
<1>3. linked.peers \subseteq TunnelPeer /\ linked.epoch \in Nat
  BY DEF AuthInv, AuthShape
<1> QED BY <1>1, <1>2, <1>3 DEF AuthInv, AuthShape, AuthTypeOK, TrustTable

-----------------------------------------------------------------------------
(***************************************************************************)
(* Access to shared folders: every row of the queue, every snapshot a      *)
(* request was spawned with and the command under way carry a key of the   *)
(* requester they name, and everyone a table or a snapshot allows was      *)
(* consented to.                                                           *)
(***************************************************************************)
OwnRow == {x \in [requester : Requester, folder : Folder, key : AccessKey, old : BOOLEAN] :
              x.key.of = x.requester}
FolderRow == [shared : BOOLEAN, allowed : SUBSET Requester]
AccessCall ==
    {q \in [requester : Requester, folder : Folder, proof : BOOLEAN, key : AccessKey,
            entry : FolderRow, auto : BOOLEAN] : q.key.of = q.requester}
AccessCommand == [op : {"approve", "grant"}, row : OwnRow, remember : BOOLEAN]

AccessInv ==
    /\ shared \in [Folder -> FolderRow]
    /\ pending \in Seq(OwnRow)
    /\ requests \subseteq AccessCall
    /\ command = NoCommand \/ (command \in AccessCommand /\ PendingId(command.row) \in accessConsent)
    /\ \A f \in Folder : \A r \in shared[f].allowed : <<r, f>> \in accessConsent
    /\ \A q \in requests : \A r \in q.entry.allowed : <<r, q.folder>> \in accessConsent
    /\ throttled \subseteq Requester
    /\ GrantsConsented

LEMMA PendingRetained ==
    ASSUME NEW s \in Seq(OwnRow), NEW keep
    PROVE  Retain(s, keep) \in Seq(OwnRow)
<1>1. Retain(s, keep) \in Seq(OwnRow \cap keep) BY RetainOf
<1>2. OwnRow \cap keep \subseteq OwnRow OBVIOUS
<1> QED BY <1>1, <1>2

LEMMA OfferedOwn ==
    ASSUME pending \in Seq(OwnRow), NEW x \in OwnRow
    PROVE  Offer(x) \in Seq(OwnRow)
<1> DEFINE s == Prune(pending)
           same == {i \in DOMAIN s : PendingId(s[i]) = PendingId(x)}
<1>1. s \in Seq(OwnRow) BY PendingRetained DEF Prune
<1> HIDE DEF s
<1>2. ASSUME NEW i \in DOMAIN s, PendingId(s[i]) = PendingId(x)
      PROVE  [s[i] EXCEPT !.key = x.key, !.old = FALSE] \in OwnRow
  <2>1. s[i] \in OwnRow BY <1>1
  <2>2. s[i].requester = x.requester BY <1>2 DEF PendingId
  <2> QED BY <2>1, <2>2 DEF OwnRow
<1> DEFINE g == [i \in DOMAIN s |-> IF i \in same THEN [s[i] EXCEPT !.key = x.key, !.old = FALSE]
                                   ELSE s[i]]
<1>3. g \in Seq(OwnRow)
  <2>1. Len(s) \in Nat /\ DOMAIN s = 1 .. Len(s) BY <1>1
  <2>2. \A i \in DOMAIN s : s[i] \in OwnRow BY <1>1
  <2>3. \A i \in DOMAIN s :
          (IF i \in same THEN [s[i] EXCEPT !.key = x.key, !.old = FALSE] ELSE s[i]) \in OwnRow
    BY <1>2, <2>2
  <2>4. g \in [1 .. Len(s) -> OwnRow]
    <3> HIDE DEF same
    <3> QED BY <2>1, <2>3
  <2> HIDE DEF g
  <2> QED BY <2>1, <2>4
<1>4. Append(s, x) \in Seq(OwnRow) BY <1>1
<1> QED BY <1>1, <1>3, <1>4 DEF Offer, s

LEMMA AccessSteps ==
    ASSUME AccessInv, AccessNext
    PROVE  AccessInv'
<1> USE DEF GrantsConsented
<1>0. /\ shared \in [Folder -> FolderRow] /\ pending \in Seq(OwnRow) /\ requests \subseteq AccessCall
      /\ command = NoCommand \/ (command \in AccessCommand /\ PendingId(command.row) \in accessConsent)
      /\ \A f \in Folder : \A r \in shared[f].allowed : <<r, f>> \in accessConsent
      /\ \A q \in requests : \A r \in q.entry.allowed : <<r, q.folder>> \in accessConsent
      /\ throttled \subseteq Requester /\ GrantsConsented
  BY DEF AccessInv
<1>1. ASSUME NEW r \in Requester, NEW f \in Folder, NEW k \in RequestKey, NEW p \in BOOLEAN,
             NEW a \in BOOLEAN, AccessRequest(r, f, k, p, a)
      PROVE  AccessInv'
  <2> DEFINE q0 == [requester |-> r, folder |-> f, proof |-> p, key |-> [of |-> r, key |-> k],
                    entry |-> shared[f], auto |-> a]
  <2>1. [of |-> r, key |-> k] \in AccessKey BY DEF AccessKey
  <2>2. q0 \in AccessCall /\ q0.entry = shared[f] /\ q0.folder = f
    BY <1>0, <2>1 DEF AccessCall
  <2>3. requests' \subseteq requests \cup {q0} /\ throttled' = throttled \cup {r}
        /\ UNCHANGED <<shared, pending, command, granted, accessConsent>>
    BY <1>1 DEF AccessRequest
  <2> HIDE DEF q0
  <2>4. \A q \in requests' : \A s \in q.entry.allowed : <<s, q.folder>> \in accessConsent
    BY <1>0, <2>2, <2>3
  <2> QED BY <1>0, <2>2, <2>3, <2>4 DEF AccessInv
<1>2. ASSUME NEW r \in Requester, ThrottleElapses(r) PROVE AccessInv'
  BY <1>0, <1>2 DEF ThrottleElapses, AccessInv
<1>3. ASSUME NEW q \in requests, HandleAccessRequest(q) PROVE AccessInv'
  <2>0. q \in AccessCall /\ UNCHANGED <<shared, command, throttled>> /\ requests' \subseteq requests
    BY <1>0, <1>3 DEF HandleAccessRequest
  <2>1. q.requester \in Requester /\ q.folder \in Folder /\ q.key \in AccessKey /\ q.key.of = q.requester
    BY <2>0 DEF AccessCall
  <2>2. CASE UNCHANGED <<granted, pending, accessConsent>>
    BY <1>0, <2>0, <2>2 DEF AccessInv
  <2>3. CASE /\ q.auto \/ q.requester \in q.entry.allowed
             /\ granted' \in {granted, granted \cup {[to |-> q.requester, folder |-> q.folder, key |-> q.key]}}
             /\ accessConsent' = IF q.auto THEN accessConsent \cup {<<q.requester, q.folder>>}
                                 ELSE accessConsent
             /\ UNCHANGED pending
    <3>1. <<q.requester, q.folder>> \in accessConsent' /\ accessConsent \subseteq accessConsent'
      BY <1>0, <2>3
    <3> DEFINE new == [to |-> q.requester, folder |-> q.folder, key |-> q.key]
    <3>2. new.to = q.requester /\ new.folder = q.folder /\ new.key = q.key OBVIOUS
    <3>3. granted' \subseteq granted \cup {new} BY <2>3
    <3> HIDE DEF new
    <3>4. GrantsConsented' BY <1>0, <2>1, <3>1, <3>2, <3>3
    <3> QED BY <1>0, <2>0, <2>3, <3>1, <3>4 DEF AccessInv
  <2>4. CASE /\ pending' = Offer(PendingAccess(q.requester, q.folder, q.key))
             /\ UNCHANGED <<granted, accessConsent>>
    <3>1. PendingAccess(q.requester, q.folder, q.key) \in OwnRow
      BY <2>1 DEF PendingAccess, OwnRow
    <3>2. pending' \in Seq(OwnRow) BY <1>0, <2>4, <3>1, OfferedOwn
    <3> QED BY <1>0, <2>0, <2>4, <3>2 DEF AccessInv
  <2> QED BY <1>3, <2>2, <2>3, <2>4 DEF HandleAccessRequest, SendGrant
<1>4. ASSUME pending' \in Seq(OwnRow),
             UNCHANGED <<shared, requests, command, throttled, granted, accessConsent>>
      PROVE  AccessInv'
  BY <1>0, <1>4 DEF AccessInv
<1>5. ASSUME NEW i \in DOMAIN pending, RequestAges(i) PROVE AccessInv'
  <2>1. pending[i] \in OwnRow BY <1>0
  <2>2. [pending[i] EXCEPT !.old = TRUE] \in OwnRow BY <2>1 DEF OwnRow
  <2>3. pending' = [pending EXCEPT ![i] = [pending[i] EXCEPT !.old = TRUE]]
        /\ UNCHANGED <<shared, requests, command, throttled, granted, accessConsent>>
    BY <1>5 DEF RequestAges
  <2>4. pending' \in Seq(OwnRow) BY <1>0, <2>2, <2>3
  <2> QED BY <1>4, <2>3, <2>4
<1>6. ASSUME NEW i \in DOMAIN pending, Deny(i) PROVE AccessInv'
  BY <1>0, <1>4, <1>6, PendingRetained DEF Deny, RemoveRow
<1>7. ASSUME NEW i \in DOMAIN pending, NEW b \in BOOLEAN, Approve(i, b) PROVE AccessInv'
  <2>1. pending[i] \in OwnRow BY <1>0
  <2> DEFINE c == [op |-> "approve", row |-> pending[i], remember |-> b]
  <2>2. c \in AccessCommand /\ c.row = pending[i] BY <2>1 DEF AccessCommand
  <2>3. /\ command' = c /\ accessConsent' = accessConsent \cup {PendingId(pending[i])}
        /\ UNCHANGED <<shared, pending, requests, throttled, granted>>
    BY <1>7 DEF Approve
  <2> HIDE DEF c
  <2>4. command' \in AccessCommand /\ PendingId(command'.row) \in accessConsent'
    BY <2>2, <2>3
  <2> QED BY <1>0, <2>3, <2>4 DEF AccessInv, PendingId
<1>8. CASE AccessLs
  BY <1>0, <1>4, <1>8, PendingRetained DEF AccessLs, Prune
<1>9. CASE ApproveReads
  <2>0. command.op = "approve" /\ UNCHANGED <<requests, throttled, granted, accessConsent>>
    BY <1>9 DEF ApproveReads
  <2>1. command \in AccessCommand /\ PendingId(command.row) \in accessConsent
    BY <1>0, <2>0 DEF NoCommand
  <2>2. command.row \in OwnRow /\ command.row.requester \in Requester /\ command.row.folder \in Folder
    BY <2>1 DEF AccessCommand, OwnRow
  <2>3. CASE ~shared[command.row.folder].shared
    <3>1. /\ pending' = RemoveRow(pending, PendingId(command.row))
          /\ command' = NoCommand /\ UNCHANGED shared
      BY <1>9, <2>3 DEF ApproveReads
    <3>2. pending' \in Seq(OwnRow) BY <1>0, <3>1, PendingRetained DEF RemoveRow
    <3> QED BY <1>0, <2>0, <3>1, <3>2 DEF AccessInv
  <2>4. CASE shared[command.row.folder].shared
    <3> DEFINE f0 == command.row.folder
               r0 == command.row.requester
    <3>1. /\ shared' \in {shared, [shared EXCEPT ![f0].allowed = @ \cup {r0}]}
          /\ command' = [command EXCEPT !.op = "grant"] /\ UNCHANGED pending
      BY <1>9, <2>4 DEF ApproveReads
    <3>2. command' \in AccessCommand /\ command'.row = command.row
      BY <2>1, <3>1 DEF AccessCommand
    <3>3. <<r0, f0>> \in accessConsent BY <2>1 DEF PendingId
    <3> HIDE DEF f0, r0
    <3>4. shared[f0] \in FolderRow /\ r0 \in Requester /\ f0 \in Folder
      BY <1>0, <2>2 DEF f0, r0
    <3>5. shared' \in [Folder -> FolderRow]
          /\ \A f \in Folder : shared'[f].allowed \subseteq shared[f].allowed \cup
                                   (IF f = f0 THEN {r0} ELSE {})
      <4>1. CASE shared' = shared BY <1>0, <4>1
      <4>2. CASE shared' = [shared EXCEPT ![f0].allowed = @ \cup {r0}]
        <5>1. shared' = [shared EXCEPT ![f0] = [shared[f0] EXCEPT !.allowed = shared[f0].allowed \cup {r0}]]
          BY <4>2
        <5>2. /\ [shared[f0] EXCEPT !.allowed = shared[f0].allowed \cup {r0}] \in FolderRow
              /\ [shared[f0] EXCEPT !.allowed = shared[f0].allowed \cup {r0}].allowed
                   = shared[f0].allowed \cup {r0}
          BY <3>4 DEF FolderRow
        <5> QED BY <1>0, <3>4, <5>1, <5>2
      <4> QED BY <3>1, <4>1, <4>2
    <3>6. \A f \in Folder : \A r \in shared'[f].allowed : <<r, f>> \in accessConsent
      BY <1>0, <3>3, <3>5
    <3> QED BY <1>0, <2>0, <2>1, <3>1, <3>2, <3>5, <3>6 DEF AccessInv
  <2> QED BY <2>3, <2>4
<1>10. CASE ApproveGrants
  <2>0. command.op = "grant" /\ command' = NoCommand
        /\ UNCHANGED <<shared, requests, throttled, accessConsent>>
    BY <1>10 DEF ApproveGrants
  <2>1. command \in AccessCommand /\ PendingId(command.row) \in accessConsent
    BY <1>0, <2>0 DEF NoCommand
  <2>2. command.row.key.of = command.row.requester
        /\ <<command.row.requester, command.row.folder>> \in accessConsent
    BY <2>1 DEF AccessCommand, OwnRow, PendingId
  <2>3. \/ /\ granted' = granted \cup {[to |-> command.row.requester, folder |-> command.row.folder,
                                        key |-> command.row.key]}
           /\ pending' = RemoveRow(pending, PendingId(command.row))
        \/ UNCHANGED <<granted, pending>>
    BY <1>10 DEF ApproveGrants, SendGrant
  <2>4. pending' \in Seq(OwnRow) BY <1>0, <2>3, PendingRetained DEF RemoveRow
  <2> DEFINE new == [to |-> command.row.requester, folder |-> command.row.folder, key |-> command.row.key]
  <2>5. new.to = command.row.requester /\ new.folder = command.row.folder /\ new.key = command.row.key
    OBVIOUS
  <2>6. granted' \subseteq granted \cup {new} BY <2>3
  <2> HIDE DEF new
  <2>7. GrantsConsented' BY <1>0, <2>0, <2>2, <2>5, <2>6
  <2> QED BY <1>0, <2>0, <2>4, <2>7 DEF AccessInv
<1>11. ASSUME NEW r \in Requester, NEW f \in Folder, Allow(r, f) PROVE AccessInv'
  <2>1. /\ shared' = [shared EXCEPT ![f] = [shared[f] EXCEPT !.allowed = shared[f].allowed \cup {r}]]
        /\ accessConsent' = accessConsent \cup {<<r, f>>}
        /\ UNCHANGED <<pending, requests, command, throttled, granted>>
    BY <1>11 DEF Allow
  <2>2. shared[f] \in FolderRow BY <1>0
  <2>3. /\ [shared[f] EXCEPT !.allowed = shared[f].allowed \cup {r}] \in FolderRow
        /\ [shared[f] EXCEPT !.allowed = shared[f].allowed \cup {r}].allowed = shared[f].allowed \cup {r}
    BY <2>2 DEF FolderRow
  <2>4. /\ shared' \in [Folder -> FolderRow]
        /\ \A g \in Folder : \A s \in shared'[g].allowed : <<s, g>> \in accessConsent'
    BY <1>0, <2>1, <2>3
  <2> QED BY <1>0, <2>1, <2>4 DEF AccessInv
<1>12. ASSUME NEW r \in Requester, NEW f \in Folder, Revoke(r, f) PROVE AccessInv'
  <2>1. /\ shared' = [shared EXCEPT ![f] = [shared[f] EXCEPT !.allowed = shared[f].allowed \ {r}]]
        /\ UNCHANGED <<pending, requests, command, throttled, granted, accessConsent>>
    BY <1>12 DEF Revoke
  <2>2. shared[f] \in FolderRow BY <1>0
  <2>3. /\ [shared[f] EXCEPT !.allowed = shared[f].allowed \ {r}] \in FolderRow
        /\ [shared[f] EXCEPT !.allowed = shared[f].allowed \ {r}].allowed = shared[f].allowed \ {r}
    BY <2>2 DEF FolderRow
  <2>4. /\ shared' \in [Folder -> FolderRow]
        /\ \A g \in Folder : \A s \in shared'[g].allowed : <<s, g>> \in accessConsent'
    BY <1>0, <2>1, <2>3
  <2> QED BY <1>0, <2>1, <2>4 DEF AccessInv
<1>13. ASSUME NEW f \in Folder, Unshare(f) PROVE AccessInv'
  <2>1. /\ shared' = [shared EXCEPT ![f] = Unshared]
        /\ UNCHANGED <<requests, command, throttled, granted, accessConsent>>
    BY <1>13 DEF Unshare
  <2>2. Unshared \in FolderRow /\ Unshared.allowed = {} BY DEF Unshared, FolderRow
  <2>3. /\ shared' \in [Folder -> FolderRow]
        /\ \A g \in Folder : \A s \in shared'[g].allowed : <<s, g>> \in accessConsent'
    BY <1>0, <2>1, <2>2
  <2>4. pending' \in Seq(OwnRow) BY <1>0, <1>13, PendingRetained DEF Unshare
  <2> QED BY <1>0, <2>1, <2>3, <2>4 DEF AccessInv
<1> QED BY <1>1, <1>2, <1>3, <1>5, <1>6, <1>7, <1>8, <1>9, <1>10, <1>11, <1>12, <1>13 DEF AccessNext

LEMMA AccessInvariant == AccessSpec => []AccessInv
<1>1. AccessInit => AccessInv
  <2> SUFFICES ASSUME AccessInit PROVE AccessInv OBVIOUS
  <2>1. SharedRow({}) \in FolderRow /\ SharedRow({}).allowed = {} BY DEF SharedRow, FolderRow
  <2> QED BY <2>1 DEF AccessInit, AccessInv, GrantsConsented
<1>2. AccessInv /\ [AccessNext]_accessVars => AccessInv'
  <2>1. AccessInv /\ UNCHANGED accessVars => AccessInv'
    BY DEF accessVars, AccessInv, GrantsConsented
  <2> QED BY <2>1, AccessSteps
<1> QED BY <1>1, <1>2, PTL DEF AccessSpec

-----------------------------------------------------------------------------
(***************************************************************************)
(* Revocations: an entry of the table outlives the capability it revokes,  *)
(* whatever the daemon knew of it when it was taken on, so every capability *)
(* a revocation was taken on for has expired, is in the table or is marked *)
(* as withdrawn; and of those the files answer for, what only their mark   *)
(* covers the book in memory marks, too, so that no later save loses it.   *)
(***************************************************************************)
Revocation == [id : Cap, exp : Nat]
SoundRevocations(s) ==
    s \in Seq(Revocation) /\ \A i \in DOMAIN s : capOf[s[i].id].exp <= s[i].exp
SoundBook(b) ==
    /\ b \in [issued : SUBSET Cap, withdrawn : SUBSET Cap, held : SUBSET Cap,
              revoked : Seq(Revocation), presented : {b.presented}]
    /\ SoundRevocations(b.revoked)
Listed(s, c) == \E i \in DOMAIN s : s[i].id = c
Expired(c) == capOf[c].exp <= capNow
Covers(b, S) == \A c \in S : Expired(c) \/ c \in b.withdrawn \/ Listed(b.revoked, c)

CapInv ==
    /\ SoundBook(book)
    /\ capFiles \in [issued : SUBSET Cap, withdrawn : SUBSET Cap, held : SUBSET Cap,
                     revoked : Seq(Revocation)]
    /\ SoundRevocations(capFiles.revoked)
    /\ refusedCaps \subseteq Cap /\ refusedSaved \subseteq Cap /\ capNow \in Nat
    /\ Covers(book, refusedCaps)
    /\ \A c \in refusedSaved :
          \/ Expired(c) \/ Listed(capFiles.revoked, c)
          \/ c \in capFiles.withdrawn /\ c \in book.withdrawn

LEMMA CapFacts ==
    /\ MaxLifetime \in Nat /\ \A c \in Cap : capOf[c].exp \in Nat /\ capOf[c].exp <= MaxLifetime
    /\ MaxRevoked \in Nat \ {0}
BY CapAssumption

LEMMA PruneBookOK ==
    ASSUME NEW b, SoundBook(b), capNow \in Nat
    PROVE  /\ SoundBook(PruneBook(b))
           /\ \A c \in Cap : /\ c \in b.withdrawn => Expired(c) \/ c \in PruneBook(b).withdrawn
                             /\ Listed(b.revoked, c) => Expired(c) \/ Listed(PruneBook(b).revoked, c)
           /\ PruneBook(b).withdrawn \subseteq b.withdrawn
<1> DEFINE keep == {r \in Range(b.revoked) : r.exp > capNow}
           kept == Retain(b.revoked, keep)
           q == PruneBook(b)
<1>0. /\ b.revoked \in Seq(Revocation) /\ b.issued \subseteq Cap /\ b.withdrawn \subseteq Cap
      /\ b.held \subseteq Cap /\ \A i \in DOMAIN b.revoked : capOf[b.revoked[i].id].exp <= b.revoked[i].exp
  BY DEF SoundBook, SoundRevocations
<1>1. kept \in Seq(Revocation \cap keep) /\ \E g : KeptPlaces(g, kept, b.revoked, Len(b.revoked), keep)
  BY <1>0, RetainOf
<1>2. PICK g : KeptPlaces(g, kept, b.revoked, Len(b.revoked), keep) BY <1>1
<1>3. /\ q.issued \subseteq Cap /\ q.held \subseteq Cap /\ q.revoked = kept
      /\ q.withdrawn = {c \in b.withdrawn : capOf[c].exp > capNow}
      /\ q = [issued |-> q.issued, withdrawn |-> q.withdrawn, held |-> q.held,
              revoked |-> q.revoked, presented |-> q.presented]
  BY <1>0 DEF PruneBook
<1> HIDE DEF q
<1>4. kept \in Seq(Revocation)
  <2> HIDE DEF kept, keep
  <2>1. Revocation \cap keep \subseteq Revocation OBVIOUS
  <2> QED BY <1>1, <2>1
<1>5. \A a \in DOMAIN kept : kept[a] = b.revoked[g[a]] /\ g[a] \in DOMAIN b.revoked
  <2> HIDE DEF kept, keep
  <2>1. DOMAIN kept = 1 .. Len(kept) /\ DOMAIN b.revoked = 1 .. Len(b.revoked) BY <1>0, <1>4
  <2> QED BY <1>2, <2>1 DEF KeptPlaces
<1>6. SoundRevocations(kept)
  <2> HIDE DEF kept
  <2> QED BY <1>0, <1>4, <1>5 DEF SoundRevocations
<1>7. \A c \in Cap : Listed(b.revoked, c) => Expired(c) \/ Listed(kept, c)
  <2> SUFFICES ASSUME NEW c \in Cap, NEW i \in DOMAIN b.revoked, b.revoked[i].id = c, ~Expired(c)
               PROVE  Listed(kept, c)
    BY DEF Listed
  <2>1. b.revoked[i] \in Revocation /\ capOf[c].exp <= b.revoked[i].exp /\ capOf[c].exp \in Nat
    BY <1>0, CapFacts
  <2>2. b.revoked[i].exp > capNow BY <2>1 DEF Expired, Revocation
  <2>3. b.revoked[i] \in keep BY <2>2 DEF Range
  <2> HIDE DEF kept, keep
  <2>4. i \in 1 .. Len(b.revoked) BY <1>0
  <2>5. PICK a \in 1 .. Len(kept) : g[a] = i BY <1>2, <2>3, <2>4 DEF KeptPlaces
  <2>6. a \in DOMAIN kept BY <1>4
  <2> QED BY <1>5, <2>5, <2>6 DEF Listed
<1>8. \A c \in Cap : c \in b.withdrawn => Expired(c) \/ c \in q.withdrawn
  BY <1>3, CapFacts DEF Expired
<1>9. SoundBook(q)
  <2> HIDE DEF kept
  <2>1. q.revoked \in Seq(Revocation) /\ q.withdrawn \subseteq Cap BY <1>0, <1>3, <1>4
  <2>2. q \in [issued : SUBSET Cap, withdrawn : SUBSET Cap, held : SUBSET Cap,
               revoked : Seq(Revocation), presented : {q.presented}]
    BY <1>3, <2>1
  <2> QED BY <1>3, <1>6, <2>2 DEF SoundBook
<1>10. q.withdrawn \subseteq b.withdrawn BY <1>3
<1> HIDE DEF kept, keep
<1> QED BY <1>3, <1>7, <1>8, <1>9, <1>10 DEF q

LEMMA RevocationExpOK ==
    ASSUME NEW b, SoundBook(b), capNow \in Nat, NEW c \in Cap
    PROVE  /\ RevocationExp(b, c) \in Nat /\ capOf[c].exp <= RevocationExp(b, c)
<1> DEFINE A == {capOf[k].exp : k \in KnownChains(b) \cap {c}}
           B == {b.revoked[i].exp : i \in {j \in DOMAIN b.revoked : b.revoked[j].id = c}}
           exps == A \cup B
           x == [i \in 1 .. Len(b.revoked) |-> b.revoked[i].exp]
<1>0. /\ b.revoked \in Seq(Revocation)
      /\ \A i \in DOMAIN b.revoked : capOf[b.revoked[i].id].exp <= b.revoked[i].exp
      /\ capOf[c].exp \in Nat /\ capOf[c].exp <= MaxLifetime /\ MaxLifetime \in Nat
  BY CapFacts DEF SoundBook, SoundRevocations
<1>1. Len(b.revoked) \in Nat /\ DOMAIN b.revoked = 1 .. Len(b.revoked)
      /\ \A i \in DOMAIN b.revoked : b.revoked[i].exp \in Nat
  <2> DEFINE s == b.revoked
  <2>1. s \in Seq(Revocation) BY <1>0
  <2> HIDE DEF s
  <2>2. Len(s) \in Nat /\ DOMAIN s = 1 .. Len(s) /\ \A i \in DOMAIN s : s[i] \in Revocation
    BY <2>1
  <2>3. \A i \in DOMAIN s : s[i].exp \in Nat BY <2>2 DEF Revocation
  <2> QED BY <2>2, <2>3 DEF s
<1>2. PICK top \in Nat : \A i \in DOMAIN b.revoked : b.revoked[i].exp <= top
  <2>1. x \in [1 .. Len(b.revoked) -> Nat] BY <1>1
  <2>2. \E t \in Nat : \A i \in 1 .. Len(b.revoked) : x[i] <= t
    <3> HIDE DEF x
    <3> QED BY <1>1, <2>1, SeqBounded
  <2> QED BY <1>1, <2>2
<1>3. exps \in SUBSET Nat /\ \A y \in exps : capOf[c].exp <= y /\ y <= top + capOf[c].exp
  <2>1. \A y \in A : y = capOf[c].exp OBVIOUS
  <2>2. \A y \in B : y \in Nat /\ y <= top /\ capOf[c].exp <= y BY <1>0, <1>1, <1>2
  <2> HIDE DEF A, B
  <2> QED BY <1>0, <2>1, <2>2
<1>4. RevocationExp(b, c) = IF exps = {} THEN capNow + MaxLifetime ELSE Max(exps)
  BY DEF RevocationExp
<1> HIDE DEF exps
<1>5. CASE exps = {} BY <1>0, <1>4, <1>5
<1>6. CASE exps # {}
  <2>1. top + capOf[c].exp \in Nat BY <1>0
  <2>2. Max(exps) \in exps BY <1>3, <1>6, <2>1, MaxOfSet
  <2> QED BY <1>3, <1>4, <1>6, <2>2
<1> QED BY <1>5, <1>6

LEMMA RevokeInOK ==
    ASSUME NEW b, SoundBook(b), capNow \in Nat, NEW c \in Cap, NEW S \in SUBSET Cap, Covers(b, S)
    PROVE  /\ SoundBook(RevokeIn(b, c)) /\ RevokeIn(b, c).withdrawn = b.withdrawn
           /\ Covers(RevokeIn(b, c), Promised(S, b, c))
           /\ Expired(c) \/ Listed(RevokeIn(b, c).revoked, c)
           /\ Promised(S, b, c) \subseteq Cap
           /\ RevocationExp(b, c) <= capNow => Promised(S, b, c) \subseteq S \cup {c} /\ S \subseteq Promised(S, b, c)
<1> DEFINE exp == RevocationExp(b, c)
           mine == {i \in DOMAIN b.revoked : b.revoked[i].id = c}
           raised == [i \in DOMAIN b.revoked |->
                         IF i \in mine THEN [b.revoked[i] EXCEPT !.exp = Max({@, exp})] ELSE b.revoked[i]]
           rest == IF Evicts(b, c) THEN Tail(b.revoked) ELSE b.revoked
           table == IF mine # {} THEN raised ELSE Append(rest, [id |-> c, exp |-> exp])
           q == RevokeIn(b, c)
           new == IF exp <= capNow THEN b.revoked ELSE table
<1>0. /\ b.revoked \in Seq(Revocation) /\ b.withdrawn \subseteq Cap
      /\ \A i \in DOMAIN b.revoked : capOf[b.revoked[i].id].exp <= b.revoked[i].exp
      /\ b \in [issued : SUBSET Cap, withdrawn : SUBSET Cap, held : SUBSET Cap,
                revoked : Seq(Revocation), presented : {b.presented}]
      /\ capOf[c].exp \in Nat
  BY CapFacts DEF SoundBook, SoundRevocations
<1>1. exp \in Nat /\ capOf[c].exp <= exp BY RevocationExpOK
<1>2. q = [b EXCEPT !.presented = q.presented, !.revoked = new]
  <2>1. q = [b EXCEPT !.presented = SelectSeq(b.presented, LAMBDA p : c \notin Chain(p.cap)), !.revoked = new]
    BY DEF RevokeIn
  <2> DEFINE w == SelectSeq(b.presented, LAMBDA p : c \notin Chain(p.cap))
  <2>2. q = [b EXCEPT !.presented = w, !.revoked = new] BY <2>1
  <2> HIDE DEF w, new, q
  <2>3. q.presented = w BY <1>0, <2>2
  <2> QED BY <2>2, <2>3
<1> HIDE DEF q
<1>3. new \in Seq(Revocation) => /\ q \in [issued : SUBSET Cap, withdrawn : SUBSET Cap, held : SUBSET Cap,
                                           revoked : Seq(Revocation), presented : {q.presented}]
                                /\ q.revoked = new /\ q.withdrawn = b.withdrawn
  <2> HIDE DEF new
  <2> QED BY <1>0, <1>2
<1>4. Listed(new, c) \/ Expired(c)
  <2>1. CASE exp <= capNow BY <1>0, <1>1, <2>1 DEF Expired
  <2>2. CASE exp > capNow
    <3>0. new = table BY <1>1, <2>2
    <3>1. CASE mine # {}
      <4>1. PICK i \in DOMAIN b.revoked : b.revoked[i].id = c BY <3>1
      <4>2. b.revoked[i] \in Revocation BY <1>0
      <4>3. raised[i].id = c BY <4>1, <4>2 DEF Revocation
      <4>4. new = raised /\ i \in DOMAIN raised BY <3>0, <3>1, <4>1
      <4> QED BY <4>1, <4>3, <4>4 DEF Listed
    <3>2. CASE mine = {}
      <4>1. rest \in Seq(Revocation) BY <1>0, CapFacts DEF Evicts
      <4> DEFINE y == [id |-> c, exp |-> exp]
      <4>2. y \in Revocation BY <1>1 DEF Revocation
      <4>3. new = Append(rest, y) BY <3>0, <3>2
      <4>4. y.id = c OBVIOUS
      <4> HIDE DEF y, rest, new
      <4>5. DOMAIN new = 1 .. (Len(rest) + 1) /\ new[Len(rest) + 1] = y /\ Len(rest) \in Nat
        BY <4>1, <4>2, <4>3, AppendOf
      <4>6. Len(rest) + 1 \in DOMAIN new BY <4>5
      <4> QED BY <4>4, <4>5, <4>6 DEF Listed
    <3> QED BY <3>1, <3>2
  <2> QED BY <1>1, <2>1, <2>2
<1>5. /\ SoundRevocations(new)
      /\ \A d \in Cap : Listed(b.revoked, d) =>
             Listed(new, d) \/ (Evicts(b, c) /\ d = Head(b.revoked).id)
  <2>1. CASE exp <= capNow \/ new = b.revoked
    BY <1>0, <2>1 DEF SoundRevocations
  <2>2. CASE ~(exp <= capNow) /\ mine # {}
    <3>0. new = raised BY <2>2
    <3>1. ASSUME NEW i \in DOMAIN b.revoked
          PROVE  /\ raised[i] \in Revocation /\ raised[i].id = b.revoked[i].id
                 /\ capOf[raised[i].id].exp <= raised[i].exp
      <4> DEFINE r == b.revoked[i]
      <4>1. r \in Revocation /\ r.id \in Cap /\ r.exp \in Nat /\ capOf[r.id].exp <= r.exp
            /\ capOf[r.id].exp \in Nat
        <5>1. r \in Revocation /\ capOf[r.id].exp <= r.exp BY <1>0
        <5> HIDE DEF r
        <5>2. r.id \in Cap /\ r.exp \in Nat BY <5>1 DEF Revocation
        <5> QED BY <5>1, <5>2, CapFacts
      <4>2. raised[i] = r \/ raised[i] = [r EXCEPT !.exp = Max({r.exp, exp})] OBVIOUS
      <4>3. Max({r.exp, exp}) \in Nat /\ r.exp <= Max({r.exp, exp})
        <5> HIDE DEF r, exp
        <5>1. {r.exp, exp} \in SUBSET Nat /\ {r.exp, exp} # {} /\ r.exp + exp \in Nat
              /\ \A y \in {r.exp, exp} : y <= r.exp + exp
          BY <1>1, <4>1
        <5> QED BY <5>1, MaxOfSet
      <4> DEFINE m == Max({r.exp, exp})
      <4> HIDE DEF m, r, raised
      <4>4. raised[i] = r \/ raised[i] = [r EXCEPT !.exp = m] BY <4>2 DEF m
      <4>5. m \in Nat /\ r.exp <= m BY <4>3 DEF m
      <4>6. [r EXCEPT !.exp = m] \in Revocation /\ [r EXCEPT !.exp = m].id = r.id
            /\ [r EXCEPT !.exp = m].exp = m
        BY <4>1, <4>5 DEF Revocation
      <4>7. /\ raised[i] \in Revocation /\ raised[i].id = r.id /\ capOf[raised[i].id].exp <= raised[i].exp
        <5>1. CASE raised[i] = r BY <4>1, <5>1
        <5>2. CASE raised[i] = [r EXCEPT !.exp = m]
          <6> DEFINE z == [r EXCEPT !.exp = m]
          <6>1. raised[i] = z /\ z \in Revocation /\ z.id = r.id /\ z.exp = m BY <4>6, <5>2
          <6> HIDE DEF z
          <6>2. capOf[z.id].exp <= z.exp BY <4>1, <4>5, <6>1
          <6> QED BY <6>1, <6>2
        <5> QED BY <4>4, <5>1, <5>2
      <4> QED BY <4>7 DEF r
    <3>2. Len(b.revoked) \in Nat /\ DOMAIN b.revoked = 1 .. Len(b.revoked) /\ DOMAIN raised = DOMAIN b.revoked
      BY <1>0
    <3>3. raised = [i \in 1 .. Len(b.revoked) |-> raised[i]] BY <3>2
    <3> HIDE DEF raised, new
    <3>4. raised \in [1 .. Len(b.revoked) -> Revocation] BY <3>1, <3>2, <3>3
    <3>5. raised \in Seq(Revocation) BY <3>2, <3>4
    <3>6. SoundRevocations(raised) BY <3>1, <3>2, <3>5 DEF SoundRevocations
    <3>7. \A d : Listed(b.revoked, d) => Listed(raised, d) BY <3>1, <3>2 DEF Listed
    <3> QED BY <3>0, <3>6, <3>7
  <2>3. CASE ~(exp <= capNow) /\ mine = {}
    <3> DEFINE y == [id |-> c, exp |-> exp]
    <3>0. new = Append(rest, y) BY <2>3
    <3>1. y \in Revocation /\ y.id = c /\ y.exp = exp BY <1>1 DEF Revocation
    <3>2. /\ rest \in Seq(Revocation)
          /\ \A i \in DOMAIN rest : \E j \in DOMAIN b.revoked : rest[i] = b.revoked[j]
          /\ \A d : Listed(b.revoked, d) => Listed(rest, d) \/ (Evicts(b, c) /\ d = Head(b.revoked).id)
      <4>1. CASE ~Evicts(b, c)
        <5>1. rest = b.revoked BY <4>1
        <5> QED BY <1>0, <5>1
      <4>2. CASE Evicts(b, c)
        <5>0. rest = Tail(b.revoked) BY <4>2
        <5>1. b.revoked # <<>> BY <1>0, <4>2, CapFacts DEF Evicts
        <5> DEFINE s == b.revoked
        <5>2. /\ Head(s) = s[1] /\ Tail(s) \in Seq(Revocation) /\ Len(s) \in Nat \ {0}
              /\ DOMAIN s = 1 .. Len(s) /\ DOMAIN Tail(s) = 1 .. (Len(s) - 1)
              /\ \A i \in 1 .. (Len(s) - 1) : Tail(s)[i] = s[i + 1]
          BY <1>0, <5>1, HeadTailOf
        <5> HIDE DEF s
        <5>3. \A i \in DOMAIN Tail(s) : i + 1 \in DOMAIN s /\ Tail(s)[i] = s[i + 1] BY <5>2
        <5>4. ASSUME NEW d, Listed(s, d) PROVE Listed(Tail(s), d) \/ d = Head(s).id
          <6>1. PICK j \in DOMAIN s : s[j].id = d BY <5>4 DEF Listed
          <6>2. CASE j = 1 BY <5>2, <6>1, <6>2
          <6>3. CASE j # 1
            <7>1. j - 1 \in DOMAIN Tail(s) /\ (j - 1) + 1 = j BY <5>2, <6>1, <6>3
            <7>2. Tail(s)[j - 1] = s[j] BY <5>3, <7>1
            <7> QED BY <6>1, <7>1, <7>2 DEF Listed
          <6> QED BY <6>2, <6>3
        <5> QED BY <4>2, <5>0, <5>2, <5>3, <5>4 DEF s
      <4> QED BY <4>1, <4>2
    <3> HIDE DEF rest, y, new
    <3>3. /\ new \in Seq(Revocation) /\ DOMAIN rest = 1 .. Len(rest) /\ Len(rest) \in Nat
          /\ DOMAIN new = 1 .. (Len(rest) + 1)
          /\ (\A i \in 1 .. Len(rest) : new[i] = rest[i]) /\ new[Len(rest) + 1] = y
      BY <3>0, <3>1, <3>2, AppendOf
    <3>4. \A i \in DOMAIN new : i \in DOMAIN rest \/ i = Len(rest) + 1 BY <3>3
    <3>5. \A i \in DOMAIN new : capOf[new[i].id].exp <= new[i].exp
      BY <1>0, <1>1, <3>1, <3>2, <3>3, <3>4
    <3>6. \A d : Listed(rest, d) => Listed(new, d)
      <4>1. \A i \in DOMAIN rest : i \in DOMAIN new /\ new[i] = rest[i] BY <3>3
      <4> QED BY <4>1 DEF Listed
    <3> QED BY <3>2, <3>3, <3>5, <3>6 DEF SoundRevocations
  <2> QED BY <2>1, <2>2, <2>3
<1> HIDE DEF new
<1>6. new \in Seq(Revocation) BY <1>5 DEF SoundRevocations
<1>7. SoundBook(q) /\ q.withdrawn = b.withdrawn /\ q.revoked = new
  BY <1>3, <1>5, <1>6 DEF SoundBook
<1>8. Covers(q, Promised(S, b, c))
  <2> SUFFICES ASSUME NEW d \in Promised(S, b, c)
               PROVE  Expired(d) \/ d \in q.withdrawn \/ Listed(q.revoked, d)
    BY DEF Covers
  <2>1. CASE d = c BY <1>4, <1>7, <2>1
  <2>2. CASE d # c
    <3>1. d \in S /\ (Evicts(b, c) => d # Head(b.revoked).id \/ d \in b.withdrawn)
      BY <2>2 DEF Promised
    <3>2. Expired(d) \/ d \in b.withdrawn \/ Listed(b.revoked, d) BY <3>1 DEF Covers
    <3> QED BY <1>5, <1>7, <3>1, <3>2
  <2> QED BY <2>1, <2>2
<1>9. Promised(S, b, c) \subseteq Cap BY DEF Promised
<1>10. exp <= capNow => Promised(S, b, c) \subseteq S \cup {c} /\ S \subseteq Promised(S, b, c)
  BY <1>1 DEF Promised, Evicts
<1> QED BY <1>4, <1>7, <1>8, <1>9, <1>10 DEF q

(* What a save leaves, whole or partial.                                    *)
LEMMA SavedOK ==
    ASSUME CapInv, NEW b, SoundBook(b), NEW f \in PartlySaved(b)
    PROVE  /\ f \in [issued : SUBSET Cap, withdrawn : SUBSET Cap, held : SUBSET Cap,
                     revoked : Seq(Revocation)]
           /\ SoundRevocations(f.revoked)
           /\ \/ f = capFiles
              \/ f.withdrawn = b.withdrawn /\ f.revoked = capFiles.revoked
              \/ f = SavedBook(b)
           /\ SavedBook(b) \in PartlySaved(b)
           /\ SavedBook(b).withdrawn = b.withdrawn /\ SavedBook(b).revoked = b.revoked
<1>0. /\ capFiles \in [issued : SUBSET Cap, withdrawn : SUBSET Cap, held : SUBSET Cap,
                       revoked : Seq(Revocation)]
      /\ SoundRevocations(capFiles.revoked)
      /\ b.issued \in SUBSET Cap /\ b.withdrawn \in SUBSET Cap /\ b.held \in SUBSET Cap
      /\ b.revoked \in Seq(Revocation) /\ SoundRevocations(b.revoked)
  BY DEF CapInv, SoundBook
<1> DEFINE s == SavedBook(b)
           i == [capFiles EXCEPT !.issued = s.issued, !.withdrawn = s.withdrawn]
           h == [i EXCEPT !.held = s.held]
           Files == [issued : SUBSET Cap, withdrawn : SUBSET Cap, held : SUBSET Cap,
                     revoked : Seq(Revocation)]
<1>1. /\ s \in Files /\ s.issued = b.issued /\ s.withdrawn = b.withdrawn /\ s.held = b.held
      /\ s.revoked = b.revoked
  BY <1>0 DEF SavedBook
<1>2. PartlySaved(b) = {capFiles, i, h, s} BY DEF PartlySaved
<1> HIDE DEF s
<1>3. i \in Files /\ i.withdrawn = b.withdrawn /\ i.revoked = capFiles.revoked BY <1>0, <1>1
<1> HIDE DEF i
<1>4. h \in Files /\ h.withdrawn = b.withdrawn /\ h.revoked = capFiles.revoked BY <1>0, <1>1, <1>3
<1> HIDE DEF h
<1> QED BY <1>0, <1>1, <1>2, <1>3, <1>4 DEF s

LEMMA CommandsOK ==
    ASSUME CapInv, NEW b, SoundBook(b), NEW P \in SUBSET Cap, Covers(b, P), Commands(b, P),
           \A c \in Cap : c \in book.withdrawn => Expired(c) \/ c \in b.withdrawn,
           \A c \in b.withdrawn : c \in book.withdrawn \/ Expired(c) \/ Listed(b.revoked, c)
    PROVE  CapInv'
<1>0. /\ refusedSaved \subseteq Cap /\ refusedCaps \subseteq Cap /\ capNow \in Nat /\ capNow' = capNow
      /\ \A c \in refusedSaved : \/ Expired(c) \/ Listed(capFiles.revoked, c)
                                 \/ c \in capFiles.withdrawn /\ c \in book.withdrawn
  BY DEF CapInv, Commands
<1>1. CASE /\ book' = b /\ capFiles' = SavedBook(b) /\ refusedCaps' = P /\ refusedSaved' = P
  <2>1. /\ capFiles' \in [issued : SUBSET Cap, withdrawn : SUBSET Cap, held : SUBSET Cap,
                          revoked : Seq(Revocation)]
        /\ SoundRevocations(capFiles'.revoked)
        /\ capFiles'.withdrawn = b.withdrawn /\ capFiles'.revoked = b.revoked
    <3>1. SavedBook(b) \in PartlySaved(b) BY DEF PartlySaved
    <3> QED BY <1>1, <3>1, SavedOK
  <2> QED BY <1>0, <1>1, <2>1 DEF CapInv, SoundBook, SoundRevocations, Covers, Expired, Listed
<1>2. CASE /\ capFiles' \in PartlySaved(b) /\ refusedSaved' = refusedSaved \cap P
           /\ UNCHANGED <<book, refusedCaps>>
  <2>1. /\ capFiles' \in [issued : SUBSET Cap, withdrawn : SUBSET Cap, held : SUBSET Cap,
                          revoked : Seq(Revocation)]
        /\ SoundRevocations(capFiles'.revoked)
        /\ \/ capFiles' = capFiles
           \/ capFiles'.withdrawn = b.withdrawn /\ capFiles'.revoked = capFiles.revoked
           \/ capFiles'.withdrawn = b.withdrawn /\ capFiles'.revoked = b.revoked
    BY <1>2, SavedOK
  <2>2. \A c \in refusedSaved' : \/ Expired(c) \/ Listed(capFiles'.revoked, c)
                                 \/ c \in capFiles'.withdrawn /\ c \in book.withdrawn
    BY <1>0, <1>2, <2>1 DEF Covers
  <2> QED BY <1>0, <1>2, <2>1, <2>2 DEF CapInv, SoundBook, SoundRevocations, Covers, Expired, Listed
<1> QED BY <1>1, <1>2 DEF Commands

LEMMA FlushesOK ==
    ASSUME CapInv, NEW b, SoundBook(b), NEW P \in SUBSET Cap, Covers(b, P), NEW unsaved, Flushes(b, unsaved, P),
           \A c \in Cap : c \in book.withdrawn => Expired(c) \/ c \in b.withdrawn
    PROVE  CapInv'
<1>0. /\ refusedSaved \subseteq Cap /\ refusedCaps \subseteq Cap /\ capNow \in Nat /\ capNow' = capNow
      /\ \A c \in refusedSaved : \/ Expired(c) \/ Listed(capFiles.revoked, c)
                                 \/ c \in capFiles.withdrawn /\ c \in book.withdrawn
      /\ capFiles \in [issued : SUBSET Cap, withdrawn : SUBSET Cap, held : SUBSET Cap,
                          revoked : Seq(Revocation)]
      /\ SoundRevocations(capFiles.revoked)
      /\ book' = b /\ refusedCaps' = P
  BY DEF CapInv, Flushes
<1>1. CASE capFiles' = SavedBook(b) /\ refusedSaved' = P
  <2>1. /\ capFiles' \in [issued : SUBSET Cap, withdrawn : SUBSET Cap, held : SUBSET Cap,
                          revoked : Seq(Revocation)]
        /\ SoundRevocations(capFiles'.revoked)
        /\ capFiles'.withdrawn = b.withdrawn /\ capFiles'.revoked = b.revoked
    <3>1. SavedBook(b) \in PartlySaved(b) BY DEF PartlySaved
    <3> QED BY <1>1, <3>1, SavedOK
  <2> QED BY <1>0, <1>1, <2>1 DEF CapInv, SoundBook, SoundRevocations, Covers, Expired, Listed
<1>2. CASE capFiles' \in PartlySaved(b) /\ refusedSaved' = refusedSaved \cap P
  <2>1. /\ capFiles' \in [issued : SUBSET Cap, withdrawn : SUBSET Cap, held : SUBSET Cap,
                          revoked : Seq(Revocation)]
        /\ SoundRevocations(capFiles'.revoked)
        /\ \/ capFiles' = capFiles
           \/ capFiles'.withdrawn = b.withdrawn /\ capFiles'.revoked = capFiles.revoked
           \/ capFiles'.withdrawn = b.withdrawn /\ capFiles'.revoked = b.revoked
    BY <1>2, SavedOK
  <2>2. \A c \in refusedSaved' : \/ Expired(c) \/ Listed(capFiles'.revoked, c)
                                 \/ c \in capFiles'.withdrawn /\ c \in b.withdrawn
    BY <1>0, <1>2, <2>1 DEF Covers
  <2> QED BY <1>0, <1>2, <2>1, <2>2 DEF CapInv, SoundBook, SoundRevocations, Covers, Expired, Listed
<1>3. CASE UNCHANGED <<capFiles, refusedSaved>>
  <2>2. \A c \in refusedSaved' : \/ Expired(c) \/ Listed(capFiles'.revoked, c)
                                 \/ c \in capFiles'.withdrawn /\ c \in b.withdrawn
    BY <1>0, <1>3
  <2> QED BY <1>0, <1>3, <2>2 DEF CapInv, SoundBook, SoundRevocations, Covers, Expired, Listed
<1> QED BY <1>1, <1>2, <1>3 DEF Flushes

(* A book that only gained or lost capabilities issued, held or presented.   *)
LEMMA SameRevocations ==
    ASSUME NEW b, SoundBook(b), NEW q,
           q \in [issued : SUBSET Cap, withdrawn : {b.withdrawn}, held : SUBSET Cap,
                  revoked : {b.revoked}, presented : {q.presented}]
    PROVE  /\ SoundBook(q) /\ q.withdrawn = b.withdrawn /\ q.revoked = b.revoked
           /\ \A S : Covers(b, S) => Covers(q, S)
<1>1. q.withdrawn = b.withdrawn /\ q.revoked = b.revoked OBVIOUS
<1>2. SoundBook(q) BY <1>1 DEF SoundBook
<1>3. \A S : Covers(b, S) => Covers(q, S) BY <1>1 DEF Covers
<1> QED BY <1>1, <1>2, <1>3

LEMMA CapSteps ==
    ASSUME CapInv, CapNext
    PROVE  CapInv'
<1> DEFINE pb == PruneBook(book)
<1>0. /\ SoundBook(book) /\ refusedCaps \in SUBSET Cap /\ capNow \in Nat /\ Covers(book, refusedCaps)
  BY DEF CapInv
<1>1. /\ SoundBook(pb) /\ Covers(pb, refusedCaps) /\ pb.withdrawn \subseteq book.withdrawn
      /\ \A c \in Cap : c \in book.withdrawn => Expired(c) \/ c \in pb.withdrawn
  <2>1. /\ SoundBook(pb) /\ pb.withdrawn \subseteq book.withdrawn
        /\ \A c \in Cap : /\ c \in book.withdrawn => Expired(c) \/ c \in pb.withdrawn
                          /\ Listed(book.revoked, c) => Expired(c) \/ Listed(pb.revoked, c)
    BY <1>0, PruneBookOK
  <2> HIDE DEF pb
  <2> QED BY <1>0, <2>1 DEF Covers
<1>2. \A c \in book.withdrawn : c \in Cap BY <1>0 DEF SoundBook
<1>3. /\ book \in [issued : SUBSET Cap, withdrawn : {book.withdrawn}, held : SUBSET Cap,
                   revoked : {book.revoked}, presented : {book.presented}]
      /\ pb \in [issued : SUBSET Cap, withdrawn : {pb.withdrawn}, held : SUBSET Cap,
                 revoked : {pb.revoked}, presented : {pb.presented}]
  <2> HIDE DEF pb
  <2> QED BY <1>0, <1>1 DEF SoundBook
<1>4. ASSUME NEW q, q \in [issued : SUBSET Cap, withdrawn : {pb.withdrawn}, held : SUBSET Cap,
                           revoked : {pb.revoked}, presented : {q.presented}],
             Commands(q, refusedCaps)
      PROVE  CapInv'
  <2> HIDE DEF pb
  <2>1. SoundBook(q) /\ q.withdrawn = pb.withdrawn /\ q.revoked = pb.revoked /\ Covers(q, refusedCaps)
    BY <1>1, <1>4, SameRevocations
  <2> QED BY <1>0, <1>1, <1>4, <2>1, CommandsOK
<1>5. ASSUME NEW q, q \in [issued : SUBSET Cap, withdrawn : {book.withdrawn}, held : SUBSET Cap,
                           revoked : {book.revoked}, presented : {q.presented}],
             NEW unsaved, Flushes(q, unsaved, refusedCaps)
      PROVE  CapInv'
  <2>1. SoundBook(q) /\ q.withdrawn = book.withdrawn /\ q.revoked = book.revoked /\ Covers(q, refusedCaps)
    BY <1>0, <1>5, SameRevocations
  <2> QED BY <1>0, <1>5, <2>1, FlushesOK
<1>6. ASSUME NEW c \in Cap, CapIssue(c) PROVE CapInv'
  <2> DEFINE q == [pb EXCEPT !.issued = @ \cup {c}]
  <2>1. Commands(q, refusedCaps) BY <1>6 DEF CapIssue
  <2> HIDE DEF pb
  <2>2. q \in [issued : SUBSET Cap, withdrawn : {pb.withdrawn}, held : SUBSET Cap,
               revoked : {pb.revoked}, presented : {q.presented}]
    BY <1>3
  <2> HIDE DEF q
  <2> QED BY <1>4, <2>1, <2>2
<1>7. ASSUME NEW c \in Cap, CapImport(c) PROVE CapInv'
  <2> DEFINE q == [pb EXCEPT !.held = @ \cup {c}]
  <2>1. Commands(q, refusedCaps) BY <1>7 DEF CapImport
  <2> HIDE DEF pb
  <2>2. q \in [issued : SUBSET Cap, withdrawn : {pb.withdrawn}, held : SUBSET Cap,
               revoked : {pb.revoked}, presented : {q.presented}]
    BY <1>3
  <2> HIDE DEF q
  <2> QED BY <1>4, <2>1, <2>2
<1>8. ASSUME NEW c \in Cap, CapRemove(c) PROVE CapInv'
  <2> DEFINE q == [pb EXCEPT !.held = @ \ {c}]
  <2>1. Commands(q, refusedCaps) BY <1>8 DEF CapRemove
  <2> HIDE DEF pb
  <2>2. q \in [issued : SUBSET Cap, withdrawn : {pb.withdrawn}, held : SUBSET Cap,
               revoked : {pb.revoked}, presented : {q.presented}]
    BY <1>3
  <2> HIDE DEF q
  <2> QED BY <1>4, <2>1, <2>2
<1>9. ASSUME NEW c \in Cap, NEW local \in BOOLEAN, CapRevoke(c, local) PROVE CapInv'
  <2> DEFINE marked == IF local THEN pb ELSE [pb EXCEPT !.withdrawn = @ \cup {c}]
             q == RevokeIn(marked, c)
             P == Promised(refusedCaps, marked, c)
  <2>1. Commands(q, P) BY <1>9 DEF CapRevoke
  <2>2. /\ marked \in [issued : SUBSET Cap, withdrawn : SUBSET Cap, held : SUBSET Cap,
                       revoked : Seq(Revocation), presented : {marked.presented}]
        /\ marked.revoked = pb.revoked /\ pb.withdrawn \subseteq marked.withdrawn
        /\ marked.withdrawn \subseteq pb.withdrawn \cup {c}
    <3> HIDE DEF pb
    <3>1. pb \in [issued : SUBSET Cap, withdrawn : SUBSET Cap, held : SUBSET Cap,
                  revoked : Seq(Revocation), presented : {pb.presented}]
      BY <1>1 DEF SoundBook
    <3> QED BY <3>1
  <2> HIDE DEF marked, pb
  <2>3. SoundBook(marked) /\ Covers(marked, refusedCaps)
    BY <1>1, <2>2 DEF SoundBook, Covers
  <2>4. /\ SoundBook(q) /\ q.withdrawn = marked.withdrawn /\ Covers(q, P)
        /\ Expired(c) \/ Listed(q.revoked, c)
        /\ P \in SUBSET Cap
    BY <1>0, <2>3, RevokeInOK
  <2>5. \A d \in Cap : d \in book.withdrawn => Expired(d) \/ d \in q.withdrawn
    BY <1>1, <2>2, <2>4
  <2>6. \A d \in q.withdrawn : d \in book.withdrawn \/ Expired(d) \/ Listed(q.revoked, d)
    BY <1>1, <2>2, <2>4
  <2> HIDE DEF q, P
  <2> QED BY <2>1, <2>4, <2>5, <2>6, CommandsOK
<1>10. ASSUME NEW c \in Cap, ReceivePresent(c) PROVE CapInv'
  <2>1. PICK q, unsaved :
          /\ Flushes(q, unsaved, refusedCaps)
          /\ q = book \/ \E n, t : q = InsertPresented(book, n, c, t)
    BY <1>10 DEF ReceivePresent
  <2>2. q \in [issued : SUBSET Cap, withdrawn : {book.withdrawn}, held : SUBSET Cap,
               revoked : {book.revoked}, presented : {q.presented}]
    <3>1. CASE q = book BY <1>3, <3>1
    <3>2. CASE \E n, t : q = InsertPresented(book, n, c, t)
      <4>1. PICK x : q = [book EXCEPT !.presented = x] BY <3>2 DEF InsertPresented
      <4> QED BY <1>3, <4>1
    <3> QED BY <2>1, <3>1, <3>2
  <2> QED BY <1>5, <2>1, <2>2
<1>11. ASSUME NEW c \in Cap, ReceiveDeliver(c) PROVE CapInv'
  <2>1. PICK q, unsaved :
          /\ Flushes(q, unsaved, refusedCaps)
          /\ q = book \/ q = [book EXCEPT !.held = @ \cup {c}]
    BY <1>11 DEF ReceiveDeliver
  <2>2. q \in [issued : SUBSET Cap, withdrawn : {book.withdrawn}, held : SUBSET Cap,
               revoked : {book.revoked}, presented : {q.presented}]
    BY <1>3, <2>1
  <2> QED BY <1>5, <2>1, <2>2
<1>12. ASSUME NEW c \in Cap, NEW did \in Did, ReceiveRevoke(did, c) PROVE CapInv'
  <2>1. CASE RevokerTrusted(did)
    <3> DEFINE q == RevokeIn(book, c)
               P == Promised(refusedCaps, book, c)
    <3>1. PICK unsaved : Flushes(q, unsaved, P) BY <1>12, <2>1 DEF ReceiveRevoke
    <3>2. SoundBook(q) /\ q.withdrawn = book.withdrawn /\ Covers(q, P) /\ P \in SUBSET Cap
      BY <1>0, RevokeInOK
    <3> HIDE DEF q, P
    <3> QED BY <3>1, <3>2, FlushesOK
  <2>2. CASE ~RevokerTrusted(did)
    <3>1. Flushes(book, capDirty, refusedCaps) BY <1>12, <2>2 DEF ReceiveRevoke
    <3> QED BY <1>3, <1>5, <3>1
  <2> QED BY <2>1, <2>2
<1>13. ASSUME NEW n \in Did, NEW owner \in Did, AuthorizeByCap(n, owner) PROVE CapInv'
  <2>1. PICK x : book' = [book EXCEPT !.presented = x]
    BY <1>13 DEF AuthorizeByCap
  <2>2. book' \in [issued : SUBSET Cap, withdrawn : {book.withdrawn}, held : SUBSET Cap,
                   revoked : {book.revoked}, presented : {book'.presented}]
    BY <1>3, <2>1
  <2>3. SoundBook(book') /\ book'.withdrawn = book.withdrawn /\ book'.revoked = book.revoked
    BY <1>0, <2>2, SameRevocations
  <2>4. UNCHANGED <<capFiles, capNow, refusedCaps, refusedSaved>> BY <1>13 DEF AuthorizeByCap
  <2> QED BY <2>3, <2>4 DEF CapInv, SoundBook, SoundRevocations, Covers, Expired, Listed
<1>14. ASSUME NEW S, SetIssuers(S) PROVE CapInv'
  BY <1>14 DEF SetIssuers, CapInv, SoundBook, SoundRevocations, Covers, Expired, Listed
<1>15. CASE CapList
  <2>1. Commands(pb, refusedCaps) BY <1>15 DEF CapList
  <2> HIDE DEF pb
  <2> QED BY <1>3, <1>4, <2>1
<1>16. CASE CapTick
  <2>1. PICK unsaved : Flushes(pb, unsaved, refusedCaps) BY <1>16 DEF CapTick
  <2> HIDE DEF pb
  <2> QED BY <1>0, <1>1, <2>1, FlushesOK
<1>17. CASE CapTime
  <2>1. /\ capNow' = capNow + 1 /\ UNCHANGED <<book, capFiles, refusedCaps, refusedSaved>>
    BY <1>17 DEF CapTime
  <2>2. \A c \in Cap : Expired(c) => Expired(c)' BY <1>0, <2>1, CapFacts DEF Expired
  <2>3. /\ \A c \in refusedCaps : Expired(c)' \/ c \in book.withdrawn \/ Listed(book.revoked, c)
        /\ \A c \in refusedSaved : \/ Expired(c)' \/ Listed(capFiles.revoked, c)
                                   \/ c \in capFiles.withdrawn /\ c \in book.withdrawn
    BY <2>2 DEF CapInv, Covers
  <2>4. Covers(book, refusedCaps)' BY <2>1, <2>3 DEF Covers, Listed, Expired
  <2>5. (\A c \in refusedSaved : \/ Expired(c) \/ Listed(capFiles.revoked, c)
                                 \/ c \in capFiles.withdrawn /\ c \in book.withdrawn)'
    BY <2>1, <2>3 DEF Listed, Expired
  <2>6. capNow' \in Nat BY <1>0, <2>1
  <2> QED BY <2>1, <2>4, <2>5, <2>6 DEF CapInv, SoundBook, SoundRevocations
<1>18. CASE CapRestart
  <2>1. /\ book' = [issued |-> capFiles.issued, withdrawn |-> capFiles.withdrawn,
                    held |-> capFiles.held, revoked |-> capFiles.revoked, presented |-> <<>>]
        /\ refusedCaps' = refusedSaved /\ UNCHANGED <<capFiles, capNow, refusedSaved>>
    BY <1>18 DEF CapRestart
  <2>2. /\ capFiles \in [issued : SUBSET Cap, withdrawn : SUBSET Cap, held : SUBSET Cap,
                          revoked : Seq(Revocation)]
        /\ SoundRevocations(capFiles.revoked)
        /\ \A c \in refusedSaved : \/ Expired(c) \/ Listed(capFiles.revoked, c)
                                   \/ c \in capFiles.withdrawn /\ c \in book.withdrawn
    BY DEF CapInv
  <2>3. SoundBook(book') /\ book'.withdrawn = capFiles.withdrawn /\ book'.revoked = capFiles.revoked
    BY <2>1, <2>2 DEF SoundBook
  <2> QED BY <2>1, <2>2, <2>3 DEF CapInv, SoundBook, SoundRevocations, Covers, Expired, Listed
<1> HIDE DEF pb
<1> QED BY <1>6, <1>7, <1>8, <1>9, <1>10, <1>11, <1>12, <1>13, <1>14, <1>15, <1>16, <1>17, <1>18
        DEF CapNext

LEMMA CapInvariant == CapSpec => []CapInv
<1>1. CapInit => CapInv
  <2> SUFFICES ASSUME CapInit PROVE CapInv OBVIOUS
  <2>1. /\ book = EmptyBook /\ capFiles = SavedBook(EmptyBook) /\ capNow = 0
        /\ refusedCaps = {} /\ refusedSaved = {}
    BY DEF CapInit
  <2>2. <<>> \in Seq(Revocation) /\ SoundRevocations(<<>>) BY DEF SoundRevocations
  <2>3. SoundBook(book) BY <2>1, <2>2 DEF SoundBook, EmptyBook
  <2>4. capFiles \in [issued : SUBSET Cap, withdrawn : SUBSET Cap, held : SUBSET Cap,
                      revoked : Seq(Revocation)] /\ capFiles.revoked = <<>>
    BY <2>1, <2>2 DEF SavedBook, EmptyBook
  <2> QED BY <2>1, <2>2, <2>3, <2>4 DEF CapInv, Covers
<1>2. CapInv /\ [CapNext]_capVars => CapInv'
  <2>1. CapInv /\ UNCHANGED capVars => CapInv'
    BY DEF capVars, CapInv, SoundBook, SoundRevocations, Covers, Expired, Listed
  <2> QED BY <2>1, CapSteps
<1> QED BY <1>1, <1>2, PTL DEF CapSpec

LEMMA CapCovers == CapInv => RevocationsHold
<1> SUFFICES ASSUME CapInv, NEW n \in Did, NEW owner \in Did, NEW i \in PresentedCap(n, owner),
                    NEW c \in Chain(book.presented[i].cap), c \in refusedCaps
             PROVE  FALSE
  BY DEF RevocationsHold
<1>1. capOf[c].exp > capNow /\ ~IsRevoked(book, c)
  BY DEF PresentedCap, Verifies, LiveCap
<1>2. c \in Cap /\ capOf[c].exp \in Nat /\ capNow \in Nat BY CapFacts DEF CapInv
<1>3. ~Expired(c) BY <1>1, <1>2 DEF Expired
<1>4. c \in book.withdrawn \/ Listed(book.revoked, c) BY <1>3 DEF CapInv, Covers
<1>5. ASSUME NEW j \in DOMAIN book.revoked, book.revoked[j].id = c PROVE book.revoked[j].exp > capNow
  <2> DEFINE s == book.revoked
  <2>1. s \in Seq(Revocation) /\ j \in DOMAIN s /\ s[j].id = c /\ capOf[s[j].id].exp <= s[j].exp
    BY <1>5 DEF CapInv, SoundBook, SoundRevocations
  <2> HIDE DEF s
  <2>2. s[j] \in Revocation BY <2>1
  <2>3. s[j].exp \in Nat BY <2>2 DEF Revocation
  <2>4. s[j].exp > capNow BY <1>1, <1>2, <2>1, <2>3
  <2> QED BY <2>4 DEF s
<1> QED BY <1>1, <1>4, <1>5 DEF IsRevoked, Listed

-----------------------------------------------------------------------------
(***************************************************************************)
(* Forward proposals: a request that was proposed is in at most one of the *)
(* requester's table, the queue of outcomes (there once) and the outcomes  *)
(* that were applied, and a yes anywhere on its way was answered yes.      *)
(***************************************************************************)
Outcome == [req : Proposal, yes : BOOLEAN]

ForwardInv ==
    /\ proposed \subseteq Proposal /\ outgoing \subseteq proposed /\ IsFiniteSet(outgoing)
    /\ outcomes \in Seq(Outcome) /\ applied \in [Proposal -> Seq(BOOLEAN)]
    /\ \A i \in DOMAIN outcomes : /\ outcomes[i].req \in proposed \ outgoing
                                  /\ applied[outcomes[i].req] = <<>>
                                  /\ outcomes[i].yes => outcomes[i].req \in accepted
    /\ \A i, j \in DOMAIN outcomes : outcomes[i].req = outcomes[j].req => i = j
    /\ \A r \in Proposal : /\ Len(applied[r]) <= 1
                           /\ applied[r] # <<>> => r \in proposed \ outgoing
                           /\ \A i \in DOMAIN applied[r] : applied[r][i] => r \in accepted
    /\ \A m \in inFlight : m.t = "yes" => m.req \in accepted

LEMMA ForwardIsSettled == ForwardInv => ForwardSettledOnce
<1> SUFFICES ASSUME ForwardInv, NEW r \in Proposal
             PROVE  /\ Len(applied[r]) + Cardinality({i \in DOMAIN outcomes : outcomes[i].req = r})
                          + Cardinality({r} \cap outgoing) <= 1
                    /\ (\E i \in DOMAIN applied[r] : applied[r][i]) => r \in accepted
  BY DEF ForwardSettledOnce
<1> DEFINE mine == {i \in DOMAIN outcomes : outcomes[i].req = r}
           l == Len(applied[r])
           a == Cardinality(mine)
           o == Cardinality({r} \cap outgoing)
<1>1. applied[r] \in Seq(BOOLEAN) /\ l \in Nat /\ l <= 1 /\ (applied[r] = <<>> => l = 0)
  BY DEF ForwardInv
<1>2. \/ mine = {} /\ a = 0
      \/ a = 1 /\ applied[r] = <<>> /\ r \notin outgoing
  <2>1. CASE mine = {} BY <2>1, FS_EmptySet
  <2>2. CASE mine # {}
    <3>1. PICK i \in mine : TRUE BY <2>2
    <3>2. mine = {i} BY <3>1 DEF ForwardInv
    <3>3. a = 1 BY <3>2, FS_Singleton
    <3> QED BY <3>1, <3>3 DEF ForwardInv
  <2> QED BY <2>1, <2>2
<1>3. \/ r \notin outgoing /\ o = 0
      \/ r \in outgoing /\ o = 1 /\ applied[r] = <<>>
  <2>1. CASE r \in outgoing
    <3>1. {r} \cap outgoing = {r} BY <2>1
    <3>2. o = 1 BY <3>1, FS_Singleton
    <3> QED BY <2>1, <3>2 DEF ForwardInv
  <2>2. CASE r \notin outgoing
    <3>1. {r} \cap outgoing = {} BY <2>2
    <3> QED BY <2>2, <3>1, FS_EmptySet
  <2> QED BY <2>1, <2>2
<1>4. (\E i \in DOMAIN applied[r] : applied[r][i]) => r \in accepted
  BY DEF ForwardInv
<1> HIDE DEF mine, l, a, o
<1>5. l + a + o <= 1 BY <1>1, <1>2, <1>3
<1> QED BY <1>4, <1>5 DEF l, a, o, mine

(* Steps that leave the requester alone and add no unanswered yes.           *)
LEMMA RequesterRests ==
    ASSUME ForwardInv, UNCHANGED requesterVars, accepted \subseteq accepted',
           \A m \in inFlight' : m \in inFlight \/ (m.t = "yes" => m.req \in accepted')
    PROVE  ForwardInv'
BY DEF ForwardInv, requesterVars

LEMMA ForwardSteps ==
    ASSUME ForwardInv, ForwardNext
    PROVE  ForwardInv'
<1>0. /\ proposed \subseteq Proposal /\ outgoing \subseteq proposed /\ IsFiniteSet(outgoing)
      /\ outcomes \in Seq(Outcome) /\ applied \in [Proposal -> Seq(BOOLEAN)]
      /\ \A i \in DOMAIN outcomes : /\ outcomes[i].req \in proposed \ outgoing
                                    /\ applied[outcomes[i].req] = <<>>
                                    /\ outcomes[i].yes => outcomes[i].req \in accepted
      /\ \A i, j \in DOMAIN outcomes : outcomes[i].req = outcomes[j].req => i = j
      /\ \A r \in Proposal : /\ Len(applied[r]) <= 1
                             /\ applied[r] # <<>> => r \in proposed \ outgoing
                             /\ \A i \in DOMAIN applied[r] : applied[r][i] => r \in accepted
      /\ \A m \in inFlight : m.t = "yes" => m.req \in accepted
  BY DEF ForwardInv
<1>1. ASSUME NEW r \in Proposal, SendOutgoing(r) PROVE ForwardInv'
  <2>1. /\ r \notin proposed /\ proposed' = proposed \cup {r}
        /\ outgoing' \in {outgoing, outgoing \cup {r}}
        /\ inFlight' \subseteq inFlight \cup {[t |-> "request", req |-> r]}
        /\ UNCHANGED <<outcomes, applied, accepted>>
    BY <1>1 DEF SendOutgoing, Sends, serverVars
  <2>2. IsFiniteSet(outgoing') BY <1>0, <2>1, FS_AddElement
  <2>3. \A m \in inFlight' : m.t = "yes" => m.req \in accepted
    <3>1. [t |-> "request", req |-> r].t # "yes" OBVIOUS
    <3> QED BY <1>0, <2>1, <3>1
  <2> QED BY <1>0, <2>1, <2>2, <2>3 DEF ForwardInv
<1>2. ASSUME NEW r \in Proposal, CancelOutgoing(r) PROVE ForwardInv'
  <2>1. /\ outgoing' = outgoing \ {r}
        /\ inFlight' \subseteq inFlight \cup {[t |-> "cancel", req |-> r]}
        /\ UNCHANGED <<proposed, outcomes, applied, accepted>>
    BY <1>2 DEF CancelOutgoing, Sends, serverVars
  <2>2. IsFiniteSet(outgoing') BY <1>0, <2>1, FS_Subset
  <2>3. \A m \in inFlight' : m.t = "yes" => m.req \in accepted
    <3>1. [t |-> "cancel", req |-> r].t # "yes" OBVIOUS
    <3> QED BY <1>0, <2>1, <3>1
  <2> QED BY <1>0, <2>1, <2>2, <2>3 DEF ForwardInv
<1>3. ASSUME NEW m \in FwdMsg, RecordResponse(m) PROVE ForwardInv'
  <2>1. /\ m \in inFlight /\ m.t \in {"yes", "no"} /\ inFlight' \subseteq inFlight
        /\ m.req \in Proposal /\ UNCHANGED <<proposed, applied, accepted>>
    BY <1>3 DEF RecordResponse, serverVars, FwdMsg
  <2>2. CASE m.req \notin outgoing
    <3>1. UNCHANGED <<outgoing, outcomes>> BY <1>3, <2>2 DEF RecordResponse
    <3> QED BY <1>0, <2>1, <3>1 DEF ForwardInv
  <2>3. CASE m.req \in outgoing
    <3> DEFINE x == [req |-> m.req, yes |-> m.t = "yes"]
               n == Len(outcomes)
    <3>1. outgoing' = outgoing \ {m.req} /\ outcomes' = Append(outcomes, x)
      BY <1>3, <2>3 DEF RecordResponse
    <3>2. x \in Outcome /\ x.req = m.req /\ (x.yes => m.req \in accepted)
      BY <1>0, <2>1 DEF Outcome
    <3> HIDE DEF x
    <3>3. /\ outcomes' \in Seq(Outcome) /\ DOMAIN outcomes = 1 .. n /\ DOMAIN outcomes' = 1 .. (n + 1)
          /\ n \in Nat /\ (\A i \in 1 .. n : outcomes'[i] = outcomes[i]) /\ outcomes'[n + 1] = x
      BY <1>0, <3>1, <3>2, AppendOf
    <3> HIDE DEF n
    <3>4. \A i \in DOMAIN outcomes' : \/ i \in DOMAIN outcomes /\ outcomes'[i] = outcomes[i]
                                      \/ i = n + 1 /\ outcomes'[i] = x
      BY <3>3
    <3>5. IsFiniteSet(outgoing') BY <1>0, <3>1, FS_Subset
    <3>6. \A i \in DOMAIN outcomes' : /\ outcomes'[i].req \in proposed \ outgoing'
                                      /\ applied[outcomes'[i].req] = <<>>
                                      /\ outcomes'[i].yes => outcomes'[i].req \in accepted
      BY <1>0, <2>1, <2>3, <3>1, <3>2, <3>4
    <3>7. \A i, j \in DOMAIN outcomes' : outcomes'[i].req = outcomes'[j].req => i = j
      BY <1>0, <2>3, <3>2, <3>4
    <3> QED BY <1>0, <2>1, <3>1, <3>3, <3>5, <3>6, <3>7 DEF ForwardInv
  <2> QED BY <2>2, <2>3
<1>4. ASSUME NEW rs \in SUBSET Proposal, FailOutgoing(rs) PROVE ForwardInv'
  <2> DEFINE f == [r \in rs |-> [req |-> r, yes |-> FALSE]]
             S == {f[r] : r \in rs}
             t == SetToSeq(S)
             n == Len(outcomes)
             k == Cardinality(S)
  <2>1. /\ rs \subseteq outgoing /\ outgoing' = outgoing \ rs
        /\ outcomes' = outcomes \o SetToSeq({[req |-> r, yes |-> FALSE] : r \in rs})
        /\ UNCHANGED <<proposed, applied, inFlight, accepted>>
    BY <1>4 DEF FailOutgoing, serverVars
  <2>2. S = {[req |-> r, yes |-> FALSE] : r \in rs} OBVIOUS
  <2>3. IsFiniteSet(rs) /\ IsFiniteSet(outgoing') BY <1>0, <2>1, FS_Subset
  <2>4. \A x \in S : x \in Outcome /\ x.req \in rs /\ ~x.yes /\ x = [req |-> x.req, yes |-> FALSE]
    <3> TAKE x \in S
    <3>1. PICK r \in rs : x = [req |-> r, yes |-> FALSE] BY <2>2
    <3> QED BY <3>1 DEF Outcome
  <2>5. outcomes' = outcomes \o t BY <2>1, <2>2
  <2>6. IsFiniteSet(S)
    <3> HIDE DEF f
    <3> QED BY <2>3, ImageFinite
  <2> HIDE DEF S, f
  <2>7. /\ k \in Nat /\ t \in [1 .. k -> S] /\ \A i, j \in 1 .. k : t[i] = t[j] => i = j
    BY <2>6, SetToSeqOf
  <2> HIDE DEF t, k
  <2>8. t \in Seq(Outcome) /\ Len(t) = k /\ \A i \in 1 .. k : t[i] \in S
    <3>1. t \in [1 .. k -> Outcome] BY <2>4, <2>7
    <3> QED BY <2>7, <3>1
  <2>9. /\ outcomes' \in Seq(Outcome) /\ Len(outcomes') = n + k /\ n \in Nat
        /\ DOMAIN outcomes = 1 .. n /\ DOMAIN outcomes' = 1 .. (n + k)
        /\ \A i \in 1 .. (n + k) : outcomes'[i] = IF i <= n THEN outcomes[i] ELSE t[i - n]
    <3>1. /\ outcomes \o t \in Seq(Outcome) /\ Len(outcomes \o t) = n + k
          /\ \A i \in DOMAIN (outcomes \o t) :
                (outcomes \o t)[i] = IF i <= n THEN outcomes[i] ELSE t[i - n]
      BY <1>0, <2>8, ConcatOf
    <3>2. n \in Nat /\ DOMAIN outcomes = 1 .. n BY <1>0
    <3> HIDE DEF n
    <3>3. outcomes' \in Seq(Outcome) /\ Len(outcomes') = n + k BY <2>5, <3>1
    <3>4. DOMAIN outcomes' = 1 .. (n + k) BY <3>3
    <3> QED BY <2>5, <3>1, <3>2, <3>3, <3>4
  <2> HIDE DEF n
  <2>10. ASSUME NEW i \in DOMAIN outcomes'
         PROVE  \/ i \in DOMAIN outcomes /\ outcomes'[i] = outcomes[i]
                \/ i - n \in 1 .. k /\ outcomes'[i] = t[i - n] /\ t[i - n] \in S
    <3>1. CASE i <= n BY <2>9, <3>1
    <3>2. CASE ~(i <= n)
      <4>1. i - n \in 1 .. k BY <2>7, <2>9, <3>2
      <4> QED BY <2>8, <2>9, <3>2, <4>1
    <3> QED BY <3>1, <3>2
  <2>11. \A i \in DOMAIN outcomes' : /\ outcomes'[i].req \in proposed \ outgoing'
                                     /\ applied[outcomes'[i].req] = <<>>
                                     /\ outcomes'[i].yes => outcomes'[i].req \in accepted
    <3> TAKE i \in DOMAIN outcomes'
    <3>1. CASE i \in DOMAIN outcomes /\ outcomes'[i] = outcomes[i] BY <1>0, <2>1, <3>1
    <3>2. CASE outcomes'[i] \in S
      <4>1. outcomes'[i].req \in rs /\ ~outcomes'[i].yes BY <2>4, <3>2
      <4> QED BY <1>0, <2>1, <4>1
    <3> QED BY <2>10, <3>1, <3>2
  <2>12. \A i, j \in DOMAIN outcomes' : outcomes'[i].req = outcomes'[j].req => i = j
    <3> TAKE i, j \in DOMAIN outcomes'
    <3> HAVE outcomes'[i].req = outcomes'[j].req
    <3>0. i \in Int /\ j \in Int /\ n \in Int BY <2>9
    <3>1. CASE i \in DOMAIN outcomes /\ outcomes'[i] = outcomes[i]
      <4>1. outcomes'[i].req \notin outgoing BY <1>0, <3>1
      <4>2. outcomes'[j] \notin S BY <2>1, <2>4, <4>1
      <4>3. j \in DOMAIN outcomes /\ outcomes'[j] = outcomes[j] BY <2>10, <4>2
      <4> QED BY <1>0, <3>1, <4>3
    <3>2. CASE i - n \in 1 .. k /\ outcomes'[i] = t[i - n] /\ t[i - n] \in S
      <4>1. outcomes'[j].req \in outgoing BY <2>1, <2>4, <3>2
      <4>2. j - n \in 1 .. k /\ outcomes'[j] = t[j - n] /\ t[j - n] \in S BY <1>0, <2>10, <4>1
      <4>3. t[i - n] = t[j - n] BY <2>4, <3>2, <4>2
      <4>4. i - n = j - n BY <2>7, <3>2, <4>2, <4>3
      <4> QED BY <3>0, <4>4
    <3> QED BY <2>10, <3>1, <3>2
  <2> QED BY <1>0, <2>1, <2>3, <2>9, <2>11, <2>12 DEF ForwardInv
<1>5. CASE ApplyOutcomes
  <2> DEFINE h == outcomes[1]
             q == h.req
  <2>1. /\ outcomes # <<>> /\ outcomes' = Tail(outcomes)
        /\ applied' = [applied EXCEPT ![q] = Append(applied[q], h.yes)]
        /\ UNCHANGED <<proposed, outgoing, inFlight, accepted>>
    BY <1>5 DEF ApplyOutcomes, serverVars
  <2>2. /\ 1 \in DOMAIN outcomes /\ Tail(outcomes) \in Seq(Outcome) /\ Len(outcomes) \in Nat \ {0}
        /\ DOMAIN outcomes = 1 .. Len(outcomes) /\ DOMAIN Tail(outcomes) = 1 .. (Len(outcomes) - 1)
        /\ \A i \in 1 .. (Len(outcomes) - 1) : Tail(outcomes)[i] = outcomes[i + 1]
    BY <1>0, <2>1, HeadTailOf
  <2>3. h \in Outcome BY <1>0, <2>2
  <2>4. q \in Proposal /\ h.yes \in BOOLEAN /\ applied[q] = <<>> /\ q \in proposed \ outgoing
        /\ (h.yes => q \in accepted)
    BY <1>0, <2>2, <2>3 DEF Outcome
  <2> DEFINE y == h.yes
  <2> HIDE DEF h, q, y
  <2>5. Append(applied[q], y) = <<y>> BY <2>4
  <2>6. /\ applied' \in [Proposal -> Seq(BOOLEAN)] /\ applied'[q] = <<y>>
        /\ \A r \in Proposal : r # q => applied'[r] = applied[r]
    <3>1. <<y>> \in Seq(BOOLEAN) BY <2>4 DEF y
    <3>2. applied' = [applied EXCEPT ![q] = <<y>>] BY <2>1, <2>5 DEF y
    <3> QED BY <1>0, <2>4, <3>1, <3>2
  <2>7. \A i \in DOMAIN outcomes' : i + 1 \in DOMAIN outcomes /\ outcomes'[i] = outcomes[i + 1] /\ i \in Int
                                    /\ i + 1 # 1
    BY <2>1, <2>2
  <2>8. \A i \in DOMAIN outcomes' : outcomes'[i].req # q BY <1>0, <2>2, <2>7 DEF q, h
  <2>9. \A i \in DOMAIN outcomes' : /\ outcomes'[i].req \in proposed \ outgoing
                                    /\ applied'[outcomes'[i].req] = <<>>
                                    /\ outcomes'[i].yes => outcomes'[i].req \in accepted
    <3> TAKE i \in DOMAIN outcomes'
    <3>1. outcomes'[i].req \in Proposal /\ outcomes'[i] = outcomes[i + 1] /\ i + 1 \in DOMAIN outcomes
      BY <1>0, <2>7
    <3> QED BY <1>0, <2>6, <2>8, <3>1
  <2>10. \A i, j \in DOMAIN outcomes' : outcomes'[i].req = outcomes'[j].req => i = j
    <3> TAKE i, j \in DOMAIN outcomes'
    <3> HAVE outcomes'[i].req = outcomes'[j].req
    <3>1. i + 1 = j + 1 BY <1>0, <2>7
    <3> QED BY <2>7, <3>1
  <2>11. \A r \in Proposal : /\ Len(applied'[r]) <= 1
                             /\ applied'[r] # <<>> => r \in proposed \ outgoing
                             /\ \A i \in DOMAIN applied'[r] : applied'[r][i] => r \in accepted
    <3> TAKE r \in Proposal
    <3>1. CASE r # q BY <1>0, <2>6, <3>1
    <3>2. CASE r = q
      <4>1. Len(<<y>>) = 1 /\ DOMAIN <<y>> = {1} /\ <<y>>[1] = y OBVIOUS
      <4>2. applied'[r] = <<y>> /\ r \in proposed \ outgoing /\ (y => r \in accepted)
        BY <2>4, <2>6, <3>2 DEF y
      <4> QED BY <4>1, <4>2
    <3> QED BY <3>1, <3>2
  <2>12. outcomes' \in Seq(Outcome) BY <2>1, <2>2
  <2> QED BY <1>0, <2>1, <2>6, <2>9, <2>10, <2>11, <2>12 DEF ForwardInv
<1>6. ASSUME NEW r \in Proposal, RecordIncoming(r) \/ CancelIncoming(r) PROVE ForwardInv'
  BY <1>6, RequesterRests DEF RecordIncoming, CancelIncoming
<1>7. ASSUME NEW r \in Proposal, NEW yes \in BOOLEAN, ResolveForward(r, yes) PROVE ForwardInv'
  BY <1>7, RequesterRests DEF ResolveForward
<1>8. ASSUME NEW rs \in SUBSET Proposal, ForgetIncoming(rs) PROVE ForwardInv'
  BY <1>8, RequesterRests DEF ForgetIncoming
<1>9. CASE ResolveAnswers
  <2> DEFINE x == [t |-> IF resolving.yes THEN "yes" ELSE "no", req |-> resolving.req]
  <2>1. UNCHANGED requesterVars BY <1>9 DEF ResolveAnswers
  <2>2. accepted \subseteq accepted' /\ inFlight' \subseteq inFlight \cup {x}
        /\ (inFlight' = inFlight \/ (x.t = "yes" => x.req \in accepted'))
    BY <1>9 DEF ResolveAnswers, Sends
  <2> HIDE DEF x
  <2>3. \A m \in inFlight' : m \in inFlight \/ (m.t = "yes" => m.req \in accepted')
    BY <2>2
  <2> QED BY <2>1, <2>2, <2>3, RequesterRests
<1>10. CASE ResolveAdds \/ ResolveSnapshots \/ ResolveWrites \/ ResolveTakes \/ RemoveForward
            \/ RemoveWrites \/ ServerRestarts
  <2>1. UNCHANGED requesterVars /\ UNCHANGED <<inFlight, accepted>>
    BY <1>10 DEF ResolveAdds, ResolveSnapshots, ResolveWrites, ResolveTakes, RemoveForward,
                 RemoveWrites, ServerRestarts
  <2> QED BY <2>1, RequesterRests
<1> QED BY <1>1, <1>2, <1>3, <1>4, <1>5, <1>6, <1>7, <1>8, <1>9, <1>10 DEF ForwardNext

LEMMA ForwardInvariant == ForwardSpec => []ForwardInv
<1>1. ForwardInit => ForwardInv
  <2> SUFFICES ASSUME ForwardInit PROVE ForwardInv OBVIOUS
  <2>1. IsFiniteSet(outgoing) BY FS_EmptySet DEF ForwardInit
  <2>2. outcomes = <<>> /\ DOMAIN outcomes = {} /\ outcomes \in Seq(Outcome) BY DEF ForwardInit
  <2>3. \A r \in Proposal : applied[r] = <<>> /\ Len(applied[r]) = 0 /\ DOMAIN applied[r] = {}
    BY DEF ForwardInit
  <2>4. applied \in [Proposal -> Seq(BOOLEAN)] BY DEF ForwardInit
  <2> QED BY <2>1, <2>2, <2>3, <2>4 DEF ForwardInit, ForwardInv
<1>2. ForwardInv /\ [ForwardNext]_fwdVars => ForwardInv'
  <2>1. ForwardInv /\ UNCHANGED fwdVars => ForwardInv' BY DEF fwdVars, ForwardInv
  <2> QED BY <2>1, ForwardSteps
<1> QED BY <1>1, <1>2, PTL DEF ForwardSpec

-----------------------------------------------------------------------------
(***************************************************************************)
(* The daemon: a step of its services is a step of each one of them or     *)
(* leaves its variables alone, so that what was proved of a service holds  *)
(* of the daemon.                                                          *)
(***************************************************************************)
peerVars ==
    <<part, tcpVars, authVars, fwdVars, graphVars, accessVars, relayVars, dmVars, peerAuthVars,
      chatVars, capVars, usageVars, castVars, videoVars, vars>>

LEMMA RelayPart == PeerServicesSpec => RelaySpec
<1>1. PeerServicesInit => RelayInit
  BY DEF PeerServicesInit
<1>2. [PeerServicesNext]_peerVars => [RelayNext]_relayVars
  BY Zenon DEF PeerServicesNext, Rest, peerVars
<1> QED BY <1>1, <1>2, PTL DEF PeerServicesSpec, RelaySpec, peerVars

LEMMA DmPart == PeerServicesSpec => DmSpec
<1>1. PeerServicesInit => DmInit
  BY DEF PeerServicesInit
<1>2. [PeerServicesNext]_peerVars => [DmNext]_dmVars
  BY Zenon DEF PeerServicesNext, Rest, peerVars
<1> QED BY <1>1, <1>2, PTL DEF PeerServicesSpec, DmSpec, peerVars

LEMMA PeersPart == PeerServicesSpec => PeerAuthSpec
<1>1. PeerServicesInit => PeerAuthInit
  BY DEF PeerServicesInit
<1>2. [PeerServicesNext]_peerVars => [PeerAuthNext]_peerAuthVars
  BY Zenon DEF PeerServicesNext, Rest, peerVars
<1> QED BY <1>1, <1>2, PTL DEF PeerServicesSpec, PeerAuthSpec, peerVars

LEMMA ChatPart == PeerServicesSpec => ChatSpec
<1>1. PeerServicesInit => ChatInit
  BY DEF PeerServicesInit
<1>2. [PeerServicesNext]_peerVars => [ChatNext]_chatVars
  BY Zenon DEF PeerServicesNext, Rest, peerVars
<1> QED BY <1>1, <1>2, PTL DEF PeerServicesSpec, ChatSpec, peerVars

LEMMA TunnelPart == PeerServicesSpec => AuthSpec
<1>1. PeerServicesInit => AuthInit
  BY DEF PeerServicesInit
<1>2. [PeerServicesNext]_peerVars => [AuthNext]_authVars
  BY Zenon DEF PeerServicesNext, Rest, peerVars
<1> QED BY <1>1, <1>2, PTL DEF PeerServicesSpec, AuthSpec, peerVars

LEMMA AccessPart == PeerServicesSpec => AccessSpec
<1>1. PeerServicesInit => AccessInit
  BY DEF PeerServicesInit
<1>2. [PeerServicesNext]_peerVars => [AccessNext]_accessVars
  BY Zenon DEF PeerServicesNext, Rest, peerVars
<1> QED BY <1>1, <1>2, PTL DEF PeerServicesSpec, AccessSpec, peerVars

LEMMA CapsPart == PeerServicesSpec => CapSpec
<1>1. PeerServicesInit => CapInit
  BY DEF PeerServicesInit
<1>2. [PeerServicesNext]_peerVars => [CapNext]_capVars
  BY Zenon DEF PeerServicesNext, Rest, peerVars
<1> QED BY <1>1, <1>2, PTL DEF PeerServicesSpec, CapSpec, peerVars

LEMMA UsagePart == PeerServicesSpec => UsageSpec
<1>1. PeerServicesInit => UsageInit
  BY DEF PeerServicesInit
<1>2. [PeerServicesNext]_peerVars => [UsageNext]_usageVars
  BY Zenon DEF PeerServicesNext, Rest, peerVars
<1> QED BY <1>1, <1>2, PTL DEF PeerServicesSpec, UsageSpec, peerVars

LEMMA ForwardPart == PeerServicesSpec => ForwardSpec
<1>1. PeerServicesInit => ForwardInit
  BY DEF PeerServicesInit
<1>2. [PeerServicesNext]_peerVars => [ForwardNext]_fwdVars
  BY Zenon DEF PeerServicesNext, Rest, peerVars
<1> QED BY <1>1, <1>2, PTL DEF PeerServicesSpec, ForwardSpec, peerVars

(* Replays have no effect (membership.rs accept, dedupe cache and rate limits*)
(* of dm/, remember_nonce and the wire log of chat_relay): no Raft message,  *)
(* direct message or proof of identity is accepted twice and no chat         *)
(* envelope is kept twice, for any peers, messages, clocks, windows and caps *)
(* that the assumptions of the modules allow - and, for proofs of identity,  *)
(* no more hellos in circulation than remember_nonce has room for.           *)
THEOREM ReplaysRefused ==
    ASSUME MaxHellos <= MaxNonces
    PROVE  PeerServicesSpec => []AtMostOnce
<1>1. RelayInv => RaftOnce BY DEF RelayInv
<1>2. CacheInv => DmOnce BY CacheIsOnce
<1>3. NonceInv => ProofOnce BY NonceIsOnce
<1>4. ChatInv => WireLogOnce BY ChatIsOnce
<1>5. RaftOnce /\ DmOnce /\ ProofOnce /\ WireLogOnce => AtMostOnce
  BY DEF AtMostOnce
<1>6. PeerAuthSpec => []NonceInv BY NonceInvariant
<1> QED BY <1>1, <1>2, <1>3, <1>4, <1>5, <1>6, RelayPart, RelayInvariant, DmPart, CacheInvariant,
           PeersPart, ChatPart, ChatInvariant, PTL

(* The operator decides (tunnel/auth/, folder_owner.rs, delegation.rs,       *)
(* authz tokens): a tunnel connection is allowed and a folder key handed out *)
(* only for a request the operator or the policy agreed to, whichever calls, *)
(* rows, snapshots and commands were under way; and no revoked capability or *)
(* token lets anybody in, through prunings, failed saves and restarts.       *)
THEOREM OperatorDecides == PeerServicesSpec => []OperatorConsent
<1>1. AuthInv => AuthConsented BY DEF AuthInv
<1>2. AccessInv => GrantsConsented BY DEF AccessInv
<1>3. CapInv => RevocationsHold BY CapCovers
<1>4. AuthConsented /\ GrantsConsented /\ RevocationsHold /\ TokensStayRevoked => OperatorConsent
  BY DEF OperatorConsent
<1> QED BY <1>1, <1>2, <1>3, <1>4, TunnelPart, AuthInvariant, AccessPart, AccessInvariant, CapsPart,
           CapInvariant, UsagePart, TokensWithdrawn, PTL

(* Decisions reach whom they concern, once (PendingAuthorizations of         *)
(* tunnel/auth, ForwardNegotiator): a call that waits is listed in its row,  *)
(* which stays until the last waiter left, and a proposed forward has one    *)
(* outcome, yes only if the other peer said so.                              *)
THEOREM DecisionsReach == PeerServicesSpec => []DecisionsSettled
<1>1. AuthInv => AuthRowsLive BY DEF AuthInv
<1>2. ForwardInv => ForwardSettledOnce BY ForwardIsSettled
<1>3. AuthRowsLive /\ ForwardSettledOnce => DecisionsSettled
  BY DEF DecisionsSettled
<1> QED BY <1>1, <1>2, <1>3, TunnelPart, AuthInvariant, ForwardPart, ForwardInvariant, PTL

LEMMA TcpPart == PeerServicesSpec => TcpSpec
<1>1. PeerServicesInit => TcpInit
  BY DEF PeerServicesInit
<1>2. [PeerServicesNext]_peerVars => [TcpNext]_tcpVars
  BY Zenon DEF PeerServicesNext, Rest, peerVars
<1> QED BY <1>1, <1>2, PTL DEF PeerServicesSpec, TcpSpec, peerVars

LEMMA CastPart == PeerServicesSpec => CastSpec
<1>1. PeerServicesInit => CastInit
  BY DEF PeerServicesInit
<1>2. [PeerServicesNext]_peerVars => [CastNext]_castVars
  BY Zenon DEF PeerServicesNext, Rest, peerVars
<1> QED BY <1>1, <1>2, PTL DEF PeerServicesSpec, CastSpec, peerVars

LEMMA VideoPart == PeerServicesSpec => VideoSpec
<1>1. PeerServicesInit => VideoInit
  BY DEF PeerServicesInit
<1>2. [PeerServicesNext]_peerVars => [VideoNext]_videoVars
  BY Zenon DEF PeerServicesNext, Rest, peerVars
<1> QED BY <1>1, <1>2, PTL DEF PeerServicesSpec, VideoSpec, peerVars

(* Streams arrive as they were sent (tunnel/tcp, stream/relay.rs): a         *)
(* tunnelled connection delivers a prefix of the bytes written, in order and *)
(* without a gap; a relay offers the tracks of the publisher it is locked to *)
(* and of nobody else; and what its video task sends, a viewer can decode.   *)
(* For any number of connections, peers, messages, buffers and faults, and   *)
(* any well-formed stream whose losses and delays stay within the range of   *)
(* the sequence numbers.                                                     *)
THEOREM StreamsArrive == PeerServicesSpec => []StreamsIntact
<1>1. TcpInv => TcpStreamIntact BY TcpIsIntact
<1>2. CastInv => CastInStep BY CastIsInStep
<1>3. VideoInv => SentDecodable BY DEF VideoInv
<1>4. TcpStreamIntact /\ CastInStep /\ SentDecodable => StreamsIntact
  BY DEF StreamsIntact
<1> QED BY <1>1, <1>2, <1>3, <1>4, TcpPart, TcpInvariant, CastPart, CastInvariant, VideoPart,
           VideoInvariant, PTL
=============================================================================
