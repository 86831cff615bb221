---------------------------- MODULE DirectMessages ----------------------------
(* Direct messages (src/src/dm): the checks an inbound message passes, the    *)
(* replay cache and the rate limits in front of the history, the history's    *)
(* caps and its files, sending and acknowledgements.  A message is its        *)
(* sender, its id, its signed time and, when stored, whose it is and its      *)
(* status; text and attachments are left out.  Every sender is admitted.      *)
EXTENDS Naturals, Sequences, FiniteSets, SequencesExt, FiniteSetsExt, VecOps

CONSTANTS
    DmPeer,          \* peers
    DmWire,          \* messages peers have signed: records of from, id, ts
    DmOwnId,         \* ids of our own messages
    MaxMessages,     \* MAX_MESSAGES
    MaxConversations,\* MAX_CONVERSATIONS
    MaxSkew,         \* MAX_SKEW_MS, in windows of the rate limiter
    DedupeTtl,       \* DEDUPE_TTL, in windows
    DedupeMax,       \* DEDUPE_MAX
    PerSender,       \* PER_SENDER_PER_WINDOW
    GlobalPerWindow, \* GLOBAL_PER_WINDOW
    MaxDmTime,       \* bound on the clock
    MaxDmOps,        \* bound on sends, clears and reads
    MaxDmFaults      \* bound on failed flushes and restarts

(* limits.rs states what the two sizes of the cache must exceed.            *)
ASSUME DmAssumption ==
    /\ {MaxMessages, MaxConversations, PerSender, GlobalPerWindow} \subseteq Nat \ {0}
    /\ {MaxSkew, DedupeTtl, DedupeMax, MaxDmTime, MaxDmFaults} \subseteq Nat
    /\ DedupeTtl > 2 * MaxSkew
    /\ DedupeMax > GlobalPerWindow * (DedupeTtl + 1)
    /\ \A m \in DmWire : m.from \in DmPeer /\ m.ts \in Nat

VARIABLES
    convs,       \* History.convs
    dirty, removed,  \* conversations to write, conversations to delete
    convFiles,   \* the files under <data_dir>/dm
    dmFlush,     \* the disk work flush has taken
    dedupe,      \* Dedupe.order
    senderCount, globalCount,   \* RateLimiter: messages in this window
    sending,     \* our messages between the first route and history.add
    dmNow,       \* the clock
    dmAccepted,  \* history: how often each message was accepted since the start
    dmOps, dmFaults

dmVars == <<convs, dirty, removed, convFiles, dmFlush, dedupe, senderCount, globalCount,
            sending, dmNow, dmAccepted, dmOps, dmFaults>>
historyVars == <<convs, dirty, removed>>
inboxVars == <<dedupe, senderCount, globalCount>>

NoConv == [exists |-> FALSE, unread |-> 0, updated |-> 0, messages |-> <<>>]
Existing(table) == {p \in DmPeer : table[p].exists}
NoWork == [taken |-> FALSE, deletes |-> {}, writes |-> {}, bytes |-> [p \in DmPeer |-> NoConv]]
NotSending == [id |-> "none", ok |-> FALSE]

-----------------------------------------------------------------------------
(* Conversation.                                                            *)
Solicited(c) == \E i \in DOMAIN c.messages : c.messages[i].mine
HasMessage(c, id) == \E i \in DOMAIN c.messages : c.messages[i].id = id
TrimMessages(messages) ==
    IF Len(messages) > MaxMessages THEN Tail(messages) ELSE messages

(* make_room: the least recently updated conversation we never wrote in; for *)
(* our own message any other will do.                                        *)
Lru(S) == {p \in S : \A q \in S : convs[p].updated <= convs[q].updated}
Victims(remote) ==
    LET unsolicited == {p \in Existing(convs) : ~Solicited(convs[p])}
    IN  IF unsolicited # {} THEN Lru(unsolicited)
        ELSE IF remote THEN {} ELSE Lru(Existing(convs))
NeedsRoom(p) == ~convs[p].exists /\ Cardinality(Existing(convs)) >= MaxConversations
AddIsDuplicate(p, id) == convs[p].exists /\ HasMessage(convs[p], id)
AddIsFull(p, remote) == NeedsRoom(p) /\ Victims(remote) = {}

(* History::add, once neither refusal applies.                              *)
HistoryAdd(p, message, remote) ==
    \E victim \in (IF NeedsRoom(p) THEN Victims(remote) ELSE {p}) :
        LET roomy == IF NeedsRoom(p) THEN [convs EXCEPT ![victim] = NoConv] ELSE convs
            c == roomy[p]
            evicted == IF NeedsRoom(p) THEN {victim} ELSE {}
        IN  /\ convs' = [roomy EXCEPT ![p] =
                   [exists |-> TRUE, unread |-> IF remote THEN 1 ELSE c.unread,
                    updated |-> Max({dmNow, c.updated}),
                    messages |-> TrimMessages(Append(c.messages, message))]]
            /\ dirty' = (dirty \ evicted) \cup {p}
            /\ removed' = (removed \cup evicted) \ {p}

(* History::mark_delivered changes a message of ours that is Sent.          *)
MarkDelivered(p, id) ==
    [convs EXCEPT ![p].messages =
        [i \in DOMAIN @ |-> IF @[i].id = id /\ @[i].mine /\ @[i].status = "sent"
                            THEN [@[i] EXCEPT !.status = "delivered"] ELSE @[i]]]

-----------------------------------------------------------------------------
(* Dedupe::prune: entries past their lifetime go, and the oldest at the cap. *)
DedupePrune(d) ==
    LET live == PopWhile(d, {x \in Range(d) : dmNow - x.at > DedupeTtl})
    IN  IF Len(live) >= DedupeMax THEN SubSeq(live, Len(live) - DedupeMax + 2, Len(live))
        ELSE live
DedupeContains(m) == \E i \in DOMAIN dedupe : dedupe[i].key = <<m.from, m.id>>

(* RateLimiter::allow *)
Allowed(m) == globalCount < GlobalPerWindow /\ senderCount[m.from] < PerSender
Charged(m) == /\ senderCount' = [senderCount EXCEPT ![m.from] = @ + 1]
              /\ globalCount' = globalCount + 1

(* precheck: the signed time is near our clock.                             *)
FreshWire(m) == m.ts <= dmNow + MaxSkew /\ dmNow <= m.ts + MaxSkew

DmInit ==
    /\ convs = [p \in DmPeer |-> NoConv] /\ dirty = {} /\ removed = {}
    /\ convFiles = [p \in DmPeer |-> NoConv] /\ dmFlush = NoWork
    /\ dedupe = <<>> /\ senderCount = [p \in DmPeer |-> 0] /\ globalCount = 0
    /\ sending = [p \in DmPeer |-> NotSending]
    /\ dmNow = 0 /\ dmAccepted = [m \in DmWire |-> 0] /\ dmOps = 0 /\ dmFaults = 0

(* process_inbound: a message passes the lookup and the limits before its     *)
(* signature is checked; a bad one has been charged and is dropped.           *)
InboundForged(m) ==
    /\ FreshWire(m) /\ ~DedupeContains(m) /\ Allowed(m) /\ Charged(m)
    /\ UNCHANGED <<historyVars, convFiles, dmFlush, dedupe, sending, dmNow, dmAccepted,
                   dmOps, dmFaults>>

(* The id is remembered before the history is asked, so a message the        *)
(* history refuses is not accepted later either.                             *)
InboundMessage(m) ==
    LET message == [id |-> m.id, mine |-> FALSE, status |-> "received"]
    IN  /\ FreshWire(m) /\ ~DedupeContains(m) /\ Allowed(m) /\ Charged(m)
        /\ dedupe' = Append(DedupePrune(dedupe), [at |-> dmNow, key |-> <<m.from, m.id>>])
        /\ \/ /\ AddIsDuplicate(m.from, m.id) \/ AddIsFull(m.from, TRUE)
              /\ UNCHANGED <<historyVars, dmAccepted>>
           \/ /\ ~AddIsDuplicate(m.from, m.id) /\ ~AddIsFull(m.from, TRUE)
              /\ HistoryAdd(m.from, message, TRUE)
              /\ dmAccepted' = [dmAccepted EXCEPT ![m] = @ + 1]
        /\ UNCHANGED <<convFiles, dmFlush, sending, dmNow, dmOps, dmFaults>>

(* An acknowledgement is charged like a message and not remembered.         *)
InboundAck(p, id) ==
    /\ Allowed([from |-> p]) /\ Charged([from |-> p])
    /\ \/ sending[p] = [id |-> id, ok |-> TRUE]
       \/ \E i \in DOMAIN convs[p].messages :
             convs[p].messages[i] = [id |-> id, mine |-> TRUE, status |-> "sent"]
    /\ convs' = MarkDelivered(p, id)
    /\ dirty' = IF convs' # convs THEN dirty \cup {p} ELSE dirty
    /\ UNCHANGED <<removed, convFiles, dmFlush, dedupe, sending, dmNow, dmAccepted, dmOps,
                   dmFaults>>

(* send: the routes are tried first and the message is recorded after.      *)
SendRoutes(p, id, ok) ==
    /\ sending[p] = NotSending /\ dmOps < MaxDmOps /\ dmOps' = dmOps + 1
    /\ \A q \in DmPeer : sending[q].id # id /\ ~HasMessage(convs[q], id)
    /\ sending' = [sending EXCEPT ![p] = [id |-> id, ok |-> ok]]
    /\ UNCHANGED <<historyVars, inboxVars, convFiles, dmFlush, dmNow, dmAccepted, dmFaults>>
SendRecords(p) ==
    LET s == sending[p]
        message == [id |-> s.id, mine |-> TRUE, status |-> IF s.ok THEN "sent" ELSE "failed"]
    IN  /\ s # NotSending /\ sending' = [sending EXCEPT ![p] = NotSending]
        /\ ~AddIsDuplicate(p, s.id) /\ HistoryAdd(p, message, FALSE)
        /\ UNCHANGED <<inboxVars, convFiles, dmFlush, dmNow, dmAccepted, dmOps, dmFaults>>

(* dm.read *)
MarkRead(p) ==
    /\ dmOps < MaxDmOps /\ dmOps' = dmOps + 1
    /\ convs[p].unread # 0
    /\ convs' = [convs EXCEPT ![p].unread = 0] /\ dirty' = dirty \cup {p}
    /\ UNCHANGED <<removed, inboxVars, convFiles, dmFlush, sending, dmNow, dmAccepted, dmFaults>>

(* dm.clear *)
ClearConv(p) ==
    /\ dmOps < MaxDmOps /\ dmOps' = dmOps + 1
    /\ convs[p].exists /\ convs' = [convs EXCEPT ![p] = NoConv]
    /\ dirty' = dirty \ {p} /\ removed' = removed \cup {p}
    /\ UNCHANGED <<inboxVars, convFiles, dmFlush, sending, dmNow, dmAccepted, dmFaults>>

-----------------------------------------------------------------------------
(* take_pending *)
FlushTakesWork ==
    /\ ~dmFlush.taken /\ dirty \cup removed # {}
    /\ dmFlush' = [taken |-> TRUE, deletes |-> removed, writes |-> dirty \cap Existing(convs),
                   bytes |-> convs]
    /\ dirty' = {} /\ removed' = {}
    /\ UNCHANGED <<convs, inboxVars, convFiles, sending, dmNow, dmAccepted, dmOps, dmFaults>>

(* apply_pending, up to the work done: deletions first.                     *)
FilesAfter(deleted, written) ==
    [p \in DmPeer |-> IF p \in written THEN dmFlush.bytes[p]
                      ELSE IF p \in deleted THEN NoConv ELSE convFiles[p]]
ApplyPending ==
    /\ dmFlush.taken /\ dmFlush' = NoWork
    /\ convFiles' = FilesAfter(dmFlush.deletes, dmFlush.writes)
    /\ UNCHANGED <<historyVars, inboxVars, sending, dmNow, dmAccepted, dmOps, dmFaults>>

(* What a failed flush had taken and not written is forgotten.              *)
ApplyPendingFailsQuietly ==
    /\ dmFlush.taken /\ dmFlush' = NoWork
    /\ dmFaults < MaxDmFaults /\ dmFaults' = dmFaults + 1
    /\ UNCHANGED <<historyVars, convFiles, inboxVars, sending, dmNow, dmAccepted, dmOps>>

(* The first error ends the work; mark_all_dirty queues every conversation. *)
ApplyPendingFails ==
    /\ dmFlush.taken /\ dmFlush' = NoWork
    /\ dmFaults < MaxDmFaults /\ dmFaults' = dmFaults + 1
    /\ \E deleted \in SUBSET dmFlush.deletes, written \in SUBSET dmFlush.writes :
          /\ written # {} => deleted = dmFlush.deletes
          /\ deleted # dmFlush.deletes \/ written # dmFlush.writes
          /\ convFiles' = FilesAfter(deleted, written)
    /\ dirty' = dirty \cup Existing(convs)
    /\ UNCHANGED <<convs, removed, inboxVars, sending, dmNow, dmAccepted, dmOps>>

(* A restart loads the files, the most recently updated ones at the cap;     *)
(* the replay cache and the counters start empty.                            *)
DmRestart ==
    /\ dmFaults < MaxDmFaults /\ dmFaults' = dmFaults + 1
    /\ \E loaded \in SUBSET Existing(convFiles) :
          /\ Cardinality(loaded) = Min({MaxConversations, Cardinality(Existing(convFiles))})
          /\ \A p \in loaded, q \in Existing(convFiles) \ loaded :
                convFiles[p].updated >= convFiles[q].updated
          /\ convs' = [p \in DmPeer |-> IF p \in loaded THEN convFiles[p] ELSE NoConv]
    /\ dirty' = {} /\ removed' = {} /\ dmFlush' = NoWork
    /\ dedupe' = <<>> /\ senderCount' = [p \in DmPeer |-> 0] /\ globalCount' = 0
    /\ sending' = [p \in DmPeer |-> NotSending]
    /\ dmAccepted' = [m \in DmWire |-> 0]
    /\ UNCHANGED <<convFiles, dmNow, dmOps>>

(* A window of the rate limiter passes.                                     *)
DmTick ==
    /\ dmNow < MaxDmTime /\ dmNow' = dmNow + 1
    /\ senderCount' = [p \in DmPeer |-> 0] /\ globalCount' = 0
    /\ UNCHANGED <<historyVars, convFiles, dmFlush, dedupe, sending, dmAccepted, dmOps, dmFaults>>

DmNext ==
    \/ \E m \in DmWire : InboundMessage(m) \/ InboundForged(m)
    \/ \E p \in DmPeer :
          \/ \E id \in DmOwnId : InboundAck(p, id) \/ \E ok \in BOOLEAN : SendRoutes(p, id, ok)
          \/ SendRecords(p) \/ MarkRead(p) \/ ClearConv(p)
    \/ FlushTakesWork \/ ApplyPending \/ ApplyPendingFails \/ DmRestart \/ DmTick

DmSpec == DmInit /\ [][DmNext]_dmVars

-----------------------------------------------------------------------------
(* Types of the state: history, replay cache and counters are within caps.    *)
DmTypeOK ==
    /\ Cardinality(Existing(convs)) <= MaxConversations
    /\ \A p \in DmPeer : Len(convs[p].messages) <= MaxMessages
    /\ dirty \subseteq DmPeer /\ removed \subseteq DmPeer
    /\ Len(dedupe) <= DedupeMax /\ globalCount <= GlobalPerWindow

(* No message twice (process_inbound, Dedupe): while the daemon runs, a       *)
(* signed message is accepted at most once however often it is sent again -   *)
(* after its conversation was trimmed, evicted or cleared, at the edge of the *)
(* clock skew and with a full replay cache.                                   *)
DmOnce == \A m \in DmWire : dmAccepted[m] <= 1

(* Conversations reach the disk (flush, mark_all_dirty): when no work is      *)
(* queued or under way, the file of every conversation holds it as it is in   *)
(* memory, whichever writes failed and whatever changed while they ran.       *)
ConversationsSaved ==
    (~dmFlush.taken /\ dirty = {} /\ removed = {})
        => \A p \in Existing(convs) : convFiles[p] = convs[p]

(* Cleared conversations are deleted: when no work is queued or under way a   *)
(* conversation that is gone has no file ("Writes dirty conversations (and    *)
(* deletes cleared ones).", dm/mod.rs:180; "persisting history failed; will   *)
(* retry", dm/mod.rs:194).                                                    *)
ClearedDeleted ==
    (~dmFlush.taken /\ dirty = {} /\ removed = {})
        => \A p \in DmPeer : convFiles[p].exists => convs[p].exists
=============================================================================
