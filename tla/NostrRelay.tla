------------------------------ MODULE NostrRelay ------------------------------
(* The core of the Nostr relay: the bounded store and its log               *)
(* (src/src/nostr/store.rs), the path every submitted event takes and the   *)
(* flush task (src/src/nostr/mod.rs), and one WebSocket connection with a   *)
(* subscription that matches everything (src/src/nostr/server.rs).          *)
(*                                                                          *)
(* An event is its id, its time, its author, its class, the address it      *)
(* replaces (or NoAddress) and the ids and addresses it asks to delete.     *)
(* Event ids are ordered as the store orders them.  No event expires, and   *)
(* a query's max_limit is not below the store's capacity.                   *)
EXTENDS Naturals, Sequences, FiniteSets, SequencesExt

CONSTANTS
    NostrEvent,      \* the events clients and peers submit
    NoAddress,       \* the address of an event that replaces none
    Submitter,       \* threads inside Relay::submit
    MaxEvents,       \* StoreLimits.max_events
    CompactionSlack, \* the 1000 of compaction_threshold
    SeenCapacity,    \* SEEN_CAPACITY
    LiveBuffer,      \* LIVE_BUFFER
    MaxSubmits,      \* bound on submissions
    MaxNostrFaults,  \* bound on failed flushes and crashes
    MaxConnects      \* bound on connections

ASSUME NostrAssumption ==
    /\ {MaxEvents, SeenCapacity, LiveBuffer} \subseteq Nat \ {0}
    /\ {CompactionSlack, MaxSubmits, MaxNostrFaults, MaxConnects} \subseteq Nat
    /\ \A e \in NostrEvent : /\ e.id \in Nat /\ e.time \in Nat
                             /\ e.class \in {"regular", "ephemeral", "replaceable", "deletion"}
                             /\ e.class = "replaceable" <=> e.address # NoAddress

VARIABLES
    store,       \* the Store
    eventLog,    \* events.jsonl: its lines, and whether the last one is torn
    flushing,    \* the Pending flush has taken, or that writing it failed
    seen,        \* Seen.order
    submits,     \* what each submitting thread is doing
    client,      \* the connection: its live receiver, its subscription, what it was sent
    submitted, nostrFaults, connects    \* counters of the bounds

nostrVars == <<store, eventLog, flushing, seen, submits, client, submitted, nostrFaults,
               connects>>

NoFlush == [state |-> "none"]
FailedFlush == [state |-> "failed"]
Idle == [pc |-> "idle"]
NoClient == [state |-> "closed", live |-> <<>>, lagged |-> FALSE, found |-> {}, sent |-> {}]

(* Log lines: Line::Ev and Line::Del. *)
EvLine(e) == [ev |-> e]
DelLine(e) == [del |-> e.id]

-----------------------------------------------------------------------------
(* The store.  by_time and addresses are indexes of events: they are the     *)
(* order and the choice below.                                               *)

Older(a, b) == a.time < b.time \/ (a.time = b.time /\ a.id < b.id)
Chronological(S) == SetToSortSeq(S, Older)
AtAddress(s, address) == {e \in s.events : e.address = address}

(* Fifo::insert: a key that is present keeps its place, a full table drops   *)
(* its oldest key.                                                           *)
FifoInsert(fifo, key, value) ==
    IF \E i \in DOMAIN fifo : fifo[i].key = key
    THEN [i \in DOMAIN fifo |-> IF fifo[i].key = key THEN [key |-> key, value |-> value]
                                ELSE fifo[i]]
    ELSE Append(IF Len(fifo) >= MaxEvents THEN Tail(fifo) ELSE fifo,
                [key |-> key, value |-> value])
FifoValues(fifo, key) == {fifo[i].value : i \in {j \in DOMAIN fifo : fifo[j].key = key}}

CompactionThreshold(s) == 2 * Cardinality(s.events) + CompactionSlack

MarkAllDirty(s) == IF s.persistent THEN [s EXCEPT !.rewrite = TRUE, !.pending = <<>>] ELSE s

(* record: a log that has grown too long is rewritten instead of extended.  *)
Record(s, line) ==
    LET longer == [s EXCEPT !.logLines = @ + 1]
    IN  IF ~s.persistent THEN s
        ELSE IF longer.logLines > CompactionThreshold(s) THEN MarkAllDirty(longer)
        ELSE IF s.rewrite THEN longer
        ELSE [longer EXCEPT !.pending = Append(@, line)]

RemoveEvent(s, e) ==
    IF e \in s.events THEN Record([s EXCEPT !.events = @ \ {e}], DelLine(e)) ELSE s

RemoveAll(s, S) == FoldLeft(RemoveEvent, s, Chronological(S))

(* delete_requested, one e tag: the author's event goes, and is kept out.   *)
DeleteId(s, request, id) ==
    LET victims == {e \in s.events : /\ e.id = id /\ e.author = request.author
                                     /\ e.class # "deletion"}
    IN  [RemoveAll(s, victims) EXCEPT
            !.deletedIds = FifoInsert(@, <<id, request.author>>, TRUE)]

(* delete_requested, one a tag: versions up to the request's time go.       *)
DeleteAddress(s, request, address) ==
    LET victims == {e \in AtAddress(s, address) : e.time <= request.time}
        times == FifoValues(s.deletedAddresses, address)
        latest == IF \E t \in times : t > request.time THEN CHOOSE t \in times : TRUE
                  ELSE request.time
    IN  [RemoveAll(s, victims) EXCEPT
            !.deletedAddresses = FifoInsert(@, address, latest)]

DeleteRequested(s, request) ==
    LET ids == FoldLeft(LAMBDA acc, id : DeleteId(acc, request, id), s, request.deletes)
    IN  FoldLeft(LAMBDA acc, a : DeleteAddress(acc, request, a), ids,
                 request.deletesAddresses)

(* The capacity loop of insert: the oldest event leaves, even the new one.  *)
EvictOldest(s) ==
    IF Cardinality(s.events) <= MaxEvents THEN s
    ELSE RemoveEvent(s, Head(Chronological(s.events)))

(* insert: the outcome, and the store it leaves.                            *)
InsertOutcome(s, e) ==
    CASE e \in s.events -> "duplicate"
      [] e.class = "ephemeral" -> "ephemeral"
      [] e.class # "deletion" /\ FifoValues(s.deletedIds, <<e.id, e.author>>) # {} -> "deleted"
      [] e.address # NoAddress
            /\ \E t \in FifoValues(s.deletedAddresses, e.address) : t >= e.time -> "deleted"
      [] e.address # NoAddress
            /\ \E old \in AtAddress(s, e.address) :
                  old.time > e.time \/ (old.time = e.time /\ old.id < e.id) -> "obsolete"
      [] OTHER -> "stored"

Insert(s, e) ==
    IF InsertOutcome(s, e) # "stored" THEN s
    ELSE LET replaced == IF e.address = NoAddress THEN s
                         ELSE RemoveAll(s, AtAddress(s, e.address))
             applied == IF e.class = "deletion" THEN DeleteRequested(replaced, e)
                        ELSE replaced
         IN  EvictOldest(Record([applied EXCEPT !.events = @ \cup {e}], EvLine(e)))

EmptyStore == [events |-> {}, deletedIds |-> <<>>, deletedAddresses |-> <<>>,
               persistent |-> FALSE, pending |-> <<>>, logLines |-> 0, rewrite |-> FALSE]

(* open, one line: anything but an event that adds one asks for a rewrite.  *)
ReplayLine(s, line) ==
    LET counted == [s EXCEPT !.logLines = @ + 1]
    IN  IF "del" \in DOMAIN line
        THEN [RemoveAll(counted, {e \in s.events : e.id = line.del}) EXCEPT !.rewrite = TRUE]
        ELSE IF "ev" \in DOMAIN line
        THEN LET next == Insert(counted, line.ev)
             IN  [next EXCEPT !.rewrite = @
                     \/ InsertOutcome(s, line.ev) # "stored"
                     \/ Cardinality(next.events) # Cardinality(s.events) + 1]
        ELSE [counted EXCEPT !.rewrite = TRUE]

Open(log) ==
    LET replayed == FoldLeft(ReplayLine, EmptyStore, log.lines)
    IN  [replayed EXCEPT !.persistent = TRUE, !.rewrite = @ \/ log.torn]

(* take_pending: the lines to append, or every event in time order.         *)
TakePending(s) ==
    LET rewrite == s.rewrite \/ s.logLines > CompactionThreshold(s)
        snapshot == LET q == Chronological(s.events) IN [i \in DOMAIN q |-> EvLine(q[i])]
    IN  [store |-> [s EXCEPT !.rewrite = FALSE, !.pending = <<>>,
                             !.logLines = IF rewrite THEN Cardinality(s.events) ELSE @],
         taken |-> [state |-> "taken", rewrite |-> rewrite,
                   lines |-> IF rewrite THEN snapshot ELSE s.pending]]

-----------------------------------------------------------------------------
NostrInit ==
    /\ store = Open([lines |-> <<>>, torn |-> FALSE])
    /\ eventLog = [lines |-> <<>>, torn |-> FALSE]
    /\ flushing = NoFlush /\ seen = <<>>
    /\ submits = [t \in Submitter |-> Idle]
    /\ client = NoClient
    /\ submitted = 0 /\ nostrFaults = 0 /\ connects = 0

(* submit_inner looks the id up in Seen and in the store, under one lock     *)
(* after the other; a known event is answered and nothing else happens.      *)
SubmitStarts(t, e) ==
    /\ submits[t] = Idle /\ submitted < MaxSubmits /\ submitted' = submitted + 1
    /\ ~Contains(seen, e.id) /\ e \notin store.events
    /\ submits' = [submits EXCEPT ![t] = [pc |-> "insert", ev |-> e]]
    /\ UNCHANGED <<store, eventLog, flushing, seen, client, nostrFaults, connects>>

(* After the signature and the policy checks the store decides.             *)
SubmitInserts(t) ==
    LET e == submits[t].ev
    IN  /\ submits[t].pc = "insert"
        /\ store' = Insert(store, e)
        /\ submits' = [submits EXCEPT ![t] =
               IF InsertOutcome(store, e) \in {"stored", "ephemeral"}
               THEN [pc |-> "fan out", ev |-> e] ELSE Idle]
        /\ UNCHANGED <<eventLog, flushing, seen, client, submitted, nostrFaults, connects>>

(* Seen::insert *)
SeenInsert(id) ==
    IF Contains(seen, id) THEN seen
    ELSE Append(IF Len(seen) >= SeenCapacity THEN Tail(seen) ELSE seen, id)

(* broadcast::Sender::send: a receiver that is full loses its oldest event. *)
LiveSend(c, e) ==
    IF c.state = "closed" THEN c
    ELSE IF Len(c.live) < LiveBuffer THEN [c EXCEPT !.live = Append(@, e)]
    ELSE [c EXCEPT !.live = Append(Tail(@), e), !.lagged = TRUE]

SubmitFansOut(t) ==
    /\ submits[t].pc = "fan out"
    /\ seen' = SeenInsert(submits[t].ev.id)
    /\ client' = LiveSend(client, submits[t].ev)
    /\ submits' = [submits EXCEPT ![t] = Idle]
    /\ UNCHANGED <<store, eventLog, flushing, submitted, nostrFaults, connects>>

-----------------------------------------------------------------------------
(* flush takes the pending lines under the lock and writes without it.      *)
FlushTakes ==
    LET p == TakePending(store)
    IN  /\ flushing = NoFlush
        /\ store' = p.store
        /\ p.taken.rewrite \/ p.taken.lines # <<>>
        /\ flushing' = p.taken
        /\ UNCHANGED <<eventLog, seen, submits, client, submitted, nostrFaults, connects>>

(* Lines appended after a torn line: the first of them is joined to it.     *)
AppendLines(log, lines) ==
    IF log.torn /\ lines # <<>>
    THEN [lines |-> log.lines \o <<[garbled |-> TRUE]>> \o Tail(lines), torn |-> FALSE]
    ELSE [lines |-> log.lines \o lines, torn |-> FALSE]

(* Pending::apply: an atomic replacement or an append.                      *)
FlushApplies ==
    /\ flushing.state = "taken"
    /\ eventLog' = IF flushing.rewrite THEN [lines |-> flushing.lines, torn |-> FALSE]
                   ELSE AppendLines(eventLog, flushing.lines)
    /\ flushing' = NoFlush
    /\ UNCHANGED <<store, seen, submits, client, submitted, nostrFaults, connects>>

(* apply fails: a rewrite leaves the old file, an append any part of it.    *)
FlushApplyFails ==
    /\ flushing.state = "taken"
    /\ nostrFaults < MaxNostrFaults /\ nostrFaults' = nostrFaults + 1
    /\ \/ flushing.rewrite /\ UNCHANGED eventLog
       \/ /\ ~flushing.rewrite
          /\ \E n \in 0..Len(flushing.lines), torn \in BOOLEAN :
                /\ torn => n < Len(flushing.lines)
                /\ LET part == AppendLines(eventLog, SubSeq(flushing.lines, 1, n))
                   IN  eventLog' = [part EXCEPT !.torn = @ \/ torn]
    /\ flushing' = FailedFlush
    /\ UNCHANGED <<store, seen, submits, client, submitted, connects>>

(* The error is only reported: the lines taken are gone.                    *)
FlushFailedForgets ==
    /\ flushing = FailedFlush /\ flushing' = NoFlush
    /\ UNCHANGED <<store, eventLog, seen, submits, client, submitted, nostrFaults, connects>>

(* flush schedules a rewrite of everything.                                 *)
FlushFailed ==
    /\ flushing = FailedFlush /\ flushing' = NoFlush
    /\ store' = MarkAllDirty(store)
    /\ UNCHANGED <<eventLog, seen, submits, client, submitted, nostrFaults, connects>>

(* The daemon stops at any point and opens the log again.                   *)
NostrRestart ==
    /\ nostrFaults < MaxNostrFaults /\ nostrFaults' = nostrFaults + 1
    /\ store' = Open(eventLog)
    /\ flushing' = NoFlush /\ seen' = <<>> /\ client' = NoClient
    /\ submits' = [t \in Submitter |-> Idle]
    /\ UNCHANGED <<eventLog, submitted, connects>>

-----------------------------------------------------------------------------
(* handle_connection subscribes to the live feed when the socket opens.     *)
Connects ==
    /\ client.state = "closed" /\ connects < MaxConnects /\ connects' = connects + 1
    /\ client' = [NoClient EXCEPT !.state = "open"]
    /\ UNCHANGED <<store, eventLog, flushing, seen, submits, submitted, nostrFaults>>

(* REQ: the stored events are collected.                                    *)
ReqQueries ==
    /\ client.state = "open"
    /\ client' = [client EXCEPT !.state = "queried", !.found = store.events]
    /\ UNCHANGED <<store, eventLog, flushing, seen, submits, submitted, nostrFaults, connects>>

(* The live receiver is made when the subscription is.                      *)
ReqSubscribesLate ==
    /\ client.state = "queried"
    /\ client' = [client EXCEPT !.state = "subscribed", !.sent = @ \cup client.found,
                                !.found = {}, !.live = <<>>]
    /\ UNCHANGED <<store, eventLog, flushing, seen, submits, submitted, nostrFaults, connects>>

(* The subscription is registered and the collected events are sent.        *)
ReqSubscribes ==
    /\ client.state = "queried"
    /\ client' = [client EXCEPT !.state = "subscribed", !.sent = @ \cup client.found,
                                !.found = {}]
    /\ UNCHANGED <<store, eventLog, flushing, seen, submits, submitted, nostrFaults, connects>>

(* The websocket loop takes a live event and sends it to the subscription.  *)
LiveReceives ==
    /\ client.state \in {"open", "subscribed"} /\ client.live # <<>>
    /\ client' = [client EXCEPT !.live = Tail(@),
                     !.sent = IF client.state = "subscribed" THEN @ \cup {Head(client.live)}
                              ELSE @]
    /\ UNCHANGED <<store, eventLog, flushing, seen, submits, submitted, nostrFaults, connects>>

(* CLOSE drops the subscription; a closed socket drops the session.         *)
ReqCloses ==
    /\ client.state = "subscribed"
    /\ client' = [client EXCEPT !.state = "open", !.sent = {}]
    /\ UNCHANGED <<store, eventLog, flushing, seen, submits, submitted, nostrFaults, connects>>
Disconnects ==
    /\ client.state \in {"open", "subscribed"} /\ client' = NoClient
    /\ UNCHANGED <<store, eventLog, flushing, seen, submits, submitted, nostrFaults, connects>>

NostrNext ==
    \/ \E t \in Submitter, e \in NostrEvent : SubmitStarts(t, e)
    \/ \E t \in Submitter : SubmitInserts(t) \/ SubmitFansOut(t)
    \/ FlushTakes \/ FlushApplies \/ FlushApplyFails \/ FlushFailed \/ NostrRestart
    \/ Connects \/ ReqQueries \/ ReqSubscribes \/ LiveReceives \/ ReqCloses \/ Disconnects

NostrSpec == NostrInit /\ [][NostrNext]_nostrVars

-----------------------------------------------------------------------------
(* Types of the state: events, tombstones and buffers are within caps.       *)
NostrTypeOK ==
    /\ store.events \subseteq NostrEvent /\ Cardinality(store.events) <= MaxEvents
    /\ Len(store.deletedIds) <= MaxEvents /\ Len(store.deletedAddresses) <= MaxEvents
    /\ store.persistent /\ store.logLines \in Nat /\ store.rewrite \in BOOLEAN
    /\ Len(seen) <= SeenCapacity
    /\ Len(client.live) <= LiveBuffer /\ client.sent \subseteq NostrEvent

(* The log is the store (store.rs open, take_pending, apply): whenever       *)
(* nothing waits to be written and no write is under way, opening the log    *)
(* gives the events the relay serves - after replacements, deletions,        *)
(* evictions, compactions, failed appends and restarts, with submissions     *)
(* between the taking of the lines and their writing.                        *)
LogIsStore ==
    (flushing = NoFlush /\ store.pending = <<>> /\ ~store.rewrite)
        => Open(eventLog).events = store.events

(* No gap between stored and live (server.rs text, websocket): a             *)
(* subscription that did not fall behind the live buffer was sent every      *)
(* event the relay keeps, or will be: the event is in the connection's live  *)
(* feed or the thread that stored it has not fanned it out yet.              *)
NothingMissed ==
    (client.state = "subscribed" /\ ~client.lagged)
        => \A e \in store.events :
              \/ e \in client.sent \cup Range(client.live)
              \/ \E t \in Submitter : submits[t] = [pc |-> "fan out", ev |-> e]
=============================================================================
