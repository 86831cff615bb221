------------------------------- MODULE NostrMesh -------------------------------
(* The cluster of Nostr relays in one room (src/src/nostr/mesh.rs): relays    *)
(* hand the events they accept to the leader the consensus module names, the  *)
(* leader numbers and redistributes them, followers notice gaps in the        *)
(* numbers and fetch or synchronize, and every relay pulls from time to time. *)
(*                                                                            *)
(* An event is its created_at (a page never holds one second only: several    *)
(* events of one second are one).  Deadlines pass at any time.  Peers are     *)
(* admitted, and the leader a relay sees may change at any time, on its own.  *)
EXTENDS Naturals, Sequences, FiniteSets, SequencesExt, FiniteSetsExt

CONSTANTS
    RelayNode,       \* the relays of the room
    NoLeader,        \* consensus names no leader
    MaxTime,         \* events are 1..MaxTime, published in that order
    Publisher,       \* relays whose clients publish
    Puller,          \* relays that start with peers present and whose ten-minute tick comes
    FirstLeader,     \* the leader elected when the relays start, or NoLeader
    CatchUpFrom,     \* the times catch_up_since may return
    PageEvents,      \* MAX_PAGE_EVENTS
    SessionPages,    \* MAX_SESSION_PAGES
    RingEntries,     \* RING_ENTRIES
    MeshBuffer,      \* MESH_BUFFER
    InboundCap,      \* the 256 of the inbound channel
    MaxLeaderChanges,\* bound on the changes of the leader a relay sees
    MaxMeshDrops     \* bound on messages the rate limits drop

ASSUME NostrMeshAssumption ==
    /\ {PageEvents, SessionPages, RingEntries, MeshBuffer, InboundCap} \subseteq Nat \ {0}
    /\ {MaxTime, MaxLeaderChanges, MaxMeshDrops} \subseteq Nat
    /\ NoLeader \notin RelayNode
    /\ Publisher \subseteq RelayNode /\ Puller \subseteq RelayNode
    /\ FirstLeader \in RelayNode \cup {NoLeader} /\ CatchUpFrom \subseteq 0..MaxTime

VARIABLES
    held,        \* the events each relay stores
    outbound,    \* Fresh events waiting to be distributed
    inbound,     \* received messages waiting to be processed
    leaderView,  \* what consensus.leader() returns at each relay
    rooms,       \* the RoomState of each relay
    sessions,    \* sync sessions of each relay, per peer
    joins,       \* peers that joined and were not asked yet
    tracked,     \* history: the numbers a follower has received, or given to a sync
    leaderChanges, meshDrops      \* counters of the bounds

meshVars == <<held, outbound, inbound, leaderView, rooms, sessions, joins, tracked,
              leaderChanges, meshDrops>>

MeshEvent == 1..MaxTime
NoFetch == [next |-> 0, end |-> 0, seen |-> {}, resync |-> FALSE]
NoSession == [since |-> 0, until |-> 0, pages |-> 0, inPage |-> 0, due |-> FALSE,
              open |-> FALSE]
NoEpoch == <<NoLeader, 0>>
FreshTracker == [epoch |-> NoEpoch, next |-> 0, fetch |-> NoFetch]

(* route *)
Route(leader, self, origin) ==
    CASE leader = self -> "sequence"
      [] leader = NoLeader -> IF origin # self THEN "skip" ELSE "broadcast"
      [] OTHER -> IF origin = leader THEN "skip" ELSE "forward"

-----------------------------------------------------------------------------
(* Ring and Sequencer.                                                      *)
RingPush(ring, entry) ==
    Append(IF Len(ring) >= RingEntries THEN Tail(ring) ELSE ring, entry)

RingFetch(ring, from) ==
    LET later == SelectSeq(ring, LAMBDA x : x.n >= from)
    IN  IF ring = <<>> \/ from < Head(ring).n THEN <<>>
        ELSE SubSeq(later, 1, Min({Len(later), PageEvents}))

(* RoomState::update: another leader means another epoch and a new tracker. *)
UpdateRoom(r, leader, self) ==
    IF r.leader = leader THEN r
    ELSE [leader |-> leader, tracker |-> FreshTracker, aggregate |-> leader = self,
          epochs |-> IF leader = self THEN r.epochs + 1 ELSE r.epochs,
          last |-> 0, ring |-> <<>>]
Refreshed(n) == UpdateRoom(rooms[n], leaderView[n], n)
Epoch(n, r) == <<n, r.epochs>>

(* Tracker::on_seq while a fetch is pending.  A gap behind the one being     *)
(* fetched is not remembered.                                                *)
FetchProgressForgets(t, n) ==
    LET f == t.fetch
        got == f.seen \cup ({n} \cap (f.next .. f.end))
        upTo == Min({m \in f.next .. f.end + 1 : m \notin got})
    IN  IF f = NoFetch \/ upTo > f.end THEN NoFetch
        ELSE [f EXCEPT !.next = upTo, !.seen = {m \in got : m > upTo}]

(* Tracker::on_seq while a fetch is pending: the window shrinks as its       *)
(* numbers arrive; a number beyond the next one leaves a second gap, which   *)
(* only a sync can fill.                                                     *)
FetchProgress(t, n) ==
    LET f == t.fetch
        got == IF Cardinality(f.seen) < PageEvents THEN f.seen \cup ({n} \cap (f.next .. f.end))
               ELSE f.seen
        upTo == Min({m \in f.next .. f.end + 1 : m \notin got})
        resync == f.resync \/ n > t.next
    IN  IF f = NoFetch \/ (upTo > f.end /\ ~resync) THEN NoFetch
        ELSE [next |-> upTo, end |-> f.end, seen |-> {m \in got : m > upTo},
              resync |-> resync]

(* Tracker::on_seq: the tracker, and what it asks for.                      *)
OnSeq(t, epoch, n) ==
    IF t.epoch # epoch
    THEN [tracker |-> [epoch |-> epoch, next |-> n + 1, fetch |-> NoFetch], ask |-> "sync",
          first |-> 0]
    ELSE LET moved == [t EXCEPT !.fetch = FetchProgress(t, n), !.next = Max({@, n + 1})]
             gap == n > t.next /\ moved.fetch = NoFetch
             window == [next |-> t.next, end |-> n - 1, seen |-> {}, resync |-> FALSE]
         IN  [tracker |-> IF gap THEN [moved EXCEPT !.fetch = window] ELSE moved,
              ask |-> IF gap THEN "fetch" ELSE "none", first |-> t.next]

-----------------------------------------------------------------------------
(* Session: a page is accepted while the session waits for it and has room; *)
(* a cursor that moved down asks for the next page, later.                   *)
SessionAccepts(s, count) ==
    s.open /\ ~s.due /\ s.pages < SessionPages /\ s.inPage + count <= PageEvents
SessionFinish(s, batch) ==
    IF /\ batch.more /\ s.pages + 1 < SessionPages
       /\ batch.until >= s.since /\ (s.until = 0 \/ batch.until < s.until)
    THEN [s EXCEPT !.pages = @ + 1, !.until = batch.until, !.inPage = 0, !.due = TRUE]
    ELSE NoSession
SessionAfter(s, batch) ==
    LET accepted == [s EXCEPT !.inPage = @ + Cardinality(batch.evs)]
    IN  IF ~SessionAccepts(s, Cardinality(batch.evs)) THEN NoSession
        ELSE IF batch.more /\ batch.until = 0 THEN accepted
        ELSE SessionFinish(accepted, batch)

(* begin_sync: one session per peer.                                        *)
CanSync(n, p) == p \in RelayNode \ {n} /\ ~sessions[n][p].open
SessionFrom(since) == [NoSession EXCEPT !.open = TRUE, !.since = since]

Query(n, since, until) ==
    LET S == {e \in held[n] : e >= since /\ (until = 0 \/ e <= until)}
        q == SetToSortSeq(S, LAMBDA a, b : a > b)
    IN  Range(SubSeq(q, 1, Min({Len(q), PageEvents})))

(* pack_batches: the page in one message, or in one message per event, of   *)
(* which only the last carries the cursor; an empty page is no message.     *)
PackBatches(page, split) ==
    LET full == Cardinality(page) = PageEvents
        q == SetToSortSeq(page, LAMBDA a, b : a > b)
        cursor == IF full THEN Min(page) ELSE 0
    IN  IF page = {} THEN <<>>
        ELSE IF ~split THEN <<[op |-> "batch", evs |-> page, more |-> full, until |-> cursor]>>
        ELSE [i \in DOMAIN q |-> [op |-> "batch", evs |-> {q[i]},
                                  more |-> i < Len(q) \/ full,
                                  until |-> IF i < Len(q) THEN 0 ELSE cursor]]

(* The inbound channel drops what does not fit.                             *)
Queued(queue, from, msgs) ==
    SubSeq(queue \o [i \in DOMAIN msgs |-> [from |-> from] @@ msgs[i]], 1,
           Min({Len(queue) + Len(msgs), Max({InboundCap, Len(queue)})}))
SendTo(queues, from, to, msgs) == [queues EXCEPT ![to] = Queued(@, from, msgs)]
SendAll(queues, from, msgs) ==
    [m \in RelayNode |-> IF m = from THEN queues[m] ELSE Queued(queues[m], from, msgs)]
SyncMsg(since, until) == <<[op |-> "sync", since |-> since, until |-> until]>>

(* Relay::submit as the mesh sees it: a fresh event is stored and queued.   *)
Accepted(n, S) == held' = [held EXCEPT ![n] = @ \cup S]
Fresh(n, from, evs) ==
    LET new == SetToSeq(evs \ held[n])
        queue == outbound[n] \o [i \in DOMAIN new |-> [ev |-> new[i], origin |-> from]]
    IN  [outbound EXCEPT ![n] = SubSeq(queue, 1, Min({Len(queue), MeshBuffer}))]

-----------------------------------------------------------------------------
MeshInit ==
    /\ held = [n \in RelayNode |-> {}]
    /\ outbound = [n \in RelayNode |-> <<>>] /\ inbound = [n \in RelayNode |-> <<>>]
    /\ leaderView = [n \in RelayNode |-> FirstLeader]
    /\ rooms = [n \in RelayNode |->
                   [leader |-> NoLeader, tracker |-> FreshTracker, aggregate |-> FALSE,
                    epochs |-> 0, last |-> 0, ring |-> <<>>]]
    /\ sessions = [n \in RelayNode |-> [p \in RelayNode |-> NoSession]]
    /\ joins = [n \in RelayNode |-> IF n \in Puller THEN RelayNode \ {n} ELSE {}]
    /\ tracked = [n \in RelayNode |-> {}]
    /\ leaderChanges = 0 /\ meshDrops = 0

(* A client publishes an event at one relay.                                *)
ClientPublishes(n, e) ==
    /\ n \in Publisher /\ UNION {held[m] : m \in RelayNode} = 1 .. e - 1
    /\ Accepted(n, {e}) /\ outbound' = Fresh(n, n, {e})
    /\ UNCHANGED <<inbound, leaderView, rooms, sessions, joins, tracked, leaderChanges,
                   meshDrops>>

(* External (consensus): the leader a relay sees changes.                   *)
LeaderSeen(n, l) ==
    /\ leaderChanges < MaxLeaderChanges /\ leaderChanges' = leaderChanges + 1
    /\ leaderView[n] # l /\ leaderView' = [leaderView EXCEPT ![n] = l]
    /\ UNCHANGED <<held, outbound, inbound, rooms, sessions, joins, tracked, meshDrops>>

(* watch_leadership *)
WatchLeadership(n) ==
    /\ Refreshed(n) # rooms[n]
    /\ rooms' = [rooms EXCEPT ![n] = Refreshed(n)]
    /\ tracked' = [tracked EXCEPT ![n] = {}]
    /\ UNCHANGED <<held, outbound, inbound, leaderView, sessions, joins, leaderChanges,
                   meshDrops>>

(* tracked follows the tracker: a new one starts empty.                     *)
TrackedAfter(n, r) == IF r.tracker.epoch = rooms[n].tracker.epoch THEN tracked[n] ELSE {}

(* broadcast: the next fresh event is routed; a forward that fails is        *)
(* broadcast instead.                                                        *)
Distribute(n) ==
    LET fresh == Head(outbound[n])
        r == Refreshed(n)
        issued == [op |-> "seq", epoch |-> Epoch(n, r), n |-> r.last + 1, ev |-> fresh.ev]
        way == Route(r.leader, n, fresh.origin)
    IN  /\ outbound[n] # <<>>
        /\ outbound' = [outbound EXCEPT ![n] = Tail(@)]
        /\ tracked' = [tracked EXCEPT ![n] = TrackedAfter(n, r)]
        /\ \/ way = "skip" /\ rooms' = [rooms EXCEPT ![n] = r] /\ UNCHANGED inbound
           \/ /\ way = "sequence"
              /\ rooms' = [rooms EXCEPT ![n] = [r EXCEPT !.last = @ + 1,
                                                         !.ring = RingPush(@, issued)]]
              /\ inbound' = SendAll(inbound, n, <<issued>>)
           \/ /\ way = "forward" /\ rooms' = [rooms EXCEPT ![n] = r]
              /\ inbound' = SendTo(inbound, n, r.leader, <<[op |-> "fwd", ev |-> fresh.ev]>>)
           \/ /\ way \in {"forward", "broadcast"} /\ rooms' = [rooms EXCEPT ![n] = r]
              /\ inbound' = SendAll(inbound, n, <<[op |-> "ev", ev |-> fresh.ev]>>)
        /\ UNCHANGED <<held, leaderView, sessions, joins, leaderChanges, meshDrops>>

(* gate: a peer over its rate, or a contended lock, loses the message.      *)
GateDrops(n) ==
    /\ inbound[n] # <<>> /\ meshDrops < MaxMeshDrops /\ meshDrops' = meshDrops + 1
    /\ inbound' = [inbound EXCEPT ![n] = Tail(@)]
    /\ UNCHANGED <<held, outbound, leaderView, rooms, sessions, joins, tracked, leaderChanges>>

-----------------------------------------------------------------------------
(* process: one received message.                                           *)
Received(n, op) == inbound[n] # <<>> /\ Head(inbound[n]).op = op
Consumed(n) == [inbound EXCEPT ![n] = Tail(@)]

ProcessEvent(n) ==
    LET m == Head(inbound[n])
    IN  /\ Received(n, "ev") \/ Received(n, "fwd")
        /\ Accepted(n, {m.ev}) /\ outbound' = Fresh(n, m.from, {m.ev})
        /\ inbound' = Consumed(n)
        /\ UNCHANGED <<leaderView, rooms, sessions, joins, tracked, leaderChanges, meshDrops>>

(* A numbered event of the leader moves the tracker; its first number of an *)
(* epoch asks for what was missed, a gap asks the leader for the numbers.   *)
ProcessSequence(n) ==
    LET m == Head(inbound[n])
        r == Refreshed(n)
        out == OnSeq(r.tracker, m.epoch, m.n)
    IN  /\ Received(n, "seq")
        /\ Accepted(n, {m.ev}) /\ outbound' = Fresh(n, m.from, {m.ev})
        /\ \/ /\ r.leader # m.from
              /\ rooms' = [rooms EXCEPT ![n] = r] /\ inbound' = Consumed(n)
              /\ tracked' = [tracked EXCEPT ![n] = TrackedAfter(n, r)]
              /\ UNCHANGED sessions
           \/ /\ r.leader = m.from
              /\ rooms' = [rooms EXCEPT ![n] = [r EXCEPT !.tracker = out.tracker]]
              /\ tracked' = [tracked EXCEPT ![n] =
                     IF out.ask = "sync" THEN {m.n} ELSE @ \cup {m.n}]
              /\ \/ out.ask = "none" /\ inbound' = Consumed(n) /\ UNCHANGED sessions
                 \/ /\ out.ask = "fetch" /\ UNCHANGED sessions
                    /\ inbound' = SendTo(Consumed(n), n, m.from,
                           <<[op |-> "fetch", epoch |-> m.epoch, first |-> out.first]>>)
                 \/ /\ out.ask = "sync" /\ ~CanSync(n, m.from)
                    /\ inbound' = Consumed(n) /\ UNCHANGED sessions
                 \/ /\ out.ask = "sync" /\ CanSync(n, m.from)
                    /\ \E since \in CatchUpFrom :
                          /\ sessions' = [sessions EXCEPT ![n][m.from] = SessionFrom(since)]
                          /\ inbound' = SendTo(Consumed(n), n, m.from, SyncMsg(since, 0))
        /\ UNCHANGED <<leaderView, joins, leaderChanges, meshDrops>>

ProcessFetch(n) ==
    LET m == Head(inbound[n])
        r == Refreshed(n)
        again == IF leaderView[n] = n /\ m.epoch = Epoch(n, r) THEN RingFetch(r.ring, m.first)
                 ELSE <<>>
    IN  /\ Received(n, "fetch")
        /\ inbound' = SendTo(Consumed(n), n, m.from, again)
        /\ rooms' = [rooms EXCEPT ![n] = IF leaderView[n] = n THEN r ELSE @]
        /\ tracked' = [tracked EXCEPT ![n] = IF leaderView[n] = n THEN TrackedAfter(n, r) ELSE @]
        /\ UNCHANGED <<held, outbound, leaderView, sessions, joins, leaderChanges, meshDrops>>

ProcessSync(n) ==
    LET m == Head(inbound[n])
    IN  /\ Received(n, "sync")
        /\ \E split \in BOOLEAN :
              inbound' = SendTo(Consumed(n), n, m.from,
                                PackBatches(Query(n, m.since, m.until), split))
        /\ UNCHANGED <<held, outbound, leaderView, rooms, sessions, joins, tracked,
                       leaderChanges, meshDrops>>

ProcessBatch(n) ==
    LET m == Head(inbound[n])
        s == sessions[n][m.from]
        evs == IF SessionAccepts(s, Cardinality(m.evs)) THEN m.evs ELSE {}
    IN  /\ Received(n, "batch")
        /\ sessions' = [sessions EXCEPT ![n][m.from] = SessionAfter(s, m)]
        /\ Accepted(n, evs) /\ outbound' = Fresh(n, m.from, evs)
        /\ inbound' = Consumed(n)
        /\ UNCHANGED <<leaderView, rooms, joins, tracked, leaderChanges, meshDrops>>

Receive(n) == \/ ProcessEvent(n) \/ ProcessSequence(n) \/ ProcessFetch(n)
              \/ ProcessSync(n) \/ ProcessBatch(n)

-----------------------------------------------------------------------------
(* synchronize.                                                             *)
BeginSync(n, p, since) ==
    \/ /\ CanSync(n, p)
       /\ sessions' = [sessions EXCEPT ![n][p] = SessionFrom(since)]
       /\ inbound' = SendTo(inbound, n, p, SyncMsg(since, 0))
    \/ ~CanSync(n, p) /\ UNCHANGED <<sessions, inbound>>

(* leadership_replies: a new leader asks every relay for what it missed.    *)
LeadershipReplies(n) ==
    LET r == Refreshed(n)
        asked == {p \in RelayNode : CanSync(n, p)}
    IN  /\ r.aggregate
        /\ rooms' = [rooms EXCEPT ![n] = [r EXCEPT !.aggregate = FALSE]]
        /\ tracked' = [tracked EXCEPT ![n] = TrackedAfter(n, r)]
        /\ \E since \in CatchUpFrom :
              /\ sessions' = [sessions EXCEPT ![n] =
                     [p \in RelayNode |-> IF p \in asked THEN SessionFrom(since) ELSE @[p]]]
              /\ inbound' = [p \in RelayNode |-> IF p \in asked
                     THEN Queued(inbound[p], n, SyncMsg(since, 0)) ELSE inbound[p]]
        /\ UNCHANGED <<held, outbound, leaderView, joins, leaderChanges, meshDrops>>

(* Tracker::expired: the numbers that did not come are left to a sync.      *)
FetchExpires(n) ==
    LET t == rooms[n].tracker
    IN  /\ t.fetch # NoFetch
        /\ rooms' = [rooms EXCEPT ![n].tracker.fetch = NoFetch]
        /\ tracked' = [tracked EXCEPT ![n] = Min(@) .. t.next - 1]
        /\ BeginSync(n, rooms[n].leader, 0)
        /\ UNCHANGED <<held, outbound, leaderView, joins, leaderChanges, meshDrops>>

JoinDue(n, p) ==
    /\ p \in joins[n] /\ joins' = [joins EXCEPT ![n] = @ \ {p}]
    /\ BeginSync(n, IF leaderView[n] \in RelayNode \ {n} THEN leaderView[n] ELSE p, 0)
    /\ UNCHANGED <<held, outbound, leaderView, rooms, tracked, leaderChanges, meshDrops>>

(* continuations: the next page of a session is asked for.                  *)
Continuation(n, p) ==
    LET s == sessions[n][p]
    IN  /\ s.open /\ s.due
        /\ sessions' = [sessions EXCEPT ![n][p].due = FALSE]
        /\ inbound' = SendTo(inbound, n, p, SyncMsg(s.since, s.until))
        /\ UNCHANGED <<held, outbound, leaderView, rooms, joins, tracked, leaderChanges,
                       meshDrops>>

(* A session ends SESSION_TTL after its last request; an answer that comes   *)
(* at all comes sooner.                                                      *)
Answering(n, p) ==
    \/ \E i \in DOMAIN inbound[p] : inbound[p][i].op = "sync" /\ inbound[p][i].from = n
    \/ \E i \in DOMAIN inbound[n] : inbound[n][i].op = "batch" /\ inbound[n][i].from = p
SessionNeverExpires(n, p) == FALSE /\ UNCHANGED meshVars
SessionExpires(n, p) ==
    /\ sessions[n][p].open /\ ~sessions[n][p].due /\ ~Answering(n, p)
    /\ sessions' = [sessions EXCEPT ![n][p] = NoSession]
    /\ UNCHANGED <<held, outbound, inbound, leaderView, rooms, joins, tracked, leaderChanges,
                   meshDrops>>

(* Every ten minutes a relay pulls from the leader, or from any peer.       *)
AntiEntropy(n) ==
    /\ n \in Puller
    /\ \E p \in RelayNode \ {n} :
          /\ leaderView[n] \in RelayNode \ {n} => p = leaderView[n]
          /\ CanSync(n, p) /\ BeginSync(n, p, 0)
    /\ UNCHANGED <<held, outbound, leaderView, rooms, joins, tracked, leaderChanges, meshDrops>>

MeshStep(n) ==
    \/ WatchLeadership(n) \/ Distribute(n) \/ Receive(n) \/ LeadershipReplies(n)
    \/ FetchExpires(n) \/ AntiEntropy(n)
    \/ \E p \in RelayNode : JoinDue(n, p) \/ Continuation(n, p) \/ SessionExpires(n, p)

MeshNext ==
    \E n \in RelayNode :
        \/ \E e \in MeshEvent : ClientPublishes(n, e)
        \/ \E l \in RelayNode \cup {NoLeader} : LeaderSeen(n, l)
        \/ GateDrops(n) \/ MeshStep(n)

MeshSpec == MeshInit /\ [][MeshNext]_meshVars

(* The receive and broadcast tasks run while they have work; the one-second *)
(* and the ten-minute tick of synchronize come again and again, so a        *)
(* deadline that has passed is noticed.                                     *)
MeshFairSpec ==
    /\ MeshSpec
    /\ \A n \in RelayNode :
          /\ WF_meshVars(Receive(n)) /\ WF_meshVars(Distribute(n)) /\ WF_meshVars(AntiEntropy(n))
          /\ \A p \in RelayNode : /\ WF_meshVars(Continuation(n, p))
                                  /\ WF_meshVars(SessionExpires(n, p))

-----------------------------------------------------------------------------
(* Types of the state: queues, the ring and sessions are within caps.        *)
MeshTypeOK ==
    \A n \in RelayNode :
        /\ held[n] \subseteq MeshEvent
        /\ Len(outbound[n]) <= MeshBuffer /\ Len(inbound[n]) <= InboundCap
        /\ leaderView[n] \in RelayNode \cup {NoLeader}
        /\ rooms[n].leader \in RelayNode \cup {NoLeader} /\ Len(rooms[n].ring) <= RingEntries
        /\ \A p \in RelayNode : sessions[n][p].pages <= SessionPages

(* No gap is forgotten (Tracker::on_seq, expired): of the leader's numbers   *)
(* between the first a follower saw and the next it expects, the ones that   *)
(* never came are all inside the window being fetched, or the tracker has    *)
(* noted that a sync must follow - through duplicates, answers to a fetch    *)
(* that come late or partly, further gaps and changes of leader.             *)
GapsCovered ==
    \A n \in RelayNode :
        LET t == rooms[n].tracker
            missing == IF tracked[n] = {} THEN {} ELSE (Min(tracked[n]) .. t.next - 1) \ tracked[n]
        IN  missing = {} \/ t.fetch.resync \/ missing \subseteq t.fetch.next .. t.fetch.end

(* Every relay gets every event (synchronize): an event a client published   *)
(* at any relay is in time stored by all of them, whatever the queues and    *)
(* the rate limits dropped.                                                  *)
RelaysConverge ==
    \A e \in MeshEvent :
        (\E n \in RelayNode : e \in held[n]) ~> (\A n \in RelayNode : e \in held[n])
=============================================================================
