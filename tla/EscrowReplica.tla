----------------------------- MODULE EscrowReplica -----------------------------
(***************************************************************************)
(* Durable replication of one escrow room                                  *)
(* (src/src/escrow/replication/mod.rs, engine.rs, archive.rs, snapshots.rs)*)
(*                                                                         *)
(* Each member keeps a Raft log with a compacted prefix, the room state    *)
(* applied up to the commit index, and an archive of encrypted generations *)
(* that the log, the snapshot and the state refer to by signed head.  The  *)
(* Raft decision procedure is the external mistlib-consensus-core: an      *)
(* election is one step of a quorum, and the leader's next index is any    *)
(* index.  Everything the daemon adds around it is modelled step by step:  *)
(* staging and leases, the proposal queue, the request protocol with its   *)
(* barrier, asynchronous preparation of appends and snapshots, compaction, *)
(* garbage collection, cancellation, crash and reopening.  Membership is   *)
(* fixed, and there is no migration seed.                                  *)
(***************************************************************************)
EXTENDS EscrowRoomState

CONSTANTS
    Node,         \* enrolled members
    Voter,        \* those that vote; the others are learners
    NoMsg,        \* no delayed message
    NoOffer,      \* no outgoing snapshot for a peer
    MaxSlots,     \* cfg.max_slots_per_room
    MaxArchive,   \* generations that fit cfg.max_total_bytes
    CompactLen,   \* engine.rs needs_compaction: the tail length that compacts
    MaxEntries,   \* engine.rs MAX_ENTRIES: the longest tail
    MaxBatch,     \* entries of one AppendEntries on the wire
    LateCancel,   \* a request may be cancelled while its write is queued
    MaxTerm,      \* bound on elections
    MaxIndex,     \* bound on log indices that requests may reach
    MaxFaults,    \* bound on the faults of Faults
    Faults,       \* among crashes, cancelled requests and delayed messages
    Ops           \* the kinds of request that clients send

ASSUME ReplicaAssumption ==
    /\ Voter \subseteq Node /\ Voter # {} /\ IsFiniteSet(Node)
    /\ MaxSlots \in Nat /\ MaxArchive \in Nat /\ MaxBatch \in Nat
    /\ CompactLen \in Nat \ {0} /\ MaxEntries \in Nat
    /\ LateCancel \in BOOLEAN /\ Ops \subseteq {"get", "put", "delete"}
    /\ MaxTerm \in Nat /\ MaxIndex \in Nat /\ MaxFaults \in Nat
    /\ Faults \subseteq {"crash", "cancel", "delay"}

VARIABLES
    node,         \* the engine, room state and archive of each member
    sent,         \* the term and index of the last append, and the index of the
                  \* last snapshot, that each member has acknowledged
    queue,        \* Inbound::Propose events waiting for the drive loop
    req,          \* the request holding the leader's `serial' lock
    prep,         \* appends and snapshots whose generations are being staged
    preparing,    \* senders with an append marked as being prepared
    offers,       \* outgoing snapshots and their leases
    late,         \* a delayed AppendEntries
    ack,          \* the newest log position a client has been told of
    faults,
    chain         \* ghost: the log of each term's leader, from the first entry

vars == <<node, sent, queue, req, prep, preparing, offers, late, ack, faults, chain>>

Index == 0 .. MaxIndex + MaxTerm
Term == 0 .. MaxTerm
Entry == [term : Term, cmd : Command]
Snapshot == [index : Index, term : Term, state : State]
Request == [op : Ops, head : Heads]

Quorum == { q \in SUBSET Voter : 2 * Cardinality(q) > Cardinality(Voter) }

(* Voters beyond a smallest quorum hear of an election later (HearTerm).   *)
Majority == { q \in Quorum : \A v \in q : q \ {v} \notin Quorum }

NoSnapshot == [index |-> 0, term |-> 0, state |-> EmptyState]
NoAck == [term |-> 0, index |-> 0]
Idle == [pc |-> "idle", cmd |-> Barrier, term |-> 0, index |-> 0, floor |-> 0,
         lease |-> {}]

-----------------------------------------------------------------------------
(* engine.rs Storage.                                                      *)

last_log_index(r) == r.snap.index + Len(r.log)

term_at(r, i) ==
    CASE i = r.snap.index -> r.snap.term
      [] i > r.snap.index /\ i <= last_log_index(r) -> r.log[i - r.snap.index].term
      [] OTHER -> MaxTerm + 1

last_log_term(r) == term_at(r, last_log_index(r))

entry(r, i) == r.log[i - r.snap.index]

(* Entries of r with indices above i and at most j.                        *)
Between(r, i, j) == SubSeq(r.log, i + 1 - r.snap.index, j - r.snap.index)

Differs(r, prev, es, k) ==
    prev + k > last_log_index(r) \/ entry(r, prev + k) # es[k]

(* Mutant: entries that conflict are kept; only new indices are appended.  *)
append_entries_keep(r, prev, es) ==
    r.log \o SubSeq(es, last_log_index(r) - prev + 1, Len(es))

(* Storage::append_entries: a matching prefix leaves the suffix alone.     *)
append_entries(r, prev, es) ==
    IF \E k \in 1 .. Len(es) : Differs(r, prev, es, k)
    THEN SubSeq(r.log, 1, prev - r.snap.index) \o es
    ELSE r.log

(* Mutant: an installed snapshot always empties the log.                   *)
install_snapshot_bare(r, s) == [r EXCEPT !.snap = s, !.log = <<>>]

(* Storage::install_snapshot: a matching entry keeps the tail.             *)
install_snapshot(r, s) ==
    [r EXCEPT
        !.snap = s,
        !.log = IF term_at(r, s.index) = s.term
                THEN Between(r, s.index, last_log_index(r)) ELSE <<>>]

(* What the durable log and snapshot of r refer to.                        *)
References(r) ==
    retained_heads(r.snap.state)
        \cup UNION { command_heads(r.log[i].cmd) : i \in 1 .. Len(r.log) }

-----------------------------------------------------------------------------
(* archive.rs: leases and collection.                                      *)

Held(p) == UNION { x.held : x \in p }

Offered(o) ==
    UNION { retained_heads(o[p].snap.state) : p \in { q \in Node : o[q] # NoOffer } }

Leases(n) == req[n].lease \cup Held(prep[n]) \cup Offered(offers[n])

(* Mutant: leases keep nothing.                                            *)
collect_unleased(r, leased) ==
    [r EXCEPT !.arch = @ \cap (retained_heads(r.state) \cup References(r))]

(* Cluster::collect: what is neither referred to nor leased is removed.    *)
collect(r, leased) ==
    [r EXCEPT !.arch = @ \cap (retained_heads(r.state) \cup References(r) \cup leased)]

(* Cluster::stage: a present generation is only pinned; an absent one is   *)
(* pulled when the archive has room.                                       *)
CanStage(r, h, served) ==
    h \in r.arch \/ (served /\ Cardinality(r.arch) < MaxArchive)

(* One more fault within the bound.                                        *)
Fault(kind) == kind \in Faults /\ faults < MaxFaults /\ faults' = faults + 1

Up(n) == node[n].status = "up"
Leads(n) == Up(n) /\ node[n].leads

-----------------------------------------------------------------------------
(* mod.rs Cluster::outputs, run after every engine step: newly committed   *)
(* entries are applied, the request waiting for one of them is answered,   *)
(* the log is compacted and the archive collected when it is time, and     *)
(* requests in the log of a member that does not lead are told `busy'.     *)

Fresh(n, r) == Between(r, Max({node[n].commit, r.snap.index}), r.commit)

Missing(n, r) ==
    \/ \E i \in 1 .. Len(Fresh(n, r)) :
           ~(command_heads(Fresh(n, r)[i].cmd) \subseteq r.arch)
    \/ r.snap # node[n].snap /\ ~(retained_heads(r.snap.state) \subseteq r.arch)

Applied(n, r) == [r EXCEPT !.state = Replay(@, Fresh(n, r))]

Compacts(r) ==
    /\ Len(r.log) >= CompactLen \/ 2 * Cardinality(r.arch) > MaxArchive
    /\ r.commit > r.snap.index

(* Mutant: the snapshot is taken at the end of the log, not at what is     *)
(* applied.                                                                *)
compact_all(r) ==
    [r EXCEPT
        !.snap = [index |-> last_log_index(r), term |-> last_log_term(r),
                  state |-> r.state],
        !.log = <<>>, !.commit = last_log_index(r)]

compact(r) ==
    [r EXCEPT
        !.snap = [index |-> r.commit, term |-> term_at(r, r.commit), state |-> r.state],
        !.log = Between(r, r.commit, last_log_index(r))]

(* Cluster::fail.                                                          *)
Stopped(r) == [r EXCEPT !.status = "stopped", !.leads = FALSE]

Settled(n, r) ==
    IF Missing(n, r) THEN Stopped(r)
    ELSE IF Compacts(r) THEN collect(compact(Applied(n, r)), Leases(n))
    ELSE Applied(n, r)

(* Mutant: a request is answered when its entry is logged.                 *)
AnsweredLogged(r, q) ==
    /\ q.pc \in {"logged_barrier", "logged"}
    /\ q.index > r.snap.index /\ q.index <= last_log_index(r)
    /\ entry(r, q.index).term = q.term

(* The ticket of a newly applied entry is the one q waits for: an index    *)
(* and a term identify the proposal.                                       *)
Answered(r, q) ==
    /\ q.pc \in {"logged_barrier", "logged"}
    /\ q.index > r.snap.index /\ q.index <= r.commit
    /\ entry(r, q.index).term = q.term

ReplyTo(n, r, q) ==
    apply(Replay(r.state, Between(r, Max({node[n].commit, r.snap.index}), q.index - 1)),
          q.cmd, ApplySlots).reply

Outputs(n, r, q) ==
    /\ node' = [node EXCEPT ![n] = Settled(n, r)]
    /\ req' = [req EXCEPT ![n] =
                  CASE Missing(n, r) -> Idle
                    [] ~Missing(n, r) /\ Answered(r, q) ->
                           IF q.pc = "logged" THEN Idle ELSE [q EXCEPT !.pc = "ready"]
                    [] OTHER ->
                           IF ~r.leads /\ q.pc \in {"logged_barrier", "logged"}
                           THEN Idle ELSE q]
    /\ ack' = IF /\ ~Missing(n, r) /\ q.pc = "logged"
                 /\ Answered(r, q) /\ ReplyTo(n, r, q) = "ack"
              THEN [index |-> q.index, term |-> term_at(r, q.index)] ELSE ack

-----------------------------------------------------------------------------
(* The external Raft core.                                                 *)

(* Any message of a later term makes its receiver a follower of that term. *)
Follow(r, t) ==
    IF t > r.term THEN [r EXCEPT !.term = t, !.leads = FALSE] ELSE r

(* The leader commits an entry of its own term that a quorum holds.  It    *)
(* hears the acknowledgements in any order and after any delay.            *)
Holding(l, i) ==
    {l} \cup { v \in Voter : sent[v].append.term = node[l].term /\ sent[v].append.index >= i }

Commits(l, i) ==
    /\ term_at(node[l], i) = node[l].term
    /\ Holding(l, i) \cap Voter \in Quorum

(* A member that is a quorum alone commits what it appends.                *)
Advance(n, r) == IF {n} \in Quorum THEN [r EXCEPT !.commit = last_log_index(r)] ELSE r

(* The candidate's log is at least as recent as the voter's.               *)
UpToDate(c, v) ==
    \/ last_log_term(c) > last_log_term(v)
    \/ last_log_term(c) = last_log_term(v) /\ last_log_index(c) >= last_log_index(v)

Append1(r, c) == [r EXCEPT !.log = Append(@, [term |-> r.term, cmd |-> c])]

(* All that r has in its log, the compacted part included.                 *)
Past(r) == SubSeq(chain[last_log_term(r)], 1, last_log_index(r))

(* A quorum elects n in a new term; Cluster::outputs on BecameLeader proposes a barrier  *)
(* of the new term at once, and stops the member when its log is full.     *)
Elect(n, q) ==
    /\ \A v \in q : Up(v) /\ UpToDate(node[n], node[v])
    /\ ~node[n].leads /\ \A v \in q : node[v].term < MaxTerm
    /\ LET t == Max({ node[v].term : v \in q }) + 1
           r == [node[n] EXCEPT !.term = t, !.leads = TRUE]
           led == Advance(n, Append1(r, Barrier))
       IN  /\ node' = [v \in Node |->
                      IF v = n
                      THEN IF Len(r.log) >= MaxEntries THEN Stopped(r) ELSE Settled(n, led)
                      ELSE IF v \in q THEN Settled(v, Follow(node[v], t)) ELSE node[v]]
           /\ chain' = IF Len(r.log) >= MaxEntries THEN chain
                       ELSE [chain EXCEPT ![t] = Append(Past(node[n]),
                                                        [term |-> t, cmd |-> Barrier])]
    /\ req' = [v \in Node |->
                 IF v \in q \ {n} /\ req[v].pc \in {"logged_barrier", "logged"}
                 THEN Idle ELSE req[v]]
    /\ UNCHANGED <<sent, queue, prep, preparing, offers, late, ack, faults>>

(* A reply or request of a later term reaches n.                           *)
HearTerm(n, m) ==
    /\ Up(n) /\ Up(m) /\ node[m].term > node[n].term
    /\ Outputs(n, Follow(node[n], node[m].term), req[n])
    /\ UNCHANGED <<sent, queue, prep, preparing, offers, late, faults, chain>>

-----------------------------------------------------------------------------
(* Requests on the leader: Cluster::leader_request, propose and proposal.  *)

(* Mutant: no barrier; the request is tried on the state at hand.          *)
StartUnfenced(n, c) ==
    /\ Leads(n) /\ req[n].pc = "idle"
    /\ last_log_index(node[n]) + Len(queue[n]) < MaxIndex
    /\ req' = [req EXCEPT ![n] = [Idle EXCEPT !.pc = "ready", !.cmd = c,
                                              !.term = node[n].term,
                                              !.floor = ack.index]]
    /\ UNCHANGED <<node, sent, queue, prep, preparing, offers, late, ack, faults, chain>>

(* The request takes the serial lock and queues its barrier.               *)
StartRequest(n, c) ==
    /\ Leads(n) /\ req[n].pc = "idle"
    /\ last_log_index(node[n]) + Len(queue[n]) < MaxIndex
    /\ req' = [req EXCEPT ![n] = [Idle EXCEPT !.pc = "queued_barrier", !.cmd = c,
                                              !.term = node[n].term,
                                              !.floor = ack.index]]
    /\ queue' = [queue EXCEPT ![n] = Append(@, [cmd |-> Barrier, term |-> node[n].term,
                                                live |-> TRUE])]
    /\ UNCHANGED <<node, sent, prep, preparing, offers, late, ack, faults, chain>>

(* Cluster::proposal: the drive loop takes the oldest proposal.  Nobody    *)
(* may be waiting for it any more; it is proposed all the same.            *)
Propose(n) ==
    /\ Up(n) /\ queue[n] # <<>>
    /\ LET p == Head(queue[n])
           refused == ~node[n].leads \/ node[n].term # p.term
           full == Len(node[n].log) >= MaxEntries
           r == Advance(n, Append1(node[n], p.cmd))
           q == IF p.live
                THEN [req[n] EXCEPT !.pc = IF p.cmd = Barrier THEN "logged_barrier"
                                           ELSE "logged",
                                    !.index = last_log_index(node[n]) + 1]
                ELSE req[n]
       IN  IF refused
           THEN /\ req' = IF p.live THEN [req EXCEPT ![n] = Idle] ELSE req
                /\ UNCHANGED <<node, ack, chain>>
           ELSE IF full
           THEN /\ node' = [node EXCEPT ![n] = Stopped(@)]
                /\ req' = [req EXCEPT ![n] = Idle]
                /\ UNCHANGED <<ack, chain>>
           ELSE /\ Outputs(n, r, q)
                /\ chain' = [chain EXCEPT ![p.term] =
                                Append(@, [term |-> p.term, cmd |-> p.cmd])]
    /\ queue' = [queue EXCEPT ![n] = Tail(@)]
    /\ UNCHANGED <<sent, prep, preparing, offers, late, faults>>

(* The barrier is committed and applied: a read is answered from the room  *)
(* state; a write is tried on a copy of it under the configured slot       *)
(* quota, and goes on only when it would change the visible head.          *)
Ready(n) ==
    /\ Up(n) /\ req[n].pc = "ready"
    /\ LET c == req[n].cmd
           preview == apply(node[n].state, c, MaxSlots)
           s == slotOf[c.head]
           changes == preview.state[s].head # node[n].state[s].head
           lost == ~node[n].leads \/ node[n].term # req[n].term
       IN  \/ /\ c.op = "get" \/ lost \/ preview.reply = "error" \/ ~changes
              /\ req' = [req EXCEPT ![n] = Idle]
              /\ ack' = IF c.op # "get" /\ ~lost /\ preview.reply = "ack"
                        THEN [index |-> node[n].commit,
                              term |-> term_at(node[n], node[n].commit)]
                        ELSE ack
              /\ UNCHANGED queue
           \/ /\ c.op = "put" /\ ~lost /\ preview.reply = "ack" /\ changes
              /\ req' = [req EXCEPT ![n].pc = "stage"]
              /\ UNCHANGED <<queue, ack>>
           \/ /\ c.op = "delete" /\ ~lost /\ preview.reply = "ack" /\ changes
              /\ req' = [req EXCEPT ![n].pc = "queued"]
              /\ queue' = [queue EXCEPT ![n] = Append(@, [cmd |-> c, term |-> req[n].term,
                                                          live |-> TRUE])]
              /\ UNCHANGED ack
    /\ UNCHANGED <<node, sent, prep, preparing, offers, late, faults, chain>>

(* Cluster::stage and propose: the generation is pulled from the client    *)
(* (or found in the archive), leased, and the write is queued.             *)
StageWrite(n) ==
    /\ Up(n) /\ req[n].pc = "stage"
    /\ LET h == req[n].cmd.head
       IN  \/ /\ CanStage(node[n], h, TRUE)
              /\ node' = [node EXCEPT ![n].arch = @ \cup {h}]
              /\ req' = [req EXCEPT ![n].pc = "queued", ![n].lease = {h}]
              /\ queue' = [queue EXCEPT ![n] = Append(@, [cmd |-> req[n].cmd,
                                                          term |-> req[n].term,
                                                          live |-> TRUE])]
           \/ /\ h \notin node[n].arch
              /\ req' = [req EXCEPT ![n] = Idle]
              /\ UNCHANGED <<node, queue>>
    /\ UNCHANGED <<sent, prep, preparing, offers, late, ack, faults, chain>>

(* Cluster::request: REQUEST_WAIT drops the request with its lease and its *)
(* reply channel, wherever it waits.  What it queued stays queued.         *)
Cancel(n) ==
    /\ Up(n) /\ req[n].pc # "idle" /\ Fault("cancel")
    /\ LateCancel \/ ~(req[n].pc = "queued" /\ req[n].cmd.op = "put")
    /\ req' = [req EXCEPT ![n] = Idle]
    /\ queue' = [queue EXCEPT ![n] =
                    [i \in DOMAIN @ |-> [@[i] EXCEPT !.live = FALSE]]]
    /\ UNCHANGED <<node, sent, prep, preparing, offers, late, ack, chain>>

-----------------------------------------------------------------------------
(* Appends: the leader's send, Cluster::incoming, and Inbound::Prepared.   *)

AppendMsg(l, prev) ==
    LET r == node[l]
        end == Min({last_log_index(r), prev + MaxBatch})
    IN  [kind |-> "append", from |-> l, term |-> r.term, prev |-> prev,
         prevTerm |-> term_at(r, prev), entries |-> Between(r, prev, end),
         commit |-> Min({r.commit, end})]

HeadsOf(m) == UNION { command_heads(m.entries[i].cmd) : i \in 1 .. Len(m.entries) }

EndOf(m) == m.prev + Len(m.entries)

(* The prefix matches and no committed entry would be replaced.            *)
Appends(r, m) ==
    /\ term_at(r, m.prev) = m.prevTerm
    /\ \A k \in 1 .. Len(m.entries) :
           m.prev + k <= r.commit => ~Differs(r, m.prev, m.entries, k)
    /\ EndOf(m) - r.snap.index <= MaxEntries

(* engine.rs step on AppendEntries: the acknowledged index is the end of   *)
(* this message, not the end of the log.                                   *)
AppendStep(r, m) ==
    LET f == Follow(r, m.term)
    IN  IF Appends(f, m)
        THEN [f EXCEPT !.log = append_entries(f, m.prev, m.entries),
                       !.commit = Max({@, Min({m.commit, EndOf(m)})})]
        ELSE f

Matched(f, m) ==
    IF sent[f].append.term = m.term
    THEN Max({sent[f].append.index, EndOf(m)}) ELSE EndOf(m)

AppendEvent(f, m) ==
    /\ Outputs(f, AppendStep(node[f], m), req[f])
    /\ sent' = IF Appends(Follow(node[f], m.term), m)
               THEN [sent EXCEPT ![f].append = [term |-> m.term, index |-> Matched(f, m)]]
               ELSE sent

(* Mutant: generations are not staged before the entries are logged.       *)
ReceiveUnstaged(f, m) ==
    /\ Up(f) /\ m.term >= node[f].term
    /\ AppendEvent(f, m)
    /\ UNCHANGED <<prep, preparing>>

(* Cluster::incoming on AppendEntries: a message that brings generations   *)
(* is set aside until they are staged; one per sender at a time.           *)
Receive(f, m) ==
    /\ Up(f)
    /\ \/ /\ m.term < node[f].term
          /\ UNCHANGED <<node, req, ack, sent, prep, preparing>>
       \/ /\ m.term >= node[f].term /\ HeadsOf(m) = {}
          /\ AppendEvent(f, m)
          /\ UNCHANGED <<prep, preparing>>
       \/ /\ m.term >= node[f].term /\ HeadsOf(m) # {}
          /\ Outputs(f, Follow(node[f], m.term), req[f])
          /\ IF m.from \in preparing[f]
             THEN UNCHANGED <<prep, preparing>>
             ELSE /\ preparing' = [preparing EXCEPT ![f] = @ \cup {m.from}]
                  /\ prep' = [prep EXCEPT ![f] =
                                 @ \cup {[msg |-> m, todo |-> HeadsOf(m), held |-> {}]}]
          /\ UNCHANGED sent

(* The leader sends entries after any index it still has and the peer has  *)
(* not acknowledged past.  The message arrives, is delayed, or is lost.    *)
Send(l, f, prev) ==
    /\ Leads(l) /\ f # l
    /\ \/ /\ Receive(f, AppendMsg(l, prev))
          /\ UNCHANGED <<late, faults>>
       \/ /\ Fault("delay")
          /\ late' = [to |-> f, msg |-> AppendMsg(l, prev)]
          /\ UNCHANGED <<node, req, ack, sent, prep, preparing>>
    /\ UNCHANGED <<queue, offers, chain>>

ReceiveLate ==
    /\ late # NoMsg
    /\ Receive(late.to, late.msg)
    /\ late' = NoMsg
    /\ UNCHANGED <<queue, offers, faults, chain>>

(* One generation of a preparation is staged from its sender.              *)
StageNext(f, p, h) ==
    /\ Up(f) /\ p \in prep[f] /\ h \in p.todo
    /\ LET l == p.msg.from
       IN  CanStage(node[f], h, Up(l) /\ h \in node[l].arch)
    /\ node' = [node EXCEPT ![f].arch = @ \cup {h}]
    /\ prep' = [prep EXCEPT ![f] = (@ \ {p}) \cup
                   {[p EXCEPT !.todo = @ \ {h}, !.held = @ \cup {h}]}]
    /\ UNCHANGED <<sent, queue, req, preparing, offers, late, ack, faults, chain>>

(* Staging failed or took too long: the leases are dropped.                *)
StageFails(f, p) ==
    /\ Up(f) /\ p \in prep[f] /\ p.todo # {}
    /\ \E h \in p.todo : h \notin node[f].arch
    /\ prep' = [prep EXCEPT ![f] = @ \ {p}]
    /\ preparing' = IF p.msg.kind = "append"
                    THEN [preparing EXCEPT ![f] = @ \ {p.msg.from}] ELSE preparing
    /\ UNCHANGED <<node, sent, queue, req, offers, late, ack, faults, chain>>

(* Inbound::Prepared: the set-aside message reaches the engine unless its  *)
(* term is over; then the leases are dropped.                              *)
InstallStep(r, m) ==
    LET f == Follow(r, m.term)
    IN  IF m.snap.index > f.commit
        THEN [install_snapshot(f, m.snap) EXCEPT !.commit = m.snap.index,
                                                 !.state = m.snap.state]
        ELSE f

Prepared(f, p) ==
    /\ Up(f) /\ p \in prep[f] /\ p.todo = {}
    /\ prep' = [prep EXCEPT ![f] = @ \ {p}]
    /\ preparing' = [preparing EXCEPT ![f] = @ \ {p.msg.from}]
    /\ \/ /\ p.msg.term < node[f].term
          /\ UNCHANGED <<node, req, ack, sent>>
       \/ /\ p.msg.term >= node[f].term /\ p.msg.kind = "append"
          /\ AppendEvent(f, p.msg)
       \/ /\ p.msg.term >= node[f].term /\ p.msg.kind = "snapshot"
          /\ Outputs(f, InstallStep(node[f], p.msg), req[f])
          /\ sent' = [sent EXCEPT ![f].snap = Max({@, p.msg.snap.index})]
    /\ UNCHANGED <<queue, offers, late, faults, chain>>

(* The leader hears acknowledgements of its term and commits what a quorum *)
(* has acknowledged.                                                       *)
HearAppended(l, i) ==
    /\ Leads(l) /\ i > node[l].commit /\ Commits(l, i)
    /\ Outputs(l, [node[l] EXCEPT !.commit = i], req[l])
    /\ UNCHANGED <<sent, queue, prep, preparing, offers, late, faults, chain>>

-----------------------------------------------------------------------------
(* Snapshots: offers, transfer and acknowledgement.                        *)

Offering(l) == { p \in Node : offers[l][p] # NoOffer }

(* Cluster::outputs pins the generations of the snapshot, or stops, and    *)
(* SnapshotTransfers::offer: an older transfer keeps its payload and is    *)
(* renewed under the current term; a different snapshot waits until no     *)
(* recipient uses the shared one.                                          *)
Offer(l, f) ==
    /\ Leads(l) /\ f # l /\ node[l].snap.index > 0
    /\ LET pinned == retained_heads(node[l].snap.state) \subseteq node[l].arch
           offered == offers[l][f] # NoOffer
       IN  /\ IF offered THEN offers[l][f].term < node[l].term
              ELSE \A p \in Offering(l) : offers[l][p].snap = node[l].snap
           /\ node' = IF pinned THEN node ELSE [node EXCEPT ![l] = Stopped(@)]
           /\ offers' = IF ~pinned THEN offers
                        ELSE [offers EXCEPT ![l][f] =
                                 [term |-> node[l].term,
                                  snap |-> IF offered THEN @.snap ELSE node[l].snap]]
    /\ UNCHANGED <<sent, queue, req, prep, preparing, late, ack, faults, chain>>

(* The recipient has fetched all metadata: it stages the generations of    *)
(* the snapshot, one snapshot at a time.                                   *)
Transfer(l, f) ==
    /\ Up(l) /\ Up(f) /\ offers[l][f] # NoOffer
    /\ offers[l][f].term >= node[f].term
    /\ \A p \in prep[f] : p.msg.kind # "snapshot"
    /\ Outputs(f, Follow(node[f], offers[l][f].term), req[f])
    /\ LET s == offers[l][f].snap
       IN  prep' = [prep EXCEPT ![f] = @ \cup
                      {[msg |-> [kind |-> "snapshot", from |-> l,
                                 term |-> offers[l][f].term, snap |-> s],
                        todo |-> retained_heads(s.state), held |-> {}]}]
    /\ UNCHANGED <<sent, queue, preparing, offers, late, faults, chain>>

(* SnapshotTransfers::acknowledged.  A snapshot holds committed entries    *)
(* only, so that its acknowledgement commits nothing.                      *)
HearInstalled(l, f) ==
    /\ Up(l) /\ f # l
    /\ offers[l][f] # NoOffer /\ sent[f].snap >= offers[l][f].snap.index
    /\ offers' = [offers EXCEPT ![l][f] = NoOffer]
    /\ UNCHANGED <<node, sent, queue, req, prep, preparing, late, ack, faults, chain>>

(* Cluster::drive maintenance: outgoing transfers past their deadline lose *)
(* their lease, and the archive is collected.                              *)
Maintain(n, expired) ==
    /\ Up(n)
    /\ LET kept == [p \in Node |-> IF p \in expired THEN NoOffer ELSE offers[n][p]]
       IN  /\ offers' = [offers EXCEPT ![n] = kept]
           /\ node' = [node EXCEPT ![n] = collect(@, req[n].lease \cup Held(prep[n])
                                                        \cup Offered(kept))]
    /\ UNCHANGED <<sent, queue, req, prep, preparing, late, ack, faults, chain>>

-----------------------------------------------------------------------------
(* Crash, and Cluster::open on what is durable.                            *)

(* What a process keeps in memory only.                                    *)
Forget(n) ==
    /\ queue' = [queue EXCEPT ![n] = <<>>]
    /\ req' = [req EXCEPT ![n] = Idle]
    /\ prep' = [prep EXCEPT ![n] = {}]
    /\ preparing' = [preparing EXCEPT ![n] = {}]
    /\ offers' = [offers EXCEPT ![n] = [p \in Node |-> NoOffer]]

Crash(n) ==
    /\ Up(n) /\ Fault("crash")
    /\ node' = [node EXCEPT ![n].status = "down", ![n].leads = FALSE]
    /\ Forget(n)
    /\ UNCHANGED <<sent, late, ack, chain>>

(* Opening refuses a log or a snapshot with a missing generation; the room *)
(* state is the snapshot with the committed tail replayed on it.           *)
Openable(r) == References(r) \subseteq r.arch

(* Mutant: opening forgets the commit index.                               *)
OpenUncommitted(n) ==
    /\ ~Up(n) /\ Openable(node[n])
    /\ node' = [node EXCEPT ![n].status = "up", ![n].commit = 0,
                            ![n].state = node[n].snap.state]
    /\ Forget(n)
    /\ UNCHANGED <<sent, late, ack, faults, chain>>

Open(n) ==
    /\ ~Up(n) /\ Openable(node[n])
    /\ node' = [node EXCEPT
                   ![n].status = "up",
                   ![n].state = Replay(node[n].snap.state,
                                       Between(node[n], node[n].snap.index, node[n].commit))]
    /\ Forget(n)
    /\ UNCHANGED <<sent, late, ack, faults, chain>>

-----------------------------------------------------------------------------
Init ==
    /\ node = [n \in Node |-> [status |-> "up", term |-> 0, leads |-> FALSE,
                               log |-> <<>>, snap |-> NoSnapshot, commit |-> 0,
                               state |-> EmptyState, arch |-> {}]]
    /\ sent = [n \in Node |-> [append |-> NoAck, snap |-> 0]]
    /\ queue = [n \in Node |-> <<>>]
    /\ req = [n \in Node |-> Idle]
    /\ prep = [n \in Node |-> {}]
    /\ preparing = [n \in Node |-> {}]
    /\ offers = [n \in Node |-> [p \in Node |-> NoOffer]]
    /\ late = NoMsg
    /\ ack = [index |-> 0, term |-> 0]
    /\ faults = 0
    /\ chain = [t \in Term |-> <<>>]

Next ==
    \/ \E q \in Majority : \E n \in q : Elect(n, q)
    \/ \E n \in Node :
         \/ \E c \in Request : StartRequest(n, c)
         \/ Propose(n) \/ Ready(n) \/ StageWrite(n) \/ Cancel(n)
         \/ \E p \in prep[n] :
              (\E h \in p.todo : StageNext(n, p, h)) \/ StageFails(n, p) \/ Prepared(n, p)
         \/ \E expired \in SUBSET Offering(n) : Maintain(n, expired)
         \/ \E i \in 1 .. last_log_index(node[n]) : HearAppended(n, i)
         \/ Crash(n) \/ Open(n)
    \/ \E l, f \in Node :
         \/ HearTerm(l, f) \/ HearInstalled(l, f)
         \/ \E prev \in node[l].snap.index .. last_log_index(node[l]) : Send(l, f, prev)
         \/ Offer(l, f) \/ Transfer(l, f)
    \/ ReceiveLate

Spec == Init /\ [][Next]_vars

-----------------------------------------------------------------------------
MsgOK(m) ==
    /\ m.kind \in {"append", "snapshot"} /\ m.from \in Node /\ m.term \in Term
    /\ m.kind = "append" =>
         /\ m.prev \in Index /\ m.prevTerm \in Term /\ m.commit \in Index
         /\ m.entries \in Seq(Entry) /\ Len(m.entries) <= MaxBatch
    /\ m.kind = "snapshot" => m.snap \in Snapshot

(* Types, and the shape of every member's log: a tail starting right after *)
(* the snapshot, a commit index inside it (engine.rs rejects a persisted   *)
(* file with other cursors), terms that never decrease.                    *)
ReplicaTypeOK ==
    /\ \A n \in Node :
         LET r == node[n]
         IN  /\ r.status \in {"up", "down", "stopped"} /\ r.leads \in BOOLEAN
             /\ r.term \in Term /\ r.commit \in Index /\ r.snap \in Snapshot
             /\ r.log \in Seq(Entry) /\ r.state \in State /\ r.arch \subseteq Heads
             /\ r.snap.index <= r.commit /\ r.commit <= last_log_index(r)
             /\ Len(r.log) <= MaxEntries
             /\ \A i \in r.snap.index + 1 .. last_log_index(r) :
                    term_at(r, i - 1) <= term_at(r, i) /\ term_at(r, i) <= r.term
    /\ \A n \in Node : sent[n].append \in [term : Term, index : Index]
                       /\ sent[n].snap \in Index
    /\ \A n \in Node : queue[n] \in Seq([cmd : Command, term : Term, live : BOOLEAN])
    /\ \A n \in Node : /\ req[n].cmd \in Request \cup {Barrier}
                       /\ req[n].lease \subseteq Heads
                       /\ req[n].term \in Term /\ req[n].index \in Index
                       /\ req[n].floor \in Index
    /\ \A n \in Node : /\ \A p \in prep[n] : MsgOK(p.msg) /\ p.todo \cap p.held = {}
                       /\ preparing[n] \subseteq Node
    /\ \A n, p \in Node :
         offers[n][p] # NoOffer => offers[n][p] \in [term : Term, snap : Snapshot]
    /\ late # NoMsg => late.to \in Node /\ MsgOK(late.msg)
    /\ ack \in [index : Index, term : Term] /\ faults \in 0 .. MaxFaults

(* A member never loses a generation that its durable log or snapshot      *)
(* refers to, so that it can always serve it and reopen, nor one of a      *)
(* snapshot it offers or of a message it has set aside: generations are    *)
(* durable before the entry is in the log (archive.rs:1), and collection   *)
(* respects state, snapshot, log and leases (mod.rs collect).              *)
ReferencesArchived ==
    \A n \in Node :
        References(node[n]) \cup retained_heads(node[n].state) \cup Leases(n) \subseteq node[n].arch

(* Members never disagree on a committed entry, whether they hold it in    *)
(* the log, applied it, or received it inside a snapshot.  A member that   *)
(* stopped before it applied an entry serves nothing until it reopens.     *)
ReplicasAgree ==
    \A m, n \in Node :
        /\ \A i \in Max({node[m].snap.index, node[n].snap.index}) + 1 ..
                    Min({node[m].commit, node[n].commit}) :
               entry(node[m], i) = entry(node[n], i)
        /\ node[m].commit = node[n].commit /\ "stopped" \notin {node[m].status, node[n].status}
              => node[m].state = node[n].state

Holds(r, i, t) == r.snap.index >= i \/ (i <= last_log_index(r) /\ term_at(r, i) = t)

(* An acknowledged write, and an acknowledged retry, is durable on a       *)
(* majority from then on (mod.rs:1), crashes, elections, compaction and    *)
(* snapshot installation included.                                         *)
AckedOnMajority ==
    ack.index > 0 =>
        { n \in Voter : Holds(node[n], ack.index, ack.term) } \in Quorum

(* A request whose barrier is applied sees every write acknowledged before *)
(* it started, on whatever leader: an isolated former leader cannot answer *)
(* from stale state (leader_request).                                      *)
BarrierFresh ==
    \A n \in Node : req[n].pc = "ready" => node[n].commit >= req[n].floor

(* Every logged write that commits is accepted when it is applied, under   *)
(* the configured slot quota too, which applying itself does not enforce:  *)
(* every write was previewed on a state that no other entry of the log     *)
(* overtakes (leader_request), whatever was cancelled, and whatever an     *)
(* earlier leader left in the log.                                         *)
CommittedAccepted ==
    \A n \in Node :
        \A i \in node[n].snap.index + 1 .. node[n].commit :
            apply(Replay(node[n].snap.state, Between(node[n], node[n].snap.index, i - 1)),
                  entry(node[n], i).cmd, MaxSlots).reply # "error"

(* Outages, partitions, cancelled requests and elections never stop a      *)
(* member whose disk works (mod.rs fail).                                  *)
NeverStops == \A n \in Node : node[n].status # "stopped"

=============================================================================
