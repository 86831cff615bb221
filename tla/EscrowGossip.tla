----------------------------- MODULE EscrowGossip -----------------------------
(***************************************************************************)
(* Gossip of one slot's metadata between the providers of a mesh room:     *)
(* Mesh::handle, Mesh::hello, Mesh::advertise and the gossip half of       *)
(* Mesh::tick in src/src/escrow/mesh/service.rs.                           *)
(*                                                                         *)
(* Providers announce digests of their records (hello), exchange indexes   *)
(* when digests change or differ, and request the heads they lack.         *)
(* Messages may be lost, delayed and reordered; wire.rs refuses replays.   *)
(* What a provider knows of its peers is lost when it restarts; its        *)
(* records are durable (EscrowRepository).  Acquiring and releasing a copy *)
(* (EscrowPlacement) appear here as Hold and Drop; homes are left to it.   *)
(*                                                                         *)
(* A room with one slot has one index page, and the handler of that page   *)
(* requests every head it finds pending: Peer.after and Peer.pending are   *)
(* always empty between messages and are left out.                         *)
(***************************************************************************)
EXTENDS EscrowMesh

CONSTANTS
    MaxMsgs       \* bound: messages in flight; a full network loses messages

ASSUME GossipAssumption == MaxMsgs \in Nat /\ NoRecord \notin MeshRecord

VARIABLES
    rec,       \* the provider's record of the slot (Repository)
    view,      \* view[p][q]: what p knows of q (Room.peers), or NoPeer
    msgs,      \* messages in flight
    faults,    \* restarts and copies given up so far
    calm       \* from now on only gossip happens, without loss

gossipVars == <<rec, view, msgs, faults, calm>>

Digest == (Heads \X BOOLEAN) \cup {NoRecord}

(* Peer::{digest, held_digest, syncing, entries} *)
GossipPeer == [entry : Entry \cup {NoRecord}, digest : Digest,
         held_digest : Heads \cup {NoHead}, syncing : BOOLEAN]

Message ==
    [to : Provider, from : Provider, kind : {"hello"},
     digest : Digest, held_digest : Heads \cup {NoHead}]
    \cup [to : Provider, from : Provider, kind : {"index_req", "head_req"}]
    \cup [to : Provider, from : Provider, kind : {"index"}, entry : Entry \cup {NoRecord}]
    \cup [to : Provider, from : Provider, kind : {"head", "tombstone"}, head : Heads]

Known(p) == {q \in Provider : view[p][q] # NoPeer}

NoPeers == [q \in Provider |-> NoPeer]

-----------------------------------------------------------------------------
(* Sending.                                                                *)

(* The network after the messages m were taken out of it and new was sent: *)
(* any of them may be lost (Guard's rate limit, the incoming channel of 64 *)
(* messages, the transport) until the room is calm.                        *)
Network(m, new) ==
    \E sent \in IF calm THEN {new} ELSE SUBSET new :
        /\ calm \/ Cardinality((msgs \ m) \cup sent) =< MaxMsgs
        /\ msgs' = (msgs \ m) \cup sent

(* Mesh::hello *)
hello(p, r, to) ==
    {[to |-> q, from |-> p, kind |-> "hello",
      digest |-> digest(r), held_digest |-> held_digest(r)] : q \in to}

(* Mesh::advertise *)
advertise(p, r, to) ==
    IF r = NoRecord THEN {}
    ELSE {[to |-> q, from |-> p, head |-> r.head,
           kind |-> IF r.deleted THEN "tombstone" ELSE "head"] : q \in to}

request(p, kind, to) == {[to |-> q, from |-> p, kind |-> kind] : q \in to}

-----------------------------------------------------------------------------
(* What changes a provider's record besides gossip.                        *)

(* Service::put: commit and advertise.                                     *)
Put(p, h) ==
    LET r == [head |-> h, deleted |-> FALSE, held |-> TRUE, home |-> NoOne] IN
    /\ Cas(h, rec[p])
    /\ rec' = [rec EXCEPT ![p] = r]
    /\ Network({}, advertise(p, r, Known(p)))
    /\ UNCHANGED <<view, faults, calm>>

(* Service::delete in a mesh room: mesh_delete and advertise.              *)
GossipDelete(p) ==
    /\ rec[p] # NoRecord /\ ~rec[p].deleted
    /\ LET r == Learned(rec[p], rec[p].head, TRUE, rec[p].home)
       IN /\ rec' = [rec EXCEPT ![p] = r]
          /\ Network({}, advertise(p, r, Known(p)))
    /\ UNCHANGED <<view, faults, calm>>

(* Mesh::pull succeeded; it ends with a hello to everybody.                *)
Hold(p) ==
    /\ rec[p] # NoRecord /\ ~rec[p].deleted /\ ~rec[p].held
    /\ rec' = [rec EXCEPT ![p].held = TRUE]
    /\ Network({}, hello(p, rec'[p], Provider \ {p}))
    /\ UNCHANGED <<view, faults, calm>>

(* Repository::drop_holding, or a scrub that found the copy damaged.       *)
Drop(p) ==
    /\ faults < MaxFaults /\ faults' = faults + 1
    /\ rec[p] # NoRecord /\ rec[p].held
    /\ rec' = [rec EXCEPT ![p].held = FALSE]
    /\ UNCHANGED <<view, msgs, calm>>

GossipRestart(p) ==
    /\ faults < MaxFaults /\ faults' = faults + 1
    /\ view' = [view EXCEPT ![p] = NoPeers]
    /\ UNCHANGED <<rec, msgs, calm>>

-----------------------------------------------------------------------------
(* Mesh::handle.                                                           *)

(* Mutant: a hello is answered only when it announces a change.            *)
AskOnChange(p, m, known, new, old) ==
    /\ ~known.syncing
    /\ new \/ m.digest # known.digest \/ m.held_digest # known.held_digest

(* hello: join the peer, and ask for its index when it announces a change, *)
(* or still differs and the last index is older than 60 seconds (old).     *)
Ask(p, m, known, new, old) ==
    /\ ~known.syncing
    /\ \/ new
       \/ m.digest # known.digest
       \/ m.held_digest # known.held_digest
       \/ m.digest # digest(rec[p]) /\ old

Joined == [entry |-> NoRecord, digest |-> NoRecord, held_digest |-> NoHead, syncing |-> FALSE]

Hello(p, m, old) ==
    LET q == m.from
        new == view[p][q] = NoPeer
        known == IF new THEN Joined ELSE view[p][q]
        ask == Ask(p, m, known, new, old)
    IN /\ m \in msgs /\ m.to = p /\ m.kind = "hello"
       /\ view' = [view EXCEPT ![p][q] =
                    IF ask THEN [digest |-> m.digest, held_digest |-> m.held_digest,
                                 syncing |-> TRUE, entry |-> NoRecord]
                    ELSE known]
       /\ Network({m}, (IF new THEN hello(p, rec[p], {q}) ELSE {})
                       \cup (IF ask THEN request(p, "index_req", {q}) ELSE {}))
       /\ UNCHANGED <<rec, faults, calm>>

(* Any other message of an unknown sender only provokes a hello.           *)
Stranger(p, m) ==
    /\ m \in msgs /\ m.to = p /\ m.kind # "hello"
    /\ view[p][m.from] = NoPeer
    /\ Network({m}, hello(p, rec[p], {m.from}))
    /\ UNCHANGED <<rec, view, faults, calm>>

FromPeer(p, m, kind) ==
    m \in msgs /\ m.to = p /\ m.kind = kind /\ view[p][m.from] # NoPeer

IndexReq(p, m) ==
    /\ FromPeer(p, m, "index_req")
    /\ Network({m}, {[to |-> m.from, from |-> p, kind |-> "index", entry |-> entry(rec[p])]})
    /\ UNCHANGED <<rec, view, faults, calm>>

(* index: remember the peer's entry, request its head if it is needed; a   *)
(* reply nobody waits for is ignored.                                      *)
Index(p, m) ==
    LET wanted == view[p][m.from].syncing
        needed == m.entry # NoRecord /\ needs_head(entry(rec[p]), m.entry)
    IN /\ FromPeer(p, m, "index")
       /\ view' = IF wanted
                  THEN [view EXCEPT ![p][m.from].entry = m.entry,
                                    ![p][m.from].syncing = FALSE]
                  ELSE view
       /\ Network({m}, IF wanted /\ needed THEN request(p, "head_req", {m.from}) ELSE {})
       /\ UNCHANGED <<rec, faults, calm>>

HeadReq(p, m) ==
    /\ FromPeer(p, m, "head_req")
    /\ Network({m}, advertise(p, rec[p], {m.from}))
    /\ UNCHANGED <<rec, view, faults, calm>>

(* head and tombstone: learn it, pass on news, answer what is outdated.    *)
GossipLearn(p, m) ==
    LET del == m.kind = "tombstone"
        outcome == learn(rec[p], m.head, del)
        r == Learned(rec[p], m.head, del, NoOne)
    IN /\ FromPeer(p, m, "head") \/ FromPeer(p, m, "tombstone")
       /\ rec' = IF outcome = "New" THEN [rec EXCEPT ![p] = r] ELSE rec
       /\ Network({m}, CASE outcome = "New" -> advertise(p, r, Known(p))
                         [] outcome \in {"Stale", "deleted"} -> advertise(p, rec[p], {m.from})
                         [] OTHER -> {})
       /\ UNCHANGED <<view, faults, calm>>

(* Mesh::tick: greet everybody and repeat the index requests unanswered    *)
(* for 30 seconds (late).  In a calm room messages arrive within a tick.   *)
Tick(p, late) ==
    LET again == {q \in Known(p) : late /\ view[p][q].syncing}
    IN /\ calm => msgs = {}
       /\ Network({}, hello(p, rec[p], Provider \ {p}) \cup request(p, "index_req", again))
       /\ UNCHANGED <<rec, view, faults, calm>>

-----------------------------------------------------------------------------
GossipInit ==
    /\ rec = [p \in Provider |-> NoRecord]
    /\ view = [p \in Provider |-> NoPeers]
    /\ msgs = {}
    /\ faults = 0
    /\ calm = FALSE

GossipEnvironment ==
    \/ \E p \in Provider, h \in Heads : Put(p, h)
    \/ \E p \in Provider : GossipDelete(p)
    \/ \E p \in Provider : Hold(p)
    \/ \E p \in Provider : Drop(p)
    \/ \E p \in Provider : GossipRestart(p)

Deliver(p, m) ==
    \/ Hello(p, m, TRUE)
    \/ Stranger(p, m)
    \/ IndexReq(p, m)
    \/ Index(p, m)
    \/ HeadReq(p, m)
    \/ GossipLearn(p, m)

GossipNext ==
    \/ ~calm /\ GossipEnvironment
    \/ \E p \in Provider, m \in msgs : Deliver(p, m)
    \/ ~calm /\ \E p \in Provider, m \in msgs : Hello(p, m, FALSE)
    \/ \E p \in Provider : Tick(p, TRUE)
    \/ ~calm /\ \E p \in Provider : Tick(p, FALSE)

GossipSpec == GossipInit /\ [][GossipNext]_gossipVars

(* The room comes to rest: clients stop, copies stay where they are,       *)
(* nobody restarts and no message is lost any more; ticks are far enough   *)
(* apart for answers to arrive and for index requests to expire.           *)
CalmDown ==
    /\ ~calm /\ calm' = TRUE
    /\ UNCHANGED <<rec, view, msgs, faults>>

(* The receiver task handles what arrives and the interval timer of every  *)
(* provider ticks for ever.                                                *)
GossipFairSpec ==
    /\ GossipInit /\ [][GossipNext \/ CalmDown]_gossipVars
    /\ WF_gossipVars(CalmDown)
    /\ WF_gossipVars(\E p \in Provider, m \in msgs : Deliver(p, m))
    /\ \A p \in Provider : SF_gossipVars(Tick(p, TRUE))

-----------------------------------------------------------------------------
(* Records, views and messages are well formed.                            *)
GossipTypeOK ==
    /\ rec \in [Provider -> MeshRecord \cup {NoRecord}]
    /\ view \in [Provider -> [Provider -> GossipPeer \cup {NoPeer}]]
    /\ msgs \subseteq Message
    /\ faults \in 0 .. MaxFaults /\ calm \in BOOLEAN

(* Whatever order heads and tombstones arrive in, a provider never goes    *)
(* back to an older head, never exchanges a head for its fork, and never   *)
(* serves a head again that it knows to be deleted.                        *)
NoRollback ==
    [][\A p \in Provider : rec[p] # NoRecord =>
         /\ rec'[p] # NoRecord
         /\ \/ seqOf[rec'[p].head] > seqOf[rec[p].head]
            \/ /\ rec'[p].head = rec[p].head
               /\ rec[p].deleted => rec'[p].deleted]_gossipVars

(* Once the room is calm all providers come to agree on one head, live or  *)
(* deleted, however hellos, indexes and heads crossed before.              *)
Agreement == <>[](\A p, q \in Provider : digest(rec[p]) = digest(rec[q]))

=============================================================================
