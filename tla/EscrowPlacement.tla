---------------------------- MODULE EscrowPlacement ----------------------------
(***************************************************************************)
(* Where the copies of one slot are kept: the placement half of Mesh::tick *)
(* in src/src/escrow/mesh/service.rs with decision.rs and placement.rs.    *)
(*                                                                         *)
(* Every provider decides alone, from what its peers' last index said      *)
(* (EscrowGossip), whether it should hold the slot's current head; it      *)
(* pulls a copy it should hold and releases one that it need not hold      *)
(* after all selected holders were seen to have it for a grace period.     *)
(*                                                                         *)
(* An index exchange is one step: a reply that arrives late shows a state  *)
(* that has passed, as does one that is used late, and a tick may happen   *)
(* late.  Clocks are abstracted: a peer's last hello may age past          *)
(* ONLINE_MS and past dead_after, and a grace period may end, at any time. *)
(* Copies do not decay here (EscrowRepository's VerifyHolding).            *)
(***************************************************************************)
EXTENDS EscrowMesh

CONSTANTS
    Roomy,        \* providers with space for another copy
    Contact,      \* bound: the providers that clients talk to
    rank,         \* placement.rs: providers by score, best first
    replicas      \* EscrowConfig.auto_replicas: a mesh room has at least two

(* Of a peer's entry only the head it claims to hold matters here.         *)
Peer == [seen : {"online", "quiet", "dead"}, holds : Heads \cup {NoHead}]

ASSUME PlacementAssumption ==
    /\ NoRecord \notin MeshRecord /\ NoPeer \notin Peer
    /\ IsFiniteSet(Provider) /\ Roomy \subseteq Provider /\ Contact \subseteq Provider
    /\ rank \in [Provider -> Nat]
    /\ \A p, q \in Provider : rank[p] = rank[q] => p = q
    /\ replicas \in Nat \ {0, 1}

VARIABLES
    rec,       \* the provider's record of the slot (Repository)
    view,      \* view[p][q]: Peer.seen and Peer.entries, or NoPeer
    release,   \* Room.release of the slot: "none", "running" or "due"
    stored,    \* ghost: heads that some provider stored
    faults     \* faults so far

vars == <<rec, view, release, stored, faults>>

Known(p) == {q \in Provider : view[p][q] # NoPeer}

NoPeers == [q \in Provider |-> NoPeer]

Live(r) == r # NoRecord /\ ~r.deleted

Fault == faults < MaxFaults /\ faults' = faults + 1

-----------------------------------------------------------------------------
(* Client requests at a provider.                                          *)

(* Service::put of a new head: pull, commit, set_home.                     *)
Put(p, h) ==
    /\ p \in Roomy /\ Cas(h, rec[p])
    /\ rec' = [rec EXCEPT ![p] = [head |-> h, deleted |-> FALSE, held |-> TRUE, home |-> p]]
    /\ stored' = stored \cup {h}
    /\ UNCHANGED <<view, release, faults>>

(* The provider stops between the commit and set_home: the head is stored, *)
(* with the home of the record it replaces, and not acknowledged.          *)
PutInterrupted(p, h) ==
    LET home == IF rec[p] = NoRecord THEN NoOne ELSE rec[p].home IN
    /\ Fault
    /\ p \in Roomy /\ Cas(h, rec[p])
    /\ rec' = [rec EXCEPT ![p] = [head |-> h, deleted |-> FALSE, held |-> TRUE, home |-> home]]
    /\ view' = [view EXCEPT ![p] = NoPeers]
    /\ release' = [release EXCEPT ![p] = "none"]
    /\ stored' = stored \cup {h}

(* A repeated PUT of the current head is acknowledged at once.             *)
PutAgain(p) ==
    /\ Live(rec[p]) /\ rec[p].held
    /\ rec' = [rec EXCEPT ![p].home = IF @ = NoOne THEN p ELSE @]
    /\ UNCHANGED <<view, release, stored, faults>>

Delete(p) ==
    /\ Live(rec[p])
    /\ rec' = [rec EXCEPT ![p] = Learned(rec[p], rec[p].head, TRUE, rec[p].home)]
    /\ UNCHANGED <<view, release, stored, faults>>

-----------------------------------------------------------------------------
(* What gossip does.                                                       *)

(* p hears q's hello and asks for its index, forgetting the last one.      *)
Hear(p, q) ==
    /\ p # q
    /\ view' = [view EXCEPT ![p][q] = [seen |-> "online", holds |-> NoHead]]
    /\ UNCHANGED <<rec, release, stored, faults>>

(* p hears q's hello and has nothing to ask.                               *)
HearAgain(p, q) ==
    /\ q \in Known(p) /\ view[p][q].seen # "online"
    /\ view' = [view EXCEPT ![p][q].seen = "online"]
    /\ UNCHANGED <<rec, release, stored, faults>>

(* Mutant: the whole index entry is remembered.                            *)
IndexWhole(p, q) ==
    /\ q \in Known(p)
    /\ view' = [view EXCEPT ![p][q].holds = entry(rec[q])]
    /\ UNCHANGED <<rec, release, stored, faults>>

Index(p, q) ==
    /\ q \in Known(p)
    /\ view' = [view EXCEPT ![p][q].holds = held_digest(rec[q])]
    /\ UNCHANGED <<rec, release, stored, faults>>

(* p receives q's head or tombstone.                                       *)
Learn(p, q) ==
    /\ q \in Known(p) /\ rec[q] # NoRecord
    /\ learn(rec[p], rec[q].head, rec[q].deleted) = "New"
    /\ rec' = [rec EXCEPT ![p] =
                Learned(rec[p], rec[q].head, rec[q].deleted,
                        IF rec[q].deleted THEN NoOne ELSE rec[q].home)]
    /\ UNCHANGED <<view, release, stored, faults>>

-----------------------------------------------------------------------------
(* Mesh::tick.                                                             *)

(* A held slot without home is adopted.                                    *)
Adopt(p) ==
    /\ Live(rec[p]) /\ rec[p].held /\ rec[p].home = NoOne
    /\ rec' = [rec EXCEPT ![p].home = p]
    /\ UNCHANGED <<view, release, stored, faults>>

(* Mesh::plan *)
Confirms(p, q) ==
    /\ view[p][q].seen = "online"
    /\ view[p][q].holds = rec[p].head

confirmed(p) == {q \in Known(p) : Confirms(p, q)} \cup (IF rec[p].held THEN {p} ELSE {})

(* decision.rs placement_inputs *)
candidates(p) == {p} \cup {q \in Known(p) : view[p][q].seen # "dead"}

target(p) == Min({replicas, Cardinality(candidates(p))})

(* placement.rs place: the home, then the best ranked with capacity.       *)
place(p) ==
    LET home == {rec[p].home} \cap candidates(p)
        sure == confirmed(p)
        fits == {q \in candidates(p) \ home : q \in Roomy \/ q \in sure}
        more == target(p) - Cardinality(home)
        better(q) == {x \in fits : rank[x] < rank[q]}
    IN home \cup {q \in fits : Cardinality(better(q)) < more}

all_confirmed(p, chosen) == Cardinality(chosen) = target(p) /\ chosen \subseteq confirmed(p)

(* Mutant: a copy is released without waiting for the selected holders.    *)
holdingUnconfirmed(p, informed) ==
    LET grace == IF release[p] = "none" THEN "running" ELSE release[p]
        chosen == place(p)
    IN
    CASE p \in chosen -> [want |-> rec[p].held \/ informed, release |-> "none"]
      [] p \notin chosen /\ ~rec[p].held -> [want |-> FALSE, release |-> "none"]
      [] OTHER -> [want |-> grace # "due", release |-> grace]

(* decision.rs holding: is the copy wanted, and how the grace period goes  *)
(* on; a new copy is wanted only 60 seconds after the start (informed).    *)
holding(p, informed) ==
    LET grace == IF release[p] = "none" THEN "running" ELSE release[p]
        chosen == place(p)
    IN
    CASE p \in chosen -> [want |-> rec[p].held \/ informed, release |-> "none"]
      [] p \notin chosen /\ ~rec[p].held -> [want |-> FALSE, release |-> "none"]
      [] p \notin chosen /\ rec[p].held /\ ~all_confirmed(p, chosen) ->
            [want |-> TRUE, release |-> "none"]
      [] OTHER -> [want |-> grace # "due", release |-> grace]

Decide(p, want) ==
    \E copy \in {holding(p, informed) : informed \in BOOLEAN} :
        /\ copy.want = want
        /\ release' = [release EXCEPT ![p] = copy.release]

(* Nothing to do but to keep the grace period up to date.                  *)
Keep(p) ==
    /\ Live(rec[p])
    /\ Decide(p, rec[p].held)
    /\ UNCHANGED <<rec, view, stored, faults>>

(* Repository::drop_holding *)
Release(p) ==
    /\ Live(rec[p]) /\ rec[p].held
    /\ Decide(p, FALSE)
    /\ rec' = [rec EXCEPT ![p].held = FALSE]
    /\ UNCHANGED <<view, stored, faults>>

(* Mesh::pull from a confirmed holder or the home; it fails when the       *)
(* source does not hold the head or there is no space.                     *)
Pull(p, q) ==
    /\ Live(rec[p]) /\ ~rec[p].held
    /\ q \in (confirmed(p) \cup {rec[p].home}) \ {p, NoOne}
    /\ p \in Roomy /\ Live(rec[q]) /\ rec[q].head = rec[p].head /\ rec[q].held
    /\ Decide(p, TRUE)
    /\ rec' = [rec EXCEPT ![p].held = TRUE]
    /\ UNCHANGED <<view, stored, faults>>

-----------------------------------------------------------------------------
(* Time and restarts.                                                      *)

Age(p, q) ==
    /\ Fault
    /\ q \in Known(p) /\ view[p][q].seen # "dead"
    /\ view' = [view EXCEPT ![p][q].seen = IF @ = "online" THEN "quiet" ELSE "dead"]
    /\ UNCHANGED <<rec, release, stored>>

GraceElapses(p) ==
    /\ release[p] = "running"
    /\ release' = [release EXCEPT ![p] = "due"]
    /\ UNCHANGED <<rec, view, stored, faults>>

Restart(p) ==
    /\ Fault
    /\ view' = [view EXCEPT ![p] = NoPeers]
    /\ release' = [release EXCEPT ![p] = "none"]
    /\ UNCHANGED <<rec, stored>>

-----------------------------------------------------------------------------
Init ==
    /\ rec = [p \in Provider |-> NoRecord]
    /\ view = [p \in Provider |-> NoPeers]
    /\ release = [p \in Provider |-> "none"]
    /\ stored = {}
    /\ faults = 0

Next ==
    \/ \E p \in Contact, h \in Heads : Put(p, h)
    \/ \E p \in Contact, h \in Heads : PutInterrupted(p, h)
    \/ \E p \in Contact : PutAgain(p)
    \/ \E p \in Contact : Delete(p)
    \/ \E p, q \in Provider : Hear(p, q)
    \/ \E p, q \in Provider : HearAgain(p, q)
    \/ \E p, q \in Provider : Index(p, q)
    \/ \E p, q \in Provider : Learn(p, q)
    \/ \E p \in Provider : Adopt(p)
    \/ \E p \in Provider : Keep(p)
    \/ \E p \in Provider : Release(p)
    \/ \E p, q \in Provider : Pull(p, q)
    \/ \E p, q \in Provider : Age(p, q)
    \/ \E p \in Provider : GraceElapses(p)
    \/ \E p \in Provider : Restart(p)

Spec == Init /\ [][Next]_vars

-----------------------------------------------------------------------------
(* Records, views and grace periods are well formed.                       *)
PlacementTypeOK ==
    /\ rec \in [Provider -> MeshRecord \cup {NoRecord}]
    /\ view \in [Provider -> [Provider -> Peer \cup {NoPeer}]]
    /\ release \in [Provider -> {"none", "running", "due"}]
    /\ stored \subseteq Heads
    /\ faults \in 0 .. MaxFaults

(* docs/escrow.md: "Former holders retain their copies until the selected  *)
(* holders confirm".  Each provider only knows what peers once said; still *)
(* however their views differ, age or are lost, placing and releasing      *)
(* copies never gives up the last copy of a head that was stored: some     *)
(* provider holds it, or a later head, or knows that it is deleted.        *)
StoredHeld ==
    \A h \in stored : \E p \in Provider :
        /\ rec[p] # NoRecord
        /\ rec[p].head = h \/ seqOf[rec[p].head] > seqOf[h]
        /\ rec[p].held \/ rec[p].deleted

=============================================================================
