------------------------------ MODULE EscrowMesh ------------------------------
(***************************************************************************)
(* What the providers of a mesh room tell each other of one slot, and what *)
(* they make of it: the pure part of src/src/escrow/mesh (decision.rs, the *)
(* digests and messages of service.rs) and Repository::learn.  Gossip of   *)
(* this metadata is EscrowGossip; where copies are kept, EscrowPlacement.  *)
(***************************************************************************)
EXTENDS EscrowHeads, FiniteSets, FiniteSetsExt

CONSTANTS
    Provider,     \* the providers of the room, by DID
    MaxFaults,    \* bound: restarts, peers falling silent, copies given up
    NoRecord,        \* no record of the slot
    NoPeer,       \* no entry in Room.peers
    NoOne         \* a record without home

ASSUME MeshAssumption == NoOne \notin Provider /\ MaxFaults \in Nat

(* repository_mesh.rs MeshRecord *)
MeshRecord == [head : Heads, deleted : BOOLEAN, held : BOOLEAN,
               home : Provider \cup {NoOne}]

(* MeshRecord::entry and digests of the room's only slot *)
Entry == [head : Heads, deleted : BOOLEAN, held : BOOLEAN]

(* Mutant: the whole record is sent. *)
entryWhole(r) == r

entry(r) == IF r = NoRecord THEN NoRecord
            ELSE [head |-> r.head, deleted |-> r.deleted, held |-> r.held /\ ~r.deleted]

digest(r) == IF r = NoRecord THEN NoRecord ELSE <<r.head, r.deleted>>

held_digest(r) == IF r # NoRecord /\ r.held /\ ~r.deleted THEN r.head ELSE NoHead

(* Repository::reserve: which PUT goes on to pull the blob.                *)
Cas(h, r) ==
    IF r = NoRecord THEN check_cas(h, NoHead) = "ok"
    ELSE IF r.deleted THEN successor(h, r.head)
    ELSE check_cas(h, r.head) = "ok" \/ (check_cas(h, r.head) = "retry" /\ ~r.held)

(* decision.rs needs_head *)
needs_head(local, remote) ==
    \/ local = NoRecord
    \/ seqOf[remote.head] > seqOf[local.head]
    \/ /\ seqOf[remote.head] = seqOf[local.head]
       /\ remote.head # local.head \/ remote.deleted # local.deleted

(* Mutant: a live head of the deleted head's sequence is taken as new.     *)
learnResurrects(r, h, del) ==
    LET how == acceptance(IF r = NoRecord THEN NoHead ELSE r.head, h) IN
    CASE how \in {"Stale", "Conflict", "WriterMismatch"} -> how
      [] r # NoRecord /\ r.deleted = del /\ how = "Same" -> "Same"
      [] OTHER -> "New"

(* Repository::learn: what becomes of a head or tombstone.                 *)
learn(r, h, del) ==
    LET how == acceptance(IF r = NoRecord THEN NoHead ELSE r.head, h) IN
    CASE how \in {"Stale", "Conflict", "WriterMismatch"} -> how
      [] r # NoRecord /\ r.deleted /\ del /\ r.head = h -> "Same"
      [] r # NoRecord /\ r.deleted /\ ~del /\ seqOf[h] =< seqOf[r.head] + 1
           /\ ~successor(h, r.head) -> "deleted"
      [] r # NoRecord /\ ~r.deleted /\ ~del /\ how = "Same" -> "Same"
      [] OTHER -> "New"

(* The record Repository::learn publishes for accepted news.               *)
Learned(r, h, del, home) ==
    [head |-> h, deleted |-> del, held |-> FALSE,
     home |-> IF home # NoOne \/ r = NoRecord THEN home ELSE r.home]

=============================================================================
