----------------------------- MODULE EscrowHeads -----------------------------
(***************************************************************************)
(* Signed heads of the escrow protocol (src/src/escrow/protocol.rs) and    *)
(* the pure admission decisions taken on them (protocol.rs::check_cas and  *)
(* src/src/escrow/mesh/decision.rs).                                       *)
(*                                                                         *)
(* A head is an element of Heads: its fields are given by the constant      *)
(* functions below.  Two heads are equal exactly when their hashes are, so *)
(* a parent hash is the parent head itself.  Heads that fail validation or *)
(* signature verification are refused before any state is read and are not *)
(* elements of Heads.  A deletion request names the head it deletes and is  *)
(* signed by that head's writer, so it is represented by that head.        *)
(***************************************************************************)
EXTENDS Naturals

CONSTANTS
    Heads,        \* the well-formed, correctly signed heads
    NoHead,      \* the null parent, and an absent previous generation
    Slot,        \* opaque slot names
    Writer,      \* Ed25519 writer keys
    slotOf,      \* Head.slot
    seqOf,       \* Head.seq
    parentOf,    \* Head.parent
    writerOf,    \* Head.writer
    MaxSeq       \* protocol.rs MAX_SAFE: the largest admissible sequence

ASSUME HeadAssumption ==
    /\ NoHead \notin Heads
    /\ slotOf \in [Heads -> Slot]
    /\ seqOf \in [Heads -> Nat]
    /\ parentOf \in [Heads -> Heads \cup {NoHead}]
    /\ writerOf \in [Heads -> Writer]

ASSUME SeqAssumption ==
    /\ MaxSeq \in Nat
    /\ \A h \in Heads : seqOf[h] \in 1 .. MaxSeq

(* protocol.rs check_cas: "retry" is Ok(true), "ok" is Ok(false).          *)
check_cas(h, current) ==
    CASE current = NoHead /\ parentOf[h] = NoHead -> "ok"
      [] current = NoHead /\ parentOf[h] # NoHead -> "conflict"
      [] current # NoHead /\ writerOf[h] # writerOf[current] -> "writer_mismatch"
      [] current # NoHead /\ h = current -> "retry"
      [] OTHER -> IF parentOf[h] = current /\ seqOf[h] = seqOf[current] + 1
                  THEN "ok" ELSE "conflict"

(* decision.rs successor: h directly continues the deleted head d.         *)
successor(h, d) ==
    /\ writerOf[h] = writerOf[d]
    /\ seqOf[h] = seqOf[d] + 1
    /\ parentOf[h] = d

(* decision.rs acceptance: how mesh metadata about h relates to `current'. *)
acceptance(current, h) ==
    CASE current = NoHead -> "New"
      [] current # NoHead /\ writerOf[current] # writerOf[h] -> "WriterMismatch"
      [] current = h -> "Same"
      [] OTHER -> IF seqOf[h] < seqOf[current] THEN "Stale"
                  ELSE IF seqOf[h] = seqOf[current] THEN "Conflict"
                  ELSE "New"

=============================================================================
