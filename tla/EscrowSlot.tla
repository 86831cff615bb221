------------------------------ MODULE EscrowSlot ------------------------------
(***************************************************************************)
(* What the escrow repository promises about the durable state of a slot,  *)
(* without files, crashes or generations.  A slot has no head yet, a       *)
(* signed head, or the tombstone of one.  The writer of its first head is  *)
(* pinned, the sequence only grows, a tombstone is never undone by a head  *)
(* that is not newer than the deleted one, and only slots of rooms without *)
(* automatic replication can be forgotten.                                 *)
(***************************************************************************)
EXTENDS EscrowHeads

CONSTANTS
    Cell,        \* the (room, slot) pairs
    Permanent,   \* those that keep tombstones instead of being forgotten
    NoHeadYet

VARIABLE slot

Occupied == [head : Heads, dead : BOOLEAN]

SlotTypeOK == slot \in [Cell -> Occupied \cup {NoHeadYet}]

SlotInit == slot = [c \in Cell |-> NoHeadYet]

Newer(h, s) ==
    s # NoHeadYet => writerOf[h] = writerOf[s.head] /\ seqOf[h] > seqOf[s.head]

(* A head is stored: the first one, or a newer one of the same writer.     *)
Store(c, h) ==
    /\ Newer(h, slot[c])
    /\ slot' = [slot EXCEPT ![c] = [head |-> h, dead |-> FALSE]]

(* A tombstone is stored: of the current head, or of a newer one.          *)
Bury(c, h) ==
    /\ slot[c] = [head |-> h, dead |-> FALSE] \/ Newer(h, slot[c])
    /\ slot' = [slot EXCEPT ![c] = [head |-> h, dead |-> TRUE]]

Forget(c) ==
    /\ c \notin Permanent
    /\ slot' = [slot EXCEPT ![c] = NoHeadYet]

SlotNext ==
    \E c \in Cell :
        \/ \E h \in Heads : Store(c, h) \/ Bury(c, h)
        \/ Forget(c)

SlotSpec == SlotInit /\ [][SlotNext]_slot

=============================================================================
