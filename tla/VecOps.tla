------------------------------- MODULE VecOps -------------------------------
(* Two operations of Rust's Vec and VecDeque that tables with expiring       *)
(* entries are kept by.  The entries to keep, or to drop, are given as a set.*)
EXTENDS Naturals, Sequences, FiniteSetsExt

(* retain: the entries in keep, in their order.                             *)
Retain(s, keep) ==
    LET kept[i \in 0 .. Len(s)] ==
            IF i = 0 THEN <<>>
            ELSE IF s[i] \in keep THEN Append(kept[i - 1], s[i]) ELSE kept[i - 1]
    IN  kept[Len(s)]

(* pop_front for as long as the front is in gone.                           *)
PopWhile(s, gone) ==
    SubSeq(s, Min({i \in 1 .. Len(s) + 1 : i <= Len(s) => s[i] \notin gone}), Len(s))
=============================================================================
