--------------------------- MODULE MCEscrowReplica ---------------------------
(* Small instances of EscrowReplica.  Heads a1 <- a2 form a chain of slot  *)
(* s, c1 competes with a1, and b1 is the first head of slot q.             *)
EXTENDS EscrowReplica

MCSlotOf == "a1" :> "s" @@ "a2" :> "s" @@ "c1" :> "s" @@ "b1" :> "q"
MCSeqOf == "a1" :> 1 @@ "a2" :> 2 @@ "c1" :> 1 @@ "b1" :> 1
MCParentOf == "a1" :> NoHead @@ "a2" :> "a1" @@ "c1" :> NoHead @@ "b1" :> NoHead

slotOfValue == [h \in Heads |-> MCSlotOf[h]]
seqOfValue == [h \in Heads |-> MCSeqOf[h]]
parentOfValue == [h \in Heads |-> MCParentOf[h]]
writerOfValue == [h \in Heads |-> "w"]

(* Somebody may still count the last acknowledgement of f.                 *)
Counts(f) ==
    \E l \in Node : /\ node[l].leads /\ node[l].term = sent[f].append.term
                    /\ sent[f].append.index > node[l].commit

(* Acknowledgements that no leader can count any more are not told apart:  *)
(* no action and no property depends on them.                              *)
View ==
    <<node, [f \in Node |-> IF Counts(f) THEN sent[f]
                            ELSE [sent[f] EXCEPT !.append = NoAck]],
      queue, req, prep, preparing, offers, late, ack, faults>>

Symmetry == Permutations(Voter)

=============================================================================
