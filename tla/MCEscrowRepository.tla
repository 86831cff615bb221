------------------------- MODULE MCEscrowRepository -------------------------
(* Small instances of EscrowRepository.  Heads a1 <- a2 <- a3 form a chain  *)
(* of slot s, f2 forks it at sequence 2, x1 is another writer's first head, *)
(* and b1 <- b2 belong to slot q.                                           *)
EXTENDS EscrowRepository, TLC

MCSlotOf == "a1" :> "s" @@ "a2" :> "s" @@ "a3" :> "s" @@ "f2" :> "s" @@ "x1" :> "s"
            @@ "b1" :> "q" @@ "b2" :> "q"
MCSeqOf == "a1" :> 1 @@ "a2" :> 2 @@ "a3" :> 3 @@ "f2" :> 2 @@ "x1" :> 1
           @@ "b1" :> 1 @@ "b2" :> 2
MCParentOf == "a1" :> NoHead @@ "a2" :> "a1" @@ "a3" :> "a2" @@ "f2" :> "a1"
              @@ "x1" :> NoHead @@ "b1" :> NoHead @@ "b2" :> "b1"
MCWriterOf == "a1" :> "w" @@ "a2" :> "w" @@ "a3" :> "w" @@ "f2" :> "w"
              @@ "x1" :> "v" @@ "b1" :> "w" @@ "b2" :> "w"
MCSize == "a1" :> 2 @@ "a2" :> 2 @@ "a3" :> 2 @@ "f2" :> 1 @@ "x1" :> 1
          @@ "b1" :> 1 @@ "b2" :> 2

Pick(f) == [h \in Heads |-> f[h]]

slotOfValue == Pick(MCSlotOf)
seqOfValue == Pick(MCSeqOf)
parentOfValue == Pick(MCParentOf)
writerOfValue == Pick(MCWriterOf)
sizeValue == Pick(MCSize)
reserveSizeValue == [h \in Heads |-> MCSize[h] + 1]
ownerLimitValue == [p \in Peer |-> IF p = "p" THEN 5 ELSE 20]

=============================================================================
