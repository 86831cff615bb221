----------------------------- MODULE MCProgress -----------------------------
(* What must eventually happen in the escrow repository, escrow gossip, bot   *)
(* pipelines, shared folders and the Nostr mesh.  As in MCPeerServices, part  *)
(* is the service whose steps a behaviour takes; the fairness of a service is *)
(* required of that one alone.                                                *)
EXTENDS EscrowRepository, EscrowGossip, BotPipeline, FolderShare, NostrMesh, TLC

VARIABLE part

MCSeqOf == "a1" :> 1
MCParentOf == "a1" :> NoHead

slotOfValue == [h \in Heads |-> "s"]
seqOfValue == [h \in Heads |-> MCSeqOf[h]]
parentOfValue == [h \in Heads |-> MCParentOf[h]]
writerOfValue == [h \in Heads |-> "w"]
sizeValue == [h \in Heads |-> 2]
reserveSizeValue == [h \in Heads |-> 3]
ownerLimitValue == [p \in Peer |-> 5]
kindOfValue == [i \in Item |-> "article"]
senderOfValue == [i \in Item |-> 1]

Rest ==
    /\ UNCHANGED part
    /\ part # "repository" => UNCHANGED vars
    /\ part # "gossip" => UNCHANGED gossipVars
    /\ part # "bot" => UNCHANGED botVars
    /\ part # "share" => UNCHANGED shareVars
    /\ part # "mesh" => UNCHANGED meshVars

ProgressInit ==
    /\ part \in {"repository", "gossip", "bot", "share", "mesh"}
    /\ Init /\ GossipInit /\ BotInit /\ ShareInit /\ MeshInit
    /\ part # "share" => ownFiles = <<>>

ProgressNext ==
    \/ part = "repository" /\ Rest /\ Next
    \/ part = "gossip" /\ Rest /\ (GossipNext \/ CalmDown)
    \/ part = "bot" /\ Rest /\ BotNext
    \/ part = "share" /\ Rest /\ ShareNext
    \/ part = "mesh" /\ Rest /\ MeshNext

(* The fairness of FairSpec, GossipFairSpec, BotFairSpec, ShareFairSpec and   *)
(* MeshFairSpec, each for its part.                                           *)
ProgressFairness ==
    /\ WF_vars(part = "repository" /\ Progress)
    /\ \A t \in Task :
          SF_vars(part = "repository" /\ (PullFailed(t) \/ Commit(t) \/ SetHomeAfterPut(t)))
    /\ WF_gossipVars(part = "gossip" /\ CalmDown)
    /\ WF_gossipVars(part = "gossip" /\ \E p \in Provider, m \in msgs : Deliver(p, m))
    /\ \A p \in Provider : SF_gossipVars(part = "gossip" /\ Tick(p, TRUE))
    /\ WF_botVars(part = "bot" /\ BotStep)
    /\ WF_shareVars(part = "share" /\ OwnerLoop) /\ WF_shareVars(part = "share" /\ DedupElapses)
    /\ WF_shareVars(part = "share" /\ FollowerLoop) /\ WF_shareVars(part = "share" /\ RetryTask)
    /\ \A n \in RelayNode :
          /\ WF_meshVars(part = "mesh" /\ Receive(n))
          /\ WF_meshVars(part = "mesh" /\ Distribute(n))
          /\ WF_meshVars(part = "mesh" /\ AntiEntropy(n))
          /\ \A p \in RelayNode : /\ WF_meshVars(part = "mesh" /\ Continuation(n, p))
                                  /\ WF_meshVars(part = "mesh" /\ SessionExpires(n, p))

ProgressSpec ==
    /\ ProgressInit
    /\ [][ProgressNext]_<<part, vars, gossipVars, botVars, shareVars, meshVars>>
    /\ ProgressFairness
=============================================================================
