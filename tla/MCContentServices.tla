-------------------------- MODULE MCContentServices --------------------------
(* The services of one daemon that keep and forward content: scheduled jobs,  *)
(* bot pipelines, shared folders, the Nostr relay and its mesh, the AI network *)
(* and escrow gossip.  As in MCPeerServices, part is the service whose steps  *)
(* a behaviour takes; the others stay in their initial states.                *)
EXTENDS Scheduler, BotPipeline, FolderShare, NostrRelay, NostrMesh, EscrowGossip,
        AiProvider, AiConsumer, TLC

VARIABLE part

MCSeqOf == "a1" :> 1 @@ "a2" :> 2
MCParentOf == "a1" :> NoHead @@ "a2" :> "a1"

slotOfValue == [h \in Heads |-> "s"]
seqOfValue == [h \in Heads |-> MCSeqOf[h]]
parentOfValue == [h \in Heads |-> MCParentOf[h]]
writerOfValue == [h \in Heads |-> "w"]

(* One article and one post the pipeline's filter excludes, of one author.  *)
kindOfValue == [i \in Item |-> IF i = 2 THEN "excluded" ELSE "article"]
senderOfValue == [i \in Item |-> 1]

(* A note, two versions of a profile and a deletion of both, of one author. *)
MCEvent(id, time, class, address, ids, addresses) ==
    [id |-> id, time |-> time, author |-> "p", class |-> class, address |-> address,
     deletes |-> ids, deletesAddresses |-> addresses]
NostrEventValue ==
    {MCEvent(1, 1, "regular", NoAddress, <<>>, <<>>),
     MCEvent(2, 2, "replaceable", "k", <<>>, <<>>),
     MCEvent(3, 1, "replaceable", "k", <<>>, <<>>),
     MCEvent(4, 2, "deletion", NoAddress, <<1>>, <<"k">>)}

(* One request, and one call, of every kind. *)
aiKindValue == "l" :> "llm" @@ "v" :> "tts" @@ "s" :> "stt" @@ "o" :> "oai"
callKindValue == "c" :> "chat" @@ "v" :> "tts" @@ "s" :> "stt" @@ "o" :> "oai"

Rest ==
    /\ UNCHANGED part
    /\ part # "sched" => UNCHANGED schedVars
    /\ part # "bot" => UNCHANGED botVars
    /\ part # "share" => UNCHANGED shareVars
    /\ part # "nostr" => UNCHANGED nostrVars
    /\ part # "mesh" => UNCHANGED meshVars
    /\ part # "gossip" => UNCHANGED gossipVars
    /\ part # "provider" => UNCHANGED aiVars
    /\ part # "consumer" => UNCHANGED aiConsumerVars

ContentServicesInit ==
    /\ part \in {"sched", "bot", "share", "nostr", "mesh", "gossip", "provider", "consumer"}
    /\ SchedInit /\ BotInit /\ ShareInit /\ NostrInit /\ MeshInit /\ GossipInit
    /\ AiInit /\ AiConsumerInit
    /\ part # "share" => ownFiles = <<>>

ContentServicesNext ==
    \/ part = "sched" /\ Rest /\ SchedNext
    \/ part = "bot" /\ Rest /\ BotNext
    \/ part = "share" /\ Rest /\ ShareNext
    \/ part = "nostr" /\ Rest /\ NostrNext
    \/ part = "mesh" /\ Rest /\ MeshNext
    \/ part = "gossip" /\ Rest /\ GossipNext
    \/ part = "provider" /\ Rest /\ AiProviderNext
    \/ part = "consumer" /\ Rest /\ AiConsumerNext

ContentServicesSpec ==
    /\ ContentServicesInit
    /\ [][ContentServicesNext]_<<part, schedVars, botVars, shareVars, nostrVars, meshVars,
                                 gossipVars, aiVars, aiConsumerVars>>

(* The variables of the services that rest need no comparing.                *)
PartState ==
    <<part,
      CASE part = "sched" -> schedVars [] part = "bot" -> botVars [] part = "share" -> shareVars
        [] part = "nostr" -> nostrVars [] part = "mesh" -> meshVars
        [] part = "gossip" -> gossipVars [] part = "provider" -> aiVars
        [] part = "consumer" -> aiConsumerVars>>

(* Every service keeps the types of its tables and files, and their limits. *)
ContentServicesTypeOK ==
    CASE part = "sched" -> SchedTypeOK [] part = "bot" -> BotTypeOK
      [] part = "share" -> ShareTypeOK [] part = "nostr" -> NostrTypeOK
      [] part = "mesh" -> MeshTypeOK [] part = "gossip" -> GossipTypeOK
      [] part = "provider" -> AiProviderTypeOK [] part = "consumer" -> AiConsumerTypeOK

(* Nostr events are not skipped: neither between a subscription's stored and  *)
(* live events (server.rs text, websocket) nor by the gap tracker of a relay  *)
(* that follows a leader (mesh.rs Tracker).                                   *)
EventsCovered ==
    CASE part = "nostr" -> NothingMissed [] part = "mesh" -> GapsCovered [] OTHER -> TRUE

(* What crosses the AI network arrives whole and from whom it was asked of,   *)
(* and a provider refuses work only for work it has (provider.rs JobLimiter,  *)
(* SttBuffers; oai_tunnel.rs Assembly; consumer.rs request_tools).            *)
AiExchangesIntact ==
    CASE part = "provider" -> AiAccountsTrue /\ UploadsWhole
      [] part = "consumer" -> AnswersIntact [] OTHER -> TRUE
=============================================================================
