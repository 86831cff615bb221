--------------------------- MODULE MCPeerServices ---------------------------
(* The services of one daemon that answer peers: tunnels, folder requests,    *)
(* relay consensus, direct messages, peer authentication, chat relay, the     *)
(* capabilities, tokens and meters of authorization, the relay of screen      *)
(* shares and its video, and the placement of escrow slots.  Each has its own *)
(* tables, files and handlers,                                                *)
(* so what holds of each alone holds of the daemon: part is the service whose *)
(* steps a behaviour takes, and the others stay in their initial states.      *)
EXTENDS TunnelTcp, TunnelAuth, TunnelForward, TunnelGraph, FolderAccess, RelayConsensus,
        DirectMessages, PeerAuth, ChatRelay, Capabilities, UsageMeters, StreamRelay,
        StreamVideo, EscrowPlacement, TLC

VARIABLE part

MCSeqOf == "a1" :> 1
MCParentOf == "a1" :> NoHead
MCRank == "p" :> 1 @@ "q" :> 2 @@ "r" :> 3

slotOfValue == [h \in Heads |-> "s"]
seqOfValue == [h \in Heads |-> MCSeqOf[h]]
parentOfValue == [h \in Heads |-> MCParentOf[h]]
writerOfValue == [h \in Heads |-> "w"]
rankValue == [p \in Provider |-> MCRank[p]]

(* i delegates a slot to h, and h to g for a shorter time; this daemon grants *)
(* one capability and is granted one.                                       *)
capOfValue ==
    [c \in Cap |->
        CASE c = "c1" -> [issuer |-> "i", aud |-> "h", exp |-> 3, parent |-> NoCap, slot |-> TRUE]
          [] c = "c2" -> [issuer |-> "h", aud |-> "g", exp |-> 2, parent |-> "c1", slot |-> TRUE]
          [] c = "m" -> [issuer |-> "me", aud |-> "h", exp |-> 2, parent |-> NoCap, slot |-> FALSE]
          [] c = "s" -> [issuer |-> "i", aud |-> "me", exp |-> 2, parent |-> NoCap, slot |-> FALSE]]

(* A daily and a monthly limit.                                             *)
FirstLimitsValue == [period |-> "day", max |-> 1]
UsageLimitsValue == {FirstLimitsValue, [period |-> "month", max |-> 1]}

(* Two peers have each signed one message, two windows apart.               *)
DmWireValue == {[from |-> "p", id |-> "m", ts |-> 1], [from |-> "q", id |-> "n", ts |-> 3]}

(* One sharer with sound, a second one, and a fellow relay that re-publishes.*)
TrackOfferValue ==
    {[peer |-> "s", kind |-> "video"], [peer |-> "s", kind |-> "audio"],
     [peer |-> "t", kind |-> "video"], [peer |-> "x", kind |-> "video"]}

(* A keyframe in fragments, a unit without one, padding, a fragmented unit,   *)
(* one too large, a plain one, a second keyframe and a last unit.             *)
InUnit(au, idr, marker, payload) ==
    [au |-> au, idr |-> idr, marker |-> marker, payload |-> payload]

PacketValue ==
    <<InUnit(1, FALSE, FALSE, "whole"), InUnit(1, TRUE, FALSE, "start"),
      InUnit(1, TRUE, TRUE, "end"), InUnit(2, FALSE, FALSE, "whole"),
      InUnit(2, FALSE, TRUE, "whole"), InUnit(2, FALSE, FALSE, "padding"),
      InUnit(3, FALSE, FALSE, "start"), InUnit(3, FALSE, TRUE, "end"),
      InUnit(4, FALSE, FALSE, "whole"), InUnit(4, FALSE, FALSE, "whole"),
      InUnit(4, FALSE, FALSE, "whole"), InUnit(4, FALSE, TRUE, "whole"),
      InUnit(5, FALSE, TRUE, "whole"), InUnit(6, TRUE, FALSE, "whole"),
      InUnit(6, TRUE, TRUE, "whole"), InUnit(7, FALSE, TRUE, "whole")>>

Rest ==
    /\ UNCHANGED part
    /\ part # "tcp" => UNCHANGED tcpVars
    /\ part # "auth" => UNCHANGED authVars
    /\ part # "forward" => UNCHANGED fwdVars
    /\ part # "graph" => UNCHANGED graphVars
    /\ part # "access" => UNCHANGED accessVars
    /\ part # "relay" => UNCHANGED relayVars
    /\ part # "dm" => UNCHANGED dmVars
    /\ part # "peers" => UNCHANGED peerAuthVars
    /\ part # "chat" => UNCHANGED chatVars
    /\ part # "caps" => UNCHANGED capVars
    /\ part # "usage" => UNCHANGED usageVars
    /\ part # "cast" => UNCHANGED castVars
    /\ part # "video" => UNCHANGED videoVars
    /\ part # "placement" => UNCHANGED vars

PeerServicesInit ==
    /\ part \in {"tcp", "auth", "forward", "graph", "access", "relay", "dm", "peers", "chat",
                 "caps", "usage", "cast", "video", "placement"}
    /\ TcpInit /\ AuthInit /\ ForwardInit /\ GraphInit /\ AccessInit /\ RelayInit /\ DmInit
    /\ PeerAuthInit /\ ChatInit /\ CapInit /\ UsageInit /\ CastInit /\ VideoInit /\ Init
    /\ \A k \in TrustKeys : trust[k] = "none" \/ (part = "auth" /\ trust[k] = "allow")
    /\ Cardinality({k \in TrustKeys : trust[k] # "none"}) <= 1
    /\ part # "caps" => issuers = {}
    /\ part # "cast" => currentView.role = "disabled"
    /\ part # "graph" => gRoom.name = CHOOSE r \in GraphRoom : TRUE

(* Bounds on several kinds of event together, in three of the services.      *)
MaxCastSteps == 5
MaxUsageSteps == 3
MaxDmSteps == 5

Explored ==
    /\ Len(tracks) + Cardinality(gone) + castEvents <= MaxCastSteps
    /\ usageOps + usageFaults + (today - FirstDay) <= MaxUsageSteps
    /\ dmOps + dmFaults + dmNow <= MaxDmSteps

PeerServicesNext ==
    \/ part = "tcp" /\ Rest /\ TcpNext
    \/ part = "auth" /\ Rest /\ AuthNext
    \/ part = "forward" /\ Rest /\ ForwardNext
    \/ part = "graph" /\ Rest /\ GraphNext
    \/ part = "access" /\ Rest /\ AccessNext
    \/ part = "relay" /\ Rest /\ RelayNext
    \/ part = "dm" /\ Rest /\ DmNext /\ Explored'
    \/ part = "peers" /\ Rest /\ PeerAuthNext
    \/ part = "chat" /\ Rest /\ ChatNext
    \/ part = "caps" /\ Rest /\ CapNext
    \/ part = "usage" /\ Rest /\ UsageNext /\ Explored'
    \/ part = "cast" /\ Rest /\ CastNext /\ Explored'
    \/ part = "video" /\ Rest /\ VideoNext
    \/ part = "placement" /\ Rest /\ Next

PeerServicesSpec ==
    /\ PeerServicesInit
    /\ [][PeerServicesNext]_<<part, tcpVars, authVars, fwdVars, graphVars, accessVars, relayVars,
                              dmVars, peerAuthVars, chatVars, capVars, usageVars, castVars,
                              videoVars, vars>>

(* The two calls, requests or tasks that a service runs at once are alike.    *)
AuthState ==
    <<trust, trustFile, [n \in DOMAIN rows |-> rows[n].req],
      {<<auth[t], {n \in DOMAIN rows : t \in rows[n].waiters}>> : t \in AuthTask},
      nextRow, linked, consent, authEvents>>

ChatState == <<Range(chatTask), [chatVars EXCEPT ![4] = {}]>>

UsageState == <<Range(authorized), [usageVars EXCEPT ![8] = {}]>>

(* The variables of the services that rest need no comparing.                *)
PartState ==
    <<part,
      CASE part = "tcp" -> tcpVars [] part = "auth" -> AuthState [] part = "forward" -> fwdVars
        [] part = "graph" -> graphVars [] part = "access" -> accessVars
        [] part = "relay" -> relayVars [] part = "dm" -> dmVars [] part = "peers" -> peerAuthVars
        [] part = "chat" -> ChatState [] part = "caps" -> capVars [] part = "usage" -> UsageState
        [] part = "cast" -> castVars [] part = "video" -> videoVars
        [] part = "placement" -> vars>>

(* Every service keeps the types of its tables, and their limits.           *)
PeerServicesTypeOK ==
    CASE part = "tcp" -> TcpTypeOK [] part = "auth" -> AuthTypeOK
      [] part = "forward" -> ForwardTypeOK [] part = "graph" -> GraphTypeOK
      [] part = "access" -> AccessTypeOK [] part = "relay" -> RelayTypeOK
      [] part = "dm" -> DmTypeOK [] part = "peers" -> PeerAuthTypeOK
      [] part = "chat" -> ChatTypeOK [] part = "caps" -> CapTypeOK
      [] part = "usage" -> UsageTypeOK [] part = "cast" -> CastTypeOK
      [] part = "video" -> VideoTypeOK [] part = "placement" -> PlacementTypeOK

(* A stream arrives as it was sent: the bytes of a tunnel connection in       *)
(* order, the tracks of the publisher a relay is locked to and of nobody      *)
(* else, and access units a viewer can decode - with messages dropped and     *)
(* late, connections reset and tracks replaced meanwhile.                     *)
StreamsIntact ==
    CASE part = "tcp" -> TcpStreamIntact [] part = "cast" -> CastInStep
      [] part = "video" -> SentDecodable [] OTHER -> TRUE

(* The operator decides: a tunnel connection goes ahead, and a folder's key   *)
(* is handed out, only for the peer and the target an operator (or the        *)
(* policy) agreed to, whatever was pending, expired or changed meanwhile; and *)
(* a capability or an API token that was revoked lets nobody in again.        *)
OperatorConsent ==
    CASE part = "auth" -> AuthConsented [] part = "access" -> GrantsConsented
      [] part = "caps" -> RevocationsHold [] part = "usage" -> TokensStayRevoked
      [] OTHER -> TRUE

(* Decisions reach whom they concern, once: the operator's answer to a        *)
(* connection finds every call that waits for it, and a proposed forward is   *)
(* settled once, although calls and proposals time out, coalesce and depart.  *)
DecisionsSettled ==
    CASE part = "auth" -> AuthRowsLive [] part = "forward" -> ForwardSettledOnce [] OTHER -> TRUE

(* Replays have no effect: a Raft message, a direct message and a proof of    *)
(* identity take effect once however often they arrive, and a chat envelope   *)
(* is kept once - at the edges of the clocks, windows and caps that bound     *)
(* what each service remembers.                                               *)
AtMostOnce ==
    CASE part = "relay" -> RaftOnce [] part = "dm" -> DmOnce [] part = "peers" -> ProofOnce
      [] part = "chat" -> WireLogOnce [] OTHER -> TRUE
=============================================================================
