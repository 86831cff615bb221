---------------------------- MODULE TunnelForward ----------------------------
(* Proposals of a port forward (src/src/tunnel/negotiation.rs, the session's *)
(* resolve and outcome handling, forward_store.rs, controller.rs): one peer  *)
(* proposes, the other's operator or rule accepts, the serving forward is    *)
(* started, stored and trusted there and the connecting one here.  Messages  *)
(* are handled on tasks of their own, so they overtake one another.  All     *)
(* proposals name the same target; "other" stands for the other forwards of  *)
(* the serving peer's store.                                                 *)
EXTENDS Naturals, Sequences, FiniteSets, SequencesExt

CONSTANTS
    Proposal,       \* request ids
    MaxOutgoing,    \* MAX_OUTGOING
    MaxIncoming,    \* MAX_INCOMING_PER_PEER
    MaxFwdEvents    \* bound on restarts, failed sends and writes, removals

ASSUME ForwardAssumption ==
    {MaxOutgoing, MaxIncoming, MaxFwdEvents} \subseteq Nat

VARIABLES
    proposed,    \* request ids used so far
    outgoing,    \* requester: ForwardNegotiator.outgoing
    outcomes,    \* requester: ForwardNegotiator.outcomes
    applied,     \* requester: outcomes applied for each request
    connectFwd,  \* requester: the Connect forward runs
    inFlight,    \* messages between the two peers
    incoming,    \* server: ForwardNegotiator.incoming
    resolving,   \* server: the task under the resolution lock
    serving,     \* server: forwards of the controller
    entries,     \* server: ForwardStore.entries
    file,        \* server: forwards.json
    writing,     \* server: snapshots taken by persist and not yet written
    accepted,    \* server: requests answered yes
    fwdEvents

fwdVars == <<proposed, outgoing, outcomes, applied, connectFwd, inFlight, incoming,
             resolving, serving, entries, file, writing, accepted, fwdEvents>>
serverVars == <<incoming, resolving, serving, entries, file, writing, accepted>>
requesterVars == <<proposed, outgoing, outcomes, applied, connectFwd>>

Fwd == {"target", "other"}
FwdMsg == [t : {"request", "cancel", "yes", "no"}, req : Proposal]
Free == [step |-> "free"]

(* Types of the state: both peers' tables and the messages between them.     *)
ForwardTypeOK ==
    /\ outgoing \subseteq proposed /\ proposed \subseteq Proposal
    /\ outcomes \in Seq([req : Proposal, yes : BOOLEAN])
    /\ applied \in [Proposal -> Seq(BOOLEAN)]
    /\ connectFwd \in BOOLEAN
    /\ inFlight \subseteq FwdMsg
    /\ incoming \subseteq Proposal /\ accepted \subseteq Proposal
    /\ resolving = Free \/ resolving \in [step : {"add", "snapshot", "write", "answer", "take"},
                                          req : Proposal, yes : BOOLEAN]
    /\ serving \subseteq Fwd /\ entries \subseteq Fwd /\ file \subseteq Fwd
    /\ writing \in [{"resolve", "remove"} -> {Free} \cup [snapshot : SUBSET Fwd]]
    /\ fwdEvents \in 0..MaxFwdEvents

ForwardInit ==
    /\ proposed = {} /\ outgoing = {} /\ outcomes = <<>> /\ connectFwd = FALSE
    /\ applied = [r \in Proposal |-> <<>>]
    /\ inFlight = {} /\ incoming = {} /\ accepted = {}
    /\ resolving = Free
    /\ serving = {"other"} /\ entries = {"other"} /\ file = {"other"}
    /\ writing = [w \in {"resolve", "remove"} |-> Free]
    /\ fwdEvents = 0

FwdEvent == fwdEvents < MaxFwdEvents /\ fwdEvents' = fwdEvents + 1

(* A send reaches the transport or reports an error.                         *)
Sends(m) == inFlight' = inFlight \cup {m}

(***************************************************************************)
(* The requester.                                                            *)
(***************************************************************************)

(* send_outgoing_forward: recorded before it is sent, and forgotten when the *)
(* send fails.                                                               *)
SendOutgoing(r) ==
    /\ r \notin proposed /\ proposed' = proposed \cup {r}
    /\ Cardinality(outgoing) < MaxOutgoing
    /\ \/ /\ outgoing' = outgoing \cup {r} /\ Sends([t |-> "request", req |-> r])
          /\ UNCHANGED fwdEvents
       \/ FwdEvent /\ UNCHANGED <<outgoing, inFlight>>
    /\ UNCHANGED <<outcomes, applied, connectFwd, serverVars>>

(* cancel_outgoing_forward: a best-effort notice.                            *)
CancelOutgoing(r) ==
    /\ r \in outgoing
    /\ outgoing' = outgoing \ {r}
    /\ \/ Sends([t |-> "cancel", req |-> r]) \/ UNCHANGED inFlight
    /\ UNCHANGED <<proposed, outcomes, applied, connectFwd, serverVars, fwdEvents>>

(* Mutant: an answer to a proposal that was given up counts.                 *)
RecordResponseAny(m) ==
    /\ m \in inFlight /\ m.t \in {"yes", "no"}
    /\ inFlight' = inFlight \ {m} /\ outgoing' = outgoing \ {m.req}
    /\ outcomes' = Append(outcomes, [req |-> m.req, yes |-> m.t = "yes"])
    /\ UNCHANGED <<proposed, applied, connectFwd, serverVars, fwdEvents>>

(* record_response: only for a request still outstanding.                    *)
RecordResponse(m) ==
    /\ m \in inFlight /\ m.t \in {"yes", "no"}
    /\ inFlight' = inFlight \ {m}
    /\ IF m.req \in outgoing
       THEN /\ outgoing' = outgoing \ {m.req}
            /\ outcomes' = Append(outcomes, [req |-> m.req, yes |-> m.t = "yes"])
       ELSE UNCHANGED <<outgoing, outcomes>>
    /\ UNCHANGED <<proposed, applied, connectFwd, serverVars, fwdEvents>>

(* drain_outcomes fails what is older than OUTGOING_TTL, purge_peer what was  *)
(* addressed to a peer that left.                                            *)
FailOutgoing(rs) ==
    /\ rs # {} /\ rs \subseteq outgoing
    /\ outgoing' = outgoing \ rs
    /\ outcomes' = outcomes \o SetToSeq({[req |-> r, yes |-> FALSE] : r \in rs})
    /\ UNCHANGED <<proposed, applied, connectFwd, inFlight, serverVars, fwdEvents>>

(* drain_and_apply_outcomes: apply_forward_outcome starts the Connect forward *)
(* of an accepted one (replacing its own), or reports the port as taken.     *)
ApplyOutcomes ==
    /\ outcomes # <<>>
    /\ outcomes' = Tail(outcomes)
    /\ applied' = [applied EXCEPT ![outcomes[1].req] = Append(@, outcomes[1].yes)]
    /\ \/ outcomes[1].yes /\ connectFwd' = TRUE /\ UNCHANGED fwdEvents
       \/ outcomes[1].yes /\ FwdEvent /\ UNCHANGED connectFwd
       \/ ~outcomes[1].yes /\ UNCHANGED <<connectFwd, fwdEvents>>
    /\ UNCHANGED <<proposed, outgoing, inFlight, serverVars>>

(***************************************************************************)
(* The serving peer.                                                         *)
(***************************************************************************)

(* record_incoming, a request being recorded once and within the caps.       *)
RecordIncoming(r) ==
    /\ [t |-> "request", req |-> r] \in inFlight
    /\ inFlight' = inFlight \ {[t |-> "request", req |-> r]}
    /\ incoming' = IF Cardinality(incoming) < MaxIncoming THEN incoming \cup {r} ELSE incoming
    /\ UNCHANGED <<requesterVars, resolving, serving, entries, file, writing, accepted, fwdEvents>>

(* cancel_incoming                                                           *)
CancelIncoming(r) ==
    /\ [t |-> "cancel", req |-> r] \in inFlight
    /\ inFlight' = inFlight \ {[t |-> "cancel", req |-> r]}
    /\ incoming' = incoming \ {r}
    /\ UNCHANGED <<requesterVars, resolving, serving, entries, file, writing, accepted, fwdEvents>>

(* INCOMING_TTL, or purge_peer.                                              *)
ForgetIncoming(rs) ==
    /\ rs # {} /\ rs \subseteq incoming
    /\ incoming' = incoming \ rs
    /\ UNCHANGED <<requesterVars, inFlight, resolving, serving, entries, file, writing,
                   accepted, fwdEvents>>

(* resolve_forward and apply_proposal_rule take the resolution lock and find  *)
(* the request.  A rule answers when evaluate finds one, the operator always. *)
ResolveForward(r, yes) ==
    /\ resolving = Free /\ r \in incoming
    /\ resolving' = [step |-> IF yes THEN "add" ELSE "answer", req |-> r, yes |-> yes]
    /\ UNCHANGED <<requesterVars, inFlight, incoming, serving, entries, file, writing,
                   accepted, fwdEvents>>

StepTo(s) == resolving' = [resolving EXCEPT !.step = s]

(* add_forward unless the same forward runs; then the store's entries.       *)
ResolveAdds ==
    /\ resolving.step = "add"
    /\ serving' = serving \cup {"target"}
    /\ entries' = entries \cup {"target"}
    /\ StepTo("snapshot")
    /\ UNCHANGED <<requesterVars, inFlight, incoming, file, writing, accepted, fwdEvents>>

(* ForwardStore.persist serialises the entries and then writes the file, with *)
(* no lock over the two.                                                     *)
Snapshot(w) == writing' = [writing EXCEPT ![w] = [snapshot |-> entries]]

ResolveSnapshots ==
    /\ resolving.step = "snapshot"
    /\ Snapshot("resolve") /\ StepTo("write")
    /\ UNCHANGED <<requesterVars, inFlight, incoming, serving, entries, file, accepted, fwdEvents>>

(* The write, then the trust of a verified peer; when either fails the        *)
(* request stays pending with its forward running.                           *)
ResolveWrites ==
    /\ resolving.step = "write"
    /\ writing' = [writing EXCEPT !["resolve"] = Free]
    /\ \/ file' = writing["resolve"].snapshot /\ StepTo("answer") /\ UNCHANGED fwdEvents
       \/ FwdEvent /\ resolving' = Free /\ file' \in {file, writing["resolve"].snapshot}
    /\ UNCHANGED <<requesterVars, inFlight, incoming, serving, entries, accepted>>

(* The answer; a failed send leaves the request pending.                     *)
ResolveAnswers ==
    /\ resolving.step = "answer"
    /\ LET yes == resolving.yes
           m == [t |-> IF yes THEN "yes" ELSE "no", req |-> resolving.req]
       IN  \/ /\ Sends(m) /\ StepTo("take")
              /\ accepted' = IF yes THEN accepted \cup {resolving.req} ELSE accepted
              /\ UNCHANGED fwdEvents
           \/ FwdEvent /\ resolving' = Free /\ UNCHANGED <<inFlight, accepted>>
    /\ UNCHANGED <<requesterVars, incoming, serving, entries, file, writing>>

(* take_incoming                                                             *)
ResolveTakes ==
    /\ resolving.step = "take"
    /\ incoming' = incoming \ {resolving.req}
    /\ resolving' = Free
    /\ UNCHANGED <<requesterVars, inFlight, serving, entries, file, writing, accepted, fwdEvents>>

(* remove_forward of another forward: the controller, then the store.        *)
RemoveForward ==
    /\ "other" \in serving /\ writing["remove"] = Free
    /\ serving' = serving \ {"other"}
    /\ entries' = entries \ {"other"}
    /\ writing' = [writing EXCEPT !["remove"] = [snapshot |-> entries']]
    /\ UNCHANGED <<requesterVars, inFlight, incoming, resolving, file, accepted, fwdEvents>>

RemoveWrites ==
    /\ writing["remove"] # Free
    /\ file' = writing["remove"].snapshot
    /\ writing' = [writing EXCEPT !["remove"] = Free]
    /\ UNCHANGED <<requesterVars, inFlight, incoming, resolving, serving, entries, accepted,
                   fwdEvents>>

(* The serving daemon stops and SessionContext.build restores the store.     *)
ServerRestarts ==
    /\ FwdEvent
    /\ serving' = file /\ entries' = file
    /\ incoming' = {} /\ resolving' = Free
    /\ writing' = [w \in {"resolve", "remove"} |-> Free]
    /\ UNCHANGED <<requesterVars, inFlight, file, accepted>>

ForwardNext ==
    \/ \E r \in Proposal : \/ SendOutgoing(r) \/ CancelOutgoing(r)
                           \/ RecordIncoming(r) \/ CancelIncoming(r)
                           \/ \E yes \in BOOLEAN : ResolveForward(r, yes)
    \/ \E m \in FwdMsg : RecordResponse(m)
    \/ \E rs \in SUBSET Proposal : FailOutgoing(rs) \/ ForgetIncoming(rs)
    \/ ApplyOutcomes
    \/ ResolveAdds \/ ResolveSnapshots \/ ResolveWrites \/ ResolveAnswers \/ ResolveTakes
    \/ RemoveForward \/ RemoveWrites \/ ServerRestarts

ForwardSpec == ForwardInit /\ [][ForwardNext]_fwdVars

(* A proposal is settled once: answers, time-outs and departures that race    *)
(* give the requester one outcome, a withdrawn proposal none that it applies *)
(* later, and an outcome of yes only if the other peer answered yes.         *)
ForwardSettledOnce ==
    \A r \in Proposal :
        /\ Len(applied[r]) + Cardinality({i \in DOMAIN outcomes : outcomes[i].req = r})
              + Cardinality({r} \cap outgoing) <= 1
        /\ (\E i \in DOMAIN applied[r] : applied[r][i]) => r \in accepted

=============================================================================
