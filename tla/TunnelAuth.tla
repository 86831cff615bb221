----------------------------- MODULE TunnelAuth ------------------------------
(* Authorization of incoming tunnel connections (src/src/tunnel/auth.rs,     *)
(* auth/, the authorizers of session.rs and graph.rs).  Every connection     *)
(* calls authorize on a task of its own: the room's graph policy, then what  *)
(* the operator remembered, then the configured policy, then a row of the    *)
(* pending list that identical requests share and the operator answers.      *)
(* A trust entry is keyed on the peer's DID, or on its node id when an older *)
(* version wrote it.                                                         *)
EXTENDS Naturals, FiniteSets

CONSTANTS
    TunnelPeer,     \* peers that connect
    ForwardKey,     \* forward keys
    AuthTask,       \* concurrent authorize calls
    AllowedPeer,    \* peers tunnel.allow_peers or auto_accept covers
    RemoteForward,  \* keys of forwards another node added (origin Remote)
    MaxRows,        \* bound on the rows ever opened
    MaxWaiters,     \* MAX_WAITERS_PER_REQUEST
    MaxPeerRows,    \* MAX_PENDING_PER_PEER
    MaxAuthEvents   \* bound on revocations, failed writes and policy changes

ASSUME AuthAssumption ==
    /\ AllowedPeer \subseteq TunnelPeer /\ RemoteForward \subseteq ForwardKey
    /\ {MaxRows, MaxWaiters, MaxPeerRows, MaxAuthEvents} \subseteq Nat

VARIABLES
    trust,      \* TrustStore.entries
    trustFile,  \* trust.json
    auth,       \* the authorize call of each task
    rows,       \* PendingAuthorizations.pending: id -> request and live waiters
    nextRow,    \* Inner.next_id
    linked,     \* peers the graph policy lets through, and its epoch
    consent,    \* (request, key) pairs the operator allowed, or legacy trust
    authEvents

authVars == <<trust, trustFile, auth, rows, nextRow, linked, consent, authEvents>>

Request == [peer : TunnelPeer, key : ForwardKey, verified : BOOLEAN]
TrustKeys == [kind : {"did", "node"}, peer : TunnelPeer, key : ForwardKey]
DidKey(r) == [kind |-> "did", peer |-> r.peer, key |-> r.key]
NodeKey(r) == [kind |-> "node", peer |-> r.peer, key |-> r.key]
Decision == {"allow", "deny", "allowAlways", "denyAlways"}
IdleCall == [at |-> "idle"]

(* Types of the state: decisions, calls, rows and their waiters.             *)
AuthTypeOK ==
    /\ trust \in [TrustKeys -> {"none", "allow", "deny"}]
    /\ trustFile \in [TrustKeys -> {"none", "allow", "deny"}]
    /\ \A t \in AuthTask :
          \/ auth[t] = IdleCall
          \/ /\ auth[t].at \in {"enqueue", "waiting", "expired", "answered", "persist", "done"}
             /\ auth[t].req \in Request /\ auth[t].epoch \in Nat
             /\ auth[t].row \in 0..MaxRows /\ auth[t].got \in Decision \cup {"none"}
    /\ \A n \in DOMAIN rows : n \in 1..MaxRows /\ rows[n].req \in Request
                              /\ rows[n].waiters \subseteq AuthTask
    /\ nextRow \in 1..MaxRows + 1
    /\ linked.peers \subseteq TunnelPeer /\ linked.epoch \in Nat
    /\ consent \subseteq TrustKeys \cup Request
    /\ authEvents \in 0..MaxAuthEvents

(* Entries of an older version are keyed on a node id.                      *)
AuthInit ==
    /\ trust \in {f \in [TrustKeys -> {"none", "allow", "deny"}] :
                     \A k \in TrustKeys : k.kind = "did" => f[k] = "none"}
    /\ trustFile = trust
    /\ auth = [t \in AuthTask |-> IdleCall]
    /\ rows = [n \in {} |-> 0] /\ nextRow = 1
    /\ linked = [peers |-> TunnelPeer, epoch |-> 0]
    /\ consent = {k \in DOMAIN trust : trust[k] = "allow"}
    /\ authEvents = 0

Event == authEvents < MaxAuthEvents /\ authEvents' = authEvents + 1

(* persist writes the whole table under persist_lock; a failed write leaves  *)
(* the file as it was.                                                       *)
Persist == \/ trustFile' = trust' /\ UNCHANGED authEvents
           \/ UNCHANGED trustFile /\ Event

(* Mutant: whether the peer is verified is not asked.                        *)
LookupUnverified(r) ==
    IF trust[DidKey(r)] # "none" THEN trust[DidKey(r)] ELSE trust[NodeKey(r)]

(* TrustStore.lookup: the DID's entry; else a node-id entry, which for an     *)
(* unverified peer counts only when it denies and for a verified one is      *)
(* moved to its DID.                                                         *)
Lookup(r) ==
    IF ~r.verified
    THEN IF trust[NodeKey(r)] = "deny" THEN "deny" ELSE "none"
    ELSE IF trust[DidKey(r)] # "none" THEN trust[DidKey(r)] ELSE trust[NodeKey(r)]

Migrate(r) ==
    IF r.verified /\ trust[DidKey(r)] = "none" /\ trust[NodeKey(r)] # "none"
    THEN LET added == [trust EXCEPT ![DidKey(r)] = trust[NodeKey(r)]] IN
         \/ /\ trust' = [added EXCEPT ![NodeKey(r)] = "none"]
            /\ trustFile' = trust' /\ UNCHANGED authEvents
         \/ /\ trust' = added
            /\ UNCHANGED trustFile /\ Event
    ELSE UNCHANGED <<trust, trustFile, authEvents>>

(* policy_allows, as ConfiguredAuthorizer uses it.                           *)
PolicyAllows(r) == r.verified /\ r.peer \in AllowedPeer /\ r.key \notin RemoteForward

Finished(t, r, epoch, d) ==
    auth' = [auth EXCEPT ![t] = [at |-> "done", req |-> r, epoch |-> epoch, row |-> 0,
        got |-> IF epoch = linked.epoch /\ r.peer \in linked.peers THEN d ELSE "deny"]]

(* GraphAuthorizer, ConfiguredAuthorizer and PendingAuthorizer.decide up to   *)
(* the pending list.                                                         *)
Authorize(t, r) ==
    /\ auth[t] = IdleCall
    /\ IF r.peer \notin linked.peers
       THEN Finished(t, r, linked.epoch, "deny") /\ UNCHANGED <<trust, trustFile, authEvents>>
       ELSE /\ Migrate(r)
            /\ \/ Lookup(r) # "none" /\ Finished(t, r, linked.epoch, Lookup(r))
               \/ /\ Lookup(r) = "none" /\ PolicyAllows(r)
                  /\ Finished(t, r, linked.epoch, "allow")
               \/ /\ Lookup(r) = "none" /\ ~PolicyAllows(r)
                  /\ auth' = [auth EXCEPT ![t] =
                        [at |-> "enqueue", req |-> r, epoch |-> linked.epoch, row |-> 0,
                         got |-> "none"]]
    /\ UNCHANGED <<rows, nextRow, linked, consent>>

(* enqueue joins the row of an identical request or opens one, within the     *)
(* caps; beyond them the request is denied.                                  *)
Enqueue(t) ==
    /\ auth[t].at = "enqueue"
    /\ LET r == auth[t].req
           same == {n \in DOMAIN rows : rows[n].req = r}
           ofPeer == {n \in DOMAIN rows : rows[n].req.peer = r.peer}
           wait(n) == auth' = [auth EXCEPT ![t].at = "waiting", ![t].row = n]
       IN  \/ \E n \in same :
                 /\ Cardinality(rows[n].waiters) < MaxWaiters
                 /\ rows' = [rows EXCEPT ![n].waiters = @ \cup {t}]
                 /\ wait(n) /\ UNCHANGED nextRow
           \/ /\ same = {} /\ Cardinality(ofPeer) < MaxPeerRows
              /\ nextRow <= MaxRows /\ nextRow' = nextRow + 1
              /\ rows' = [n \in DOMAIN rows \cup {nextRow} |->
                            IF n = nextRow THEN [req |-> r, waiters |-> {t}] ELSE rows[n]]
              /\ wait(nextRow)
           \/ /\ \/ \E n \in same : Cardinality(rows[n].waiters) >= MaxWaiters
                 \/ same = {} /\ Cardinality(ofPeer) >= MaxPeerRows
              /\ Finished(t, r, auth[t].epoch, "deny")
              /\ UNCHANGED <<rows, nextRow>>
    /\ UNCHANGED <<trust, trustFile, linked, consent, authEvents>>

WithoutRow(n) == [m \in DOMAIN rows \ {n} |-> rows[m]]

(* PendingItem.answer sends the decision to every waiter still listening.    *)
Answer(n, d) ==
    auth' = [t \in AuthTask |-> IF t \in rows[n].waiters
                                THEN [auth[t] EXCEPT !.at = "answered", !.got = d]
                                ELSE auth[t]]

(* resolve: the operator's decision.                                        *)
Resolve(n, d) ==
    /\ n \in DOMAIN rows
    /\ rows' = WithoutRow(n)
    /\ Answer(n, d)
    /\ consent' = consent \cup (IF d \in {"allow", "allowAlways"} THEN {rows[n].req} ELSE {})
    /\ UNCHANGED <<trust, trustFile, nextRow, linked, authEvents>>

(* purge_peer, after a departure or a change of room.                        *)
PurgePeer(p) ==
    /\ \E n \in DOMAIN rows : rows[n].req.peer = p
    /\ LET gone == {n \in DOMAIN rows : rows[n].req.peer = p} IN
       /\ rows' = [n \in DOMAIN rows \ gone |-> rows[n]]
       /\ auth' = [t \in AuthTask |-> IF \E n \in gone : t \in rows[n].waiters
                                      THEN [auth[t] EXCEPT !.at = "answered", !.got = "deny"]
                                      ELSE auth[t]]
    /\ UNCHANGED <<trust, trustFile, nextRow, linked, consent, authEvents>>

(* DECISION_TIMEOUT: the receiver is dropped, which closes its sender...     *)
Expires(t) ==
    /\ auth[t].at = "waiting"
    /\ auth' = [auth EXCEPT ![t].at = "expired"]
    /\ rows' = [rows EXCEPT ![auth[t].row].waiters = @ \ {t}]
    /\ UNCHANGED <<trust, trustFile, nextRow, linked, consent, authEvents>>

(* Mutant: the row goes with the first waiter that gives up.                 *)
RemoveUnresolvedRow(t) ==
    /\ auth[t].at = "expired"
    /\ rows' = IF auth[t].row \in DOMAIN rows THEN WithoutRow(auth[t].row) ELSE rows
    /\ Finished(t, auth[t].req, auth[t].epoch, "deny")
    /\ UNCHANGED <<trust, trustFile, nextRow, linked, consent, authEvents>>

(* ... and remove_unresolved drops the row when no waiter is left.           *)
RemoveUnresolved(t) ==
    /\ auth[t].at = "expired"
    /\ LET n == auth[t].row IN
       rows' = IF n \in DOMAIN rows /\ rows[n].waiters = {} THEN WithoutRow(n) ELSE rows
    /\ Finished(t, auth[t].req, auth[t].epoch, "deny")
    /\ UNCHANGED <<trust, trustFile, nextRow, linked, consent, authEvents>>

(* The end of decide: an "always" is remembered for a verified peer, in      *)
(* memory and then in the file; for others it counts once.                   *)
Remember(t) ==
    /\ auth[t].at = "answered"
    /\ LET r == auth[t].req
           d == auth[t].got
           always == d \in {"allowAlways", "denyAlways"} /\ r.verified
           once == IF d = "allowAlways" THEN "allow" ELSE IF d = "denyAlways" THEN "deny" ELSE d
       IN  IF always
           THEN /\ trust' = [trust EXCEPT ![DidKey(r)] = once]
                /\ auth' = [auth EXCEPT ![t].at = "persist", ![t].got = once]
           ELSE Finished(t, r, auth[t].epoch, once) /\ UNCHANGED trust
    /\ UNCHANGED <<trustFile, rows, nextRow, linked, consent, authEvents>>

PersistTrust(t) ==
    /\ auth[t].at = "persist"
    /\ UNCHANGED trust /\ Persist
    /\ Finished(t, auth[t].req, auth[t].epoch, auth[t].got)
    /\ UNCHANGED <<rows, nextRow, linked, consent>>

CallReturns(t) ==
    /\ auth[t].at = "done"
    /\ auth' = [auth EXCEPT ![t] = IdleCall]
    /\ UNCHANGED <<trust, trustFile, rows, nextRow, linked, consent, authEvents>>

(* remove_trust                                                              *)
RemoveTrust(k) ==
    /\ trust[k] # "none"
    /\ Event
    /\ trust' = [trust EXCEPT ![k] = "none"]
    /\ trustFile' \in {trust', trustFile}
    /\ UNCHANGED <<auth, rows, nextRow, linked, consent>>

(* A link or broadcast command changes who may pass; a change of room also    *)
(* starts a new epoch.                                                       *)
ChangePolicy(peers, newRoom) ==
    /\ Event
    /\ linked' = [peers |-> peers, epoch |-> IF newRoom THEN linked.epoch + 1 ELSE linked.epoch]
    /\ UNCHANGED <<trust, trustFile, auth, rows, nextRow, consent>>

AuthNext ==
    \/ \E t \in AuthTask :
          \/ \E r \in Request : Authorize(t, r)
          \/ Enqueue(t) \/ Expires(t) \/ RemoveUnresolved(t)
          \/ Remember(t) \/ PersistTrust(t) \/ CallReturns(t)
    \/ \E n \in 1..MaxRows, d \in Decision : Resolve(n, d)
    \/ \E p \in TunnelPeer : PurgePeer(p)
    \/ \E k \in TrustKeys : RemoveTrust(k)
    \/ \E peers \in SUBSET TunnelPeer, newRoom \in BOOLEAN : ChangePolicy(peers, newRoom)

AuthSpec == AuthInit /\ [][AuthNext]_authVars

(* The pending list and the waiting calls agree: a call that waits is in its *)
(* row, so the operator's decision reaches it, and a row nobody waits for is *)
(* about to go, however the calls coalesce, time out and are purged.         *)
AuthRowsLive ==
    /\ \A t \in AuthTask : auth[t].at = "waiting" =>
          auth[t].row \in DOMAIN rows /\ t \in rows[auth[t].row].waiters
    /\ \A n \in DOMAIN rows :
          \/ rows[n].waiters # {}
          \/ \E t \in AuthTask : auth[t].at = "expired" /\ auth[t].row = n

(* A connection is allowed only if the operator allowed a request like it,   *)
(* or trusted its node in an older version, or the policy covers a verified  *)
(* peer; an unverified peer is never let in by trust or policy.              *)
AuthConsented ==
    \A t \in AuthTask : auth[t].at = "done" /\ auth[t].got = "allow" =>
        LET r == auth[t].req IN
        \/ r \in consent
        \/ r.verified /\ (PolicyAllows(r) \/ NodeKey(r) \in consent)

=============================================================================
