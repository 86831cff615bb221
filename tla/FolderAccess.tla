---------------------------- MODULE FolderAccess -----------------------------
(* Access to shared folders, the owner's side                                *)
(* (src/src/storage/folder_owner.rs): requests are served by spawned tasks    *)
(* from a snapshot of the table, wait in a bounded in-memory queue for the    *)
(* operator, and are answered by commands that read the queue, the table and  *)
(* the queue again under two different locks.                                 *)
EXTENDS Naturals, Sequences, FiniteSets, SequencesExt, VecOps

CONSTANTS
    Requester,        \* DIDs that ask for access
    Folder,           \* shared folders
    RequestKey,       \* access public keys a requester may offer
    PendingMaxTotal,  \* PENDING_MAX_TOTAL
    PendingMaxPeer,   \* PENDING_MAX_PER_PEER
    AccessMaxInflight,\* ACCESS_MAX_INFLIGHT
    MaxAllowed,       \* MAX_ALLOWED_REQUESTERS
    MaxAccessEvents   \* bound on allow, revoke, unshare, expiry and failed sends

ASSUME AccessAssumption ==
    /\ {PendingMaxTotal, PendingMaxPeer, AccessMaxInflight} \subseteq Nat \ {0}
    /\ {MaxAllowed, MaxAccessEvents} \subseteq Nat

VARIABLES
    shared,      \* shared-folders.json: the allowed requesters of each folder
    pending,     \* PENDING: the rows awaiting the operator, oldest first
    requests,    \* spawned handle_access_request tasks, each with its snapshot
    command,     \* the operator command under way
    throttled,   \* ACCESS_THROTTLE: requesters heard within ACCESS_PEER_INTERVAL
    granted,     \* grants sent: whom to, for which folder, encrypted to which key
    accessConsent,     \* whom the operator or the configuration ever let in
    accEvents

accessVars == <<shared, pending, requests, command, throttled, granted, accessConsent,
                accEvents>>

(* A folder that is not shared has no row in the table.                     *)
Unshared == [shared |-> FALSE, allowed |-> {}]
SharedRow(allowed) == [shared |-> TRUE, allowed |-> allowed]

AccessKey == [of : Requester, key : RequestKey]
PendingAccess(r, f, k) == [requester |-> r, folder |-> f, key |-> k, old |-> FALSE]
NoCommand == [op |-> "none"]

AccessInit ==
    /\ shared = [f \in Folder |-> SharedRow({})]
    /\ pending = <<>> /\ requests = {} /\ command = NoCommand
    /\ throttled = {} /\ granted = {} /\ accessConsent = {} /\ accEvents = 0

AccessEvent == accEvents < MaxAccessEvents /\ accEvents' = accEvents + 1

(* pending_id: a row is identified by its requester and its folder.         *)
PendingId(row) == <<row.requester, row.folder>>

(* prune drops the rows that were not refreshed for PENDING_TTL.            *)
Prune(rows) == Retain(rows, {e \in Range(rows) : ~e.old})
RemoveRow(rows, id) == Retain(rows, {e \in Range(rows) : PendingId(e) # id})

(* PendingQueue::offer: a row that is there is refreshed with the newest     *)
(* request; a new one is pushed unless the queue or the peer's share of it   *)
(* is full.                                                                  *)
Offer(row) ==
    LET rows == Prune(pending)
        same == {i \in DOMAIN rows : PendingId(rows[i]) = PendingId(row)}
        peers == {i \in DOMAIN rows : rows[i].requester = row.requester}
    IN  IF same # {}
        THEN [i \in DOMAIN rows |->
                IF i \in same THEN [rows[i] EXCEPT !.key = row.key, !.old = FALSE]
                ELSE rows[i]]
        ELSE IF Len(rows) >= PendingMaxTotal \/ Cardinality(peers) >= PendingMaxPeer
             THEN rows ELSE Append(rows, row)

(* dispatch_envelope of a folder-access-request: the throttle, then the      *)
(* snapshot, then one of the slots.                                          *)
AccessRequest(r, f, k, proof, auto) ==
    /\ r \notin throttled
    /\ throttled' = throttled \cup {r}
    /\ requests' =
         IF Cardinality(requests) >= AccessMaxInflight THEN requests
         ELSE requests \cup {[requester |-> r, folder |-> f, proof |-> proof,
                              key |-> [of |-> r, key |-> k],
                              entry |-> shared[f], auto |-> auto]}
    /\ UNCHANGED <<shared, pending, command, granted, accessConsent, accEvents>>

ThrottleElapses(r) ==
    /\ r \in throttled /\ throttled' = throttled \ {r}
    /\ UNCHANGED <<shared, pending, requests, command, granted, accessConsent, accEvents>>

(* send_grant: the grant is addressed to the requester and encrypted to the  *)
(* key the request offered.                                                  *)
SendGrant(r, f, key) == granted' = granted \cup {[to |-> r, folder |-> f, key |-> key]}

(* validate_access_request and handle_access_request.                       *)
HandleAccessRequest(q) ==
    LET valid == q.entry.shared /\ q.proof
        open == q.auto \/ q.requester \in q.entry.allowed
    IN  /\ q \in requests /\ requests' = requests \ {q}
        /\ \/ ~valid /\ UNCHANGED <<granted, pending, accessConsent, accEvents>>
           \/ /\ valid /\ open
              /\ \/ SendGrant(q.requester, q.folder, q.key) /\ UNCHANGED accEvents
                 \/ AccessEvent /\ UNCHANGED granted
              /\ accessConsent' = IF q.auto THEN accessConsent \cup {<<q.requester, q.folder>>}
                            ELSE accessConsent
              /\ UNCHANGED pending
           \/ /\ valid /\ ~open
              /\ pending' = Offer(PendingAccess(q.requester, q.folder, q.key))
              /\ UNCHANGED <<granted, accessConsent, accEvents>>
        /\ UNCHANGED <<shared, command, throttled>>

RequestAges(i) ==
    /\ i \in DOMAIN pending /\ ~pending[i].old /\ AccessEvent
    /\ pending' = [pending EXCEPT ![i].old = TRUE]
    /\ UNCHANGED <<shared, requests, command, throttled, granted, accessConsent>>

(* store.folder-access.ls                                                   *)
AccessLs ==
    /\ Prune(pending) # pending /\ pending' = Prune(pending)
    /\ UNCHANGED <<shared, requests, command, throttled, granted, accessConsent, accEvents>>

(* store.folder-access.approve: the row is cloned, the table read and maybe  *)
(* written, the grant sent, and only then the row removed.                   *)
Approve(i, remember) ==
    /\ command = NoCommand /\ i \in DOMAIN pending
    /\ command' = [op |-> "approve", row |-> pending[i], remember |-> remember]
    /\ accessConsent' = accessConsent \cup {PendingId(pending[i])}
    /\ UNCHANGED <<shared, pending, requests, throttled, granted, accEvents>>

ApproveReads ==
    /\ command.op = "approve"
    /\ LET row == command.row
           entry == shared[row.folder]
           add == command.remember /\ Cardinality(entry.allowed) < MaxAllowed
       IN  IF ~entry.shared
           THEN /\ pending' = RemoveRow(pending, PendingId(row))
                /\ command' = NoCommand /\ UNCHANGED shared
           ELSE /\ shared' = IF add THEN [shared EXCEPT ![row.folder].allowed =
                                                @ \cup {row.requester}]
                             ELSE shared
                /\ command' = [command EXCEPT !.op = "grant"]
                /\ UNCHANGED pending
    /\ UNCHANGED <<requests, throttled, granted, accessConsent, accEvents>>

ApproveGrants ==
    /\ command.op = "grant"
    /\ \/ /\ SendGrant(command.row.requester, command.row.folder, command.row.key)
          /\ pending' = RemoveRow(pending, PendingId(command.row))
          /\ UNCHANGED accEvents
       \/ AccessEvent /\ UNCHANGED <<granted, pending>>
    /\ command' = NoCommand
    /\ UNCHANGED <<shared, requests, throttled, accessConsent>>

(* store.folder-access.deny                                                 *)
Deny(i) ==
    /\ i \in DOMAIN pending
    /\ pending' = RemoveRow(pending, PendingId(pending[i]))
    /\ UNCHANGED <<shared, requests, command, throttled, granted, accessConsent, accEvents>>

(* store.folder-access.allow and .revoke                                    *)
Allow(r, f) ==
    /\ AccessEvent
    /\ shared[f].shared /\ r \notin shared[f].allowed
    /\ Cardinality(shared[f].allowed) < MaxAllowed
    /\ shared' = [shared EXCEPT ![f].allowed = @ \cup {r}]
    /\ accessConsent' = accessConsent \cup {<<r, f>>}
    /\ UNCHANGED <<pending, requests, command, throttled, granted>>

Revoke(r, f) ==
    /\ AccessEvent
    /\ r \in shared[f].allowed
    /\ shared' = [shared EXCEPT ![f].allowed = @ \ {r}]
    /\ UNCHANGED <<pending, requests, command, throttled, granted, accessConsent>>

(* unshare: the row leaves the table, then the folder's requests the queue.  *)
Unshare(f) ==
    /\ AccessEvent /\ shared[f].shared
    /\ shared' = [shared EXCEPT ![f] = Unshared]
    /\ pending' = Retain(pending, {e \in Range(pending) : e.folder # f})
    /\ UNCHANGED <<requests, command, throttled, granted, accessConsent>>

AccessNext ==
    \/ \E r \in Requester, f \in Folder, k \in RequestKey, p, a \in BOOLEAN :
         AccessRequest(r, f, k, p, a)
    \/ \E r \in Requester : ThrottleElapses(r)
    \/ \E q \in requests : HandleAccessRequest(q)
    \/ \E i \in DOMAIN pending : RequestAges(i) \/ Deny(i)
    \/ \E i \in DOMAIN pending, b \in BOOLEAN : Approve(i, b)
    \/ AccessLs \/ ApproveReads \/ ApproveGrants
    \/ \E r \in Requester, f \in Folder : Allow(r, f) \/ Revoke(r, f)
    \/ \E f \in Folder : Unshare(f)

AccessSpec == AccessInit /\ [][AccessNext]_accessVars

(***************************************************************************)
(* Properties                                                              *)
(***************************************************************************)
(* Types of the state.                                                      *)
AccessTypeOK ==
    /\ \A f \in Folder : shared[f].allowed \subseteq Requester
    /\ Len(pending) <= PendingMaxTotal
    /\ \A i \in DOMAIN pending :
         pending[i].folder \in Folder /\ pending[i].key \in AccessKey
    /\ \A q \in requests : q.key \in AccessKey
    /\ command.op \in {"none", "approve", "grant"}
    /\ throttled \subseteq Requester

(* A folder key goes only to a requester the operator approved or allowed,   *)
(* or the configuration lets in, and is encrypted to a key that requester    *)
(* offered: neither a row refreshed by a later request, nor a request served *)
(* from an old snapshot of the table, nor an approval that overtakes another *)
(* request of the queue hands it to anyone else.                             *)
GrantsConsented ==
    \A g \in granted : <<g.to, g.folder>> \in accessConsent /\ g.key.of = g.to
==============================================================================
