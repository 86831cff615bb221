------------------------------- MODULE PeerAuth -------------------------------
(* Peer authentication (src/src/net/peer_auth.rs): signed hellos prove which  *)
(* DID a transport sender is, in one room, for a while.  A hello is its room, *)
(* its node, its time and its nonce; the node id is derived from the DID, so  *)
(* a node is its DID.  A hello whose signature, room or node is wrong is      *)
(* refused before any state is touched and is not modelled.                   *)
EXTENDS Naturals, Sequences, FiniteSets, SequencesExt, VecOps

CONSTANTS
    AuthRoom,        \* rooms this node is in
    AuthNode,        \* peers
    VerifiedTtl,     \* VERIFIED_TTL
    MaxClockSkew,    \* MAX_CLOCK_SKEW_MS
    MaxVerified,     \* MAX_VERIFIED
    MaxVerifiedRoom, \* MAX_VERIFIED_PER_ROOM
    MaxNonces,       \* MAX_NONCES
    ReplyThrottle,   \* REPLY_THROTTLE
    MaxReplies,      \* MAX_REPLY_ENTRIES
    MaxHellos,       \* bound on the hellos peers sign
    MaxAuthTime      \* bound on the clock

ASSUME PeerAuthAssumption ==
    /\ {MaxVerified, MaxVerifiedRoom, MaxNonces, MaxReplies} \subseteq Nat \ {0}
    /\ {VerifiedTtl, MaxClockSkew, ReplyThrottle, MaxHellos, MaxAuthTime} \subseteq Nat

VARIABLES
    hellos,      \* hellos peers have signed: any of them may arrive, again and again
    verified,    \* Registry.entries: the time of the last hello, per room and node
    nonces,      \* Registry.nonces
    lastReply,   \* LAST_REPLY: when a hello was last answered, per room and node
    authNow,     \* the clock
    proofsUsed   \* history: how often each hello was accepted

peerAuthVars == <<hellos, verified, nonces, lastReply, authNow, proofsUsed>>

NeverSeen == MaxAuthTime + 1
HelloMsg == [room : AuthRoom, node : AuthNode, ts : 0..MaxAuthTime, nonce : 1..MaxHellos,
          reply : BOOLEAN]

PeerAuthInit ==
    /\ hellos = {} /\ verified = [r \in AuthRoom |-> [n \in AuthNode |-> NeverSeen]]
    /\ nonces = <<>> /\ lastReply = [r \in AuthRoom |-> [n \in AuthNode |-> NeverSeen]]
    /\ authNow = 0 /\ proofsUsed = [h \in 1..MaxHellos |-> 0]

(* prune: entries and nonces past their lifetime.                           *)
WithinTtl(at, ttl) == at # NeverSeen /\ authNow - at <= ttl
PrunedEntries ==
    [r \in AuthRoom |-> [n \in AuthNode |->
        IF WithinTtl(verified[r][n], VerifiedTtl) THEN verified[r][n] ELSE NeverSeen]]
PrunedNonces ==
    PopWhile(nonces, {x \in Range(nonces) : ~WithinTtl(x.at, 2 * MaxClockSkew)})

(* remember_nonce: at the cap the oldest is forgotten.                      *)
RememberNonce(q, key) ==
    Append(IF Len(q) >= MaxNonces THEN SubSeq(q, Len(q) - MaxNonces + 2, Len(q)) ELSE q,
           [at |-> authNow, key |-> key])

EntriesOf(table) == {e \in AuthRoom \X AuthNode : table[e[1]][e[2]] # NeverSeen}
RegistryFull(room) ==
    \/ Cardinality(EntriesOf(PrunedEntries)) >= MaxVerified
    \/ Cardinality({n \in AuthNode : PrunedEntries[room][n] # NeverSeen}) >= MaxVerifiedRoom

(* check_proof: the signed time is near our clock.                          *)
TimelyHello(h) == h.ts <= authNow + MaxClockSkew /\ authNow <= h.ts + MaxClockSkew

(* reply_allowed: one answer per peer and REPLY_THROTTLE, in a capped table. *)
ReplyThrottled(r, n) == lastReply[r][n] # NeverSeen /\ authNow - lastReply[r][n] < ReplyThrottle
RecentReplies ==
    [r \in AuthRoom |-> [n \in AuthNode |->
        IF ReplyThrottled(r, n) THEN lastReply[r][n] ELSE NeverSeen]]
ReplyTable ==
    IF Cardinality(EntriesOf(lastReply)) >= MaxReplies THEN RecentReplies ELSE lastReply
ReplyAllowed(r, n) == ~ReplyThrottled(r, n) /\ Cardinality(EntriesOf(ReplyTable)) < MaxReplies

(* A peer signs a hello with a fresh nonce, by its own clock.               *)
SignHello(room, node, ts, reply) ==
    /\ Cardinality(hellos) < MaxHellos
    /\ ts <= authNow + MaxClockSkew /\ authNow <= ts + MaxClockSkew
    /\ hellos' = hellos \cup {[room |-> room, node |-> node, ts |-> ts,
                               nonce |-> Cardinality(hellos) + 1, reply |-> reply]}
    /\ UNCHANGED <<verified, nonces, lastReply, authNow, proofsUsed>>

(* accept: the registry is pruned whatever happens then.                    *)
AcceptHello(h) ==
    LET key == <<h.node, h.nonce>>
        refused == \/ \E i \in DOMAIN PrunedNonces : PrunedNonces[i].key = key
                   \/ PrunedEntries[h.room][h.node] = NeverSeen /\ RegistryFull(h.room)
    IN  /\ TimelyHello(h)
        /\ \/ /\ refused /\ verified' = PrunedEntries /\ nonces' = PrunedNonces
              /\ UNCHANGED <<lastReply, proofsUsed>>
           \/ /\ ~refused
              /\ verified' = [PrunedEntries EXCEPT ![h.room][h.node] = authNow]
              /\ nonces' = RememberNonce(PrunedNonces, key)
              /\ proofsUsed' = [proofsUsed EXCEPT ![h.nonce] = @ + 1]
              /\ lastReply' = IF h.reply THEN lastReply
                              ELSE IF ReplyAllowed(h.room, h.node)
                              THEN [ReplyTable EXCEPT ![h.room][h.node] = authNow]
                              ELSE IF ReplyThrottled(h.room, h.node) THEN lastReply ELSE ReplyTable
        /\ UNCHANGED <<hellos, authNow>>

(* forget_peer and forget_room: the transport lost the peer, we left.       *)
ForgetPeer(room, node) ==
    /\ verified[room][node] # NeverSeen
    /\ verified' = [verified EXCEPT ![room][node] = NeverSeen]
    /\ UNCHANGED <<hellos, nonces, lastReply, authNow, proofsUsed>>
ForgetRoom(room) ==
    /\ verified' = [verified EXCEPT ![room] = [n \in AuthNode |-> NeverSeen]]
    /\ UNCHANGED <<hellos, nonces, lastReply, authNow, proofsUsed>>

AuthTick ==
    /\ authNow < MaxAuthTime /\ authNow' = authNow + 1
    /\ UNCHANGED <<hellos, verified, nonces, lastReply, proofsUsed>>

PeerAuthNext ==
    \/ \E r \in AuthRoom, n \in AuthNode :
          \/ \E ts \in 0..MaxAuthTime, reply \in BOOLEAN : SignHello(r, n, ts, reply)
          \/ ForgetPeer(r, n)
    \/ \E h \in hellos : AcceptHello(h)
    \/ \E r \in AuthRoom : ForgetRoom(r)
    \/ AuthTick

PeerAuthSpec == PeerAuthInit /\ [][PeerAuthNext]_peerAuthVars

-----------------------------------------------------------------------------
(* Types of the state: the registry, its nonces and replies are within caps.  *)
PeerAuthTypeOK ==
    /\ hellos \subseteq HelloMsg /\ Len(nonces) <= MaxNonces
    /\ Cardinality(EntriesOf(verified)) <= MaxVerified
    /\ Cardinality(EntriesOf(lastReply)) <= MaxReplies

(* A hello counts once (Registry::accept, prune): a hello that verified a     *)
(* peer never does so again - not after the peer disconnected, we left the    *)
(* room, its entry expired, or its nonce reached the end of its lifetime.     *)
ProofOnce == \A h \in 1..MaxHellos : proofsUsed[h] <= 1
=============================================================================
