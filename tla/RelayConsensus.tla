--------------------------- MODULE RelayConsensus ----------------------------
(* The relay control plane of one node (src/src/consensus): the membership    *)
(* learned from signed hellos, the replay window in front of Raft, and the    *)
(* voter set handed to the Raft library.  The network callback and the hello  *)
(* loop both change the membership under its lock and tell Raft after they    *)
(* released it.  Signatures hold: a message carries the DID, boot, sequence   *)
(* number and time its sender gave it, but the network may deliver it late,   *)
(* out of order or again.                                                     *)
EXTENDS Naturals, FiniteSets

CONSTANTS
    RelayPeer,      \* node ids of the other relays
    MaxPeers,       \* MAX_PEERS
    ReplayWindow,   \* REPLAY_WINDOW, the width of the bitmap
    PeerTimeout,    \* PEER_TIMEOUT, in ticks
    ClockSkew,      \* MAX_CLOCK_SKEW_MS, in ticks
    MaxNow,         \* bound on time
    MaxRelaySeq,         \* bound on the sequence numbers of one boot
    MaxBoot,        \* bound on the boots of a relay
    MaxRefusals     \* bound on changes of the admission list

ASSUME RelayAssumption ==
    /\ {MaxPeers, ReplayWindow, MaxNow} \subseteq Nat \ {0}
    /\ {PeerTimeout, ClockSkew, MaxRelaySeq, MaxBoot, MaxRefusals} \subseteq Nat

VARIABLES
    relays,      \* Membership.peers, or NoRelay
    voters,      \* the peers the Raft node knows
    netOp,       \* what the network callback still has to tell Raft
    tickOps,     \* the peers the hello loop still has to remove from Raft
    refused,     \* DIDs peer_auth::admitted refuses
    relayWire,        \* the Raft messages ever sent: sender, boot, seq, ts
    boots, seqs, \* the boot of each relay's transport and its last seq
    relayNow,
    delivered,   \* messages given to Raft since the sender joined the membership
    replayed,    \* those that were given to it twice
    refusals

relayVars == <<relays, voters, netOp, tickOps, refused, relayWire, boots, seqs,
               relayNow, delivered, replayed, refusals>>

NoWindow == [boot |-> 0, max |-> 0, bitmap |-> {}, ts |-> 0]
NoRelay == [seen |-> 0, window |-> NoWindow]
NoOp == [op |-> "none"]

RelayInit ==
    /\ relays = [p \in RelayPeer |-> NoRelay]
    /\ voters = {} /\ netOp = NoOp /\ tickOps = {} /\ refused = {}
    /\ relayWire = {} /\ boots = [p \in RelayPeer |-> 1] /\ seqs = [p \in RelayPeer |-> 0]
    /\ relayNow = 1
    /\ delivered = {} /\ replayed = {} /\ refusals = 0

(* MistlRaftTransport::send                                                 *)
RaftSend(p) ==
    /\ seqs[p] < MaxRelaySeq
    /\ seqs' = [seqs EXCEPT ![p] = @ + 1]
    /\ relayWire' = relayWire \cup {[from |-> p, boot |-> boots[p], seq |-> seqs[p] + 1,
                           ts |-> relayNow]}
    /\ UNCHANGED <<relays, voters, netOp, tickOps, refused, boots, relayNow,
                   delivered, replayed, refusals>>

RelayReboots(p) ==
    /\ boots[p] < MaxBoot
    /\ boots' = [boots EXCEPT ![p] = @ + 1]
    /\ seqs' = [seqs EXCEPT ![p] = 0]
    /\ UNCHANGED <<relays, voters, netOp, tickOps, refused, relayWire, relayNow,
                   delivered, replayed, refusals>>

TimePasses ==
    /\ relayNow < MaxNow /\ relayNow' = relayNow + 1
    /\ UNCHANGED <<relays, voters, netOp, tickOps, refused, relayWire, boots, seqs,
                   delivered, replayed, refusals>>

(* The operator edits the allowlist.                                        *)
AdmissionChanges(p) ==
    /\ refusals < MaxRefusals /\ refusals' = refusals + 1
    /\ refused' = IF p \in refused THEN refused \ {p} ELSE refused \cup {p}
    /\ UNCHANGED <<relays, voters, netOp, tickOps, relayWire, boots, seqs, relayNow,
                   delivered, replayed>>

(* ReplayWindow::new and ::accept.  The bitmap is the set of the bits that   *)
(* are 1 in a word of ReplayWindow bits; bit i stands for max - i.  Bits     *)
(* shifted beyond the word are lost.                                         *)
FirstWindow(m) == [boot |-> m.boot, max |-> m.seq, bitmap |-> {0}, ts |-> m.ts]
Later(a, b) == IF a > b THEN a ELSE b
Shifted(bitmap, n) == {i \in 0 .. ReplayWindow - 1 : i = 0 \/ (i >= n /\ i - n \in bitmap)}

Moved(w, m, bitmap) ==
    [boot |-> w.boot, max |-> Later(w.max, m.seq), bitmap |-> bitmap, ts |-> Later(w.ts, m.ts)]

(* The bits already set are kept where they are.                            *)
AcceptUnshifted(w, m) ==
    IF m.boot # w.boot
    THEN IF m.ts > w.ts THEN {FirstWindow(m)} ELSE {}
    ELSE IF m.seq > w.max
         THEN {Moved(w, m, w.bitmap \cup {0})}
         ELSE IF w.max - m.seq >= ReplayWindow \/ w.max - m.seq \in w.bitmap THEN {}
              ELSE {Moved(w, m, w.bitmap \cup {w.max - m.seq})}

(* The window after m, or none when m is refused.                           *)
Accept(w, m) ==
    IF m.boot # w.boot
    THEN IF m.ts > w.ts THEN {FirstWindow(m)} ELSE {}
    ELSE IF m.seq > w.max
         THEN {Moved(w, m, Shifted(w.bitmap, m.seq - w.max))}
         ELSE IF w.max - m.seq >= ReplayWindow \/ w.max - m.seq \in w.bitmap THEN {}
              ELSE {Moved(w, m, w.bitmap \cup {w.max - m.seq})}

(* accept_raft: the sender's first message after its hello opens the window. *)
AcceptRaft(p, m) ==
    IF relays[p].window = NoWindow THEN {FirstWindow(m)}
    ELSE Accept(relays[p].window, m)

(* The network callback is one thread: it tells Raft before it takes the     *)
(* next event.                                                               *)
CallbackFree == netOp = NoOp

(* decode_raft's freshness check, gate_inbound and raft.deliver.            *)
RaftArrives(m) ==
    /\ CallbackFree
    /\ m \in relayWire /\ relayNow - m.ts <= ClockSkew
    /\ m.from \notin refused
    /\ relays[m.from] # NoRelay
    /\ \E w \in AcceptRaft(m.from, m) :
        relays' = [relays EXCEPT ![m.from].window = w]
    /\ delivered' = delivered \cup {m}
    /\ replayed' = IF m \in delivered THEN replayed \cup {m} ELSE replayed
    /\ UNCHANGED <<voters, netOp, tickOps, refused, relayWire, boots, seqs, relayNow,
                   refusals>>

(* A hello whose proof is accepted: gate_inbound and record_hello.          *)
HelloArrives(p) ==
    /\ CallbackFree /\ p \notin refused
    /\ \/ /\ relays[p] # NoRelay
          /\ relays' = [relays EXCEPT ![p].seen = relayNow]
          /\ UNCHANGED <<netOp, delivered>>
       \/ /\ relays[p] = NoRelay
          /\ Cardinality({q \in RelayPeer : relays[q] # NoRelay}) < MaxPeers
          /\ relays' = [relays EXCEPT ![p] = [seen |-> relayNow, window |-> NoWindow]]
          /\ netOp' = [op |-> "add", peer |-> p]
          /\ delivered' = {m \in delivered : m.from # p}
    /\ UNCHANGED <<voters, tickOps, refused, relayWire, boots, seqs, relayNow, replayed,
                   refusals>>

(* EVENT_PEER_DISCONNECTED                                                  *)
PeerDisconnected(p) ==
    /\ CallbackFree
    /\ relays[p] # NoRelay
    /\ relays' = [relays EXCEPT ![p] = NoRelay]
    /\ netOp' = [op |-> "remove", peer |-> p]
    /\ UNCHANGED <<voters, tickOps, refused, relayWire, boots, seqs, relayNow, delivered,
                   replayed, refusals>>

(* on_net_event, after the lock: raft.add_peer or raft.remove_peer.         *)
TellRaft ==
    /\ netOp # NoOp /\ netOp' = NoOp
    /\ voters' = IF netOp.op = "add" THEN voters \cup {netOp.peer}
                 ELSE voters \ {netOp.peer}
    /\ UNCHANGED <<relays, tickOps, refused, relayWire, boots, seqs, relayNow, delivered,
                   replayed, refusals>>

(* expire_stale_peers: expire and retain_admitted under the lock, then one   *)
(* raft.remove_peer each.                                                    *)
Stale == {p \in RelayPeer : /\ relays[p] # NoRelay
                            /\ \/ relayNow - relays[p].seen > PeerTimeout
                               \/ p \in refused}
ExpireStalePeers ==
    /\ tickOps = {} /\ Stale # {}
    /\ tickOps' = Stale
    /\ relays' = [p \in RelayPeer |-> IF p \in Stale THEN NoRelay ELSE relays[p]]
    /\ UNCHANGED <<voters, netOp, refused, relayWire, boots, seqs, relayNow, delivered,
                   replayed, refusals>>

RemoveStale(p) ==
    /\ p \in tickOps /\ tickOps' = tickOps \ {p}
    /\ voters' = voters \ {p}
    /\ UNCHANGED <<relays, netOp, refused, relayWire, boots, seqs, relayNow, delivered,
                   replayed, refusals>>

RelayNext ==
    \/ \E p \in RelayPeer :
        \/ RaftSend(p) \/ RelayReboots(p) \/ AdmissionChanges(p)
        \/ HelloArrives(p) \/ PeerDisconnected(p) \/ RemoveStale(p)
    \/ \E m \in relayWire : RaftArrives(m)
    \/ TimePasses \/ TellRaft \/ ExpireStalePeers

RelaySpec == RelayInit /\ [][RelayNext]_relayVars

(***************************************************************************)
(* Properties                                                              *)
(***************************************************************************)
(* Types of the state.                                                      *)
RelayTypeOK ==
    /\ \A p \in RelayPeer : relays[p] # NoRelay =>
         relays[p].seen \in 1..MaxNow /\ relays[p].window.bitmap \subseteq 0..ReplayWindow - 1
    /\ voters \subseteq RelayPeer /\ tickOps \subseteq RelayPeer
    /\ refused \subseteq RelayPeer
    /\ netOp.op \in {"none", "add", "remove"}

(* "accepts each sequence number at most once": however the network delays,  *)
(* reorders or repeats them, across reboots of the sender, no message of a   *)
(* relay reaches Raft twice while the relay stays in the membership.         *)
RaftOnce == replayed = {}

==============================================================================
