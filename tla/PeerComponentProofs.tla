------------------------- MODULE PeerComponentProofs -------------------------
(***************************************************************************)
(* Proofs about single services of a peer, which PeerServicesProofs puts   *)
(* together.                                                               *)
(*                                                                         *)
(* Replays have no effect: in each of the services that keep a record of   *)
(* what they accepted - relay consensus, direct messages, peer             *)
(* authentication, the chat relay - the record outlives what it guards     *)
(* against.  The services share no state, so each has an inductive         *)
(* invariant and a specification of its own.                               *)
(*                                                                         *)
(* No provider of a mesh room gives up the last copy of a stored head      *)
(* (StoredHeld), for any providers, ranking and heads and at least two     *)
(* replicas.                                                               *)
(*                                                                         *)
(* Streams arrive as they were sent: the bytes of a tunnelled connection,  *)
(* the tracks of a relayed share and the access units of its video.        *)
(***************************************************************************)
EXTENDS MCPeerServices, ProofLemmas

-----------------------------------------------------------------------------
(***************************************************************************)
(* Relay consensus: what was given to Raft stays covered by the sender's   *)
(* replay window.  A message of the window's boot that was delivered is at *)
(* most max, and its bit is set or shifted out; a message of an earlier    *)
(* boot is not newer than the window's time, because boots of one relay    *)
(* follow each other on its clock.                                         *)
(***************************************************************************)
RelayMsg == [from : RelayPeer, boot : Nat \ {0}, seq : Nat, ts : Nat]
RelayWindow == [boot : Nat, max : Nat, bitmap : SUBSET (0..ReplayWindow - 1), ts : Nat]

RelayShape ==
    /\ relays \in [RelayPeer -> [seen : 0..MaxNow, window : RelayWindow]]
    /\ \A p \in RelayPeer : relays[p] # NoRelay => relays[p].seen # 0
    /\ voters \subseteq RelayPeer /\ tickOps \subseteq RelayPeer /\ refused \subseteq RelayPeer
    /\ netOp \in {NoOp} \cup [op : {"add", "remove"}, peer : RelayPeer]
    /\ relayWire \subseteq RelayMsg /\ delivered \subseteq relayWire
    /\ boots \in [RelayPeer -> Nat \ {0}] /\ seqs \in [RelayPeer -> Nat]
    /\ relayNow \in 1..MaxNow

(* Boots of one relay follow each other on its clock.                       *)
BootsInOrder ==
    /\ \A m \in relayWire : m.boot <= boots[m.from] /\ m.ts <= relayNow
    /\ \A a, b \in relayWire : a.from = b.from /\ a.boot < b.boot => a.ts <= b.ts

(* w covers m: it is of an earlier boot, or its sequence number is recorded. *)
Within(w, m) ==
    /\ m.boot <= w.boot /\ m.ts <= w.ts
    /\ m.boot = w.boot => /\ m.seq <= w.max
                          /\ w.max - m.seq >= ReplayWindow \/ w.max - m.seq \in w.bitmap

WindowCovers(p, w) ==
    /\ w = NoWindow => \A m \in delivered : m.from # p
    /\ w # NoWindow =>
        /\ \A m \in delivered : m.from = p => Within(w, m)
        /\ \E y \in delivered : y.from = p /\ y.boot = w.boot /\ y.ts = w.ts

WindowsCover ==
    \A p \in RelayPeer : relays[p] # NoRelay => WindowCovers(p, relays[p].window)

RelayInv == RelayShape /\ BootsInOrder /\ WindowsCover /\ RaftOnce

LEMMA ShiftedOK ==
    ASSUME NEW B \in SUBSET (0..ReplayWindow - 1), NEW n \in Nat
    PROVE  /\ Shifted(B, n) \in SUBSET (0..ReplayWindow - 1)
           /\ 0 \in Shifted(B, n)
           /\ \A i \in B : i + n < ReplayWindow => i + n \in Shifted(B, n)
<1>1. ReplayWindow \in Nat \ {0} BY RelayAssumption
<1> QED BY <1>1 DEF Shifted

(* Whatever Accept returns covers the message and all that was covered, and  *)
(* a message that was covered is refused.                                    *)
LEMMA AcceptOK ==
    ASSUME NEW w \in RelayWindow, NEW m \in RelayMsg, NEW x \in Accept(w, m)
    PROVE  /\ x \in RelayWindow /\ x.boot = m.boot /\ Within(x, m)
           /\ ~Within(w, m)
           /\ x.ts = m.ts \/ (x.ts = w.ts /\ x.boot = w.boot)
           /\ m.boot # w.boot => m.ts > w.ts
           /\ m.boot = w.boot =>
                \A d \in RelayMsg : Within(w, d) => Within(x, d)
           /\ m.boot > w.boot =>
                \A d \in RelayMsg : Within(w, d) => Within(x, d)
<1>0. ReplayWindow \in Nat \ {0} BY RelayAssumption
<1> DEFINE B == Shifted(w.bitmap, m.seq - w.max)
           C == w.bitmap \cup {w.max - m.seq}
           top == [boot |-> w.boot, max |-> m.seq, bitmap |-> B, ts |-> Later(w.ts, m.ts)]
           old == [boot |-> w.boot, max |-> w.max, bitmap |-> C, ts |-> Later(w.ts, m.ts)]
<1>1. /\ w.boot \in Nat /\ w.max \in Nat /\ w.bitmap \in SUBSET (0..ReplayWindow - 1) /\ w.ts \in Nat
      /\ m.boot \in Nat /\ m.seq \in Nat /\ m.ts \in Nat
      /\ w = [boot |-> w.boot, max |-> w.max, bitmap |-> w.bitmap, ts |-> w.ts]
  BY DEF RelayWindow, RelayMsg
<1>2. Later(w.ts, m.ts) \in Nat /\ Later(w.ts, m.ts) >= w.ts /\ Later(w.ts, m.ts) >= m.ts
      /\ Later(w.ts, m.ts) \in {w.ts, m.ts}
  BY <1>1 DEF Later
<1>3. \/ m.boot # w.boot /\ m.ts > w.ts /\ x = FirstWindow(m)
      \/ m.boot = w.boot /\ m.seq > w.max /\ x = top
      \/ m.boot = w.boot /\ m.seq <= w.max /\ w.max - m.seq < ReplayWindow
         /\ w.max - m.seq \notin w.bitmap /\ x = old
  <2>1. m.seq > w.max => Later(w.max, m.seq) = m.seq
    BY <1>1 DEF Later
  <2>2. m.seq <= w.max => Later(w.max, m.seq) = w.max
    BY <1>1 DEF Later
  <2> HIDE DEF B, C
  <2>3. x \in (IF m.boot # w.boot
               THEN IF m.ts > w.ts THEN {FirstWindow(m)} ELSE {}
               ELSE IF m.seq > w.max THEN {Moved(w, m, B)}
                    ELSE IF w.max - m.seq >= ReplayWindow \/ w.max - m.seq \in w.bitmap THEN {}
                         ELSE {Moved(w, m, C)})
    BY DEF Accept, B, C
  <2> QED BY <1>0, <1>1, <2>1, <2>2, <2>3 DEF Moved
<1>4. CASE m.boot # w.boot /\ m.ts > w.ts /\ x = FirstWindow(m)
  <2>1. x \in RelayWindow /\ x.boot = m.boot /\ x.max = m.seq /\ x.bitmap = {0} /\ x.ts = m.ts
    BY <1>0, <1>1, <1>4 DEF FirstWindow, RelayWindow
  <2>2. Within(x, m) /\ ~Within(w, m)
    BY <1>1, <1>4, <2>1 DEF Within
  <2>3. m.boot > w.boot => \A d \in RelayMsg : Within(w, d) => Within(x, d)
    BY <1>1, <1>4, <2>1 DEF Within, RelayMsg
  <2> QED BY <1>1, <1>4, <2>1, <2>2, <2>3
<1>5. CASE m.boot = w.boot /\ m.seq > w.max /\ x = top
  <2>0. m.seq - w.max \in Nat BY <1>1, <1>5
  <2>1. B \in SUBSET (0..ReplayWindow - 1) /\ 0 \in B
        /\ \A i \in w.bitmap : i + (m.seq - w.max) < ReplayWindow => i + (m.seq - w.max) \in B
    BY <1>1, <2>0, ShiftedOK
  <2> HIDE DEF B
  <2>2. x \in RelayWindow /\ x.boot = m.boot /\ x.max = m.seq /\ x.bitmap = B
        /\ x.ts = Later(w.ts, m.ts)
    BY <1>1, <1>2, <1>5, <2>1 DEF RelayWindow
  <2>3. Within(x, m) /\ ~Within(w, m)
    BY <1>1, <1>2, <1>5, <2>1, <2>2 DEF Within
  <2>4. ASSUME NEW d \in RelayMsg, Within(w, d) PROVE Within(x, d)
    <3>1. d.boot \in Nat /\ d.seq \in Nat /\ d.ts \in Nat BY DEF RelayMsg
    <3>2. d.boot <= x.boot /\ d.ts <= x.ts BY <1>1, <1>2, <1>5, <2>2, <2>4, <3>1 DEF Within
    <3>3. ASSUME d.boot = x.boot
          PROVE d.seq <= x.max /\ (x.max - d.seq >= ReplayWindow \/ x.max - d.seq \in x.bitmap)
      <4>1. d.seq <= w.max /\ (w.max - d.seq >= ReplayWindow \/ w.max - d.seq \in w.bitmap)
        BY <1>5, <2>2, <2>4, <3>3 DEF Within
      <4>2. x.max - d.seq = (w.max - d.seq) + (m.seq - w.max) /\ x.max - d.seq \in Nat
        BY <1>1, <1>5, <2>2, <3>1, <4>1
      <4> QED BY <1>0, <1>1, <1>5, <2>0, <2>1, <2>2, <3>1, <4>1, <4>2
    <3> QED BY <3>2, <3>3 DEF Within
  <2> QED BY <1>1, <1>2, <1>5, <2>2, <2>3, <2>4
<1>6. CASE m.boot = w.boot /\ m.seq <= w.max /\ w.max - m.seq < ReplayWindow
         /\ w.max - m.seq \notin w.bitmap /\ x = old
  <2>1. C \in SUBSET (0..ReplayWindow - 1) BY <1>0, <1>1, <1>6
  <2>2. x \in RelayWindow /\ x.boot = m.boot /\ x.max = w.max /\ x.bitmap = C
        /\ x.ts = Later(w.ts, m.ts)
    BY <1>1, <1>2, <1>6, <2>1 DEF RelayWindow
  <2>3. Within(x, m) /\ ~Within(w, m)
    BY <1>0, <1>1, <1>2, <1>6, <2>1, <2>2 DEF Within
  <2>4. ASSUME NEW d \in RelayMsg, Within(w, d) PROVE Within(x, d)
    BY <1>1, <1>2, <1>6, <2>2, <2>4 DEF Within, RelayMsg
  <2> QED BY <1>1, <1>2, <1>6, <2>2, <2>3, <2>4
<1> QED BY <1>3, <1>4, <1>5, <1>6

LEMMA RaftArrivesOK ==
    ASSUME RelayInv, NEW m \in relayWire, RaftArrives(m)
    PROVE  RelayInv'
<1> DEFINE p == m.from
           w == relays[p].window
<1>0. ReplayWindow \in Nat \ {0} BY RelayAssumption
<1>1. m \in RelayMsg /\ p \in RelayPeer /\ m.boot \in Nat \ {0} /\ m.seq \in Nat /\ m.ts \in Nat
  BY DEF RelayInv, RelayShape, RelayMsg
<1>2. relays[p] # NoRelay /\ w \in RelayWindow /\ relays[p].seen \in 0..MaxNow
      /\ relays[p].seen # 0
  BY <1>1 DEF RelayInv, RelayShape, RaftArrives
<1>3. PICK x \in AcceptRaft(p, m) : relays' = [relays EXCEPT ![p].window = x]
  BY DEF RaftArrives
<1>4. /\ delivered' = delivered \cup {m}
      /\ replayed' = IF m \in delivered THEN replayed \cup {m} ELSE replayed
      /\ UNCHANGED <<voters, netOp, tickOps, refused, relayWire, boots, seqs, relayNow>>
  BY DEF RaftArrives
<1>5. WindowCovers(p, w)
  BY <1>1, <1>2 DEF RelayInv, WindowsCover
<1>6. /\ x \in RelayWindow /\ x # NoWindow /\ m \notin delivered
      /\ \A d \in delivered \cup {m} : d.from = p => Within(x, d)
      /\ \E y \in delivered \cup {m} : y.from = p /\ y.boot = x.boot /\ y.ts = x.ts
  <2>1. CASE w = NoWindow
    <3>1. x = FirstWindow(m) BY <1>3, <2>1 DEF AcceptRaft
    <3>2. x \in RelayWindow /\ x.boot = m.boot /\ x.max = m.seq /\ x.bitmap = {0} /\ x.ts = m.ts
      BY <1>0, <1>1, <3>1 DEF FirstWindow, RelayWindow
    <3>3. \A d \in delivered : d.from # p BY <1>5, <2>1 DEF WindowCovers
    <3>4. Within(x, m) BY <1>1, <3>2 DEF Within
    <3>5. x # NoWindow BY <1>1, <3>2 DEF NoWindow
    <3> QED BY <3>2, <3>3, <3>4, <3>5
  <2>2. CASE w # NoWindow
    <3>1. x \in Accept(w, m) BY <1>3, <2>2 DEF AcceptRaft
    <3>2. PICK y \in delivered : y.from = p /\ y.boot = w.boot /\ y.ts = w.ts
      BY <1>5, <2>2 DEF WindowCovers
    <3>3. \A d \in delivered : d.from = p => Within(w, d)
      BY <1>5, <2>2 DEF WindowCovers
    <3>4. delivered \subseteq RelayMsg /\ y \in relayWire
      BY DEF RelayInv, RelayShape
    <3>5. /\ x \in RelayWindow /\ x.boot = m.boot /\ Within(x, m) /\ ~Within(w, m)
          /\ x.ts = m.ts \/ (x.ts = w.ts /\ x.boot = w.boot)
          /\ m.boot # w.boot => m.ts > w.ts
          /\ m.boot = w.boot => \A d \in RelayMsg : Within(w, d) => Within(x, d)
          /\ m.boot > w.boot => \A d \in RelayMsg : Within(w, d) => Within(x, d)
      BY <1>1, <1>2, <3>1, AcceptOK
    <3>6. m.boot >= w.boot
      <4>1. m.boot < y.boot => m.ts <= y.ts BY <3>2, <3>4 DEF RelayInv, BootsInOrder
      <4>2. w.boot \in Nat /\ w.ts \in Nat BY <1>2 DEF RelayWindow
      <4> QED BY <1>1, <3>2, <3>5, <4>1, <4>2
    <3>7. \A d \in delivered : d.from = p => Within(x, d)
      <4>1. m.boot = w.boot \/ m.boot > w.boot BY <1>1, <1>2, <3>6 DEF RelayWindow
      <4> QED BY <3>3, <3>4, <3>5, <4>1
    <3>8. x # NoWindow BY <1>1, <3>5 DEF NoWindow
    <3>9. m \notin delivered BY <3>3, <3>5
    <3> QED BY <3>2, <3>5, <3>7, <3>8, <3>9
  <2> QED BY <2>1, <2>2
<1>7. /\ relays' \in [RelayPeer -> [seen : 0..MaxNow, window : RelayWindow]]
      /\ relays'[p].window = x /\ relays'[p].seen = relays[p].seen
      /\ \A q \in RelayPeer : q # p => relays'[q] = relays[q]
  BY <1>1, <1>2, <1>3, <1>6 DEF RelayInv, RelayShape
<1>8. RelayShape'
  BY <1>2, <1>4, <1>7 DEF RelayInv, RelayShape
<1>9. BootsInOrder'
  BY <1>4 DEF RelayInv, BootsInOrder
<1>10. WindowsCover'
  <2> SUFFICES ASSUME NEW q \in RelayPeer, relays'[q] # NoRelay
               PROVE  WindowCovers(q, relays[q].window)'
    BY DEF WindowsCover
  <2>1. CASE q = p
    BY <1>4, <1>6, <1>7, <2>1 DEF WindowCovers
  <2>2. CASE q # p
    <3>1. relays'[q] = relays[q] /\ WindowCovers(q, relays[q].window)
      BY <1>7, <2>2 DEF RelayInv, WindowsCover
    <3> QED BY <1>4, <2>2, <3>1 DEF WindowCovers
  <2> QED BY <2>1, <2>2
<1>11. RaftOnce'
  BY <1>4, <1>6 DEF RelayInv, RaftOnce
<1> QED BY <1>8, <1>9, <1>10, <1>11 DEF RelayInv

LEMMA RelayStepOK ==
    ASSUME RelayInv, [RelayNext]_relayVars
    PROVE  RelayInv'
<1>0. ReplayWindow \in Nat \ {0} /\ MaxNow \in Nat \ {0} BY RelayAssumption
<1>1. NoWindow \in RelayWindow /\ NoRelay \in [seen : 0..MaxNow, window : RelayWindow]
      /\ NoRelay.seen = 0
  BY <1>0 DEF NoWindow, NoRelay, RelayWindow
<1>2. ASSUME NEW p \in RelayPeer, RaftSend(p) PROVE RelayInv'
  <2> DEFINE n == [from |-> p, boot |-> boots[p], seq |-> seqs[p] + 1, ts |-> relayNow]
  <2>1. n \in RelayMsg /\ n.boot = boots[p] /\ n.from = p /\ n.ts = relayNow /\ relayNow \in Nat
        /\ boots[p] \in Nat
    BY <1>0 DEF RelayInv, RelayShape, RelayMsg
  <2>2. relayWire' = relayWire \cup {n} BY <1>2 DEF RaftSend
  <2> HIDE DEF n
  <2>3. RelayShape'
    BY <1>2, <2>1, <2>2 DEF RaftSend, RelayInv, RelayShape
  <2>4. BootsInOrder'
    <3>1. \A m \in relayWire' : m.boot <= boots[m.from] /\ m.ts <= relayNow
      BY <2>1, <2>2 DEF RelayInv, BootsInOrder
    <3>2. \A m \in relayWire' : m.boot \in Nat /\ m.ts \in Nat
      BY <2>1, <2>2 DEF RelayInv, RelayShape, RelayMsg
    <3>3. ASSUME NEW a \in relayWire', NEW b \in relayWire', a.from = b.from, a.boot < b.boot
          PROVE  a.ts <= b.ts
      <4>1. CASE b = n BY <2>1, <3>1, <3>3, <4>1
      <4>2. CASE a = n BY <2>1, <3>1, <3>2, <3>3, <4>2
      <4>3. CASE a # n /\ b # n BY <2>2, <3>3, <4>3 DEF RelayInv, BootsInOrder
      <4> QED BY <4>1, <4>2, <4>3
    <3>4. boots' = boots /\ relayNow' = relayNow BY <1>2 DEF RaftSend
    <3> QED BY <3>1, <3>3, <3>4 DEF BootsInOrder
  <2>5. WindowsCover' /\ RaftOnce'
    BY <1>2 DEF RaftSend, RelayInv, WindowsCover, WindowCovers, RaftOnce
  <2> QED BY <2>3, <2>4, <2>5 DEF RelayInv
<1>3. ASSUME NEW p \in RelayPeer, RelayReboots(p) PROVE RelayInv'
  <2>1. boots' = [boots EXCEPT ![p] = @ + 1] /\ boots[p] \in Nat
        /\ UNCHANGED <<relays, voters, netOp, tickOps, refused, relayWire, relayNow, delivered,
                       replayed>>
        /\ seqs' = [seqs EXCEPT ![p] = 0]
    BY <1>3 DEF RelayReboots, RelayInv, RelayShape
  <2>2. RelayShape' BY <2>1 DEF RelayInv, RelayShape
  <2>3. BootsInOrder' BY <2>1 DEF RelayInv, RelayShape, RelayMsg, BootsInOrder
  <2> QED BY <2>1, <2>2, <2>3 DEF RelayInv, WindowsCover, WindowCovers, RaftOnce
<1>4. CASE TimePasses
  <2>1. relayNow' = relayNow + 1 /\ relayNow < MaxNow
        /\ UNCHANGED <<relays, voters, netOp, tickOps, refused, relayWire, boots, seqs,
                       delivered, replayed>>
    BY <1>4 DEF TimePasses
  <2>2. RelayShape' BY <1>0, <2>1 DEF RelayInv, RelayShape
  <2>3. BootsInOrder' BY <1>0, <2>1 DEF RelayInv, RelayShape, RelayMsg, BootsInOrder
  <2> QED BY <2>1, <2>2, <2>3 DEF RelayInv, WindowsCover, WindowCovers, RaftOnce
<1>5. ASSUME NEW p \in RelayPeer, AdmissionChanges(p) PROVE RelayInv'
  BY <1>5 DEF AdmissionChanges, RelayInv, RelayShape, BootsInOrder, WindowsCover, WindowCovers,
              RaftOnce
<1>6. ASSUME NEW p \in RelayPeer, HelloArrives(p) PROVE RelayInv'
  <2>0. /\ UNCHANGED <<voters, tickOps, refused, relayWire, boots, seqs, relayNow, replayed>>
        /\ relayNow \in 1..MaxNow
    BY <1>6 DEF HelloArrives, RelayInv, RelayShape
  <2>1. CASE /\ relays[p] # NoRelay
             /\ relays' = [relays EXCEPT ![p].seen = relayNow]
             /\ UNCHANGED <<netOp, delivered>>
    <3>1. /\ relays' \in [RelayPeer -> [seen : 0..MaxNow, window : RelayWindow]]
          /\ relays'[p].window = relays[p].window /\ relays'[p].seen = relayNow
          /\ \A q \in RelayPeer : q # p => relays'[q] = relays[q]
      BY <1>0, <2>0, <2>1 DEF RelayInv, RelayShape
    <3>2. RelayShape' BY <2>0, <2>1, <3>1 DEF RelayInv, RelayShape
    <3>3. WindowsCover'
      BY <2>1, <3>1 DEF RelayInv, WindowsCover, WindowCovers
    <3> QED BY <2>0, <3>2, <3>3 DEF RelayInv, BootsInOrder, RaftOnce
  <2>2. CASE /\ relays' = [relays EXCEPT ![p] = [seen |-> relayNow, window |-> NoWindow]]
             /\ netOp' = [op |-> "add", peer |-> p]
             /\ delivered' = {m \in delivered : m.from # p}
    <3>1. /\ relays' \in [RelayPeer -> [seen : 0..MaxNow, window : RelayWindow]]
          /\ relays'[p].window = NoWindow /\ relays'[p].seen = relayNow
          /\ \A q \in RelayPeer : q # p => relays'[q] = relays[q]
      BY <1>0, <1>1, <2>0, <2>2 DEF RelayInv, RelayShape
    <3>2. RelayShape' BY <2>0, <2>2, <3>1 DEF RelayInv, RelayShape
    <3>3. WindowsCover'
      <4> SUFFICES ASSUME NEW q \in RelayPeer, relays'[q] # NoRelay
                   PROVE  WindowCovers(q, relays[q].window)'
        BY DEF WindowsCover
      <4>1. CASE q = p BY <2>2, <3>1, <4>1 DEF WindowCovers
      <4>2. CASE q # p
        <5>1. relays'[q] = relays[q] /\ WindowCovers(q, relays[q].window)
          BY <3>1, <4>2 DEF RelayInv, WindowsCover
        <5> QED BY <2>2, <4>2, <5>1 DEF WindowCovers
      <4> QED BY <4>1, <4>2
    <3> QED BY <2>0, <3>2, <3>3 DEF RelayInv, BootsInOrder, RaftOnce
  <2> QED BY <1>6, <2>1, <2>2 DEF HelloArrives
<1>7. ASSUME NEW p \in RelayPeer, PeerDisconnected(p) PROVE RelayInv'
  <2>1. /\ relays' = [relays EXCEPT ![p] = NoRelay] /\ netOp' = [op |-> "remove", peer |-> p]
        /\ UNCHANGED <<voters, tickOps, refused, relayWire, boots, seqs, relayNow, delivered,
                       replayed>>
    BY <1>7 DEF PeerDisconnected
  <2>2. relays' \in [RelayPeer -> [seen : 0..MaxNow, window : RelayWindow]]
        /\ relays'[p] = NoRelay /\ \A q \in RelayPeer : q # p => relays'[q] = relays[q]
    BY <1>1, <2>1 DEF RelayInv, RelayShape
  <2>3. RelayShape' BY <2>1, <2>2 DEF RelayInv, RelayShape
  <2>4. WindowsCover' BY <2>1, <2>2 DEF RelayInv, WindowsCover, WindowCovers
  <2> QED BY <2>1, <2>3, <2>4 DEF RelayInv, BootsInOrder, RaftOnce
<1>8. CASE TellRaft
  <2>1. netOp.peer \in RelayPeer BY <1>8 DEF TellRaft, RelayInv, RelayShape
  <2>2. RelayShape' BY <1>8, <2>1 DEF TellRaft, RelayInv, RelayShape
  <2> QED BY <1>8, <2>2 DEF TellRaft, RelayInv, BootsInOrder, WindowsCover, WindowCovers, RaftOnce
<1>9. CASE ExpireStalePeers
  <2>1. /\ tickOps' = Stale /\ Stale \subseteq RelayPeer
        /\ relays' = [p \in RelayPeer |-> IF p \in Stale THEN NoRelay ELSE relays[p]]
        /\ UNCHANGED <<voters, netOp, refused, relayWire, boots, seqs, relayNow, delivered,
                       replayed>>
    BY <1>9 DEF ExpireStalePeers, Stale
  <2>2. relays' \in [RelayPeer -> [seen : 0..MaxNow, window : RelayWindow]]
        /\ \A q \in RelayPeer : relays'[q] = NoRelay \/ relays'[q] = relays[q]
    BY <1>1, <2>1 DEF RelayInv, RelayShape
  <2>3. RelayShape' BY <2>1, <2>2 DEF RelayInv, RelayShape
  <2>4. WindowsCover' BY <2>1, <2>2 DEF RelayInv, WindowsCover, WindowCovers
  <2> QED BY <2>1, <2>3, <2>4 DEF RelayInv, BootsInOrder, RaftOnce
<1>10. ASSUME NEW p \in RelayPeer, RemoveStale(p) PROVE RelayInv'
  BY <1>10 DEF RemoveStale, RelayInv, RelayShape, BootsInOrder, WindowsCover, WindowCovers,
               RaftOnce
<1>11. CASE UNCHANGED relayVars
  BY <1>11 DEF relayVars, RelayInv, RelayShape, BootsInOrder, WindowsCover, WindowCovers, RaftOnce
<1> QED
  BY <1>2, <1>3, <1>4, <1>5, <1>6, <1>7, <1>8, <1>9, <1>10, <1>11, RaftArrivesOK DEF RelayNext

LEMMA RelayInitOK == RelayInit => RelayInv
<1>1. ReplayWindow \in Nat \ {0} /\ MaxNow \in Nat \ {0} BY RelayAssumption
<1> QED
  BY <1>1 DEF RelayInit, RelayInv, RelayShape, BootsInOrder, WindowsCover, RaftOnce, NoRelay,
              NoWindow, RelayWindow, NoOp

LEMMA RelayInvariant == RelaySpec => []RelayInv
BY RelayInitOK, RelayStepOK, PTL DEF RelaySpec

LEMMA RelayShapeIsType == RelayInv => RelayTypeOK
BY DEF RelayInv, RelayShape, RelayTypeOK, RelayWindow, NoOp

-----------------------------------------------------------------------------
(***************************************************************************)
(* The replay cache of direct messages: an accepted message stays in it    *)
(* for as long as its signed time lets it pass.  Its lifetime exceeds the  *)
(* two skews, and the cap is never reached by live entries: the limiter    *)
(* lets GlobalPerWindow of them in per window, so that GlobalPerWindow     *)
(* places further on an entry is later (CacheSpaced), and entries live     *)
(* DedupeTtl windows.                                                      *)
(***************************************************************************)
DmKeys == {<<m.from, m.id>> : m \in DmWire}
CacheEntry == [at : Nat, key : DmKeys]

CacheShape ==
    /\ dedupe \in Seq(CacheEntry)
    /\ dmNow \in Nat /\ globalCount \in 0..GlobalPerWindow
    /\ dmAccepted \in [DmWire -> 0..1]

CacheSpaced(d) ==
    /\ \A i, j \in 1..Len(d) : i <= j => d[i].at <= d[j].at
    /\ \A i, j \in 1..Len(d) : j = i + GlobalPerWindow => d[i].at < d[j].at
    /\ \A i \in 1..Len(d) : d[i].at <= dmNow
    /\ \A i \in 1..Len(d) : d[i].at = dmNow => Len(d) + 1 - i <= globalCount

Remembered(m, d) ==
    \E i \in 1..Len(d) : d[i].key = <<m.from, m.id>> /\ m.ts <= d[i].at + MaxSkew

AcceptedRemembered ==
    \A m \in DmWire :
        dmAccepted[m] = 1 /\ dmNow <= m.ts + MaxSkew => Remembered(m, dedupe)

CacheInv == CacheShape /\ CacheSpaced(dedupe) /\ AcceptedRemembered

LEMMA DmConstants ==
    /\ GlobalPerWindow \in Nat \ {0} /\ MaxSkew \in Nat /\ DedupeTtl \in Nat /\ DedupeMax \in Nat
    /\ DedupeTtl > 2 * MaxSkew
    /\ DedupeMax > GlobalPerWindow * (DedupeTtl + 1)
    /\ \A m \in DmWire : m.from \in DmPeer /\ m.ts \in Nat
BY DmAssumption

LEMMA DmNats ==
    /\ GlobalPerWindow \in Nat \ {0} /\ MaxSkew \in Nat /\ DedupeTtl \in Nat /\ DedupeMax \in Nat
BY DmConstants

LEMMA CacheTypes ==
    ASSUME CacheInv
    PROVE  /\ dedupe \in Seq(CacheEntry) /\ Len(dedupe) \in Nat
           /\ \A i \in 1..Len(dedupe) : dedupe[i] \in CacheEntry /\ dedupe[i].at \in Nat
           /\ dmNow \in Nat /\ globalCount \in 0..GlobalPerWindow /\ dmAccepted \in [DmWire -> 0..1]
<1>1. dedupe \in Seq(CacheEntry)
  BY DEF CacheInv, CacheShape
<1>2. Len(dedupe) \in Nat /\ \A i \in 1..Len(dedupe) : dedupe[i] \in CacheEntry
  BY <1>1
<1>3. \A x \in CacheEntry : x.at \in Nat
  BY DEF CacheEntry
<1> QED BY <1>1, <1>2, <1>3 DEF CacheInv, CacheShape

(* Entries GlobalPerWindow places apart are a window apart.                 *)
LEMMA CacheLater ==
    ASSUME CacheInv, NEW a \in 1..Len(dedupe), NEW n \in Nat, a + n * GlobalPerWindow <= Len(dedupe)
    PROVE  dedupe[a + n * GlobalPerWindow].at >= dedupe[a].at + n
<1> DEFINE G == GlobalPerWindow
           S == {k \in Nat : a + k * G <= Len(dedupe) => dedupe[a + k * G].at >= dedupe[a].at + k}
<1>0. G \in Nat \ {0} /\ Len(dedupe) \in Nat /\ \A i \in 1..Len(dedupe) : dedupe[i].at \in Nat
  BY DmConstants, CacheTypes
<1>1. 0 \in S
  <2>1. a + 0 * G = a BY <1>0
  <2> QED BY <1>0, <2>1
<1>2. ASSUME NEW k \in Nat, k \in S PROVE k + 1 \in S
  <2>1. a + (k + 1) * G = (a + k * G) + G /\ k * G \in Nat
    BY <1>0
  <2>2. ASSUME a + (k + 1) * G <= Len(dedupe)
        PROVE  dedupe[a + (k + 1) * G].at >= dedupe[a].at + (k + 1)
    <3> DEFINE b == a + k * G
               c == a + (k + 1) * G
    <3>1. b \in 1..Len(dedupe) /\ c \in 1..Len(dedupe) /\ c = b + G
      <4> DEFINE kG == k * G
      <4> HIDE DEF kG, G
      <4>1. kG \in Nat /\ c = a + kG + G /\ b = a + kG BY <2>1 DEF kG
      <4> HIDE DEF b, c
      <4> QED BY <1>0, <2>2, <4>1 DEF c
    <3>2. dedupe[b].at >= dedupe[a].at + k
      BY <1>2, <3>1
    <3>3. dedupe[b].at < dedupe[c].at
      BY <3>1 DEF CacheInv, CacheSpaced
    <3> HIDE DEF b, c, G
    <3>4. dedupe[a].at \in Nat /\ dedupe[b].at \in Nat /\ dedupe[c].at \in Nat
      BY <1>0, <3>1
    <3>5. dedupe[c].at >= dedupe[a].at + (k + 1)
      BY <3>2, <3>3, <3>4, SMTT(30)
    <3> QED BY <3>5 DEF c
  <2> QED BY <2>2
<1>3. Nat \subseteq S
  <2> HIDE DEF S
  <2> QED BY <1>1, <1>2, NatInduct
<1>4. n \in S
  <2> HIDE DEF S
  <2> QED BY <1>3
<1> QED BY <1>4

(* Pruning drops only entries past their lifetime.                          *)
LEMMA PruneKeeps ==
    ASSUME CacheInv
    PROVE  \E k \in 1..Len(dedupe) + 1 :
              /\ DedupePrune(dedupe) \in Seq(CacheEntry)
              /\ Len(DedupePrune(dedupe)) = Len(dedupe) + 1 - k
              /\ \A i \in 1..Len(dedupe) + 1 - k : DedupePrune(dedupe)[i] = dedupe[k - 1 + i]
              /\ \A i \in 1..k - 1 : dmNow - dedupe[i].at > DedupeTtl
<1> DEFINE d == dedupe
           old == {x \in Range(d) : dmNow - x.at > DedupeTtl}
           live == PopWhile(d, old)
<1>0. d \in Seq(CacheEntry) /\ Len(d) \in Nat /\ \A i \in 1..Len(d) : d[i].at \in Nat /\ d[i] \in Range(d)
      /\ dmNow \in Nat
  BY CacheTypes DEF Range
<1>1. PICK k \in 1..Len(d) + 1 :
              /\ live = SubSeq(d, k, Len(d))
              /\ live \in Seq(CacheEntry) /\ Len(live) = Len(d) + 1 - k
              /\ \A i \in 1..Len(d) + 1 - k : live[i] = d[k - 1 + i]
              /\ \A i \in 1..k - 1 : d[i] \in old
              /\ k <= Len(d) => d[k] \notin old
  <2> HIDE DEF d, old
  <2> QED BY <1>0, PopWhileOf
<1>2. Len(live) < DedupeMax
  <2> SUFFICES ASSUME Len(live) >= DedupeMax PROVE FALSE
    BY <1>0, <1>1, DmConstants
  <2> DEFINE G == GlobalPerWindow
             t == DedupeTtl + 1
             e == k + t * G
  <2>1. t \in Nat /\ t * G \in Nat /\ DedupeMax > t * G /\ G \in Nat \ {0}
    BY DmConstants
  <2>2. k \in 1..Len(d) /\ e <= Len(d) /\ e \in 1..Len(d)
    <3> DEFINE tG == t * G
    <3>1. tG \in Nat /\ e = k + tG /\ DedupeMax > tG BY <2>1
    <3> HIDE DEF d, live, tG, e
    <3> QED BY <1>0, <1>1, <3>1, DmConstants
  <2>3. d[e].at >= d[k].at + t
    BY <2>1, <2>2, CacheLater
  <2>4. d[k] \notin old BY <1>1, <2>2
  <2>5. dmNow - d[k].at <= DedupeTtl
    <3>1. d[k] \in Range(d) /\ d[k].at \in Nat BY <1>0, <2>2
    <3>2. ~(dmNow - d[k].at > DedupeTtl) BY <2>4, <3>1
    <3>3. DedupeTtl \in Nat /\ dmNow \in Nat BY DmNats, CacheTypes
    <3> HIDE DEF d
    <3> QED BY <3>1, <3>2, <3>3
  <2>6. d[e].at <= dmNow BY <2>2 DEF CacheInv, CacheSpaced
  <2>7. d[k].at \in Nat /\ d[e].at \in Nat BY <1>0, <2>2
  <2>8. DedupeTtl \in Nat /\ dmNow \in Nat BY DmNats, CacheTypes
  <2>9. d[e].at >= d[k].at + (DedupeTtl + 1) BY <2>3
  <2> HIDE DEF d, e, t
  <2> QED BY <2>5, <2>6, <2>7, <2>8, <2>9
<1>3. DedupePrune(dedupe) = live
  <2>1. Len(live) \in Nat BY <1>1
  <2>2. ~(Len(live) >= DedupeMax) BY <1>2, <2>1, DmConstants
  <2> QED BY <2>2 DEF DedupePrune
<1>4. \A i \in 1..k - 1 : dmNow - d[i].at > DedupeTtl
  BY <1>1
<1> HIDE DEF live
<1> QED BY <1>1, <1>3, <1>4

LEMMA InboundMessageOnce ==
    ASSUME CacheInv, NEW m \in DmWire, InboundMessage(m)
    PROVE  CacheInv'
<1> DEFINE d == DedupePrune(dedupe)
           x == [at |-> dmNow, key |-> <<m.from, m.id>>]
           e == Append(d, x)
<1>0. /\ dedupe \in Seq(CacheEntry) /\ Len(dedupe) \in Nat
      /\ \A i \in 1..Len(dedupe) : dedupe[i].at \in Nat
      /\ dmNow \in Nat /\ globalCount \in 0..GlobalPerWindow /\ dmAccepted \in [DmWire -> 0..1]
  BY CacheTypes
<1>1. FreshWire(m) /\ ~DedupeContains(m) /\ globalCount < GlobalPerWindow
      /\ globalCount' = globalCount + 1 /\ dmNow' = dmNow /\ dedupe' = e
  BY DEF InboundMessage, Allowed, Charged
<1>2. PICK k \in 1..Len(dedupe) + 1 :
              /\ d \in Seq(CacheEntry)
              /\ Len(d) = Len(dedupe) + 1 - k
              /\ \A i \in 1..Len(dedupe) + 1 - k : d[i] = dedupe[k - 1 + i]
              /\ \A i \in 1..k - 1 : dmNow - dedupe[i].at > DedupeTtl
  <2> HIDE DEF d
  <2> QED BY PruneKeeps DEF d
<1>3. x \in CacheEntry /\ x.at = dmNow /\ x.key = <<m.from, m.id>>
  <2>1. <<m.from, m.id>> \in DmKeys BY DEF DmKeys
  <2> QED BY <1>0, <2>1 DEF CacheEntry
<1> HIDE DEF d, x
<1>4. e \in Seq(CacheEntry) /\ Len(e) = Len(d) + 1 /\ e[Len(d) + 1] = x
      /\ \A i \in 1..Len(d) : e[i] = d[i]
  BY <1>2, <1>3, AppendOf
<1> HIDE DEF e
<1>5. \A i \in 1..Len(d) : /\ k - 1 + i \in 1..Len(dedupe) /\ e[i] = dedupe[k - 1 + i]
                           /\ e[i].at \in Nat
  <2> SUFFICES ASSUME NEW i \in 1..Len(d)
               PROVE  k - 1 + i \in 1..Len(dedupe) /\ e[i] = dedupe[k - 1 + i] /\ e[i].at \in Nat
    OBVIOUS
  <2>1. k - 1 + i \in 1..Len(dedupe) /\ i \in 1..Len(dedupe) + 1 - k BY <1>0, <1>2
  <2>2. e[i] = dedupe[k - 1 + i] BY <1>2, <1>4, <2>1
  <2> QED BY <1>0, <2>1, <2>2
<1>6. Len(d) \in Nat /\ \A i \in 1..Len(e) : i \in 1..Len(d) \/ i = Len(d) + 1
  <2>1. Len(d) \in Nat BY <1>2
  <2> QED BY <1>4, <2>1
<1>7. CacheSpaced(dedupe)'
  <2>0. GlobalPerWindow \in Nat \ {0} BY DmConstants
  <2>1. \A i \in 1..Len(e) : e[i].at <= dmNow /\ e[i].at \in Nat
    <3> SUFFICES ASSUME NEW i \in 1..Len(e) PROVE e[i].at <= dmNow /\ e[i].at \in Nat
      OBVIOUS
    <3>1. CASE i = Len(d) + 1 BY <1>0, <1>3, <1>4, <3>1
    <3>2. CASE i \in 1..Len(d) BY <1>5, <3>2 DEF CacheInv, CacheSpaced
    <3> QED BY <1>6, <3>1, <3>2
  <2>2. ASSUME NEW i \in 1..Len(e), NEW j \in 1..Len(e), i <= j PROVE e[i].at <= e[j].at
    <3>1. CASE j = Len(d) + 1 BY <1>3, <1>4, <2>1, <3>1
    <3>2. CASE j \in 1..Len(d)
      <4>1. i \in 1..Len(d) BY <1>4, <1>6, <2>2, <3>2
      <4>2. k - 1 + i <= k - 1 + j BY <2>2
      <4> QED BY <1>5, <3>2, <4>1, <4>2 DEF CacheInv, CacheSpaced
    <3> QED BY <1>6, <3>1, <3>2
  <2>3. ASSUME NEW i \in 1..Len(e), NEW j \in 1..Len(e), j = i + GlobalPerWindow
        PROVE  e[i].at < e[j].at
    <3>1. i \in 1..Len(d) BY <1>4, <1>6, <2>0, <2>3
    <3>2. CASE j = Len(d) + 1
      <4>1. e[i].at # dmNow
        <5> SUFFICES ASSUME e[i].at = dmNow PROVE FALSE
          OBVIOUS
        <5>1. Len(dedupe) + 1 - (k - 1 + i) <= globalCount
          BY <1>5, <3>1 DEF CacheInv, CacheSpaced
        <5>2. Len(d) = Len(dedupe) + 1 - k /\ Len(d) \in Nat BY <1>2, <1>6
        <5>3. k \in Nat /\ i \in Nat /\ Len(dedupe) \in Nat BY <1>0
        <5>4. globalCount \in Nat /\ globalCount < GlobalPerWindow BY <1>0, <1>1, <2>0
        <5> QED BY <2>0, <2>3, <3>2, <5>1, <5>2, <5>3, <5>4
      <4> QED BY <1>0, <1>3, <1>4, <2>1, <3>2, <4>1
    <3>3. CASE j \in 1..Len(d)
      <4>1. k - 1 + j = (k - 1 + i) + GlobalPerWindow BY <2>0, <2>3, <3>1
      <4> QED BY <1>5, <3>1, <3>3, <4>1 DEF CacheInv, CacheSpaced
    <3> QED BY <1>6, <3>2, <3>3
  <2>4. ASSUME NEW i \in 1..Len(e), e[i].at = dmNow PROVE Len(e) + 1 - i <= globalCount + 1
    <3>1. CASE i = Len(d) + 1 BY <1>0, <1>4, <1>6, <3>1
    <3>2. CASE i \in 1..Len(d)
      <4>1. Len(dedupe) + 1 - (k - 1 + i) <= globalCount
        BY <1>5, <2>4, <3>2 DEF CacheInv, CacheSpaced
      <4>2. Len(e) = Len(d) + 1 /\ Len(d) \in Nat BY <1>4, <1>6
      <4>3. Len(d) = Len(dedupe) + 1 - k /\ Len(dedupe) \in Nat BY <1>0, <1>2
      <4>4. k \in Nat /\ i \in Nat /\ globalCount \in Nat BY <1>0, <2>0, <4>3
      <4> QED BY <4>1, <4>2, <4>3, <4>4
    <3> QED BY <1>6, <3>1, <3>2
  <2> QED BY <1>1, <2>1, <2>2, <2>3, <2>4 DEF CacheSpaced
<1>8. dmAccepted[m] = 0
  <2>1. dmAccepted[m] = 1 => Remembered(m, dedupe)
    BY <1>1 DEF CacheInv, AcceptedRemembered, FreshWire
  <2>2. ~Remembered(m, dedupe)
    BY <1>0, <1>1 DEF DedupeContains, Remembered
  <2> QED BY <1>0, <2>1, <2>2
<1>9. dmAccepted' = dmAccepted \/ dmAccepted' = [dmAccepted EXCEPT ![m] = @ + 1]
  BY DEF InboundMessage
<1>10. dmAccepted' \in [DmWire -> 0..1] /\ \A n \in DmWire : n # m => dmAccepted'[n] = dmAccepted[n]
  BY <1>0, <1>8, <1>9
<1>11. CacheShape'
  BY <1>0, <1>1, <1>4, <1>10, DmConstants DEF CacheShape, CacheEntry
<1>12. AcceptedRemembered'
  <2> SUFFICES ASSUME NEW n \in DmWire, dmAccepted'[n] = 1, dmNow <= n.ts + MaxSkew
               PROVE  Remembered(n, e)
    BY <1>1 DEF AcceptedRemembered
  <2>1. CASE n = m
    <3>1. m.ts <= dmNow + MaxSkew BY <1>1 DEF FreshWire
    <3>2. Len(d) + 1 \in 1..Len(e) BY <1>4, <1>6
    <3> QED BY <1>3, <1>4, <2>1, <3>1, <3>2 DEF Remembered
  <2>2. CASE n # m
    <3>1. Remembered(n, dedupe) BY <1>10, <2>2 DEF CacheInv, AcceptedRemembered
    <3>2. PICK i \in 1..Len(dedupe) : dedupe[i].key = <<n.from, n.id>> /\ n.ts <= dedupe[i].at + MaxSkew
      BY <3>1 DEF Remembered
    <3>3. ~(i \in 1..k - 1)
      <4> SUFFICES ASSUME i \in 1..k - 1 PROVE FALSE
        OBVIOUS
      <4>1. dmNow - dedupe[i].at > DedupeTtl BY <1>2
      <4>2. n.ts \in Nat /\ dedupe[i].at \in Nat BY <1>0, DmConstants
      <4> QED BY <1>0, <3>2, <4>1, <4>2, DmConstants, SMTT(30)
    <3> DEFINE j == i + 1 - k
    <3>4. j \in 1..Len(d) /\ k - 1 + j = i BY <1>0, <1>2, <3>3
    <3>5. j \in 1..Len(e) /\ e[j] = dedupe[i]
      <4> HIDE DEF j
      <4>1. j \in 1..Len(e) BY <1>4, <1>6, <3>4
      <4> QED BY <1>5, <3>4, <4>1
    <3> QED BY <3>2, <3>5 DEF Remembered
  <2> QED BY <2>1, <2>2
<1> QED BY <1>7, <1>11, <1>12 DEF CacheInv

LEMMA CacheStepOK ==
    ASSUME CacheInv, [DmNext]_dmVars
    PROVE  CacheInv'
<1>0. GlobalPerWindow \in Nat \ {0} /\ MaxSkew \in Nat /\ \A m \in DmWire : m.ts \in Nat
  BY DmConstants
<1>1. ASSUME UNCHANGED <<dedupe, dmNow, dmAccepted>>,
             globalCount' = globalCount \/ (globalCount < GlobalPerWindow /\ globalCount' = globalCount + 1)
      PROVE  CacheInv'
  <2>1. globalCount \in Nat /\ globalCount' \in 0..GlobalPerWindow /\ globalCount <= globalCount'
        /\ Len(dedupe) \in Nat
    BY <1>0, <1>1 DEF CacheInv, CacheShape
  <2>2. CacheSpaced(dedupe)'
    BY <1>1, <2>1 DEF CacheInv, CacheSpaced
  <2> QED BY <1>1, <2>1, <2>2 DEF CacheInv, CacheShape, AcceptedRemembered
<1>2. ASSUME NEW m \in DmWire, InboundForged(m) PROVE CacheInv'
  BY <1>1, <1>2 DEF InboundForged, Allowed, Charged
<1>3. ASSUME NEW p \in DmPeer, NEW id \in DmOwnId, InboundAck(p, id) PROVE CacheInv'
  BY <1>1, <1>3 DEF InboundAck, Allowed, Charged
<1>4. CASE DmTick
  <2>1. dmNow' = dmNow + 1 /\ globalCount' = 0 /\ UNCHANGED <<dedupe, dmAccepted>> /\ dmNow \in Nat
        /\ \A i \in 1..Len(dedupe) : dedupe[i].at \in Nat
    BY <1>4, CacheTypes DEF DmTick
  <2>2. CacheSpaced(dedupe)'
    BY <2>1 DEF CacheInv, CacheSpaced
  <2>3. AcceptedRemembered'
    BY <1>0, <2>1 DEF CacheInv, AcceptedRemembered
  <2> QED BY <1>0, <2>1, <2>2, <2>3 DEF CacheInv, CacheShape
<1>5. CASE DmRestart
  <2>1. dmNow' = dmNow /\ globalCount' = 0 /\ dedupe' = <<>> /\ dmAccepted' = [m \in DmWire |-> 0]
    BY <1>5 DEF DmRestart
  <2>2. Len(<<>>) = 0 /\ \A i : i \notin 1..0
    <3>1. \A i \in Int : ~(1 <= i /\ i <= 0)
      OBVIOUS
    <3> QED BY <3>1
  <2> QED BY <1>0, <2>1, <2>2 DEF CacheInv, CacheShape, CacheSpaced, AcceptedRemembered
<1>6. CASE UNCHANGED <<dedupe, dmNow, dmAccepted, globalCount>>
  BY <1>1, <1>6
<1>7. ASSUME NEW p \in DmPeer, NEW id \in DmOwnId, NEW ok \in BOOLEAN, SendRoutes(p, id, ok)
      PROVE CacheInv'
  BY <1>6, <1>7 DEF SendRoutes, inboxVars
<1>8. ASSUME NEW p \in DmPeer, SendRecords(p) PROVE CacheInv'
  BY <1>6, <1>8 DEF SendRecords, inboxVars
<1>9. ASSUME NEW p \in DmPeer, MarkRead(p) PROVE CacheInv'
  BY <1>6, <1>9 DEF MarkRead, inboxVars
<1>10. ASSUME NEW p \in DmPeer, ClearConv(p) PROVE CacheInv'
  BY <1>6, <1>10 DEF ClearConv, inboxVars
<1>11. CASE FlushTakesWork
  BY <1>6, <1>11 DEF FlushTakesWork, inboxVars
<1>12. CASE ApplyPending
  BY <1>6, <1>12 DEF ApplyPending, inboxVars
<1>13. CASE ApplyPendingFails
  BY <1>6, <1>13 DEF ApplyPendingFails, inboxVars
<1>14. CASE UNCHANGED dmVars
  BY <1>6, <1>14 DEF dmVars
<1> QED
  BY <1>2, <1>3, <1>4, <1>5, <1>7, <1>8, <1>9, <1>10, <1>11, <1>12, <1>13, <1>14,
     InboundMessageOnce DEF DmNext

LEMMA CacheInvariant == DmSpec => []CacheInv
<1>1. DmInit => CacheInv
  <2>1. Len(<<>>) = 0 /\ \A i : i \notin 1..0
    <3>1. \A i \in Int : ~(1 <= i /\ i <= 0)
      OBVIOUS
    <3> QED BY <3>1
  <2> QED BY <2>1, DmConstants DEF DmInit, CacheInv, CacheShape, CacheSpaced, AcceptedRemembered
<1> QED BY <1>1, CacheStepOK, PTL DEF DmSpec

LEMMA CacheIsOnce == CacheInv => DmOnce
BY DEF CacheInv, CacheShape, DmOnce

-----------------------------------------------------------------------------
(***************************************************************************)
(* Proofs of identity: the nonce of an accepted hello is remembered for as *)
(* long as the hello is timely.  A nonce lives for two skews; the table    *)
(* holds each nonce once, so that no more hellos than it has room for do   *)
(* not fill it.  (Beyond that remember_nonce forgets the oldest one, and a *)
(* hello is only bounded by its freshness: the theorem assumes that there  *)
(* are at most MAX_NONCES hellos.)                                         *)
(***************************************************************************)
NonceEntry == [at : 0..MaxAuthTime, key : AuthNode \X (1..MaxHellos)]

NonceShape ==
    /\ hellos \subseteq HelloMsg /\ IsFiniteSet(hellos) /\ Cardinality(hellos) <= MaxHellos
    /\ authNow \in 0..MaxAuthTime
    /\ nonces \in Seq(NonceEntry)
    /\ proofsUsed \in [1..MaxHellos -> 0..1]

(* A nonce is of one hello, and is used only after it was signed.           *)
NoncesSigned ==
    /\ \A h \in hellos : h.nonce <= Cardinality(hellos)
    /\ \A g, h \in hellos : g.nonce = h.nonce => g = h
    /\ \A n \in 1..MaxHellos : n > Cardinality(hellos) => proofsUsed[n] = 0
    /\ \A i \in 1..Len(nonces) : nonces[i].at <= authNow
                              /\ \E h \in hellos : nonces[i].key = <<h.node, h.nonce>>
    /\ \A i, j \in 1..Len(nonces) : nonces[i].key = nonces[j].key => i = j

NonceKept(h, q) ==
    \E i \in 1..Len(q) : q[i].key = <<h.node, h.nonce>> /\ h.ts <= q[i].at + MaxClockSkew

NoncesKept ==
    \A h \in hellos :
        proofsUsed[h.nonce] = 1 /\ authNow <= h.ts + MaxClockSkew => NonceKept(h, nonces)

NonceInv == NonceShape /\ NoncesSigned /\ NoncesKept

LEMMA PeerAuthNats ==
    /\ MaxNonces \in Nat \ {0} /\ MaxClockSkew \in Nat /\ MaxHellos \in Nat /\ MaxAuthTime \in Nat
BY PeerAuthAssumption

LEMMA HelloFields ==
    ASSUME NEW h \in HelloMsg
    PROVE  /\ h.room \in AuthRoom /\ h.node \in AuthNode /\ h.ts \in 0..MaxAuthTime
           /\ h.nonce \in 1..MaxHellos
BY DEF HelloMsg

LEMMA NonceTypes ==
    ASSUME NonceInv
    PROVE  /\ nonces \in Seq(NonceEntry) /\ Len(nonces) \in Nat /\ authNow \in 0..MaxAuthTime
           /\ \A i \in 1..Len(nonces) : nonces[i] \in NonceEntry /\ nonces[i].at \in 0..MaxAuthTime
           /\ proofsUsed \in [1..MaxHellos -> 0..1]
           /\ \A h \in hellos : /\ h.node \in AuthNode /\ h.ts \in 0..MaxAuthTime
                                /\ h.nonce \in 1..MaxHellos
<1>1. nonces \in Seq(NonceEntry) /\ hellos \subseteq HelloMsg /\ authNow \in 0..MaxAuthTime
      /\ proofsUsed \in [1..MaxHellos -> 0..1]
  BY DEF NonceInv, NonceShape
<1>2. Len(nonces) \in Nat /\ \A i \in 1..Len(nonces) : nonces[i] \in NonceEntry
  BY <1>1
<1>3. \A x \in NonceEntry : x.at \in 0..MaxAuthTime
  BY DEF NonceEntry
<1> QED BY <1>1, <1>2, <1>3, HelloFields

(* prune drops nonces past two skews, from the front.                       *)
LEMMA PruneNonces ==
    ASSUME NonceInv
    PROVE  \E k \in 1..Len(nonces) + 1 :
              /\ PrunedNonces \in Seq(NonceEntry)
              /\ Len(PrunedNonces) = Len(nonces) + 1 - k
              /\ \A i \in 1..Len(nonces) + 1 - k : PrunedNonces[i] = nonces[k - 1 + i]
              /\ \A i \in 1..k - 1 : authNow - nonces[i].at > 2 * MaxClockSkew
<1> DEFINE old == {x \in Range(nonces) : ~WithinTtl(x.at, 2 * MaxClockSkew)}
<1>1. PICK k \in 1..Len(nonces) + 1 :
              /\ PopWhile(nonces, old) \in Seq(NonceEntry)
              /\ Len(PopWhile(nonces, old)) = Len(nonces) + 1 - k
              /\ \A i \in 1..Len(nonces) + 1 - k : PopWhile(nonces, old)[i] = nonces[k - 1 + i]
              /\ \A i \in 1..k - 1 : nonces[i] \in old
  <2> HIDE DEF old
  <2> QED BY NonceTypes, PopWhileOf, ZenonT(60)
<1>2. PrunedNonces = PopWhile(nonces, old)
  BY DEF PrunedNonces
<1>3. ASSUME NEW i \in 1..k - 1 PROVE authNow - nonces[i].at > 2 * MaxClockSkew
  <2>1. ~WithinTtl(nonces[i].at, 2 * MaxClockSkew) BY <1>1
  <2>2. i \in 1..Len(nonces) BY NonceTypes
  <2>3. nonces[i].at \in 0..MaxAuthTime /\ authNow \in 0..MaxAuthTime
        /\ MaxAuthTime \in Nat /\ MaxClockSkew \in Nat
    BY <2>2, NonceTypes, PeerAuthNats
  <2> QED BY <2>1, <2>3 DEF WithinTtl, NeverSeen
<1> HIDE DEF old
<1> QED BY <1>1, <1>2, <1>3

LEMMA AcceptHelloOnce ==
    ASSUME MaxHellos <= MaxNonces, NonceInv, NEW h \in hellos, AcceptHello(h)
    PROVE  NonceInv'
<1> DEFINE q == PrunedNonces
           key == <<h.node, h.nonce>>
           x == [at |-> authNow, key |-> key]
           ignored == \/ \E i \in DOMAIN PrunedNonces : PrunedNonces[i].key = key
                      \/ PrunedEntries[h.room][h.node] = NeverSeen /\ RegistryFull(h.room)
<1>0. /\ nonces \in Seq(NonceEntry) /\ Len(nonces) \in Nat /\ authNow \in 0..MaxAuthTime
      /\ \A i \in 1..Len(nonces) : nonces[i] \in NonceEntry /\ nonces[i].at \in 0..MaxAuthTime
      /\ proofsUsed \in [1..MaxHellos -> 0..1]
      /\ \A g \in hellos : g.node \in AuthNode /\ g.ts \in 0..MaxAuthTime /\ g.nonce \in 1..MaxHellos
      /\ MaxNonces \in Nat \ {0} /\ MaxClockSkew \in Nat /\ MaxHellos \in Nat /\ MaxAuthTime \in Nat
  BY NonceTypes, PeerAuthNats
<1>1. /\ TimelyHello(h) /\ hellos' = hellos /\ authNow' = authNow
      /\ \/ nonces' = q /\ proofsUsed' = proofsUsed
         \/ /\ ~ignored /\ nonces' = RememberNonce(q, key)
            /\ proofsUsed' = [proofsUsed EXCEPT ![h.nonce] = @ + 1]
  BY DEF AcceptHello
<1>2. PICK k \in 1..Len(nonces) + 1 :
              /\ q \in Seq(NonceEntry)
              /\ Len(q) = Len(nonces) + 1 - k
              /\ \A i \in 1..Len(nonces) + 1 - k : q[i] = nonces[k - 1 + i]
              /\ \A i \in 1..k - 1 : authNow - nonces[i].at > 2 * MaxClockSkew
  BY PruneNonces
<1> HIDE DEF q, x, key
<1>3. Len(q) \in Nat /\ DOMAIN q = 1..Len(q)
      /\ \A i \in 1..Len(q) : k - 1 + i \in 1..Len(nonces) /\ q[i] = nonces[k - 1 + i]
  <2>1. Len(q) \in Nat /\ DOMAIN q = 1..Len(q) BY <1>2
  <2>2. ASSUME NEW i \in 1..Len(q) PROVE k - 1 + i \in 1..Len(nonces) /\ q[i] = nonces[k - 1 + i]
    <3>1. k - 1 + i \in 1..Len(nonces) /\ i \in 1..Len(nonces) + 1 - k
      BY <1>0, <1>2, <2>1
    <3> QED BY <1>2, <3>1
  <2> QED BY <2>1, <2>2
<1>4. /\ \A i \in 1..Len(q) : /\ q[i].at <= authNow
                              /\ \E g \in hellos : q[i].key = <<g.node, g.nonce>>
      /\ \A i, j \in 1..Len(q) : q[i].key = q[j].key => i = j
  <2>1. \A i \in 1..Len(q) : /\ q[i].at <= authNow
                             /\ \E g \in hellos : q[i].key = <<g.node, g.nonce>>
    <3> SUFFICES ASSUME NEW i \in 1..Len(q)
                 PROVE  /\ q[i].at <= authNow
                        /\ \E g \in hellos : q[i].key = <<g.node, g.nonce>>
      OBVIOUS
    <3> DEFINE a == k - 1 + i
    <3>1. a \in 1..Len(nonces) /\ q[i] = nonces[a] BY <1>3
    <3> HIDE DEF a
    <3> QED BY <3>1 DEF NonceInv, NoncesSigned
  <2>2. ASSUME NEW i \in 1..Len(q), NEW j \in 1..Len(q), q[i].key = q[j].key PROVE i = j
    <3> DEFINE a == k - 1 + i
               b == k - 1 + j
    <3>1. a \in 1..Len(nonces) /\ q[i] = nonces[a] /\ b \in 1..Len(nonces) /\ q[j] = nonces[b]
      BY <1>3
    <3>2. a = b
      <4> HIDE DEF a, b
      <4> QED BY <2>2, <3>1 DEF NonceInv, NoncesSigned
    <3> QED BY <3>2
  <2> QED BY <2>1, <2>2
<1>5. \A g \in hellos : proofsUsed[g.nonce] = 1 /\ authNow <= g.ts + MaxClockSkew => NonceKept(g, q)
  <2> SUFFICES ASSUME NEW g \in hellos, proofsUsed[g.nonce] = 1, authNow <= g.ts + MaxClockSkew
               PROVE  NonceKept(g, q)
    OBVIOUS
  <2>1. PICK i \in 1..Len(nonces) : nonces[i].key = <<g.node, g.nonce>>
                                 /\ g.ts <= nonces[i].at + MaxClockSkew
    BY DEF NonceInv, NoncesKept, NonceKept
  <2>2. ~(i \in 1..k - 1)
    <3> SUFFICES ASSUME i \in 1..k - 1 PROVE FALSE
      OBVIOUS
    <3>1. authNow - nonces[i].at > 2 * MaxClockSkew BY <1>2
    <3> QED BY <1>0, <2>1, <3>1, SMTT(30)
  <2> DEFINE j == i + 1 - k
  <2>3. j \in 1..Len(q) /\ k - 1 + j = i BY <1>0, <1>2, <2>2
  <2>4. q[j] = nonces[i] BY <1>3, <2>3
  <2> HIDE DEF j
  <2> QED BY <2>1, <2>3, <2>4 DEF NonceKept
<1>6. CASE nonces' = q /\ proofsUsed' = proofsUsed
  BY <1>1, <1>2, <1>4, <1>5, <1>6 DEF NonceInv, NonceShape, NoncesSigned, NoncesKept
<1>7. CASE /\ ~ignored /\ nonces' = RememberNonce(q, key)
           /\ proofsUsed' = [proofsUsed EXCEPT ![h.nonce] = @ + 1]
  <2>1. \A i \in 1..Len(q) : q[i].key # key
    BY <1>3, <1>7 DEF q
  <2>2. Len(q) < MaxNonces
    <3> DEFINE f == [i \in 1..Len(q) |-> q[i].key[2]]
               T == (1..MaxHellos) \ {h.nonce}
    <3>1. \A i \in 1..Len(q) : /\ q[i].key[2] \in T
                               /\ \A j \in 1..Len(q) : q[i].key[2] = q[j].key[2] => i = j
      <4> SUFFICES ASSUME NEW i \in 1..Len(q)
                   PROVE  /\ q[i].key[2] \in T
                          /\ \A j \in 1..Len(q) : q[i].key[2] = q[j].key[2] => i = j
        OBVIOUS
      <4>1. PICK g \in hellos : q[i].key = <<g.node, g.nonce>>
        BY <1>4
      <4>2. q[i].key[2] = g.nonce BY <4>1
      <4>3. g.nonce # h.nonce
        <5>1. g.nonce = h.nonce => g = h BY DEF NonceInv, NoncesSigned
        <5> QED BY <2>1, <4>1, <5>1 DEF key
      <4>4. ASSUME NEW j \in 1..Len(q), q[i].key[2] = q[j].key[2] PROVE i = j
        <5>1. PICK e \in hellos : q[j].key = <<e.node, e.nonce>> BY <1>4
        <5>2. e.nonce = g.nonce BY <4>2, <4>4, <5>1
        <5>3. e = g BY <5>2 DEF NonceInv, NoncesSigned
        <5> QED BY <1>4, <4>1, <5>1, <5>3
      <4> QED BY <1>0, <4>2, <4>3, <4>4
    <3>2. f \in Injection(1..Len(q), T)
      <4>1. f \in [1..Len(q) -> T]
        <5> HIDE DEF T
        <5> QED BY <3>1
      <4>2. \A i, j \in 1..Len(q) : f[i] = f[j] => i = j
        BY <3>1
      <4> HIDE DEF f
      <4> QED BY <4>1, <4>2 DEF Injection, IsInjective
    <3>3. IsFiniteSet(1..MaxHellos) /\ Cardinality(1..MaxHellos) = MaxHellos
      BY <1>0, FS_Interval
    <3>4. IsFiniteSet(T) /\ Cardinality(T) = MaxHellos - 1
      <4>1. h.nonce \in 1..MaxHellos BY <1>0
      <4> QED BY <3>3, <4>1, FS_RemoveElement
    <3>5. Cardinality(1..Len(q)) <= Cardinality(T)
      <4> HIDE DEF f, T
      <4> QED BY <3>2, <3>4, FS_Injection
    <3>6. Cardinality(1..Len(q)) = Len(q)
      <4> DEFINE l == Len(q)
      <4>1. l \in Nat BY <1>3
      <4> HIDE DEF l
      <4>2. Cardinality(1..l) = IF 1 > l THEN 0 ELSE l - 1 + 1 BY <4>1, FS_Interval
      <4>3. Cardinality(1..l) = l BY <4>1, <4>2
      <4> QED BY <4>3 DEF l
    <3> HIDE DEF T
    <3> QED BY <1>0, <1>3, <3>4, <3>5, <3>6
  <2>3. nonces' = Append(q, x)
    BY <1>0, <1>3, <1>7, <2>2 DEF RememberNonce, x
  <2>4. x \in NonceEntry /\ x.at = authNow /\ x.key = key
    BY <1>0 DEF x, key, NonceEntry
  <2> DEFINE e == Append(q, x)
  <2>5. e \in Seq(NonceEntry) /\ Len(e) = Len(q) + 1 /\ e[Len(q) + 1] = x
        /\ \A i \in 1..Len(q) : e[i] = q[i]
    <3>1. q \in Seq(NonceEntry) /\ x \in NonceEntry BY <1>2, <2>4
    <3> HIDE DEF e
    <3>2. /\ Append(q, x) \in Seq(NonceEntry) /\ Len(Append(q, x)) = Len(q) + 1
          /\ \A i \in 1..Len(q) : Append(q, x)[i] = q[i]
          /\ Append(q, x)[Len(q) + 1] = x
      BY <3>1, AppendOf
    <3> QED BY <3>2 DEF e
  <2> HIDE DEF e
  <2>6. \A i \in 1..Len(e) : i \in 1..Len(q) \/ i = Len(q) + 1
    BY <1>3, <2>5
  <2>7. proofsUsed[h.nonce] = 0
    <3>1. proofsUsed[h.nonce] = 1 => NonceKept(h, q)
      BY <1>1, <1>5 DEF TimelyHello
    <3>2. ~NonceKept(h, q)
      BY <2>1 DEF NonceKept, key
    <3> QED BY <1>0, <3>1, <3>2
  <2>8. /\ proofsUsed' \in [1..MaxHellos -> 0..1]
        /\ \A n \in 1..MaxHellos : n # h.nonce => proofsUsed'[n] = proofsUsed[n]
    BY <1>0, <1>7, <2>7
  <2>9. NonceShape'
    BY <1>1, <2>3, <2>5, <2>8 DEF NonceInv, NonceShape, e
  <2>10. NoncesSigned'
    <3>1. \A n \in 1..MaxHellos : n > Cardinality(hellos) => proofsUsed'[n] = 0
      <4>1. h.nonce <= Cardinality(hellos) /\ Cardinality(hellos) \in Nat
        BY FS_CardinalityType DEF NonceInv, NonceShape, NoncesSigned
      <4>2. \A n \in 1..MaxHellos : n > Cardinality(hellos) => n # h.nonce
        BY <1>0, <4>1
      <4> QED BY <2>8, <4>2 DEF NonceInv, NoncesSigned
    <3>2. \A i \in 1..Len(e) : e[i].at <= authNow /\ \E g \in hellos : e[i].key = <<g.node, g.nonce>>
      <4> SUFFICES ASSUME NEW i \in 1..Len(e)
                   PROVE  e[i].at <= authNow /\ \E g \in hellos : e[i].key = <<g.node, g.nonce>>
        OBVIOUS
      <4>1. CASE i \in 1..Len(q) BY <1>4, <2>5, <4>1
      <4>2. CASE i = Len(q) + 1
        <5>1. e[i].at = authNow /\ e[i].key = <<h.node, h.nonce>> BY <2>4, <2>5, <4>2 DEF key
        <5> QED BY <1>0, <5>1
      <4> QED BY <2>6, <4>1, <4>2
    <3>3. \A i, j \in 1..Len(e) : e[i].key = e[j].key => i = j
      BY <1>4, <2>1, <2>4, <2>5, <2>6
    <3> QED BY <1>1, <2>3, <3>1, <3>2, <3>3 DEF NonceInv, NoncesSigned, e
  <2>11. NoncesKept'
    <3> SUFFICES ASSUME NEW g \in hellos, proofsUsed'[g.nonce] = 1, authNow <= g.ts + MaxClockSkew
                 PROVE  NonceKept(g, e)
      BY <1>1, <2>3 DEF NoncesKept, e
    <3>1. CASE g = h
      <4>1. Len(q) + 1 \in 1..Len(e) BY <1>3, <2>5
      <4>2. h.ts <= x.at + MaxClockSkew BY <1>1, <2>4 DEF TimelyHello
      <4> QED BY <2>4, <2>5, <3>1, <4>1, <4>2 DEF NonceKept, key
    <3>2. CASE g # h
      <4>1. g.nonce # h.nonce BY <3>2 DEF NonceInv, NoncesSigned
      <4>2. NonceKept(g, q) BY <1>0, <1>5, <2>8, <4>1
      <4>3. PICK i \in 1..Len(q) : q[i].key = <<g.node, g.nonce>> /\ g.ts <= q[i].at + MaxClockSkew
        BY <4>2 DEF NonceKept
      <4>4. i \in 1..Len(e) /\ e[i] = q[i] BY <1>3, <2>5
      <4> QED BY <4>3, <4>4 DEF NonceKept
    <3> QED BY <3>1, <3>2
  <2> QED BY <2>9, <2>10, <2>11 DEF NonceInv
<1> QED BY <1>1, <1>6, <1>7

LEMMA NonceStepOK ==
    ASSUME MaxHellos <= MaxNonces, NonceInv, [PeerAuthNext]_peerAuthVars
    PROVE  NonceInv'
<1>1. ASSUME NEW r \in AuthRoom, NEW n \in AuthNode, NEW ts \in 0..MaxAuthTime, NEW reply \in BOOLEAN,
             SignHello(r, n, ts, reply)
      PROVE  NonceInv'
  <2> DEFINE c == Cardinality(hellos)
             h == [room |-> r, node |-> n, ts |-> ts, nonce |-> c + 1, reply |-> reply]
  <2>1. hellos' = hellos \cup {h} /\ c < MaxHellos /\ UNCHANGED <<nonces, authNow, proofsUsed>>
    BY <1>1 DEF SignHello
  <2>2. IsFiniteSet(hellos) /\ c \in Nat /\ hellos \subseteq HelloMsg
    BY FS_CardinalityType DEF NonceInv, NonceShape
  <2>3. h \in HelloMsg /\ h.nonce = c + 1 /\ h.node = n
    BY <2>1, <2>2, PeerAuthNats DEF HelloMsg
  <2> HIDE DEF h
  <2>4. \A g \in hellos : g.nonce <= c /\ g.nonce \in Nat
    BY NonceTypes, PeerAuthNats DEF NonceInv, NoncesSigned
  <2>5. h \notin hellos BY <2>2, <2>3, <2>4
  <2>6. IsFiniteSet(hellos') /\ Cardinality(hellos') = c + 1
    BY <2>1, <2>2, <2>5, FS_AddElement
  <2>7. NonceShape'
    BY <2>1, <2>2, <2>3, <2>6, PeerAuthNats DEF NonceInv, NonceShape
  <2>8. proofsUsed[c + 1] = 0
    <3>1. c + 1 \in 1..MaxHellos /\ c + 1 > c BY <2>1, <2>2, PeerAuthNats
    <3> QED BY <3>1 DEF NonceInv, NoncesSigned
  <2>9. NoncesSigned'
    <3>1. \A g \in hellos' : g.nonce <= c + 1 BY <2>1, <2>2, <2>3, <2>4
    <3>2. ASSUME NEW e \in hellos', NEW g \in hellos', e.nonce = g.nonce PROVE e = g
      <4>1. CASE e \in hellos /\ g \in hellos BY <3>2, <4>1 DEF NonceInv, NoncesSigned
      <4>2. CASE e = h \/ g = h BY <2>1, <2>2, <2>3, <2>4, <3>2, <4>2
      <4> QED BY <2>1, <4>1, <4>2
    <3>3. \A m \in 1..MaxHellos : m > c + 1 => proofsUsed[m] = 0
      <4>1. \A m \in 1..MaxHellos : m > c + 1 => m > c BY <2>2
      <4> QED BY <4>1 DEF NonceInv, NoncesSigned
    <3> HIDE DEF c
    <3> QED BY <2>1, <2>6, <3>1, <3>2, <3>3, ZenonT(60) DEF NonceInv, NoncesSigned
  <2>10. NoncesKept'
    <3> HIDE DEF c
    <3>1. 0 # 1 OBVIOUS
    <3> QED BY <2>1, <2>3, <2>8, <3>1 DEF NonceInv, NoncesKept, NonceKept
  <2> QED BY <2>7, <2>9, <2>10 DEF NonceInv
<1>2. ASSUME UNCHANGED <<hellos, nonces, authNow, proofsUsed>> PROVE NonceInv'
  BY <1>2 DEF NonceInv, NonceShape, NoncesSigned, NoncesKept
<1>3. ASSUME NEW r \in AuthRoom, NEW n \in AuthNode, ForgetPeer(r, n) PROVE NonceInv'
  BY <1>2, <1>3 DEF ForgetPeer
<1>4. ASSUME NEW r \in AuthRoom, ForgetRoom(r) PROVE NonceInv'
  BY <1>2, <1>4 DEF ForgetRoom
<1>5. CASE AuthTick
  <2>1. authNow < MaxAuthTime /\ authNow' = authNow + 1 /\ UNCHANGED <<hellos, nonces, proofsUsed>>
        /\ authNow \in 0..MaxAuthTime /\ MaxAuthTime \in Nat /\ MaxClockSkew \in Nat
        /\ \A i \in 1..Len(nonces) : nonces[i].at \in 0..MaxAuthTime
        /\ \A h \in hellos : h.ts \in 0..MaxAuthTime
    BY <1>5, NonceTypes, PeerAuthNats DEF AuthTick
  <2>2. NonceShape' BY <2>1 DEF NonceInv, NonceShape
  <2>3. NoncesSigned' BY <2>1 DEF NonceInv, NoncesSigned
  <2>4. NoncesKept'
    <3>1. ASSUME NEW h \in hellos, authNow + 1 <= h.ts + MaxClockSkew
          PROVE  authNow <= h.ts + MaxClockSkew
      <4>1. h.ts \in Nat /\ authNow \in Nat /\ MaxClockSkew \in Nat BY NonceTypes, PeerAuthNats
      <4> QED BY <3>1, <4>1
    <3> QED BY <2>1, <3>1 DEF NonceInv, NoncesKept, NonceKept
  <2> QED BY <2>2, <2>3, <2>4 DEF NonceInv
<1>6. CASE UNCHANGED peerAuthVars
  BY <1>2, <1>6 DEF peerAuthVars
<1> QED BY <1>1, <1>3, <1>4, <1>5, <1>6, AcceptHelloOnce DEF PeerAuthNext

LEMMA NonceInitOK == PeerAuthInit => NonceInv
<1>1. Len(<<>>) = 0 /\ \A i : i \notin 1..0
  <2>1. \A i \in Int : ~(1 <= i /\ i <= 0)
    OBVIOUS
  <2> QED BY <2>1
<1>2. IsFiniteSet({}) /\ Cardinality({}) = 0
  BY FS_EmptySet
<1> QED
  BY <1>1, <1>2, PeerAuthNats DEF PeerAuthInit, NonceInv, NonceShape, NoncesSigned, NoncesKept

LEMMA NonceInvariant ==
    ASSUME MaxHellos <= MaxNonces
    PROVE  PeerAuthSpec => []NonceInv
<1>1. NonceInv /\ [PeerAuthNext]_peerAuthVars => NonceInv'
  BY NonceStepOK
<1> QED BY <1>1, NonceInitOK, PTL DEF PeerAuthSpec

LEMMA NonceIsOnce == NonceInv => ProofOnce
BY DEF NonceInv, NonceShape, ProofOnce

-----------------------------------------------------------------------------
(***************************************************************************)
(* The chat relay's log: tasks look an id up, give the lock away to verify *)
(* the wire and look again before they append.  The ids in memory cover    *)
(* the readable lines, also after a torn append swallowed the line that    *)
(* followed it and after compaction, so an id that is not in memory is in  *)
(* no line.                                                                *)
(***************************************************************************)
ChatLines == Seq(WireId \cup {Garbled})
ChatTaskState == {FreeTask} \cup [pc : {"verify", "persist"}, wire : ChatWire]

ChatShape ==
    /\ wirelog \in ChatLines /\ torn \in BOOLEAN
    /\ torn => wirelog # <<>> /\ wirelog[Len(wirelog)] = Garbled
    /\ known = NotLoaded \/ known \in Seq(WireId)
    /\ chatTask \in [WireTask -> ChatTaskState]
    /\ storeTokens \in 0..StoreBurst

(* Each readable line is there once.                                        *)
LinesOnce(lines) ==
    \A i, j \in 1..Len(lines) : lines[i] = lines[j] /\ lines[i] # Garbled => i = j

(* The ids cover the readable lines.                                        *)
IdsCover(ids, lines) ==
    \A i \in 1..Len(lines) : lines[i] # Garbled => Contains(ids, lines[i])

ChatInv ==
    /\ ChatShape /\ LinesOnce(wirelog)
    /\ known # NotLoaded => IdsCover(known, wirelog)

LEMMA LineFacts ==
    ASSUME NEW s \in ChatLines
    PROVE  /\ Len(s) \in Nat /\ DOMAIN s = 1..Len(s)
           /\ \A i \in 1..Len(s) : s[i] \in WireId \cup {Garbled}
           /\ \A i \in 1..Len(s) : s[i] # Garbled <=> s[i] \in WireId
<1>1. Len(s) \in Nat /\ DOMAIN s = 1..Len(s) /\ \A i \in 1..Len(s) : s[i] \in WireId \cup {Garbled}
  BY DEF ChatLines
<1> QED BY <1>1, ChatAssumption

LEMMA LineIdsOf ==
    ASSUME NEW s \in ChatLines
    PROVE  /\ LineIds(s) \in Seq(WireId)
           /\ IdsCover(LineIds(s), s)
           /\ LinesOnce(s) => IsInjective(LineIds(s))
<1> DEFINE r == LineIds(s)
<1>1. r \in Seq((WireId \cup {Garbled}) \cap WireId) /\ \E g : KeptPlaces(g, r, s, Len(s), WireId)
  BY RetainOf DEF ChatLines, LineIds
<1> HIDE DEF r
<1>2. (WireId \cup {Garbled}) \cap WireId = WireId
  OBVIOUS
<1>3. r \in Seq(WireId) /\ Len(r) \in Nat /\ DOMAIN r = 1..Len(r)
  <2>1. r \in Seq(WireId) BY <1>1, <1>2
  <2> QED BY <2>1
<1>4. PICK g : KeptPlaces(g, r, s, Len(s), WireId)
  BY <1>1
<1>5. IdsCover(r, s)
  <2> SUFFICES ASSUME NEW i \in 1..Len(s), s[i] # Garbled PROVE Contains(r, s[i])
    BY DEF IdsCover
  <2>1. s[i] \in WireId BY LineFacts
  <2>2. PICK a \in 1..Len(r) : g[a] = i BY <1>4, <2>1 DEF KeptPlaces
  <2>3. r[a] = s[i] BY <1>4, <2>2 DEF KeptPlaces
  <2> QED BY <2>3 DEF Contains
<1>6. ASSUME LinesOnce(s) PROVE IsInjective(r)
  <2> SUFFICES ASSUME NEW a \in 1..Len(r), NEW b \in 1..Len(r), r[a] = r[b] PROVE a = b
    BY <1>3 DEF IsInjective
  <2>1. g[a] \in 1..Len(s) /\ g[b] \in 1..Len(s) /\ r[a] = s[g[a]] /\ r[b] = s[g[b]]
    BY <1>4 DEF KeptPlaces
  <2>2. r[a] \in WireId BY <1>3
  <2>3. s[g[a]] # Garbled BY <2>1, <2>2, ChatAssumption
  <2>4. g[a] = g[b] BY <1>6, <2>1, <2>3 DEF LinesOnce
  <2>5. ~(a < b) /\ ~(b < a)
    <3>1. a < b => g[a] < g[b] BY <1>4 DEF KeptPlaces
    <3>2. b < a => g[b] < g[a] BY <1>4 DEF KeptPlaces
    <3> QED BY <2>1, <2>4, <3>1, <3>2
  <2> QED BY <1>3, <2>5
<1> QED BY <1>3, <1>5, <1>6 DEF r

(* Before and after loading, the ids cover the lines.                       *)
LEMMA RoomIdsOf ==
    ASSUME ChatInv
    PROVE  RoomIds \in Seq(WireId) /\ IdsCover(RoomIds, wirelog) /\ RoomIds # NotLoaded
<1>1. wirelog \in ChatLines /\ (known = NotLoaded \/ known \in Seq(WireId))
  BY DEF ChatInv, ChatShape
<1>2. RoomIds \in Seq(WireId) /\ IdsCover(RoomIds, wirelog)
  BY <1>1, LineIdsOf DEF RoomIds, ChatInv
<1>3. RoomIds # NotLoaded
  <2>1. NotLoaded \notin Seq(WireId)
    <3> SUFFICES ASSUME <<Garbled>> \in Seq(WireId) PROVE FALSE
      BY DEF NotLoaded
    <3>1. <<Garbled>>[1] \in WireId OBVIOUS
    <3> QED BY <3>1, ChatAssumption
  <2> QED BY <1>2, <2>1
<1> QED BY <1>2, <1>3

LEMMA AppendLine ==
    ASSUME NEW s \in ChatLines, NEW x \in WireId \cup {Garbled}
    PROVE  /\ Append(s, x) \in ChatLines /\ Len(Append(s, x)) = Len(s) + 1
           /\ Append(s, x) # <<>> /\ Append(s, x)[Len(Append(s, x))] = x
           /\ \A i \in 1..Len(Append(s, x)) :
                 (i \in 1..Len(s) /\ Append(s, x)[i] = s[i]) \/ (i = Len(s) + 1 /\ Append(s, x)[i] = x)
<1>1. s \in Seq(WireId \cup {Garbled}) BY DEF ChatLines
<1>2. /\ Append(s, x) \in Seq(WireId \cup {Garbled}) /\ Len(Append(s, x)) = Len(s) + 1 /\ Len(s) \in Nat
      /\ \A i \in 1..Len(s) : Append(s, x)[i] = s[i]
      /\ Append(s, x)[Len(s) + 1] = x
  BY <1>1, AppendOf
<1>3. \A i \in 1..(Len(s) + 1) : i \in 1..Len(s) \/ i = Len(s) + 1
  BY <1>2
<1>4. Append(s, x) # <<>>
  BY <1>2
<1> QED BY <1>2, <1>3, <1>4 DEF ChatLines

LEMMA AppendedOnce ==
    ASSUME ChatInv, NEW id \in WireId, ~Contains(RoomIds, id)
    PROVE  /\ WireAppended(id) \in ChatLines /\ LinesOnce(WireAppended(id))
           /\ IdsCover(Append(RoomIds, id), WireAppended(id))
           /\ Append(RoomIds, id) \in Seq(WireId)
<1> DEFINE R == RoomIds
           ids == Append(R, id)
           lines == WireAppended(id)
<1>1. R \in Seq(WireId) /\ IdsCover(R, wirelog) /\ wirelog \in ChatLines /\ LinesOnce(wirelog)
      /\ Len(wirelog) \in Nat /\ Garbled \notin WireId /\ torn \in BOOLEAN
  BY RoomIdsOf, LineFacts, ChatAssumption DEF ChatInv, ChatShape
<1>2. ids \in Seq(WireId) /\ Contains(ids, id) /\ \A x : Contains(R, x) => Contains(ids, x)
  <2>1. /\ ids \in Seq(WireId) /\ Len(ids) = Len(R) + 1 /\ Len(R) \in Nat
        /\ \A i \in 1..Len(R) : ids[i] = R[i]
        /\ ids[Len(R) + 1] = id
    BY <1>1, AppendOf
  <2>2. Len(R) + 1 \in 1..Len(ids) /\ 1..Len(R) \subseteq 1..Len(ids)
    BY <2>1
  <2> HIDE DEF R, ids
  <2> QED BY <2>1, <2>2 DEF Contains
<1> HIDE DEF R, ids
<1>3. \A i \in 1..Len(wirelog) : wirelog[i] # id
  BY <1>1 DEF IdsCover, R
<1>4. CASE torn
  <2>1. lines = wirelog
    <3>1. wirelog # <<>> /\ wirelog[Len(wirelog)] = Garbled
      BY <1>4 DEF ChatInv, ChatShape
    <3>2. lines = [wirelog EXCEPT ![Len(wirelog)] = Garbled] BY <1>4 DEF WireAppended
    <3>3. wirelog \in Seq(WireId \cup {Garbled}) BY <1>1 DEF ChatLines
    <3> QED BY <3>1, <3>2, <3>3
  <2>2. IdsCover(ids, lines) BY <1>1, <1>2, <2>1 DEF IdsCover
  <2> QED BY <1>1, <1>2, <2>1, <2>2 DEF ids, R
<1>5. CASE ~torn
  <2>1. lines = Append(wirelog, id) BY <1>5 DEF WireAppended
  <2>2. /\ lines \in ChatLines
        /\ \A i \in 1..Len(lines) :
              (i \in 1..Len(wirelog) /\ lines[i] = wirelog[i]) \/ (i = Len(wirelog) + 1 /\ lines[i] = id)
    BY <1>1, <2>1, AppendLine
  <2> HIDE DEF lines
  <2>3. LinesOnce(lines)
    <3> SUFFICES ASSUME NEW i \in 1..Len(lines), NEW j \in 1..Len(lines),
                        lines[i] = lines[j], lines[i] # Garbled
                 PROVE  i = j
      BY DEF LinesOnce
    <3>1. CASE lines[i] = id BY <1>3, <2>2, <3>1
    <3>2. CASE lines[i] # id BY <1>1, <2>2, <3>2 DEF LinesOnce
    <3> QED BY <3>1, <3>2
  <2>4. IdsCover(ids, lines)
    <3> SUFFICES ASSUME NEW i \in 1..Len(lines), lines[i] # Garbled PROVE Contains(ids, lines[i])
      BY DEF IdsCover
    <3> QED BY <1>1, <1>2, <2>2 DEF IdsCover
  <2> QED BY <1>2, <2>2, <2>3, <2>4 DEF lines, ids, R
<1> QED BY <1>1, <1>4, <1>5

LEMMA NewestOnce ==
    ASSUME NEW s \in ChatLines, LinesOnce(s)
    PROVE  Newest(s) \in ChatLines /\ LinesOnce(Newest(s))
<1>1. CASE Len(s) <= WireLogCap
  BY <1>1 DEF Newest
<1>2. CASE ~(Len(s) <= WireLogCap)
  <2> DEFINE k == 1 + Len(s) - WireLogCap
             r == SubSeq(s, k, Len(s))
  <2>1. Len(s) \in Nat /\ WireLogCap \in Nat \ {0} /\ s \in Seq(WireId \cup {Garbled})
    BY LineFacts, ChatAssumption DEF ChatLines
  <2>2. k \in 1..Len(s) BY <1>2, <2>1
  <2> HIDE DEF k
  <2>3. /\ r \in Seq(WireId \cup {Garbled}) /\ Len(r) = Len(s) + 1 - k
        /\ \A i \in 1..Len(r) : r[i] = s[k - 1 + i]
    BY <2>1, <2>2
  <2> HIDE DEF r
  <2>4. LinesOnce(r)
    <3> SUFFICES ASSUME NEW i \in 1..Len(r), NEW j \in 1..Len(r), r[i] = r[j], r[i] # Garbled
                 PROVE  i = j
      BY DEF LinesOnce
    <3> DEFINE a == k - 1 + i
               b == k - 1 + j
    <3>1. a \in 1..Len(s) /\ b \in 1..Len(s) BY <2>1, <2>2, <2>3
    <3>2. a = b
      <4>1. s[a] = s[b] /\ s[a] # Garbled BY <2>3
      <4> HIDE DEF a, b
      <4> QED BY <3>1, <4>1 DEF LinesOnce
    <3> QED BY <2>2, <3>2
  <2>5. Newest(s) = r BY <1>2 DEF Newest, r, k
  <2> QED BY <2>3, <2>4, <2>5 DEF ChatLines
<1> QED BY <1>1, <1>2

LEMMA PersistWireOnce ==
    ASSUME ChatInv, NEW t \in WireTask, PersistWire(t)
    PROVE  ChatInv'
<1> DEFINE id == chatTask[t].wire.id
           lines == WireAppended(id)
           ids == Append(RoomIds, id)
<1>1. id \in WireId /\ chatTask' = [chatTask EXCEPT ![t] = FreeTask]
  <2>1. chatTask[t] \in ChatTaskState /\ chatTask[t].pc = "persist"
    BY DEF ChatInv, ChatShape, PersistWire
  <2>2. chatTask[t].wire \in ChatWire BY <2>1 DEF ChatTaskState, FreeTask
  <2> QED BY <2>2 DEF ChatWire, PersistWire
<1>2. chatTask' \in [WireTask -> ChatTaskState] /\ storeTokens' \in 0..StoreBurst
  BY <1>1 DEF ChatInv, ChatShape, ChatTaskState, PersistWire
<1>3. RoomIds \in Seq(WireId) /\ IdsCover(RoomIds, wirelog) /\ wirelog \in ChatLines
      /\ LinesOnce(wirelog)
  BY RoomIdsOf DEF ChatInv, ChatShape
<1>4. CASE known' = RoomIds /\ UNCHANGED <<wirelog, torn>>
  BY <1>2, <1>3, <1>4 DEF ChatInv, ChatShape
<1>5. CASE /\ ~Contains(RoomIds, id) /\ torn' = FALSE
           /\ IF Overfull(ids) THEN wirelog' = Newest(lines) /\ known' = LineIds(Newest(lines))
              ELSE wirelog' = lines /\ known' = ids
  <2>1. /\ lines \in ChatLines /\ LinesOnce(lines) /\ IdsCover(ids, lines) /\ ids \in Seq(WireId)
    BY <1>1, <1>5, AppendedOnce
  <2> HIDE DEF lines, ids
  <2>2. Newest(lines) \in ChatLines /\ LinesOnce(Newest(lines)) BY <2>1, NewestOnce
  <2>3. LineIds(Newest(lines)) \in Seq(WireId) /\ IdsCover(LineIds(Newest(lines)), Newest(lines))
    BY <2>2, LineIdsOf
  <2>4. wirelog' \in ChatLines /\ LinesOnce(wirelog') /\ known' \in Seq(WireId)
        /\ IdsCover(known', wirelog')
    BY <1>5, <2>1, <2>2, <2>3
  <2> QED BY <1>2, <1>5, <2>4 DEF ChatInv, ChatShape, LinesOnce, IdsCover
<1>6. CASE /\ known' = RoomIds /\ torn' = TRUE
           /\ wirelog' = IF torn THEN wirelog ELSE Append(wirelog, Garbled)
  <2>1. CASE torn
    BY <1>2, <1>3, <1>6, <2>1 DEF ChatInv, ChatShape, LinesOnce, IdsCover
  <2>2. CASE ~torn
    <3>1. wirelog' = Append(wirelog, Garbled) BY <1>6, <2>2
    <3>2. /\ wirelog' \in ChatLines /\ wirelog' # <<>> /\ wirelog'[Len(wirelog')] = Garbled
          /\ \A i \in 1..Len(wirelog') : (i \in 1..Len(wirelog) /\ wirelog'[i] = wirelog[i])
                                      \/ (i = Len(wirelog) + 1 /\ wirelog'[i] = Garbled)
      BY <1>3, <3>1, AppendLine
    <3>3. LinesOnce(wirelog') BY <1>3, <3>2 DEF LinesOnce
    <3>4. IdsCover(RoomIds, wirelog') BY <1>3, <3>2 DEF IdsCover
    <3> QED BY <1>2, <1>3, <1>6, <3>2, <3>3, <3>4 DEF ChatInv, ChatShape, LinesOnce, IdsCover
  <2> QED BY <2>1, <2>2
<1> QED BY <1>4, <1>5, <1>6 DEF PersistWire

LEMMA ChatStepOK ==
    ASSUME ChatInv, [ChatNext]_chatVars
    PROVE  ChatInv'
<1>0. wirelog \in ChatLines /\ LinesOnce(wirelog) /\ chatTask \in [WireTask -> ChatTaskState]
      /\ StoreBurst \in Nat \ {0}
  BY ChatAssumption DEF ChatInv, ChatShape
<1>1. ASSUME UNCHANGED <<wirelog, torn, known>>, chatTask' \in [WireTask -> ChatTaskState],
             storeTokens' \in 0..StoreBurst
      PROVE  ChatInv'
  BY <1>1 DEF ChatInv, ChatShape
<1>2. ASSUME NEW t \in WireTask, NEW w \in ChatWire, HandleWire(t, w) PROVE ChatInv'
  <2>1. known' = RoomIds /\ UNCHANGED <<wirelog, torn, storeTokens>>
        /\ chatTask' = [chatTask EXCEPT ![t] = [pc |-> "verify", wire |-> w]]
    BY <1>2 DEF HandleWire
  <2>2. chatTask' \in [WireTask -> ChatTaskState] BY <1>0, <2>1 DEF ChatTaskState
  <2> QED BY <2>1, <2>2, RoomIdsOf DEF ChatInv, ChatShape
<1>3. ASSUME NEW t \in WireTask, VerifyWire(t) PROVE ChatInv'
  <2>1. chatTask[t] \in [pc : {"verify", "persist"}, wire : ChatWire]
    BY <1>0, <1>3 DEF VerifyWire, ChatTaskState, FreeTask
  <2>2. [chatTask[t] EXCEPT !.pc = "persist"] \in ChatTaskState
    BY <2>1 DEF ChatTaskState
  <2>3. \/ chatTask' = [chatTask EXCEPT ![t] = FreeTask]
        \/ chatTask' = [chatTask EXCEPT ![t] = [chatTask[t] EXCEPT !.pc = "persist"]]
    BY <1>3 DEF VerifyWire
  <2>4. chatTask' \in [WireTask -> ChatTaskState]
    BY <1>0, <2>2, <2>3 DEF ChatTaskState
  <2>5. storeTokens' = storeTokens \/ (storeTokens > 0 /\ storeTokens' = storeTokens - 1)
    BY <1>3 DEF VerifyWire
  <2>6. storeTokens' \in 0..StoreBurst
    BY <1>0, <2>5 DEF ChatInv, ChatShape
  <2> QED BY <1>1, <1>3, <2>4, <2>6 DEF VerifyWire
<1>4. CASE Refill
  <2>1. storeTokens' = storeTokens \/ (storeTokens < StoreBurst /\ storeTokens' = storeTokens + 1)
    BY <1>4 DEF Refill
  <2>2. storeTokens' \in 0..StoreBurst
    BY <1>0, <2>1 DEF ChatInv, ChatShape
  <2> QED BY <1>0, <1>1, <1>4, <2>2 DEF Refill
<1>5. ASSUME NEW n \in ChatNode, HistoryRequest(n) PROVE ChatInv'
  <2>1. storeTokens \in 0..StoreBurst BY DEF ChatInv, ChatShape
  <2> QED BY <1>0, <1>1, <1>5, <2>1 DEF HistoryRequest
<1>6. CASE ReplayThrottleElapses
  <2>1. storeTokens \in 0..StoreBurst BY DEF ChatInv, ChatShape
  <2> QED BY <1>0, <1>1, <1>6, <2>1 DEF ReplayThrottleElapses
<1>7. CASE ChatRestart
  <2>1. /\ known' = NotLoaded /\ chatTask' = [t \in WireTask |-> FreeTask]
        /\ storeTokens' = StoreBurst
        /\ \/ UNCHANGED <<wirelog, torn>>
           \/ torn' = TRUE /\ wirelog' = Append(wirelog, Garbled)
    BY <1>7 DEF ChatRestart
  <2>2. chatTask' \in [WireTask -> ChatTaskState] /\ storeTokens' \in 0..StoreBurst
    BY <1>0, <2>1 DEF ChatTaskState
  <2>3. CASE UNCHANGED <<wirelog, torn>>
    BY <2>1, <2>2, <2>3 DEF ChatInv, ChatShape
  <2>4. CASE torn' = TRUE /\ wirelog' = Append(wirelog, Garbled)
    <3>1. /\ wirelog' \in ChatLines /\ wirelog' # <<>> /\ wirelog'[Len(wirelog')] = Garbled
          /\ \A i \in 1..Len(wirelog') : (i \in 1..Len(wirelog) /\ wirelog'[i] = wirelog[i])
                                      \/ (i = Len(wirelog) + 1 /\ wirelog'[i] = Garbled)
      BY <1>0, <2>4, AppendLine
    <3>2. LinesOnce(wirelog') BY <1>0, <3>1 DEF LinesOnce
    <3> QED BY <2>1, <2>2, <2>4, <3>1, <3>2 DEF ChatInv, ChatShape, LinesOnce
  <2> QED BY <2>1, <2>3, <2>4
<1>8. CASE UNCHANGED chatVars
  <2>1. storeTokens \in 0..StoreBurst BY DEF ChatInv, ChatShape
  <2> QED BY <1>0, <1>1, <1>8, <2>1 DEF chatVars
<1> QED BY <1>2, <1>3, <1>4, <1>5, <1>6, <1>7, <1>8, PersistWireOnce DEF ChatNext

LEMMA ChatInitOK == ChatInit => ChatInv
<1>1. <<>> \in ChatLines /\ Len(<<>>) = 0 /\ \A i : i \notin 1..0
  <2>1. \A i \in Int : ~(1 <= i /\ i <= 0)
    OBVIOUS
  <2> QED BY <2>1 DEF ChatLines
<1> SUFFICES ASSUME ChatInit PROVE ChatInv
  OBVIOUS
<1>2. wirelog = <<>> /\ torn = FALSE /\ known = NotLoaded /\ storeTokens = StoreBurst
      /\ chatTask = [t \in WireTask |-> FreeTask] /\ StoreBurst \in Nat
  BY ChatAssumption DEF ChatInit
<1>3. chatTask \in [WireTask -> ChatTaskState] /\ storeTokens \in 0..StoreBurst
  BY <1>2 DEF ChatTaskState
<1>4. LinesOnce(wirelog) BY <1>1, <1>2 DEF LinesOnce
<1>5. ChatShape BY <1>1, <1>2, <1>3 DEF ChatShape
<1> QED BY <1>2, <1>4, <1>5 DEF ChatInv

LEMMA ChatInvariant == ChatSpec => []ChatInv
BY ChatInitOK, ChatStepOK, PTL DEF ChatSpec

LEMMA ChatIsOnce == ChatInv => WireLogOnce /\ ChatTypeOK
<1> SUFFICES ASSUME ChatInv PROVE WireLogOnce /\ ChatTypeOK
  OBVIOUS
<1>1. wirelog \in ChatLines /\ LinesOnce(wirelog) BY DEF ChatInv, ChatShape
<1>2. IsInjective(LineIds(wirelog)) BY <1>1, LineIdsOf
<1>3. DOMAIN wirelog = 1..Len(wirelog) BY <1>1, LineFacts
<1>4. WireLogOnce BY <1>2, <1>3 DEF ChatInv, IdsCover, WireLogOnce
<1>5. \A t \in WireTask : chatTask[t].pc \in {"free", "verify", "persist"}
  BY DEF ChatInv, ChatShape, ChatTaskState, FreeTask
<1> QED BY <1>4, <1>5 DEF ChatTypeOK, ChatInv, ChatShape, ChatLines

-----------------------------------------------------------------------------
(***************************************************************************)
(* Placement.  A provider decides to release from what peers once said     *)
(* about their holdings, which may be out of date. The invariant says why  *)
(* this is harmless: among the providers that hold a head, or that some    *)
(* peer believes to hold it, the best ranked one holds it and is the last  *)
(* to consider itself superfluous (Anchored), unless every copy was buried *)
(* by a tombstone or superseded by a later head that is itself kept. With  *)
(* a single replica it does not hold: homes of successive generations may  *)
(* then each take the other's claim for a copy better placed than its own. *)
(***************************************************************************)
Holder(q, h) == Live(rec[q]) /\ rec[q].held /\ rec[q].head = h
Claimed(p, q, h) == view[p][q] # NoPeer /\ view[p][q].holds = h

(* The best ranked of the providers that hold h, or that some peer believes *)
(* to hold it, does hold it.                                                *)
Anchored(h) ==
    \E b \in Provider :
        /\ Holder(b, h)
        /\ \A q \in Provider : Holder(q, h) => rank[b] <= rank[q]
        /\ \A p, q \in Provider : Claimed(p, q, h) => rank[b] <= rank[q]

Buried(h) == \E p \in Provider : rec[p] # NoRecord /\ rec[p].head = h /\ rec[p].deleted
Superseded(h) == \E g \in stored : seqOf[g] > seqOf[h]

PlacementInv ==
    /\ PlacementTypeOK
    /\ \A p \in Provider : rec[p] # NoRecord => rec[p].head \in stored
    /\ \A p, q \in Provider : view[p][q] # NoPeer /\ view[p][q].holds # NoHead
                                 => view[p][q].holds \in stored
    /\ \A h \in stored : Anchored(h) \/ Buried(h) \/ Superseded(h)

-----------------------------------------------------------------------------
(* A copy is released only when a better ranked provider is believed to     *)
(* hold it: mesh rooms keep at least two copies, so the home alone never    *)
(* makes up the selected holders.                                           *)
LEMMA ReleaseBetter ==
    ASSUME PlacementTypeOK, NEW p \in Provider, Release(p)
    PROVE  \E q \in Provider : Claimed(p, q, rec[p].head) /\ rank[q] < rank[p]
<1> DEFINE home == {rec[p].home} \cap candidates(p)
           sure == confirmed(p)
           fits == {q \in candidates(p) \ home : q \in Roomy \/ q \in sure}
           more == target(p) - Cardinality(home)
           better(q) == {x \in fits : rank[x] < rank[q]}
           chosen == place(p)
<1>1. Live(rec[p]) /\ rec[p].held /\ Decide(p, FALSE)
  BY DEF Release
<1>2. PICK informed \in BOOLEAN : holding(p, informed).want = FALSE
  BY <1>1 DEF Decide
<1>3. p \notin chosen /\ all_confirmed(p, chosen)
  BY <1>1, <1>2 DEF holding
<1>4. chosen = home \cup {q \in fits : Cardinality(better(q)) < more}
  BY DEF place
<1>5. Cardinality(chosen) = target(p) /\ chosen \subseteq sure
  BY <1>3 DEF all_confirmed
<1>6. p \in candidates(p) /\ p \in sure /\ candidates(p) \in SUBSET Provider
  BY <1>1 DEF candidates, confirmed, Known
<1>7. p \notin home /\ p \in fits /\ ~(Cardinality(better(p)) < more)
  BY <1>3, <1>4, <1>6
<1>8. /\ IsFiniteSet(candidates(p)) /\ IsFiniteSet(fits) /\ IsFiniteSet(home)
      /\ Cardinality(candidates(p)) \in Nat /\ Cardinality(home) \in Nat
  <2>1. IsFiniteSet(candidates(p))
    BY <1>6, PlacementAssumption, FS_Subset
  <2>2. fits \in SUBSET candidates(p) /\ home \in SUBSET candidates(p)
    OBVIOUS
  <2>3. IsFiniteSet(fits) /\ IsFiniteSet(home)
    BY <2>1, <2>2, FS_Subset
  <2> QED BY <2>1, <2>3, FS_CardinalityType
<1>9. target(p) \in Nat /\ target(p) # 0
      /\ (target(p) = 1 => Cardinality(candidates(p)) = 1)
  <2>1. Cardinality(candidates(p)) # 0
    BY <1>6, <1>8, FS_EmptySet
  <2>2. \E x \in {replicas, Cardinality(candidates(p))} :
           \A y \in {replicas, Cardinality(candidates(p))} : x =< y
    BY <1>8, PlacementAssumption
  <2>3. target(p) \in {replicas, Cardinality(candidates(p))}
    BY <2>2 DEF target, Min
  <2> QED BY <2>1, <2>3, <1>8, PlacementAssumption
<1>10. Cardinality(home) <= 1 /\ (Cardinality(home) = 1 => home = {rec[p].home} /\ rec[p].home \in candidates(p))
  <2>1. CASE home = {}
    BY <2>1, FS_EmptySet
  <2>2. CASE home # {}
    <3>1. home = {rec[p].home} /\ rec[p].home \in candidates(p)
      BY <2>2
    <3> QED BY <3>1, FS_Singleton
  <2> QED BY <2>1, <2>2
<1>11. more \in Int /\ more >= 1
  <2>1. more \in Int
    BY <1>8, <1>9
  <2>2. SUFFICES ASSUME more < 1 PROVE FALSE
    BY <2>1
  <2>3. target(p) = 1 /\ Cardinality(home) = 1
    BY <2>2, <1>8, <1>9, <1>10
  <2>4. Cardinality(candidates(p)) = 1 /\ rec[p].home \in candidates(p)
    BY <2>3, <1>9, <1>10
  <2>5. candidates(p) = {p}
    BY <2>4, <1>6, <1>8, FS_Singleton
  <2>6. p \in home
    BY <2>3, <2>4, <2>5, <1>10
  <2> QED BY <2>6, <1>7
<1>12. better(p) # {}
  <2>1. CASE better(p) = {}
    BY <2>1, <1>7, <1>11, FS_EmptySet
  <2> QED BY <2>1
<1> DEFINE ranks == {rank[x] : x \in fits}
<1>13. ranks \in SUBSET Nat /\ ranks # {}
  BY <1>6, <1>7, PlacementAssumption
<1>14. PICK q \in fits : \A x \in fits : rank[q] <= rank[x]
  <2>1. PICK k \in ranks : \A l \in ranks : k <= l
    <3> HIDE DEF ranks
    <3> QED BY <1>13, NatMin
  <2>2. PICK q \in fits : k = rank[q]
    BY <2>1
  <2> QED BY <2>1, <2>2
<1>15. q \in Provider /\ rank[q] \in Nat /\ \A x \in fits : rank[x] \in Nat
  BY <1>6, PlacementAssumption
<1>16. better(q) = {}
  BY <1>14, <1>15
<1>17. q \in chosen
  <2>1. Cardinality(better(q)) = 0
    BY <1>16, FS_EmptySet
  <2> QED BY <2>1, <1>4, <1>11
<1>18. rank[q] < rank[p]
  <2>1. PICK x \in fits : rank[x] < rank[p]
    BY <1>12
  <2> QED BY <2>1, <1>14, <1>15, <1>7
<1>19. q \in sure /\ q # p
  BY <1>5, <1>15, <1>17, <1>18
<1>20. q \in Known(p) /\ Confirms(p, q)
  BY <1>19 DEF confirmed
<1> QED
  BY <1>15, <1>18, <1>20 DEF Claimed, Known, Confirms

-----------------------------------------------------------------------------
(* A record with one field changed, written out.                           *)
LEMMA RecordForms ==
    ASSUME NEW r \in MeshRecord
    PROVE  /\ \A x : [r EXCEPT !.held = x] =
                   [head |-> r.head, deleted |-> r.deleted, held |-> x, home |-> r.home]
           /\ \A x : [r EXCEPT !.home = x] =
                   [head |-> r.head, deleted |-> r.deleted, held |-> r.held, home |-> x]
           /\ r.head \in Heads /\ r.deleted \in BOOLEAN /\ r.held \in BOOLEAN
           /\ r.home \in Provider \cup {NoOne}
BY DEF MeshRecord

(* A record only advances: to a later head, to its tombstone, or to a copy. *)
Advances(n, r) ==
    \/ r = NoRecord
    \/ seqOf[n.head] > seqOf[r.head]
    \/ /\ n.head = r.head
       /\ r.deleted => n.deleted
       /\ r.held => n.held \/ n.deleted

LEMMA CasAdvances ==
    ASSUME NEW h \in Heads, NEW r \in MeshRecord \cup {NoRecord}, Cas(h, r), NEW home
    PROVE  Advances([head |-> h, deleted |-> FALSE, held |-> TRUE, home |-> home], r)
<1>1. CASE r # NoRecord
  <2>1. r.head \in Heads /\ r.head # NoHead /\ seqOf[h] \in Nat /\ seqOf[r.head] \in Nat
    BY <1>1, HeadAssumption DEF MeshRecord
  <2>2. CASE r.deleted
    BY <1>1, <2>1, <2>2 DEF Cas, successor, Advances
  <2>3. CASE ~r.deleted
    BY <1>1, <2>1, <2>3 DEF Cas, check_cas, Advances
  <2> QED BY <2>2, <2>3
<1> QED BY <1>1 DEF Advances

LEMMA LearnAdvances ==
    ASSUME NEW h \in Heads, NEW r \in MeshRecord \cup {NoRecord}, NEW del \in BOOLEAN, NEW home,
           learn(r, h, del) = "New"
    PROVE  Advances(Learned(r, h, del, home), r)
<1>1. CASE r # NoRecord
  <2>1. r.head \in Heads /\ r.head # NoHead /\ seqOf[h] \in Nat /\ seqOf[r.head] \in Nat
    BY <1>1, HeadAssumption DEF MeshRecord
  <2> DEFINE how == acceptance(r.head, h)
  <2>2. how \in {"WriterMismatch", "Same", "Stale", "Conflict", "New"}
    BY <2>1 DEF acceptance
  <2>3. how = "New" => seqOf[h] > seqOf[r.head]
    BY <2>1 DEF acceptance
  <2>4. how = "Same" => r.head = h
    BY <2>1 DEF acceptance
  <2>5. how \notin {"Stale", "Conflict", "WriterMismatch"}
    BY <1>1 DEF learn
  <2>6. CASE how = "Same"
    <3>1. ~successor(h, r.head)
      BY <2>1, <2>4, <2>6 DEF successor
    <3>2. ~r.deleted /\ del
      BY <1>1, <2>1, <2>4, <2>5, <2>6, <3>1 DEF learn, MeshRecord
    <3> QED BY <2>4, <2>6, <3>2 DEF Advances, Learned
  <2>7. CASE how = "New"
    BY <2>3, <2>7 DEF Advances, Learned
  <2> QED BY <2>2, <2>5, <2>6, <2>7
<1> QED BY <1>1 DEF Advances

(* One provider's record advances.                                          *)
LEMMA RecordStep ==
    ASSUME PlacementInv, NEW p \in Provider, NEW n \in MeshRecord,
           rec' = [rec EXCEPT ![p] = n], Advances(n, rec[p]),
           stored' = stored \cup {n.head},
           n.head \in stored \/ (n.held /\ ~n.deleted),
           view' = view \/ view' = [view EXCEPT ![p] = NoPeers],
           release' \in [Provider -> {"none", "running", "due"}],
           faults' \in 0 .. MaxFaults
    PROVE  PlacementInv'
<1>0. /\ rec \in [Provider -> MeshRecord \cup {NoRecord}] /\ NoRecord \notin MeshRecord
      /\ view \in [Provider -> [Provider -> Peer \cup {NoPeer}]]
      /\ stored \subseteq Heads /\ rank \in [Provider -> Nat] /\ seqOf \in [Heads -> Nat]
      /\ n.head \in Heads /\ NoHead \notin Heads
  BY PlacementAssumption, HeadAssumption DEF PlacementInv, PlacementTypeOK, MeshRecord
<1>1. /\ rec'[p] = n /\ rec'[p] # NoRecord
      /\ \A q \in Provider : q # p => rec'[q] = rec[q]
  BY <1>0
<1>2. \A x, q \in Provider : view'[x][q] # NoPeer => view'[x][q] = view[x][q]
  BY <1>0 DEF NoPeers
<1>3. PlacementTypeOK'
  BY <1>0 DEF PlacementInv, PlacementTypeOK, NoPeers
<1>4. \A q \in Provider : rec'[q] # NoRecord => rec'[q].head \in stored'
  BY <1>1 DEF PlacementInv
<1>5. \A x, q \in Provider : view'[x][q] # NoPeer /\ view'[x][q].holds # NoHead
                                => view'[x][q].holds \in stored'
  BY <1>2 DEF PlacementInv
<1>6. \A x, q \in Provider, h \in Heads : Claimed(x, q, h)' => Claimed(x, q, h)
  BY <1>2 DEF Claimed
<1>7. \A q \in Provider, h \in Heads : q # p => (Holder(q, h)' <=> Holder(q, h))
  BY <1>1 DEF Holder, Live
<1>8. ASSUME NEW h \in stored PROVE (Anchored(h) \/ Buried(h) \/ Superseded(h))'
  <2>0. h \in Heads
    BY <1>0
  <2>1. CASE Superseded(h)
    BY <2>1 DEF Superseded
  <2>2. CASE Buried(h)
    <3>1. PICK x \in Provider : rec[x] # NoRecord /\ rec[x].head = h /\ rec[x].deleted
      BY <2>2 DEF Buried
    <3>2. CASE x # p
      BY <3>1, <3>2, <1>1 DEF Buried
    <3>3. CASE x = p
      BY <3>1, <3>3, <1>1 DEF Advances, Buried, Superseded
    <3> QED BY <3>2, <3>3
  <2>3. CASE Anchored(h)
    <3>1. PICK b \in Provider :
            /\ Holder(b, h)
            /\ \A q \in Provider : Holder(q, h) => rank[b] <= rank[q]
            /\ \A x, q \in Provider : Claimed(x, q, h) => rank[b] <= rank[q]
      BY <2>3 DEF Anchored
    <3>2. CASE b = p /\ ~Holder(p, h)'
      <4>1. rec[p] # NoRecord /\ rec[p].head = h /\ rec[p].held /\ ~rec[p].deleted
        BY <3>1, <3>2 DEF Holder, Live
      <4>2. seqOf[n.head] > seqOf[h] \/ (n.head = h /\ (n.held \/ n.deleted))
        BY <4>1 DEF Advances
      <4>3. CASE seqOf[n.head] > seqOf[h]
        BY <4>3 DEF Superseded
      <4>4. CASE n.head = h /\ (n.held \/ n.deleted)
        BY <3>2, <4>4, <1>1 DEF Holder, Live, Buried
      <4> QED BY <4>2, <4>3, <4>4
    <3>3. CASE b # p \/ Holder(p, h)'
      <4>1. Holder(b, h)'
        BY <2>0, <3>1, <3>3, <1>7
      <4>2. CASE Holder(p, h)' /\ rank[p] < rank[b]
        <5>1. \A q \in Provider : Holder(q, h)' => rank[p] <= rank[q]
          BY <2>0, <3>1, <4>2, <1>0, <1>7
        <5>2. \A x, q \in Provider : Claimed(x, q, h)' => rank[p] <= rank[q]
          BY <2>0, <3>1, <4>2, <1>0, <1>6
        <5> QED BY <4>2, <5>1, <5>2 DEF Anchored
      <4>3. CASE ~(Holder(p, h)' /\ rank[p] < rank[b])
        <5>1. \A q \in Provider : Holder(q, h)' => rank[b] <= rank[q]
          BY <2>0, <3>1, <4>3, <1>0, <1>7
        <5>2. \A x, q \in Provider : Claimed(x, q, h)' => rank[b] <= rank[q]
          BY <2>0, <3>1, <1>6
        <5> QED BY <4>1, <5>1, <5>2 DEF Anchored
      <4> QED BY <4>2, <4>3
    <3> QED BY <3>2, <3>3
  <2> QED BY <2>1, <2>2, <2>3 DEF PlacementInv
<1>9. ASSUME n.head \notin stored PROVE Anchored(n.head)'
  <2>1. Holder(p, n.head)'
    BY <1>1, <1>9 DEF Holder, Live
  <2>2. \A q \in Provider : q # p => ~Holder(q, n.head)'
    BY <1>0, <1>7, <1>9 DEF Holder, Live, PlacementInv
  <2>3. \A x, q \in Provider : ~Claimed(x, q, n.head)'
    BY <1>0, <1>6, <1>9 DEF Claimed, PlacementInv
  <2> QED BY <2>1, <2>2, <2>3, <1>0 DEF Anchored
<1> QED
  BY <1>3, <1>4, <1>5, <1>8, <1>9 DEF PlacementInv

(* What a provider believes of its peers changes, to what they hold.        *)
LEMMA ViewStep ==
    ASSUME PlacementInv, UNCHANGED <<rec, stored>>,
           view' \in [Provider -> [Provider -> Peer \cup {NoPeer}]],
           \A x, q \in Provider : view'[x][q] # NoPeer /\ view'[x][q].holds # NoHead =>
              Claimed(x, q, view'[x][q].holds) \/ Holder(q, view'[x][q].holds),
           release' \in [Provider -> {"none", "running", "due"}],
           faults' \in 0 .. MaxFaults
    PROVE  PlacementInv'
<1>1. PlacementTypeOK'
  BY DEF PlacementInv, PlacementTypeOK
<1>2. \A x, q \in Provider : view'[x][q] # NoPeer /\ view'[x][q].holds # NoHead
                                => view'[x][q].holds \in stored
  BY DEF PlacementInv, Claimed, Holder, Live
<1>3. stored \subseteq Heads /\ NoHead \notin Heads
  BY HeadAssumption DEF PlacementInv, PlacementTypeOK
<1>4. \A x, q \in Provider, h \in Heads : Claimed(x, q, h)' =>
         (\E y \in Provider : Claimed(y, q, h)) \/ Holder(q, h)
  BY <1>3 DEF Claimed
<1>5. \A q \in Provider, h \in Heads : Holder(q, h)' <=> Holder(q, h)
  BY DEF Holder
<1>6. ASSUME NEW h \in stored, Anchored(h) PROVE Anchored(h)'
  BY <1>3, <1>4, <1>5, <1>6 DEF Anchored
<1>7. ASSUME NEW h \in stored PROVE (Buried(h)' <=> Buried(h)) /\ (Superseded(h)' <=> Superseded(h))
  BY DEF Buried, Superseded
<1> QED
  BY <1>1, <1>2, <1>6, <1>7 DEF PlacementInv

(* A copy goes, because a better ranked provider is believed to have one.   *)
LEMMA ReleaseStep ==
    ASSUME PlacementInv, NEW p \in Provider, Release(p)
    PROVE  PlacementInv'
<1> DEFINE n == [head |-> rec[p].head, deleted |-> rec[p].deleted, held |-> FALSE, home |-> rec[p].home]
<1>0. /\ rec \in [Provider -> MeshRecord \cup {NoRecord}] /\ NoRecord \notin MeshRecord
      /\ stored \subseteq Heads /\ rank \in [Provider -> Nat] /\ PlacementTypeOK
  BY PlacementAssumption DEF PlacementInv, PlacementTypeOK
<1>1. Live(rec[p]) /\ rec[p] \in MeshRecord /\ rec[p].held /\ UNCHANGED <<view, stored, faults>>
  BY <1>0 DEF Release, Live
<1>2. n \in MeshRecord /\ rec' = [rec EXCEPT ![p] = n]
  <2>1. [rec[p] EXCEPT !.held = FALSE] = n
    BY <1>1, RecordForms
  <2>2. rec' = [rec EXCEPT ![p] = [rec[p] EXCEPT !.held = FALSE]]
    BY DEF Release
  <2> QED BY <1>1, <2>1, <2>2 DEF MeshRecord
<1>3. PICK c \in Provider : Claimed(p, c, rec[p].head) /\ rank[c] < rank[p]
  BY <1>0, ReleaseBetter
<1>4. rec'[p] = n /\ rec'[p] # NoRecord /\ \A q \in Provider : q # p => rec'[q] = rec[q]
  BY <1>0, <1>2
<1>5. release' \in [Provider -> {"none", "running", "due"}]
  <2>1. ASSUME NEW informed \in BOOLEAN
        PROVE  holding(p, informed).release \in {"none", "running", "due"}
    BY <1>0 DEF holding, PlacementTypeOK
  <2>2. PICK c2 : release' = [release EXCEPT ![p] = c2] /\ c2 \in {"none", "running", "due"}
    BY <2>1 DEF Release, Decide
  <2> QED BY <1>0, <2>2 DEF PlacementTypeOK
<1>6. PlacementTypeOK'
  BY <1>0, <1>1, <1>2, <1>5 DEF PlacementTypeOK
<1>7. \A q \in Provider, h \in Heads : Holder(q, h)' => Holder(q, h)
  BY <1>4 DEF Holder, Live
<1>8. \A q \in Provider, h \in Heads : Holder(q, h) /\ (q # p \/ h # rec[p].head) => Holder(q, h)'
  BY <1>4 DEF Holder, Live
<1>9. \A x, q \in Provider, h \in Heads : Claimed(x, q, h)' <=> Claimed(x, q, h)
  BY <1>1 DEF Claimed
<1>10. ASSUME NEW h \in stored, Anchored(h) PROVE Anchored(h)'
  <2>1. PICK b \in Provider :
            /\ Holder(b, h)
            /\ \A q \in Provider : Holder(q, h) => rank[b] <= rank[q]
            /\ \A x, q \in Provider : Claimed(x, q, h) => rank[b] <= rank[q]
    BY <1>10 DEF Anchored
  <2>2. b # p \/ h # rec[p].head
    BY <2>1, <1>0, <1>3
  <2>3. Holder(b, h)' /\ h \in Heads
    BY <2>1, <2>2, <1>0, <1>8
  <2> QED BY <2>1, <2>3, <1>7, <1>9 DEF Anchored
<1>11. ASSUME NEW h \in stored, Buried(h) PROVE Buried(h)'
  BY <1>4, <1>11 DEF Buried
<1>12. ASSUME NEW h \in stored, Superseded(h) PROVE Superseded(h)'
  BY <1>1, <1>12 DEF Superseded
<1>13. \A q \in Provider : rec'[q] # NoRecord => rec'[q].head \in stored'
  BY <1>1, <1>4 DEF PlacementInv, Live
<1>14. \A x, q \in Provider : view'[x][q] # NoPeer /\ view'[x][q].holds # NoHead
                                => view'[x][q].holds \in stored'
  BY <1>1 DEF PlacementInv
<1> QED
  BY <1>1, <1>6, <1>10, <1>11, <1>12, <1>13, <1>14 DEF PlacementInv

-----------------------------------------------------------------------------
(* The grace period after a decision.                                       *)
LEMMA DecideType ==
    ASSUME PlacementTypeOK, NEW p \in Provider, NEW want, Decide(p, want)
    PROVE  release' \in [Provider -> {"none", "running", "due"}]
<1>1. ASSUME NEW informed \in BOOLEAN
      PROVE  holding(p, informed).release \in {"none", "running", "due"}
  BY DEF holding, PlacementTypeOK
<1>2. PICK c : release' = [release EXCEPT ![p] = c] /\ c \in {"none", "running", "due"}
  BY <1>1 DEF Decide
<1> QED BY <1>2 DEF PlacementTypeOK

(* Every action but Release advances one record or changes what one         *)
(* provider believes.                                                       *)
LEMMA PlacementNext ==
    ASSUME PlacementInv, Next
    PROVE  PlacementInv'
<1>0. /\ PlacementTypeOK /\ NoRecord \notin MeshRecord /\ NoPeer \notin Peer
      /\ NoHead \notin Heads /\ Contact \subseteq Provider /\ MaxFaults \in Nat
      /\ stored \subseteq Heads
      /\ rec \in [Provider -> MeshRecord \cup {NoRecord}]
      /\ view \in [Provider -> [Provider -> Peer \cup {NoPeer}]]
      /\ release \in [Provider -> {"none", "running", "due"}]
      /\ faults \in 0 .. MaxFaults
      /\ \A p \in Provider : rec[p] # NoRecord => rec[p].head \in stored
  BY PlacementAssumption, HeadAssumption, MeshAssumption DEF PlacementInv, PlacementTypeOK
<1>1. ASSUME Fault PROVE faults' \in 0 .. MaxFaults
  BY <1>0, <1>1 DEF Fault
<1>2. ASSUME NEW p \in Contact, NEW h \in Heads, Put(p, h) PROVE PlacementInv'
  <2> DEFINE n == [head |-> h, deleted |-> FALSE, held |-> TRUE, home |-> p]
  <2>1. n \in MeshRecord /\ p \in Provider /\ n.head = h /\ n.held /\ ~n.deleted
    BY <1>0 DEF MeshRecord
  <2>2. Advances(n, rec[p])
    BY <1>0, <1>2, <2>1, CasAdvances DEF Put
  <2>3. /\ rec' = [rec EXCEPT ![p] = n] /\ stored' = stored \cup {h}
        /\ view' = view /\ release' = release /\ faults' = faults
    BY <1>2 DEF Put
  <2> HIDE DEF n
  <2> QED BY <1>0, <2>1, <2>2, <2>3, RecordStep
<1>3. ASSUME NEW p \in Contact, NEW h \in Heads, PutInterrupted(p, h) PROVE PlacementInv'
  <2> DEFINE home == IF rec[p] = NoRecord THEN NoOne ELSE rec[p].home
             n == [head |-> h, deleted |-> FALSE, held |-> TRUE, home |-> home]
  <2>0. p \in Provider /\ home \in Provider \cup {NoOne}
    <3>1. CASE rec[p] = NoRecord
      BY <1>0, <3>1
    <3>2. CASE rec[p] # NoRecord
      BY <1>0, <3>2, RecordForms
    <3> QED BY <3>1, <3>2
  <2>2. Advances(n, rec[p])
    BY <1>0, <1>3, <2>0, CasAdvances DEF PutInterrupted
  <2>3. /\ rec' = [rec EXCEPT ![p] = n] /\ stored' = stored \cup {h}
        /\ view' = [view EXCEPT ![p] = NoPeers] /\ release' = [release EXCEPT ![p] = "none"]
        /\ faults' \in 0 .. MaxFaults
    BY <1>1, <1>3 DEF PutInterrupted
  <2>1. n \in MeshRecord /\ n.head = h /\ n.held /\ ~n.deleted
    <3> HIDE DEF home
    <3> QED BY <2>0 DEF MeshRecord
  <2>4. release' \in [Provider -> {"none", "running", "due"}]
    BY <1>0, <2>0, <2>3
  <2> HIDE DEF n, home
  <2> QED BY <2>0, <2>1, <2>2, <2>3, <2>4, RecordStep
<1>4. ASSUME NEW p \in Contact, PutAgain(p) PROVE PlacementInv'
  <2> DEFINE x == IF rec[p].home = NoOne THEN p ELSE rec[p].home
             n == [head |-> rec[p].head, deleted |-> rec[p].deleted, held |-> rec[p].held, home |-> x]
  <2>0. p \in Provider /\ rec[p] # NoRecord /\ rec[p] \in MeshRecord
    BY <1>0, <1>4 DEF PutAgain, Live
  <2>1. x \in Provider \cup {NoOne}
    BY <2>0, RecordForms
  <2>2. rec' = [rec EXCEPT ![p] = [rec[p] EXCEPT !.home = x]]
    BY <1>0, <1>4, <2>0 DEF PutAgain
  <2>3. [rec[p] EXCEPT !.home = x] = n
    BY <2>0, RecordForms
  <2>4. /\ n \in MeshRecord /\ n.head = rec[p].head /\ n.head \in stored
        /\ n.deleted = rec[p].deleted /\ n.held = rec[p].held
    <3> HIDE DEF x
    <3> QED BY <1>0, <2>0, <2>1, RecordForms DEF MeshRecord
  <2>5. stored' = stored /\ view' = view /\ release' = release /\ faults' = faults
    BY <1>4 DEF PutAgain
  <2> HIDE DEF n, x
  <2>6. Advances(n, rec[p]) /\ stored' = stored \cup {n.head}
    BY <2>4, <2>5 DEF Advances
  <2> QED BY <1>0, <2>0, <2>2, <2>3, <2>4, <2>5, <2>6, RecordStep
<1>5. ASSUME NEW p \in Contact, Delete(p) PROVE PlacementInv'
  <2> DEFINE n == Learned(rec[p], rec[p].head, TRUE, rec[p].home)
  <2>0. p \in Provider /\ rec[p] # NoRecord /\ rec[p] \in MeshRecord
    BY <1>0, <1>5 DEF Delete, Live
  <2>1. n \in MeshRecord /\ n.head = rec[p].head /\ n.deleted /\ n.head \in stored
    BY <1>0, <2>0, RecordForms DEF Learned, MeshRecord
  <2>2. /\ rec' = [rec EXCEPT ![p] = n]
        /\ stored' = stored /\ view' = view /\ release' = release /\ faults' = faults
    BY <1>5 DEF Delete
  <2> HIDE DEF n
  <2>3. Advances(n, rec[p]) /\ stored' = stored \cup {n.head}
    BY <2>1, <2>2 DEF Advances
  <2> QED BY <1>0, <2>0, <2>1, <2>2, <2>3, RecordStep
<1>6. ASSUME NEW p \in Provider, NEW q \in Provider, Learn(p, q) PROVE PlacementInv'
  <2> DEFINE home == IF rec[q].deleted THEN NoOne ELSE rec[q].home
             n == Learned(rec[p], rec[q].head, rec[q].deleted, home)
  <2>0. rec[q] # NoRecord /\ rec[q] \in MeshRecord /\ rec[q].head \in stored
    BY <1>0, <1>6 DEF Learn
  <2>1. home \in Provider \cup {NoOne} /\ rec[q].head \in Heads /\ rec[q].deleted \in BOOLEAN
    BY <2>0, RecordForms
  <2>2. rec' = [rec EXCEPT ![p] = n] /\ learn(rec[p], rec[q].head, rec[q].deleted) = "New"
        /\ stored' = stored /\ view' = view /\ release' = release /\ faults' = faults
    BY <1>6 DEF Learn
  <2> HIDE DEF home
  <2>3. n.head = rec[q].head /\ Advances(n, rec[p])
    BY <1>0, <2>1, <2>2, LearnAdvances DEF Learned
  <2>4. n \in MeshRecord
    <3>1. CASE rec[p] = NoRecord
      BY <2>1, <3>1 DEF Learned, MeshRecord
    <3>2. CASE rec[p] # NoRecord
      <4>1. rec[p].home \in Provider \cup {NoOne}
        BY <1>0, <3>2, RecordForms
      <4> QED BY <2>1, <4>1 DEF Learned, MeshRecord
    <3> QED BY <3>1, <3>2
  <2> HIDE DEF n
  <2>5. stored' = stored \cup {n.head}
    BY <2>0, <2>2, <2>3
  <2> QED BY <1>0, <2>0, <2>2, <2>3, <2>4, <2>5, RecordStep
<1>7. ASSUME NEW p \in Provider, Adopt(p) PROVE PlacementInv'
  <2> DEFINE n == [head |-> rec[p].head, deleted |-> rec[p].deleted, held |-> rec[p].held, home |-> p]
  <2>0. rec[p] # NoRecord /\ rec[p] \in MeshRecord
    BY <1>0, <1>7 DEF Adopt, Live
  <2>2. rec' = [rec EXCEPT ![p] = [rec[p] EXCEPT !.home = p]]
    BY <1>7 DEF Adopt
  <2>3. [rec[p] EXCEPT !.home = p] = n
    BY <2>0, RecordForms
  <2>4. /\ n \in MeshRecord /\ n.head = rec[p].head /\ n.head \in stored
        /\ n.deleted = rec[p].deleted /\ n.held = rec[p].held
    BY <1>0, <2>0, RecordForms DEF MeshRecord
  <2>5. stored' = stored /\ view' = view /\ release' = release /\ faults' = faults
    BY <1>7 DEF Adopt
  <2> HIDE DEF n
  <2>6. Advances(n, rec[p]) /\ stored' = stored \cup {n.head}
    BY <2>4, <2>5 DEF Advances
  <2> QED BY <1>0, <2>2, <2>3, <2>4, <2>5, <2>6, RecordStep
<1>8. ASSUME NEW p \in Provider, NEW q \in Provider, Pull(p, q) PROVE PlacementInv'
  <2> DEFINE n == [head |-> rec[p].head, deleted |-> rec[p].deleted, held |-> TRUE, home |-> rec[p].home]
  <2>0. rec[p] # NoRecord /\ rec[p] \in MeshRecord
    BY <1>0, <1>8 DEF Pull, Live
  <2>2. rec' = [rec EXCEPT ![p] = [rec[p] EXCEPT !.held = TRUE]]
    BY <1>8 DEF Pull
  <2>3. [rec[p] EXCEPT !.held = TRUE] = n
    BY <2>0, RecordForms
  <2>4. /\ n \in MeshRecord /\ n.head = rec[p].head /\ n.head \in stored
        /\ n.deleted = rec[p].deleted /\ n.held
    BY <1>0, <2>0, RecordForms DEF MeshRecord
  <2>5. stored' = stored /\ view' = view /\ Decide(p, TRUE) /\ faults' = faults
    BY <1>8 DEF Pull
  <2>6. release' \in [Provider -> {"none", "running", "due"}]
    BY <1>0, <2>5, DecideType
  <2> HIDE DEF n
  <2>7. Advances(n, rec[p]) /\ stored' = stored \cup {n.head}
    BY <2>4, <2>5 DEF Advances
  <2> QED BY <1>0, <2>2, <2>3, <2>4, <2>5, <2>6, <2>7, RecordStep
<1>9. ASSUME NEW p \in Provider, Release(p) PROVE PlacementInv'
  BY <1>9, ReleaseStep
<1>10. ASSUME NEW p \in Provider, NEW q \in Provider, NEW v \in Peer,
              view' = [view EXCEPT ![p][q] = v], UNCHANGED <<rec, release, stored>>,
              faults' \in 0 .. MaxFaults,
              v.holds = NoHead \/ Claimed(p, q, v.holds) \/ Holder(q, v.holds)
       PROVE  PlacementInv'
  <2>1. /\ view' \in [Provider -> [Provider -> Peer \cup {NoPeer}]]
        /\ view'[p][q] = v
        /\ \A x, y \in Provider : x # p \/ y # q => view'[x][y] = view[x][y]
    BY <1>0, <1>10
  <2>2. \A x, y \in Provider : view'[x][y] # NoPeer /\ view'[x][y].holds # NoHead =>
              Claimed(x, y, view'[x][y].holds) \/ Holder(y, view'[x][y].holds)
    BY <1>10, <2>1 DEF Claimed
  <2> QED BY <1>0, <1>10, <2>1, <2>2, ViewStep
<1>11. ASSUME NEW r \in Peer
       PROVE  /\ \A x : [r EXCEPT !.seen = x] = [seen |-> x, holds |-> r.holds]
              /\ \A x : [r EXCEPT !.holds = x] = [seen |-> r.seen, holds |-> x]
              /\ r.seen \in {"online", "quiet", "dead"} /\ r.holds \in Heads \cup {NoHead}
  BY DEF Peer
<1>12. ASSUME NEW p \in Provider, NEW q \in Provider, Hear(p, q) PROVE PlacementInv'
  <2> DEFINE v == [seen |-> "online", holds |-> NoHead]
  <2>1. v \in Peer /\ v.holds = NoHead
    BY DEF Peer
  <2>2. view' = [view EXCEPT ![p][q] = v] /\ UNCHANGED <<rec, release, stored, faults>>
    BY <1>12 DEF Hear
  <2> HIDE DEF v
  <2> QED BY <1>0, <1>10, <2>1, <2>2
<1>13. ASSUME NEW p \in Provider, NEW q \in Provider, q \in Known(p)
       PROVE  view[p][q] \in Peer /\ Claimed(p, q, view[p][q].holds)
  BY <1>0, <1>13 DEF Known, Claimed
<1>14. ASSUME NEW p \in Provider, NEW q \in Provider, q \in Known(p),
              NEW s \in {"online", "quiet", "dead"},
              view' = [view EXCEPT ![p][q] = [view[p][q] EXCEPT !.seen = s]],
              UNCHANGED <<rec, release, stored>>, faults' \in 0 .. MaxFaults
       PROVE  PlacementInv'
  <2> DEFINE v == [seen |-> s, holds |-> view[p][q].holds]
  <2>1. view' = [view EXCEPT ![p][q] = v]
    BY <1>11, <1>13, <1>14
  <2>2. v \in Peer /\ v.holds = view[p][q].holds
    BY <1>11, <1>13, <1>14 DEF Peer
  <2> HIDE DEF v
  <2> QED BY <1>10, <1>13, <1>14, <2>1, <2>2
<1>15. ASSUME NEW p \in Provider, NEW q \in Provider, HearAgain(p, q) PROVE PlacementInv'
  <2>1. view' = [view EXCEPT ![p][q] = [view[p][q] EXCEPT !.seen = "online"]]
    BY <1>0, <1>15 DEF HearAgain
  <2>2. q \in Known(p) /\ UNCHANGED <<rec, release, stored, faults>>
    BY <1>15 DEF HearAgain
  <2> QED BY <1>0, <1>14, <2>1, <2>2
<1>16. ASSUME NEW p \in Provider, NEW q \in Provider, Index(p, q) PROVE PlacementInv'
  <2> DEFINE d == held_digest(rec[q])
             v == [seen |-> view[p][q].seen, holds |-> d]
  <2>1. /\ view' = [view EXCEPT ![p][q] = [view[p][q] EXCEPT !.holds = d]]
        /\ q \in Known(p) /\ UNCHANGED <<rec, release, stored, faults>>
    BY <1>0, <1>16 DEF Index
  <2>2. d = NoHead \/ (d \in Heads /\ Holder(q, d))
    <3>1. CASE rec[q] # NoRecord
      BY <1>0, <3>1, RecordForms DEF held_digest, Holder, Live
    <3> QED BY <3>1 DEF held_digest
  <2> HIDE DEF d
  <2>3. view' = [view EXCEPT ![p][q] = v]
    BY <1>11, <1>13, <2>1
  <2>4. v \in Peer /\ v.holds = d
    BY <1>11, <1>13, <2>1, <2>2 DEF Peer
  <2> HIDE DEF v
  <2>5. v.holds = NoHead \/ Claimed(p, q, v.holds) \/ Holder(q, v.holds)
    BY <2>2, <2>4
  <2>6. UNCHANGED <<rec, release, stored>> /\ faults' \in 0 .. MaxFaults
    BY <1>0, <2>1
  <2> QED BY <1>10, <2>3, <2>4, <2>5, <2>6
<1>17. ASSUME NEW p \in Provider, NEW q \in Provider, Age(p, q) PROVE PlacementInv'
  <2> DEFINE s == IF view[p][q].seen = "online" THEN "quiet" ELSE "dead"
  <2>1. view' = [view EXCEPT ![p][q] = [view[p][q] EXCEPT !.seen = s]]
    BY <1>0, <1>17 DEF Age
  <2>2. q \in Known(p) /\ UNCHANGED <<rec, release, stored>> /\ faults' \in 0 .. MaxFaults
    BY <1>1, <1>17 DEF Age
  <2>3. s \in {"online", "quiet", "dead"}
    OBVIOUS
  <2> HIDE DEF s
  <2> QED BY <1>14, <2>1, <2>2, <2>3
<1>18. ASSUME UNCHANGED <<rec, view, stored>>, faults' \in 0 .. MaxFaults,
              release' \in [Provider -> {"none", "running", "due"}]
       PROVE  PlacementInv'
  BY <1>0, <1>18, ViewStep DEF Claimed
<1>19. ASSUME NEW p \in Provider, Keep(p) PROVE PlacementInv'
  BY <1>0, <1>18, <1>19, DecideType DEF Keep
<1>20. ASSUME NEW p \in Provider, GraceElapses(p) PROVE PlacementInv'
  BY <1>0, <1>18, <1>20 DEF GraceElapses
<1>21. ASSUME NEW p \in Provider, Restart(p) PROVE PlacementInv'
  <2>1. /\ view' = [view EXCEPT ![p] = NoPeers] /\ release' = [release EXCEPT ![p] = "none"]
        /\ UNCHANGED <<rec, stored>> /\ faults' \in 0 .. MaxFaults
    BY <1>1, <1>21 DEF Restart
  <2>2. /\ view' \in [Provider -> [Provider -> Peer \cup {NoPeer}]]
        /\ release' \in [Provider -> {"none", "running", "due"}]
        /\ \A x, q \in Provider : view'[x][q] # NoPeer => view'[x][q] = view[x][q]
    BY <1>0, <2>1 DEF NoPeers
  <2>3. \A x, q \in Provider : view'[x][q] # NoPeer /\ view'[x][q].holds # NoHead =>
              Claimed(x, q, view'[x][q].holds) \/ Holder(q, view'[x][q].holds)
    BY <2>2 DEF Claimed
  <2> QED BY <2>1, <2>2, <2>3, ViewStep
<1> QED
  BY <1>2, <1>3, <1>4, <1>5, <1>6, <1>7, <1>8, <1>9, <1>12, <1>15, <1>16, <1>17, <1>19,
     <1>20, <1>21 DEF Next

LEMMA PlacementInitially ==
    ASSUME Init
    PROVE  PlacementInv
BY MeshAssumption DEF Init, PlacementInv, PlacementTypeOK, NoPeers

LEMMA PlacementInvariant ==
    Spec => []PlacementInv
<1>1. PlacementInv /\ [Next]_vars => PlacementInv'
  <2> SUFFICES ASSUME PlacementInv, [Next]_vars PROVE PlacementInv'
    OBVIOUS
  <2>1. CASE Next
    BY <2>1, PlacementNext
  <2>2. CASE UNCHANGED vars
    BY <2>2 DEF vars, PlacementInv, PlacementTypeOK, Anchored, Buried, Superseded,
                Holder, Claimed, Live
  <2> QED BY <2>1, <2>2
<1>2. Init => PlacementInv
  BY PlacementInitially
<1> QED
  BY <1>1, <1>2, PTL DEF Spec

(* Of the stored heads that follow h, the last is held or deleted.          *)
LEMMA StoredHeldLemma ==
    ASSUME PlacementInv
    PROVE  StoredHeld
<1> SUFFICES ASSUME NEW h \in stored
             PROVE  \E p \in Provider :
                       /\ rec[p] # NoRecord
                       /\ rec[p].head = h \/ seqOf[rec[p].head] > seqOf[h]
                       /\ rec[p].held \/ rec[p].deleted
  BY DEF StoredHeld
<1> DEFINE later == {g \in stored : g = h \/ seqOf[g] > seqOf[h]}
           T == {seqOf[g] : g \in later}
<1>1. stored \subseteq Heads /\ MaxSeq \in Nat /\ \A g \in Heads : seqOf[g] \in 1 .. MaxSeq
  BY SeqAssumption DEF PlacementInv, PlacementTypeOK
<1>2. T \in SUBSET Nat /\ T # {} /\ \A x \in T : x <= MaxSeq
  BY <1>1
<1>3. PICK m \in T : \A x \in T : x <= m
  <2> HIDE DEF T
  <2> QED BY <1>1, <1>2, NatMax
<1>4. PICK g \in later : m = seqOf[g]
  BY <1>3
<1>5. \A x \in later : seqOf[x] <= seqOf[g]
  BY <1>3, <1>4
<1>6. ~Superseded(g)
  <2> SUFFICES ASSUME NEW k \in stored, seqOf[k] > seqOf[g] PROVE FALSE
    BY DEF Superseded
  <2>1. seqOf[k] \in Nat /\ seqOf[g] \in Nat /\ seqOf[h] \in Nat
    BY <1>1, <1>4
  <2>2. k \in later
    BY <2>1, <1>4
  <2> QED BY <2>1, <2>2, <1>5
<1>7. Anchored(g) \/ Buried(g)
  BY <1>4, <1>6 DEF PlacementInv
<1> QED
  BY <1>4, <1>7 DEF Anchored, Buried, Holder, Live

(* Records, beliefs and grace periods keep their types whatever providers  *)
(* do, hear, forget or decide.                                              *)
THEOREM PlacementTypeCorrect == Spec => []PlacementTypeOK
<1>1. PlacementInv => PlacementTypeOK
  BY DEF PlacementInv
<1> QED BY <1>1, PlacementInvariant, PTL

(* Mesh::tick never gives up the last copy of a stored head, for any number *)
(* of providers, any ranking and any replica count a mesh room may have.    *)
THEOREM LastCopiesKept == Spec => []StoredHeld
<1>1. PlacementInv => StoredHeld
  BY StoredHeldLemma
<1> QED BY <1>1, PlacementInvariant, PTL

-----------------------------------------------------------------------------
(***************************************************************************)
(* A connection through the tunnel: what a conn has buffered or written is *)
(* numbered from 1, and as long as the conn is the tracked one the number  *)
(* it expects is the one after.  A conn that was closed is never tracked   *)
(* again, and a task that got past the authorizer has its consent.         *)
(***************************************************************************)
TcpConn == [state : {"none", "pending", "active"}, buf : Seq(1..MaxData),
            next : 1..MaxData + 1, out : Seq(1..MaxData)]
TcpTask == [at : {"none", "auth", "connect", "promote", "held", "stream", "done"},
            held : 0..MaxConn]

TcpShape ==
    /\ opener \in [state : {"new", "active", "closed"}, sent : 0..MaxData]
    /\ toServer \in Seq(TcpMsg)
    /\ tcpTracked \in 0..MaxConn
    /\ conn \in [ConnId -> TcpConn]
    /\ task \in [ConnId -> TcpTask]
    /\ approved \in BOOLEAN

(* The payloads s, numbered from 1 and sent by the opener.                  *)
Numbered(s) == (\A i \in DOMAIN s : s[i] = i) /\ Len(s) <= opener.sent

(* What holds of a conn, tracked or not.                                    *)
ConnInOrder(c, k) ==
    /\ k.state = "none" => k.buf = <<>> /\ k.out = <<>> /\ k.next = 1
    /\ k.state # "active" => k.out = <<>>
    /\ Numbered(k.buf) /\ Numbered(k.out)
    /\ tcpTracked = c =>
          /\ k.state # "none"
          /\ k.next = 1 + (IF k.state = "active" THEN Len(k.out) ELSE Len(k.buf))

TcpInv ==
    /\ TcpShape
    /\ \A i \in DOMAIN toServer : toServer[i].t = "data" => toServer[i].seq <= opener.sent
    /\ \A c \in ConnId : ConnInOrder(c, conn[c])
    /\ \A c \in ConnId :
          /\ task[c].at \in {"connect", "promote", "held", "stream"} => approved
          /\ task[c].at = "held" => task[c].held \in ConnId
          /\ conn[c].state = "active" => approved

LEMMA TcpIsIntact == TcpInv => TcpStreamIntact
BY DEF TcpInv, TcpStreamIntact, ConnInOrder, Numbered, TcpShape, TcpConn

(* A step that leaves conns alone, or only stops tracking one.              *)
LEMMA ConnsRest ==
    ASSUME TcpInv, conn' = conn, tcpTracked' \in {0, tcpTracked},
           opener' \in [state : {"new", "active", "closed"}, sent : 0..MaxData],
           opener.sent <= opener'.sent
    PROVE  /\ \A c \in ConnId : ConnInOrder(c, conn[c])'
           /\ tcpTracked' \in 0..MaxConn /\ conn' \in [ConnId -> TcpConn]
<1>1. \A c \in ConnId : Len(conn[c].buf) \in Nat /\ Len(conn[c].out) \in Nat
  BY DEF TcpInv, TcpShape, TcpConn
<1>2. opener.sent \in Nat /\ opener'.sent \in Nat
  BY DEF TcpInv, TcpShape
<1>3. tcpTracked' \in 0..MaxConn /\ conn' \in [ConnId -> TcpConn]
  BY TcpAssumption DEF TcpInv, TcpShape
<1>4. \A c \in ConnId : tcpTracked' = c => tcpTracked = c
  BY DEF ConnId
<1> SUFFICES ASSUME NEW c \in ConnId PROVE ConnInOrder(c, conn[c])'
  BY <1>3
<1>5. ConnInOrder(c, conn[c]) BY DEF TcpInv
<1> QED BY <1>1, <1>2, <1>4, <1>5 DEF ConnInOrder, Numbered

(* Reading the next message, losing it, doubling it, or adding one.         *)
LEMMA WireRest ==
    ASSUME TcpInv, opener'.sent \in Nat, opener.sent <= opener'.sent,
           \/ toServer' = toServer
           \/ toServer # <<>> /\ toServer' = Tail(toServer)
           \/ toServer # <<>> /\ toServer' = <<toServer[1]>> \o toServer
           \/ \E m \in TcpMsg : toServer' = Append(toServer, m)
                                /\ (m.t = "data" => m.seq <= opener'.sent)
    PROVE  /\ toServer' \in Seq(TcpMsg)
           /\ \A i \in DOMAIN toServer' : toServer'[i].t = "data" => toServer'[i].seq <= opener'.sent
<1>1. toServer \in Seq(TcpMsg) BY DEF TcpInv, TcpShape
<1>2. \A m \in TcpMsg : m.seq \in Nat
  BY TcpAssumption DEF TcpMsg
<1>3. \A i \in DOMAIN toServer : toServer[i] \in TcpMsg
  BY <1>1
<1>4. \A i \in DOMAIN toServer : toServer[i].t = "data" => toServer[i].seq <= opener'.sent
  BY <1>2, <1>3 DEF TcpInv, TcpShape
<1>5. CASE toServer' = toServer
  BY <1>1, <1>4, <1>5
<1>6. CASE toServer # <<>> /\ toServer' = Tail(toServer)
  <2>1. Tail(toServer) \in Seq(TcpMsg) /\ DOMAIN Tail(toServer) = 1..(Len(toServer) - 1)
        /\ DOMAIN toServer = 1..Len(toServer) /\ Len(toServer) \in Nat
        /\ \A i \in 1..(Len(toServer) - 1) : Tail(toServer)[i] = toServer[i + 1]
    BY <1>1, <1>6, HeadTailOf
  <2>2. \A i \in 1..(Len(toServer) - 1) : i + 1 \in DOMAIN toServer
    BY <2>1
  <2> QED BY <1>4, <1>6, <2>1, <2>2
<1>7. CASE toServer # <<>> /\ toServer' = <<toServer[1]>> \o toServer
  <2>1. 1 \in DOMAIN toServer BY <1>1, <1>7
  <2> DEFINE h == <<toServer[1]>>
  <2>2. h \in Seq(TcpMsg) /\ Len(h) = 1 /\ h[1] = toServer[1] BY <1>3, <2>1
  <2> HIDE DEF h
  <2>3. /\ h \o toServer \in Seq(TcpMsg) /\ Len(h \o toServer) = Len(h) + Len(toServer)
        /\ \A i \in DOMAIN (h \o toServer) :
              (h \o toServer)[i] = IF i <= Len(h) THEN h[i] ELSE toServer[i - Len(h)]
    BY <1>1, <2>2, ConcatOf
  <2>4. \A i \in DOMAIN (h \o toServer) : \E j \in DOMAIN toServer : (h \o toServer)[i] = toServer[j]
    <3> TAKE i \in DOMAIN (h \o toServer)
    <3>1. DOMAIN toServer = 1..Len(toServer) /\ Len(toServer) \in Nat /\ i \in 1..(1 + Len(toServer))
      BY <1>1, <2>2, <2>3
    <3>2. CASE i <= 1
      <4>1. i = 1 BY <3>1, <3>2
      <4> QED BY <2>1, <2>2, <2>3, <4>1
    <3>3. CASE i > 1
      <4>1. i - 1 \in DOMAIN toServer BY <3>1, <3>3
      <4>2. (h \o toServer)[i] = toServer[i - 1] BY <2>2, <2>3, <3>1, <3>3
      <4> QED BY <4>1, <4>2
    <3> QED BY <3>1, <3>2, <3>3
  <2>5. toServer' = h \o toServer BY <1>7, SMTT(30) DEF h
  <2> QED BY <1>4, <2>3, <2>4, <2>5
<1>8. CASE \E m \in TcpMsg : toServer' = Append(toServer, m) /\ (m.t = "data" => m.seq <= opener'.sent)
  <2>1. PICK m \in TcpMsg : toServer' = Append(toServer, m) /\ (m.t = "data" => m.seq <= opener'.sent)
    BY <1>8
  <2>2. /\ Append(toServer, m) \in Seq(TcpMsg)
        /\ DOMAIN toServer = 1..Len(toServer) /\ DOMAIN Append(toServer, m) = 1..(Len(toServer) + 1)
        /\ Len(toServer) \in Nat
        /\ \A i \in 1..Len(toServer) : Append(toServer, m)[i] = toServer[i]
        /\ Append(toServer, m)[Len(toServer) + 1] = m
    BY <1>1, AppendOf
  <2>3. ASSUME NEW i \in 1..(Len(toServer) + 1), Append(toServer, m)[i].t = "data"
        PROVE  Append(toServer, m)[i].seq <= opener'.sent
    <3>1. CASE i = Len(toServer) + 1 BY <2>1, <2>2, <2>3, <3>1
    <3>2. CASE i \in 1..Len(toServer) BY <1>4, <2>2, <2>3, <3>2
    <3> QED BY <2>2, <3>1, <3>2, SMTT(30)
  <2>4. toServer' = Append(toServer, m) BY <2>1
  <2> QED BY <2>2, <2>3, <2>4
<1> QED BY <1>5, <1>6, <1>7, <1>8

(* A step of the opener or the network.                                     *)
LEMMA TcpOutside ==
    ASSUME TcpInv, UNCHANGED <<tcpTracked, conn, task, approved>>,
           opener' \in [state : {"new", "active", "closed"}, sent : 0..MaxData],
           opener.sent <= opener'.sent,
           \/ toServer' = toServer
           \/ toServer # <<>> /\ toServer' = Tail(toServer)
           \/ toServer # <<>> /\ toServer' = <<toServer[1]>> \o toServer
           \/ \E m \in TcpMsg : toServer' = Append(toServer, m)
                                /\ (m.t = "data" => m.seq <= opener'.sent)
    PROVE  TcpInv'
<1>1. /\ \A c \in ConnId : ConnInOrder(c, conn[c])'
      /\ tcpTracked' \in 0..MaxConn /\ conn' \in [ConnId -> TcpConn]
  BY ConnsRest
<1>2. opener'.sent \in Nat BY TcpAssumption
<1>3. /\ toServer' \in Seq(TcpMsg)
      /\ \A i \in DOMAIN toServer' : toServer'[i].t = "data" => toServer'[i].seq <= opener'.sent
  BY <1>2, WireRest
<1> QED BY <1>1, <1>3 DEF TcpInv, TcpShape

(* A step of the serving peer that only stops tracking a conn, and moves a  *)
(* task.                                                                    *)
LEMMA TcpTaskMoves ==
    ASSUME TcpInv, conn' = conn, opener' = opener, toServer' = toServer,
           tcpTracked' \in {0, tcpTracked}, approved' \in BOOLEAN, approved => approved',
           NEW c \in ConnId, NEW t \in TcpTask, task' = [task EXCEPT ![c] = t],
           t.at \in {"connect", "promote", "held", "stream"} => approved',
           t.at = "held" => t.held \in ConnId
    PROVE  TcpInv'
<1>0. opener \in [state : {"new", "active", "closed"}, sent : 0..MaxData] /\ opener.sent \in Nat
  BY TcpAssumption DEF TcpInv, TcpShape
<1>1. /\ \A d \in ConnId : ConnInOrder(d, conn[d])'
      /\ tcpTracked' \in 0..MaxConn /\ conn' \in [ConnId -> TcpConn]
  BY <1>0, ConnsRest
<1>2. task' \in [ConnId -> TcpTask] BY DEF TcpInv, TcpShape
<1>3. \A d \in ConnId : task'[d] = IF d = c THEN t ELSE task[d]
  BY DEF TcpInv, TcpShape
<1>4. \A d \in ConnId :
          /\ task'[d].at \in {"connect", "promote", "held", "stream"} => approved'
          /\ task'[d].at = "held" => task'[d].held \in ConnId
          /\ conn'[d].state = "active" => approved'
  BY <1>3 DEF TcpInv
<1> QED BY <1>0, <1>1, <1>2, <1>4 DEF TcpInv, TcpShape

(* A step that changes one conn, opened or tracked before.                  *)
LEMMA TcpConnMoves ==
    ASSUME TcpInv, opener' = opener, UNCHANGED approved,
           NEW c \in ConnId, NEW k \in TcpConn, conn' = [conn EXCEPT ![c] = k],
           tcpTracked' \in {0, tcpTracked, c}, ConnInOrder(c, k)',
           k.state = "active" => approved
    PROVE  /\ \A d \in ConnId : ConnInOrder(d, conn[d])'
           /\ tcpTracked' \in 0..MaxConn /\ conn' \in [ConnId -> TcpConn]
           /\ \A d \in ConnId : conn'[d].state = "active" => approved'
<1>1. conn \in [ConnId -> TcpConn] /\ tcpTracked \in 0..MaxConn BY DEF TcpInv, TcpShape
<1>2. conn' \in [ConnId -> TcpConn] /\ \A d \in ConnId : conn'[d] = IF d = c THEN k ELSE conn[d]
  BY <1>1
<1>3. tcpTracked' \in 0..MaxConn BY <1>1, TcpAssumption DEF ConnId
<1>4. \A d \in ConnId : d # c => (tcpTracked' = d => tcpTracked = d)
  BY DEF ConnId
<1>5. ASSUME NEW d \in ConnId PROVE ConnInOrder(d, conn[d])'
  <2>1. CASE d = c BY <1>2, <2>1
  <2>2. CASE d # c
    <3>1. conn'[d] = conn[d] BY <1>2, <2>2
    <3>2. ConnInOrder(d, conn[d]) BY DEF TcpInv
    <3> QED BY <1>4, <2>2, <3>1, <3>2 DEF ConnInOrder, Numbered
  <2> QED BY <2>1, <2>2
<1>6. \A d \in ConnId : conn'[d].state = "active" => approved'
  BY <1>2 DEF TcpInv
<1> QED BY <1>2, <1>3, <1>5, <1>6

(* One more payload at the end of a numbered sequence.                      *)
LEMMA NumberedAppend ==
    ASSUME NEW s \in Seq(1..MaxData), NEW n \in 1..MaxData, n = Len(s) + 1,
           \A i \in DOMAIN s : s[i] = i
    PROVE  /\ Append(s, n) \in Seq(1..MaxData) /\ Len(Append(s, n)) = n
           /\ \A i \in DOMAIN Append(s, n) : Append(s, n)[i] = i
<1>1. /\ Append(s, n) \in Seq(1..MaxData) /\ Len(Append(s, n)) = Len(s) + 1
      /\ DOMAIN s = 1..Len(s) /\ DOMAIN Append(s, n) = 1..(Len(s) + 1) /\ Len(s) \in Nat
      /\ \A i \in 1..Len(s) : Append(s, n)[i] = s[i]
      /\ Append(s, n)[Len(s) + 1] = n
  BY AppendOf
<1> QED BY <1>1

LEMMA HandleDataSteps == ASSUME TcpInv, HandleRemoteData PROVE TcpInv'
<1>c. PICK c : c = tcpTracked OBVIOUS
<1> DEFINE m == toServer[1]
<1>n. PICK n : n = m.seq OBVIOUS
<1>0. /\ opener \in [state : {"new", "active", "closed"}, sent : 0..MaxData] /\ opener.sent \in Nat
      /\ opener' = opener /\ task' = task /\ approved' = approved
  BY TcpAssumption DEF TcpInv, TcpShape, HandleRemoteData
<1>1. toServer # <<>> /\ toServer' = Tail(toServer) /\ m.t = "data"
  BY DEF HandleRemoteData, Receives
<1>2. m \in TcpMsg /\ n \in 1..MaxData /\ n <= opener.sent
  <2>1. 1 \in DOMAIN toServer /\ toServer[1] \in TcpMsg
    BY <1>1 DEF TcpInv, TcpShape
  <2>2. m.t = "data" => m.seq <= opener.sent BY <2>1 DEF TcpInv
  <2>3. m.t = "data" => m.seq \in 1..MaxData BY <2>1 DEF TcpMsg
  <2> QED BY <1>1, <1>n, <2>1, <2>2, <2>3
<1>3. /\ toServer' \in Seq(TcpMsg)
      /\ \A i \in DOMAIN toServer' : toServer'[i].t = "data" => toServer'[i].seq <= opener'.sent
  BY <1>0, <1>1, WireRest
<1>4. SUFFICES /\ \A d \in ConnId : ConnInOrder(d, conn[d])'
               /\ tcpTracked' \in 0..MaxConn /\ conn' \in [ConnId -> TcpConn]
               /\ \A d \in ConnId : conn'[d].state = "active" => approved'
  BY <1>0, <1>3 DEF TcpInv, TcpShape
<1>5. CASE conn' = conn /\ tcpTracked' \in {0, tcpTracked}
  BY <1>0, <1>5, ConnsRest DEF TcpInv
<1>6. CASE c # 0 /\ n = conn[c].next /\ ~(conn' = conn /\ tcpTracked' \in {0, tcpTracked})
  <2>1. c \in ConnId /\ conn[c] \in TcpConn /\ conn \in [ConnId -> TcpConn]
        /\ ConnInOrder(c, conn[c])
    BY <1>6, <1>c DEF TcpInv, TcpShape, ConnId
  <2>a. PICK a : a = [conn[c] EXCEPT !.next = n + 1] OBVIOUS
  <2>2. n + 1 \in 1..MaxData + 1 BY <1>2, TcpAssumption
  <2>3. a \in TcpConn /\ a.state = conn[c].state /\ a.buf = conn[c].buf /\ a.out = conn[c].out
        /\ a.next = n + 1
    BY <2>1, <2>2, <2>a DEF TcpConn
  <2>4. [conn EXCEPT ![c].next = n + 1] = [conn EXCEPT ![c] = a] BY <2>1, <2>a
  <2>5. \/ /\ conn[c].state = "active" /\ tcpTracked' = c
           /\ conn' = [conn EXCEPT ![c] = [a EXCEPT !.out = Append(@, n)]]
        \/ /\ conn[c].state = "pending" /\ tcpTracked' = c
           /\ conn' = [conn EXCEPT ![c] = [a EXCEPT !.buf = Append(@, n)]]
        \/ /\ conn[c].state \in {"active", "pending"} /\ tcpTracked' = 0
           /\ conn' = [conn EXCEPT ![c] = a]
    <3>1. [[conn EXCEPT ![c] = a] EXCEPT ![c].out = Append(@, n)]
          = [conn EXCEPT ![c] = [a EXCEPT !.out = Append(@, n)]]
      BY <2>1
    <3>2. [[conn EXCEPT ![c] = a] EXCEPT ![c].buf = Append(@, n)]
          = [conn EXCEPT ![c] = [a EXCEPT !.buf = Append(@, n)]]
      BY <2>1
    <3> QED BY <1>6, <1>c, <1>n, <2>4, <3>1, <3>2 DEF HandleRemoteData, CloseConn, Observe
  <2>6. \A i \in DOMAIN conn[c].buf : conn[c].buf[i] = i BY <2>1 DEF ConnInOrder, Numbered
  <2>7. \A i \in DOMAIN conn[c].out : conn[c].out[i] = i BY <2>1 DEF ConnInOrder, Numbered
  <2>8. conn[c].buf \in Seq(1..MaxData) /\ conn[c].out \in Seq(1..MaxData) BY <2>1 DEF TcpConn
  <2>9. CASE conn[c].state = "active" /\ tcpTracked' = c
             /\ conn' = [conn EXCEPT ![c] = [a EXCEPT !.out = Append(@, n)]]
    <3>k. PICK k : k = [a EXCEPT !.out = Append(conn[c].out, n)] OBVIOUS
    <3>1. n = Len(conn[c].out) + 1 BY <1>6, <1>c, <2>1, <2>8, <2>9 DEF ConnInOrder
    <3>2. /\ Append(conn[c].out, n) \in Seq(1..MaxData) /\ Len(Append(conn[c].out, n)) = n
          /\ \A i \in DOMAIN Append(conn[c].out, n) : Append(conn[c].out, n)[i] = i
      BY <1>2, <2>7, <2>8, <3>1, NumberedAppend
    <3>3. k \in TcpConn /\ k.state = "active" /\ k.buf = conn[c].buf /\ k.next = n + 1
          /\ k.out = Append(conn[c].out, n)
      BY <2>3, <2>9, <3>2, <3>k DEF TcpConn
    <3>4. conn' = [conn EXCEPT ![c] = k] BY <2>3, <2>9, <3>k
    <3>5. ConnInOrder(c, k)'
      BY <1>0, <1>2, <2>1, <3>2, <3>3 DEF ConnInOrder, Numbered
    <3>6. approved BY <2>1, <2>9 DEF TcpInv
    <3> QED BY <1>0, <2>1, <2>9, <3>3, <3>4, <3>5, <3>6, TcpConnMoves
  <2>10. CASE conn[c].state = "pending" /\ tcpTracked' = c
             /\ conn' = [conn EXCEPT ![c] = [a EXCEPT !.buf = Append(@, n)]]
    <3>k. PICK k : k = [a EXCEPT !.buf = Append(conn[c].buf, n)] OBVIOUS
    <3>1. n = Len(conn[c].buf) + 1 BY <1>6, <1>c, <2>1, <2>8, <2>10 DEF ConnInOrder
    <3>2. /\ Append(conn[c].buf, n) \in Seq(1..MaxData) /\ Len(Append(conn[c].buf, n)) = n
          /\ \A i \in DOMAIN Append(conn[c].buf, n) : Append(conn[c].buf, n)[i] = i
      BY <1>2, <2>6, <2>8, <3>1, NumberedAppend
    <3>3. k \in TcpConn /\ k.state = "pending" /\ k.out = conn[c].out /\ k.next = n + 1
          /\ k.buf = Append(conn[c].buf, n)
      BY <2>3, <2>10, <3>2, <3>k DEF TcpConn
    <3>4. conn' = [conn EXCEPT ![c] = k] BY <2>3, <2>10, <3>k
    <3>5. ConnInOrder(c, k)'
      BY <1>0, <1>2, <2>1, <2>10, <3>2, <3>3 DEF ConnInOrder, Numbered
    <3> QED BY <1>0, <2>1, <2>10, <3>3, <3>4, <3>5, TcpConnMoves
  <2>11. CASE conn[c].state \in {"active", "pending"} /\ tcpTracked' = 0
             /\ conn' = [conn EXCEPT ![c] = a]
    <3>1. ConnInOrder(c, a)'
      BY <1>0, <2>1, <2>3, <2>11 DEF ConnInOrder, Numbered, ConnId
    <3>2. a.state = "active" => approved BY <2>1, <2>3 DEF TcpInv
    <3> QED BY <1>0, <2>1, <2>3, <2>11, <3>1, <3>2, TcpConnMoves
  <2> QED BY <2>5, <2>9, <2>10, <2>11
<1>7. (conn' = conn /\ tcpTracked' \in {0, tcpTracked}) \/ (c # 0 /\ n = conn[c].next)
  BY <1>c, <1>n DEF HandleRemoteData, CloseConn, Observe
<1> QED BY <1>5, <1>6, <1>7

LEMMA HandleConnectSteps == ASSUME TcpInv, HandleRemoteConnect PROVE TcpInv'
<1>0. /\ opener \in [state : {"new", "active", "closed"}, sent : 0..MaxData] /\ opener.sent \in Nat
      /\ opener' = opener /\ approved' = approved
      /\ toServer # <<>> /\ toServer' = Tail(toServer)
  BY TcpAssumption DEF TcpInv, TcpShape, HandleRemoteConnect, Receives
<1>1. CASE UNCHANGED <<tcpTracked, conn, task>>
  BY <1>0, <1>1, TcpOutside
<1>2. CASE \E c \in ConnId : TrackPendingConn(c) /\ task' = [task EXCEPT ![c].at = "auth"]
  <2>1. PICK c \in ConnId : TrackPendingConn(c) /\ task' = [task EXCEPT ![c].at = "auth"]
    BY <1>2
  <2>k. PICK k : k = [conn[c] EXCEPT !.state = "pending"] OBVIOUS
  <2>t. PICK t : t = [task[c] EXCEPT !.at = "auth"] OBVIOUS
  <2>2. conn[c] \in TcpConn /\ task[c] \in TcpTask /\ ConnInOrder(c, conn[c])
        /\ task \in [ConnId -> TcpTask]
    BY DEF TcpInv, TcpShape
  <2>3. k \in TcpConn /\ k.state = "pending" /\ k.buf = conn[c].buf /\ k.out = conn[c].out
        /\ k.next = conn[c].next
    BY <2>2, <2>k DEF TcpConn
  <2>4. t \in TcpTask /\ t.at = "auth" BY <2>2, <2>t DEF TcpTask
  <2>5. task' = [task EXCEPT ![c] = t] /\ conn' = [conn EXCEPT ![c] = k] /\ tcpTracked' = c
        /\ conn[c].state = "none"
    BY <2>1, <2>2, <2>k, <2>t DEF TrackPendingConn
  <2>6. ConnInOrder(c, k)'
    <3>1. k.buf = <<>> /\ k.out = <<>> /\ k.next = 1 BY <2>2, <2>3, <2>5 DEF ConnInOrder
    <3>2. Numbered(k.buf)' /\ Numbered(k.out)' BY <1>0, <3>1 DEF Numbered
    <3>3. k.next = 1 + Len(k.buf) BY <3>1
    <3> QED BY <2>3, <2>5, <3>1, <3>2, <3>3 DEF ConnInOrder
  <2>7. /\ \A d \in ConnId : ConnInOrder(d, conn[d])'
        /\ tcpTracked' \in 0..MaxConn /\ conn' \in [ConnId -> TcpConn]
        /\ \A d \in ConnId : conn'[d].state = "active" => approved'
    BY <1>0, <2>3, <2>5, <2>6, TcpConnMoves
  <2>8. /\ toServer' \in Seq(TcpMsg)
        /\ \A i \in DOMAIN toServer' : toServer'[i].t = "data" => toServer'[i].seq <= opener'.sent
    BY <1>0, WireRest
  <2>9. task' \in [ConnId -> TcpTask] /\ \A d \in ConnId : task'[d] = IF d = c THEN t ELSE task[d]
    BY <2>2, <2>4, <2>5
  <2>10. \A d \in ConnId :
            /\ task'[d].at \in {"connect", "promote", "held", "stream"} => approved'
            /\ task'[d].at = "held" => task'[d].held \in ConnId
    BY <1>0, <2>4, <2>9 DEF TcpInv
  <2> QED BY <1>0, <2>7, <2>8, <2>9, <2>10 DEF TcpInv, TcpShape
<1> QED BY <1>1, <1>2 DEF HandleRemoteConnect

LEMMA PromoteSteps ==
    ASSUME TcpInv, NEW c \in ConnId, PromotePendingConn(c)
    PROVE  TcpInv'
<1>0. /\ opener \in [state : {"new", "active", "closed"}, sent : 0..MaxData] /\ opener.sent \in Nat
      /\ opener' = opener /\ approved' = approved /\ toServer' = toServer
  BY TcpAssumption DEF TcpInv, TcpShape, PromotePendingConn
<1>1. task[c] \in TcpTask /\ task \in [ConnId -> TcpTask] /\ task[c].at = "held" /\ approved
      /\ task[c].held \in ConnId
  BY DEF TcpInv, TcpShape, PromotePendingConn
<1>2. PICK k \in ConnId : k = task[c].held BY <1>1
<1>3. conn[k] \in TcpConn /\ conn \in [ConnId -> TcpConn] /\ ConnInOrder(k, conn[k])
      /\ tcpTracked \in 0..MaxConn
  BY DEF TcpInv, TcpShape
<1>4. CASE conn[k].state = "active" /\ UNCHANGED <<conn, tcpTracked>> /\ TaskTo(c, "done")
  <2>1. [task[c] EXCEPT !.at = "done"] \in TcpTask BY <1>1 DEF TcpTask
  <2>2. PICK t \in TcpTask : t = [task[c] EXCEPT !.at = "done"] BY <2>1
  <2>3. task' = [task EXCEPT ![c] = t] /\ t.at = "done"
    BY <1>1, <1>4, <2>2 DEF TaskTo, TcpTask
  <2> QED BY <1>0, <1>1, <1>4, <2>3, TcpTaskMoves
<1>5. CASE /\ conn[k].state = "pending" /\ TaskTo(c, "stream")
           /\ \/ /\ conn' = [conn EXCEPT ![k].state = "active", ![k].out = conn[k].buf,
                                         ![k].buf = <<>>]
                 /\ tcpTracked' = tcpTracked
              \/ /\ conn' = [conn EXCEPT ![k].state = "active", ![k].buf = <<>>]
                 /\ tcpTracked' = 0
  <2>1. conn[k].buf \in Seq(1..MaxData) /\ conn[k].out = <<>> /\ Numbered(conn[k].buf)
        /\ <<>> \in Seq(1..MaxData) /\ Len(<<>>) = 0
    BY <1>3, <1>5 DEF ConnInOrder, TcpConn
  <2>2. PICK n \in TcpConn :
            /\ conn' = [conn EXCEPT ![k] = n]
            /\ n.state = "active" /\ n.buf = <<>> /\ n.next = conn[k].next
            /\ \/ n.out = conn[k].buf /\ tcpTracked' = tcpTracked
               \/ n.out = <<>> /\ tcpTracked' = 0
    <3>1. CASE /\ conn' = [conn EXCEPT ![k].state = "active", ![k].out = conn[k].buf,
                                       ![k].buf = <<>>]
               /\ tcpTracked' = tcpTracked
      <4> DEFINE n == [conn[k] EXCEPT !.state = "active", !.out = conn[k].buf, !.buf = <<>>]
      <4>1. n \in TcpConn BY <1>3, <2>1 DEF TcpConn
      <4>2. n.state = "active" /\ n.buf = <<>> /\ n.next = conn[k].next /\ n.out = conn[k].buf
        BY <1>3 DEF TcpConn
      <4>3. conn' = [conn EXCEPT ![k] = n] BY <1>3, <3>1
      <4> HIDE DEF n
      <4> QED BY <3>1, <4>1, <4>2, <4>3
    <3>2. CASE /\ conn' = [conn EXCEPT ![k].state = "active", ![k].buf = <<>>]
               /\ tcpTracked' = 0
      <4> DEFINE n == [conn[k] EXCEPT !.state = "active", !.buf = <<>>]
      <4>1. n \in TcpConn BY <1>3, <2>1 DEF TcpConn
      <4>2. n.state = "active" /\ n.buf = <<>> /\ n.next = conn[k].next /\ n.out = conn[k].out
        BY <1>3 DEF TcpConn
      <4>3. conn' = [conn EXCEPT ![k] = n] BY <1>3, <3>2
      <4> HIDE DEF n
      <4> QED BY <2>1, <3>2, <4>1, <4>2, <4>3
    <3> QED BY <1>5, <3>1, <3>2
  <2>3. ConnInOrder(k, n)'
    <3>1. opener'.sent \in Nat BY <1>0
    <3>2. Numbered(n.buf)'
      BY <2>1, <2>2, <3>1 DEF Numbered
    <3>3. Numbered(n.out)'
      BY <1>0, <2>1, <2>2, <3>1 DEF Numbered
    <3>4. tcpTracked' = k => n.next = 1 + Len(n.out)
      BY <1>3, <1>5, <2>2 DEF ConnInOrder, ConnId
    <3> QED BY <2>2, <3>2, <3>3, <3>4 DEF ConnInOrder
  <2>4. /\ \A d \in ConnId : ConnInOrder(d, conn[d])'
        /\ tcpTracked' \in 0..MaxConn /\ conn' \in [ConnId -> TcpConn]
        /\ \A d \in ConnId : conn'[d].state = "active" => approved'
    BY <1>0, <1>1, <2>2, <2>3, TcpConnMoves
  <2>5. task' \in [ConnId -> TcpTask]
        /\ \A d \in ConnId : task'[d] = task[d] \/ task'[d].at = "stream"
    BY <1>1, <1>5 DEF TaskTo, TcpTask
  <2>6. \A d \in ConnId :
            /\ task'[d].at \in {"connect", "promote", "held", "stream"} => approved'
            /\ task'[d].at = "held" => task'[d].held \in ConnId
    BY <1>0, <1>1, <2>5 DEF TcpInv
  <2> QED BY <1>0, <2>4, <2>5, <2>6 DEF TcpInv, TcpShape
<1>6. \/ conn[k].state = "active" /\ UNCHANGED <<conn, tcpTracked>> /\ TaskTo(c, "done")
      \/ /\ conn[k].state = "pending" /\ TaskTo(c, "stream")
         /\ \/ /\ conn' = [conn EXCEPT ![k].state = "active", ![k].out = conn[k].buf,
                                       ![k].buf = <<>>]
               /\ tcpTracked' = tcpTracked
            \/ /\ conn' = [conn EXCEPT ![k].state = "active", ![k].buf = <<>>]
               /\ tcpTracked' = 0
  BY <1>2 DEF PromotePendingConn
<1> QED BY <1>4, <1>5, <1>6

(* The other steps of a task.                                               *)
LEMMA TaskSteps ==
    ASSUME TcpInv, NEW c \in ConnId,
           \/ \E a \in BOOLEAN : Authorized(c, a)
           \/ BackendConnects(c) \/ PromoteLookup(c) \/ StreamEnds(c)
    PROVE  TcpInv'
<1>1. task[c] \in TcpTask /\ task \in [ConnId -> TcpTask] /\ tcpTracked \in 0..MaxConn
      /\ approved \in BOOLEAN
      /\ (task[c].at \in {"connect", "promote", "held", "stream"} => approved)
  BY DEF TcpInv, TcpShape
<1>2. \A x \in {"done", "connect", "promote"} :
          /\ [task[c] EXCEPT !.at = x] \in TcpTask /\ [task[c] EXCEPT !.at = x].at = x
          /\ [task EXCEPT ![c].at = x] = [task EXCEPT ![c] = [task[c] EXCEPT !.at = x]]
  BY <1>1 DEF TcpTask
<1>3. CASE PromoteLookup(c)
  <2>1. PICK t : t = IF tcpTracked = 0 THEN [at |-> "done", held |-> 0]
                     ELSE [at |-> "held", held |-> tcpTracked]
    OBVIOUS
  <2>2. t \in TcpTask /\ t.at \in {"done", "held"} /\ (t.at = "held" => t.held \in ConnId)
    BY <1>1, <2>1, TcpAssumption DEF TcpTask, ConnId
  <2>3. task' = [task EXCEPT ![c] = t] /\ approved BY <1>1, <1>3, <2>1 DEF PromoteLookup
  <2>4. conn' = conn /\ opener' = opener /\ toServer' = toServer /\ tcpTracked' = tcpTracked
        /\ approved' = approved
    BY <1>3 DEF PromoteLookup
  <2> QED BY <2>2, <2>3, <2>4, TcpTaskMoves
<1>4. ASSUME NEW x \in {"done", "connect", "promote"}, TaskTo(c, x), x # "done" => approved',
             conn' = conn, opener' = opener, toServer' = toServer,
             tcpTracked' \in {0, tcpTracked}, approved' \in {TRUE, approved}
      PROVE  TcpInv'
  <2>1. PICK t \in TcpTask : t.at = x /\ task' = [task EXCEPT ![c] = t]
    BY <1>2, <1>4 DEF TaskTo
  <2>2. approved' \in BOOLEAN /\ (approved => approved')
    <3>1. approved' = TRUE \/ approved' = approved BY <1>4
    <3> QED BY <1>1, <3>1, Zenon
  <2> QED BY <1>4, <2>1, <2>2, TcpTaskMoves
<1>5. CASE \E a \in BOOLEAN : Authorized(c, a)
  BY <1>4, <1>5 DEF Authorized, CloseConn
<1>6. CASE BackendConnects(c)
  <2>1. approved BY <1>1, <1>6 DEF BackendConnects
  <2> QED BY <1>4, <1>6, <2>1 DEF BackendConnects, CloseConn
<1>7. CASE StreamEnds(c)
  BY <1>4, <1>7 DEF StreamEnds, CloseConn
<1> QED BY <1>3, <1>5, <1>6, <1>7

(* The steps of the opener, the network and the peer's presence.            *)
LEMMA OutsideSteps ==
    ASSUME TcpInv,
           \/ HandleLocalConnection \/ ForwardTcpToDc \/ OpenerHandlesClose \/ CancelForward
           \/ PeerLeaves \/ PeerReturns \/ ScheduleCloseAll \/ CancelPendingClose
           \/ TransportFault
    PROVE  TcpInv'
<1>1. /\ opener \in [state : {"new", "active", "closed"}, sent : 0..MaxData]
      /\ opener.sent \in 0..MaxData
      /\ [opener EXCEPT !.state = "active"] \in [state : {"new", "active", "closed"}, sent : 0..MaxData]
      /\ [opener EXCEPT !.state = "active"].sent = opener.sent
      /\ [opener EXCEPT !.state = "closed"] \in [state : {"new", "active", "closed"}, sent : 0..MaxData]
      /\ [opener EXCEPT !.state = "closed"].sent = opener.sent
      /\ Connect \in TcpMsg /\ Close \in TcpMsg /\ Connect.t # "data" /\ Close.t # "data"
      /\ MaxData \in Nat
  BY TcpAssumption DEF TcpInv, TcpShape, Connect, Close, TcpMsg
<1>2. CASE HandleLocalConnection
  BY <1>1, <1>2, TcpOutside DEF HandleLocalConnection
<1>3. CASE ForwardTcpToDc
  <2>1. CASE opener' = [opener EXCEPT !.state = "closed"] /\ toServer' = Append(toServer, Close)
    BY <1>1, <1>3, <2>1, TcpOutside DEF ForwardTcpToDc
  <2>2. CASE /\ opener.sent < MaxData /\ opener' = [opener EXCEPT !.sent = @ + 1]
             /\ toServer' = Append(toServer, [t |-> "data", seq |-> opener.sent + 1])
    <3>1. opener' \in [state : {"new", "active", "closed"}, sent : 0..MaxData]
          /\ opener'.sent = opener.sent + 1
      BY <1>1, <2>2
    <3>2. PICK m \in TcpMsg : m = [t |-> "data", seq |-> opener.sent + 1]
      BY <1>1, <2>2 DEF TcpMsg
    <3>3. m.seq <= opener'.sent /\ toServer' = Append(toServer, m) BY <1>1, <2>2, <3>1, <3>2
    <3>4. opener.sent <= opener'.sent BY <1>1, <3>1
    <3> QED BY <1>3, <3>1, <3>3, <3>4, TcpOutside DEF ForwardTcpToDc
  <2> QED BY <1>3, <2>1, <2>2 DEF ForwardTcpToDc
<1>4. CASE OpenerHandlesClose
  BY <1>1, <1>4, TcpOutside DEF OpenerHandlesClose
<1>5. CASE CancelForward \/ PeerLeaves \/ PeerReturns \/ ScheduleCloseAll \/ CancelPendingClose
  BY <1>1, <1>5, TcpOutside DEF CancelForward, PeerLeaves, PeerReturns, ScheduleCloseAll,
                                CancelPendingClose
<1>6. CASE TransportFault
  <2>1. UNCHANGED <<tcpTracked, conn, task, approved, opener>> BY <1>6 DEF TransportFault
  <2>2. \/ toServer # <<>> /\ toServer' = Tail(toServer)
        \/ toServer # <<>> /\ toServer' = <<toServer[1]>> \o toServer
        \/ toServer' = Append(toServer, Connect)
    BY <1>6 DEF TransportFault
  <2> QED BY <1>1, <2>1, <2>2, TcpOutside
<1> QED BY <1>2, <1>3, <1>4, <1>5, <1>6

LEMMA TcpSteps == ASSUME TcpInv, TcpNext PROVE TcpInv'
<1>0. opener \in [state : {"new", "active", "closed"}, sent : 0..MaxData] /\ opener.sent \in Nat
      /\ tcpTracked \in 0..MaxConn
  BY TcpAssumption DEF TcpInv, TcpShape
<1>1. ASSUME tcpTracked' \in {0, tcpTracked}, UNCHANGED <<opener, conn, task, approved>>,
             toServer' = toServer \/ (toServer # <<>> /\ toServer' = Tail(toServer))
      PROVE  TcpInv'
  <2>1. /\ \A c \in ConnId : ConnInOrder(c, conn[c])'
        /\ tcpTracked' \in 0..MaxConn /\ conn' \in [ConnId -> TcpConn]
    BY <1>0, <1>1, ConnsRest
  <2>2. /\ toServer' \in Seq(TcpMsg)
        /\ \A i \in DOMAIN toServer' : toServer'[i].t = "data" => toServer'[i].seq <= opener'.sent
    BY <1>0, <1>1, WireRest
  <2> QED BY <1>1, <2>1, <2>2 DEF TcpInv, TcpShape
<1>2. CASE CloseConnFromPeer
  BY <1>1, <1>2 DEF CloseConnFromPeer, CloseConn, Receives
<1>3. CASE \E e \in 1..2 * MaxTcpFaults + 1 : TcpGraceElapses(e)
  BY <1>1, <1>3 DEF TcpGraceElapses, CloseConn
<1> QED BY <1>2, <1>3, OutsideSteps, HandleConnectSteps, HandleDataSteps, PromoteSteps, TaskSteps
        DEF TcpNext

LEMMA TcpInvariant == TcpSpec => []TcpInv
<1>1. TcpInit => TcpInv
  <2> SUFFICES ASSUME TcpInit PROVE TcpInv OBVIOUS
  <2>1. TcpShape
    <3>1. 0 \in 0..MaxData /\ 1 \in 1..MaxData + 1 /\ 0 \in 0..MaxConn
      BY TcpAssumption
    <3>2. <<>> \in Seq(TcpMsg) /\ <<>> \in Seq(1..MaxData) OBVIOUS
    <3>3. [state |-> "none", buf |-> <<>>, next |-> 1, out |-> <<>>] \in TcpConn
      BY <3>1, <3>2 DEF TcpConn
    <3>4. [at |-> "none", held |-> 0] \in TcpTask BY <3>1 DEF TcpTask
    <3>5. conn \in [ConnId -> TcpConn] /\ task \in [ConnId -> TcpTask]
      BY <3>3, <3>4 DEF TcpInit
    <3> QED BY <3>1, <3>2, <3>5 DEF TcpInit, TcpShape
  <2>2. opener.sent = 0 /\ tcpTracked = 0 /\ DOMAIN toServer = {} BY DEF TcpInit
  <2>3. \A c \in ConnId : conn[c] = [state |-> "none", buf |-> <<>>, next |-> 1, out |-> <<>>]
                          /\ task[c].at = "none" /\ c # 0
    BY DEF TcpInit, ConnId
  <2>4. Numbered(<<>>) BY <2>2 DEF Numbered
  <2>5. \A c \in ConnId : ConnInOrder(c, conn[c])
    BY <2>2, <2>3, <2>4 DEF ConnInOrder
  <2> QED BY <2>1, <2>2, <2>3, <2>5 DEF TcpInv
<1>2. TcpInv /\ [TcpNext]_tcpVars => TcpInv'
  <2>1. TcpInv /\ UNCHANGED tcpVars => TcpInv'
    BY DEF tcpVars, TcpInv, TcpShape, ConnInOrder, Numbered
  <2> QED BY <2>1, TcpSteps
<1> QED BY <1>1, <1>2, PTL DEF TcpSpec

-----------------------------------------------------------------------------
(***************************************************************************)
(* The relay of a screen share: between any two steps of the loop the      *)
(* caches hold tracks of the peers they are filed under, the lock is on    *)
(* the cached video track of a peer the view allows, and what is forwarded *)
(* and shown goes with what the loop waits for.                            *)
(***************************************************************************)
CastRole == Role \cup {"disabled"}
CastView == [role : CastRole, leader : FellowRelay \cup {"me", "none"},
             peers : SUBSET (FellowRelay \cup {"me"})]
CastTrack == [peer : Remote, kind : {"video", "audio"}]
CastCache == [video : [Remote -> Nat], audio : [Remote -> Nat], pending : [Remote -> Nat]]
CastLock == [peer : Remote, ssrc : Nat]

CastQueues ==
    /\ tracks \in Seq(CastTrack) /\ gone \subseteq DOMAIN tracks
    /\ mediaRx \in Seq(DOMAIN tracks) /\ replay \in Seq(DOMAIN tracks) /\ endedRx \in Seq(gone)
    /\ released \subseteq gone

CastTypes ==
    /\ fellows \subseteq FellowRelay
    /\ watched \in [view : CastView, unseen : BOOLEAN]
    /\ currentView \in CastView /\ policy \in CastView
    /\ policy.role = currentView.role /\ policy.leader \in {currentView.leader, "none"}

(* A cache files a track under the peer that published it.                  *)
Filed(map) == \A p \in Remote : map[p] # 0 => map[p] \in DOMAIN tracks /\ tracks[map[p]].peer = p

CastCaches ==
    /\ cache \in CastCache
    /\ Filed(cache.video) /\ Filed(cache.audio) /\ Filed(cache.pending)

(* The view allows the lock, and its track is the newest one of the peer.   *)
CastLocks ==
    /\ lock = NoLock \/ lock \in CastLock
    /\ lock # NoLock =>
          /\ lock.ssrc \in DOMAIN tracks /\ cache.video[lock.peer] = lock.ssrc
          /\ currentView.role = "follower" => lock.peer = currentView.leader
          /\ currentView.role # "unknown"

CastForwards ==
    /\ forwarding \in [video : Nat, audio : Nat, over : BOOLEAN]
    /\ waiting \in [for : {"none", "video", "audio", "unpublish"}, left : Nat]
    /\ lock = NoLock \/ waiting.for # "none" => forwarding = NoTasks
    /\ lock # NoLock /\ waiting.for = "none" =>
          /\ forwarding.video = lock.ssrc
          /\ forwarding.audio # 0 => /\ forwarding.audio \in DOMAIN tracks
                                     /\ tracks[forwarding.audio].peer = lock.peer

(* What is published at each wait of the loop.                              *)
CastShown ==
    /\ republish \in BOOLEAN
    /\ waiting.for \in {"video", "audio"} => lock # NoLock /\ ~republish
    /\ waiting.for = "unpublish" => lock = NoLock /\ ~republish
    /\ lock = NoLock => ~republish
    /\ castUp =>
          /\ waiting.for = "none" => shown = IF republish THEN {"video", "audio"} ELSE {}
          /\ waiting.for = "video" => shown = {}
          /\ waiting.for = "audio" => shown = {"video"}
          /\ waiting.for = "unpublish" =>
                shown = IF waiting.left = 2 THEN {"video", "audio"} ELSE {"audio"}

CastInv ==
    CastQueues /\ CastTypes /\ CastCaches /\ CastLocks /\ CastForwards /\ CastShown

LEMMA CastIsInStep == CastInv => CastInStep
<1> SUFFICES ASSUME CastInv PROVE CastInStep OBVIOUS
<1>1. released \subseteq gone BY DEF CastInv, CastQueues
<1>2. ASSUME LoopAt("none")
      PROVE  /\ lock = NoLock => forwarding = NoTasks /\ shown = {}
             /\ lock # NoLock =>
                   /\ forwarding.video = lock.ssrc /\ cache.video[lock.peer] = lock.ssrc
                   /\ forwarding.audio # 0 => tracks[forwarding.audio].peer = lock.peer
                   /\ currentView.role = "follower" => lock.peer = currentView.leader
                   /\ currentView.role # "unknown"
             /\ republish <=> shown # {}
  BY <1>2 DEF LoopAt, CastInv, CastLocks, CastForwards, CastShown
<1> QED BY <1>1, <1>2 DEF CastInStep

LEMMA AcceptsMeans ==
    ASSUME NEW p, NEW pol, pol.role \in CastRole, accepts_remote(p, pol)
    PROVE  pol.role # "unknown" /\ (pol.role = "follower" => p = pol.leader)
BY DEF accepts_remote, CastRole, Role

LEMMA PolicyOf ==
    ASSUME NEW v \in CastView
    PROVE  /\ build_policy(v) \in CastView
           /\ build_policy(v).role = v.role /\ build_policy(v).leader \in {v.leader, "none"}
BY DEF build_policy, CastView

(* A view is taken, or kept, and the policy built from it.                  *)
LEMMA IteratesTypes ==
    ASSUME CastTypes, NEW v \in CastView, Iterates(v), fellows' = fellows,
           watched' \in [view : CastView, unseen : BOOLEAN]
    PROVE  CastTypes' /\ currentView' = v
<1>1. /\ build_policy(v) \in CastView
      /\ build_policy(v).role = v.role /\ build_policy(v).leader \in {v.leader, "none"}
  BY PolicyOf
<1>2. currentView' = v /\ policy' = build_policy(v) BY DEF Iterates
<1> QED BY <1>1, <1>2 DEF CastTypes

LEMMA NewLock ==
    ASSUME NEW p \in Remote, NEW n \in Nat
    PROVE  /\ [peer |-> p, ssrc |-> n] \in CastLock /\ [peer |-> p, ssrc |-> n] # NoLock
           /\ [peer |-> p, ssrc |-> n].peer = p /\ [peer |-> p, ssrc |-> n].ssrc = n
<1>1. [peer |-> p, ssrc |-> n] \in CastLock BY DEF CastLock
<1>2. NoLock \notin CastLock BY StreamRelayAssumption DEF CastLock
<1> QED BY <1>1, <1>2

(* What bounded_insert leaves in a cache.                                   *)
LEMMA InsertOf ==
    ASSUME NEW map \in [Remote -> Nat], Filed(map), NEW n \in DOMAIN tracks, n \in Nat \ {0},
           NEW p \in Remote, tracks[n].peer = p, NEW m \in bounded_insert(map, p, n)
    PROVE  /\ m \in [Remote -> Nat] /\ Filed(m) /\ m[p] = n
           /\ \A q \in Remote : q = LockedPeer /\ q # p => m[q] = map[q]
<1>1. \/ m = [map EXCEPT ![p] = n]
      \/ \E v \in Remote \ {p, LockedPeer} : m = [map EXCEPT ![p] = n, ![v] = 0]
  BY DEF bounded_insert
<1>2. CASE m = [map EXCEPT ![p] = n] BY <1>2 DEF Filed
<1>3. CASE \E v \in Remote \ {p, LockedPeer} : m = [map EXCEPT ![p] = n, ![v] = 0]
  <2>1. PICK v \in Remote \ {p, LockedPeer} : m = [map EXCEPT ![p] = n, ![v] = 0] BY <1>3
  <2>2. \A q \in Remote : m[q] = IF q = v THEN 0 ELSE IF q = p THEN n ELSE map[q]
    BY <2>1
  <2>3. m \in [Remote -> Nat] BY <2>1
  <2> QED BY <2>1, <2>2, <2>3 DEF Filed
<1> QED BY <1>1, <1>2, <1>3

LEMMA DecideVideo ==
    ASSUME NEW p \in Remote, CastLocks
    PROVE  \/ decide_video(p) = "Lock" /\ lock = NoLock /\ accepts_remote(p, policy)
           \/ decide_video(p) = "Switch" /\ lock # NoLock /\ lock.peer = p
           \/ decide_video(p) = "Ignore" /\ (lock = NoLock \/ lock.peer # p)
<1>1. p # "none" BY StreamRelayAssumption
<1> QED BY <1>1 DEF decide_video, LockedPeer

LEMMA DecideAudio ==
    ASSUME NEW p \in Remote, CastLocks
    PROVE  \/ decide_audio(p) = "Attach" /\ lock # NoLock /\ lock.peer = p
           \/ decide_audio(p) = "Buffer" /\ lock = NoLock
           \/ decide_audio(p) = "Ignore"
BY DEF decide_audio, LockedPeer

(* What TakeTrack caches first.                                             *)
CachedFirst(c, n) ==
    /\ c \in CastCache /\ Filed(c.video) /\ Filed(c.audio) /\ Filed(c.pending)
    /\ tracks[n].kind = "video" => c.video[tracks[n].peer] = n
    /\ \A q \in Remote : q = LockedPeer /\ (tracks[n].kind = "video" => q # tracks[n].peer)
                         => c.video[q] = cache.video[q]

LEMMA TakeTrackCaches ==
    ASSUME CastInv, NEW n \in DOMAIN tracks, TakeTrack(n)
    PROVE  /\ n \in Nat \ {0} /\ tracks[n] \in CastTrack
           /\ \E c : /\ CachedFirst(c, n)
                     /\ IF tracks[n].kind = "video" THEN TakeVideo(n, c) ELSE TakeAudio(n, c)
           /\ Iterates(currentView)
           /\ UNCHANGED <<tracks, gone, endedRx, fellows, watched, castUp, castEvents>>
<1>1. n \in Nat \ {0} /\ tracks[n] \in CastTrack BY DEF CastInv, CastQueues
<1>2. Iterates(currentView) /\ UNCHANGED <<tracks, gone, endedRx, fellows, watched, castUp, castEvents>>
  BY DEF TakeTrack
<1>3. PICK p \in Remote : p = tracks[n].peer BY <1>1 DEF CastTrack
<1>4. PICK map \in bounded_insert(cache[tracks[n].kind], tracks[n].peer, n) :
          IF tracks[n].kind = "video" THEN TakeVideo(n, [cache EXCEPT ![tracks[n].kind] = map])
          ELSE TakeAudio(n, [cache EXCEPT ![tracks[n].kind] = map])
  BY DEF TakeTrack
<1>5. cache \in CastCache /\ Filed(cache.video) /\ Filed(cache.audio) /\ Filed(cache.pending)
  BY DEF CastInv, CastCaches
<1>6. CASE tracks[n].kind = "video"
  <2>1. map \in bounded_insert(cache.video, p, n) BY <1>3, <1>4, <1>6
  <2>2. cache.video \in [Remote -> Nat] BY <1>5 DEF CastCache
  <2>3. /\ map \in [Remote -> Nat] /\ Filed(map) /\ map[p] = n
        /\ \A q \in Remote : q = LockedPeer /\ q # p => map[q] = cache.video[q]
    BY <1>1, <1>3, <1>5, <2>1, <2>2, InsertOf
  <2>4. PICK c : c = [cache EXCEPT ![tracks[n].kind] = map] OBVIOUS
  <2>5. c \in CastCache /\ c.video = map /\ c.audio = cache.audio /\ c.pending = cache.pending
    BY <1>5, <1>6, <2>3, <2>4 DEF CastCache
  <2>6. CachedFirst(c, n) BY <1>3, <1>5, <1>6, <2>3, <2>5 DEF CachedFirst
  <2> QED BY <1>1, <1>2, <1>4, <2>4, <2>6
<1>7. CASE tracks[n].kind = "audio"
  <2>1. map \in bounded_insert(cache.audio, p, n) BY <1>3, <1>4, <1>7
  <2>2. cache.audio \in [Remote -> Nat] BY <1>5 DEF CastCache
  <2>3. map \in [Remote -> Nat] /\ Filed(map)
    BY <1>1, <1>3, <1>5, <2>1, <2>2, InsertOf
  <2>4. PICK c : c = [cache EXCEPT ![tracks[n].kind] = map] OBVIOUS
  <2>5. c \in CastCache /\ c.video = cache.video /\ c.audio = map /\ c.pending = cache.pending
    BY <1>5, <1>7, <2>3, <2>4 DEF CastCache
  <2>6. CachedFirst(c, n) BY <1>5, <1>7, <2>3, <2>5 DEF CachedFirst
  <2> QED BY <1>1, <1>2, <1>4, <2>4, <2>6
<1> QED BY <1>1, <1>6, <1>7 DEF CastTrack

(* StartTasks takes the audio track that waited for the lock.               *)
LEMMA StartTasksOf ==
    ASSUME NEW c \in CastCache, Filed(c.pending), NEW p \in Remote, NEW n \in Nat, StartTasks(p, n, c)
    PROVE  /\ cache' \in CastCache /\ cache'.video = c.video /\ cache'.audio = c.audio
           /\ Filed(cache'.pending)
           /\ forwarding' \in [video : Nat, audio : Nat, over : BOOLEAN] /\ forwarding'.video = n
           /\ forwarding'.audio # 0 => /\ forwarding'.audio \in DOMAIN tracks
                                       /\ tracks[forwarding'.audio].peer = p
<1>1. c.pending \in [Remote -> Nat] BY DEF CastCache
<1>2. PICK m : m = [c.pending EXCEPT ![p] = 0] OBVIOUS
<1>3. m \in [Remote -> Nat] /\ Filed(m) BY <1>1, <1>2 DEF Filed
<1>4. cache' = [c EXCEPT !.pending = m] BY <1>2 DEF StartTasks, CastCache
<1>5. cache' \in CastCache /\ cache'.video = c.video /\ cache'.audio = c.audio /\ cache'.pending = m
  BY <1>3, <1>4 DEF CastCache
<1>6. forwarding' = [video |-> n, audio |-> c.pending[p], over |-> FALSE] BY DEF StartTasks
<1>7. forwarding' \in [video : Nat, audio : Nat, over : BOOLEAN] /\ forwarding'.video = n
      /\ forwarding'.audio = c.pending[p]
  BY <1>1, <1>6
<1> QED BY <1>3, <1>5, <1>7 DEF Filed

LEMMA TakeVideoSteps ==
    ASSUME CastInv, LoopAt("none"), NEW n \in DOMAIN tracks, n \in Nat \ {0}, tracks[n] \in CastTrack,
           tracks[n].kind = "video", NEW c, CachedFirst(c, n), TakeVideo(n, c),
           Iterates(currentView), UNCHANGED <<tracks, gone, endedRx, fellows, watched, castUp, castEvents>>
    PROVE  CastTypes' /\ CastCaches' /\ CastLocks' /\ CastForwards' /\ CastShown' /\ released' = released
<1>1. CastTypes' /\ currentView' = currentView
  BY IteratesTypes DEF CastInv, CastTypes
<1>2. PICK p \in Remote : p = tracks[n].peer BY DEF CastTrack
<1>3. /\ c \in CastCache /\ Filed(c.video) /\ Filed(c.audio) /\ Filed(c.pending)
      /\ c.video[p] = n
      /\ \A q \in Remote : q = LockedPeer /\ q # p => c.video[q] = cache.video[q]
  BY <1>2 DEF CachedFirst
<1>4. UNCHANGED <<republish, shown, released, tracks, castUp>> BY DEF TakeVideo
<1>5. \A m : Filed(m)' <=> Filed(m) BY <1>4 DEF Filed
<1>6. \/ decide_video(p) = "Lock" /\ lock = NoLock /\ accepts_remote(p, policy)
      \/ decide_video(p) = "Switch" /\ lock # NoLock /\ lock.peer = p
      \/ decide_video(p) = "Ignore" /\ (lock = NoLock \/ lock.peer # p)
  BY DecideVideo DEF CastInv
<1>7. waiting.for = "none" /\ castUp BY DEF LoopAt
<1>8. CASE decide_video(p) = "Lock"
  <2>1. lock = NoLock /\ accepts_remote(p, policy) BY <1>6, <1>8
  <2>2. currentView.role # "unknown" /\ (currentView.role = "follower" => p = currentView.leader)
    <3>1. policy.role \in CastRole /\ policy.role = currentView.role
          /\ policy.leader \in {currentView.leader, "none"} /\ p # "none"
      BY StreamRelayAssumption DEF CastInv, CastTypes, CastView
    <3> QED BY <2>1, <3>1, AcceptsMeans
  <2>3. forwarding = NoTasks /\ ~republish /\ shown = {}
        /\ forwarding \in [video : Nat, audio : Nat, over : BOOLEAN]
    BY <1>7, <2>1 DEF CastInv, CastForwards, CastShown
  <2>4. /\ [peer |-> p, ssrc |-> n] \in CastLock /\ [peer |-> p, ssrc |-> n] # NoLock
        /\ [peer |-> p, ssrc |-> n].peer = p /\ [peer |-> p, ssrc |-> n].ssrc = n
    BY NewLock
  <2>5. CASE policy.role = "leader"
    <3>1. /\ lock' = [peer |-> p, ssrc |-> n] /\ cache' = c /\ forwarding' = forwarding
          /\ waiting' = [for |-> "video", left |-> RepublishAttempts]
      BY <1>2, <1>8, <2>5 DEF TakeVideo
    <3>2. CastCaches' BY <1>3, <1>5, <3>1 DEF CastCaches
    <3>3. CastLocks' BY <1>1, <1>3, <1>4, <2>2, <2>4, <3>1 DEF CastLocks
    <3>4. waiting' \in [for : {"none", "video", "audio", "unpublish"}, left : Nat]
          /\ waiting'.for = "video"
      BY <3>1, StreamRelayAssumption
    <3>5. CastForwards' BY <2>3, <3>1, <3>4 DEF CastForwards
    <3>6. CastShown' BY <1>4, <2>3, <2>4, <3>1, <3>4 DEF CastShown, CastInv
    <3> QED BY <1>1, <1>4, <3>2, <3>3, <3>5, <3>6
  <2>6. CASE policy.role # "leader"
    <3>1. lock' = [peer |-> p, ssrc |-> n] /\ StartTasks(p, n, c) /\ waiting' = waiting
      BY <1>2, <1>8, <2>6 DEF TakeVideo
    <3>2. /\ cache' \in CastCache /\ cache'.video = c.video /\ cache'.audio = c.audio
          /\ Filed(cache'.pending)
          /\ forwarding' \in [video : Nat, audio : Nat, over : BOOLEAN] /\ forwarding'.video = n
          /\ forwarding'.audio # 0 => /\ forwarding'.audio \in DOMAIN tracks
                                      /\ tracks[forwarding'.audio].peer = p
      BY <1>3, <3>1, StartTasksOf
    <3>3. CastCaches' BY <1>3, <1>4, <3>2 DEF CastCaches, Filed
    <3>4. CastLocks' BY <1>1, <1>3, <1>4, <2>2, <2>4, <3>1, <3>2 DEF CastLocks
    <3>5. CastForwards' BY <1>4, <1>7, <2>4, <3>1, <3>2 DEF CastForwards, CastInv
    <3>6. CastShown' BY <1>4, <1>7, <2>3, <3>1 DEF CastShown, CastInv
    <3> QED BY <1>1, <1>4, <3>3, <3>4, <3>5, <3>6
  <2> QED BY <2>5, <2>6
<1>9. CASE decide_video(p) = "Switch"
  <2>1. /\ lock # NoLock /\ lock.peer = p /\ lock' = [lock EXCEPT !.ssrc = n]
        /\ forwarding' = [forwarding EXCEPT !.video = n, !.over = FALSE]
        /\ cache' = c /\ waiting' = waiting
    BY <1>2, <1>6, <1>9 DEF TakeVideo
  <2>2. lock' \in CastLock /\ lock'.peer = p /\ lock'.ssrc = n
    BY <2>1 DEF CastInv, CastLocks, CastLock
  <2>3. lock' # NoLock BY <2>2, StreamRelayAssumption DEF CastLock
  <2>4. CastCaches' BY <1>3, <1>5, <2>1 DEF CastCaches
  <2>5. CastLocks' BY <1>1, <1>3, <1>4, <2>1, <2>2, <2>3 DEF CastLocks, CastInv
  <2>6. forwarding' \in [video : Nat, audio : Nat, over : BOOLEAN] /\ forwarding'.video = n
        /\ forwarding'.audio = forwarding.audio
    BY <2>1 DEF CastInv, CastForwards
  <2>7. CastForwards' BY <1>4, <1>7, <2>1, <2>2, <2>3, <2>6 DEF CastForwards, CastInv
  <2>8. CastShown' BY <1>4, <1>7, <2>1, <2>3 DEF CastShown, CastInv
  <2> QED BY <1>1, <1>4, <2>4, <2>5, <2>7, <2>8
<1>10. CASE decide_video(p) = "Ignore"
  <2>1. cache' = c /\ UNCHANGED <<lock, forwarding, waiting>> /\ (lock = NoLock \/ lock.peer # p)
    BY <1>2, <1>6, <1>10 DEF TakeVideo
  <2>2. CastCaches' BY <1>3, <1>5, <2>1 DEF CastCaches
  <2>3. lock # NoLock => lock.peer \in Remote /\ lock.peer = LockedPeer
    BY DEF CastInv, CastLocks, CastLock, LockedPeer
  <2>4. CastLocks' BY <1>1, <1>3, <1>4, <2>1, <2>3 DEF CastLocks, CastInv
  <2>5. CastForwards' BY <1>4, <2>1 DEF CastForwards, CastInv
  <2>6. CastShown' BY <1>4, <2>1 DEF CastShown, CastInv
  <2> QED BY <1>1, <1>4, <2>2, <2>4, <2>5, <2>6
<1> QED BY <1>6, <1>8, <1>9, <1>10

LEMMA TakeAudioSteps ==
    ASSUME CastInv, LoopAt("none"), NEW n \in DOMAIN tracks, n \in Nat \ {0}, tracks[n] \in CastTrack,
           tracks[n].kind = "audio", NEW c, CachedFirst(c, n), TakeAudio(n, c),
           Iterates(currentView), UNCHANGED <<tracks, gone, endedRx, fellows, watched, castUp, castEvents>>
    PROVE  CastTypes' /\ CastCaches' /\ CastLocks' /\ CastForwards' /\ CastShown' /\ released' = released
<1>1. CastTypes' /\ currentView' = currentView
  BY IteratesTypes DEF CastInv, CastTypes
<1>2. PICK p \in Remote : p = tracks[n].peer BY DEF CastTrack
<1>3. /\ c \in CastCache /\ Filed(c.video) /\ Filed(c.audio) /\ Filed(c.pending)
      /\ \A q \in Remote : q = LockedPeer => c.video[q] = cache.video[q]
  BY DEF CachedFirst
<1>4. UNCHANGED <<lock, waiting, republish, shown, released, tracks, castUp>> BY DEF TakeAudio
<1>5. \A m : Filed(m)' <=> Filed(m) BY <1>4 DEF Filed
<1>6. lock # NoLock => lock.peer \in Remote /\ lock.peer = LockedPeer
  BY DEF CastInv, CastLocks, CastLock, LockedPeer
<1>7. CastShown' BY <1>4 DEF CastShown, CastInv
<1>8. \/ decide_audio(p) = "Attach" /\ lock # NoLock /\ lock.peer = p
      \/ decide_audio(p) = "Buffer" /\ lock = NoLock
      \/ decide_audio(p) = "Ignore"
  BY DecideAudio DEF CastInv
<1>9. ASSUME cache' \in CastCache, cache'.video = c.video, cache'.audio = c.audio,
             Filed(cache'.pending)
      PROVE  CastCaches' /\ CastLocks'
  <2>1. CastCaches' BY <1>3, <1>4, <1>9 DEF CastCaches, Filed
  <2>2. CastLocks' BY <1>1, <1>3, <1>4, <1>6, <1>9 DEF CastLocks, CastInv
  <2> QED BY <2>1, <2>2
<1>10. CASE decide_audio(p) = "Attach"
  <2>1. forwarding' = [forwarding EXCEPT !.audio = n] /\ cache' = c /\ lock # NoLock /\ lock.peer = p
    BY <1>2, <1>8, <1>10 DEF TakeAudio
  <2>2. forwarding' \in [video : Nat, audio : Nat, over : BOOLEAN] /\ forwarding'.audio = n
        /\ forwarding'.video = forwarding.video
    BY <2>1 DEF CastInv, CastForwards
  <2>3. waiting.for = "none" BY DEF LoopAt
  <2>4. CastForwards' BY <1>2, <1>4, <2>1, <2>2, <2>3 DEF CastForwards, CastInv
  <2> QED BY <1>1, <1>3, <1>4, <1>7, <1>9, <2>1, <2>4
<1>11. CASE decide_audio(p) = "Buffer"
  <2>1. PICK map \in bounded_insert(c.pending, p, n) : cache' = [c EXCEPT !.pending = map]
    BY <1>2, <1>11 DEF TakeAudio
  <2>2. forwarding' = forwarding BY <1>2, <1>11 DEF TakeAudio
  <2>3. c.pending \in [Remote -> Nat] BY <1>3 DEF CastCache
  <2>4. map \in [Remote -> Nat] /\ Filed(map) BY <1>2, <1>3, <2>3, InsertOf
  <2>5. cache' \in CastCache /\ cache'.video = c.video /\ cache'.audio = c.audio
        /\ cache'.pending = map
    BY <1>3, <2>1, <2>4 DEF CastCache
  <2>6. CastForwards' BY <1>4, <2>2 DEF CastForwards, CastInv
  <2> QED BY <1>1, <1>4, <1>7, <1>9, <2>4, <2>5, <2>6
<1>12. CASE decide_audio(p) = "Ignore"
  <2>1. forwarding' = forwarding /\ cache' = c BY <1>2, <1>12 DEF TakeAudio
  <2>2. CastForwards' BY <1>4, <2>1 DEF CastForwards, CastInv
  <2> QED BY <1>1, <1>3, <1>4, <1>7, <1>9, <2>1, <2>2
<1> QED BY <1>8, <1>10, <1>11, <1>12

LEMMA TakeTrackSteps ==
    ASSUME CastInv, LoopAt("none"), NEW n \in DOMAIN tracks, TakeTrack(n)
    PROVE  /\ CastTypes' /\ CastCaches' /\ CastLocks' /\ CastForwards' /\ CastShown'
           /\ UNCHANGED <<tracks, gone, endedRx, released>>
<1>1. /\ n \in Nat \ {0} /\ tracks[n] \in CastTrack
      /\ \E c : /\ CachedFirst(c, n)
                /\ IF tracks[n].kind = "video" THEN TakeVideo(n, c) ELSE TakeAudio(n, c)
      /\ Iterates(currentView)
      /\ UNCHANGED <<tracks, gone, endedRx, fellows, watched, castUp, castEvents>>
  BY TakeTrackCaches
<1>2. PICK c : /\ CachedFirst(c, n)
               /\ IF tracks[n].kind = "video" THEN TakeVideo(n, c) ELSE TakeAudio(n, c)
  BY <1>1
<1>3. CASE tracks[n].kind = "video" BY <1>1, <1>2, <1>3, TakeVideoSteps
<1>4. CASE tracks[n].kind = "audio" BY <1>1, <1>2, <1>4, TakeAudioSteps
<1> QED BY <1>1, <1>3, <1>4 DEF CastTrack

LEMMA TakeSteps == ASSUME CastInv, TakeReplay \/ TakeMedia PROVE CastInv'
<1>1. mediaRx \in Seq(DOMAIN tracks) /\ replay \in Seq(DOMAIN tracks) BY DEF CastInv, CastQueues
<1>2. CASE TakeReplay
  <2>1. replay # <<>> /\ LoopAt("none") /\ TakeTrack(Head(replay)) /\ replay' = Tail(replay)
        /\ mediaRx' = mediaRx
    BY <1>2 DEF TakeReplay
  <2>2. Head(replay) \in DOMAIN tracks /\ Tail(replay) \in Seq(DOMAIN tracks)
    BY <1>1, <2>1, HeadTailOf
  <2>3. /\ CastTypes' /\ CastCaches' /\ CastLocks' /\ CastForwards' /\ CastShown'
        /\ UNCHANGED <<tracks, gone, endedRx, released>>
    BY <2>1, <2>2, TakeTrackSteps
  <2>4. CastQueues' BY <2>1, <2>2, <2>3 DEF CastInv, CastQueues
  <2> QED BY <2>3, <2>4 DEF CastInv
<1>3. CASE TakeMedia
  <2>1. mediaRx # <<>> /\ LoopAt("none") /\ TakeTrack(Head(mediaRx)) /\ mediaRx' = Tail(mediaRx)
        /\ replay' = replay
    BY <1>3 DEF TakeMedia
  <2>2. Head(mediaRx) \in DOMAIN tracks /\ Tail(mediaRx) \in Seq(DOMAIN tracks)
    BY <1>1, <2>1, HeadTailOf
  <2>3. /\ CastTypes' /\ CastCaches' /\ CastLocks' /\ CastForwards' /\ CastShown'
        /\ UNCHANGED <<tracks, gone, endedRx, released>>
    BY <2>1, <2>2, TakeTrackSteps
  <2>4. CastQueues' BY <2>1, <2>2, <2>3 DEF CastInv, CastQueues
  <2> QED BY <2>3, <2>4 DEF CastInv
<1> QED BY <1>2, <1>3

(* Unlock, after which nothing is forwarded and what was shown is taken      *)
(* down.                                                                    *)
LEMMA Unlocks ==
    ASSUME CastInv, LoopAt("none"), lock # NoLock, Unlock, UNCHANGED <<shown, castUp>>
    PROVE  CastLocks' /\ CastForwards' /\ CastShown'
<1>1. lock' = NoLock /\ forwarding' = NoTasks /\ republish' = FALSE
      /\ waiting' = IF republish THEN [for |-> "unpublish", left |-> 2] ELSE waiting
  BY DEF Unlock
<1>2. waiting.for = "none" /\ castUp /\ republish \in BOOLEAN
      /\ waiting \in [for : {"none", "video", "audio", "unpublish"}, left : Nat]
      /\ shown = IF republish THEN {"video", "audio"} ELSE {}
  BY DEF LoopAt, CastInv, CastForwards, CastShown
<1>3. CastLocks' BY <1>1 DEF CastLocks
<1>4. NoTasks \in [video : Nat, audio : Nat, over : BOOLEAN] BY DEF NoTasks
<1>5. CASE republish
  <2>1. waiting' = [for |-> "unpublish", left |-> 2] BY <1>1, <1>5
  <2>2. waiting' \in [for : {"none", "video", "audio", "unpublish"}, left : Nat]
        /\ waiting'.for = "unpublish" /\ waiting'.left = 2
    BY <2>1
  <2>3. CastForwards' BY <1>1, <1>4, <2>2 DEF CastForwards
  <2>4. CastShown' BY <1>1, <1>2, <1>5, <2>2 DEF CastShown
  <2> QED BY <1>3, <2>3, <2>4
<1>6. CASE ~republish
  <2>1. waiting' = waiting BY <1>1, <1>6
  <2>2. CastForwards' BY <1>1, <1>2, <1>4, <2>1 DEF CastForwards
  <2>3. CastShown' BY <1>1, <1>2, <1>6, <2>1 DEF CastShown
  <2> QED BY <1>3, <2>2, <2>3
<1> QED BY <1>5, <1>6

LEMMA TakeEndedSteps == ASSUME CastInv, TakeEnded PROVE CastInv'
<1>1. PICK n : n = Head(endedRx) OBVIOUS
<1>2. /\ LoopAt("none") /\ endedRx # <<>> /\ endedRx' = Tail(endedRx) /\ Iterates(currentView)
      /\ UNCHANGED <<tracks, gone, mediaRx, replay, fellows, watched, shown, castUp>>
  BY DEF TakeEnded
<1>3. n \in gone /\ n \in DOMAIN tracks /\ Tail(endedRx) \in Seq(gone)
  BY <1>1, <1>2, HeadTailOf DEF CastInv, CastQueues
<1>4. PICK p \in Remote : p = tracks[n].peer
  <2>1. tracks[n] \in CastTrack BY <1>3 DEF CastInv, CastQueues
  <2> QED BY <2>1 DEF CastTrack
<1>5. cache \in CastCache /\ Filed(cache.video) /\ Filed(cache.audio) /\ Filed(cache.pending)
  BY DEF CastInv, CastCaches
<1>6. cache' = [video |-> IF cache.video[p] = n THEN [cache.video EXCEPT ![p] = 0] ELSE cache.video,
                audio |-> IF cache.video[p] = n THEN [cache.audio EXCEPT ![p] = 0] ELSE cache.audio,
                pending |-> IF EndsLock(n) THEN [cache.pending EXCEPT ![p] = 0] ELSE cache.pending]
  BY <1>1, <1>4 DEF TakeEnded
<1>7. \A m \in [Remote -> Nat] : Filed(m) => /\ [m EXCEPT ![p] = 0] \in [Remote -> Nat]
                                             /\ Filed([m EXCEPT ![p] = 0])
  BY DEF Filed
<1>8. cache' \in CastCache /\ Filed(cache'.video) /\ Filed(cache'.audio) /\ Filed(cache'.pending)
  BY <1>5, <1>6, <1>7 DEF CastCache
<1>9. CastCaches' BY <1>2, <1>8 DEF CastCaches, Filed
<1>10. CastTypes' /\ currentView' = currentView BY <1>2, IteratesTypes DEF CastInv, CastTypes
<1>11. CASE EndsLock(n)
  <2>1. Unlock /\ released' = released \cup {lock.ssrc} /\ lock # NoLock /\ lock.ssrc = n
    BY <1>1, <1>11 DEF TakeEnded, EndsLock
  <2>2. CastLocks' /\ CastForwards' /\ CastShown' BY <1>2, <2>1, Unlocks
  <2>3. CastQueues' BY <1>2, <1>3, <2>1 DEF CastInv, CastQueues
  <2> QED BY <1>9, <1>10, <2>2, <2>3 DEF CastInv
<1>12. CASE ~EndsLock(n)
  <2>1. KeepsLock /\ released' = released BY <1>1, <1>12 DEF TakeEnded
  <2>2. lock # NoLock => cache'.video[lock.peer] = cache.video[lock.peer]
    <3> SUFFICES ASSUME lock # NoLock PROVE cache'.video[lock.peer] = cache.video[lock.peer] OBVIOUS
    <3>1. lock.peer \in Remote /\ cache.video[lock.peer] = lock.ssrc
          /\ ~(lock.peer = p /\ lock.ssrc = n)
      BY <1>4, <1>12 DEF CastInv, CastLocks, CastLock, EndsLock
    <3>2. cache'.video = IF cache.video[p] = n THEN [cache.video EXCEPT ![p] = 0] ELSE cache.video
      BY <1>6
    <3>3. cache.video \in [Remote -> Nat] BY <1>5 DEF CastCache
    <3> QED BY <3>1, <3>2, <3>3
  <2>3. CastLocks' BY <1>2, <1>10, <2>1, <2>2 DEF CastInv, CastLocks, KeepsLock
  <2>4. CastForwards' BY <1>2, <2>1 DEF CastInv, CastForwards, KeepsLock
  <2>5. CastShown' BY <1>2, <2>1 DEF CastInv, CastShown, KeepsLock
  <2>6. CastQueues' BY <1>2, <1>3, <2>1 DEF CastInv, CastQueues
  <2> QED BY <1>9, <1>10, <2>3, <2>4, <2>5, <2>6 DEF CastInv
<1> QED BY <1>11, <1>12

(* The tracks TakeView replays are cached ones.                             *)
LEMMA ReplaysOf ==
    ASSUME CastInv, NEW pol, NEW waits, NEW s \in Replays(pol, waits)
    PROVE  s \in Seq(DOMAIN tracks)
<1>1. PICK p \in Remote :
          /\ cache.video[p] # 0
          /\ s = <<cache.video[p]>> \o
                 (IF waits[p] = 0 /\ cache.audio[p] # 0 THEN <<cache.audio[p]>> ELSE <<>>)
  BY DEF Replays
<1>2. cache.video[p] \in DOMAIN tracks /\ (cache.audio[p] # 0 => cache.audio[p] \in DOMAIN tracks)
  BY <1>1 DEF CastInv, CastCaches, Filed
<1>3. <<cache.video[p]>> \in Seq(DOMAIN tracks) BY <1>2
<1>4. (IF waits[p] = 0 /\ cache.audio[p] # 0 THEN <<cache.audio[p]>> ELSE <<>>)
      \in Seq(DOMAIN tracks)
  <2>1. CASE waits[p] = 0 /\ cache.audio[p] # 0
    <3>1. <<cache.audio[p]>> \in Seq(DOMAIN tracks) BY <1>2, <2>1
    <3> QED BY <2>1, <3>1, Zenon
  <2>2. CASE ~(waits[p] = 0 /\ cache.audio[p] # 0)
    <3>1. <<>> \in Seq(DOMAIN tracks) OBVIOUS
    <3> QED BY <2>2, <3>1, Zenon
  <2> QED BY <2>1, <2>2
<1> QED BY <1>1, <1>3, <1>4, ConcatOf

LEMMA TakeViewSteps == ASSUME CastInv, TakeView PROVE CastInv'
<1>1. PICK v : v = watched.view OBVIOUS
<1>2. PICK pol : pol = build_policy(v) OBVIOUS
<1>3. PICK moved \in BOOLEAN : moved = (v.role # currentView.role \/ v.leader # currentView.leader)
  OBVIOUS
<1>4. PICK ends \in BOOLEAN : ends = (moved /\ lock # NoLock /\ ~lock_survives_view_change(pol))
  OBVIOUS
<1>5. PICK waits : waits = IF ends THEN NoTracks ELSE cache.pending OBVIOUS
<1>6. /\ LoopAt("none") /\ watched' = [watched EXCEPT !.unseen = FALSE]
      /\ cache' = [cache EXCEPT !.pending = waits]
      /\ IF ends THEN Unlock ELSE KeepsLock
      /\ replay' = replay \/ replay' \in Replays(pol, waits)
      /\ Iterates(v)
      /\ UNCHANGED <<tracks, gone, mediaRx, endedRx, fellows, shown, castUp, released>>
  BY <1>1, <1>2, <1>3, <1>4, <1>5 DEF TakeView
<1>7. v \in CastView /\ watched' \in [view : CastView, unseen : BOOLEAN]
  BY <1>1, <1>6 DEF CastInv, CastTypes
<1>8. CastTypes' /\ currentView' = v BY <1>6, <1>7, IteratesTypes DEF CastInv
<1>9. CastQueues'
  <2>1. replay' \in Seq(DOMAIN tracks) BY <1>6, ReplaysOf DEF CastInv, CastQueues
  <2> QED BY <1>6, <2>1 DEF CastInv, CastQueues
<1>10. cache' \in CastCache /\ cache'.video = cache.video /\ cache'.audio = cache.audio
       /\ Filed(cache'.pending)
  <2>1. waits \in [Remote -> Nat] /\ Filed(waits)
    BY <1>5 DEF CastInv, CastCaches, CastCache, NoTracks, Filed
  <2> QED BY <1>6, <2>1 DEF CastInv, CastCaches, CastCache
<1>11. CastCaches' BY <1>6, <1>10 DEF CastInv, CastCaches, Filed
<1>12. CASE ends
  <2>1. Unlock /\ lock # NoLock BY <1>4, <1>6, <1>12
  <2>2. CastLocks' /\ CastForwards' /\ CastShown' BY <1>6, <2>1, Unlocks
  <2> QED BY <1>8, <1>9, <1>11, <2>2 DEF CastInv
<1>13. CASE ~ends
  <2>1. KeepsLock BY <1>6, <1>13
  <2>2. lock # NoLock => v.role # "unknown" /\ (v.role = "follower" => lock.peer = v.leader)
    <3> SUFFICES ASSUME lock # NoLock
                 PROVE  v.role # "unknown" /\ (v.role = "follower" => lock.peer = v.leader)
      OBVIOUS
    <3>1. CASE moved
      <4>1. accepts_remote(lock.peer, pol)
        BY <1>4, <1>13, <3>1 DEF lock_survives_view_change
      <4>2. pol.role \in CastRole /\ pol.role = v.role /\ pol.leader \in {v.leader, "none"}
        BY <1>2, <1>7, PolicyOf DEF CastView
      <4>3. lock.peer # "none"
        BY StreamRelayAssumption DEF CastInv, CastLocks, CastLock
      <4> QED BY <4>1, <4>2, <4>3, AcceptsMeans
    <3>2. CASE ~moved
      BY <1>3, <3>2 DEF CastInv, CastLocks
    <3> QED BY <3>1, <3>2
  <2>3. CastLocks' BY <1>6, <1>8, <1>10, <2>1, <2>2 DEF CastInv, CastLocks, KeepsLock
  <2>4. CastForwards' BY <1>6, <2>1 DEF CastInv, CastForwards, KeepsLock
  <2>5. CastShown' BY <1>6, <2>1 DEF CastInv, CastShown, KeepsLock
  <2> QED BY <1>8, <1>9, <1>11, <2>3, <2>4, <2>5 DEF CastInv
<1> QED BY <1>12, <1>13

LEMMA PruneSteps == ASSUME CastInv, NEW left \in Remote, PruneTick(left) PROVE CastInv'
<1>1. /\ left # LockedPeer /\ Iterates(currentView)
      /\ cache' = [kind \in DOMAIN cache |-> [cache[kind] EXCEPT ![left] = 0]]
      /\ UNCHANGED <<tracks, gone, mediaRx, endedRx, lock, forwarding, replay, fellows, watched,
                     waiting, republish, shown, castUp, released>>
  BY DEF PruneTick
<1>2. cache \in CastCache /\ Filed(cache.video) /\ Filed(cache.audio) /\ Filed(cache.pending)
  BY DEF CastInv, CastCaches
<1>3. cache' = [video |-> [cache.video EXCEPT ![left] = 0],
                audio |-> [cache.audio EXCEPT ![left] = 0],
                pending |-> [cache.pending EXCEPT ![left] = 0]]
  BY <1>1, <1>2 DEF CastCache
<1>4. /\ cache.video \in [Remote -> Nat] /\ cache.audio \in [Remote -> Nat]
      /\ cache.pending \in [Remote -> Nat]
  BY <1>2 DEF CastCache
<1>5. cache' \in CastCache BY <1>3, <1>4 DEF CastCache
<1>6. Filed(cache'.video) /\ Filed(cache'.audio) /\ Filed(cache'.pending)
  <2>1. ASSUME NEW m \in [Remote -> Nat], Filed(m) PROVE Filed([m EXCEPT ![left] = 0])
    BY <2>1 DEF Filed
  <2> QED BY <1>2, <1>3, <1>4, <2>1
<1>7. CastCaches' BY <1>1, <1>5, <1>6 DEF CastCaches, Filed
<1>8. CastTypes' /\ currentView' = currentView BY <1>1, IteratesTypes DEF CastInv, CastTypes
<1>9. lock # NoLock => cache'.video[lock.peer] = cache.video[lock.peer]
  BY <1>1, <1>3, <1>4 DEF CastInv, CastLocks, CastLock, LockedPeer
<1>10. CastLocks' BY <1>1, <1>8, <1>9 DEF CastInv, CastLocks
<1>11. CastForwards' BY <1>1 DEF CastInv, CastForwards
<1>12. CastShown' BY <1>1 DEF CastInv, CastShown
<1>13. CastQueues' BY <1>1 DEF CastInv, CastQueues
<1> QED BY <1>7, <1>8, <1>10, <1>11, <1>12, <1>13 DEF CastInv

LEMMA PublishSteps == ASSUME CastInv, PublishTrack PROVE CastInv'
<1>1. /\ castUp /\ waiting.for \in {"video", "audio"} /\ (Published \/ PublishFails)
      /\ Iterates(currentView)
      /\ UNCHANGED <<tracks, gone, mediaRx, endedRx, lock, replay, fellows, watched, castUp, released>>
  BY DEF PublishTrack, LoopAt
<1>2. CastTypes' /\ currentView' = currentView BY <1>1, IteratesTypes DEF CastInv, CastTypes
<1>3. CastQueues' BY <1>1 DEF CastInv, CastQueues
<1>4. /\ lock # NoLock /\ ~republish /\ republish \in BOOLEAN /\ forwarding = NoTasks
      /\ lock \in CastLock /\ lock.peer \in Remote /\ lock.ssrc \in Nat
      /\ shown = IF waiting.for = "video" THEN {} ELSE {"video"}
      /\ waiting \in [for : {"none", "video", "audio", "unpublish"}, left : Nat]
  BY <1>1 DEF CastInv, CastShown, CastForwards, CastLocks, CastLock
<1>5. cache \in CastCache /\ Filed(cache.video) /\ Filed(cache.audio) /\ Filed(cache.pending)
  BY DEF CastInv, CastCaches
<1>6. CASE /\ waiting' \in [for : {"video", "audio"}, left : Nat] /\ UNCHANGED <<republish, forwarding, cache>>
           /\ shown' = IF waiting'.for = "video" THEN {} ELSE {"video"}
  <2>1. CastCaches' BY <1>1, <1>6 DEF CastInv, CastCaches, Filed
  <2>2. CastLocks' BY <1>1, <1>2, <1>6 DEF CastInv, CastLocks
  <2>3. waiting' \in [for : {"none", "video", "audio", "unpublish"}, left : Nat]
        /\ waiting'.for \in {"video", "audio"}
    BY <1>6
  <2>4. CastForwards' BY <1>1, <1>4, <1>6, <2>3 DEF CastInv, CastForwards
  <2>5. CastShown' BY <1>1, <1>4, <1>6, <2>3 DEF CastInv, CastShown
  <2> QED BY <1>2, <1>3, <2>1, <2>2, <2>4, <2>5 DEF CastInv
<1>7. CASE /\ waiting' = NotWaiting /\ StartTasks(lock.peer, lock.ssrc, cache)
           /\ republish' \in BOOLEAN /\ shown' = IF republish' THEN {"video", "audio"} ELSE {}
  <2>1. /\ cache' \in CastCache /\ cache'.video = cache.video /\ cache'.audio = cache.audio
        /\ Filed(cache'.pending)
        /\ forwarding' \in [video : Nat, audio : Nat, over : BOOLEAN]
        /\ forwarding'.video = lock.ssrc
        /\ forwarding'.audio # 0 => /\ forwarding'.audio \in DOMAIN tracks
                                    /\ tracks[forwarding'.audio].peer = lock.peer
    BY <1>4, <1>5, <1>7, StartTasksOf
  <2>2. CastCaches' BY <1>1, <1>5, <2>1 DEF CastCaches, Filed
  <2>3. CastLocks' BY <1>1, <1>2, <2>1 DEF CastInv, CastLocks
  <2>4. waiting' \in [for : {"none", "video", "audio", "unpublish"}, left : Nat]
        /\ waiting'.for = "none"
    BY <1>7 DEF NotWaiting
  <2>5. CastForwards' BY <1>1, <1>4, <2>1, <2>4 DEF CastForwards
  <2>6. CastShown' BY <1>1, <1>4, <1>7, <2>4 DEF CastShown
  <2> QED BY <1>2, <1>3, <2>2, <2>3, <2>5, <2>6 DEF CastInv
<1>8. CASE Published
  <2>1. CASE waiting.for = "video"
    <3>1. waiting' = [waiting EXCEPT !.for = "audio"] /\ shown' = shown \cup {"video"}
          /\ UNCHANGED <<republish, forwarding, cache>>
      BY <1>8, <2>1 DEF Published
    <3>2. waiting' \in [for : {"video", "audio"}, left : Nat] /\ waiting'.for = "audio"
      BY <1>4, <3>1
    <3> QED BY <1>4, <1>6, <2>1, <3>1, <3>2
  <2>2. CASE waiting.for = "audio"
    <3>1. waiting' = NotWaiting /\ shown' = shown \cup {"audio"} /\ republish' = TRUE
          /\ StartTasks(lock.peer, lock.ssrc, cache)
      BY <1>8, <2>2 DEF Published
    <3>2. shown' = {"video", "audio"} BY <1>4, <2>2, <3>1
    <3> QED BY <1>7, <3>1, <3>2
  <2> QED BY <1>1, <2>1, <2>2
<1>9. CASE PublishFails
  <2>1. shown' = {} /\ republish' = republish
    BY <1>1, <1>4, <1>9 DEF PublishFails
  <2>2. CASE waiting.left > 1
    <3>1. waiting' = [for |-> "video", left |-> waiting.left - 1] /\ UNCHANGED <<forwarding, cache>>
      BY <1>9, <2>2 DEF PublishFails
    <3>2. waiting' \in [for : {"video", "audio"}, left : Nat] /\ waiting'.for = "video"
      BY <1>4, <2>2, <3>1
    <3> QED BY <1>6, <2>1, <3>1, <3>2
  <2>3. CASE ~(waiting.left > 1)
    <3>1. waiting' = NotWaiting /\ StartTasks(lock.peer, lock.ssrc, cache)
      BY <1>9, <2>3 DEF PublishFails
    <3> QED BY <1>4, <1>7, <2>1, <3>1
  <2> QED BY <2>2, <2>3
<1> QED BY <1>1, <1>8, <1>9

LEMMA UnpublishSteps == ASSUME CastInv, UnpublishTrack PROVE CastInv'
<1>1. /\ castUp /\ waiting.for = "unpublish" /\ Iterates(currentView)
      /\ shown' = shown \ {IF waiting.left = 2 THEN "video" ELSE "audio"}
      /\ waiting' = IF waiting.left = 2 THEN [waiting EXCEPT !.left = 1] ELSE NotWaiting
      /\ UNCHANGED <<tracks, gone, mediaRx, endedRx, lock, forwarding, cache, replay, fellows,
                     watched, republish, castUp, released>>
  BY DEF UnpublishTrack, LoopAt
<1>2. CastTypes' /\ currentView' = currentView BY <1>1, IteratesTypes DEF CastInv, CastTypes
<1>3. CastQueues' BY <1>1 DEF CastInv, CastQueues
<1>4. /\ lock = NoLock /\ ~republish /\ republish \in BOOLEAN /\ forwarding = NoTasks
      /\ shown = IF waiting.left = 2 THEN {"video", "audio"} ELSE {"audio"}
      /\ waiting \in [for : {"none", "video", "audio", "unpublish"}, left : Nat]
      /\ forwarding \in [video : Nat, audio : Nat, over : BOOLEAN]
  BY <1>1 DEF CastInv, CastShown, CastForwards
<1>5. CastCaches' BY <1>1 DEF CastInv, CastCaches, Filed
<1>6. CastLocks' BY <1>1, <1>4 DEF CastLocks
<1>7. CASE waiting.left = 2
  <2>1. waiting' = [waiting EXCEPT !.left = 1] /\ shown' = {"audio"} BY <1>1, <1>4, <1>7
  <2>2. waiting' \in [for : {"none", "video", "audio", "unpublish"}, left : Nat]
        /\ waiting'.for = "unpublish" /\ waiting'.left = 1
    BY <1>1, <1>4, <2>1
  <2>3. CastForwards' BY <1>1, <1>4, <2>2 DEF CastForwards
  <2>4. CastShown' BY <1>1, <1>4, <2>1, <2>2 DEF CastShown
  <2> QED BY <1>2, <1>3, <1>5, <1>6, <2>3, <2>4 DEF CastInv
<1>8. CASE waiting.left # 2
  <2>1. waiting' = NotWaiting /\ shown' = {} BY <1>1, <1>4, <1>8
  <2>2. waiting' \in [for : {"none", "video", "audio", "unpublish"}, left : Nat]
        /\ waiting'.for = "none"
    BY <2>1 DEF NotWaiting
  <2>3. CastForwards' BY <1>1, <1>4, <2>2 DEF CastForwards
  <2>4. CastShown' BY <1>1, <1>4, <2>1, <2>2 DEF CastShown
  <2> QED BY <1>2, <1>3, <1>5, <1>6, <2>3, <2>4 DEF CastInv
<1> QED BY <1>7, <1>8

LEMMA CastStopSteps == ASSUME CastInv, CastStop PROVE CastInv'
<1>1. /\ castUp' = FALSE /\ lock' = NoLock /\ forwarding' = NoTasks /\ waiting' = NotWaiting
      /\ republish' = FALSE
      /\ UNCHANGED <<tracks, gone, mediaRx, endedRx, cache, replay, fellows, watched, currentView,
                     policy, released>>
  BY DEF CastStop
<1>2. CastQueues' BY <1>1 DEF CastInv, CastQueues
<1>3. CastTypes' BY <1>1 DEF CastInv, CastTypes
<1>4. CastCaches' BY <1>1 DEF CastInv, CastCaches, Filed
<1>5. CastLocks' BY <1>1 DEF CastLocks
<1>6. waiting' \in [for : {"none", "video", "audio", "unpublish"}, left : Nat]
      /\ waiting'.for = "none"
  BY <1>1 DEF NotWaiting
<1>7. CastForwards' BY <1>1, <1>6 DEF CastForwards, NoTasks
<1>8. CastShown' BY <1>1, <1>6 DEF CastShown
<1> QED BY <1>2, <1>3, <1>4, <1>5, <1>7, <1>8 DEF CastInv

(* What happens around the loop leaves its variables alone.                 *)
LEMMA AroundSteps ==
    ASSUME CastInv,
           \/ \E offer \in TrackOffer : TrackArrives(offer)
           \/ \E n \in DOMAIN tracks : TrackEnds(n)
           \/ VideoTaskEnds
           \/ \E p \in FellowRelay : FellowsChange(p)
           \/ \E role \in Role, hint \in FellowRelay \cup {"me", "none"} : PublishView(role, hint)
    PROVE  CastInv'
<1>1. CASE \E offer \in TrackOffer : TrackArrives(offer)
  <2>1. PICK offer \in CastTrack : TrackArrives(offer)
    BY <1>1, StreamRelayAssumption DEF CastTrack
  <2>2. /\ tracks' = Append(tracks, offer) /\ mediaRx' = Append(mediaRx, Len(tracks) + 1)
        /\ UNCHANGED <<gone, endedRx, loopVars, fellows, watched, castUp>>
    BY <2>1 DEF TrackArrives
  <2>3. tracks \in Seq(CastTrack) /\ mediaRx \in Seq(DOMAIN tracks) /\ replay \in Seq(DOMAIN tracks)
        /\ gone \subseteq DOMAIN tracks
    BY DEF CastInv, CastQueues
  <2>4. /\ tracks' \in Seq(CastTrack) /\ DOMAIN tracks \subseteq DOMAIN tracks'
        /\ Len(tracks) + 1 \in DOMAIN tracks'
        /\ \A i \in DOMAIN tracks : tracks'[i] = tracks[i]
    BY <2>2, <2>3, AppendOf
  <2>5. mediaRx \in Seq(DOMAIN tracks') /\ replay \in Seq(DOMAIN tracks') BY <2>3, <2>4
  <2>6. mediaRx' \in Seq(DOMAIN tracks') BY <2>2, <2>4, <2>5, AppendOf
  <2>7. CastQueues'
    BY <2>2, <2>4, <2>5, <2>6 DEF CastInv, CastQueues, loopVars
  <2>8. CastTypes' BY <2>2 DEF CastInv, CastTypes, loopVars
  <2>9. CastCaches' BY <2>2, <2>4 DEF CastInv, CastCaches, Filed, loopVars
  <2>10. CastLocks' BY <2>2, <2>4 DEF CastInv, CastLocks, loopVars
  <2>11. CastForwards' BY <2>2, <2>4 DEF CastInv, CastForwards, loopVars
  <2>12. CastShown' BY <2>2 DEF CastInv, CastShown, loopVars
  <2> QED BY <2>7, <2>8, <2>9, <2>10, <2>11, <2>12 DEF CastInv
<1>2. ASSUME UNCHANGED <<tracks, mediaRx, endedRx, loopVars, castUp>>,
             gone \subseteq gone', gone' \subseteq DOMAIN tracks, fellows' \subseteq FellowRelay,
             watched' \in [view : CastView, unseen : BOOLEAN]
      PROVE  CastInv'
  <2>1. endedRx \in Seq(gone') BY <1>2 DEF CastInv, CastQueues
  <2>2. CastQueues' BY <1>2, <2>1 DEF CastInv, CastQueues, loopVars
  <2>3. CastTypes' BY <1>2 DEF CastInv, CastTypes, loopVars
  <2>4. CastCaches' BY <1>2 DEF CastInv, CastCaches, Filed, loopVars
  <2>5. CastLocks' BY <1>2 DEF CastInv, CastLocks, loopVars
  <2>6. CastForwards' BY <1>2 DEF CastInv, CastForwards, loopVars
  <2>7. CastShown' BY <1>2 DEF CastInv, CastShown, loopVars
  <2> QED BY <2>2, <2>3, <2>4, <2>5, <2>6, <2>7 DEF CastInv
<1>3. CASE \E n \in DOMAIN tracks : TrackEnds(n)
  BY <1>2, <1>3 DEF TrackEnds, CastInv, CastQueues, CastTypes
<1>4. CASE \E p \in FellowRelay : FellowsChange(p)
  BY <1>2, <1>4 DEF FellowsChange, CastInv, CastQueues, CastTypes
<1>5. CASE \E role \in Role, hint \in FellowRelay \cup {"me", "none"} : PublishView(role, hint)
  <2>1. PICK role \in Role, hint \in FellowRelay \cup {"me", "none"} : PublishView(role, hint)
    BY <1>5
  <2>2. PICK leader : leader = IF hint \in fellows \cup {"me"} THEN hint ELSE "none" OBVIOUS
  <2>3. leader \in FellowRelay \cup {"me", "none"} BY <2>2
  <2>4. fellows \subseteq FellowRelay BY DEF CastInv, CastTypes
  <2>5. watched' = [view |-> [role |-> role, leader |-> leader, peers |-> fellows \cup {"me"}],
                    unseen |-> TRUE]
    BY <2>1, <2>2 DEF PublishView
  <2>6. watched' \in [view : CastView, unseen : BOOLEAN]
    BY <2>3, <2>4, <2>5 DEF CastView, CastRole
  <2>7. UNCHANGED <<tracks, gone, mediaRx, endedRx, loopVars, fellows, castUp>>
    BY <2>1 DEF PublishView
  <2>8. gone \subseteq DOMAIN tracks BY DEF CastInv, CastQueues
  <2> QED BY <1>2, <2>4, <2>6, <2>7, <2>8
<1>6. CASE VideoTaskEnds
  <2>1. /\ forwarding.video \in gone /\ forwarding' = [forwarding EXCEPT !.over = TRUE]
        /\ endedRx' = Append(endedRx, forwarding.video)
        /\ UNCHANGED <<tracks, gone, mediaRx, lock, cache, replay, fellows, watched, currentView,
                       policy, waiting, republish, shown, castUp, released>>
    BY <1>6 DEF VideoTaskEnds
  <2>2. endedRx' \in Seq(gone) BY <2>1, AppendOf DEF CastInv, CastQueues
  <2>3. CastQueues' BY <2>1, <2>2 DEF CastInv, CastQueues
  <2>4. CastTypes' BY <2>1 DEF CastInv, CastTypes
  <2>5. CastCaches' BY <2>1 DEF CastInv, CastCaches, Filed
  <2>6. CastLocks' BY <2>1 DEF CastInv, CastLocks
  <2>7. forwarding # NoTasks
    <3>1. 0 \notin DOMAIN tracks BY DEF CastInv, CastQueues
    <3>2. forwarding.video # 0 BY <2>1, <3>1 DEF CastInv, CastQueues
    <3> QED BY <3>2 DEF NoTasks
  <2>8. forwarding' \in [video : Nat, audio : Nat, over : BOOLEAN]
        /\ forwarding'.video = forwarding.video /\ forwarding'.audio = forwarding.audio
    BY <2>1 DEF CastInv, CastForwards
  <2>9. CastForwards' BY <2>1, <2>7, <2>8 DEF CastInv, CastForwards
  <2>10. CastShown' BY <2>1 DEF CastInv, CastShown
  <2> QED BY <2>3, <2>4, <2>5, <2>6, <2>9, <2>10 DEF CastInv
<1> QED BY <1>1, <1>3, <1>4, <1>5, <1>6

LEMMA CastInvariant == CastSpec => []CastInv
<1>1. CastInit => CastInv
  <2> SUFFICES ASSUME CastInit PROVE CastInv OBVIOUS
  <2>1. tracks = <<>> /\ DOMAIN tracks = {} /\ <<>> \in Seq(CastTrack) /\ <<>> \in Seq({})
    BY DEF CastInit
  <2>2. CastQueues BY <2>1 DEF CastInit, CastQueues
  <2>3. currentView \in CastView
    BY DEF CastInit, FirstView, CastView, CastRole, Role
  <2>4. CastTypes BY <2>3 DEF CastInit, CastTypes
  <2>5. CastCaches BY DEF CastInit, CastCaches, CastCache, Filed, NoTracks
  <2>6. CastLocks BY DEF CastInit, CastLocks
  <2>7. CastForwards BY DEF CastInit, CastForwards, NoTasks, NotWaiting
  <2>8. CastShown BY DEF CastInit, CastShown, NotWaiting
  <2> QED BY <2>2, <2>4, <2>5, <2>6, <2>7, <2>8 DEF CastInv
<1>2. CastInv /\ [CastNext]_castVars => CastInv'
  <2>1. CastInv /\ UNCHANGED castVars => CastInv'
    BY DEF castVars, CastInv, CastQueues, CastTypes, CastCaches, Filed, CastLocks, CastForwards,
           CastShown
  <2>2. CastInv /\ CastNext => CastInv'
    BY AroundSteps, TakeSteps, TakeEndedSteps, TakeViewSteps, PruneSteps, PublishSteps,
       UnpublishSteps, CastStopSteps DEF CastNext
  <2> QED BY <2>1, <2>2
<1> QED BY <1>1, <1>2, PTL DEF CastSpec

-----------------------------------------------------------------------------
(***************************************************************************)
(* The video of a share: while no keyframe is awaited, what was read since *)
(* the last unit sent has no gap.  k is the packet read last, of which the *)
(* task knows only the sequence number.                                    *)
(***************************************************************************)
(* What has come of an access unit once packet k is read.                   *)
Upto(au, k) == {i \in WholeUnit(au) : i <= k}

(* Nothing of a later unit has come.                                        *)
Reached(au, k) == \A i \in DOMAIN Packet : i <= k /\ Packet[i].payload # "padding" => Packet[i].au <= au

(* The unit was sent, or is one of those that are too large.                *)
Settled(S, au) == (\E r \in S : r.au = au) \/ Cardinality(WholeUnit(au)) > MaxAuSize

VideoUnit == [ts : Nat, buf : SUBSET DOMAIN Packet, dropping : BOOLEAN]

(* The buffers after packet k, with or without a keyframe to wait for.      *)
UnitAt(k, u) ==
    /\ u \in VideoUnit
    /\ u.ts = 0 => u = NoUnit
    /\ u.ts # 0 =>
          /\ Reached(u.ts, k) /\ Upto(u.ts, k) # {} /\ u.buf \subseteq Upto(u.ts, k)
          /\ u.dropping => Cardinality(WholeUnit(u.ts)) > MaxAuSize

FragmentsAt(k, frags, u, wait) ==
    /\ frags # {} => /\ frags = {k} /\ k \in DOMAIN Packet /\ Packet[k].payload = "start"
                     /\ u.ts = Packet[k].au
    /\ k \in DOMAIN Packet /\ Packet[k].payload = "start" /\ frags = {} => wait /\ u.ts = 0

(* SentDecodable, of the units S.                                           *)
Decodable(S) ==
    \A s \in S : ~HasIdr(s.buf) => s.buf = WholeUnit(s.au) /\ Settled(S, s.au - 1)

(* No keyframe is awaited: nothing is missing of the unit in progress or,   *)
(* between two units, of the last one, and what came before is settled.     *)
Unbroken(S, k, frags, u) ==
    IF u.ts = 0
    THEN \E au \in Nat : /\ Reached(au, k) /\ Upto(au, k) = WholeUnit(au) /\ WholeUnit(au) # {}
                         /\ Settled(S, au)
    ELSE Settled(S, u.ts - 1) /\ (~u.dropping => u.buf \cup frags = Upto(u.ts, k))

BuffersAt(S, k, frags, u, wait) ==
    UnitAt(k, u) /\ FragmentsAt(k, frags, u, wait) /\ (~wait => Unbroken(S, k, frags, u))

(* The packet read last is near enough that its sequence number tells the   *)
(* next one.                                                                *)
LastRead(k) ==
    /\ k \in DOMAIN Packet /\ lastSeq = sequence_number(k)
    /\ k < coming /\ coming <= k + MaxLate + lost + 1

VideoInv ==
    /\ coming \in Nat \ {0} /\ lost \in 0..MaxLost /\ awaiting \in BOOLEAN
    /\ late \subseteq DOMAIN Packet /\ \A i \in late : i < coming
    /\ IF lastSeq = NoSeq THEN fragments = {} /\ unit = NoUnit /\ awaiting
       ELSE \E k \in DOMAIN Packet : LastRead(k) /\ BuffersAt(sent, k, fragments, unit, awaiting)
    /\ SentDecodable

(* What the stream of the sender is assumed to be.                          *)
LEMMA StreamOf ==
    ASSUME NEW i \in DOMAIN Packet
    PROVE  /\ i \in Nat \ {0} /\ Packet[i].au \in Nat \ {0}
           /\ Packet[i].payload \in Payload /\ Packet[i].marker \in BOOLEAN
           /\ \A j \in DOMAIN Packet : i < j => Packet[i].au <= Packet[j].au
           /\ \A au \in 1..Packet[i].au : WholeUnit(au) # {}
           /\ Packet[i].payload = "start" =>
                 /\ i + 1 \in DOMAIN Packet /\ Packet[i + 1].payload = "end"
                 /\ Packet[i + 1].au = Packet[i].au /\ ~Packet[i].marker
           /\ Packet[i].payload = "end" => i # 1 /\ Packet[i - 1].payload = "start"
           /\ Packet[i].marker /\ Packet[i].payload # "padding" =>
                 \A j \in WholeUnit(Packet[i].au) : j <= i
<1>1. Packet[i] \in [au : Nat \ {0}, idr : BOOLEAN, marker : BOOLEAN, payload : Payload]
      /\ i \in Nat \ {0}
  <2> DEFINE R == [au : Nat \ {0}, idr : BOOLEAN, marker : BOOLEAN, payload : Payload]
  <2>1. Packet \in Seq(R) BY StreamVideoAssumption
  <2> HIDE DEF R
  <2>2. DOMAIN Packet = 1..Len(Packet) /\ Len(Packet) \in Nat /\ Packet[i] \in R BY <2>1
  <2>3. i \in Nat \ {0} BY <2>2
  <2> QED BY <2>2, <2>3 DEF R
<1>2. SentInOrder BY StreamVideoAssumption
<1> QED BY <1>1, <1>2 DEF SentInOrder

LEMMA UnitFinite ==
    ASSUME NEW au, NEW part_, part_ \subseteq WholeUnit(au)
    PROVE  /\ IsFiniteSet(WholeUnit(au)) /\ IsFiniteSet(part_)
           /\ Cardinality(part_) \in Nat /\ Cardinality(WholeUnit(au)) \in Nat
           /\ Cardinality(part_) <= Cardinality(WholeUnit(au))
<1>1. DOMAIN Packet = 1..Len(Packet) /\ Len(Packet) \in Nat BY StreamVideoAssumption
<1>2. IsFiniteSet(DOMAIN Packet) BY <1>1, FS_Interval
<1>3. WholeUnit(au) \subseteq DOMAIN Packet BY DEF WholeUnit
<1>4. IsFiniteSet(WholeUnit(au)) BY <1>2, <1>3, FS_Subset
<1> QED BY <1>4, FS_Subset, FS_CardinalityType

(* Two numbers less than a range apart are told apart by their remainders.  *)
LEMMA NextNumber ==
    ASSUME NEW m \in Nat \ {0}, NEW a \in Nat, NEW b \in Nat,
           a % m = ((b % m) + 1) % m, a < b + 1 + m, b + 1 < a + m
    PROVE  a = b + 1
<1>1. PICK x \in Nat : a = m * x + (a % m) BY RemainderOf
<1>2. PICK y \in Nat : b = m * y + (b % m) BY RemainderOf
<1>3. b % m \in 0..(m - 1) /\ a % m \in 0..(m - 1) BY RemainderRange
<1>4. (b % m) + 1 \in Nat BY <1>3
<1>5. PICK z \in Nat : (b % m) + 1 = m * z + (((b % m) + 1) % m) BY <1>4, RemainderOf
<1>6. PICK r \in 0..(m - 1) : r = a % m BY <1>3
<1>7. PICK w \in Nat : w = y + z OBVIOUS
<1>8. m * w = m * y + m * z BY <1>7
<1>9. m * w \in Nat /\ m * x \in Nat /\ m * y \in Nat /\ m * z \in Nat OBVIOUS
<1>10. a = m * x + r BY <1>1, <1>6
<1>11. b + 1 = m * w + r
  <2> DEFINE my == m * y
             mz == m * z
             mw == m * w
             s == b % m
  <2>1. b = my + s /\ s + 1 = mz + r /\ mw = my + mz BY <1>2, <1>5, <1>6, <1>8
  <2>2. my \in Nat /\ mz \in Nat /\ mw \in Nat /\ s \in Nat BY <1>3, <1>9
  <2> HIDE DEF my, mz, mw, s
  <2>3. b + 1 = mw + r BY <2>1, <2>2
  <2> QED BY <2>3 DEF mw
<1>12. CASE x < w
  <2>1. m * x + m <= m * w BY <1>12, TimesGap
  <2> DEFINE mx == m * x
             mw == m * w
  <2>2. mx + m <= mw /\ a = mx + r /\ b + 1 = mw + r /\ mx \in Nat /\ mw \in Nat
    BY <1>9, <1>10, <1>11, <2>1
  <2> HIDE DEF mx, mw
  <2> QED BY <2>2
<1>13. CASE w < x
  <2>1. m * w + m <= m * x BY <1>13, TimesGap
  <2> DEFINE mx == m * x
             mw == m * w
  <2>2. mw + m <= mx /\ a = mx + r /\ b + 1 = mw + r /\ mx \in Nat /\ mw \in Nat
    BY <1>9, <1>10, <1>11, <2>1
  <2> HIDE DEF mx, mw
  <2> QED BY <2>2
<1>14. CASE w = x BY <1>10, <1>11, <1>14
<1> QED BY <1>12, <1>13, <1>14

(* The first packet of the unit after one that came to its end.             *)
LEMMA NextUnit ==
    ASSUME NEW i \in DOMAIN Packet, Packet[i].payload # "padding", NEW au \in Nat,
           Reached(au, i - 1), Upto(au, i - 1) # {}, Packet[i].au # au
    PROVE  /\ Packet[i].au = au + 1 /\ Upto(Packet[i].au, i) = {i}
           /\ Upto(au, i - 1) = WholeUnit(au)
<1>1. i \in Nat \ {0} /\ Packet[i].au \in Nat \ {0} BY StreamOf
<1>2. PICK j \in WholeUnit(au) : j <= i - 1 BY DEF Upto
<1>3. j \in DOMAIN Packet /\ Packet[j].au = au /\ j \in Nat BY <1>2, StreamOf DEF WholeUnit
<1>4. j < i BY <1>1, <1>2, <1>3
<1>5. au <= Packet[i].au BY <1>3, <1>4, StreamOf
<1>6. au < Packet[i].au BY <1>1, <1>5
<1>7. \A x \in DOMAIN Packet : Packet[x].payload # "padding" /\ Packet[x].au > au => i <= x
  <2> SUFFICES ASSUME NEW x \in DOMAIN Packet, Packet[x].payload # "padding", Packet[x].au > au,
                      ~(i <= x)
               PROVE  FALSE
    OBVIOUS
  <2>1. x \in Nat /\ Packet[x].au \in Nat BY StreamOf
  <2>2. x <= i - 1 BY <1>1, <2>1
  <2> QED BY <2>1, <2>2 DEF Reached
<1>8. Packet[i].au = au + 1
  <2> SUFFICES ASSUME Packet[i].au # au + 1 PROVE FALSE OBVIOUS
  <2>1. au + 1 \in 1..Packet[i].au /\ au + 1 < Packet[i].au BY <1>1, <1>6
  <2>2. PICK x \in WholeUnit(au + 1) : TRUE BY <2>1, StreamOf
  <2>3. x \in DOMAIN Packet /\ Packet[x].au = au + 1 /\ Packet[x].payload # "padding"
    BY <2>2 DEF WholeUnit
  <2>4. i <= x /\ x \in Nat /\ Packet[x].au \in Nat BY <1>7, <2>3, StreamOf
  <2>5. i # x BY <2>1, <2>3
  <2>6. i < x BY <1>1, <2>4, <2>5
  <2>7. Packet[i].au <= Packet[x].au BY <2>3, <2>6, StreamOf
  <2> QED BY <1>1, <2>1, <2>3, <2>7
<1>9. Upto(Packet[i].au, i) = {i}
  <2>1. i \in Upto(Packet[i].au, i) BY <1>1 DEF Upto, WholeUnit
  <2>2. ASSUME NEW x \in Upto(Packet[i].au, i) PROVE x = i
    <3>1. x \in DOMAIN Packet /\ Packet[x].au = Packet[i].au /\ Packet[x].payload # "padding" /\ x <= i
      BY <2>2 DEF Upto, WholeUnit
    <3>2. x \in Nat BY <3>1, StreamOf
    <3>3. i <= x BY <1>1, <1>6, <1>7, <3>1
    <3> QED BY <1>1, <3>1, <3>2, <3>3
  <2> QED BY <2>1, <2>2
<1>10. \A x \in WholeUnit(au) : x <= i - 1
  <2> SUFFICES ASSUME NEW x \in WholeUnit(au), ~(x <= i - 1) PROVE FALSE OBVIOUS
  <2>1. x \in DOMAIN Packet /\ Packet[x].au = au /\ x \in Nat BY StreamOf DEF WholeUnit
  <2>2. x # i BY <2>1
  <2>3. i < x BY <1>1, <2>1, <2>2
  <2>4. Packet[i].au <= Packet[x].au BY <2>1, <2>3, StreamOf
  <2> QED BY <1>1, <1>6, <2>1, <2>4
<1> QED BY <1>8, <1>9, <1>10 DEF Upto

(* Reading on within a unit.                                                *)
LEMMA ReadOn ==
    ASSUME NEW i \in DOMAIN Packet, Packet[i].payload # "padding"
    PROVE  /\ Reached(Packet[i].au, i) /\ i \in Upto(Packet[i].au, i)
           /\ Upto(Packet[i].au, i) = Upto(Packet[i].au, i - 1) \cup {i}
           /\ Packet[i].marker => Upto(Packet[i].au, i) = WholeUnit(Packet[i].au)
<1>1. i \in Nat \ {0} /\ Packet[i].au \in Nat \ {0} BY StreamOf
<1>2. Reached(Packet[i].au, i)
  <2> SUFFICES ASSUME NEW x \in DOMAIN Packet, x <= i PROVE Packet[x].au <= Packet[i].au
    BY DEF Reached
  <2>1. x \in Nat /\ Packet[x].au \in Nat BY StreamOf
  <2>2. CASE x = i BY <1>1, <2>2
  <2>3. CASE x < i BY <2>3, StreamOf
  <2> QED BY <1>1, <2>1, <2>2, <2>3
<1>3. i \in WholeUnit(Packet[i].au) BY DEF WholeUnit
<1>4. \A x \in WholeUnit(Packet[i].au) : x \in Nat BY StreamOf DEF WholeUnit
<1>5. Upto(Packet[i].au, i) = Upto(Packet[i].au, i - 1) \cup {i}
  BY <1>1, <1>3, <1>4 DEF Upto
<1>6. Packet[i].marker => \A j \in WholeUnit(Packet[i].au) : j <= i BY StreamOf
<1> QED BY <1>1, <1>2, <1>3, <1>5, <1>6 DEF Upto

(* What depacketize gives the assembler: with the fragment that waits, all  *)
(* of packet i is in the chunk or waits itself.                             *)
Chunked(i, frags, u, wait, d) ==
    /\ d.chunk \cup d.frags = frags \cup {i} /\ d.chunk \subseteq WholeUnit(Packet[i].au)
    /\ d.frags = IF Packet[i].payload = "start" THEN {i} ELSE {}
    /\ Packet[i].payload # "start" => i \in d.chunk
    /\ frags # {} => u.ts = Packet[i].au

LEMMA ChunkOf ==
    ASSUME NEW i \in DOMAIN Packet, Packet[i].payload # "padding", NEW frags, NEW u, NEW wait,
           FragmentsAt(i - 1, frags, u, wait), NEW d \in Depacketized(frags, i), d.ok
    PROVE  Chunked(i, frags, u, wait, d)
<1> SUFFICES /\ d.chunk \cup d.frags = frags \cup {i} /\ d.chunk \subseteq WholeUnit(Packet[i].au)
             /\ d.frags = IF Packet[i].payload = "start" THEN {i} ELSE {}
             /\ Packet[i].payload # "start" => i \in d.chunk
             /\ frags # {} => u.ts = Packet[i].au
  BY DEF Chunked
<1>0. i \in Nat \ {0} /\ Packet[i].payload \in {"whole", "start", "end"}
  BY StreamOf DEF Payload
<1>1. ASSUME frags # {}
      PROVE  /\ frags = {i - 1} /\ Packet[i].payload = "end" /\ u.ts = Packet[i].au
             /\ frags \subseteq WholeUnit(Packet[i].au)
  <2>1. frags = {i - 1} /\ i - 1 \in DOMAIN Packet /\ Packet[i - 1].payload = "start"
        /\ u.ts = Packet[i - 1].au
    BY <1>1 DEF FragmentsAt
  <2>2. Packet[(i - 1) + 1].payload = "end" /\ Packet[(i - 1) + 1].au = Packet[i - 1].au
    BY <2>1, StreamOf
  <2>3. (i - 1) + 1 = i BY <1>0
  <2>4. Packet[i].payload = "end" /\ Packet[i].au = Packet[i - 1].au BY <2>2, <2>3
  <2> QED BY <2>1, <2>4 DEF WholeUnit
<1>2. i \in WholeUnit(Packet[i].au) BY DEF WholeUnit
<1>3. CASE Packet[i].payload = "whole"
  <2>1. frags = {} BY <1>1, <1>3
  <2>2. Depacketized(frags, i) = {[chunk |-> {i}, frags |-> frags, ok |-> TRUE]}
    BY <1>3 DEF Depacketized
  <2>3. d.chunk = {i} /\ d.frags = frags BY <2>2
  <2> QED BY <1>2, <1>3, <2>1, <2>3
<1>4. CASE Packet[i].payload = "start"
  <2>1. frags = {} BY <1>1, <1>4
  <2>2. Depacketized(frags, i) = {[chunk |-> {}, frags |-> {i}, ok |-> TRUE]}
    BY <1>4 DEF Depacketized
  <2>3. d.chunk = {} /\ d.frags = {i} BY <2>2
  <2> QED BY <1>4, <2>1, <2>3
<1>5. CASE Packet[i].payload = "end"
  <2>1. Depacketized(frags, i) =
            {[chunk |-> frags \cup {i}, frags |-> {}, ok |-> TRUE]}
            \cup (IF frags = {} THEN {[chunk |-> {}, frags |-> {}, ok |-> FALSE]} ELSE {})
    BY <1>5 DEF Depacketized
  <2>2. d.chunk = frags \cup {i} /\ d.frags = {} BY <2>1
  <2> QED BY <1>1, <1>2, <1>5, <2>2
<1> QED BY <1>0, <1>3, <1>4, <1>5

(* The assembler's unit in progress, grown by a chunk.                      *)
GrownUnit(u, i, chunk) == Grown(CloseBefore(u, Packet[i].au), Packet[i].au, chunk)

Grows(i, u, chunk, g) ==
    /\ UnitAt(i, g) /\ g.ts = Packet[i].au
    /\ g.dropping => g.buf = {}
    /\ ~g.dropping => IF u.ts = Packet[i].au THEN ~u.dropping /\ g.buf = u.buf \cup chunk
                      ELSE g.buf = chunk

LEMMA GrownOf ==
    ASSUME NEW i \in DOMAIN Packet, Packet[i].payload # "padding", NEW u, UnitAt(i - 1, u),
           NEW chunk, chunk \subseteq WholeUnit(Packet[i].au), chunk \subseteq Upto(Packet[i].au, i)
    PROVE  Grows(i, u, chunk, GrownUnit(u, i, chunk))
<1>g. PICK g : g = GrownUnit(u, i, chunk) OBVIOUS
<1> SUFFICES /\ UnitAt(i, g) /\ g.ts = Packet[i].au
             /\ g.dropping => g.buf = {}
             /\ ~g.dropping => IF u.ts = Packet[i].au THEN ~u.dropping /\ g.buf = u.buf \cup chunk
                               ELSE g.buf = chunk
  BY <1>g DEF Grows
<1>1. i \in Nat \ {0} /\ Packet[i].au \in Nat \ {0} BY StreamOf
<1>2. /\ Reached(Packet[i].au, i) /\ i \in Upto(Packet[i].au, i)
      /\ Upto(Packet[i].au, i) = Upto(Packet[i].au, i - 1) \cup {i}
  BY ReadOn
<1>3. PICK b : b = CloseBefore(u, Packet[i].au) OBVIOUS
<1>4. /\ IF u.ts = Packet[i].au THEN b = u ELSE b = NoUnit
      /\ b.buf \subseteq Upto(Packet[i].au, i) /\ b.dropping \in BOOLEAN
      /\ b.dropping => Cardinality(WholeUnit(Packet[i].au)) > MaxAuSize
  <2>1. CASE u.ts = Packet[i].au
    <3>1. b = u BY <1>3, <2>1 DEF CloseBefore
    <3>2. u.buf \subseteq Upto(Packet[i].au, i - 1) /\ u.dropping \in BOOLEAN
          /\ (u.dropping => Cardinality(WholeUnit(Packet[i].au)) > MaxAuSize)
      BY <1>1, <2>1 DEF UnitAt, VideoUnit
    <3> QED BY <1>2, <2>1, <3>1, <3>2
  <2>2. CASE u.ts # Packet[i].au
    <3>1. b = NoUnit BY <1>3, <2>2 DEF CloseBefore, UnitAt
    <3> QED BY <2>2, <3>1 DEF NoUnit
  <2> QED BY <2>1, <2>2
<1>5. Upto(Packet[i].au, i) \subseteq WholeUnit(Packet[i].au) /\ WholeUnit(Packet[i].au) \subseteq DOMAIN Packet
  BY DEF Upto, WholeUnit
<1>6. b.buf \cup chunk \subseteq WholeUnit(Packet[i].au) BY <1>4, <1>5
<1>7. /\ Cardinality(b.buf \cup chunk) \in Nat /\ Cardinality(WholeUnit(Packet[i].au)) \in Nat
      /\ Cardinality(b.buf \cup chunk) <= Cardinality(WholeUnit(Packet[i].au))
  BY <1>6, UnitFinite
<1>8. CASE b.dropping \/ Cardinality(b.buf \cup chunk) > MaxAuSize
  <2>1. g = [ts |-> Packet[i].au, buf |-> {}, dropping |-> TRUE] BY <1>3, <1>8, <1>g DEF Grown, GrownUnit
  <2>2. Cardinality(WholeUnit(Packet[i].au)) > MaxAuSize
    BY <1>4, <1>7, <1>8, StreamVideoAssumption
  <2>3. g \in VideoUnit /\ g.ts = Packet[i].au /\ g.buf = {} /\ g.dropping
    BY <1>1, <2>1 DEF VideoUnit
  <2> QED BY <1>1, <1>2, <2>2, <2>3 DEF UnitAt
<1>9. CASE ~(b.dropping \/ Cardinality(b.buf \cup chunk) > MaxAuSize)
  <2>1. g = [ts |-> Packet[i].au, buf |-> b.buf \cup chunk, dropping |-> FALSE]
    BY <1>3, <1>9, <1>g DEF Grown, GrownUnit
  <2>2. g \in VideoUnit /\ g.ts = Packet[i].au /\ g.buf = b.buf \cup chunk /\ ~g.dropping
    BY <1>1, <1>5, <1>6, <2>1 DEF VideoUnit
  <2>3. UnitAt(i, g) BY <1>1, <1>2, <1>4, <2>2 DEF UnitAt
  <2>4. IF u.ts = Packet[i].au THEN ~u.dropping /\ g.buf = u.buf \cup chunk ELSE g.buf = chunk
    BY <1>4, <1>9, <2>2 DEF NoUnit
  <2> QED BY <2>2, <2>3, <2>4
<1> QED BY <1>8, <1>9

(* The units a packet completes, in order, and which of them are sent.      *)
LEMMA PrefixOf ==
    ASSUME NEW T, NEW s \in Seq(T), NEW j \in 1..Len(s)
    PROVE  /\ DOMAIN SubSeq(s, 1, j) = 1..j /\ \A k \in 1..j : SubSeq(s, 1, j)[k] = s[k]
OBVIOUS

LEMMA SentOne ==
    ASSUME NEW b, NEW wait \in BOOLEAN, NEW s \in Seq({b}), Len(s) = 1
    PROVE  /\ KeyframeSeen(s) <=> HasIdr(b.buf)
           /\ SentOf(s, wait) = IF ~wait \/ HasIdr(b.buf) THEN {b} ELSE {}
<1>1. DOMAIN s = {1} /\ s[1] = b OBVIOUS
<1>2. KeyframeSeen(s) <=> HasIdr(b.buf) BY <1>1 DEF KeyframeSeen
<1>3. 1 \in 1..Len(s) /\ 1..1 = {1} OBVIOUS
<1>4. DOMAIN SubSeq(s, 1, 1) = {1} /\ SubSeq(s, 1, 1)[1] = b BY <1>1, <1>3, PrefixOf
<1>5. KeyframeSeen(SubSeq(s, 1, 1)) <=> HasIdr(b.buf) BY <1>4 DEF KeyframeSeen
<1> QED BY <1>1, <1>2, <1>5 DEF SentOf

LEMMA SentTwo ==
    ASSUME NEW T, NEW wait \in BOOLEAN, NEW s \in Seq(T), Len(s) = 2
    PROVE  /\ KeyframeSeen(s) <=> HasIdr(s[1].buf) \/ HasIdr(s[2].buf)
           /\ SentOf(s, wait) = (IF ~wait \/ HasIdr(s[1].buf) THEN {s[1]} ELSE {})
                 \cup (IF ~wait \/ HasIdr(s[1].buf) \/ HasIdr(s[2].buf) THEN {s[2]} ELSE {})
<1>b. PICK b : b = s[1] OBVIOUS
<1>n. PICK n : n = s[2] OBVIOUS
<1> SUFFICES /\ KeyframeSeen(s) <=> HasIdr(b.buf) \/ HasIdr(n.buf)
             /\ SentOf(s, wait) = (IF ~wait \/ HasIdr(b.buf) THEN {b} ELSE {})
                   \cup (IF ~wait \/ HasIdr(b.buf) \/ HasIdr(n.buf) THEN {n} ELSE {})
  BY <1>b, <1>n
<1>1. DOMAIN s = {1, 2} OBVIOUS
<1>2. KeyframeSeen(s) <=> HasIdr(b.buf) \/ HasIdr(n.buf) BY <1>1, <1>b, <1>n DEF KeyframeSeen
<1>3. 1 \in 1..Len(s) /\ 2 \in 1..Len(s) /\ 1..1 = {1} /\ 1..2 = {1, 2} OBVIOUS
<1>4. DOMAIN SubSeq(s, 1, 1) = {1} /\ SubSeq(s, 1, 1)[1] = b BY <1>3, <1>b, PrefixOf
<1>5. DOMAIN SubSeq(s, 1, 2) = {1, 2} /\ SubSeq(s, 1, 2)[1] = b /\ SubSeq(s, 1, 2)[2] = n
  BY <1>3, <1>b, <1>n, PrefixOf
<1>6. KeyframeSeen(SubSeq(s, 1, 1)) <=> HasIdr(b.buf) BY <1>4 DEF KeyframeSeen
<1>7. KeyframeSeen(SubSeq(s, 1, 2)) <=> HasIdr(b.buf) \/ HasIdr(n.buf) BY <1>5 DEF KeyframeSeen
<1> QED BY <1>1, <1>b, <1>n, <1>2, <1>6, <1>7 DEF SentOf

(* What a packet completes: the unit before it, if a new one begins, and    *)
(* its own, if it has the marker.                                           *)
Closes(u, i) == u.ts \notin {0, Packet[i].au} /\ ~u.dropping /\ u.buf # {}
Ends(g, i) == Packet[i].marker /\ ~g.dropping /\ g.buf # {}
UnitOf(u) == [au |-> u.ts, buf |-> u.buf]

Completes(u, i, g, wait, units) ==
    /\ KeyframeSeen(units) <=>
          (Closes(u, i) /\ HasIdr(u.buf)) \/ (Ends(g, i) /\ HasIdr(g.buf))
    /\ \A s : s \in SentOf(units, wait) <=>
          \/ Closes(u, i) /\ (~wait \/ HasIdr(u.buf)) /\ s = UnitOf(u)
          \/ /\ Ends(g, i) /\ s = UnitOf(g)
             /\ ~wait \/ HasIdr(g.buf) \/ (Closes(u, i) /\ HasIdr(u.buf))

LEMMA CompletedOf ==
    ASSUME NEW i \in DOMAIN Packet, NEW u, NEW chunk, NEW wait \in BOOLEAN
    PROVE  Completes(u, i, GrownUnit(u, i, chunk), wait, Completed(u, i, chunk))
<1>g. PICK g : g = GrownUnit(u, i, chunk) OBVIOUS
<1>t. g.ts = Packet[i].au BY <1>g DEF GrownUnit, Grown
<1> SUFFICES Completes(u, i, g, wait, Completed(u, i, chunk)) BY <1>g
<1>1. PICK b : b = UnitOf(u) OBVIOUS
<1>2. PICK n : n = UnitOf(g) OBVIOUS
<1>3. b.buf = u.buf /\ n.buf = g.buf BY <1>1, <1>2 DEF UnitOf
<1>4. PICK units : units = Completed(u, i, chunk) OBVIOUS
<1>5. CASE Closes(u, i) /\ Ends(g, i)
  <2>1. units = <<b>> \o <<n>> BY <1>1, <1>2, <1>4, <1>5, <1>g, <1>t DEF Completed, GrownUnit, Closes, Ends, UnitOf
  <2>2. <<b>> \in Seq({b, n}) /\ <<n>> \in Seq({b, n}) OBVIOUS
  <2>3. units \in Seq({b, n}) /\ Len(units) = 2 /\ units[1] = b /\ units[2] = n
    BY <2>1, <2>2, ConcatOf
  <2>5. /\ KeyframeSeen(units) <=> HasIdr(units[1].buf) \/ HasIdr(units[2].buf)
        /\ SentOf(units, wait) = (IF ~wait \/ HasIdr(units[1].buf) THEN {units[1]} ELSE {})
              \cup (IF ~wait \/ HasIdr(units[1].buf) \/ HasIdr(units[2].buf) THEN {units[2]} ELSE {})
    <3>1. units \in Seq({b, n}) /\ Len(units) = 2 BY <2>3
    <3> QED BY <3>1, SentTwo
  <2>4. /\ KeyframeSeen(units) <=> HasIdr(b.buf) \/ HasIdr(n.buf)
        /\ SentOf(units, wait) = (IF ~wait \/ HasIdr(b.buf) THEN {b} ELSE {})
              \cup (IF ~wait \/ HasIdr(b.buf) \/ HasIdr(n.buf) THEN {n} ELSE {})
    BY <2>3, <2>5
  <2> QED BY <1>1, <1>2, <1>3, <1>4, <1>5, <2>4 DEF Completes
<1>6. CASE Closes(u, i) /\ ~Ends(g, i)
  <2>1. units = <<b>> \o <<>> BY <1>1, <1>4, <1>6, <1>g, <1>t DEF Completed, GrownUnit, Closes, Ends, UnitOf
  <2>2. <<b>> \in Seq({b}) /\ <<>> \in Seq({b}) OBVIOUS
  <2>3. units \in Seq({b}) /\ Len(units) = 1 BY <2>1, <2>2, ConcatOf
  <2>4. /\ KeyframeSeen(units) <=> HasIdr(b.buf)
        /\ SentOf(units, wait) = IF ~wait \/ HasIdr(b.buf) THEN {b} ELSE {}
    BY <2>3, SentOne
  <2> QED BY <1>1, <1>2, <1>3, <1>4, <1>6, <2>4 DEF Completes
<1>7. CASE ~Closes(u, i) /\ Ends(g, i)
  <2>1. units = <<>> \o <<n>> BY <1>2, <1>4, <1>7, <1>g, <1>t DEF Completed, GrownUnit, Closes, Ends, UnitOf
  <2>2. <<n>> \in Seq({n}) /\ <<>> \in Seq({n}) OBVIOUS
  <2>3. units \in Seq({n}) /\ Len(units) = 1 BY <2>1, <2>2, ConcatOf
  <2>4. /\ KeyframeSeen(units) <=> HasIdr(n.buf)
        /\ SentOf(units, wait) = IF ~wait \/ HasIdr(n.buf) THEN {n} ELSE {}
    BY <2>3, SentOne
  <2> QED BY <1>1, <1>2, <1>3, <1>4, <1>7, <2>4 DEF Completes
<1>8. CASE ~Closes(u, i) /\ ~Ends(g, i)
  <2>1. units = <<>> \o <<>> BY <1>4, <1>8, <1>g, <1>t DEF Completed, GrownUnit, Closes, Ends
  <2>2. DOMAIN units = {} BY <2>1
  <2>3. ~KeyframeSeen(units) /\ SentOf(units, wait) = {} BY <2>2 DEF KeyframeSeen, SentOf
  <2> QED BY <1>4, <1>8, <2>3 DEF Completes
<1> QED BY <1>5, <1>6, <1>7, <1>8

(* Packet i goes to the assembler: the units it completes are decodable,    *)
(* and the buffers are again as they were.                                  *)
LEMMA PushSteps ==
    ASSUME NEW S, Decodable(S), NEW i \in DOMAIN Packet, Packet[i].payload # "padding",
           NEW frags, NEW u, NEW wait \in BOOLEAN, BuffersAt(S, i - 1, frags, u, wait),
           NEW d \in Depacketized(frags, i), d.ok,
           NEW w2 \in BOOLEAN, w2 <=> wait /\ ~KeyframeSeen(Completed(u, i, d.chunk)),
           NEW S2, S2 = S \cup SentOf(Completed(u, i, d.chunk), wait)
    PROVE  Decodable(S2) /\ BuffersAt(S2, i, d.frags, PushedUnit(u, i, d.chunk), w2)
<1>0. PICK ts : ts = Packet[i].au OBVIOUS
<1>1. i \in Nat \ {0} /\ ts \in Nat \ {0} BY <1>0, StreamOf
<1>2. UnitAt(i - 1, u) /\ FragmentsAt(i - 1, frags, u, wait) /\ (~wait => Unbroken(S, i - 1, frags, u))
  BY DEF BuffersAt
<1>3. /\ d.chunk \cup d.frags = frags \cup {i} /\ d.chunk \subseteq WholeUnit(ts)
      /\ d.frags = IF Packet[i].payload = "start" THEN {i} ELSE {}
      /\ Packet[i].payload # "start" => i \in d.chunk
      /\ frags # {} => u.ts = ts
  <2>1. Chunked(i, frags, u, wait, d) BY <1>2, ChunkOf
  <2> QED BY <1>0, <2>1 DEF Chunked
<1>4. /\ Reached(ts, i) /\ i \in Upto(ts, i) /\ Upto(ts, i) = Upto(ts, i - 1) \cup {i}
      /\ Packet[i].marker => Upto(ts, i) = WholeUnit(ts)
  BY <1>0, ReadOn
<1>5. d.chunk \subseteq Upto(ts, i)
  <2>1. frags \subseteq {i - 1} BY <1>2 DEF FragmentsAt
  <2>2. \A x \in d.chunk : x = i - 1 \/ x = i BY <1>3, <2>1
  <2>3. i - 1 <= i /\ i <= i BY <1>1
  <2> QED BY <1>3, <2>2, <2>3 DEF Upto
<1>6. PICK g : g = GrownUnit(u, i, d.chunk) OBVIOUS
<1>7. /\ UnitAt(i, g) /\ g.ts = ts
      /\ g.dropping => g.buf = {}
      /\ ~g.dropping => IF u.ts = ts THEN ~u.dropping /\ g.buf = u.buf \cup d.chunk
                        ELSE g.buf = d.chunk
  <2>1. d.chunk \subseteq WholeUnit(Packet[i].au) /\ d.chunk \subseteq Upto(Packet[i].au, i)
    BY <1>0, <1>3, <1>5
  <2>2. Grows(i, u, d.chunk, GrownUnit(u, i, d.chunk)) BY <1>2, <2>1, GrownOf
  <2> QED BY <1>0, <1>6, <2>2 DEF Grows
<1>8. /\ KeyframeSeen(Completed(u, i, d.chunk)) <=>
            (Closes(u, i) /\ HasIdr(u.buf)) \/ (Ends(g, i) /\ HasIdr(g.buf))
      /\ \A s : s \in SentOf(Completed(u, i, d.chunk), wait) <=>
            \/ Closes(u, i) /\ (~wait \/ HasIdr(u.buf)) /\ s = UnitOf(u)
            \/ /\ Ends(g, i) /\ s = UnitOf(g)
               /\ ~wait \/ HasIdr(g.buf) \/ (Closes(u, i) /\ HasIdr(u.buf))
  <2>1. Completes(u, i, GrownUnit(u, i, d.chunk), wait, Completed(u, i, d.chunk)) BY CompletedOf
  <2> QED BY <1>6, <2>1 DEF Completes
<1>9. /\ S \subseteq S2
      /\ Closes(u, i) /\ (~wait \/ HasIdr(u.buf)) => UnitOf(u) \in S2
      /\ Ends(g, i) /\ (~wait \/ HasIdr(g.buf) \/ (Closes(u, i) /\ HasIdr(u.buf))) => UnitOf(g) \in S2
      /\ \A s \in S2 :
            \/ s \in S
            \/ Closes(u, i) /\ (~wait \/ HasIdr(u.buf)) /\ s = UnitOf(u)
            \/ /\ Ends(g, i) /\ s = UnitOf(g)
               /\ ~wait \/ HasIdr(g.buf) \/ (Closes(u, i) /\ HasIdr(u.buf))
  BY <1>8
<1>10. \A au : Settled(S, au) => Settled(S2, au) BY <1>9 DEF Settled
<1>11. UnitOf(u).au = u.ts /\ UnitOf(u).buf = u.buf /\ UnitOf(g).au = ts /\ UnitOf(g).buf = g.buf
  BY <1>7 DEF UnitOf
(* The unit before is complete when packet i begins another one.            *)
<1>12. ASSUME u.ts \notin {0, ts}
       PROVE  /\ ts = u.ts + 1 /\ Upto(ts, i) = {i} /\ frags = {}
              /\ ~wait /\ ~u.dropping => u.buf = WholeUnit(u.ts) /\ u.buf # {}
              /\ ~wait => Settled(S, u.ts - 1)
              /\ u.ts \in Nat
  <2>1. u.ts \in Nat /\ Reached(u.ts, i - 1) /\ Upto(u.ts, i - 1) # {}
    BY <1>2, <1>12 DEF UnitAt, VideoUnit
  <2>2. ts = u.ts + 1 /\ Upto(ts, i) = {i} /\ Upto(u.ts, i - 1) = WholeUnit(u.ts)
    BY <1>0, <1>12, <2>1, NextUnit
  <2>3. frags = {} BY <1>3, <1>12
  <2>4. ~wait => Settled(S, u.ts - 1) /\ (~u.dropping => u.buf \cup frags = Upto(u.ts, i - 1))
    BY <1>2, <1>12 DEF Unbroken
  <2> QED BY <2>1, <2>2, <2>3, <2>4
<1>13. ASSUME ~wait \/ (Closes(u, i) /\ HasIdr(u.buf))
       PROVE  Settled(S2, ts - 1) /\ (~g.dropping => g.buf \cup d.frags = Upto(ts, i))
  <2>1. CASE u.ts \notin {0, ts}
    <3>1. Settled(S2, u.ts)
      <4>1. CASE u.dropping
        <5>1. Cardinality(WholeUnit(u.ts)) > MaxAuSize BY <1>2, <2>1, <4>1 DEF UnitAt
        <5> QED BY <5>1 DEF Settled
      <4>2. CASE ~u.dropping
        <5>1. Closes(u, i) BY <1>0, <1>12, <1>13, <2>1, <4>2 DEF Closes
        <5>2. UnitOf(u) \in S2 BY <1>9, <1>13, <5>1
        <5> QED BY <1>11, <5>2 DEF Settled
      <4> QED BY <4>1, <4>2
    <3>2. ts - 1 = u.ts BY <1>12, <2>1
    <3>3. ~g.dropping => g.buf = d.chunk BY <1>7, <2>1
    <3> QED BY <1>3, <1>12, <2>1, <3>1, <3>2, <3>3
  <2>2. CASE u.ts = ts
    <3>1. ~wait BY <1>0, <1>13, <2>2 DEF Closes
    <3>2. Settled(S, ts - 1) /\ (~u.dropping => u.buf \cup frags = Upto(ts, i - 1))
      BY <1>1, <1>2, <2>2, <3>1 DEF Unbroken
    <3>3. ~g.dropping => ~u.dropping /\ g.buf = u.buf \cup d.chunk BY <1>7, <2>2
    <3>4. ~g.dropping => g.buf \cup d.frags = Upto(ts, i) BY <1>3, <1>4, <3>2, <3>3
    <3> QED BY <1>10, <3>2, <3>4
  <2>3. CASE u.ts = 0
    <3>1. ~wait BY <1>13, <2>3 DEF Closes
    <3>2. PICK au \in Nat : /\ Reached(au, i - 1) /\ Upto(au, i - 1) = WholeUnit(au)
                            /\ WholeUnit(au) # {} /\ Settled(S, au)
      BY <1>2, <2>3, <3>1 DEF Unbroken
    <3>3. ts # au
      <4>1. i \in WholeUnit(ts) BY <1>4 DEF Upto
      <4>2. i \notin Upto(au, i - 1) BY <1>1 DEF Upto
      <4> QED BY <3>2, <4>1, <4>2
    <3>4. ts = au + 1 /\ Upto(ts, i) = {i} BY <1>0, <3>2, <3>3, NextUnit
    <3>5. frags = {} BY <1>1, <1>3, <2>3
    <3>6. ~g.dropping => g.buf = d.chunk BY <1>1, <1>7, <2>3
    <3>7. ts - 1 = au BY <3>4
    <3> QED BY <1>3, <1>10, <3>2, <3>4, <3>5, <3>6, <3>7
  <2> QED BY <2>1, <2>2, <2>3
<1>14. Decodable(S2)
  <2> SUFFICES ASSUME NEW s \in S2, ~HasIdr(s.buf)
               PROVE  s.buf = WholeUnit(s.au) /\ Settled(S2, s.au - 1)
    BY DEF Decodable
  <2>1. CASE s \in S BY <1>10, <2>1 DEF Decodable
  <2>2. CASE Closes(u, i) /\ (~wait \/ HasIdr(u.buf)) /\ s = UnitOf(u)
    <3>1. ~wait /\ u.ts \notin {0, ts} /\ ~u.dropping BY <1>0, <1>11, <2>2 DEF Closes
    <3>2. u.buf = WholeUnit(u.ts) /\ Settled(S2, u.ts - 1) BY <1>10, <1>12, <3>1
    <3> QED BY <1>11, <2>2, <3>2
  <2>3. CASE /\ Ends(g, i) /\ s = UnitOf(g)
             /\ ~wait \/ HasIdr(g.buf) \/ (Closes(u, i) /\ HasIdr(u.buf))
    <3>1. ~wait \/ (Closes(u, i) /\ HasIdr(u.buf)) BY <1>11, <2>3
    <3>2. Packet[i].marker /\ ~g.dropping /\ Packet[i].payload # "start"
      BY <2>3, StreamOf DEF Ends
    <3>3. g.buf = WholeUnit(ts) BY <1>3, <1>4, <1>13, <3>1, <3>2
    <3> QED BY <1>11, <1>13, <2>3, <3>1, <3>3
  <2> QED BY <1>9, <2>1, <2>2, <2>3
<1>15. CASE Packet[i].marker
  <2>1. PushedUnit(u, i, d.chunk) = NoUnit BY <1>15 DEF PushedUnit
  <2>2. Packet[i].payload # "start" /\ d.frags = {} /\ i \in d.chunk BY <1>3, <1>15, StreamOf
  <2>3. UnitAt(i, NoUnit) BY DEF UnitAt, NoUnit, VideoUnit
  <2>4. FragmentsAt(i, d.frags, NoUnit, w2) BY <2>2 DEF FragmentsAt
  <2>5. ASSUME ~w2 PROVE Unbroken(S2, i, d.frags, NoUnit)
    <3>1. ~wait \/ KeyframeSeen(Completed(u, i, d.chunk)) BY <2>5
    <3>2. Settled(S2, ts)
      <4>1. CASE g.dropping BY <1>1, <1>7, <4>1 DEF UnitAt, Settled
      <4>2. CASE ~g.dropping
        <5>1. Ends(g, i) BY <1>7, <1>15, <2>2, <4>2 DEF Ends
        <5>2. UnitOf(g) \in S2 BY <1>8, <1>9, <3>1, <5>1
        <5> QED BY <1>11, <5>2 DEF Settled
      <4> QED BY <4>1, <4>2
    <3>3. Upto(ts, i) = WholeUnit(ts) /\ WholeUnit(ts) # {} BY <1>4, <1>15
    <3> QED BY <1>1, <1>4, <3>2, <3>3 DEF Unbroken, NoUnit
  <2> QED BY <1>14, <2>1, <2>3, <2>4, <2>5 DEF BuffersAt
<1>16. CASE ~Packet[i].marker
  <2>1. PushedUnit(u, i, d.chunk) = g BY <1>6, <1>16 DEF PushedUnit, GrownUnit
  <2>2. FragmentsAt(i, d.frags, g, w2) BY <1>0, <1>3, <1>7 DEF FragmentsAt
  <2>3. ASSUME ~w2 PROVE Unbroken(S2, i, d.frags, g)
    <3>1. ~Ends(g, i) BY <1>16 DEF Ends
    <3>2. ~wait \/ (Closes(u, i) /\ HasIdr(u.buf)) BY <1>8, <2>3, <3>1
    <3>3. Settled(S2, ts - 1) /\ (~g.dropping => g.buf \cup d.frags = Upto(ts, i)) BY <1>13, <3>2
    <3> QED BY <1>1, <1>7, <3>3 DEF Unbroken
  <2> QED BY <1>7, <1>14, <2>1, <2>2, <2>3 DEF BuffersAt
<1> QED BY <1>15, <1>16

(* Empty buffers are in order whatever came before them.                    *)
LEMMA EmptyBuffers ==
    ASSUME NEW S, NEW k PROVE BuffersAt(S, k, {}, NoUnit, TRUE)
<1>1. NoUnit \in VideoUnit /\ NoUnit.ts = 0 BY DEF NoUnit, VideoUnit
<1>2. UnitAt(k, NoUnit) BY <1>1 DEF UnitAt
<1>3. FragmentsAt(k, {}, NoUnit, TRUE) BY <1>1 DEF FragmentsAt
<1> QED BY <1>2, <1>3 DEF BuffersAt

(* Padding changes nothing.                                                 *)
LEMMA PaddingSteps ==
    ASSUME NEW S, NEW i \in DOMAIN Packet, Packet[i].payload = "padding",
           NEW frags, NEW u, NEW wait \in BOOLEAN, BuffersAt(S, i - 1, frags, u, wait)
    PROVE  BuffersAt(S, i, frags, u, wait)
<1>0. i \in Nat \ {0} BY StreamOf
<1>1. UnitAt(i - 1, u) /\ FragmentsAt(i - 1, frags, u, wait) /\ (~wait => Unbroken(S, i - 1, frags, u))
  BY DEF BuffersAt
<1>2. \A au : Upto(au, i) = Upto(au, i - 1)
  <2> SUFFICES ASSUME NEW au PROVE Upto(au, i) = Upto(au, i - 1) OBVIOUS
  <2>1. i \notin WholeUnit(au) BY DEF WholeUnit
  <2>2. \A x \in WholeUnit(au) : x \in Nat BY StreamOf DEF WholeUnit
  <2>3. \A x \in WholeUnit(au) : x <= i <=> x <= i - 1 BY <1>0, <2>1, <2>2
  <2> QED BY <2>3 DEF Upto
<1>3. \A au : Reached(au, i - 1) => Reached(au, i)
  <2> SUFFICES ASSUME NEW au, Reached(au, i - 1), NEW x \in DOMAIN Packet, x <= i,
                      Packet[x].payload # "padding"
               PROVE  Packet[x].au <= au
    BY DEF Reached
  <2>1. x \in Nat /\ x # i BY StreamOf
  <2>2. x <= i - 1 BY <1>0, <2>1
  <2> QED BY <2>2 DEF Reached
<1>4. frags = {}
  <2> SUFFICES ASSUME frags # {} PROVE FALSE OBVIOUS
  <2>1. i - 1 \in DOMAIN Packet /\ Packet[i - 1].payload = "start" BY <1>1 DEF FragmentsAt
  <2>2. Packet[(i - 1) + 1].payload = "end" BY <2>1, StreamOf
  <2>3. (i - 1) + 1 = i BY <1>0
  <2> QED BY <2>2, <2>3
<1>5. UnitAt(i, u) BY <1>1, <1>2, <1>3 DEF UnitAt
<1>6. FragmentsAt(i, frags, u, wait) BY <1>4 DEF FragmentsAt
<1>7. Unbroken(S, i - 1, frags, u) => Unbroken(S, i, frags, u) BY <1>2, <1>3 DEF Unbroken
<1> QED BY <1>1, <1>5, <1>6, <1>7 DEF BuffersAt

(* One turn of the loop, with a packet near enough to the last one that a   *)
(* sequence number tells whether it is the next.                            *)
LEMMA ReadSteps ==
    ASSUME VideoInv, NEW i \in DOMAIN Packet, ReadRtp(i),
           \A k \in DOMAIN Packet : LastRead(k) => i < k + 1 + SeqRange /\ k + 1 < i + SeqRange
    PROVE  /\ lastSeq' = sequence_number(i) /\ awaiting' \in BOOLEAN
           /\ BuffersAt(sent', i, fragments', unit', awaiting') /\ Decodable(sent')
<1> DEFINE gap == lastSeq # NoSeq /\ sequence_number(i) # (lastSeq + 1) % SeqRange
           frags == IF gap THEN {} ELSE fragments
           u == IF gap THEN NoUnit ELSE unit
           wait == AwaitingAfter(gap)
<1>0. i \in Nat \ {0} /\ SeqRange \in Nat BY StreamOf, StreamVideoAssumption
<1>1. Decodable(sent) BY DEF VideoInv, SentDecodable, Decodable, Settled
<1>2. wait \in BOOLEAN /\ (wait <=> awaiting \/ gap) BY DEF VideoInv, AwaitingAfter
<1>3. /\ lastSeq' = sequence_number(i)
      /\ IF Packet[i].payload = "padding"
         THEN awaiting' = wait /\ fragments' = frags /\ unit' = u /\ UNCHANGED sent
         ELSE \E d \in Depacketized(frags, i) :
                 IF ~d.ok
                 THEN awaiting' = TRUE /\ fragments' = {} /\ unit' = NoUnit /\ UNCHANGED sent
                 ELSE /\ fragments' = d.frags /\ unit' = PushedUnit(u, i, d.chunk)
                      /\ awaiting' = (wait /\ ~KeyframeSeen(Completed(u, i, d.chunk)))
                      /\ sent' = sent \cup SentOf(Completed(u, i, d.chunk), wait)
  BY DEF ReadRtp
<1>4. BuffersAt(sent, i - 1, frags, u, wait)
  <2>1. CASE gap
    <3>1. frags = {} /\ u = NoUnit /\ wait = TRUE BY <1>2, <2>1
    <3> QED BY <3>1, EmptyBuffers
  <2>2. CASE lastSeq = NoSeq
    <3>1. frags = {} /\ u = NoUnit /\ wait = TRUE BY <1>2, <2>2 DEF VideoInv
    <3> QED BY <3>1, EmptyBuffers
  <2>3. CASE lastSeq # NoSeq /\ ~gap
    <3>1. frags = fragments /\ u = unit /\ wait = awaiting BY <1>2, <2>3 DEF VideoInv
    <3>2. PICK k \in DOMAIN Packet : LastRead(k) /\ BuffersAt(sent, k, fragments, unit, awaiting)
      BY <2>3 DEF VideoInv
    <3>3. k \in Nat /\ i < k + 1 + SeqRange /\ k + 1 < i + SeqRange BY <3>2, StreamOf
    <3>4. i % SeqRange = ((k % SeqRange) + 1) % SeqRange
      BY <2>3, <3>2 DEF LastRead, sequence_number
    <3>5. SeqRange \in Nat \ {0} BY StreamVideoAssumption
    <3>6. i = k + 1 BY <1>0, <3>3, <3>4, <3>5, NextNumber
    <3>7. k = i - 1 BY <3>3, <3>6
    <3> QED BY <3>1, <3>2, <3>7
  <2> QED BY <2>1, <2>2, <2>3
<1> HIDE DEF gap, frags, u, wait
<1>5. CASE Packet[i].payload = "padding"
  <2>1. awaiting' = wait /\ fragments' = frags /\ unit' = u /\ sent' = sent BY <1>3, <1>5
  <2>2. BuffersAt(sent, i, frags, u, wait) BY <1>2, <1>4, <1>5, PaddingSteps
  <2> QED BY <1>1, <1>2, <1>3, <2>1, <2>2
<1>6. CASE Packet[i].payload # "padding"
  <2>1. PICK d \in Depacketized(frags, i) :
           IF ~d.ok
           THEN awaiting' = TRUE /\ fragments' = {} /\ unit' = NoUnit /\ UNCHANGED sent
           ELSE /\ fragments' = d.frags /\ unit' = PushedUnit(u, i, d.chunk)
                /\ awaiting' = (wait /\ ~KeyframeSeen(Completed(u, i, d.chunk)))
                /\ sent' = sent \cup SentOf(Completed(u, i, d.chunk), wait)
    BY <1>3, <1>6
  <2>2. CASE ~d.ok
    <3>1. BuffersAt(sent, i, {}, NoUnit, TRUE) BY EmptyBuffers
    <3> QED BY <1>1, <1>3, <2>1, <2>2, <3>1
  <2>3. CASE d.ok
    <3>1. PICK w2 \in BOOLEAN : w2 <=> wait /\ ~KeyframeSeen(Completed(u, i, d.chunk)) OBVIOUS
    <3>2. PICK S2 : S2 = sent \cup SentOf(Completed(u, i, d.chunk), wait) OBVIOUS
    <3>3. Decodable(S2) /\ BuffersAt(S2, i, d.frags, PushedUnit(u, i, d.chunk), w2)
      BY <1>1, <1>2, <1>4, <1>6, <2>3, <3>1, <3>2, PushSteps
    <3>4. /\ fragments' = d.frags /\ unit' = PushedUnit(u, i, d.chunk) /\ awaiting' = w2 /\ sent' = S2
      BY <2>1, <2>3, <3>1, <3>2
    <3> QED BY <1>3, <3>3, <3>4
  <2> QED BY <2>2, <2>3
<1> QED BY <1>5, <1>6

(* The same, as what the invariant says of the packet read last.            *)
LEMMA ReadKeeps ==
    ASSUME VideoInv, NEW i \in DOMAIN Packet, ReadRtp(i), i < coming', coming' <= i + MaxLate + lost' + 1,
           coming' \in Nat \ {0}, lost' \in 0..MaxLost,
           late' \subseteq DOMAIN Packet, \A x \in late' : x < coming',
           \A k \in DOMAIN Packet : LastRead(k) => i < k + 1 + SeqRange /\ k + 1 < i + SeqRange
    PROVE  VideoInv'
<1>1. /\ lastSeq' = sequence_number(i) /\ awaiting' \in BOOLEAN
      /\ BuffersAt(sent', i, fragments', unit', awaiting') /\ Decodable(sent')
  BY ReadSteps
<1>2. lastSeq' # NoSeq
  <2>1. SeqRange \in Nat \ {0} /\ i \in Nat BY StreamVideoAssumption, StreamOf
  <2>2. i % SeqRange \in 0..(SeqRange - 1) BY <2>1, RemainderRange
  <2> QED BY <1>1, <2>1, <2>2 DEF sequence_number, NoSeq
<1>3. LastRead(i)' BY <1>1 DEF LastRead
<1>4. BuffersAt(sent, i, fragments, unit, awaiting)' BY <1>1 DEF BuffersAt, UnitAt, FragmentsAt, Unbroken, Upto, Reached, Settled, VideoUnit
<1>5. SentDecodable' BY <1>1 DEF SentDecodable, Decodable, Settled
<1>6. (\E k \in DOMAIN Packet : LastRead(k) /\ BuffersAt(sent, k, fragments, unit, awaiting))'
  BY <1>3, <1>4
<1> QED BY <1>1, <1>2, <1>5, <1>6 DEF VideoInv, NoSeq

LEMMA VideoInvariant == VideoSpec => []VideoInv
<1>1. VideoInit => VideoInv
  BY StreamVideoAssumption DEF VideoInit, VideoInv, SentDecodable, NoSeq
<1>2. ASSUME VideoInv, [VideoNext]_videoVars PROVE VideoInv'
  <2>0. /\ {SeqRange, MaxAuSize, MaxLost, MaxLate} \subseteq Nat /\ MaxLost + MaxLate < SeqRange
        /\ coming \in Nat \ {0} /\ lost \in 0..MaxLost
        /\ late \subseteq DOMAIN Packet /\ \A i \in late : i < coming
    BY <1>2, StreamVideoAssumption DEF VideoInv
  <2>k. \A k \in DOMAIN Packet : k \in Nat \ {0} BY StreamOf
  <2>1. CASE ReadNext
    <3>1. coming \in DOMAIN Packet /\ coming' = coming + 1 /\ ReadRtp(coming) /\ late' = late /\ lost' = lost
      BY <2>1 DEF ReadNext
    <3>2. \A k \in DOMAIN Packet : LastRead(k) => coming < k + 1 + SeqRange /\ k + 1 < coming + SeqRange
      BY <2>0, <2>k DEF LastRead
    <3>3. coming < coming' /\ coming' <= coming + MaxLate + lost' + 1 /\ coming' \in Nat \ {0}
      BY <2>0, <3>1
    <3>4. late' \subseteq DOMAIN Packet /\ \A x \in late' : x < coming' BY <2>0, <2>k, <3>1
    <3>5. lost' \in 0..MaxLost BY <2>0, <3>1
    <3>6. PICK i \in DOMAIN Packet : i = coming BY <3>1
    <3>7. /\ ReadRtp(i) /\ i < coming' /\ coming' <= i + MaxLate + lost' + 1
          /\ \A k \in DOMAIN Packet : LastRead(k) => i < k + 1 + SeqRange /\ k + 1 < i + SeqRange
      BY <3>1, <3>2, <3>3, <3>6
    <3> QED BY <1>2, <3>3, <3>4, <3>5, <3>7, ReadKeeps
  <2>2. ASSUME NEW i \in late, ReadLate(i) PROVE VideoInv'
    <3>1. coming <= i + MaxLate /\ late' = late \ {i} /\ ReadRtp(i) /\ coming' = coming /\ lost' = lost
      BY <2>2 DEF ReadLate
    <3>2. i \in DOMAIN Packet /\ i < coming BY <2>0
    <3>3. \A k \in DOMAIN Packet : LastRead(k) => i < k + 1 + SeqRange /\ k + 1 < i + SeqRange
      BY <2>0, <2>k, <3>1, <3>2 DEF LastRead
    <3>4. i < coming' /\ coming' <= i + MaxLate + lost' + 1 /\ coming' \in Nat \ {0}
      BY <2>0, <2>k, <3>1, <3>2
    <3>5. late' \subseteq DOMAIN Packet /\ \A x \in late' : x < coming' BY <2>0, <3>1
    <3>6. lost' \in 0..MaxLost BY <2>0, <3>1
    <3> QED BY <1>2, <3>1, <3>2, <3>3, <3>4, <3>5, <3>6, ReadKeeps
  <2>3. CASE PacketLost
    <3>1. /\ lost < MaxLost /\ lost' = lost + 1 /\ coming \in DOMAIN Packet /\ coming' = coming + 1
          /\ late' \in {late, late \cup {coming}}
          /\ lastSeq' = lastSeq /\ awaiting' = awaiting /\ fragments' = fragments
          /\ unit' = unit /\ sent' = sent
      BY <2>3 DEF PacketLost
    <3>2. coming' \in Nat \ {0} /\ lost' \in 0..MaxLost /\ late' \subseteq DOMAIN Packet
      BY <2>0, <3>1
    <3>3. \A x \in late' : x < coming' BY <2>0, <2>k, <3>1
    <3>4. ASSUME NEW k \in DOMAIN Packet, LastRead(k), BuffersAt(sent, k, fragments, unit, awaiting)
          PROVE  (\E x \in DOMAIN Packet : LastRead(x) /\ BuffersAt(sent, x, fragments, unit, awaiting))'
      <4>1. LastRead(k)' BY <2>0, <2>k, <3>1, <3>4 DEF LastRead
      <4>2. BuffersAt(sent, k, fragments, unit, awaiting)'
        BY <3>1, <3>4 DEF BuffersAt, UnitAt, FragmentsAt, Unbroken, Upto, Reached, Settled, VideoUnit
      <4> QED BY <4>1, <4>2
    <3>5. SentDecodable' BY <1>2, <3>1 DEF VideoInv, SentDecodable
    <3>6. IF lastSeq = NoSeq THEN fragments = {} /\ unit = NoUnit /\ awaiting
          ELSE \E k \in DOMAIN Packet : LastRead(k) /\ BuffersAt(sent, k, fragments, unit, awaiting)
      BY <1>2 DEF VideoInv
    <3>7. (IF lastSeq = NoSeq THEN fragments = {} /\ unit = NoUnit /\ awaiting
           ELSE \E k \in DOMAIN Packet : LastRead(k) /\ BuffersAt(sent, k, fragments, unit, awaiting))'
      <4>1. CASE lastSeq = NoSeq BY <3>1, <3>6, <4>1 DEF NoSeq, NoUnit
      <4>2. CASE lastSeq # NoSeq
        <5>1. lastSeq' # NoSeq' BY <3>1, <4>2 DEF NoSeq
        <5> QED BY <3>4, <3>6, <4>2, <5>1
      <4> QED BY <4>1, <4>2
    <3>8. awaiting' \in BOOLEAN BY <1>2, <3>1 DEF VideoInv
    <3> QED BY <3>2, <3>3, <3>5, <3>7, <3>8 DEF VideoInv
  <2>4. CASE VideoEnds \/ UNCHANGED videoVars
    <3>1. /\ coming' = coming /\ late' = late /\ lastSeq' = lastSeq /\ awaiting' = awaiting
          /\ fragments' = fragments /\ unit' = unit /\ sent' = sent /\ lost' = lost
      BY <2>4 DEF VideoEnds, videoVars
    <3> QED BY <1>2, <3>1 DEF VideoInv, LastRead, BuffersAt, UnitAt, FragmentsAt, Unbroken, Upto,
                              Reached, Settled, SentDecodable
  <2> QED BY <1>2, <2>1, <2>2, <2>3, <2>4 DEF VideoNext
<1> QED BY <1>1, <1>2, PTL DEF VideoSpec
=============================================================================
