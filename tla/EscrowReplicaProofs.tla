--------------------------- MODULE EscrowReplicaProofs ---------------------------
(***************************************************************************)
(* Proofs about the replication of a room (EscrowReplica): its types, that *)
(* members agree on what is committed, that what a client has been told of *)
(* is on a majority, and that a request sees what was acknowledged before  *)
(* it started.  They rest on the invariant ReplicaInv: the members' logs,  *)
(* the messages on their way and the snapshots are pieces of the chains    *)
(* (EscrowReplicaRaft), a member's room state is its chain replayed up to  *)
(* its commit index, and a barrier that was logged comes after what was    *)
(* acknowledged before or can never commit.                                *)
(*                                                                         *)
(* The first part is about replaying a log, the second about one engine    *)
(* step followed by Cluster::outputs, the third about the requests and     *)
(* messages around it; then there is one lemma for each action, and at the *)
(* end the theorems.                                                       *)
(***************************************************************************)
EXTENDS EscrowReplicaRaft

-----------------------------------------------------------------------------
(* What replaying a log does.                                              *)

LEMMA ApplyType ==
    ASSUME NEW st \in State, NEW c \in Command, NEW k
    PROVE  apply(st, c, k).state \in State
<1>1. NoHead \in Heads \cup {NoHead} /\ EmptySlot \in SlotState
  BY DEF EmptySlot, SlotState
<1>2. CASE c.op = "put" /\ c \in Writes
  <2>1. c.head \in Heads /\ slotOf[c.head] \in Slot
    BY <1>2, HeadAssumption DEF Writes
  <2>2. \A x : put(st, c.head, x).state \in State
    BY <2>1, <1>1 DEF put, State, SlotState, EmptySlot, Result
  <2> QED BY <2>2, <1>2 DEF apply
<1>3. CASE c.op = "delete" /\ c \in Writes
  <2>1. c.head \in Heads /\ slotOf[c.head] \in Slot
    BY <1>3, HeadAssumption DEF Writes
  <2>2. delete(st, c.head).state \in State
    BY <2>1, <1>1 DEF delete, State, SlotState, EmptySlot, Result
  <2> QED BY <2>2, <1>3 DEF apply
<1>4. CASE c = Barrier
  BY <1>4 DEF apply, Result, Barrier
<1> QED BY <1>2, <1>3, <1>4 DEF Command, Writes

(* g gives the states that st goes through when s is replayed.             *)
Runs(g, st, s) ==
    /\ g \in [0 .. Len(s) -> State] /\ g[0] = st
    /\ \A i \in 1 .. Len(s) : g[i] = apply(g[i - 1], s[i].cmd, ApplySlots).state

LEMMA RunsExist ==
    ASSUME NEW st \in State, NEW s \in Seq(Entry)
    PROVE  \E g : Runs(g, st, s)
<1> DEFINE Ok(g, n) == /\ g \in [0 .. n -> State] /\ g[0] = st
                       /\ \A i \in 1 .. n : g[i] = apply(g[i - 1], s[i].cmd, ApplySlots).state
           S == {n \in Nat : n <= Len(s) => \E g : Ok(g, n)}
<1>1. 0 \in S
  <2> DEFINE f == [i \in 0 .. 0 |-> st]
  <2>1. f \in [0 .. 0 -> State] /\ f[0] = st
    OBVIOUS
  <2>2. \A i : i \notin 1 .. 0
    <3>1. \A i \in Int : ~(1 <= i /\ i <= 0)
      OBVIOUS
    <3> QED BY <3>1
  <2> HIDE DEF f
  <2>3. Ok(f, 0)
    BY <2>1, <2>2
  <2> QED BY <2>3
<1>2. ASSUME NEW n \in Nat, n \in S PROVE n + 1 \in S
  <2>1. ASSUME n + 1 <= Len(s) PROVE \E g : Ok(g, n + 1)
    <3>1. PICK g : Ok(g, n)
      BY <1>2, <2>1
    <3>2a. n + 1 \in 1 .. Len(s) /\ s[n + 1] \in Entry
      BY <2>1
    <3>2b. g \in [0 .. n -> State] /\ n \in 0 .. n
      BY <3>1
    <3>2. n + 1 \in 1 .. Len(s) /\ s[n + 1] \in Entry /\ s[n + 1].cmd \in Command /\ g[n] \in State
      BY <3>2a, <3>2b DEF Entry
    <3> DEFINE x == apply(g[n], s[n + 1].cmd, ApplySlots).state
    <3>3. x \in State
      BY <3>2, ApplyType
    <3> DEFINE h == [i \in 0 .. n + 1 |-> IF i = n + 1 THEN x ELSE g[i]]
    <3>4. h \in [0 .. n + 1 -> State] /\ h[0] = st
      <4> HIDE DEF x
      <4> QED BY <3>1, <3>3
    <3>5. ASSUME NEW i \in 1 .. n + 1
          PROVE  h[i] = apply(h[i - 1], s[i].cmd, ApplySlots).state
      <4>1. CASE i = n + 1
        <5>1. h[i] = x /\ h[i - 1] = g[n]
          <6> HIDE DEF x
          <6> QED BY <4>1
        <5> QED BY <5>1, <4>1
      <4>2. CASE i # n + 1
        <5>1. h[i] = g[i] /\ h[i - 1] = g[i - 1] /\ i \in 1 .. n
          <6> HIDE DEF x
          <6> QED BY <4>2
        <5> QED BY <5>1, <3>1
      <4> QED BY <4>1, <4>2
    <3>6. Ok(h, n + 1)
      <4> HIDE DEF h
      <4> QED BY <3>4, <3>5
    <3> QED BY <3>6
  <2> HIDE DEF Ok
  <2> QED BY <2>1
<1>3. Nat \subseteq S
  <2> HIDE DEF S
  <2> QED BY <1>1, <1>2, NatInduct
<1>4. Len(s) \in S
  <2>1. Len(s) \in Nat
    OBVIOUS
  <2> HIDE DEF S
  <2> QED BY <1>3, <2>1
<1> QED BY <1>4 DEF Runs

LEMMA RunsOne ==
    ASSUME NEW st, NEW s \in Seq(Entry), NEW g, NEW h, Runs(g, st, s),
           h[0] = st, \A i \in 1 .. Len(s) : h[i] = apply(h[i - 1], s[i].cmd, ApplySlots).state
    PROVE  h[Len(s)] = g[Len(s)]
<1> DEFINE S == {n \in Nat : n <= Len(s) => g[n] = h[n]}
<1>1. 0 \in S
  BY DEF Runs
<1>2. ASSUME NEW n \in Nat, n \in S PROVE n + 1 \in S
  <2> SUFFICES ASSUME n + 1 <= Len(s) PROVE g[n + 1] = h[n + 1]
    OBVIOUS
  <2>1. n + 1 \in 1 .. Len(s) /\ g[n] = h[n] /\ (n + 1) - 1 = n
    BY <1>2
  <2>2. g[n + 1] = apply(g[n], s[n + 1].cmd, ApplySlots).state
    BY <2>1 DEF Runs
  <2>3. h[n + 1] = apply(h[n], s[n + 1].cmd, ApplySlots).state
    BY <2>1
  <2> QED BY <2>1, <2>2, <2>3
<1>3. Nat \subseteq S
  <2> HIDE DEF S
  <2> QED BY <1>1, <1>2, NatInduct
<1> QED BY <1>3

LEMMA ReplayBy ==
    ASSUME NEW st \in State, NEW s \in Seq(Entry), NEW g, Runs(g, st, s)
    PROVE  Replay(st, s) = g[Len(s)] /\ Replay(st, s) \in State
<1> DEFINE F(f) == [i \in 0 .. Len(s) |->
                      IF i = 0 THEN st ELSE apply(f[i - 1], s[i].cmd, ApplySlots).state]
           a == CHOOSE f : f = F(f)
<1>1. Replay(st, s) = a[Len(s)]
  BY DEF Replay
<1>2. g = F(g)
  <2>1. g \in [0 .. Len(s) -> State] /\ Len(s) \in Nat
    BY DEF Runs
  <2>2. ASSUME NEW i \in 0 .. Len(s) PROVE g[i] = F(g)[i]
    BY <2>2 DEF Runs
  <2> QED BY <2>1, <2>2
<1>3. a = F(a)
  BY <1>2
<1>4. a[0] = st
  <2> HIDE DEF a
  <2>1. F(a)[0] = st
    OBVIOUS
  <2> QED BY <2>1, <1>3
<1>5. ASSUME NEW i \in 1 .. Len(s) PROVE a[i] = apply(a[i - 1], s[i].cmd, ApplySlots).state
  <2> HIDE DEF a
  <2>1. F(a)[i] = apply(a[i - 1], s[i].cmd, ApplySlots).state
    OBVIOUS
  <2> QED BY <2>1, <1>3
<1>6. a[Len(s)] = g[Len(s)]
  <2> HIDE DEF a, F
  <2> QED BY <1>4, <1>5, RunsOne
<1>7. g[Len(s)] \in State
  BY DEF Runs
<1> QED BY <1>1, <1>6, <1>7

LEMMA ReplayType ==
    ASSUME NEW st \in State, NEW s \in Seq(Entry)
    PROVE  Replay(st, s) \in State
BY RunsExist, ReplayBy

LEMMA ReplayNone ==
    ASSUME NEW st \in State, NEW s \in Seq(Entry), Len(s) = 0
    PROVE  Replay(st, s) = st
<1>1. PICK g : Runs(g, st, s)
  BY RunsExist
<1>2. Replay(st, s) = g[Len(s)]
  BY <1>1, ReplayBy
<1> QED BY <1>1, <1>2 DEF Runs

(* Replaying in two parts.                                                 *)
LEMMA ReplayJoin ==
    ASSUME NEW st \in State, NEW s \in Seq(Entry), NEW t \in Seq(Entry), NEW c, Joined(c, s, t)
    PROVE  Replay(st, c) = Replay(Replay(st, s), t)
<1>0. c \in Seq(Entry) /\ Len(c) = Len(s) + Len(t) /\ Len(s) \in Nat /\ Len(t) \in Nat
  BY DEF Joined
<1>1. PICK g : Runs(g, st, s)
  BY RunsExist
<1>2. Replay(st, s) = g[Len(s)] /\ Replay(st, s) \in State
  BY <1>1, ReplayBy
<1>3. PICK h : Runs(h, g[Len(s)], t)
  BY <1>2, RunsExist
<1>4. Replay(Replay(st, s), t) = h[Len(t)]
  BY <1>2, <1>3, ReplayBy
<1> DEFINE k == [i \in 0 .. Len(s) + Len(t) |-> IF i <= Len(s) THEN g[i] ELSE h[i - Len(s)]]
<1>5. /\ g \in [0 .. Len(s) -> State] /\ g[0] = st
      /\ h \in [0 .. Len(t) -> State] /\ h[0] = g[Len(s)]
  BY <1>1, <1>3 DEF Runs
<1>6. k \in [0 .. Len(c) -> State] /\ k[0] = st /\ k[Len(c)] = h[Len(t)]
  BY <1>0, <1>5
<1>7. ASSUME NEW i \in 1 .. Len(c)
      PROVE  k[i] = apply(k[i - 1], c[i].cmd, ApplySlots).state
  <2>1. CASE i <= Len(s)
    <3>1. k[i] = g[i] /\ k[i - 1] = g[i - 1] /\ i \in 1 .. Len(s)
      BY <2>1, <1>0
    <3>2. c[i] = s[i]
      BY <2>1, <1>0 DEF Joined
    <3>3. g[i] = apply(g[i - 1], s[i].cmd, ApplySlots).state
      BY <3>1, <1>1 DEF Runs
    <3> QED BY <3>1, <3>2, <3>3
  <2>2. CASE i > Len(s)
    <3>0. /\ i - Len(s) \in 1 .. Len(t) /\ i \in 0 .. Len(s) + Len(t)
          /\ i - 1 \in 0 .. Len(s) + Len(t) /\ ~(i <= Len(s))
          /\ (i - Len(s)) - 1 = (i - 1) - Len(s)
      BY <2>2, <1>0
    <3>1a. k[i] = h[i - Len(s)]
      BY <3>0
    <3>1b. k[i - 1] = h[(i - Len(s)) - 1]
      <4>1. CASE i - 1 <= Len(s)
        <5>1. i - 1 = Len(s) /\ (i - Len(s)) - 1 = 0
          BY <4>1, <2>2, <1>0
        <5>2. k[i - 1] = g[Len(s)]
          BY <5>1, <3>0, <4>1
        <5> QED BY <5>1, <5>2, <1>5
      <4>2. CASE ~(i - 1 <= Len(s))
        BY <4>2, <3>0
      <4> QED BY <4>1, <4>2
    <3>1. k[i] = h[i - Len(s)] /\ k[i - 1] = h[(i - Len(s)) - 1] /\ i - Len(s) \in 1 .. Len(t)
      BY <3>0, <3>1a, <3>1b
    <3>2. c[i] = t[i - Len(s)]
      BY <2>2, <1>0 DEF Joined
    <3>3. h[i - Len(s)] = apply(h[(i - Len(s)) - 1], t[i - Len(s)].cmd, ApplySlots).state
      BY <3>1, <1>3 DEF Runs
    <3> QED BY <3>1, <3>2, <3>3
  <2> QED BY <2>1, <2>2, <1>0
<1>8. Runs(k, st, c)
  <2> HIDE DEF k
  <2> QED BY <1>6, <1>7 DEF Runs
<1> HIDE DEF k
<1> QED BY <1>0, <1>4, <1>6, <1>8, ReplayBy

-----------------------------------------------------------------------------
(* Room states, snapshots and messages on a chain.                         *)

(* The room state st is the first c entries of the chain of t.             *)
StateIs(ch, st, c, t) == c <= Len(ch[t]) /\ st = Replay(EmptyState, SubSeq(ch[t], 1, c))

(* The room state of r is what its log has up to c.                        *)
StateFits(ch, r, c) == \E t \in Term : Along(ch, r, t) /\ StateIs(ch, r.state, c, t)

(* Snapshot s was committed by term b.                                     *)
SnapFits(nd, ch, s, b) ==
    /\ IF s.index = 0 THEN s.term = 0
       ELSE /\ At(ch, s.term, s.index, s.term) /\ s.term <= b
            /\ Committed(nd, ch, s.index, s.term, b)
    /\ StateIs(ch, s.state, s.index, s.term)

LEMMA EmptyType == EmptyState \in State
BY DEF EmptyState, State, EmptySlot, SlotState

LEMMA Prefix ==
    ASSUME NEW s \in Seq(Entry), NEW c \in Nat, c <= Len(s)
    PROVE  /\ SubSeq(s, 1, c) \in Seq(Entry) /\ Len(SubSeq(s, 1, c)) = c
           /\ \A i \in 1 .. c : SubSeq(s, 1, c)[i] = s[i]
OBVIOUS

LEMMA PrefixSame ==
    ASSUME NEW s \in Seq(Entry), NEW t \in Seq(Entry), NEW c \in Nat, c <= Len(s), c <= Len(t),
           \A i \in 1 .. c : s[i] = t[i]
    PROVE  SubSeq(s, 1, c) = SubSeq(t, 1, c)
<1> DEFINE a == SubSeq(s, 1, c)
           b == SubSeq(t, 1, c)
<1>1. /\ a \in Seq(Entry) /\ Len(a) = c /\ \A i \in 1 .. c : a[i] = s[i]
      /\ b \in Seq(Entry) /\ Len(b) = c /\ \A i \in 1 .. c : b[i] = t[i]
  BY Prefix
<1> HIDE DEF a, b
<1>2. DOMAIN a = 1 .. c /\ DOMAIN b = 1 .. c
  BY <1>1
<1>3. a = [i \in 1 .. c |-> a[i]] /\ b = [i \in 1 .. c |-> b[i]]
  BY <1>1, <1>2
<1>4. a = b
  BY <1>1, <1>3
<1> QED BY <1>4 DEF a, b

LEMMA StateSame ==
    ASSUME NEW ch, ChainOK(ch), NEW t \in Term, NEW u \in Term, NEW c \in Nat, Same(ch, t, u, c),
           NEW st, StateIs(ch, st, c, t)
    PROVE  StateIs(ch, st, c, u)
<1>1. ch[t] \in Seq(Entry) /\ ch[u] \in Seq(Entry)
  BY DEF ChainOK
<1>2. SubSeq(ch[t], 1, c) = SubSeq(ch[u], 1, c)
  BY <1>1, PrefixSame DEF Same
<1> QED BY <1>2 DEF StateIs, Same

LEMMA StateGrow ==
    ASSUME NEW ch, ChainOK(ch), NEW ch2, ChainOK(ch2), Grows(ch, ch2), NEW t \in Term,
           NEW c \in Nat, NEW st, StateIs(ch, st, c, t)
    PROVE  StateIs(ch2, st, c, t)
<1>1. ch[t] \in Seq(Entry) /\ ch2[t] \in Seq(Entry)
  BY DEF ChainOK
<1>2. /\ c <= Len(ch[t]) /\ Len(ch[t]) <= Len(ch2[t]) /\ Len(ch[t]) \in Nat /\ Len(ch2[t]) \in Nat
      /\ \A i \in 1 .. Len(ch[t]) : ch2[t][i] = ch[t][i]
  BY <1>1 DEF Grows, StateIs
<1>3. \A i \in 1 .. c : ch[t][i] = ch2[t][i]
  BY <1>2
<1>4. SubSeq(ch[t], 1, c) = SubSeq(ch2[t], 1, c)
  BY <1>1, <1>2, <1>3, PrefixSame
<1>5. c <= Len(ch2[t])
  BY <1>2
<1> QED BY <1>4, <1>5 DEF StateIs

LEMMA StateType ==
    ASSUME NEW ch, ChainOK(ch), NEW t \in Term, NEW c \in Nat, NEW st, StateIs(ch, st, c, t)
    PROVE  st \in State
<1>1. SubSeq(ch[t], 1, c) \in Seq(Entry)
  BY Prefix DEF ChainOK, StateIs
<1> QED BY <1>1, EmptyType, ReplayType DEF StateIs

(* The room before the first entry.                                        *)
LEMMA StateZero ==
    ASSUME NEW ch, ChainOK(ch), NEW t \in Term
    PROVE  StateIs(ch, EmptyState, 0, t)
<1>1. ch[t] \in Seq(Entry) /\ Len(ch[t]) \in Nat
  BY DEF ChainOK
<1>2. SubSeq(ch[t], 1, 0) \in Seq(Entry) /\ Len(SubSeq(ch[t], 1, 0)) = 0
  BY <1>1, Prefix
<1>3. Replay(EmptyState, SubSeq(ch[t], 1, 0)) = EmptyState
  BY <1>2, EmptyType, ReplayNone
<1> QED BY <1>1, <1>3 DEF StateIs

(* Replaying more of the log.                                              *)
LEMMA StateOn ==
    ASSUME NEW ch, ChainOK(ch), NEW r, IsLog(r), NEW t \in Term, Along(ch, r, t),
           NEW c \in Nat, NEW d \in Nat, r.snap.index <= c, c <= d, d <= last_log_index(r),
           NEW st, StateIs(ch, st, c, t)
    PROVE  StateIs(ch, Replay(st, Between(r, c, d)), d, t)
<1> DEFINE s == ch[t]
           a == SubSeq(s, 1, c)
           b == Between(r, c, d)
           e == SubSeq(s, 1, d)
<1>1. s \in Seq(Entry) /\ Len(s) \in Nat
  BY DEF ChainOK
<1>2. d <= Len(s) /\ last_log_index(r) \in Nat /\ r.snap.index \in Nat /\ Len(r.log) \in Nat
      /\ last_log_index(r) = r.snap.index + Len(r.log)
  BY LogLen, <1>1 DEF Along
<1>3. /\ a \in Seq(Entry) /\ Len(a) = c /\ \A i \in 1 .. c : a[i] = s[i]
      /\ e \in Seq(Entry) /\ Len(e) = d /\ \A i \in 1 .. d : e[i] = s[i]
  BY <1>1, <1>2, Prefix
<1>4. /\ b \in Seq(Entry) /\ Len(b) = d - c
      /\ \A k \in 1 .. d - c : b[k] = r.log[(c - r.snap.index) + k]
  BY BetweenOf DEF Part
<1>5. ASSUME NEW k \in 1 .. d - c PROVE b[k] = s[c + k]
  <2>1. (c - r.snap.index) + k \in 1 .. Len(r.log)
        /\ r.snap.index + ((c - r.snap.index) + k) = c + k
    BY <1>2
  <2>2. r.log[(c - r.snap.index) + k] = s[r.snap.index + ((c - r.snap.index) + k)]
    BY <2>1 DEF Along
  <2> QED BY <1>4, <2>1, <2>2
<1> HIDE DEF s, a, b, e
<1>6. Joined(e, a, b)
  <2>1. ASSUME NEW i \in 1 .. Len(a) + Len(b)
        PROVE  e[i] = IF i <= Len(a) THEN a[i] ELSE b[i - Len(a)]
    <3>1. i \in 1 .. d
      BY <1>3, <1>4
    <3>2. CASE i <= c
      BY <3>1, <3>2, <1>3
    <3>3. CASE ~(i <= c)
      <4>1. i - c \in 1 .. d - c /\ c + (i - c) = i
        BY <3>1, <3>3
      <4>2. b[i - c] = s[i]
        BY <4>1, <1>5
      <4> QED BY <4>2, <3>1, <3>3, <1>3
    <3> QED BY <3>2, <3>3
  <2> QED BY <2>1, <1>3, <1>4 DEF Joined
<1>7. Replay(EmptyState, e) = Replay(Replay(EmptyState, a), b)
  BY <1>3, <1>4, <1>6, EmptyType, ReplayJoin
<1>8. st = Replay(EmptyState, a)
  BY DEF StateIs, a, s
<1> QED BY <1>2, <1>7, <1>8 DEF StateIs, e, b, s

LEMMA FitsAny ==
    ASSUME NEW ch, ChainOK(ch), NEW r, IsLog(r), NEW c \in Nat, c <= last_log_index(r),
           StateFits(ch, r, c), NEW t \in Term, Along(ch, r, t)
    PROVE  StateIs(ch, r.state, c, t)
<1>1. PICK u \in Term : Along(ch, r, u) /\ StateIs(ch, r.state, c, u)
  BY DEF StateFits
<1>2. Same(ch, u, t, last_log_index(r)) /\ last_log_index(r) \in Nat
  BY <1>1, AlongUnique, LogLen
<1>3. Same(ch, u, t, c)
  BY <1>2, SameDown
<1> QED BY <1>1, <1>3, StateSame

-----------------------------------------------------------------------------
(* What stays true while members move.                                     *)

LEMMA LaterTrans ==
    ASSUME NEW nd, NEW ch, NEW nd1, NEW ch1, NEW nd2, NEW ch2, ChainOK(ch), ChainOK(ch1), ChainOK(ch2),
           Later(nd, ch, nd1, ch1), Later(nd1, ch1, nd2, ch2)
    PROVE  Later(nd, ch, nd2, ch2)
<1>1. ASSUME NEW t \in Term
      PROVE  /\ Len(ch[t]) <= Len(ch2[t]) /\ \A i \in 1 .. Len(ch[t]) : ch2[t][i] = ch[t][i]
             /\ ch[t] # <<>> => \A i \in Len(ch[t]) + 1 .. Len(ch2[t]) : ch2[t][i].term = t
  <2>1. /\ Len(ch[t]) \in Nat /\ Len(ch1[t]) \in Nat /\ Len(ch2[t]) \in Nat
        /\ (ch[t] # <<>> <=> Len(ch[t]) > 0) /\ (ch1[t] # <<>> <=> Len(ch1[t]) > 0)
    BY ChainLen
  <2>2. /\ Len(ch[t]) <= Len(ch1[t]) /\ \A i \in 1 .. Len(ch[t]) : ch1[t][i] = ch[t][i]
        /\ ch[t] # <<>> => \A i \in Len(ch[t]) + 1 .. Len(ch1[t]) : ch1[t][i].term = t
    BY DEF Later, Grows
  <2>3. /\ Len(ch1[t]) <= Len(ch2[t]) /\ \A i \in 1 .. Len(ch1[t]) : ch2[t][i] = ch1[t][i]
        /\ ch1[t] # <<>> => \A i \in Len(ch1[t]) + 1 .. Len(ch2[t]) : ch2[t][i].term = t
    BY DEF Later, Grows
  <2>4. \A i \in 1 .. Len(ch[t]) : ch2[t][i] = ch[t][i]
    BY <2>1, <2>2, <2>3
  <2>5. ASSUME ch[t] # <<>>, NEW i \in Len(ch[t]) + 1 .. Len(ch2[t]) PROVE ch2[t][i].term = t
    <3>1. CASE i <= Len(ch1[t])
      <4>1. i \in 1 .. Len(ch1[t]) /\ i \in Len(ch[t]) + 1 .. Len(ch1[t])
        BY <3>1, <2>1
      <4>2. ch1[t][i].term = t /\ ch2[t][i] = ch1[t][i]
        BY <4>1, <2>2, <2>3, <2>5
      <4> QED BY <4>2
    <3>2. CASE ~(i <= Len(ch1[t]))
      BY <3>2, <2>1, <2>2, <2>3, <2>5
    <3> QED BY <3>1, <3>2
  <2> QED BY <2>1, <2>2, <2>3, <2>4, <2>5
<1>2. Grows(ch, ch2)
  BY <1>1, Zenon DEF Grows
<1> QED BY <1>2, Zenon DEF Later

LEMMA SnapLater ==
    ASSUME NEW nd, NEW ch, ChainOK(ch), NEW nd2, NEW ch2, ChainOK(ch2), Later(nd, ch, nd2, ch2),
           NEW s, s.index \in Nat, s.term \in Term, NEW b \in Nat, SnapFits(nd, ch, s, b),
           NEW d \in Nat, b <= d
    PROVE  SnapFits(nd2, ch2, s, d)
<1>1. StateIs(ch2, s.state, s.index, s.term)
  BY StateGrow DEF SnapFits, Later
<1>2. CASE s.index = 0
  BY <1>1, <1>2 DEF SnapFits
<1>3. CASE s.index # 0
  <2>1. At(ch, s.term, s.index, s.term) /\ s.term <= b /\ CommittedUpTo(nd, ch, s.index, s.term, b)
    BY <1>3 DEF SnapFits, CommittedUpTo
  <2>2. At(ch2, s.term, s.index, s.term)
    BY <2>1, GrowAt DEF Later
  <2>3. CommittedUpTo(nd2, ch2, s.index, s.term, b)
    BY <2>1, LaterUpTo
  <2>4. CommittedUpTo(nd2, ch2, s.index, s.term, d)
    BY <2>3, UpToLater
  <2>5. s.term <= d
    <3>1. s.term \in Nat
      BY TermNat
    <3> QED BY <2>1, <3>1
  <2> QED BY <1>1, <1>3, <2>2, <2>4, <2>5 DEF SnapFits, CommittedUpTo
<1> QED BY <1>2, <1>3

LEMMA AppendLater ==
    ASSUME NEW nd, NEW ch, ChainOK(ch), NEW nd2, NEW ch2, ChainOK(ch2), Later(nd, ch, nd2, ch2),
           NEW m, AppendTyped(m), AppendFits(nd, ch, m)
    PROVE  AppendFits(nd2, ch2, m)
<1> DEFINE t == m.term
<1>1. /\ t \in Term /\ Len(ch[t]) \in Nat /\ Len(ch2[t]) \in Nat /\ m.prev \in Nat
      /\ Len(m.entries) \in Nat /\ EndOf(m) = m.prev + Len(m.entries)
  BY ChainLen DEF AppendTyped, EndOf
<1>2. Len(ch[t]) <= Len(ch2[t]) /\ \A i \in 1 .. Len(ch[t]) : ch2[t][i] = ch[t][i]
  BY <1>1 DEF Later, Grows
<1>3. /\ EndOf(m) <= Len(ch[t]) /\ \A k \in 1 .. Len(m.entries) : m.entries[k] = ch[t][m.prev + k]
      /\ IF m.prev = 0 THEN m.prevTerm = 0 ELSE ch[t][m.prev].term = m.prevTerm
      /\ CommittedUpTo(nd, ch, m.commit, t, t)
  BY DEF AppendFits
<1>4. CommittedUpTo(nd2, ch2, m.commit, t, t)
  BY <1>1, <1>3, LaterUpTo
<1>5. ASSUME NEW k \in 1 .. Len(m.entries) PROVE m.entries[k] = ch2[t][m.prev + k]
  <2>1. m.prev + k \in 1 .. Len(ch[t])
    BY <1>1, <1>3
  <2> QED BY <2>1, <1>2, <1>3
<1>6. m.prev # 0 => ch2[t][m.prev].term = m.prevTerm
  <2> SUFFICES ASSUME m.prev # 0 PROVE ch2[t][m.prev].term = m.prevTerm
    OBVIOUS
  <2>1. m.prev \in 1 .. Len(ch[t])
    BY <1>1, <1>3
  <2> QED BY <2>1, <1>2, <1>3
<1> HIDE DEF t
<1>7. EndOf(m) <= Len(ch2[t])
  BY <1>1, <1>2, <1>3
<1> QED BY <1>3, <1>4, <1>5, <1>6, <1>7 DEF AppendFits, t

LEMMA FitsGrow ==
    ASSUME NEW ch, ChainOK(ch), NEW ch2, ChainOK(ch2), Grows(ch, ch2), NEW r, IsLog(r),
           NEW c \in Nat, StateFits(ch, r, c)
    PROVE  StateFits(ch2, r, c)
BY GrowAlong, StateGrow DEF StateFits

-----------------------------------------------------------------------------
(* The members of one state.                                               *)

SnapRec == [index : Nat, term : Term, state : State]

LogRec == { l \in Seq(Entry) : Len(l) <= MaxEntries }

Rec ==
    [status : {"up", "down", "stopped"}, term : Term, leads : BOOLEAN, log : LogRec,
     snap : SnapRec, commit : Nat, state : State, arch : SUBSET Heads]

SentType(sn) == \A v \in Node : sn[v].append.term \in Term /\ sn[v].append.index \in Nat

Cursors(r) == r.snap.index <= r.commit /\ r.commit <= last_log_index(r)

Sound(nd, ch, sn) ==
    /\ nd \in [Node -> Rec] /\ SentType(sn) /\ \A v \in Node : Cursors(nd[v])
    /\ Raft(nd, ch, sn)
    /\ \A v \in Node : SnapFits(nd, ch, nd[v].snap, nd[v].term)

(* A member that has not stopped has applied what it committed.            *)
Serves(ch, r) == r.status = "stopped" \/ StateFits(ch, r, r.commit)

LEMMA RecLog ==
    ASSUME NEW r \in Rec
    PROVE  IsLog(r) /\ r.term \in Term /\ r.commit \in Nat /\ r.snap.index \in Nat
           /\ r.snap.term \in Term /\ last_log_index(r) \in Nat /\ r.term \in Nat
BY TermNat, LogLen DEF Rec, IsLog, SnapRec, LogRec

LEMMA SoundTyped ==
    ASSUME NEW nd, NEW ch, NEW sn, Sound(nd, ch, sn)
    PROVE  Typed(nd, sn) /\ ChainOK(ch) /\ Raft(nd, ch, sn)
<1>1. ASSUME NEW v \in Node
      PROVE  /\ IsLog(nd[v]) /\ nd[v].term \in Term /\ nd[v].commit \in Nat
             /\ nd[v].snap.index <= nd[v].commit /\ nd[v].commit <= last_log_index(nd[v])
  BY RecLog DEF Sound, Cursors
<1> QED BY <1>1 DEF Typed, Sound, SentType, Raft

(* One member is replaced by r.                                            *)
LEMMA Replaced ==
    ASSUME NEW nd, NEW ch, NEW sn, Sound(nd, ch, sn), NEW n \in Node,
           NEW r \in Rec, Cursors(r), NEW sn2, SentType(sn2),
           Moves(nd, ch, sn, n, r, sn2[n].append),
           \A v \in Node : v # n => sn2[v].append = sn[v].append,
           SnapFits(nd, ch, r.snap, r.term)
    PROVE  Sound([nd EXCEPT ![n] = r], ch, sn2) /\ Later(nd, ch, [nd EXCEPT ![n] = r], ch)
<1> DEFINE nd2 == [nd EXCEPT ![n] = r]
<1>1. Typed(nd, sn) /\ ChainOK(ch) /\ Raft(nd, ch, sn) /\ nd \in [Node -> Rec]
  BY SoundTyped DEF Sound
<1>2. nd2 \in [Node -> Rec] /\ nd2[n] = r /\ \A v \in Node : v # n => nd2[v] = nd[v]
  BY <1>1
<1> HIDE DEF nd2
<1>3. \A v \in Node : Cursors(nd2[v])
  BY <1>2 DEF Sound
<1>4. Typed(nd2, sn2)
  <2>1. ASSUME NEW v \in Node
        PROVE  /\ IsLog(nd2[v]) /\ nd2[v].term \in Term /\ nd2[v].commit \in Nat
               /\ nd2[v].snap.index <= nd2[v].commit /\ nd2[v].commit <= last_log_index(nd2[v])
    BY RecLog, <1>2, <1>3 DEF Cursors
  <2> QED BY <2>1 DEF Typed, SentType
<1>5. Raft(nd2, ch, sn2) /\ Later(nd, ch, nd2, ch)
  <2>1. Moves(nd, ch, sn, n, nd2[n], sn2[n].append)
    BY <1>2
  <2>2. \A v \in Node : v # n => nd2[v] = nd[v] /\ sn2[v].append = sn[v].append
    BY <1>2
  <2> QED BY <1>1, <1>4, <2>1, <2>2, OneMoves
<1>6. ASSUME NEW v \in Node PROVE SnapFits(nd2, ch, nd2[v].snap, nd2[v].term)
  <2>1. SnapFits(nd, ch, nd2[v].snap, nd2[v].term)
    BY <1>2 DEF Sound
  <2>2. nd2[v].snap.index \in Nat /\ nd2[v].snap.term \in Term /\ nd2[v].term \in Nat
    BY <1>2, RecLog
  <2>3. nd2[v].term <= nd2[v].term
    BY <2>2
  <2> QED BY <1>1, <1>5, <2>1, <2>2, <2>3, SnapLater
<1>7. Sound(nd2, ch, sn2)
  BY <1>2, <1>3, <1>5, <1>6 DEF Sound
<1> QED BY <1>5, <1>7 DEF nd2

LEMMA SameLog ==
    ASSUME NEW r, NEW r2, r2.snap = r.snap, r2.log = r.log
    PROVE  /\ last_log_index(r2) = last_log_index(r) /\ last_log_term(r2) = last_log_term(r)
           /\ \A ch, t : Along(ch, r2, t) <=> Along(ch, r, t)
           /\ \A i : term_at(r2, i) = term_at(r, i) /\ entry(r2, i) = entry(r, i)
           /\ \A i, j : Between(r2, i, j) = Between(r, i, j)
BY DEF last_log_index, last_log_term, term_at, Along, Between, entry

(* The log of r stays, and its term may grow.                              *)
Alike(r, r2) ==
    /\ r2.snap = r.snap /\ r2.log = r.log /\ r2.commit = r.commit /\ r2.term >= r.term
    /\ r2.leads => r.leads /\ r2.term = r.term

LEMMA LikeMoves ==
    ASSUME NEW nd, NEW ch, NEW sn, Sound(nd, ch, sn), NEW n \in Node, NEW r \in Rec,
           Alike(nd[n], r)
    PROVE  Moves(nd, ch, sn, n, r, sn[n].append) /\ Cursors(r) /\ SnapFits(nd, ch, r.snap, r.term)
<1>1. Typed(nd, sn) /\ Raft(nd, ch, sn) /\ nd[n] \in Rec /\ Cursors(nd[n]) /\ ChainOK(ch)
  BY SoundTyped DEF Sound
<1>2. last_log_index(r) = last_log_index(nd[n]) /\ \A t : Along(ch, r, t) <=> Along(ch, nd[n], t)
  BY SameLog DEF Alike
<1>3. Cursors(r)
  BY <1>1, <1>2 DEF Cursors, Alike
<1>4. Moves(nd, ch, sn, n, r, sn[n].append)
  BY <1>1, <1>2, MoveLike, RecLog DEF Alike
<1>5. SnapFits(nd, ch, r.snap, r.term)
  <2>1. SnapFits(nd, ch, r.snap, nd[n].term)
    BY DEF Sound, Alike
  <2>2. Later(nd, ch, nd, ch)
    <3>1. Moves(nd, ch, sn, n, nd[n], sn[n].append)
      BY <1>1, MoveStill
    <3> QED BY <3>1, <1>1, OneMoves
  <2>3. r.snap.index \in Nat /\ r.snap.term \in Term /\ r.term \in Nat /\ nd[n].term \in Nat
    BY <1>1, RecLog
  <2>4. nd[n].term <= r.term
    BY <2>3 DEF Alike
  <2> QED BY <1>1, <2>1, <2>2, <2>3, <2>4, SnapLater
<1> QED BY <1>3, <1>4, <1>5

LEMMA Likened ==
    ASSUME NEW nd, NEW ch, NEW sn, Sound(nd, ch, sn), NEW n \in Node, NEW r \in Rec,
           Alike(nd[n], r)
    PROVE  Sound([nd EXCEPT ![n] = r], ch, sn) /\ Later(nd, ch, [nd EXCEPT ![n] = r], ch)
<1>1. SentType(sn)
  BY DEF Sound
<1> QED BY LikeMoves, Replaced, <1>1

-----------------------------------------------------------------------------
(* Cluster::outputs.                                                       *)

(* r2 is r after it applied what it committed, with room state st.         *)
Outcome(r, st, r2) ==
    /\ r2 \in Rec /\ r2.term >= r.term /\ r2.commit = r.commit
    /\ r2.leads => r.leads /\ r2.term = r.term
    /\ \/ r2.status = "stopped" /\ r2.snap = r.snap /\ r2.log = r.log
       \/ /\ r2.status = r.status /\ r2.state = st
          /\ \/ r2.snap = r.snap /\ r2.log = r.log
             \/ /\ r2.snap = [index |-> r.commit, term |-> term_at(r, r.commit), state |-> st]
                /\ r2.log = Between(r, r.commit, last_log_index(r))

LEMMA SettledOutcome ==
    ASSUME NEW n \in Node, NEW r \in Rec, Cursors(r), term_at(r, r.commit) \in Term,
           Replay(r.state, Fresh(n, r)) \in State
    PROVE  Outcome(r, Replay(r.state, Fresh(n, r)), Settled(n, r)) /\ Settled(n, r).term = r.term
<1> DEFINE st == Replay(r.state, Fresh(n, r))
           a == [r EXCEPT !.state = st]
           s == [index |-> r.commit, term |-> term_at(r, r.commit), state |-> st]
           l == Between(r, r.commit, last_log_index(r))
           b == [a EXCEPT !.snap = s, !.log = l]
           c == collect(b, Leases(n))
<1>1. IsLog(r) /\ r.commit \in Nat /\ last_log_index(r) \in Nat /\ r.term \in Nat /\ r.term >= r.term
  BY RecLog
<1>2. l \in LogRec
  <2>0. last_log_index(r) <= last_log_index(r) /\ r.snap.index <= r.commit
        /\ r.commit <= last_log_index(r)
    BY <1>1 DEF Cursors
  <2>0a. Part(r, r.commit, last_log_index(r), l)
    BY <1>1, <2>0, BetweenOf
  <2>1. l \in Seq(Entry) /\ Len(l) = last_log_index(r) - r.commit
    BY <2>0a DEF Part
  <2>2. last_log_index(r) = r.snap.index + Len(r.log) /\ r.snap.index \in Nat /\ Len(r.log) \in Nat
    BY <1>1, LogLen
  <2>3. Len(r.log) <= MaxEntries
    BY DEF Rec, LogRec
  <2>4. Len(l) <= MaxEntries
    BY <1>1, <2>1, <2>2, <2>3, ReplicaAssumption DEF Cursors
  <2> QED BY <2>1, <2>4 DEF LogRec
<1>3. s \in SnapRec
  <2> HIDE DEF st
  <2> QED BY <1>1 DEF SnapRec, st
<1> HIDE DEF st, s, l
<1>4. st \in State
  BY DEF st
<1>5. a \in Rec /\ a.snap = r.snap /\ a.log = r.log /\ a.commit = r.commit /\ a.state = st
      /\ a.term = r.term /\ a.leads = r.leads /\ a.status = r.status
  BY <1>4 DEF Rec
<1>6. b \in Rec /\ b.term = r.term /\ b.commit = r.commit /\ b.status = r.status
      /\ b.leads = r.leads /\ b.state = st /\ b.snap = s /\ b.log = l
  BY <1>2, <1>3, <1>5 DEF Rec
<1>7. c \in Rec /\ c.term = r.term /\ c.commit = r.commit /\ c.status = r.status
      /\ c.leads = r.leads /\ c.state = st /\ c.snap = s /\ c.log = l
  <2> HIDE DEF b
  <2>1. b.arch \cap (retained_heads(b.state) \cup References(b) \cup Leases(n)) \in SUBSET Heads
    BY <1>6 DEF Rec
  <2> QED BY <2>1, <1>6 DEF collect, Rec
<1>8. /\ term_at(a, a.commit) = term_at(r, r.commit)
      /\ Between(a, a.commit, last_log_index(a)) = Between(r, r.commit, last_log_index(r))
  <2> HIDE DEF a
  <2>1. last_log_index(a) = last_log_index(r)
    BY <1>5, SameLog
  <2> QED BY <1>5, <2>1, SameLog
<1>9. Applied(n, r) = a
  BY DEF Applied, st
<1>10. compact(a) = b
  <2> HIDE DEF a
  <2>1. compact(a) = [a EXCEPT !.snap = [index |-> a.commit, term |-> term_at(a, a.commit), state |-> a.state],
                               !.log = Between(a, a.commit, last_log_index(a))]
    BY DEF compact
  <2> QED BY <2>1, <1>5, <1>8 DEF s, l
<1>11. Stopped(r) \in Rec /\ Stopped(r).term = r.term /\ Stopped(r).commit = r.commit
       /\ Stopped(r).status = "stopped" /\ ~Stopped(r).leads /\ Stopped(r).snap = r.snap
       /\ Stopped(r).log = r.log
  BY DEF Stopped, Rec
<1>12. Settled(n, r) \in {Stopped(r), c, a}
  <2> HIDE DEF a, b
  <2> QED BY <1>9, <1>10 DEF Settled
<1> HIDE DEF a, c
<1>13. Outcome(r, st, Stopped(r))
  BY <1>1, <1>11 DEF Outcome
<1>14. Outcome(r, st, a)
  BY <1>1, <1>5 DEF Outcome
<1>15. Outcome(r, st, c)
  BY <1>1, <1>7 DEF Outcome, s, l
<1> QED BY <1>5, <1>7, <1>11, <1>12, <1>13, <1>14, <1>15 DEF st

LEMMA CommitTerm ==
    ASSUME NEW nd, NEW ch, NEW sn, Sound(nd, ch, sn), NEW n \in Node
    PROVE  /\ term_at(nd[n], nd[n].commit) \in Term
           /\ \A t \in Term : Along(ch, nd[n], t) =>
                 IF nd[n].commit = 0 THEN term_at(nd[n], nd[n].commit) = 0
                 ELSE At(ch, t, nd[n].commit, term_at(nd[n], nd[n].commit))
<1>1. Typed(nd, sn) /\ Raft(nd, ch, sn) /\ nd[n] \in Rec /\ Cursors(nd[n]) /\ ChainOK(ch)
  BY SoundTyped DEF Sound
<1>2. IsLog(nd[n]) /\ nd[n].commit \in Nat /\ nd[n].snap.index \in Nat /\ nd[n].snap.term \in Term
  BY <1>1, RecLog
<1>3. PICK x \in Term : Along(ch, nd[n], x)
  BY <1>1 DEF Raft, Placed
<1>4. CASE nd[n].commit = 0
  <2>1. nd[n].snap.index = 0
    BY <1>1, <1>2, <1>4 DEF Cursors
  <2>2. term_at(nd[n], nd[n].commit) = nd[n].snap.term
    BY <2>1, <1>4 DEF term_at
  <2>3. nd[n].snap.term = 0
    BY <2>1, <1>3 DEF Along
  <2> QED BY <1>2, <1>4, <2>2, <2>3
<1>5. CASE nd[n].commit # 0
  <2>1. \A t \in Term : Along(ch, nd[n], t) => At(ch, t, nd[n].commit, term_at(nd[n], nd[n].commit))
    BY <1>1, <1>2, <1>5, AlongAt DEF Cursors
  <2>2. term_at(nd[n], nd[n].commit) \in Term
    BY <1>1, <1>3, <2>1, AtParts
  <2> QED BY <1>5, <2>1, <2>2
<1> QED BY <1>4, <1>5

(* Compaction and application leave a member where it is.                  *)
LEMMA OutcomeMoves ==
    ASSUME NEW nd, NEW ch, NEW sn, Sound(nd, ch, sn), NEW n \in Node, NEW st \in State,
           \E x \in Term : Along(ch, nd[n], x) /\ StateIs(ch, st, nd[n].commit, x),
           NEW r, Outcome(nd[n], st, r)
    PROVE  /\ r \in Rec /\ Cursors(r) /\ Moves(nd, ch, sn, n, r, sn[n].append)
           /\ SnapFits(nd, ch, r.snap, r.term) /\ Serves(ch, r)
           /\ last_log_index(r) = last_log_index(nd[n]) /\ last_log_term(r) = last_log_term(nd[n])
<1>1. Typed(nd, sn) /\ Raft(nd, ch, sn) /\ nd[n] \in Rec /\ Cursors(nd[n]) /\ ChainOK(ch)
  BY SoundTyped DEF Sound
<1>2. /\ r \in Rec /\ r.term >= nd[n].term /\ r.commit = nd[n].commit
      /\ (r.leads => nd[n].leads /\ r.term = nd[n].term)
      /\ \/ r.status = "stopped" /\ r.snap = nd[n].snap /\ r.log = nd[n].log
         \/ r.state = st /\ r.snap = nd[n].snap /\ r.log = nd[n].log
         \/ /\ r.state = st
            /\ r.snap = [index |-> r.commit, term |-> term_at(nd[n], r.commit), state |-> st]
            /\ r.log = Between(nd[n], r.commit, last_log_index(nd[n]))
  BY DEF Outcome
<1>3. /\ IsLog(nd[n]) /\ nd[n].commit \in Nat /\ nd[n].term \in Nat /\ last_log_index(nd[n]) \in Nat
      /\ IsLog(r)
  BY <1>1, <1>2, RecLog
<1>4. PICK x \in Term : Along(ch, nd[n], x) /\ StateIs(ch, st, nd[n].commit, x)
  OBVIOUS
<1>5. CASE r.snap = nd[n].snap /\ r.log = nd[n].log
  <2>1. Alike(nd[n], r)
    BY <1>2, <1>3, <1>5 DEF Alike
  <2>2. last_log_index(r) = last_log_index(nd[n]) /\ last_log_term(r) = last_log_term(nd[n])
        /\ Along(ch, r, x)
    BY <1>5, <1>4, SameLog
  <2>3. r.status = "stopped" \/ r.state = st
    BY <1>2
  <2>4. Serves(ch, r)
    BY <2>2, <2>3, <1>2, <1>4 DEF Serves, StateFits
  <2> QED BY <1>2, <2>1, <2>2, <2>4, LikeMoves
<1>6. CASE /\ r.state = st
           /\ r.snap = [index |-> r.commit, term |-> term_at(nd[n], r.commit), state |-> st]
           /\ r.log = Between(nd[n], r.commit, last_log_index(nd[n]))
  <2>1. /\ r.snap.index = nd[n].commit /\ r.snap.term = term_at(nd[n], nd[n].commit)
        /\ r.snap.term \in Term /\ r.snap.state = st
        /\ r.log = Between(nd[n], nd[n].commit, last_log_index(nd[n]))
    BY <1>2, <1>6, CommitTerm
  <2>2. /\ nd[n].snap.index <= nd[n].commit /\ nd[n].commit <= last_log_index(nd[n])
    BY <1>1 DEF Cursors
  <2>3. \A t \in Term : Along(ch, nd[n], t) =>
           last_log_index(r) = last_log_index(nd[n]) /\ Along(ch, r, t)
    BY <1>1, <1>3, <2>1, <2>2, CutAlong
  <2>4. last_log_index(r) = last_log_index(nd[n]) /\ Along(ch, r, x)
    BY <1>4, <2>3
  <2>5. Cursors(r)
    BY <2>1, <2>2, <2>4, <1>2, <1>3 DEF Cursors
  <2>6. Moves(nd, ch, sn, n, r, sn[n].append)
    <3>1. r.term \in Term /\ r.term >= nd[n].term /\ (r.leads => nd[n].leads /\ r.term = nd[n].term)
      BY <1>1, <1>2, <1>3, RecLog
    <3> QED BY <1>1, <1>2, <2>3, <2>4, <3>1, MoveLike
  <2>7. last_log_term(r) = last_log_term(nd[n])
    <3> DEFINE l == last_log_index(r)
    <3>1. CASE l = 0
      <4>1. last_log_index(nd[n]) = 0
        BY <3>1, <2>4
      <4> QED BY <3>1, <4>1, <2>4, <1>1, <1>3, <1>4, AlongLast
    <3>2. CASE l # 0
      <4>1. /\ l \in Nat \ {0} /\ r.snap.index <= l /\ l <= last_log_index(r)
            /\ nd[n].snap.index <= l /\ l <= last_log_index(nd[n])
        BY <3>2, <2>1, <2>2, <2>4, <1>3, LogLen
      <4>2. At(ch, x, l, term_at(r, l)) /\ At(ch, x, l, term_at(nd[n], l))
        BY <4>1, <2>4, <1>1, <1>3, <1>4, AlongAt
      <4>3. term_at(r, l) = term_at(nd[n], l)
        BY <4>2 DEF At
      <4> QED BY <4>3, <2>4 DEF last_log_term
    <3> QED BY <3>1, <3>2
  <2>8. Serves(ch, r)
    BY <2>1, <2>4, <1>2, <1>4, <1>6 DEF Serves, StateFits
  <2>9. SnapFits(nd, ch, r.snap, r.term)
    <3> DEFINE c == nd[n].commit
               u == r.snap.term
    <3>1. c \in Nat /\ u \in Term /\ r.snap.index = c
      BY <1>3, <2>1
    <3>2. CASE c = 0
      <4>1. u = 0
        BY <3>2, <2>1, <1>4, CommitTerm
      <4>2. StateIs(ch, st, 0, u)
        <5>1. StateIs(ch, st, 0, x)
          BY <3>2, <1>4
        <5>2. Same(ch, x, u, 0)
          <6>1. Len(ch[x]) \in Nat /\ Len(ch[u]) \in Nat
            BY <3>1, <1>1, ChainLen
          <6> QED BY <6>1 DEF Same
        <5> QED BY <5>1, <5>2, <3>1, <1>1, StateSame
      <4> QED BY <4>1, <4>2, <3>1, <3>2, <2>1 DEF SnapFits
    <3>3. CASE c # 0
      <4>1. At(ch, x, c, u)
        BY <3>3, <2>1, <1>4, CommitTerm
      <4>2. At(ch, u, c, u) /\ u <= x
        BY <4>1, <1>1, AtParts
      <4>3. Same(ch, x, u, c)
        BY <4>1, <4>2, <3>1, <1>1, SameTerm
      <4>4. StateIs(ch, st, c, u)
        BY <4>3, <3>1, <1>1, <1>4, StateSame
      <4>5. CommittedUpTo(nd, ch, c, x, nd[n].term)
        BY <1>1, <1>4, PlacedAt
      <4>6. CommittedUpTo(nd, ch, c, u, nd[n].term)
        <5>1. c <= c
          BY <3>1
        <5> QED BY <4>3, <4>5, <5>1, <3>1, <1>1, UpToDown
      <4>7. PICK y \in Term : y <= nd[n].term /\ Along(ch, nd[n], y)
        BY <1>1 DEF Raft, Placed
      <4>8. At(ch, y, c, u)
        BY <4>7, <3>3, <2>1, CommitTerm
      <4>9. u <= y
        BY <4>8, <1>1, AtParts
      <4>10. u <= r.term /\ nd[n].term \in Nat /\ r.term \in Nat /\ nd[n].term <= r.term
        <5>1. u \in Nat /\ y \in Nat /\ nd[n].term \in Nat /\ r.term \in Nat
          BY <3>1, <1>2, <1>3, TermNat, RecLog
        <5> QED BY <5>1, <1>2, <4>7, <4>9
      <4>11. CommittedUpTo(nd, ch, c, u, r.term)
        BY <4>6, <4>10, UpToLater
      <4> QED BY <4>2, <4>4, <4>10, <4>11, <3>1, <3>3, <2>1, <1>2 DEF SnapFits, CommittedUpTo
    <3> QED BY <3>2, <3>3
  <2> QED BY <1>2, <2>4, <2>5, <2>6, <2>7, <2>8, <2>9
<1> QED BY <1>2, <1>5, <1>6

-----------------------------------------------------------------------------
(* Engine steps.                                                           *)

Good(nd, ch, sn) == Sound(nd, ch, sn) /\ \A v \in Node : Serves(ch, nd[v])

(* Nothing of r is taken back, and it leads no more than it did.           *)
Onward(r, r2) ==
    /\ r.commit <= r2.commit /\ r.term <= r2.term
    /\ r2.leads => r.leads /\ r2.term = r.term /\ last_log_index(r2) = last_log_index(r)
    /\ r2.status = "up" => r.status = "up"

(* Members move to nd, and their acknowledgements to sn.                   *)
Steady(nd, sn) ==
    /\ Good(nd, chain, sn) /\ Later(node, chain, nd, chain)
    /\ \A v \in Node : Onward(node[v], nd[v])

LEMMA MaxLeft ==
    ASSUME NEW a \in Nat, NEW b \in Nat, b <= a
    PROVE  Max({a, b}) = a
BY MaxOf

(* A client may be told of entry i of term u.                              *)
Told(nd, ch, i, u) == \E t \in Term : At(ch, t, i, u) /\ Committed(nd, ch, i, t, MaxTerm)

(* r is well formed, and clients may be told of what it has committed.     *)
Tells(n, r, nd, ch) ==
    /\ r \in Rec /\ Cursors(r) /\ r.snap.index \in Nat /\ r.commit \in Nat /\ r.commit <= nd[n].commit
    /\ \A i \in Nat : r.snap.index < i /\ i <= r.commit =>
          Told(nd, ch, i, entry(r, i).term) /\ term_at(r, i) = entry(r, i).term

LEMMA ToldLater ==
    ASSUME NEW nd, NEW ch, ChainOK(ch), NEW nd2, NEW ch2, ChainOK(ch2), Later(nd, ch, nd2, ch2),
           NEW i, NEW u, Told(nd, ch, i, u)
    PROVE  Told(nd2, ch2, i, u)
<1>1. PICK t \in Term : At(ch, t, i, u) /\ CommittedUpTo(nd, ch, i, t, MaxTerm)
  BY DEF Told, CommittedUpTo
<1>2. At(ch2, t, i, u)
  BY <1>1, GrowAt DEF Later
<1>3. CommittedUpTo(nd2, ch2, i, t, MaxTerm)
  BY <1>1, LaterUpTo
<1>4. i # 0
  BY <1>1, AtParts
<1> QED BY <1>2, <1>3, <1>4 DEF Told, CommittedUpTo

LEMMA ToldOf ==
    ASSUME NEW nd, NEW ch, NEW sn, Sound(nd, ch, sn), NEW n \in Node, NEW i \in Nat \ {0},
           nd[n].snap.index <= i, i <= nd[n].commit
    PROVE  Told(nd, ch, i, term_at(nd[n], i))
           /\ (nd[n].snap.index < i => term_at(nd[n], i) = entry(nd[n], i).term)
<1>1. Typed(nd, sn) /\ Raft(nd, ch, sn) /\ nd[n] \in Rec /\ Cursors(nd[n]) /\ ChainOK(ch)
  BY SoundTyped DEF Sound
<1>2. /\ IsLog(nd[n]) /\ nd[n].commit \in Nat /\ nd[n].snap.index \in Nat /\ nd[n].term \in Nat
      /\ nd[n].term <= MaxTerm /\ MaxTerm \in Nat /\ last_log_index(nd[n]) \in Nat
  BY <1>1, RecLog, TermNat
<1>3. PICK t \in Term : Along(ch, nd[n], t)
  BY <1>1 DEF Raft, Placed
<1>4. CommittedUpTo(nd, ch, nd[n].commit, t, nd[n].term)
  BY <1>1, <1>3, PlacedAt
<1>5. i <= last_log_index(nd[n])
  BY <1>1, <1>2 DEF Cursors
<1>6. At(ch, t, i, term_at(nd[n], i))
  BY <1>1, <1>2, <1>3, <1>5, AlongAt
<1>7. CommittedUpTo(nd, ch, i, t, MaxTerm)
  <2>1. Same(ch, t, t, nd[n].commit)
    <3>1. nd[n].commit <= Len(ch[t])
      BY <1>1, <1>2, <1>3, ChainLen DEF Along, Cursors
    <3> QED BY <3>1 DEF Same
  <2>2. Same(ch, t, t, i)
    BY <1>1, <1>2, <2>1, SameDown
  <2>3. CommittedUpTo(nd, ch, i, t, nd[n].term)
    BY <1>1, <1>2, <1>4, <2>2, UpToDown
  <2> QED BY <2>3, <1>2, UpToLater
<1>8. nd[n].snap.index < i => term_at(nd[n], i) = entry(nd[n], i).term
  BY <1>2, <1>5 DEF term_at, entry
<1> QED BY <1>6, <1>7, <1>8 DEF Told, CommittedUpTo

LEMMA TellsOf ==
    ASSUME NEW nd, NEW ch, NEW sn, Sound(nd, ch, sn), NEW n \in Node, NEW nd2, NEW ch2, ChainOK(ch2),
           Later(nd, ch, nd2, ch2), nd[n].commit <= nd2[n].commit
    PROVE  Tells(n, nd[n], nd2, ch2)
<1>1. /\ ChainOK(ch) /\ nd[n].snap.index \in Nat /\ nd[n].commit \in Nat
      /\ nd[n] \in Rec /\ Cursors(nd[n])
  BY SoundTyped, RecLog DEF Sound
<1>2. ASSUME NEW i \in Nat, nd[n].snap.index < i, i <= nd[n].commit
      PROVE  Told(nd2, ch2, i, entry(nd[n], i).term) /\ term_at(nd[n], i) = entry(nd[n], i).term
  <2>1. i \in Nat \ {0} /\ nd[n].snap.index <= i
    BY <1>1, <1>2
  <2>2. Told(nd, ch, i, entry(nd[n], i).term) /\ term_at(nd[n], i) = entry(nd[n], i).term
    BY <1>2, <2>1, ToldOf
  <2> QED BY <1>1, <2>2, ToldLater
<1> QED BY <1>1, <1>2 DEF Tells

LEMMA OnwardSelf ==
    ASSUME NEW r \in Rec
    PROVE  Onward(r, r)
<1>1. r.commit \in Nat /\ r.term \in Nat
  BY RecLog
<1> QED BY <1>1 DEF Onward

LEMMA SettleStep ==
    ASSUME NEW nd, NEW ch, NEW sn, Sound(nd, ch, sn), NEW n \in Node, node \in [Node -> Rec],
           Max({node[n].commit, nd[n].snap.index}) <= nd[n].commit,
           StateFits(ch, nd[n], Max({node[n].commit, nd[n].snap.index})),
           \A v \in Node : v # n => Serves(ch, nd[v])
    PROVE  /\ Good([nd EXCEPT ![n] = Settled(n, nd[n])], ch, sn)
           /\ Later(nd, ch, [nd EXCEPT ![n] = Settled(n, nd[n])], ch)
           /\ Onward(nd[n], Settled(n, nd[n])) /\ Settled(n, nd[n]) \in Rec
<1> DEFINE r == nd[n]
           c == Max({node[n].commit, r.snap.index})
           st == Replay(r.state, Fresh(n, r))
           r2 == Settled(n, r)
           nd2 == [nd EXCEPT ![n] = r2]
<1>1. Typed(nd, sn) /\ Raft(nd, ch, sn) /\ r \in Rec /\ Cursors(r) /\ ChainOK(ch) /\ SentType(sn)
      /\ nd \in [Node -> Rec]
  BY SoundTyped DEF Sound
<1>2. IsLog(r) /\ r.commit \in Nat /\ r.snap.index \in Nat /\ node[n].commit \in Nat
      /\ r.term \in Nat
  BY <1>1, RecLog
<1>3. c \in Nat /\ r.snap.index <= c /\ c <= r.commit /\ r.commit <= last_log_index(r)
  BY <1>1, <1>2, MaxOf DEF Cursors
<1>4. PICK x \in Term : Along(ch, r, x) /\ StateIs(ch, r.state, c, x)
  BY DEF StateFits
<1>5. Fresh(n, r) = Between(r, c, r.commit)
  BY DEF Fresh
<1>6. StateIs(ch, st, r.commit, x)
  BY <1>1, <1>2, <1>3, <1>4, <1>5, StateOn
<1>7. st \in State
  BY <1>1, <1>2, <1>6, StateType
<1>8. term_at(r, r.commit) \in Term
  BY CommitTerm
<1>9. Outcome(r, st, r2)
  BY <1>1, <1>7, <1>8, SettledOutcome
<1> HIDE DEF st, r2
<1>10. /\ r2 \in Rec /\ Cursors(r2) /\ Moves(nd, ch, sn, n, r2, sn[n].append)
       /\ SnapFits(nd, ch, r2.snap, r2.term) /\ Serves(ch, r2)
       /\ last_log_index(r2) = last_log_index(r)
  BY <1>4, <1>6, <1>7, <1>9, OutcomeMoves
<1>11. Sound(nd2, ch, sn) /\ Later(nd, ch, nd2, ch)
  BY <1>1, <1>10, Replaced
<1>12. \A v \in Node : Serves(ch, nd2[v])
  BY <1>1, <1>10
<1>13. Onward(r, r2)
  BY <1>2, <1>9, <1>10 DEF Onward, Outcome
<1> QED BY <1>10, <1>11, <1>12, <1>13 DEF Good, r2

(* The room state of a member is still what it has committed after it      *)
(* moved.                                                                  *)
LEMMA StateMoves ==
    ASSUME NEW nd, NEW ch, NEW sn, Sound(nd, ch, sn), NEW n \in Node,
           StateFits(ch, nd[n], nd[n].commit), NEW r, NEW a, Moves(nd, ch, sn, n, r, a),
           r.commit \in Nat, nd[n].commit <= r.commit, r.state = nd[n].state
    PROVE  StateFits(ch, r, nd[n].commit)
<1> DEFINE c == nd[n].commit
<1>1. Typed(nd, sn) /\ Raft(nd, ch, sn) /\ nd[n] \in Rec /\ ChainOK(ch)
  BY SoundTyped DEF Sound
<1>2. c \in Nat
  BY <1>1, RecLog
<1>3. PICK t \in Term : Along(ch, r, t) /\ CommittedUpTo(nd, ch, r.commit, t, r.term)
  BY DEF Moves
<1>4. PICK x \in Term : Along(ch, nd[n], x) /\ StateIs(ch, nd[n].state, c, x)
  BY DEF StateFits
<1>5. CommittedUpTo(nd, ch, c, x, nd[n].term)
  BY <1>1, <1>4, PlacedAt
<1>6. Same(ch, x, t, c)
  <2>1. CASE c = 0
    <3>1. Len(ch[x]) \in Nat /\ Len(ch[t]) \in Nat
      BY <1>1, ChainLen
    <3> QED BY <2>1, <3>1 DEF Same
  <2>2. CASE c # 0
    <3>1. Committed(nd, ch, c, x, nd[n].term) /\ Committed(nd, ch, r.commit, t, r.term) /\ c <= c
      BY <2>2, <1>2, <1>3, <1>5 DEF CommittedUpTo
    <3> QED BY <3>1, <1>1, <1>2, CommittedMeet
  <2> QED BY <2>1, <2>2
<1>7. StateIs(ch, r.state, c, t)
  BY <1>1, <1>2, <1>4, <1>6, StateSame
<1> QED BY <1>3, <1>7 DEF StateFits

LEMMA FollowIs ==
    ASSUME NEW r \in Rec, NEW t \in Term
    PROVE  /\ Follow(r, t) \in Rec /\ Alike(r, Follow(r, t)) /\ Follow(r, t).state = r.state
           /\ Follow(r, t).status = r.status /\ Follow(r, t).arch = r.arch
           /\ t >= r.term => Follow(r, t).term = t
           /\ t > r.term => ~Follow(r, t).leads
<1>1. t \in Nat /\ r.term \in Nat
  BY TermNat, RecLog
<1>2. CASE t > r.term
  <2> DEFINE f == [r EXCEPT !.term = t, !.leads = FALSE]
  <2>1. f \in Rec /\ f.snap = r.snap /\ f.log = r.log /\ f.commit = r.commit /\ f.term = t
        /\ f.leads = FALSE /\ f.state = r.state /\ f.status = r.status /\ f.arch = r.arch
    BY DEF Rec
  <2>2. Follow(r, t) = f
    BY <1>2 DEF Follow
  <2> HIDE DEF f
  <2> QED BY <1>1, <1>2, <2>1, <2>2 DEF Alike
<1>3. CASE ~(t > r.term)
  BY <1>1, <1>3 DEF Follow, Alike
<1> QED BY <1>2, <1>3

(* A member becomes a follower of a later term.                            *)
LEMMA FollowSound ==
    ASSUME Good(node, chain, sent), NEW n \in Node, Up(n), NEW t \in Term, NEW f, f = Follow(node[n], t)
    PROVE  /\ Sound([node EXCEPT ![n] = f], chain, sent)
           /\ Later(node, chain, [node EXCEPT ![n] = f], chain)
           /\ StateFits(chain, f, f.commit) /\ f.snap.index <= f.commit /\ f.commit \in Nat
           /\ f \in Rec /\ Onward(node[n], f) /\ f.commit = node[n].commit /\ f.status = "up"
           /\ node \in [Node -> Rec] /\ node[n] \in Rec
<1>1. Sound(node, chain, sent) /\ node \in [Node -> Rec] /\ node[n] \in Rec /\ node[n].status = "up"
  BY DEF Good, Sound, Up
<1>2. /\ f \in Rec /\ Alike(node[n], f) /\ f.state = node[n].state /\ f.status = node[n].status
  BY <1>1, FollowIs
<1>3. last_log_index(f) = last_log_index(node[n])
      /\ \A x : Along(chain, f, x) <=> Along(chain, node[n], x)
  BY <1>2, SameLog DEF Alike
<1>4. StateFits(chain, node[n], node[n].commit)
  BY <1>1 DEF Good, Serves
<1>5. StateFits(chain, f, f.commit)
  BY <1>2, <1>3, <1>4 DEF StateFits, Alike
<1>6. Onward(node[n], f) /\ f.commit = node[n].commit /\ f.commit \in Nat
  <2>1. node[n].commit \in Nat /\ node[n].term \in Nat /\ f.term \in Nat
    BY <1>1, <1>2, RecLog
  <2> QED BY <2>1, <1>2, <1>3 DEF Alike, Onward
<1>7. f.snap.index <= f.commit
  BY <1>1, <1>2 DEF Sound, Cursors, Alike
<1> QED BY <1>1, <1>2, <1>5, <1>6, <1>7, Likened

LEMMA OnwardTrans ==
    ASSUME NEW r \in Rec, NEW s \in Rec, NEW t \in Rec, Onward(r, s), Onward(s, t)
    PROVE  Onward(r, t)
<1>1. /\ r.commit \in Nat /\ r.term \in Nat /\ s.commit \in Nat /\ s.term \in Nat
      /\ t.commit \in Nat /\ t.term \in Nat
  BY RecLog
<1> QED BY <1>1 DEF Onward

(* Cluster::outputs after member n became nd[n].                           *)
LEMMA StepSettles ==
    ASSUME Good(node, chain, sent), NEW n \in Node, NEW nd, NEW sn, Sound(nd, chain, sn),
           Later(node, chain, nd, chain), \A v \in Node : v # n => nd[v] = node[v],
           Onward(node[n], nd[n]), nd[n].snap.index <= nd[n].commit,
           StateFits(chain, nd[n], Max({node[n].commit, nd[n].snap.index})),
           NEW nd2, nd2 = [node EXCEPT ![n] = Settled(n, nd[n])]
    PROVE  Steady(nd2, sn) /\ Tells(n, nd[n], nd2, chain)
<1>1. node \in [Node -> Rec] /\ nd \in [Node -> Rec] /\ ChainOK(chain)
  BY SoundTyped DEF Good, Sound
<1>2. /\ node[n] \in Rec /\ nd[n] \in Rec /\ node[n].commit \in Nat /\ nd[n].commit \in Nat
      /\ nd[n].snap.index \in Nat
  BY <1>1, RecLog
<1>3. Max({node[n].commit, nd[n].snap.index}) <= nd[n].commit
  BY <1>2, MaxOf DEF Onward
<1>4. \A v \in Node : v # n => Serves(chain, nd[v])
  BY DEF Good
<1>5. [nd EXCEPT ![n] = Settled(n, nd[n])] = nd2
  BY <1>1
<1>6. /\ Good(nd2, chain, sn) /\ Later(nd, chain, nd2, chain)
      /\ Onward(nd[n], Settled(n, nd[n])) /\ Settled(n, nd[n]) \in Rec
  <2>1. Sound(nd, chain, sn)
    OBVIOUS
  <2>2. /\ Good([nd EXCEPT ![n] = Settled(n, nd[n])], chain, sn)
        /\ Later(nd, chain, [nd EXCEPT ![n] = Settled(n, nd[n])], chain)
        /\ Onward(nd[n], Settled(n, nd[n])) /\ Settled(n, nd[n]) \in Rec
    BY <1>1, <1>3, <1>4, <2>1, SettleStep, Zenon
  <2> QED BY <1>5, <2>2, Zenon
<1>7. Later(node, chain, nd2, chain)
  BY <1>1, <1>6, LaterTrans
<1>8. ASSUME NEW v \in Node PROVE Onward(node[v], nd2[v])
  <2>1. CASE v = n
    <3>1. nd2[n] = Settled(n, nd[n])
      BY <1>1
    <3> QED BY <2>1, <3>1, <1>2, <1>6, OnwardTrans
  <2>2. CASE v # n
    <3>1. nd2[v] = node[v] /\ node[v] \in Rec
      BY <2>2, <1>1
    <3> QED BY <3>1, OnwardSelf
  <2> QED BY <2>1, <2>2
<1>9. Tells(n, nd[n], nd2, chain)
  <2>1. nd[n].commit <= nd2[n].commit
    <3>1. nd2[n] = Settled(n, nd[n])
      BY <1>1
    <3> QED BY <3>1, <1>6 DEF Onward
  <2> QED BY <1>1, <1>6, <2>1, TellsOf
<1> QED BY <1>6, <1>7, <1>8, <1>9 DEF Steady

LEMMA FollowSettles ==
    ASSUME Good(node, chain, sent), NEW n \in Node, Up(n), NEW t \in Term,
           NEW nd2, nd2 = [node EXCEPT ![n] = Settled(n, Follow(node[n], t))]
    PROVE  Steady(nd2, sent) /\ Tells(n, Follow(node[n], t), nd2, chain)
<1> DEFINE f == Follow(node[n], t)
           nd == [node EXCEPT ![n] = f]
<1>1. /\ Sound(nd, chain, sent) /\ Later(node, chain, nd, chain) /\ node \in [Node -> Rec]
      /\ StateFits(chain, f, f.commit) /\ f.snap.index <= f.commit /\ Onward(node[n], f)
      /\ f.commit = node[n].commit /\ f \in Rec
  BY FollowSound
<1>2. nd[n] = f /\ \A v \in Node : v # n => nd[v] = node[v]
  BY <1>1
<1>3. Max({node[n].commit, f.snap.index}) = f.commit
  <2>1. f.snap.index \in Nat /\ f.commit \in Nat
    BY <1>1, RecLog
  <2>2. Max({f.commit, f.snap.index}) = f.commit
    BY <2>1, <1>1, MaxOf
  <2> QED BY <1>1, <2>2
<1> HIDE DEF nd, f
<1>4. nd2 = [node EXCEPT ![n] = Settled(n, nd[n])]
  BY <1>2 DEF f
<1>5. Steady(nd2, sent) /\ Tells(n, nd[n], nd2, chain)
  BY <1>1, <1>2, <1>3, <1>4, StepSettles
<1> QED BY <1>2, <1>5 DEF f

SentSet == [Node -> [append : [term : Term, index : Nat], snap : Nat]]

(* engine.rs step on AppendEntries.                                        *)
LEMMA AppendSettles ==
    ASSUME Good(node, chain, sent), sent \in SentSet, NEW n \in Node, Up(n),
           NEW m, AppendTyped(m), AppendFits(node, chain, m), m.term >= node[n].term,
           NEW nd2, nd2 = [node EXCEPT ![n] = Settled(n, AppendStep(node[n], m))],
           NEW sn2, sn2 = IF Appends(Follow(node[n], m.term), m)
                          THEN [sent EXCEPT ![n].append = [term |-> m.term, index |-> Matched(n, m)]]
                          ELSE sent
    PROVE  Steady(nd2, sn2) /\ sn2 \in SentSet /\ Tells(n, AppendStep(node[n], m), nd2, chain)
<1> DEFINE f == Follow(node[n], m.term)
           nd == [node EXCEPT ![n] = f]
           r == [f EXCEPT !.log = append_entries(f, m.prev, m.entries),
                          !.commit = Max({@, Min({m.commit, EndOf(m)})})]
           nd1 == [nd EXCEPT ![n] = r]
           a == [term |-> m.term, index |-> Matched(n, m)]
<1>0. m.term \in Term
  BY DEF AppendTyped
<1>1. /\ Sound(nd, chain, sent) /\ Later(node, chain, nd, chain) /\ node \in [Node -> Rec]
      /\ StateFits(chain, f, f.commit) /\ f.snap.index <= f.commit /\ Onward(node[n], f)
      /\ f.commit = node[n].commit /\ f \in Rec /\ f.term = m.term
  <2>1. node[n] \in Rec
    BY DEF Good, Sound
  <2>2. Follow(node[n], m.term).term = m.term
    BY <1>0, <2>1, FollowIs
  <2> QED BY <1>0, <2>2, FollowSound
<1>2. nd[n] = f /\ nd \in [Node -> Rec] /\ \A v \in Node : v # n => nd[v] = node[v]
  BY <1>1
<1>3. CASE ~Appends(f, m)
  <2>1. sn2 = sent /\ AppendStep(node[n], m) = Follow(node[n], m.term)
    BY <1>3 DEF AppendStep
  <2> QED BY <2>1, <1>0, FollowSettles
<1>4. CASE Appends(f, m)
  <2> HIDE DEF nd, f
  <2>1. AppendStep(node[n], m) = r /\ sn2 = [sent EXCEPT ![n].append = a]
    BY <1>4 DEF AppendStep, f
  <2>2. /\ Typed(nd, sent) /\ ChainOK(chain) /\ Raft(nd, chain, sent)
        /\ f.commit \in Nat /\ m.commit \in Nat /\ EndOf(m) \in Nat /\ m.prev \in Nat
        /\ m.entries \in Seq(Entry) /\ f.snap.index \in Nat
    BY <1>1, SoundTyped, RecLog DEF AppendTyped, EndOf
  <2>3. AppendFits(nd, chain, m)
    BY <1>1, <2>2, AppendLater
  <2>4. Max({f.commit, Min({m.commit, EndOf(m)})}) \in Nat
    BY <2>2, MaxOf, MinOf
  <2>5. /\ r.term = f.term /\ r.leads = f.leads /\ r.snap = f.snap /\ r.status = f.status
        /\ r.state = f.state /\ r.log = append_entries(f, m.prev, m.entries)
        /\ r.commit = Max({f.commit, Min({m.commit, EndOf(m)})})
    BY <1>1 DEF Rec
  <2>6. Follows(nd[n], m, r)
    BY <2>5, <1>2 DEF Follows
  <2>7. /\ a.term = m.term /\ a.index \in Nat
        /\ a.index = EndOf(m) \/ (sent[n].append.term = m.term /\ a.index = sent[n].append.index)
    <3>1. sent[n].append.index \in Nat
      BY DEF SentSet
    <3>2. Matched(n, m) \in Nat
          /\ (Matched(n, m) = EndOf(m)
               \/ (sent[n].append.term = m.term /\ Matched(n, m) = sent[n].append.index))
      BY <3>1, <2>2, MaxOf DEF Matched
    <3> QED BY <3>2
  <2>8. m.term = nd[n].term /\ Appends(nd[n], m)
    BY <1>1, <1>2, <1>4
  <2> HIDE DEF r, a
  <2>9. /\ IsLog(r) /\ r.commit \in Nat /\ nd[n].commit <= r.commit
        /\ r.commit <= last_log_index(r) /\ Moves(nd, chain, sent, n, r, a)
    BY <2>2, <2>3, <2>6, <2>7, <2>8, MoveAppend
  <2>10. r.log \in LogRec
    <3>1. r.log \in Seq(Entry)
      BY <2>9 DEF IsLog
    <3>2. f.log \in LogRec /\ f.log \in Seq(Entry) /\ IsLog(f)
      BY <1>1, RecLog DEF Rec, LogRec
    <3>3. CASE r.log = f.log
      BY <3>2, <3>3
    <3>4. CASE r.log # f.log
      <4> DEFINE h == SubSeq(f.log, 1, m.prev - f.snap.index)
      <4>1. r.log = h \o m.entries
        BY <3>4, <2>5 DEF append_entries
      <4>2. term_at(f, m.prev) = m.prevTerm /\ EndOf(m) - f.snap.index <= MaxEntries
        BY <1>4 DEF Appends
      <4>3. m.prevTerm # MaxTerm + 1
        BY TermNat DEF AppendTyped
      <4>4. f.snap.index <= m.prev /\ m.prev <= last_log_index(f)
        <5>1. last_log_index(f) \in Nat /\ f.snap.index <= last_log_index(f)
          BY <3>2, LogLen
        <5> QED BY <4>2, <4>3, <5>1, <2>2 DEF term_at
      <4>5. m.prev - f.snap.index \in Nat /\ m.prev - f.snap.index <= Len(f.log)
        BY <4>4, <2>2, <3>2, LogLen
      <4>6. h \in Seq(Entry) /\ Len(h) = m.prev - f.snap.index
        BY <4>5, <3>2, Prefix
      <4> HIDE DEF h
      <4>7. Len(r.log) = Len(h) + Len(m.entries)
        BY <4>1, <4>6, <2>2, ConcatOf
      <4>8. Len(r.log) = EndOf(m) - f.snap.index
        BY <4>6, <4>7, <2>2 DEF EndOf
      <4> QED BY <4>2, <4>8, <3>1 DEF LogRec
    <3> QED BY <3>3, <3>4
  <2>11. r \in Rec
    <3>1. r = [f EXCEPT !.log = r.log, !.commit = r.commit]
      BY <1>1, <2>5 DEF r, Rec
    <3> QED BY <3>1, <2>9, <2>10, <1>1 DEF Rec
  <2>12. Cursors(r)
    BY <1>1, <1>2, <2>2, <2>5, <2>9 DEF Cursors
  <2>13. /\ sn2 \in SentSet /\ sn2[n].append = a /\ \A v \in Node : v # n => sn2[v] = sent[v]
    <3>1. a \in [term : Term, index : Nat]
      BY <1>0, <2>7 DEF a
    <3> QED BY <2>1, <3>1 DEF SentSet
  <2>14. SentType(sn2)
    BY <2>13 DEF SentSet, SentType
  <2>15. SnapFits(nd, chain, r.snap, r.term)
    BY <1>1, <1>2, <2>5 DEF Sound
  <2>16. Sound(nd1, chain, sn2) /\ Later(nd, chain, nd1, chain)
    BY <1>1, <2>9, <2>11, <2>12, <2>13, <2>14, <2>15, Replaced
  <2>17. nd1[n] = r /\ \A v \in Node : v # n => nd1[v] = node[v]
    BY <1>2
  <2> HIDE DEF nd1
  <2>18. Later(node, chain, nd1, chain)
    BY <1>1, <2>2, <2>16, LaterTrans
  <2>19. Onward(node[n], r)
    <3>1. node[n].commit <= r.commit
      BY <1>1, <1>2, <2>9
    <3>2. r.leads => FALSE \/ (f.leads /\ f.term = node[n].term)
      BY <1>1, <2>5 DEF Onward
    <3>3. r.leads => last_log_index(r) = last_log_index(f)
      BY <2>9, <1>2 DEF Moves
    <3> QED BY <1>1, <2>5, <3>1, <3>2, <3>3 DEF Onward
  <2>20. StateFits(chain, r, f.commit)
    BY <1>1, <1>2, <2>5, <2>9, StateMoves
  <2>21. Max({node[n].commit, r.snap.index}) = f.commit
    <3>1. Max({f.commit, f.snap.index}) = f.commit
      BY <1>1, <2>2, MaxLeft
    <3> QED BY <3>1, <1>1, <2>5
  <2>22. nd2 = [node EXCEPT ![n] = Settled(n, nd1[n])]
    BY <2>1, <2>17
  <2>23. nd1[n].snap.index <= nd1[n].commit
    BY <2>12, <2>17 DEF Cursors
  <2>24. Steady(nd2, sn2) /\ Tells(n, nd1[n], nd2, chain)
    BY <2>16, <2>17, <2>18, <2>19, <2>20, <2>21, <2>22, <2>23, StepSettles
  <2> QED BY <2>1, <2>13, <2>17, <2>24
<1> QED BY <1>3, <1>4

LEMMA MaxRight ==
    ASSUME NEW a \in Nat, NEW b \in Nat, a <= b
    PROVE  Max({a, b}) = b
BY MaxOf

(* The acknowledged snapshots play no part.                                *)
LEMMA SentAlike ==
    ASSUME NEW nd, NEW sn, Steady(nd, sn), NEW sn2, SentType(sn2), Node # {},
           \A v \in Node : sn2[v].append = sn[v].append
    PROVE  Steady(nd, sn2)
<1>1. PICK n \in Node : TRUE
  OBVIOUS
<1>2. Sound(nd, chain, sn) /\ nd \in [Node -> Rec] /\ nd[n] \in Rec /\ Cursors(nd[n])
      /\ SnapFits(nd, chain, nd[n].snap, nd[n].term)
  BY <1>1 DEF Steady, Good, Sound
<1>3. Moves(nd, chain, sn, n, nd[n], sn2[n].append)
  <2>1. Moves(nd, chain, sn, n, nd[n], sn[n].append)
    BY <1>1, <1>2, SoundTyped, MoveStill
  <2> QED BY <2>1, <1>1
<1>4. Sound([nd EXCEPT ![n] = nd[n]], chain, sn2)
  BY <1>1, <1>2, <1>3, Replaced
<1>5. [nd EXCEPT ![n] = nd[n]] = nd
  BY <1>2
<1>6. Sound(nd, chain, sn2)
  BY <1>4, <1>5, Zenon
<1> QED BY <1>6 DEF Steady, Good

(* A snapshot lies on every chain that the log after it runs along.        *)
LEMMA SnapAlong ==
    ASSUME NEW nd, NEW ch, ChainOK(ch), NEW r, IsLog(r), NEW b, SnapFits(nd, ch, r.snap, b),
           NEW t \in Term, Along(ch, r, t)
    PROVE  StateIs(ch, r.snap.state, r.snap.index, t)
<1> DEFINE i == r.snap.index
           u == r.snap.term
<1>1. i \in Nat /\ u \in Term /\ StateIs(ch, r.snap.state, i, u) /\ last_log_index(r) \in Nat
      /\ i <= last_log_index(r)
  BY LogLen DEF IsLog, SnapFits
<1>2. Same(ch, u, t, i)
  <2>1. CASE i = 0
    <3>1. Len(ch[t]) \in Nat /\ Len(ch[u]) \in Nat
      BY <1>1, ChainLen
    <3> QED BY <2>1, <3>1 DEF Same
  <2>2. CASE i # 0
    <3>1. At(ch, u, i, u)
      BY <2>2 DEF SnapFits
    <3>2. i \in Nat \ {0} /\ i <= i
      BY <2>2, <1>1
    <3>3. At(ch, t, i, term_at(r, i))
      BY <3>2, <1>1, AlongAt
    <3>4. term_at(r, i) = u
      BY <1>1 DEF term_at
    <3> QED BY <3>1, <3>3, <3>4, <1>1, SameTerm
  <2> QED BY <2>1, <2>2
<1> QED BY <1>1, <1>2, StateSame

(* Inbound::Prepared for a snapshot.                                       *)
LEMMA InstallSettles ==
    ASSUME Good(node, chain, sent), NEW n \in Node, Up(n),
           NEW m, m.term \in Term, m.snap \in SnapRec, SnapFits(node, chain, m.snap, m.term),
           m.term >= node[n].term,
           NEW nd2, nd2 = [node EXCEPT ![n] = Settled(n, InstallStep(node[n], m))]
    PROVE  Steady(nd2, sent) /\ Tells(n, InstallStep(node[n], m), nd2, chain)
<1> DEFINE f == Follow(node[n], m.term)
           s == m.snap
           nd == [node EXCEPT ![n] = f]
           r == [install_snapshot(f, s) EXCEPT !.commit = s.index, !.state = s.state]
           nd1 == [nd EXCEPT ![n] = r]
<1>1. /\ Sound(nd, chain, sent) /\ Later(node, chain, nd, chain) /\ node \in [Node -> Rec]
      /\ StateFits(chain, f, f.commit) /\ f.snap.index <= f.commit /\ Onward(node[n], f)
      /\ f.commit = node[n].commit /\ f \in Rec /\ f.term = m.term
  <2>1. node[n] \in Rec
    BY DEF Good, Sound
  <2>2. Follow(node[n], m.term).term = m.term
    BY <2>1, FollowIs
  <2> QED BY <2>2, FollowSound
<1>2. nd[n] = f /\ nd \in [Node -> Rec] /\ \A v \in Node : v # n => nd[v] = node[v]
  BY <1>1
<1>3. CASE ~(s.index > f.commit)
  <2>1. InstallStep(node[n], m) = Follow(node[n], m.term)
    BY <1>3 DEF InstallStep
  <2> QED BY <2>1, FollowSettles
<1>4. CASE s.index > f.commit
  <2> HIDE DEF nd, f
  <2>1. InstallStep(node[n], m) = r
    BY <1>4 DEF InstallStep, f
  <2>2. /\ Typed(nd, sent) /\ ChainOK(chain) /\ Raft(nd, chain, sent) /\ SentType(sent)
        /\ f.commit \in Nat /\ s.index \in Nat /\ s.term \in Term /\ s.state \in State
        /\ f.snap.index \in Nat /\ f.term \in Nat /\ m.term \in Nat /\ IsLog(f)
        /\ last_log_index(f) \in Nat /\ Cursors(f)
    BY <1>1, <1>2, SoundTyped, RecLog, TermNat DEF SnapRec, Sound
  <2>3. SnapFits(nd, chain, s, f.term)
    <3>1. m.term <= f.term
      BY <1>1, <2>2
    <3> QED BY <3>1, <1>1, <2>2, SnapLater
  <2>4. /\ s.index # 0 /\ At(chain, s.term, s.index, s.term) /\ s.term <= nd[n].term
        /\ Committed(nd, chain, s.index, s.term, nd[n].term)
    <3>1. s.index # 0
      BY <1>4, <2>2
    <3> QED BY <3>1, <2>3, <1>2 DEF SnapFits
  <2>5. /\ r.term = f.term /\ r.leads = f.leads /\ r.snap = s /\ r.status = f.status
        /\ r.state = s.state /\ r.commit = s.index
        /\ r.log = IF term_at(f, s.index) = s.term
                   THEN Between(f, s.index, last_log_index(f)) ELSE <<>>
    BY <1>1 DEF Rec, install_snapshot
  <2>6. Installed(nd[n], s, r)
    BY <2>5, <1>2 DEF Installed
  <2>7. s.index > nd[n].commit
    BY <1>2, <1>4
  <2>8. r.log \in LogRec
    <3>1. CASE term_at(f, s.index) = s.term
      <4>1. s.index <= last_log_index(f)
        <5>1. s.term # MaxTerm + 1
          BY <2>2, TermNat
        <5>2. s.index # f.snap.index
          BY <1>1, <1>4, <2>2
        <5> QED BY <5>1, <5>2, <3>1 DEF term_at
      <4>2. f.snap.index <= s.index
        BY <1>1, <1>4, <2>2
      <4>3. r.log \in Seq(Entry) /\ Len(r.log) = last_log_index(f) - s.index
        BY <2>2, <2>5, <3>1, <4>1, <4>2, BetweenOf DEF Part
      <4>4. last_log_index(f) = f.snap.index + Len(f.log) /\ Len(f.log) \in Nat
            /\ Len(f.log) <= MaxEntries
        BY <1>1, <2>2, LogLen DEF Rec, LogRec
      <4> HIDE DEF r
      <4>5. Len(r.log) <= MaxEntries
        <5> DEFINE a == last_log_index(f)
                   b == f.snap.index
                   c == s.index
                   d == Len(f.log)
                   e == Len(r.log)
        <5>1. /\ a \in Nat /\ b \in Nat /\ c \in Nat /\ d \in Nat /\ a = b + d /\ b <= c /\ c <= a
              /\ e = a - c /\ d <= MaxEntries /\ MaxEntries \in Nat
          BY <2>2, <4>1, <4>2, <4>3, <4>4, ReplicaAssumption
        <5> HIDE DEF a, b, c, d, e
        <5>2. e <= MaxEntries
          BY <5>1
        <5> QED BY <5>2 DEF e
      <4> QED BY <4>3, <4>5 DEF LogRec
    <3>2. CASE term_at(f, s.index) # s.term
      <4>1. r.log = <<>>
        BY <3>2, <2>5
      <4> HIDE DEF r
      <4> QED BY <4>1, ReplicaAssumption DEF LogRec
    <3> QED BY <3>1, <3>2
  <2>9. r \in Rec
    <3> DEFINE g == install_snapshot(f, s)
    <3>1. g = [f EXCEPT !.snap = s, !.log = r.log]
      BY <2>5 DEF install_snapshot
    <3>2. s \in SnapRec /\ r.log \in LogRec
      BY <2>8
    <3>3. g \in Rec
      <4> HIDE DEF g, s, r
      <4> QED BY <3>1, <3>2, <1>1 DEF Rec
    <3>4. r = [g EXCEPT !.commit = s.index, !.state = s.state]
      OBVIOUS
    <3> HIDE DEF g, s, r
    <3> QED BY <3>3, <3>4, <2>2 DEF Rec
  <2> HIDE DEF r
  <2>10. r.commit \in Nat /\ r.commit <= last_log_index(r) /\ Moves(nd, chain, sent, n, r, sent[n].append)
    BY <2>2, <2>4, <2>6, <2>7, MoveInstall
  <2>11. Cursors(r)
    BY <2>5, <2>2, <2>10 DEF Cursors
  <2>12. SnapFits(nd, chain, r.snap, r.term)
    BY <2>3, <2>5
  <2>13. Sound(nd1, chain, sent) /\ Later(nd, chain, nd1, chain)
    BY <1>1, <2>2, <2>9, <2>10, <2>11, <2>12, Replaced
  <2>14. nd1[n] = r /\ \A v \in Node : v # n => nd1[v] = node[v]
    BY <1>2
  <2> HIDE DEF nd1
  <2>15. Later(node, chain, nd1, chain)
    BY <1>1, <2>2, <2>13, LaterTrans
  <2>16. Onward(node[n], r)
    <3>1. node[n].commit <= r.commit
      BY <1>1, <1>4, <2>2, <2>5
    <3>2. r.leads => last_log_index(r) = last_log_index(f)
      BY <2>10, <1>2 DEF Moves
    <3> QED BY <1>1, <2>5, <3>1, <3>2 DEF Onward
  <2>17. StateFits(chain, r, r.snap.index)
    <3>1. PICK t \in Term : Along(chain, r, t)
      BY <2>10 DEF Moves
    <3>2. IsLog(r)
      BY <2>9, RecLog
    <3>3. StateIs(chain, r.snap.state, r.snap.index, t)
      BY <3>1, <3>2, <2>2, <2>12, SnapAlong
    <3> QED BY <3>1, <3>3, <2>5 DEF StateFits
  <2>18. Max({node[n].commit, r.snap.index}) = r.snap.index
    <3>1. r.snap.index \in Nat /\ node[n].commit \in Nat /\ node[n].commit <= r.snap.index
      BY <1>1, <1>4, <2>2, <2>5
    <3> QED BY <3>1, MaxRight
  <2>19. nd2 = [node EXCEPT ![n] = Settled(n, nd1[n])]
    BY <2>1, <2>14
  <2>20. nd1[n].snap.index <= nd1[n].commit
    BY <2>11, <2>14 DEF Cursors
  <2>21. Steady(nd2, sent) /\ Tells(n, nd1[n], nd2, chain)
    BY <2>13, <2>14, <2>15, <2>16, <2>17, <2>18, <2>19, <2>20, StepSettles
  <2> QED BY <2>1, <2>14, <2>21
<1> QED BY <1>3, <1>4

(* The leader commits what a quorum has acknowledged.                      *)
LEMMA CommitSettles ==
    ASSUME Good(node, chain, sent), NEW l \in Node, Leads(l), NEW i \in Nat,
           i <= last_log_index(node[l]), i > node[l].commit, Commits(l, i),
           NEW nd2, nd2 = [node EXCEPT ![l] = Settled(l, [node[l] EXCEPT !.commit = i])]
    PROVE  Steady(nd2, sent) /\ Tells(l, [node[l] EXCEPT !.commit = i], nd2, chain)
<1> DEFINE t == node[l].term
           r == [node[l] EXCEPT !.commit = i]
           nd == [node EXCEPT ![l] = r]
<1>1. /\ Sound(node, chain, sent) /\ Typed(node, sent) /\ ChainOK(chain) /\ Raft(node, chain, sent)
      /\ SentType(sent) /\ node \in [Node -> Rec] /\ node[l] \in Rec /\ Cursors(node[l])
      /\ SnapFits(node, chain, node[l].snap, node[l].term)
  BY SoundTyped DEF Good, Sound
<1>2. /\ IsLog(node[l]) /\ t \in Term /\ t \in Nat /\ node[l].commit \in Nat /\ node[l].snap.index \in Nat
      /\ i \in Nat \ {0} /\ node[l].snap.index <= i /\ last_log_index(node[l]) \in Nat
  BY <1>1, RecLog DEF Cursors
<1>3. Along(chain, node[l], t)
  BY <1>1 DEF Raft, LeaderOK, Leads
<1>4. At(chain, t, i, t)
  <2>1. At(chain, t, i, term_at(node[l], i))
    BY <1>1, <1>2, <1>3, AlongAt
  <2> QED BY <2>1 DEF Commits
<1>5. Has(chain, node[l], i, t)
  BY <1>2, <1>3, <1>4 DEF Has
<1>6. Durable(node, chain, i, t)
  <2> DEFINE q == Holding(l, i) \cap Voter
  <2>1. q \in Quorum
    BY DEF Commits
  <2>2. ASSUME NEW v \in q
        PROVE  \/ node[v].term = t /\ Has(chain, node[v], i, t)
               \/ sent[v].append.term = t /\ sent[v].append.index >= i
    BY <1>5 DEF Holding
  <2> HIDE DEF q
  <2> QED BY <1>1, <1>2, <1>4, <2>1, <2>2, QuorumDurable
<1>7. CommittedUpTo(node, chain, i, t, t)
  <2>1. i \in 1 .. Len(chain[t]) /\ i \in 1 .. i /\ i <= Len(chain[t]) /\ t <= t
    BY <1>2, <1>4 DEF At
  <2> QED BY <2>1, <1>2, <1>6 DEF Committed, CommittedUpTo
<1>8. /\ r \in Rec /\ r.snap = node[l].snap /\ r.log = node[l].log /\ r.term = node[l].term
      /\ r.leads = node[l].leads /\ r.state = node[l].state /\ r.commit = i
      /\ r.status = node[l].status
  BY <1>1 DEF Rec
<1> HIDE DEF r
<1>9. /\ last_log_index(r) = last_log_index(node[l])
      /\ \A x : Along(chain, r, x) <=> Along(chain, node[l], x)
  BY <1>8, SameLog
<1>10. Moves(node, chain, sent, l, r, sent[l].append)
  <2>1. /\ r.term \in Term /\ r.term >= node[l].term /\ (r.leads => node[l].leads /\ r.term = node[l].term)
        /\ t <= r.term
    BY <1>2, <1>8
  <2>2. CommittedUpTo(node, chain, r.commit, t, r.term)
    BY <1>7, <1>8
  <2> QED BY <1>1, <1>2, <1>3, <1>9, <2>1, <2>2, MoveLike
<1>11. Cursors(r)
  BY <1>1, <1>2, <1>8, <1>9 DEF Cursors
<1>12. Sound(nd, chain, sent) /\ Later(node, chain, nd, chain)
  BY <1>1, <1>8, <1>10, <1>11, Replaced
<1>13. nd[l] = r /\ \A v \in Node : v # l => nd[v] = node[v]
  BY <1>1
<1> HIDE DEF nd
<1>14. node[l].commit <= r.commit /\ r.commit \in Nat
  BY <1>2, <1>8
<1>15. Onward(node[l], r)
  BY <1>2, <1>8, <1>9, <1>14 DEF Onward
<1>16. StateFits(chain, node[l], node[l].commit)
  BY DEF Good, Serves, Leads, Up
<1>17. StateFits(chain, r, node[l].commit)
  BY <1>1, <1>8, <1>10, <1>14, <1>16, StateMoves
<1>18. Max({node[l].commit, r.snap.index}) = node[l].commit
  BY <1>1, <1>2, <1>8, MaxLeft DEF Cursors
<1>19. nd2 = [node EXCEPT ![l] = Settled(l, nd[l])]
  BY <1>13 DEF r
<1>20. nd[l].snap.index <= nd[l].commit
  BY <1>11, <1>13 DEF Cursors
<1>21. Steady(nd2, sent) /\ Tells(l, nd[l], nd2, chain)
  BY <1>12, <1>13, <1>15, <1>17, <1>18, <1>19, <1>20, StepSettles
<1> QED BY <1>13, <1>21 DEF r

-----------------------------------------------------------------------------
(* Leader steps.                                                           *)

LEMMA ShorterAlong ==
    ASSUME NEW ch, ChainOK(ch), NEW r, IsLog(r), NEW e \in Entry, NEW r2, r2.snap = r.snap,
           r2.log = Append(r.log, e), NEW t \in Term, Along(ch, r2, t)
    PROVE  Along(ch, r, t) /\ last_log_index(r2) = last_log_index(r) + 1
<1>1. r.log \in Seq(Entry) /\ Len(r.log) \in Nat /\ r.snap.index \in Nat
  BY DEF IsLog
<1>2. /\ Len(r2.log) = Len(r.log) + 1 /\ \A i \in 1 .. Len(r.log) : r2.log[i] = r.log[i]
  BY <1>1, AppendOf
<1>3. last_log_index(r2) = last_log_index(r) + 1 /\ last_log_index(r) \in Nat
  BY <1>1, <1>2 DEF last_log_index
<1>4. last_log_index(r) <= Len(ch[t])
  BY <1>3, ChainLen DEF Along
<1>5. ASSUME NEW i \in 1 .. Len(r.log) PROVE r.log[i] = ch[t][r.snap.index + i]
  <2>1. i \in 1 .. Len(r2.log)
    BY <1>1, <1>2
  <2> QED BY <2>1, <1>2 DEF Along
<1> QED BY <1>3, <1>4, <1>5 DEF Along

(* The leader of t has logged e as entry l and become a.                   *)
LedTo(nd, n, t, e, a, ch2, l) ==
    /\ Sound(nd, chain, sent) /\ node \in [Node -> Rec] /\ n \in Node
    /\ t \in Term /\ nd[n].term = t /\ nd[n].commit = node[n].commit
    /\ StateFits(chain, nd[n], nd[n].commit) /\ \A v \in Node : v # n => Serves(chain, nd[v])
    /\ e \in Entry /\ a \in Rec /\ a.snap = nd[n].snap /\ a.log = Append(nd[n].log, e)
    /\ a.commit = nd[n].commit /\ a.term = t /\ a.state = nd[n].state
    /\ Led(nd, chain, sent, n, t, l, [nd EXCEPT ![n] = a], ch2)

(* It has settled.                                                         *)
LedDone(nd, n, t, a, ch2, l, nd2) ==
    /\ Good(nd2, ch2, sent) /\ Later(nd, chain, nd2, ch2) /\ ChainOK(ch2)
    /\ Tells(n, Advance(n, a), nd2, ch2)
    /\ l = last_log_index(nd[n]) + 1 /\ At(ch2, t, l, t)
    /\ nd[n].commit <= nd2[n].commit /\ nd2[n].term = t /\ nd2[n] \in Rec
    /\ nd2[n].leads => last_log_index(nd2[n]) = l
    /\ nd2[n].status = "up" => a.status = "up"

LEMMA LedSettles ==
    ASSUME NEW nd, NEW n, NEW t, NEW e, NEW a, NEW ch2, NEW l, LedTo(nd, n, t, e, a, ch2, l),
           NEW nd2, nd2 = [nd EXCEPT ![n] = Settled(n, Advance(n, a))]
    PROVE  LedDone(nd, n, t, a, ch2, l, nd2)
<1> USE DEF LedTo
<1> DEFINE nd1 == [nd EXCEPT ![n] = a]
           r == Advance(n, a)
           nd3 == [nd1 EXCEPT ![n] = r]
           c == nd[n].commit
<1>1. /\ nd \in [Node -> Rec] /\ nd[n] \in Rec /\ Cursors(nd[n]) /\ ChainOK(chain) /\ SentType(sent)
      /\ \A v \in Node : SnapFits(nd, chain, nd[v].snap, nd[v].term)
      /\ \A v \in Node : Cursors(nd[v])
  BY SoundTyped DEF Sound
<1>2. nd1 \in [Node -> Rec] /\ nd1[n] = a /\ \A v \in Node : v # n => nd1[v] = nd[v]
  BY <1>1
<1> HIDE DEF nd1
<1>3. /\ Typed(nd1, sent) /\ Raft(nd1, ch2, sent) /\ Later(nd, chain, nd1, ch2) /\ ChainOK(ch2)
      /\ last_log_index(a) = l /\ At(ch2, t, l, t) /\ Has(ch2, a, l, t)
  BY <1>2 DEF Led, nd1, Raft
<1>4. PICK y \in Term : Along(ch2, a, y)
  BY <1>2, <1>3 DEF Raft, Placed
<1>5. Along(ch2, nd[n], y) /\ l = last_log_index(nd[n]) + 1 /\ IsLog(nd[n]) /\ IsLog(a)
  <2>1. IsLog(nd[n]) /\ IsLog(a)
    BY <1>1, RecLog
  <2> QED BY <1>3, <1>4, <2>1, ShorterAlong
<1>6. /\ c \in Nat /\ last_log_index(nd[n]) \in Nat /\ l \in Nat /\ a.snap.index \in Nat
      /\ c <= last_log_index(nd[n]) /\ a.snap.index <= c /\ l \in Nat \ {0}
  BY <1>1, <1>5, RecLog DEF Cursors
<1>7. \A v \in Node : Cursors(nd1[v])
  <2>1. Cursors(a)
    BY <1>3, <1>5, <1>6 DEF Cursors
  <2> QED BY <1>1, <1>2, <2>1
<1>8. \A v \in Node : SnapFits(nd1, ch2, nd1[v].snap, nd1[v].term)
  <2> TAKE v \in Node
  <2>1. nd1[v].snap = nd[v].snap /\ nd1[v].term = nd[v].term
    BY <1>2
  <2>2. nd[v].snap.index \in Nat /\ nd[v].snap.term \in Term /\ nd[v].term \in Nat
    BY <1>1, RecLog
  <2>3. nd[v].term <= nd[v].term /\ SnapFits(nd, chain, nd[v].snap, nd[v].term)
    BY <1>1, <2>2
  <2> QED BY <1>1, <1>3, <2>1, <2>2, <2>3, SnapLater
<1>9. Sound(nd1, ch2, sent)
  BY <1>1, <1>2, <1>3, <1>7, <1>8 DEF Sound
<1>10. StateFits(ch2, a, c)
  <2>1. StateFits(ch2, nd[n], c)
    BY <1>1, <1>3, <1>5, <1>6, FitsGrow DEF Later
  <2>2. StateIs(ch2, nd[n].state, c, y)
    BY <2>1, <1>3, <1>5, <1>6, FitsAny
  <2> QED BY <2>2, <1>4 DEF StateFits
<1>11. /\ r \in Rec /\ r.snap = a.snap /\ r.log = a.log /\ r.state = a.state /\ r.term = a.term
       /\ r.leads = a.leads /\ r.status = a.status
       /\ IF {n} \in Quorum THEN r.commit = l ELSE r.commit = a.commit
  <2>1. CASE {n} \in Quorum
    <3>1. r = [a EXCEPT !.commit = l]
      BY <2>1, <1>3 DEF Advance
    <3> HIDE DEF r
    <3> QED BY <3>1, <2>1, <1>6 DEF Rec
  <2>2. CASE {n} \notin Quorum
    BY <2>2 DEF Advance
  <2> QED BY <2>1, <2>2
<1> HIDE DEF r
<1>12. /\ last_log_index(r) = l /\ \A x : Along(ch2, r, x) <=> Along(ch2, a, x)
  BY <1>3, <1>11, SameLog
<1>13. Moves(nd1, ch2, sent, n, r, sent[n].append) /\ Cursors(r) /\ c <= r.commit
  <2>1. CASE {n} \notin Quorum
    <3>1. r.commit = a.commit /\ r.term >= a.term /\ c <= c
      BY <2>1, <1>11, <1>6, TermNat
    <3>2. Alike(nd1[n], r)
      BY <3>1, <1>2, <1>11 DEF Alike
    <3> QED BY <3>1, <3>2, <1>9, <1>11, LikeMoves
  <2>2. CASE {n} \in Quorum
    <3>1. r.commit = l
      BY <2>2, <1>11
    <3>2. Durable(nd1, ch2, l, t)
      <4>1. \A v \in {n} : \/ nd1[v].term = t /\ Has(ch2, nd1[v], l, t)
                           \/ sent[v].append.term = t /\ sent[v].append.index >= l
        BY <1>2, <1>3
      <4> QED BY <2>2, <4>1, <1>3, QuorumDurable
    <3>3. t \in Nat /\ l \in 1 .. Len(ch2[t]) /\ l \in 1 .. l /\ l <= Len(ch2[t]) /\ t <= t
      BY <1>3, <1>6, TermNat DEF At
    <3>4. CommittedUpTo(nd1, ch2, l, t, t)
      BY <3>2, <3>3 DEF Committed, CommittedUpTo
    <3>5. PICK x \in Term : Along(ch2, a, x) /\ At(ch2, x, l, t)
      BY <1>3 DEF Has
    <3>6. Same(ch2, t, x, l)
      BY <1>3, <3>5, SameTerm
    <3>7. CommittedUpTo(nd1, ch2, l, x, t)
      <4>1. l <= l
        BY <1>6
      <4> QED BY <3>4, <3>6, <4>1, <1>3, <1>6, UpToDown
    <3>8. /\ Along(ch2, a, last_log_term(a)) /\ last_log_term(a) = t
      <4>1. last_log_term(a) = t
        <5>1. a.snap.index <= l /\ l <= last_log_index(a)
          BY <1>3, <1>5, <1>6
        <5>2. At(ch2, x, l, term_at(a, l))
          <6>1. l \in Nat \ {0} /\ IsLog(a) /\ ChainOK(ch2) /\ Along(ch2, a, x)
            BY <3>5, <1>3, <1>5, <1>6
          <6> QED BY <5>1, <6>1, AlongAt
        <5>3. term_at(a, l) = t
          BY <5>2, <3>5 DEF At
        <5> QED BY <5>3, <1>3 DEF last_log_term
      <4> QED BY <4>1, <3>5, <1>3, <1>5, AlongLast
    <3>9. /\ r.term \in Term /\ r.term >= nd1[n].term /\ (r.leads => nd1[n].leads /\ r.term = nd1[n].term)
          /\ t <= r.term
      BY <1>2, <1>11, <3>3
    <3>10. CommittedUpTo(nd1, ch2, r.commit, t, r.term)
      BY <1>11, <3>1, <3>4
    <3>11. Along(ch2, nd1[n], t)
      BY <3>8, <1>2
    <3>12. last_log_index(r) = last_log_index(nd1[n])
           /\ \A z \in Term : Along(ch2, nd1[n], z) => Along(ch2, r, z)
      BY <1>2, <1>3, <1>12
    <3>13. Moves(nd1, ch2, sent, n, r, sent[n].append)
      BY <1>3, <3>9, <3>10, <3>11, <3>12, MoveLike
    <3>14. Cursors(r) /\ c <= r.commit
      BY <1>5, <1>6, <1>11, <1>12, <3>1 DEF Cursors
    <3> QED BY <3>13, <3>14
  <2> QED BY <2>1, <2>2
<1>14. SnapFits(nd1, ch2, r.snap, r.term)
  BY <1>2, <1>8, <1>11
<1>15. Sound(nd3, ch2, sent) /\ Later(nd1, ch2, nd3, ch2)
  BY <1>1, <1>9, <1>11, <1>13, <1>14, Replaced
<1>16. nd3[n] = r /\ nd3 \in [Node -> Rec] /\ \A v \in Node : v # n => nd3[v] = nd[v]
  BY <1>2, <1>11
<1> HIDE DEF nd3
<1>17. Max({node[n].commit, nd3[n].snap.index}) = c
  BY <1>6, <1>11, <1>16, MaxLeft
<1>18. c <= nd3[n].commit
  BY <1>13, <1>16
<1>19. StateFits(ch2, nd3[n], c)
  BY <1>10, <1>11, <1>12, <1>16 DEF StateFits
<1>20. \A v \in Node : v # n => Serves(ch2, nd3[v])
  <2> TAKE v \in Node
  <2> HAVE v # n
  <2>1. nd3[v] = nd[v] /\ Serves(chain, nd[v]) /\ nd[v] \in Rec
    BY <1>1, <1>16
  <2>2. IsLog(nd[v]) /\ nd[v].commit \in Nat
    BY <2>1, RecLog
  <2> QED BY <2>1, <2>2, <1>1, <1>3, FitsGrow DEF Serves, Later
<1>21. nd2 = [nd3 EXCEPT ![n] = Settled(n, nd3[n])]
  BY <1>2, <1>16 DEF nd3, nd1, r
<1>22. /\ Good([nd3 EXCEPT ![n] = Settled(n, nd3[n])], ch2, sent)
       /\ Later(nd3, ch2, [nd3 EXCEPT ![n] = Settled(n, nd3[n])], ch2)
       /\ Onward(nd3[n], Settled(n, nd3[n])) /\ Settled(n, nd3[n]) \in Rec
  BY <1>15, <1>17, <1>18, <1>19, <1>20, SettleStep
<1>23. /\ Good(nd2, ch2, sent) /\ Later(nd3, ch2, nd2, ch2) /\ nd2[n] = Settled(n, r)
       /\ Onward(r, nd2[n]) /\ nd2[n] \in Rec
  <2>1. nd2[n] = Settled(n, nd3[n])
    BY <1>16, <1>21
  <2> QED BY <1>16, <1>21, <1>22, <2>1
<1>24. Later(nd, chain, nd2, ch2)
  BY <1>1, <1>3, <1>15, <1>23, LaterTrans
<1>25. Tells(n, r, nd2, ch2)
  BY <1>3, <1>15, <1>16, <1>23, TellsOf DEF Onward
<1>26. nd2[n].term = t
  <2>1. Cursors(r) /\ term_at(r, r.commit) \in Term
    BY <1>13, <1>15, <1>16, CommitTerm
  <2>2. Replay(r.state, Fresh(n, r)) \in State
    <3>1. Fresh(n, r) \in Seq(Entry)
      <4>1. Max({node[n].commit, r.snap.index}) = c
        BY <1>16, <1>17
      <4>2. IsLog(r) /\ r.commit \in Nat /\ last_log_index(r) \in Nat
        BY <1>11, RecLog
      <4>3. r.snap.index <= c /\ c <= r.commit /\ r.commit <= last_log_index(r)
        BY <1>6, <1>11, <1>13 DEF Cursors
      <4>4. Part(r, c, r.commit, Between(r, c, r.commit))
        BY <1>6, <4>2, <4>3, BetweenOf
      <4> QED BY <4>1, <4>4 DEF Fresh, Part
    <3>2. r.state \in State
      BY <1>11 DEF Rec
    <3> QED BY <3>1, <3>2, ReplayType
  <2> QED BY <1>11, <1>23, <2>1, <2>2, SettledOutcome
<1>27. /\ nd[n].commit <= nd2[n].commit /\ (nd2[n].leads => last_log_index(nd2[n]) = l)
       /\ (nd2[n].status = "up" => a.status = "up")
  <2>1. r.commit <= nd2[n].commit /\ r.commit \in Nat /\ nd2[n].commit \in Nat
    BY <1>11, <1>23, RecLog DEF Onward
  <2>2. c <= nd2[n].commit
    BY <1>6, <1>13, <2>1
  <2> QED BY <1>11, <1>12, <1>23, <2>2 DEF Onward
<1> QED BY <1>3, <1>5, <1>23, <1>24, <1>25, <1>26, <1>27 DEF r, LedDone

(* Cluster::proposal on the leader of the proposal's term.                 *)
Proposes(n, c, t, nd2, ch2) ==
    /\ Leads(n) /\ c \in Command /\ Len(node[n].log) < MaxEntries
    /\ last_log_index(node[n]) <= MaxIndex /\ t = node[n].term
    /\ ch2 = [chain EXCEPT ![t] = Append(@, [term |-> t, cmd |-> c])]
    /\ nd2 = [node EXCEPT ![n] = Settled(n, Advance(n, Append1(node[n], c)))]

ProposeDone(n, c, t, nd2, ch2) ==
    /\ Good(nd2, ch2, sent) /\ Later(node, chain, nd2, ch2)
    /\ Tells(n, Advance(n, Append1(node[n], c)), nd2, ch2)
    /\ At(ch2, t, last_log_index(node[n]) + 1, t) /\ Len(chain[t]) = last_log_index(node[n])
    /\ node[n].commit <= nd2[n].commit /\ nd2[n].term = t /\ nd2[n] \in Rec
    /\ nd2[n].leads => last_log_index(nd2[n]) = last_log_index(node[n]) + 1
    /\ \A v \in Node : v # n => nd2[v] = node[v]

LEMMA ProposeSettles ==
    ASSUME Good(node, chain, sent), NEW n \in Node, NEW c, NEW t, NEW nd2, NEW ch2,
           Proposes(n, c, t, nd2, ch2)
    PROVE  ProposeDone(n, c, t, nd2, ch2)
<1> SUFFICES ASSUME Leads(n), c \in Command, Len(node[n].log) < MaxEntries,
                    last_log_index(node[n]) <= MaxIndex, t = node[n].term,
                    ch2 = [chain EXCEPT ![t] = Append(@, [term |-> t, cmd |-> c])],
                    nd2 = [node EXCEPT ![n] = Settled(n, Advance(n, Append1(node[n], c)))]
             PROVE  /\ Good(nd2, ch2, sent) /\ Later(node, chain, nd2, ch2)
                    /\ Tells(n, Advance(n, Append1(node[n], c)), nd2, ch2)
                    /\ At(ch2, t, last_log_index(node[n]) + 1, t)
                    /\ Len(chain[t]) = last_log_index(node[n])
                    /\ node[n].commit <= nd2[n].commit /\ nd2[n].term = t /\ nd2[n] \in Rec
                    /\ nd2[n].leads => last_log_index(nd2[n]) = last_log_index(node[n]) + 1
                    /\ \A v \in Node : v # n => nd2[v] = node[v]
  BY DEF Proposes, ProposeDone
<1> DEFINE e == [term |-> t, cmd |-> c]
           a == Append1(node[n], c)
           nd1 == [node EXCEPT ![n] = a]
           l == Len(chain[t]) + 1
<1>1. /\ Sound(node, chain, sent) /\ node \in [Node -> Rec] /\ node[n] \in Rec /\ ChainOK(chain)
      /\ Typed(node, sent) /\ Raft(node, chain, sent) /\ \A v \in Node : Serves(chain, node[v])
      /\ node[n].leads /\ node[n].status = "up"
  BY SoundTyped DEF Good, Sound, Leads, Up
<1>2. t \in Term /\ t \in Nat /\ IsLog(node[n])
  BY <1>1, RecLog
<1>3. e \in Entry /\ e.term = t
  BY <1>2 DEF Entry
<1>4. t # 0 /\ last_log_index(node[n]) = Len(chain[t])
  BY <1>1 DEF Raft, LeaderOK
<1>5. l <= MaxIndex + t
  BY <1>2, <1>4, ReplicaAssumption, ChainLen, <1>1
<1> HIDE DEF e
<1>6. a = [node[n] EXCEPT !.log = Append(node[n].log, e)]
  BY DEF Append1, e
<1> HIDE DEF a
<1>7. Append(node[n].log, e) \in LogRec
  <2>1. node[n].log \in Seq(Entry) /\ Len(node[n].log) \in Nat
    BY <1>2 DEF IsLog
  <2>2. Append(node[n].log, e) \in Seq(Entry) /\ Len(Append(node[n].log, e)) = Len(node[n].log) + 1
    BY <2>1, <1>3, AppendOf
  <2> QED BY <2>1, <2>2, ReplicaAssumption DEF LogRec
<1>8. /\ a \in Rec /\ a.snap = node[n].snap /\ a.log = Append(node[n].log, e)
      /\ a.commit = node[n].commit /\ a.term = t /\ a.state = node[n].state
      /\ a.leads = node[n].leads /\ a.status = node[n].status
  <2> DEFINE g == Append(node[n].log, e)
  <2> HIDE DEF g
  <2> QED BY <1>1, <1>6, <1>7 DEF Rec, g
<1>9. Leading(node, n, t, e, nd1)
  BY <1>1, <1>8 DEF Leading
<1>10. ch2 = [chain EXCEPT ![t] = Append(@, e)]
  BY DEF e
<1>11. Led(node, chain, sent, n, t, l, nd1, ch2)
  <2> HIDE DEF nd1
  <2> QED BY <1>1, <1>3, <1>5, <1>9, <1>10, ProposeRaft
<1>12. StateFits(chain, node[n], node[n].commit)
  BY <1>1 DEF Serves
<1>13. nd2 = [node EXCEPT ![n] = Settled(n, Advance(n, a))]
  BY DEF a
<1>14. /\ Good(nd2, ch2, sent) /\ Later(node, chain, nd2, ch2)
       /\ Tells(n, Advance(n, a), nd2, ch2) /\ At(ch2, t, l, t)
       /\ node[n].commit <= nd2[n].commit /\ nd2[n].term = t /\ nd2[n] \in Rec
       /\ nd2[n].leads => last_log_index(nd2[n]) = l
  <2>1. Led(node, chain, sent, n, t, l, [node EXCEPT ![n] = a], ch2)
    BY <1>11
  <2>2. node[n].term = t /\ node[n].commit = node[n].commit
    OBVIOUS
  <2>3. \A v \in Node : v # n => Serves(chain, node[v])
    BY <1>1
  <2>4. /\ Sound(node, chain, sent) /\ node \in [Node -> Rec] /\ t \in Term /\ e \in Entry /\ a \in Rec
        /\ a.snap = node[n].snap /\ a.log = Append(node[n].log, e) /\ a.commit = node[n].commit
        /\ a.term = t /\ a.state = node[n].state
    BY <1>1, <1>2, <1>3, <1>8
  <2>5. LedTo(node, n, t, e, a, ch2, l)
    <3> HIDE DEF nd1, l
    <3> QED BY <1>12, <2>1, <2>2, <2>3, <2>4 DEF LedTo
  <2> HIDE DEF nd1, l
  <2>6. LedDone(node, n, t, a, ch2, l, nd2)
    BY <1>13, <2>5, LedSettles
  <2> QED BY <2>6 DEF LedDone
<1>15. \A v \in Node : v # n => nd2[v] = node[v]
  BY <1>1
<1> QED BY <1>4, <1>14, <1>15 DEF a

(* Every member of a quorum learns of a later term, and settles.           *)
LEMMA AllReplaced ==
    ASSUME Sound(node, chain, sent), NEW nd, nd \in [Node -> Rec],
           \A v \in Node : /\ Cursors(nd[v]) /\ Moves(node, chain, sent, v, nd[v], sent[v].append)
                           /\ SnapFits(node, chain, nd[v].snap, nd[v].term)
    PROVE  Sound(nd, chain, sent) /\ Later(node, chain, nd, chain)
<1>1. Typed(node, sent) /\ ChainOK(chain) /\ Raft(node, chain, sent) /\ SentType(sent)
  BY SoundTyped DEF Sound
<1>2. Typed(nd, sent)
  <2>1. ASSUME NEW v \in Node
        PROVE  /\ IsLog(nd[v]) /\ nd[v].term \in Term /\ nd[v].commit \in Nat
               /\ nd[v].snap.index <= nd[v].commit /\ nd[v].commit <= last_log_index(nd[v])
    BY RecLog DEF Cursors
  <2> QED BY <1>1, <2>1 DEF Typed, SentType
<1>3. Raft(nd, chain, sent) /\ Later(node, chain, nd, chain)
  BY <1>1, <1>2, AllMove
<1>4. ASSUME NEW v \in Node PROVE SnapFits(nd, chain, nd[v].snap, nd[v].term)
  <2>1. nd[v].snap.index \in Nat /\ nd[v].snap.term \in Term /\ nd[v].term \in Nat
    BY RecLog
  <2>2. nd[v].term <= nd[v].term /\ SnapFits(node, chain, nd[v].snap, nd[v].term)
    BY <2>1
  <2> QED BY <1>1, <1>3, <2>1, <2>2, SnapLater
<1> QED BY <1>1, <1>3, <1>4 DEF Sound

LEMMA VoterSettles ==
    ASSUME Good(node, chain, sent), NEW v \in Node, Up(v), NEW t \in Term, t > node[v].term,
           NEW r, r = Settled(v, Follow(node[v], t))
    PROVE  /\ r \in Rec /\ Cursors(r) /\ Moves(node, chain, sent, v, r, sent[v].append)
           /\ SnapFits(node, chain, r.snap, r.term) /\ Serves(chain, r)
           /\ last_log_index(r) = last_log_index(node[v])
           /\ last_log_term(r) = last_log_term(node[v])
           /\ r.term = t /\ ~r.leads /\ r.commit = node[v].commit
<1> DEFINE f == Follow(node[v], t)
           c == node[v].commit
           st == Replay(f.state, Fresh(v, f))
<1>1. /\ Sound(node, chain, sent) /\ node[v] \in Rec /\ Cursors(node[v]) /\ ChainOK(chain)
      /\ node[v].status = "up" /\ StateFits(chain, node[v], c)
  BY SoundTyped DEF Good, Sound, Serves, Up
<1>2. /\ IsLog(node[v]) /\ c \in Nat /\ node[v].snap.index \in Nat /\ node[v].term \in Nat /\ t \in Nat
      /\ last_log_index(node[v]) \in Nat /\ node[v].snap.index <= c /\ c <= last_log_index(node[v])
      /\ c <= c
  BY <1>1, RecLog, TermNat DEF Cursors
<1>3. /\ f \in Rec /\ Alike(node[v], f) /\ f.state = node[v].state /\ f.status = node[v].status
      /\ f.term = t /\ ~f.leads
  BY <1>1, <1>2, FollowIs
<1>4. /\ f.snap = node[v].snap /\ f.log = node[v].log /\ f.commit = c
  BY <1>3 DEF Alike
<1> HIDE DEF f
<1>5. /\ last_log_index(f) = last_log_index(node[v]) /\ term_at(f, c) = term_at(node[v], c)
      /\ \A i, j : Between(f, i, j) = Between(node[v], i, j)
  BY <1>4, SameLog
<1>6. PICK x \in Term : Along(chain, node[v], x) /\ StateIs(chain, node[v].state, c, x)
  BY <1>1 DEF StateFits
<1>7. Fresh(v, f) = Between(node[v], c, c)
  <2>1. Max({c, node[v].snap.index}) = c
    BY <1>2, MaxLeft
  <2> QED BY <2>1, <1>4, <1>5 DEF Fresh
<1>8. StateIs(chain, st, c, x)
  BY <1>1, <1>2, <1>3, <1>6, <1>7, StateOn
<1>9. st \in State
  BY <1>1, <1>2, <1>8, StateType
<1>10. Cursors(f) /\ term_at(f, f.commit) \in Term
  <2>1. term_at(node[v], c) \in Term
    BY <1>1, CommitTerm
  <2> QED BY <2>1, <1>1, <1>4, <1>5 DEF Cursors
<1>11. Outcome(f, st, r) /\ r.term = t
  BY <1>3, <1>9, <1>10, SettledOutcome DEF f
<1> HIDE DEF st
<1>12. Outcome(node[v], st, r) /\ ~r.leads /\ r.commit = c
  BY <1>2, <1>3, <1>4, <1>5, <1>11 DEF Outcome
<1> QED BY <1>1, <1>6, <1>8, <1>9, <1>11, <1>12, OutcomeMoves

LEMMA ElectTerm ==
    ASSUME node \in [Node -> Rec], NEW q \in Majority, NEW n \in q,
           \A v \in q : node[v].term < MaxTerm,
           NEW t, t = Max({ node[v].term : v \in q }) + 1
    PROVE  /\ t \in Term /\ t # 0 /\ \A v \in q : t > node[v].term
           /\ q \in Quorum /\ q \subseteq Voter /\ q \subseteq Node
<1> DEFINE S == { node[v].term : v \in q }
<1>1. q \in Quorum /\ q \subseteq Voter /\ q \subseteq Node
  BY ReplicaAssumption DEF Majority, Quorum
<1>2. \A v \in q : node[v].term \in Term /\ node[v].term \in Nat
  BY <1>1, RecLog
<1>3. S \in SUBSET Nat /\ S # {} /\ \A y \in S : y < MaxTerm /\ y <= MaxTerm
  BY <1>2, TermNat
<1>4. MaxTerm \in Nat
  BY ReplicaAssumption
<1>5. \E x \in S : \A y \in S : y <= x
  <2> HIDE DEF S
  <2> QED BY <1>3, <1>4, NatMax
<1>6. Max(S) \in S /\ \A y \in S : Max(S) >= y
  <2> HIDE DEF S
  <2>1. \E x \in S : \A y \in S : x >= y
    BY <1>3, <1>5
  <2> QED BY <2>1 DEF Max
<1>7. \A v \in q : node[v].term \in S
  OBVIOUS
<1>8. t = Max(S) + 1
  OBVIOUS
<1> HIDE DEF S
<1>9. Max(S) \in Nat /\ Max(S) < MaxTerm
  BY <1>3, <1>6
<1>10. t \in Term /\ t # 0
  BY <1>4, <1>8, <1>9 DEF Term
<1>11. ASSUME NEW v \in q PROVE t > node[v].term
  <2>1. Max(S) >= node[v].term /\ node[v].term \in Nat
    BY <1>2, <1>6, <1>7
  <2> QED BY <2>1, <1>8, <1>9
<1> QED BY <1>1, <1>10, <1>11

(* The members of the quorum have all joined term t.                       *)
Joining(nd, q, n, t) ==
    /\ Sound(nd, chain, sent) /\ Later(node, chain, nd, chain)
    /\ \A v \in Node : Serves(chain, nd[v]) /\ nd[v].commit = node[v].commit
    /\ \A v \in q : nd[v].term = t /\ UpToDate(nd[n], nd[v])
    /\ nd[n] = Follow(node[n], t)
    /\ \A v \in q \ {n} : nd[v] = Settled(v, Follow(node[v], t)) /\ ~nd[v].leads
    /\ \A v \in Node \ q : nd[v] = node[v]

LEMMA QuorumJoins ==
    ASSUME Good(node, chain, sent), NEW q \in Quorum, q \subseteq Node, NEW n \in q,
           \A v \in q : Up(v) /\ UpToDate(node[n], node[v]),
           NEW t \in Term, \A v \in q : t > node[v].term
    PROVE  \E nd : Joining(nd, q, n, t)
<1> DEFINE nd == [v \in Node |-> IF v = n THEN Follow(node[n], t)
                                 ELSE IF v \in q THEN Settled(v, Follow(node[v], t)) ELSE node[v]]
<1>1. /\ Sound(node, chain, sent) /\ node \in [Node -> Rec] /\ \A v \in Node : Serves(chain, node[v])
      /\ n \in Node /\ Typed(node, sent) /\ Raft(node, chain, sent)
      /\ \A v \in Node : Cursors(node[v]) /\ SnapFits(node, chain, node[v].snap, node[v].term)
  BY SoundTyped DEF Good, Sound
<1>2. /\ nd[n] = Follow(node[n], t)
      /\ \A v \in q \ {n} : nd[v] = Settled(v, Follow(node[v], t))
      /\ \A v \in Node \ q : nd[v] = node[v]
      /\ DOMAIN nd = Node /\ nd = [v \in Node |-> nd[v]]
  BY <1>1
<1> HIDE DEF nd
(* What each member has become.                                            *)
<1> DEFINE Fine(v) ==
             /\ nd[v] \in Rec /\ Cursors(nd[v])
             /\ Moves(node, chain, sent, v, nd[v], sent[v].append)
             /\ SnapFits(node, chain, nd[v].snap, nd[v].term) /\ Serves(chain, nd[v])
             /\ last_log_index(nd[v]) = last_log_index(node[v])
             /\ last_log_term(nd[v]) = last_log_term(node[v])
             /\ nd[v].commit = node[v].commit
<1>3. Fine(n) /\ nd[n].term = t
  <2>1. node[n] \in Rec /\ t \in Nat /\ node[n].term \in Nat /\ t > node[n].term
    BY <1>1, RecLog, TermNat
  <2>2. /\ nd[n] \in Rec /\ Alike(node[n], nd[n]) /\ nd[n].state = node[n].state
        /\ nd[n].status = node[n].status /\ nd[n].term = t
    BY <2>1, <1>2, FollowIs
  <2>3. /\ Moves(node, chain, sent, n, nd[n], sent[n].append) /\ Cursors(nd[n])
        /\ SnapFits(node, chain, nd[n].snap, nd[n].term)
    BY <1>1, <2>2, LikeMoves
  <2>4. nd[n].snap = node[n].snap /\ nd[n].log = node[n].log /\ nd[n].commit = node[n].commit
    BY <2>2 DEF Alike
  <2>5. /\ last_log_index(nd[n]) = last_log_index(node[n])
        /\ last_log_term(nd[n]) = last_log_term(node[n])
        /\ \A ch, u : Along(ch, nd[n], u) <=> Along(ch, node[n], u)
    BY <2>4, SameLog
  <2>6. Serves(chain, nd[n])
    BY <1>1, <2>2, <2>4, <2>5 DEF Serves, StateFits
  <2> QED BY <2>2, <2>3, <2>4, <2>5, <2>6
<1>4. ASSUME NEW v \in q, v # n PROVE Fine(v) /\ nd[v].term = t /\ ~nd[v].leads
  <2>1. v \in Node /\ Up(v) /\ t > node[v].term /\ nd[v] = Settled(v, Follow(node[v], t))
    BY <1>2, <1>4
  <2> QED BY <2>1, VoterSettles
<1>5. ASSUME NEW v \in Node, v \notin q PROVE Fine(v)
  <2>1. nd[v] = node[v] /\ node[v] \in Rec
    BY <1>1, <1>2, <1>5
  <2>2. Moves(node, chain, sent, v, node[v], sent[v].append)
    BY <1>1, MoveStill
  <2> QED BY <1>1, <2>1, <2>2
<1>6. ASSUME NEW v \in Node PROVE Fine(v)
  BY <1>3, <1>4, <1>5
<1>7. nd \in [Node -> Rec]
  BY <1>2, <1>6
<1>8. Sound(nd, chain, sent) /\ Later(node, chain, nd, chain)
  BY <1>1, <1>6, <1>7, AllReplaced
<1>9. ASSUME NEW v \in q PROVE nd[v].term = t /\ UpToDate(nd[n], nd[v])
  <2>1. nd[v].term = t
    BY <1>3, <1>4
  <2>2. UpToDate(node[n], node[v]) /\ v \in Node
    OBVIOUS
  <2> QED BY <2>1, <2>2, <1>1, <1>6 DEF UpToDate
<1>10. \A v \in q \ {n} : nd[v] = Settled(v, Follow(node[v], t)) /\ ~nd[v].leads
  BY <1>2, <1>4
<1>11. \A v \in Node : Serves(chain, nd[v]) /\ nd[v].commit = node[v].commit
  BY <1>6
<1> HIDE DEF Fine
<1>12. Joining(nd, q, n, t)
  BY <1>2, <1>8, <1>9, <1>10, <1>11 DEF Joining
<1> QED BY <1>12

(* An election of n in term t by the quorum q has taken place.             *)
ElectDone(q, n, t, r, nd2, ch2) ==
    /\ Good(nd2, ch2, sent) /\ Later(node, chain, nd2, ch2)
    /\ \A v \in Node : /\ node[v].commit <= nd2[v].commit /\ node[v].term <= nd2[v].term
                       /\ nd2[v].status = "up" => node[v].status = "up"
    /\ \A v \in q : nd2[v].term = t /\ t > node[v].term /\ (v # n => ~nd2[v].leads)
    /\ \A v \in Node : v \notin q => nd2[v] = node[v]
    /\ Len(r.log) >= MaxEntries \/ Tells(n, Advance(n, Append1(r, Barrier)), nd2, ch2)

ElectsIn(q, n, t, r, nd2, ch2) ==
    /\ r = [node[n] EXCEPT !.term = t, !.leads = TRUE]
    /\ nd2 = [v \in Node |->
                IF v = n
                THEN IF Len(r.log) >= MaxEntries THEN Stopped(r)
                     ELSE Settled(n, Advance(n, Append1(r, Barrier)))
                ELSE IF v \in q THEN Settled(v, Follow(node[v], t)) ELSE node[v]]
    /\ ch2 = IF Len(r.log) >= MaxEntries THEN chain
             ELSE [chain EXCEPT ![t] = Append(Past(node[n]), [term |-> t, cmd |-> Barrier])]

LEMMA ElectSettles ==
    ASSUME Good(node, chain, sent), NEW q \in Quorum, q \subseteq Node, q \subseteq Voter, NEW n \in q,
           \A v \in q : Up(v) /\ UpToDate(node[n], node[v]),
           NEW t \in Term, t # 0, \A v \in q : t > node[v].term,
           NEW r, NEW nd2, NEW ch2, ElectsIn(q, n, t, r, nd2, ch2)
    PROVE  ElectDone(q, n, t, r, nd2, ch2)
<1> SUFFICES ASSUME r = [node[n] EXCEPT !.term = t, !.leads = TRUE],
                    nd2 = [v \in Node |->
                      IF v = n
                      THEN IF Len(r.log) >= MaxEntries THEN Stopped(r)
                           ELSE Settled(n, Advance(n, Append1(r, Barrier)))
                      ELSE IF v \in q THEN Settled(v, Follow(node[v], t)) ELSE node[v]],
                    ch2 = IF Len(r.log) >= MaxEntries THEN chain
                          ELSE [chain EXCEPT ![t] = Append(Past(node[n]),
                                                           [term |-> t, cmd |-> Barrier])]
             PROVE  ElectDone(q, n, t, r, nd2, ch2)
  BY DEF ElectsIn
<1>1. /\ Sound(node, chain, sent) /\ node \in [Node -> Rec] /\ n \in Node /\ Raft(node, chain, sent)
      /\ ChainOK(chain) /\ node[n] \in Rec /\ n \in Voter
  BY SoundTyped DEF Good, Sound
<1>2. PICK nd : Joining(nd, q, n, t)
  BY QuorumJoins
<1>3. /\ Sound(nd, chain, sent) /\ Later(node, chain, nd, chain)
      /\ \A v \in Node : Serves(chain, nd[v]) /\ nd[v].commit = node[v].commit
      /\ \A v \in q : nd[v].term = t /\ UpToDate(nd[n], nd[v])
      /\ nd[n] = Follow(node[n], t)
      /\ \A v \in q \ {n} : nd[v] = Settled(v, Follow(node[v], t)) /\ ~nd[v].leads
      /\ \A v \in Node \ q : nd[v] = node[v]
  BY <1>2 DEF Joining
<1>4. /\ nd \in [Node -> Rec] /\ Typed(nd, sent) /\ Raft(nd, chain, sent) /\ nd[n] \in Rec
  BY <1>1, <1>3, SoundTyped DEF Sound
<1>5. t \in Nat /\ \A v \in Node : node[v].term \in Nat /\ node[v].commit \in Nat
  BY <1>1, RecLog, TermNat
<1>6. /\ nd[n] = [node[n] EXCEPT !.term = t, !.leads = FALSE] /\ t > node[n].term
  BY <1>3 DEF Follow
<1>7. /\ nd[n].log = node[n].log /\ nd[n].snap = node[n].snap /\ nd[n].state = node[n].state
      /\ nd[n].commit = node[n].commit /\ nd[n].status = "up" /\ nd[n].term = t
      /\ nd[n].arch = node[n].arch
      /\ r \in Rec /\ r.log = node[n].log /\ r.snap = node[n].snap /\ r.commit = node[n].commit
      /\ r.term = t /\ r.leads /\ r.status = "up" /\ r.state = node[n].state /\ r.arch = node[n].arch
  BY <1>1, <1>6 DEF Rec, Up
<1>8. \A v \in Node \ {n} : nd2[v] = nd[v]
  BY <1>3
<1>9. \A v \in q : v # n => ~nd2[v].leads /\ nd2[v].term = t
  BY <1>3, <1>8
<1>10. \A v \in Node : v # n => node[v].commit <= nd2[v].commit /\ node[v].term <= nd2[v].term
  <2> SUFFICES ASSUME NEW v \in Node, v # n
               PROVE  node[v].commit <= nd2[v].commit /\ node[v].term <= nd2[v].term
    OBVIOUS
  <2>1. nd2[v] = nd[v] /\ nd[v].commit = node[v].commit
    BY <1>3, <1>8
  <2>2. CASE v \in q
    BY <2>1, <2>2, <1>3, <1>5
  <2>3. CASE v \notin q
    BY <2>1, <2>3, <1>3, <1>5
  <2> QED BY <2>2, <2>3
<1>11. \A v \in Node : v # n /\ nd2[v].status = "up" => node[v].status = "up"
  BY <1>3, <1>8 DEF Up
<1>12. node[n].status = "up"
  BY DEF Up
<1>13. \A v \in Node : v \notin q => nd2[v] = node[v]
  BY <1>3, <1>8
<1>14. chain[t] = <<>>
  <2> SUFFICES ASSUME chain[t] # <<>> PROVE FALSE
    OBVIOUS
  <2>1. PICK s \in Quorum : \A v \in s : node[v].term >= t
    BY <1>1 DEF Raft, Elected
  <2>2. PICK v \in Voter : v \in q /\ v \in s
    BY QuorumMeet
  <2>3. node[v].term >= t /\ t > node[v].term /\ v \in Node
    BY <2>1, <2>2
  <2> QED BY <2>3, <1>5
(* What is left to show of n itself.                                       *)
<1>15. SUFFICES /\ Good(nd2, ch2, sent) /\ Later(nd, chain, nd2, ch2) /\ ChainOK(ch2)
                /\ nd2[n].term = t /\ node[n].commit <= nd2[n].commit
                /\ \/ Len(r.log) >= MaxEntries
                   \/ Tells(n, Advance(n, Append1(r, Barrier)), nd2, ch2)
  <2>1. Later(node, chain, nd2, ch2)
    BY <1>1, <1>3, <1>15, LaterTrans
  <2>2. node[n].term <= nd2[n].term
    BY <1>5, <1>6, <1>15
  <2> QED BY <2>1, <2>2, <1>9, <1>10, <1>11, <1>12, <1>13, <1>15 DEF ElectDone
<1>16. CASE Len(r.log) >= MaxEntries
  <2>1. /\ nd2[n] = Stopped(r) /\ ch2 = chain
    BY <1>1, <1>16
  <2>2. /\ nd2[n] \in Rec /\ nd2[n].status = "stopped" /\ ~nd2[n].leads /\ nd2[n].term = t
        /\ nd2[n].snap = nd[n].snap /\ nd2[n].log = nd[n].log /\ nd2[n].commit = nd[n].commit
    BY <2>1, <1>7 DEF Stopped, Rec
  <2>3. Alike(nd[n], nd2[n])
    BY <2>2, <1>5, <1>7 DEF Alike
  <2>4. nd2 = [nd EXCEPT ![n] = nd2[n]]
    <3>1. nd2 = [v \in Node |-> nd2[v]]
      OBVIOUS
    <3> QED BY <3>1, <1>4, <1>8
  <2>5. Sound(nd2, chain, sent) /\ Later(nd, chain, nd2, chain)
    BY <1>1, <1>3, <2>2, <2>3, <2>4, Likened
  <2>6. \A v \in Node : Serves(chain, nd2[v])
    BY <1>3, <1>8, <2>2 DEF Serves
  <2>7. node[n].commit <= nd2[n].commit
    BY <2>2, <1>5, <1>7, <1>1
  <2> QED BY <1>1, <1>16, <2>1, <2>2, <2>5, <2>6, <2>7 DEF Good
<1>17. CASE ~(Len(r.log) >= MaxEntries)
  <2> DEFINE e == [term |-> t, cmd |-> Barrier]
             a == Append1(r, Barrier)
             l == last_log_index(nd[n]) + 1
  <2>1. /\ nd2[n] = Settled(n, Advance(n, a))
        /\ ch2 = [chain EXCEPT ![t] = Append(Past(node[n]), e)]
    BY <1>1, <1>17
  <2>2. e \in Entry /\ e.term = t
    BY DEF Entry, Command
  <2>3. a = [r EXCEPT !.log = Append(r.log, e)]
    BY <1>7 DEF Append1
  <2> HIDE DEF a, e
  <2>4. Append(r.log, e) \in LogRec
    <3>1. r.log \in Seq(Entry) /\ Len(r.log) \in Nat /\ Len(r.log) < MaxEntries
      <4>1. r \in Rec
        BY <1>7
      <4>2. r.log \in Seq(Entry)
        BY <4>1 DEF Rec, LogRec
      <4> DEFINE g == r.log
      <4>3. g \in Seq(Entry) /\ ~(Len(g) >= MaxEntries) /\ MaxEntries \in Nat
        BY <4>2, <1>17, ReplicaAssumption
      <4> HIDE DEF g
      <4>4. Len(g) \in Nat /\ Len(g) < MaxEntries
        BY <4>3
      <4> QED BY <4>2, <4>4 DEF g
    <3>2. Append(r.log, e) \in Seq(Entry) /\ Len(Append(r.log, e)) = Len(r.log) + 1
      BY <3>1, <2>2, AppendOf
    <3> QED BY <3>1, <3>2, ReplicaAssumption DEF LogRec
  <2>5. /\ a \in Rec /\ a.snap = nd[n].snap /\ a.log = Append(nd[n].log, e)
        /\ a.commit = nd[n].commit /\ a.term = t /\ a.state = nd[n].state
        /\ a.leads /\ a.status = "up"
    <3> DEFINE g == Append(r.log, e)
    <3>1. r \in Rec /\ g \in LogRec /\ a = [r EXCEPT !.log = g]
      BY <2>3, <2>4, <1>7
    <3>2. g = Append(nd[n].log, e)
      BY <1>7
    <3> HIDE DEF g
    <3>3. a \in Rec /\ a.snap = r.snap /\ a.log = g /\ a.commit = r.commit /\ a.term = r.term
          /\ a.state = r.state /\ a.leads = r.leads /\ a.status = r.status
      BY <3>1 DEF Rec
    <3> QED BY <3>2, <3>3, <1>7
  <2> DEFINE nd1 == [nd EXCEPT ![n] = a]
  <2>6. Leading(nd, n, t, e, nd1)
    BY <1>4, <1>7, <2>5 DEF Leading
  <2>7. ch2 = [chain EXCEPT ![t] =
                  Append(SubSeq(chain[last_log_term(nd[n])], 1, last_log_index(nd[n])), e)]
    <3>1. last_log_index(nd[n]) = last_log_index(node[n])
          /\ last_log_term(nd[n]) = last_log_term(node[n])
      BY <1>7, SameLog
    <3> QED BY <2>1, <3>1 DEF Past
  <2>8. Led(nd, chain, sent, n, t, l, nd1, ch2)
    <3> HIDE DEF nd1
    <3> QED BY <1>3, <1>4, <1>14, <2>2, <2>6, <2>7, ElectRaft
  <2>9. StateFits(chain, nd[n], nd[n].commit)
    BY <1>1, <1>3, <1>7 DEF Serves
  <2>10. nd2 = [nd EXCEPT ![n] = Settled(n, Advance(n, a))]
    <3> HIDE DEF l, nd1
    <3>1. nd2 = [v \in Node |-> nd2[v]]
      OBVIOUS
    <3> QED BY <3>1, <1>4, <1>8, <2>1
  <2>11. LedTo(nd, n, t, e, a, ch2, l)
    <3>1. Led(nd, chain, sent, n, t, l, [nd EXCEPT ![n] = a], ch2)
      BY <2>8
    <3>2. nd[n].commit = node[n].commit /\ nd[n].term = t /\ \A v \in Node : v # n => Serves(chain, nd[v])
      BY <1>1, <1>3, <1>7
    <3> HIDE DEF l, nd1
    <3> QED BY <1>1, <1>3, <2>2, <2>5, <2>9, <3>1, <3>2 DEF LedTo
  <2> HIDE DEF l, nd1
  <2>12. LedDone(nd, n, t, a, ch2, l, nd2)
    BY <2>10, <2>11, LedSettles
  <2>13. /\ Good(nd2, ch2, sent) /\ Later(nd, chain, nd2, ch2) /\ ChainOK(ch2)
         /\ nd[n].commit <= nd2[n].commit /\ nd2[n].term = t
         /\ Tells(n, Advance(n, a), nd2, ch2)
    BY <2>12 DEF LedDone
  <2> QED BY <2>13, <1>7 DEF a
<1> QED BY <1>16, <1>17

-----------------------------------------------------------------------------
(* Steps around the engine.                                                *)

LEMMA LikeGood ==
    ASSUME Good(node, chain, sent), NEW n \in Node, NEW r \in Rec, Alike(node[n], r),
           Serves(chain, r), NEW nd2, nd2 = [node EXCEPT ![n] = r]
    PROVE  Good(nd2, chain, sent) /\ Later(node, chain, nd2, chain)
<1>1. Sound(node, chain, sent) /\ node \in [Node -> Rec] /\ \A v \in Node : Serves(chain, node[v])
  BY DEF Good, Sound
<1>2. Sound(nd2, chain, sent) /\ Later(node, chain, nd2, chain)
  BY <1>1, Likened
<1>3. \A v \in Node : Serves(chain, nd2[v])
  BY <1>1
<1> QED BY <1>2, <1>3 DEF Good

(* r2 differs from r in its archive and its status.                        *)
Kept(r, r2) ==
    /\ r2 \in Rec /\ r2.snap = r.snap /\ r2.log = r.log /\ r2.commit = r.commit
    /\ r2.term = r.term /\ (r2.leads => r.leads) /\ r2.state = r.state
    /\ r2.status = "stopped" \/ r.status # "stopped"
    /\ r2.status = "up" => r.status = "up"

LEMMA KeptGood ==
    ASSUME Good(node, chain, sent), NEW n \in Node, NEW r, Kept(node[n], r),
           NEW nd2, nd2 = [node EXCEPT ![n] = r]
    PROVE  Steady(nd2, sent)
<1>1. /\ node \in [Node -> Rec] /\ node[n] \in Rec /\ Serves(chain, node[n])
      /\ r \in Rec /\ r.snap = node[n].snap /\ r.log = node[n].log /\ r.commit = node[n].commit
      /\ r.term = node[n].term /\ (r.leads => node[n].leads) /\ r.state = node[n].state
      /\ (r.status = "stopped" \/ node[n].status # "stopped")
      /\ (r.status = "up" => node[n].status = "up")
  BY DEF Good, Sound, Kept
<1>2. node[n].term \in Nat /\ node[n].commit \in Nat
  BY <1>1, RecLog
<1>3. Alike(node[n], r)
  BY <1>1, <1>2 DEF Alike
<1>4. /\ \A ch, t : Along(ch, r, t) <=> Along(ch, node[n], t)
      /\ last_log_index(r) = last_log_index(node[n])
  BY <1>1, SameLog
<1>5. Serves(chain, r)
  BY <1>1, <1>4 DEF Serves, StateFits
<1>6. Good(nd2, chain, sent) /\ Later(node, chain, nd2, chain)
  BY <1>1, <1>3, <1>5, LikeGood
<1>7. Onward(node[n], r)
  BY <1>1, <1>2, <1>4 DEF Onward
<1>8. ASSUME NEW v \in Node PROVE Onward(node[v], nd2[v])
  <2>1. CASE v = n
    BY <2>1, <1>1, <1>7
  <2>2. CASE v # n
    <3>1. nd2[v] = node[v] /\ node[v] \in Rec
      BY <2>2, <1>1
    <3> QED BY <3>1, OnwardSelf
  <2> QED BY <2>1, <2>2
<1> QED BY <1>6, <1>8 DEF Steady

(* Cluster::open makes r of member n.                                      *)
Reopened(n, r) ==
    r = [node[n] EXCEPT
            !.status = "up",
            !.state = Replay(node[n].snap.state,
                             Between(node[n], node[n].snap.index, node[n].commit))]

LEMMA OpenGood ==
    ASSUME Good(node, chain, sent), NEW n \in Node, NEW r, Reopened(n, r),
           NEW nd2, nd2 = [node EXCEPT ![n] = r]
    PROVE  /\ Good(nd2, chain, sent) /\ Later(node, chain, nd2, chain)
           /\ nd2[n].commit = node[n].commit
<1> DEFINE b == node[n]
           st == Replay(b.snap.state, Between(b, b.snap.index, b.commit))
<1>1. /\ node \in [Node -> Rec] /\ b \in Rec /\ Raft(node, chain, sent) /\ ChainOK(chain)
      /\ Cursors(b) /\ SnapFits(node, chain, b.snap, b.term)
  BY SoundTyped DEF Good, Sound
<1>2. /\ IsLog(b) /\ b.commit \in Nat /\ b.snap.index \in Nat /\ b.term \in Nat
      /\ b.snap.index <= b.commit /\ b.commit <= last_log_index(b)
  BY <1>1, RecLog DEF Cursors
<1>3. PICK t \in Term : Along(chain, b, t)
  BY <1>1 DEF Raft, Placed
<1> HIDE DEF b
<1>4. StateIs(chain, b.snap.state, b.snap.index, t)
  BY <1>1, <1>2, <1>3, SnapAlong
<1>5. StateIs(chain, st, b.commit, t)
  <2>1. b.snap.index <= b.snap.index
    BY <1>2
  <2> QED BY <1>1, <1>2, <1>3, <1>4, <2>1, StateOn
<1>6. st \in State
  BY <1>1, <1>2, <1>5, StateType
<1>7. r = [b EXCEPT !.status = "up", !.state = st]
  BY DEF b, Reopened
<1> HIDE DEF st
<1>8. /\ r \in Rec /\ r.snap = b.snap /\ r.log = b.log /\ r.commit = b.commit /\ r.term = b.term
      /\ r.leads = b.leads /\ r.state = st /\ r.status = "up"
  BY <1>1, <1>6, <1>7 DEF Rec
<1>9. Alike(b, r)
  BY <1>2, <1>8 DEF Alike
<1>10. /\ \A ch, u : Along(ch, r, u) <=> Along(ch, b, u)
       /\ last_log_index(r) = last_log_index(b)
  BY <1>8, SameLog
<1>11. Serves(chain, r)
  BY <1>3, <1>5, <1>8, <1>10 DEF Serves, StateFits
<1>12. Good(nd2, chain, sent) /\ Later(node, chain, nd2, chain)
  BY <1>8, <1>9, <1>11, LikeGood DEF b
<1>13. nd2[n].commit = node[n].commit
  BY <1>1, <1>8 DEF b
<1> QED BY <1>12, <1>13

-----------------------------------------------------------------------------
(* The inductive invariant.                                                *)

AppendRec ==
    [kind : {"append"}, from : Node, term : Term, prev : Nat, prevTerm : Term,
     entries : Seq(Entry), commit : Nat]

InstallRec == [kind : {"snapshot"}, from : Node, term : Term, snap : SnapRec]

PrepRec == [msg : AppendRec \cup InstallRec, todo : SUBSET Heads, held : SUBSET Heads]

LateRec == [to : Node, msg : AppendRec]

OfferRec == [term : Term, snap : SnapRec]

(* A message on its way is a piece of the chain of its term.               *)
Fits(nd, ch, m) ==
    IF m.kind = "append" THEN AppendFits(nd, ch, m) /\ Len(m.entries) <= MaxBatch
    ELSE SnapFits(nd, ch, m.snap, m.term)

(* What members have set aside, what is delayed, and what they offer.      *)
Carried(nd, ch, pr, lt, of) ==
    /\ pr \in [Node -> SUBSET PrepRec]
    /\ \A n \in Node : \A p \in pr[n] : p.todo \cap p.held = {} /\ Fits(nd, ch, p.msg)
    /\ lt \in LateRec \cup {NoMsg} /\ (lt # NoMsg => Fits(nd, ch, lt.msg))
    /\ of \in [Node -> [Node -> OfferRec \cup {NoOffer}]]
    /\ \A n, p \in Node : of[n][p] # NoOffer => SnapFits(nd, ch, of[n][p].snap, of[n][p].term)

(* What a client has been told of is committed.                            *)
Heard(nd, ch, a) ==
    /\ a \in [index : Index, term : Term]
    /\ a.index = 0 \/ Told(nd, ch, a.index, a.term)

(* An entry of a later term than t is durable.                             *)
Overtaken(nd, ch, t) == \E u \in Term : \E j \in Nat : u > t /\ Durable(nd, ch, j, u)

(* One is that comes without entry i of term t: that one never commits.    *)
Doomed(nd, ch, i, t) ==
    \E u \in Term : \E j \in Nat : u > t /\ Durable(nd, ch, j, u) /\ ~At(ch, u, i, t)

Item == [cmd : Command, term : Term, live : BOOLEAN]

ReqRec ==
    [pc : {"idle", "queued_barrier", "logged_barrier", "ready", "stage", "queued", "logged"},
     cmd : Request \cup {Barrier}, term : Term, index : Index, floor : Index,
     lease : SUBSET Heads]

(* The barrier of request q, when it commits, is after what was            *)
(* acknowledged before q started.                                          *)
Fenced(nd, ch, n, q) ==
    /\ q.pc = "queued_barrier" => q.floor <= Len(ch[q.term]) \/ Overtaken(nd, ch, q.term)
    /\ q.pc = "logged_barrier" => /\ At(ch, q.term, q.index, q.term)
                                  /\ q.floor <= q.index \/ Doomed(nd, ch, q.index, q.term)
    /\ q.pc = "ready" => q.floor <= nd[n].commit

(* Only the request in progress waits for something queued.                *)
Waits(s, q) ==
    /\ \A i \in DOMAIN s : s[i].live =>
          /\ s[i].term = q.term
          /\ q.pc = IF s[i].cmd = Barrier THEN "queued_barrier" ELSE "queued"
    /\ \A i, j \in DOMAIN s : s[i].live /\ s[j].live => i = j

(* The terms of what is queued.                                            *)
Dated(r, s, q) ==
    /\ q.term <= r.term
    /\ \A i \in DOMAIN s : s[i].term <= r.term /\ (q.pc # "idle" => s[i].term <= q.term)

(* A leader's log has room below the bound for what is queued in its term. *)
Bounded(r, s, q) ==
    r.leads =>
        /\ (\E i \in DOMAIN s : s[i].term = r.term) => last_log_index(r) + Len(s) <= MaxIndex + 1
        /\ q.term = r.term /\ q.pc \in {"queued_barrier", "logged_barrier", "ready", "stage"}
              => last_log_index(r) + Len(s) <= MaxIndex

(* Member n with request q and queue s.                                    *)
Asks(nd, ch, n, s, q) ==
    /\ s \in Seq(Item) /\ q \in ReqRec /\ (q.pc = "stage" => q.cmd.op = "put")
    /\ Fenced(nd, ch, n, q) /\ (nd[n].status = "up" => Waits(s, q))
    /\ Dated(nd[n], s, q) /\ Bounded(nd[n], s, q)

(* The engines, and the requests on them.                                  *)
Served(nd, ch, sn, qu, rq, a) ==
    /\ Good(nd, ch, sn) /\ Heard(nd, ch, a)
    /\ qu = [n \in Node |-> qu[n]] /\ rq = [n \in Node |-> rq[n]]
    /\ \A n \in Node : Asks(nd, ch, n, qu[n], rq[n])

(* The acknowledgements of members, the senders marked, and the faults.    *)
Noted(sn, pg, fs) ==
    /\ sn \in SentSet /\ (\A v \in Node : sn[v].snap \in Index)
    /\ pg \in [Node -> SUBSET Node] /\ fs \in 0 .. MaxFaults

ReplicaInv ==
    /\ Served(node, chain, sent, queue, req, ack)
    /\ Carried(node, chain, prep, late, offers)
    /\ Noted(sent, preparing, faults)

-----------------------------------------------------------------------------
(* What a step of the engine leaves alone stays true.                      *)

LEMMA IndexNat == Index \subseteq Nat /\ 0 \in Index /\ \A i \in Nat : i <= MaxIndex + MaxTerm => i \in Index
  BY ReplicaAssumption DEF Index

LEMMA ReqType ==
    ASSUME NEW q \in ReqRec
    PROVE  /\ q.term \in Term /\ q.term \in Nat /\ q.index \in Index /\ q.index \in Nat
           /\ q.floor \in Index /\ q.floor \in Nat /\ q.lease \subseteq Heads
           /\ q.cmd \in Request \cup {Barrier}
<1>1. /\ q.term \in Term /\ q.index \in Index /\ q.floor \in Index /\ q.lease \subseteq Heads
      /\ q.cmd \in Request \cup {Barrier}
  BY DEF ReqRec
<1> QED BY <1>1, TermNat, IndexNat

LEMMA OfferType ==
    ASSUME NEW o \in OfferRec
    PROVE  /\ o.snap \in SnapRec /\ o.snap.index \in Nat /\ o.snap.term \in Term
           /\ o.term \in Term /\ o.term \in Nat /\ o.term <= o.term
<1>1. o.snap \in SnapRec /\ o.term \in Term
  BY DEF OfferRec
<1>2. o.snap.index \in Nat /\ o.snap.term \in Term
  BY <1>1 DEF SnapRec
<1>3. o.term \in Nat
  BY <1>1, TermNat
<1> QED BY <1>1, <1>2, <1>3

LEMMA FitsLater ==
    ASSUME NEW nd, NEW ch, ChainOK(ch), NEW nd2, NEW ch2, ChainOK(ch2), Later(nd, ch, nd2, ch2),
           NEW m \in AppendRec \cup InstallRec, Fits(nd, ch, m)
    PROVE  Fits(nd2, ch2, m)
<1>1. CASE m \in AppendRec
  <2>1. m.kind = "append" /\ AppendTyped(m)
    BY <1>1 DEF AppendRec, AppendTyped
  <2>2. AppendFits(nd2, ch2, m)
    BY <2>1, AppendLater DEF Fits
  <2> QED BY <2>1, <2>2 DEF Fits
<1>2. CASE m \in InstallRec
  <2>1. /\ m.kind = "snapshot" /\ m.term \in Term /\ m.term \in Nat /\ m.snap \in SnapRec
        /\ m.snap.index \in Nat /\ m.snap.term \in Term
    BY <1>2, TermNat DEF InstallRec, SnapRec
  <2>2. SnapFits(nd, ch, m.snap, m.term) /\ m.term <= m.term
    BY <2>1 DEF Fits
  <2>3. SnapFits(nd2, ch2, m.snap, m.term)
    BY <2>1, <2>2, SnapLater
  <2> QED BY <2>1, <2>3 DEF Fits
<1> QED BY <1>1, <1>2

LEMMA CarriedLater ==
    ASSUME NEW nd, NEW ch, ChainOK(ch), NEW nd2, NEW ch2, ChainOK(ch2), Later(nd, ch, nd2, ch2),
           NEW pr, NEW lt, NEW of, Carried(nd, ch, pr, lt, of)
    PROVE  Carried(nd2, ch2, pr, lt, of)
<1>1. /\ pr \in [Node -> SUBSET PrepRec] /\ lt \in LateRec \cup {NoMsg}
      /\ of \in [Node -> [Node -> OfferRec \cup {NoOffer}]]
  BY DEF Carried
<1>2. ASSUME NEW n \in Node, NEW p \in pr[n]
      PROVE  p.todo \cap p.held = {} /\ Fits(nd2, ch2, p.msg)
  <2>1. p \in PrepRec /\ p.msg \in AppendRec \cup InstallRec
    BY <1>1 DEF PrepRec
  <2>2. p.todo \cap p.held = {} /\ Fits(nd, ch, p.msg)
    BY DEF Carried
  <2> QED BY <2>1, <2>2, FitsLater
<1>3. ASSUME lt # NoMsg PROVE Fits(nd2, ch2, lt.msg)
  <2>1. lt.msg \in AppendRec \cup InstallRec
    BY <1>1, <1>3 DEF LateRec
  <2>2. Fits(nd, ch, lt.msg)
    BY <1>3 DEF Carried
  <2> QED BY <2>1, <2>2, FitsLater
<1>4. ASSUME NEW n \in Node, NEW p \in Node, of[n][p] # NoOffer
      PROVE  SnapFits(nd2, ch2, of[n][p].snap, of[n][p].term)
  <2>1. of[n][p] \in OfferRec
    BY <1>1, <1>4
  <2>2. /\ of[n][p].snap.index \in Nat /\ of[n][p].snap.term \in Term /\ of[n][p].term \in Nat
        /\ of[n][p].term <= of[n][p].term
    BY <2>1, OfferType
  <2>3. SnapFits(nd, ch, of[n][p].snap, of[n][p].term)
    BY <1>4 DEF Carried
  <2> QED BY <2>2, <2>3, SnapLater
<1> QED BY <1>1, <1>2, <1>3, <1>4 DEF Carried

LEMMA HeardLater ==
    ASSUME NEW nd, NEW ch, ChainOK(ch), NEW nd2, NEW ch2, ChainOK(ch2), Later(nd, ch, nd2, ch2),
           NEW a, Heard(nd, ch, a)
    PROVE  Heard(nd2, ch2, a)
<1>1. CASE a.index = 0
  BY <1>1 DEF Heard
<1>2. CASE a.index # 0
  <2>1. Told(nd, ch, a.index, a.term) /\ a \in [index : Index, term : Term]
    BY <1>2 DEF Heard
  <2>2. Told(nd2, ch2, a.index, a.term)
    BY <2>1, ToldLater
  <2> QED BY <2>1, <2>2 DEF Heard
<1> QED BY <1>1, <1>2

LEMMA FencedLater ==
    ASSUME NEW nd, NEW ch, ChainOK(ch), NEW nd2, NEW ch2, ChainOK(ch2), Later(nd, ch, nd2, ch2),
           NEW n \in Node, nd[n].commit \in Nat, nd2[n].commit \in Nat, nd[n].commit <= nd2[n].commit,
           NEW q \in ReqRec, Fenced(nd, ch, n, q)
    PROVE  Fenced(nd2, ch2, n, q)
<1>1. q.term \in Term /\ q.term \in Nat /\ q.index \in Nat /\ q.floor \in Nat
  BY ReqType
<1>2. Grows(ch, ch2) /\ \A t \in Term : \A i \in Nat : Durable(nd, ch, i, t) => Durable(nd2, ch2, i, t)
  BY DEF Later
<1>3. ASSUME q.pc = "queued_barrier"
      PROVE  q.floor <= Len(ch2[q.term]) \/ Overtaken(nd2, ch2, q.term)
  <2>1. CASE Overtaken(nd, ch, q.term)
    BY <2>1, <1>2 DEF Overtaken
  <2>2. CASE q.floor <= Len(ch[q.term])
    <3>1. /\ Len(ch[q.term]) \in Nat /\ Len(ch2[q.term]) \in Nat
          /\ Len(ch[q.term]) <= Len(ch2[q.term])
      BY <1>1, <1>2, ChainLen DEF Grows
    <3> QED BY <3>1, <2>2, <1>1
  <2> QED BY <1>3, <2>1, <2>2 DEF Fenced
<1>4. ASSUME q.pc = "logged_barrier"
      PROVE  /\ At(ch2, q.term, q.index, q.term)
             /\ q.floor <= q.index \/ Doomed(nd2, ch2, q.index, q.term)
  <2>1. At(ch2, q.term, q.index, q.term)
    BY <1>1, <1>2, <1>4, GrowAt DEF Fenced
  <2>2. CASE q.floor <= q.index
    BY <2>1, <2>2
  <2>3. CASE Doomed(nd, ch, q.index, q.term)
    <3>1. PICK u \in Term, j \in Nat :
             u > q.term /\ Durable(nd, ch, j, u) /\ ~At(ch, u, q.index, q.term)
      BY <2>3 DEF Doomed
    <3>2. Durable(nd2, ch2, j, u)
      BY <3>1, <1>2
    <3>3. At(ch, u, j, u)
      BY <3>1 DEF Durable
    <3>4. ch[u] # <<>>
      BY <3>3, AtParts
    <3>5. u \in Nat /\ q.term # u
      BY <3>1, <1>1, TermNat
    <3>6. ~At(ch2, u, q.index, q.term)
      BY <3>1, <3>4, <3>5, <1>2, GrowAt
    <3> QED BY <2>1, <3>1, <3>2, <3>6 DEF Doomed
  <2> QED BY <1>4, <2>2, <2>3 DEF Fenced
<1>5. ASSUME q.pc = "ready" PROVE q.floor <= nd2[n].commit
  <2>1. q.floor <= nd[n].commit
    BY <1>5 DEF Fenced
  <2> QED BY <2>1, <1>1
<1> QED BY <1>3, <1>4, <1>5 DEF Fenced

(* A member goes on, with its request and its queue.                       *)
LEMMA AsksLater ==
    ASSUME NEW nd, NEW ch, ChainOK(ch), NEW nd2, NEW ch2, ChainOK(ch2), Later(nd, ch, nd2, ch2),
           NEW n \in Node, nd[n] \in Rec, nd2[n] \in Rec, Onward(nd[n], nd2[n]),
           NEW s, NEW q, Asks(nd, ch, n, s, q)
    PROVE  Asks(nd2, ch2, n, s, q)
<1>1. /\ s \in Seq(Item) /\ q \in ReqRec /\ (q.pc = "stage" => q.cmd.op = "put")
      /\ Fenced(nd, ch, n, q) /\ (nd[n].status = "up" => Waits(s, q))
      /\ Dated(nd[n], s, q) /\ Bounded(nd[n], s, q)
  BY DEF Asks
<1>2. /\ nd[n].commit \in Nat /\ nd2[n].commit \in Nat /\ nd[n].term \in Nat /\ nd2[n].term \in Nat
  BY RecLog
<1>3. /\ nd[n].commit <= nd2[n].commit /\ nd[n].term <= nd2[n].term
      /\ nd2[n].leads => /\ nd[n].leads /\ nd2[n].term = nd[n].term
                         /\ last_log_index(nd2[n]) = last_log_index(nd[n])
      /\ nd2[n].status = "up" => nd[n].status = "up"
  BY DEF Onward
<1>4. Fenced(nd2, ch2, n, q)
  BY <1>1, <1>2, <1>3, FencedLater
<1>5. Dated(nd2[n], s, q)
  <2>1. q.term \in Nat /\ \A i \in DOMAIN s : s[i].term \in Nat
    <3>1. q.term \in Term
      BY <1>1 DEF ReqRec
    <3>2. \A i \in DOMAIN s : s[i] \in Item
      BY <1>1
    <3>3. \A i \in DOMAIN s : s[i].term \in Term
      BY <3>2 DEF Item
    <3> QED BY <3>1, <3>3, TermNat
  <2> QED BY <1>1, <1>2, <1>3, <2>1 DEF Dated
<1>6. Bounded(nd2[n], s, q)
  BY <1>1, <1>3 DEF Bounded
<1> QED BY <1>1, <1>3, <1>4, <1>5, <1>6 DEF Asks

(* A request ends when nothing queued is waited for.                       *)
LEMMA AsksIdle ==
    ASSUME NEW nd, NEW ch, NEW n \in Node, nd[n] \in Rec, NEW s, NEW q, Asks(nd, ch, n, s, q),
           nd[n].status = "up" => \A i \in DOMAIN s : ~s[i].live
    PROVE  Asks(nd, ch, n, s, Idle)
<1>1. /\ s \in Seq(Item) /\ Dated(nd[n], s, q) /\ Bounded(nd[n], s, q)
  BY DEF Asks
<1>2. nd[n].term \in Nat
  BY RecLog
<1>3. /\ Idle \in ReqRec /\ Idle.pc = "idle" /\ Idle.term = 0
  BY TermNat, ReplicaAssumption DEF Idle, ReqRec, Index
<1>4. Waits(s, Idle) \/ nd[n].status # "up"
  BY DEF Waits
<1>5. Dated(nd[n], s, Idle)
  BY <1>1, <1>2, <1>3 DEF Dated
<1>6. Bounded(nd[n], s, Idle)
  BY <1>1, <1>3 DEF Bounded
<1>7. Fenced(nd, ch, n, Idle)
  BY <1>3 DEF Fenced
<1> HIDE DEF Idle
<1> QED BY <1>1, <1>3, <1>4, <1>5, <1>6, <1>7 DEF Asks

-----------------------------------------------------------------------------
(* Answers.                                                                *)

(* A barrier that is committed is after what was acknowledged before.      *)
LEMMA FenceHolds ==
    ASSUME NEW nd, NEW ch, ChainOK(ch), NEW n, NEW q \in ReqRec, Fenced(nd, ch, n, q),
           q.pc = "logged_barrier", Told(nd, ch, q.index, q.term)
    PROVE  q.floor <= q.index
<1> DEFINE i == q.index
           t == q.term
<1>1. t \in Term /\ t \in Nat /\ i \in Nat
  BY ReqType
<1>2. SUFFICES ASSUME Doomed(nd, ch, i, t) PROVE FALSE
  BY DEF Fenced
<1> HIDE DEF i, t
<1>3. PICK u \in Term, j \in Nat : u > t /\ Durable(nd, ch, j, u) /\ ~At(ch, u, i, t)
  BY <1>2 DEF Doomed
<1>4. At(ch, u, j, u) /\ Stable(ch, j, u) /\ u \in Nat
  BY <1>3, TermNat DEF Durable
<1>5. PICK x \in Term : At(ch, x, i, t) /\ Committed(nd, ch, i, x, MaxTerm)
  BY DEF Told, i, t
<1>6. PICK w \in Term : \E k \in 1 .. Len(ch[w]) :
         Durable(nd, ch, k, w) /\ At(ch, w, k, w) /\ Stable(ch, k, w) /\ i <= k /\ Same(ch, x, w, i)
  BY <1>5, CommittedBy
<1>12. PICK k \in 1 .. Len(ch[w]) :
         Durable(nd, ch, k, w) /\ At(ch, w, k, w) /\ Stable(ch, k, w) /\ i <= k /\ Same(ch, x, w, i)
  BY <1>6
<1>7. i \in Nat \ {0} /\ i \in 1 .. i
  BY <1>1, <1>5, AtParts
<1>8. At(ch, w, i, t)
  BY <1>1, <1>5, <1>12, <1>7, SameParts
<1>9. k \in Nat /\ j \in Nat \ {0}
  BY <1>4, <1>12, AtParts
<1>10. CASE i <= j
  <2>1. Same(ch, w, u, i)
    BY <1>1, <1>4, <1>9, <1>12, <1>10, StableMeet
  <2>2. At(ch, u, i, t)
    BY <1>1, <1>7, <1>8, <2>1, SameParts
  <2> QED BY <2>2, <1>3
<1>11. CASE ~(i <= j)
  <2>1. j <= i /\ j <= k /\ j <= j /\ j \in 1 .. j
    BY <1>1, <1>12, <1>9, <1>11
  <2>2. Same(ch, w, u, j)
    BY <1>4, <1>12, <2>1, <1>9, StableMeet
  <2>3. At(ch, w, j, u)
    BY <1>4, <1>9, <2>1, <2>2, SameParts
  <2>4. u <= t
    BY <1>8, <2>1, <2>3, ChainMono
  <2> QED BY <2>4, <1>1, <1>3, <1>4
<1> QED BY <1>10, <1>11

(* Nothing is queued for a request whose entry is logged.                  *)
LEMMA NoneWaits ==
    ASSUME NEW s, NEW q, Waits(s, q), q.pc \notin {"queued_barrier", "queued"}
    PROVE  \A i \in DOMAIN s : ~s[i].live
  BY DEF Waits

LEMMA ReadyAsks ==
    ASSUME NEW nd, NEW ch, NEW n \in Node, NEW s, NEW q, Asks(nd, ch, n, s, q),
           q.pc = "logged_barrier", q.floor <= nd[n].commit,
           NEW q2, q2 = [q EXCEPT !.pc = "ready"]
    PROVE  Asks(nd, ch, n, s, q2)
<1>1. /\ s \in Seq(Item) /\ q \in ReqRec
      /\ Fenced(nd, ch, n, q) /\ (nd[n].status = "up" => Waits(s, q))
      /\ Dated(nd[n], s, q) /\ Bounded(nd[n], s, q)
  BY DEF Asks
<1>2. /\ q2 \in ReqRec /\ q2.pc = "ready" /\ q2.term = q.term /\ q2.floor = q.floor
  BY <1>1 DEF ReqRec
<1>3. Fenced(nd, ch, n, q2)
  BY <1>2 DEF Fenced
<1>4. nd[n].status = "up" => Waits(s, q2)
  BY <1>1, NoneWaits DEF Waits
<1>5. Dated(nd[n], s, q2) /\ Bounded(nd[n], s, q2)
  BY <1>1, <1>2 DEF Dated, Bounded
<1> QED BY <1>1, <1>2, <1>3, <1>4, <1>5 DEF Asks

(* Cluster::outputs answers the request of n.                              *)
LEMMA OutputsAsks ==
    ASSUME NEW n \in Node, NEW r, NEW q, Outputs(n, r, q), node \in [Node -> Rec],
           req = [v \in Node |-> req[v]], NEW ch2, ChainOK(ch2), node'[n] \in Rec,
           Tells(n, r, node', ch2),
           NEW s, Asks(node', ch2, n, s, q), Heard(node', ch2, ack)
    PROVE  /\ Asks(node', ch2, n, s, req'[n]) /\ Heard(node', ch2, ack')
           /\ req' = [v \in Node |-> req'[v]] /\ \A v \in Node : v # n => req'[v] = req[v]
<1>1. node'[n] = Settled(n, r)
  BY DEF Outputs
<1>2. Missing(n, r) => node'[n].status = "stopped"
  BY <1>1 DEF Settled, Stopped, Rec
<1>3. q \in ReqRec /\ Fenced(node', ch2, n, q) /\ (node'[n].status = "up" => Waits(s, q))
  BY DEF Asks
<1>4. q.index \in Index /\ q.index \in Nat /\ q.floor \in Nat /\ q.term \in Term
  BY <1>3, ReqType
<1>5. node'[n].commit \in Nat
  BY RecLog
<1>6. ASSUME Answered(r, q)
      PROVE  /\ q.index <= node'[n].commit /\ Told(node', ch2, q.index, q.term)
             /\ term_at(r, q.index) = q.term /\ q.pc \in {"logged_barrier", "logged"}
  <2>1. /\ q.index > r.snap.index /\ q.index <= r.commit /\ entry(r, q.index).term = q.term
        /\ q.pc \in {"logged_barrier", "logged"}
    BY <1>6 DEF Answered
  <2>2. /\ r.commit <= node'[n].commit /\ r.commit \in Nat
        /\ Told(node', ch2, q.index, entry(r, q.index).term) /\ term_at(r, q.index) = entry(r, q.index).term
    <3>1. r.snap.index < q.index
      BY <1>4, <2>1 DEF Tells
    <3> QED BY <1>4, <2>1, <3>1 DEF Tells
  <2>3. q.index <= node'[n].commit
    BY <1>4, <1>5, <2>1, <2>2
  <2> QED BY <2>1, <2>2, <2>3
<1>7. Asks(node', ch2, n, s, req'[n])
  <2>1. req'[n] = CASE Missing(n, r) -> Idle
                    [] ~Missing(n, r) /\ Answered(r, q) ->
                           IF q.pc = "logged" THEN Idle ELSE [q EXCEPT !.pc = "ready"]
                    [] OTHER ->
                           IF ~r.leads /\ q.pc \in {"logged_barrier", "logged"}
                           THEN Idle ELSE q
    BY DEF Outputs
  <2> DEFINE done == req'[n] = Idle /\ (Missing(n, r) \/ q.pc \in {"logged_barrier", "logged"})
             fenced == /\ req'[n] = [q EXCEPT !.pc = "ready"] /\ Answered(r, q)
                       /\ q.pc = "logged_barrier"
  <2>2. done \/ fenced \/ req'[n] = q
    <3>1. Answered(r, q) => q.pc \in {"logged_barrier", "logged"}
      BY <1>6
    <3> HIDE DEF Idle, Missing, Answered
    <3> QED BY <2>1, <3>1, Zenon
  <2>3. CASE done
    <3>1. node'[n].status = "up" => \A i \in DOMAIN s : ~s[i].live
      BY <1>2, <1>3, <2>3, NoneWaits
    <3> QED BY <2>3, <3>1, AsksIdle
  <2>4. CASE fenced
    <3>1. q.floor <= q.index /\ q.index <= node'[n].commit
      BY <1>3, <1>6, <2>4, FenceHolds
    <3>2. q.floor <= node'[n].commit
      BY <3>1, <1>4, <1>5
    <3> QED BY <2>4, <3>2, ReadyAsks
  <2>5. CASE req'[n] = q
    BY <2>5
  <2> QED BY <2>2, <2>3, <2>4, <2>5
<1>8. Heard(node', ch2, ack')
  <2>1. CASE ack' = ack
    BY <2>1
  <2>2. CASE ack' # ack
    <3>1. Answered(r, q) /\ ack' = [index |-> q.index, term |-> term_at(r, q.index)]
      BY <2>2 DEF Outputs
    <3>2. ack'.index = q.index /\ ack'.term = q.term /\ ack' \in [index : Index, term : Term]
      BY <3>1, <1>4, <1>6
    <3> QED BY <1>6, <3>1, <3>2 DEF Heard
  <2> QED BY <2>1, <2>2
<1>9. req' = [v \in Node |-> req'[v]] /\ \A v \in Node : v # n => req'[v] = req[v]
  BY DEF Outputs
<1> QED BY <1>7, <1>8, <1>9

-----------------------------------------------------------------------------
(* The actions keep the invariant.                                         *)

LEMMA InvParts ==
    ASSUME ReplicaInv
    PROVE  /\ Good(node, chain, sent) /\ Sound(node, chain, sent) /\ ChainOK(chain)
           /\ node \in [Node -> Rec] /\ Raft(node, chain, sent) /\ Heard(node, chain, ack)
           /\ req = [v \in Node |-> req[v]] /\ queue = [v \in Node |-> queue[v]]
           /\ \A v \in Node : Asks(node, chain, v, queue[v], req[v]) /\ node[v] \in Rec
           /\ Carried(node, chain, prep, late, offers) /\ Noted(sent, preparing, faults)
           /\ sent \in SentSet
  BY SoundTyped DEF ReplicaInv, Served, Noted, Good, Sound

LEMMA GoodParts ==
    ASSUME NEW nd, NEW ch, NEW sn, Good(nd, ch, sn)
    PROVE  ChainOK(ch) /\ nd \in [Node -> Rec] /\ \A v \in Node : nd[v] \in Rec
  BY SoundTyped DEF Good, Sound

(* The members move on, and the requests and messages stay.                *)
LEMMA SteadyInv ==
    ASSUME ReplicaInv, NEW nd, NEW sn, Steady(nd, sn)
    PROVE  /\ Carried(nd, chain, prep, late, offers) /\ Heard(nd, chain, ack)
           /\ Good(nd, chain, sn) /\ ChainOK(chain) /\ nd \in [Node -> Rec]
           /\ \A v \in Node : Asks(nd, chain, v, queue[v], req[v]) /\ nd[v] \in Rec
<1>1. /\ Good(nd, chain, sn) /\ Later(node, chain, nd, chain) /\ \A v \in Node : Onward(node[v], nd[v])
  BY DEF Steady
<1>2. /\ ChainOK(chain) /\ nd \in [Node -> Rec] /\ \A v \in Node : nd[v] \in Rec
  BY <1>1, GoodParts
<1>3. /\ Heard(node, chain, ack) /\ Carried(node, chain, prep, late, offers)
      /\ \A v \in Node : Asks(node, chain, v, queue[v], req[v]) /\ node[v] \in Rec
  BY InvParts
<1>4. Heard(nd, chain, ack)
  BY <1>1, <1>2, <1>3, HeardLater
<1>5. Carried(nd, chain, prep, late, offers)
  BY <1>1, <1>2, <1>3, CarriedLater
<1>6. ASSUME NEW v \in Node PROVE Asks(nd, chain, v, queue[v], req[v])
  BY <1>1, <1>2, <1>3, AsksLater
<1> QED BY <1>1, <1>2, <1>4, <1>5, <1>6

LEMMA OutputsServed ==
    ASSUME ReplicaInv, NEW n \in Node, NEW r, Outputs(n, r, req[n]), NEW sn, Steady(node', sn),
           Tells(n, r, node', chain)
    PROVE  Served(node', chain, sn, queue, req', ack') /\ Carried(node', chain, prep, late, offers)
<1>1. /\ Carried(node', chain, prep, late, offers) /\ Heard(node', chain, ack)
      /\ Good(node', chain, sn) /\ ChainOK(chain)
      /\ \A v \in Node : Asks(node', chain, v, queue[v], req[v]) /\ node'[v] \in Rec
  BY SteadyInv
<1>2. /\ node \in [Node -> Rec] /\ req = [v \in Node |-> req[v]] /\ queue = [v \in Node |-> queue[v]]
  BY InvParts
<1>3. /\ Asks(node', chain, n, queue[n], req'[n]) /\ Heard(node', chain, ack')
      /\ req' = [v \in Node |-> req'[v]] /\ \A v \in Node : v # n => req'[v] = req[v]
  BY <1>1, <1>2, OutputsAsks
<1>4. \A v \in Node : Asks(node', chain, v, queue[v], req'[v])
  BY <1>1, <1>3
<1> QED BY <1>1, <1>2, <1>3, <1>4 DEF Served

(* The archive or the status of a member changes.                          *)
LEMMA KeptServed ==
    ASSUME ReplicaInv, NEW n \in Node, NEW r, Kept(node[n], r), NEW nd, nd = [node EXCEPT ![n] = r]
    PROVE  Served(nd, chain, sent, queue, req, ack) /\ Carried(nd, chain, prep, late, offers)
<1>1. Steady(nd, sent)
  BY InvParts, KeptGood
<1> QED BY <1>1, SteadyInv, InvParts DEF Served

-----------------------------------------------------------------------------
(* Messages of a later term, and acknowledgements.                         *)

LEMMA InitInv == Init => ReplicaInv
<1> SUFFICES ASSUME Init PROVE ReplicaInv
  OBVIOUS
<1> DEFINE r0 == [status |-> "up", term |-> 0, leads |-> FALSE, log |-> <<>>, snap |-> NoSnapshot,
                  commit |-> 0, state |-> EmptyState, arch |-> {}]
<1>1. /\ node = [n \in Node |-> r0] /\ chain = [t \in Term |-> <<>>]
      /\ sent = [n \in Node |-> [append |-> NoAck, snap |-> 0]]
  BY DEF Init
<1>2. /\ r0.status = "up" /\ r0.term = 0 /\ r0.leads = FALSE /\ r0.log = <<>> /\ r0.snap = NoSnapshot
      /\ r0.commit = 0 /\ r0.state = EmptyState
  OBVIOUS
<1>3. /\ NoSnapshot.index = 0 /\ NoSnapshot.term = 0 /\ NoSnapshot.state = EmptyState
      /\ NoSnapshot \in SnapRec /\ 0 \in Term /\ 0 \in Nat
  BY EmptyType, TermNat DEF NoSnapshot, SnapRec
<1>4. <<>> \in LogRec /\ Len(<<>>) = 0
  BY ReplicaAssumption DEF LogRec
<1>5. r0 \in Rec
  <2> DEFINE l == <<>>
  <2>1. l \in LogRec
    BY <1>4
  <2>2. r0 = [status |-> "up", term |-> 0, leads |-> FALSE, log |-> l, snap |-> NoSnapshot,
                  commit |-> 0, state |-> EmptyState, arch |-> {}]
    OBVIOUS
  <2> HIDE DEF l, r0
  <2> QED BY <1>3, <2>1, <2>2, EmptyType DEF Rec
<1> HIDE DEF r0
<1>6. last_log_index(r0) = 0
  BY <1>2, <1>3, <1>4 DEF last_log_index
<1>7. ChainOK(chain) /\ \A t \in Term : chain[t] = <<>> /\ Len(chain[t]) = 0
  <2>1. \A t \in Term : chain[t] = <<>> /\ Len(chain[t]) = 0
    BY <1>1
  <2>2. chain \in [Term -> Seq(Entry)]
    BY <1>1
  <2>3. \A t \in Term : 0 <= MaxIndex + t /\ \A i \in 1 .. 0 : FALSE
    BY TermNat, ReplicaAssumption
  <2> QED BY <2>1, <2>2, <2>3 DEF ChainOK
<1>8. \A t \in Term : Along(chain, r0, t)
  BY <1>2, <1>3, <1>4, <1>6, <1>7 DEF Along
<1>9. \A v \in Node : node[v] = r0 /\ sent[v].append.term = 0 /\ sent[v].append.index = 0 /\ sent[v].snap = 0
  BY <1>1 DEF NoAck
<1>11. Raft(node, chain, sent)
  <2>1. \A n \in Node : Placed(node, chain, n)
    BY <1>2, <1>3, <1>8, <1>9 DEF Placed, CommittedUpTo
  <2>2. \A n \in Node : LeaderOK(node, chain, n)
    BY <1>2, <1>9 DEF LeaderOK
  <2>3. Elected(node, chain)
    BY <1>7 DEF Elected
  <2>4. Complete(node, chain, sent)
    BY <1>7 DEF Complete
  <2>5. \A v \in Node : SentOK(node, chain, sent, v)
    BY <1>2, <1>3, <1>7, <1>9 DEF SentOK
  <2> QED BY <1>7, <2>1, <2>2, <2>3, <2>4, <2>5 DEF Raft
<1>12. \A t \in Term : StateIs(chain, EmptyState, 0, t)
  BY <1>7, StateZero
<1>13. \A v \in Node : SnapFits(node, chain, node[v].snap, node[v].term)
  BY <1>2, <1>3, <1>9, <1>12 DEF SnapFits
<1>14. \A v \in Node : Cursors(node[v]) /\ Serves(chain, node[v])
  BY <1>2, <1>3, <1>6, <1>8, <1>9, <1>12 DEF Cursors, Serves, StateFits
<1>15. Good(node, chain, sent)
  <2>1. SentType(sent) /\ node \in [Node -> Rec]
    BY <1>1, <1>3, <1>5, <1>9 DEF SentType
  <2> QED BY <2>1, <1>11, <1>13, <1>14 DEF Good, Sound
<1>16. Heard(node, chain, ack)
  BY TermNat, IndexNat DEF Heard, Init
<1>17. Noted(sent, preparing, faults)
  <2>1. sent \in SentSet
    BY <1>1, <1>3 DEF SentSet, NoAck
  <2> QED BY <2>1, <1>9, IndexNat, ReplicaAssumption DEF Noted, Init
<1>18. Carried(node, chain, prep, late, offers)
  BY DEF Carried, Init
<1>19. ASSUME NEW n \in Node PROVE Asks(node, chain, n, queue[n], req[n])
  <2>1. queue[n] = <<>> /\ req[n] = Idle
    BY DEF Init
  <2>2. Idle \in ReqRec /\ Idle.pc = "idle" /\ Idle.term = 0
    BY TermNat, IndexNat DEF Idle, ReqRec
  <2>3. node[n].term \in Nat /\ ~node[n].leads
    BY <1>2, <1>9
  <2> HIDE DEF Idle
  <2>4. Fenced(node, chain, n, Idle) /\ Waits(<<>>, Idle) /\ Bounded(node[n], <<>>, Idle)
    BY <2>2, <2>3 DEF Fenced, Waits, Bounded
  <2>5. Dated(node[n], <<>>, Idle)
    BY <2>2, <2>3 DEF Dated
  <2>6. <<>> \in Seq(Item)
    OBVIOUS
  <2> QED BY <2>1, <2>2, <2>4, <2>5, <2>6 DEF Asks
<1>20. req = [v \in Node |-> req[v]] /\ queue = [v \in Node |-> queue[v]]
  BY DEF Init
<1> QED BY <1>15, <1>16, <1>17, <1>18, <1>19, <1>20 DEF ReplicaInv, Served

LEMMA CarriedPrep ==
    ASSUME NEW nd, NEW ch, NEW pr, NEW lt, NEW of, Carried(nd, ch, pr, lt, of), NEW n \in Node,
           NEW P, P \subseteq PrepRec,
           \A p \in P : p.todo \cap p.held = {} /\ Fits(nd, ch, p.msg),
           NEW pr2, pr2 = [pr EXCEPT ![n] = P]
    PROVE  Carried(nd, ch, pr2, lt, of)
<1>1. /\ pr \in [Node -> SUBSET PrepRec]
      /\ \A v \in Node : \A p \in pr[v] : p.todo \cap p.held = {} /\ Fits(nd, ch, p.msg)
  BY DEF Carried
<1>2. pr2 \in [Node -> SUBSET PrepRec] /\ \A v \in Node : pr2[v] = IF v = n THEN P ELSE pr[v]
  BY <1>1
<1>3. \A v \in Node : \A p \in pr2[v] : p.todo \cap p.held = {} /\ Fits(nd, ch, p.msg)
  BY <1>1, <1>2
<1> QED BY <1>2, <1>3 DEF Carried

LEMMA CarriedLate ==
    ASSUME NEW nd, NEW ch, NEW pr, NEW lt, NEW of, Carried(nd, ch, pr, lt, of),
           NEW l2 \in LateRec \cup {NoMsg}, l2 # NoMsg => Fits(nd, ch, l2.msg)
    PROVE  Carried(nd, ch, pr, l2, of)
  BY DEF Carried

LEMMA CarriedOffer ==
    ASSUME NEW nd, NEW ch, NEW pr, NEW lt, NEW of, Carried(nd, ch, pr, lt, of), NEW n \in Node,
           NEW o \in [Node -> OfferRec \cup {NoOffer}],
           \A p \in Node : o[p] # NoOffer => SnapFits(nd, ch, o[p].snap, o[p].term),
           NEW of2, of2 = [of EXCEPT ![n] = o]
    PROVE  Carried(nd, ch, pr, lt, of2)
<1>1. /\ of \in [Node -> [Node -> OfferRec \cup {NoOffer}]]
      /\ \A v, p \in Node : of[v][p] # NoOffer => SnapFits(nd, ch, of[v][p].snap, of[v][p].term)
  BY DEF Carried
<1>2. /\ of2 \in [Node -> [Node -> OfferRec \cup {NoOffer}]]
      /\ \A v \in Node : of2[v] = IF v = n THEN o ELSE of[v]
  BY <1>1
<1>3. \A v, p \in Node : of2[v][p] # NoOffer => SnapFits(nd, ch, of2[v][p].snap, of2[v][p].term)
  BY <1>1, <1>2
<1> QED BY <1>2, <1>3 DEF Carried

LEMMA PrepType ==
    ASSUME ReplicaInv, NEW n \in Node, NEW p \in prep[n]
    PROVE  /\ p \in PrepRec /\ p.msg \in AppendRec \cup InstallRec /\ p.todo \subseteq Heads
           /\ p.held \subseteq Heads /\ p.todo \cap p.held = {} /\ Fits(node, chain, p.msg)
           /\ p.msg.from \in Node /\ p.msg.term \in Term
           /\ prep[n] \subseteq PrepRec
           /\ \A x \in prep[n] : x.todo \cap x.held = {} /\ Fits(node, chain, x.msg)
<1>1. Carried(node, chain, prep, late, offers)
  BY InvParts
<1>2. /\ prep[n] \subseteq PrepRec
      /\ \A x \in prep[n] : x.todo \cap x.held = {} /\ Fits(node, chain, x.msg)
  BY <1>1 DEF Carried
<1>3. /\ p \in PrepRec /\ p.msg \in AppendRec \cup InstallRec /\ p.todo \subseteq Heads
      /\ p.held \subseteq Heads
  BY <1>2 DEF PrepRec
<1>4. p.msg.from \in Node /\ p.msg.term \in Term
  BY <1>3 DEF AppendRec, InstallRec
<1> QED BY <1>2, <1>3, <1>4

LEMMA HearTermInv ==
    ASSUME ReplicaInv, NEW n \in Node, NEW m \in Node, HearTerm(n, m)
    PROVE  ReplicaInv'
<1>1. /\ Up(n) /\ Outputs(n, Follow(node[n], node[m].term), req[n])
      /\ UNCHANGED <<sent, queue, prep, preparing, offers, late, faults, chain>>
  BY DEF HearTerm
<1>2. node[m].term \in Term /\ Good(node, chain, sent)
  BY InvParts, RecLog
<1>3. node' = [node EXCEPT ![n] = Settled(n, Follow(node[n], node[m].term))]
  BY <1>1 DEF Outputs
<1>4. Steady(node', sent) /\ Tells(n, Follow(node[n], node[m].term), node', chain)
  BY <1>1, <1>2, <1>3, FollowSettles
<1>5. /\ Served(node', chain, sent, queue, req', ack')
      /\ Carried(node', chain, prep, late, offers) /\ Noted(sent, preparing, faults)
  BY <1>1, <1>4, OutputsServed, InvParts
<1> QED BY <1>1, <1>5 DEF ReplicaInv

LEMMA HearAppendedInv ==
    ASSUME ReplicaInv, NEW l \in Node, NEW i \in 1 .. last_log_index(node[l]), HearAppended(l, i)
    PROVE  ReplicaInv'
<1> DEFINE r == [node[l] EXCEPT !.commit = i]
<1>1. /\ Leads(l) /\ i > node[l].commit /\ Commits(l, i) /\ Outputs(l, r, req[l])
      /\ UNCHANGED <<sent, queue, prep, preparing, offers, late, faults, chain>>
  BY DEF HearAppended
<1>2. /\ i \in Nat /\ i <= last_log_index(node[l]) /\ Good(node, chain, sent)
  <2>1. last_log_index(node[l]) \in Nat
    BY InvParts, RecLog
  <2> QED BY <2>1, InvParts
<1>3. node' = [node EXCEPT ![l] = Settled(l, r)]
  BY <1>1 DEF Outputs
<1>4. Steady(node', sent) /\ Tells(l, r, node', chain)
  BY <1>1, <1>2, <1>3, CommitSettles
<1> HIDE DEF r
<1>5. /\ Served(node', chain, sent, queue, req', ack')
      /\ Carried(node', chain, prep, late, offers) /\ Noted(sent, preparing, faults)
  BY <1>1, <1>4, OutputsServed, InvParts
<1> QED BY <1>1, <1>5 DEF ReplicaInv

LEMMA StageNextInv ==
    ASSUME ReplicaInv, NEW f \in Node, NEW p \in prep[f], NEW h \in p.todo, StageNext(f, p, h)
    PROVE  ReplicaInv'
<1> DEFINE r == [node[f] EXCEPT !.arch = @ \cup {h}]
           p2 == [p EXCEPT !.todo = @ \ {h}, !.held = @ \cup {h}]
           P == (prep[f] \ {p}) \cup {p2}
<1>1. /\ node' = [node EXCEPT ![f] = r] /\ prep' = [prep EXCEPT ![f] = P]
      /\ UNCHANGED <<sent, queue, req, preparing, offers, late, ack, faults, chain>>
  BY DEF StageNext
<1>2. /\ p \in PrepRec /\ p.todo \subseteq Heads /\ p.held \subseteq Heads /\ p.todo \cap p.held = {}
      /\ Fits(node, chain, p.msg) /\ prep[f] \subseteq PrepRec
  BY PrepType
<1>3. node[f] \in Rec
  BY InvParts
<1>4. Kept(node[f], r)
  BY <1>2, <1>3 DEF Kept, Rec
<1> HIDE DEF r
<1>5. Served(node', chain, sent, queue, req, ack) /\ Carried(node', chain, prep, late, offers)
  BY <1>1, <1>4, KeptServed
<1>6. p2 \in PrepRec /\ p2.msg = p.msg /\ p2.todo \cap p2.held = {}
  BY <1>2 DEF PrepRec
<1>7. \A x \in prep[f] : x.todo \cap x.held = {} /\ Fits(node', chain, x.msg)
  BY <1>5 DEF Carried
<1> HIDE DEF p2
<1>8. P \subseteq PrepRec /\ \A x \in P : x.todo \cap x.held = {} /\ Fits(node', chain, x.msg)
  BY <1>2, <1>6, <1>7
<1> HIDE DEF P
<1>9. Carried(node', chain, prep', late, offers)
  BY <1>1, <1>5, <1>8, CarriedPrep
<1>10. Noted(sent, preparing, faults)
  BY InvParts
<1> QED BY <1>1, <1>5, <1>9, <1>10 DEF ReplicaInv

LEMMA StageFailsInv ==
    ASSUME ReplicaInv, NEW f \in Node, NEW p \in prep[f], StageFails(f, p)
    PROVE  ReplicaInv'
<1> DEFINE P == prep[f] \ {p}
<1>1. /\ prep' = [prep EXCEPT ![f] = P]
      /\ preparing' = IF p.msg.kind = "append"
                      THEN [preparing EXCEPT ![f] = @ \ {p.msg.from}] ELSE preparing
      /\ UNCHANGED <<node, sent, queue, req, offers, late, ack, faults, chain>>
  BY DEF StageFails
<1>2. /\ Carried(node, chain, prep, late, offers) /\ Noted(sent, preparing, faults)
      /\ Served(node, chain, sent, queue, req, ack)
  BY DEF ReplicaInv
<1>3. P \subseteq PrepRec /\ \A x \in P : x.todo \cap x.held = {} /\ Fits(node, chain, x.msg)
  BY <1>2 DEF Carried
<1> HIDE DEF P
<1>4. Carried(node, chain, prep', late, offers)
  BY <1>1, <1>2, <1>3, CarriedPrep
<1>5. preparing' \in [Node -> SUBSET Node]
  BY <1>1, <1>2 DEF Noted
<1>6. Noted(sent, preparing', faults)
  BY <1>2, <1>5 DEF Noted
<1> QED BY <1>1, <1>2, <1>4, <1>6 DEF ReplicaInv

LEMMA MaintainInv ==
    ASSUME ReplicaInv, NEW n \in Node, NEW expired, Maintain(n, expired)
    PROVE  ReplicaInv'
<1> DEFINE kept == [p \in Node |-> IF p \in expired THEN NoOffer ELSE offers[n][p]]
           r == collect(node[n], req[n].lease \cup Held(prep[n]) \cup Offered(kept))
<1>1. /\ offers' = [offers EXCEPT ![n] = kept] /\ node' = [node EXCEPT ![n] = r]
      /\ UNCHANGED <<sent, queue, req, prep, preparing, late, ack, faults, chain>>
  BY DEF Maintain
<1>2. node[n] \in Rec /\ Noted(sent, preparing, faults)
  BY InvParts
<1>3. Kept(node[n], r)
  <2> DEFINE a == node[n].arch \cap (retained_heads(node[n].state) \cup References(node[n])
                      \cup (req[n].lease \cup Held(prep[n]) \cup Offered(kept)))
  <2>1. r = [node[n] EXCEPT !.arch = a]
    BY DEF collect
  <2>2. a \in SUBSET Heads
    BY <1>2 DEF Rec
  <2> HIDE DEF a, r
  <2> QED BY <1>2, <2>1, <2>2 DEF Kept, Rec
<1> HIDE DEF r
<1>4. Served(node', chain, sent, queue, req, ack) /\ Carried(node', chain, prep, late, offers)
  BY <1>1, <1>3, KeptServed
<1>5. /\ kept \in [Node -> OfferRec \cup {NoOffer}]
      /\ \A p \in Node : kept[p] # NoOffer => SnapFits(node', chain, kept[p].snap, kept[p].term)
  BY <1>4 DEF Carried
<1> HIDE DEF kept
<1>6. Carried(node', chain, prep, late, offers')
  BY <1>1, <1>4, <1>5, CarriedOffer
<1> QED BY <1>1, <1>2, <1>4, <1>6 DEF ReplicaInv

LEMMA HearInstalledInv ==
    ASSUME ReplicaInv, NEW l \in Node, NEW f \in Node, HearInstalled(l, f)
    PROVE  ReplicaInv'
<1> DEFINE o == [offers[l] EXCEPT ![f] = NoOffer]
<1>1. /\ offers' = [offers EXCEPT ![l] = o]
      /\ UNCHANGED <<node, sent, queue, req, prep, preparing, late, ack, faults, chain>>
  BY DEF HearInstalled
<1>2. /\ Carried(node, chain, prep, late, offers) /\ Noted(sent, preparing, faults)
      /\ Served(node, chain, sent, queue, req, ack)
  BY DEF ReplicaInv
<1>3. /\ offers[l] \in [Node -> OfferRec \cup {NoOffer}]
      /\ \A p \in Node : offers[l][p] # NoOffer =>
            SnapFits(node, chain, offers[l][p].snap, offers[l][p].term)
  BY <1>2 DEF Carried
<1>4. /\ o \in [Node -> OfferRec \cup {NoOffer}]
      /\ \A p \in Node : o[p] # NoOffer => SnapFits(node, chain, o[p].snap, o[p].term)
  BY <1>3
<1> HIDE DEF o
<1>5. Carried(node, chain, prep, late, offers')
  BY <1>1, <1>2, <1>4, CarriedOffer
<1> QED BY <1>1, <1>2, <1>5 DEF ReplicaInv

LEMMA OfferInv ==
    ASSUME ReplicaInv, NEW l \in Node, NEW f \in Node, Offer(l, f)
    PROVE  ReplicaInv'
<1> DEFINE pinned == retained_heads(node[l].snap.state) \subseteq node[l].arch
           offered == offers[l][f] # NoOffer
           x == [term |-> node[l].term,
                 snap |-> IF offered THEN offers[l][f].snap ELSE node[l].snap]
           o == [offers[l] EXCEPT ![f] = x]
<1>1. /\ offered => offers[l][f].term < node[l].term
      /\ node' = IF pinned THEN node ELSE [node EXCEPT ![l] = Stopped(node[l])]
      /\ offers' = IF ~pinned THEN offers ELSE [offers EXCEPT ![l][f] = x]
      /\ UNCHANGED <<sent, queue, req, prep, preparing, late, ack, faults, chain>>
  BY DEF Offer
<1>2. /\ Carried(node, chain, prep, late, offers) /\ Noted(sent, preparing, faults)
      /\ Served(node, chain, sent, queue, req, ack)
  BY DEF ReplicaInv
<1>3. CASE ~pinned
  <2>1. node[l] \in Rec
    BY InvParts
  <2>2. Kept(node[l], Stopped(node[l]))
    BY <2>1 DEF Kept, Rec, Stopped
  <2> DEFINE r == Stopped(node[l])
  <2>3. Kept(node[l], r) /\ node' = [node EXCEPT ![l] = r] /\ offers' = offers
    BY <1>1, <1>3, <2>2
  <2> HIDE DEF r, pinned
  <2>4. Served(node', chain, sent, queue, req, ack) /\ Carried(node', chain, prep, late, offers)
    BY <2>3, KeptServed
  <2> QED BY <1>1, <1>2, <2>3, <2>4 DEF ReplicaInv
<1>4. CASE pinned
  <2>1. node' = node /\ offers' = [offers EXCEPT ![l] = o]
    <3>1. offers \in [Node -> [Node -> OfferRec \cup {NoOffer}]]
      BY <1>2 DEF Carried
    <3> HIDE DEF x, pinned
    <3> QED BY <1>1, <1>4, <3>1
  <2>2. /\ offers[l] \in [Node -> OfferRec \cup {NoOffer}]
        /\ \A p \in Node : offers[l][p] # NoOffer =>
              SnapFits(node, chain, offers[l][p].snap, offers[l][p].term)
    BY <1>2 DEF Carried
  <2>3. /\ node[l] \in Rec /\ Sound(node, chain, sent) /\ ChainOK(chain)
    BY InvParts
  <2>4. node[l].term \in Term /\ node[l].term \in Nat /\ node[l].snap \in SnapRec
    BY <2>3, RecLog DEF Rec
  <2>5. x \in OfferRec /\ SnapFits(node, chain, x.snap, x.term)
    <3>1. CASE offered
      <4>1. offers[l][f] \in OfferRec /\ SnapFits(node, chain, offers[l][f].snap, offers[l][f].term)
        BY <2>2, <3>1
      <4>2. /\ offers[l][f].snap \in SnapRec /\ offers[l][f].snap.index \in Nat
            /\ offers[l][f].snap.term \in Term /\ offers[l][f].term \in Nat
        BY <4>1, OfferType
      <4>3. offers[l][f].term <= node[l].term
        BY <1>1, <2>4, <3>1, <4>2
      <4>4. Later(node, chain, node, chain)
        BY <2>3, ChainLen DEF Later, Grows
      <4>5. SnapFits(node, chain, offers[l][f].snap, node[l].term)
        BY <2>3, <2>4, <4>1, <4>2, <4>3, <4>4, SnapLater
      <4>6. x.snap = offers[l][f].snap /\ x.term = node[l].term
        BY <3>1
      <4> QED BY <2>4, <4>2, <4>5, <4>6, <3>1 DEF OfferRec
    <3>2. CASE ~offered
      <4>1. x.snap = node[l].snap /\ x.term = node[l].term /\ x = [term |-> node[l].term, snap |-> node[l].snap]
        BY <3>2
      <4>2. SnapFits(node, chain, node[l].snap, node[l].term)
        BY <2>3 DEF Sound
      <4> HIDE DEF x
      <4> QED BY <2>4, <4>1, <4>2 DEF OfferRec
    <3> QED BY <3>1, <3>2
  <2> HIDE DEF x, pinned, offered
  <2>6. /\ o \in [Node -> OfferRec \cup {NoOffer}]
        /\ \A p \in Node : o[p] # NoOffer => SnapFits(node, chain, o[p].snap, o[p].term)
    BY <2>2, <2>5
  <2> HIDE DEF o
  <2>7. Carried(node, chain, prep, late, offers')
    BY <1>2, <2>1, <2>6, CarriedOffer
  <2> QED BY <1>1, <1>2, <2>1, <2>7 DEF ReplicaInv
<1> QED BY <1>3, <1>4

LEMMA TransferInv ==
    ASSUME ReplicaInv, NEW l \in Node, NEW f \in Node, Transfer(l, f)
    PROVE  ReplicaInv'
<1> DEFINE x == offers[l][f]
           m == [kind |-> "snapshot", from |-> l, term |-> x.term, snap |-> x.snap]
           p == [msg |-> m, todo |-> retained_heads(x.snap.state), held |-> {}]
           P == prep[f] \cup {p}
<1>1. /\ Up(f) /\ x # NoOffer /\ Outputs(f, Follow(node[f], x.term), req[f])
      /\ prep' = [prep EXCEPT ![f] = P]
      /\ UNCHANGED <<sent, queue, preparing, offers, late, faults, chain>>
  BY DEF Transfer
<1>2. /\ Carried(node, chain, prep, late, offers) /\ Good(node, chain, sent)
  BY InvParts
<1>3. x \in OfferRec
  BY <1>1, <1>2 DEF Carried
<1>4. x.snap \in SnapRec /\ x.term \in Term
  BY <1>3, OfferType
<1>5. node' = [node EXCEPT ![f] = Settled(f, Follow(node[f], x.term))]
  BY <1>1 DEF Outputs
<1>6. Steady(node', sent) /\ Tells(f, Follow(node[f], x.term), node', chain)
  <2> HIDE DEF x
  <2> QED BY <1>1, <1>2, <1>4, <1>5, FollowSettles
<1>7. /\ Served(node', chain, sent, queue, req', ack')
      /\ Carried(node', chain, prep, late, offers) /\ Noted(sent, preparing, faults)
  BY <1>1, <1>6, OutputsServed, InvParts
<1>8. /\ prep[f] \subseteq PrepRec
      /\ \A y \in prep[f] : y.todo \cap y.held = {} /\ Fits(node', chain, y.msg)
      /\ SnapFits(node', chain, x.snap, x.term)
  BY <1>1, <1>7 DEF Carried
<1> HIDE DEF x
<1>9. m \in InstallRec /\ Fits(node', chain, m)
  BY <1>4, <1>8 DEF InstallRec, Fits
<1>10. retained_heads(x.snap.state) \subseteq Heads
  <2>1. x.snap.state \in State
    BY <1>4 DEF SnapRec
  <2>2. \A s \in Slot : x.snap.state[s].head \in Heads \cup {NoHead} /\ x.snap.state[s].previous \in Heads \cup {NoHead}
    BY <2>1 DEF State, SlotState
  <2> QED BY <2>2 DEF retained_heads
<1> HIDE DEF m
<1>11. p \in PrepRec /\ p.todo \cap p.held = {} /\ p.msg = m
  BY <1>9, <1>10 DEF PrepRec
<1> HIDE DEF p
<1>12. P \subseteq PrepRec /\ \A y \in P : y.todo \cap y.held = {} /\ Fits(node', chain, y.msg)
  BY <1>8, <1>9, <1>11
<1> HIDE DEF P
<1>13. Carried(node', chain, prep', late, offers)
  BY <1>1, <1>7, <1>12, CarriedPrep
<1> QED BY <1>1, <1>7, <1>13 DEF ReplicaInv

(* A process loses what it keeps in memory.                                *)
LEMMA ForgetInv ==
    ASSUME ReplicaInv, NEW n \in Node, Forget(n), NEW nd, Good(nd, chain, sent),
           Later(node, chain, nd, chain), \A v \in Node : v # n => nd[v] = node[v],
           node[n].commit <= nd[n].commit
    PROVE  /\ Served(nd, chain, sent, queue', req', ack)
           /\ Carried(nd, chain, prep', late, offers') /\ Noted(sent, preparing', faults)
<1>1. /\ queue' = [queue EXCEPT ![n] = <<>>] /\ req' = [req EXCEPT ![n] = Idle]
      /\ prep' = [prep EXCEPT ![n] = {}] /\ preparing' = [preparing EXCEPT ![n] = {}]
      /\ offers' = [offers EXCEPT ![n] = [p \in Node |-> NoOffer]]
  BY DEF Forget
<1>2. /\ Heard(node, chain, ack) /\ Carried(node, chain, prep, late, offers)
      /\ Noted(sent, preparing, faults) /\ ChainOK(chain)
      /\ req = [v \in Node |-> req[v]] /\ queue = [v \in Node |-> queue[v]]
      /\ \A v \in Node : Asks(node, chain, v, queue[v], req[v]) /\ node[v] \in Rec
  BY InvParts
<1>3. \A v \in Node : nd[v] \in Rec
  BY GoodParts
<1>4. Heard(nd, chain, ack) /\ Carried(nd, chain, prep, late, offers)
  BY <1>2, HeardLater, CarriedLater
<1>5. ASSUME NEW v \in Node, v # n PROVE Asks(nd, chain, v, queue'[v], req'[v])
  <2>1. queue'[v] = queue[v] /\ req'[v] = req[v] /\ nd[v] = node[v]
    BY <1>1, <1>2, <1>5
  <2>2. Onward(node[v], nd[v])
    BY <1>2, <2>1, OnwardSelf
  <2>3. Asks(nd, chain, v, queue[v], req[v])
    BY <1>2, <1>3, <2>2, AsksLater
  <2> QED BY <2>1, <2>3
<1>6. Asks(nd, chain, n, queue'[n], req'[n])
  <2>1. queue'[n] = <<>> /\ req'[n] = Idle
    BY <1>1, <1>2
  <2>2. Idle \in ReqRec /\ Idle.pc = "idle" /\ Idle.term = 0
    BY TermNat, IndexNat DEF Idle, ReqRec
  <2>3. nd[n].term \in Nat
    BY <1>3, RecLog
  <2> HIDE DEF Idle
  <2>4. Fenced(nd, chain, n, Idle) /\ Waits(<<>>, Idle) /\ Bounded(nd[n], <<>>, Idle)
    BY <2>2, <2>3 DEF Fenced, Waits, Bounded
  <2>5. Dated(nd[n], <<>>, Idle)
    BY <2>2, <2>3 DEF Dated
  <2>6. <<>> \in Seq(Item)
    OBVIOUS
  <2> QED BY <2>1, <2>2, <2>4, <2>5, <2>6 DEF Asks
<1>7. queue' = [v \in Node |-> queue'[v]] /\ req' = [v \in Node |-> req'[v]]
  BY <1>1, <1>2
<1>8. Served(nd, chain, sent, queue', req', ack)
  BY <1>4, <1>5, <1>6, <1>7 DEF Served
<1>9. Carried(nd, chain, prep', late, offers)
  <2>1. {} \subseteq PrepRec /\ \A p \in {} : p.todo \cap p.held = {} /\ Fits(nd, chain, p.msg)
    OBVIOUS
  <2> QED BY <1>1, <1>4, <2>1, CarriedPrep
<1>10. Carried(nd, chain, prep', late, offers')
  <2> DEFINE o == [p \in Node |-> NoOffer]
  <2>1. /\ o \in [Node -> OfferRec \cup {NoOffer}]
        /\ \A p \in Node : o[p] # NoOffer => SnapFits(nd, chain, o[p].snap, o[p].term)
        /\ offers' = [offers EXCEPT ![n] = o]
    BY <1>1
  <2> HIDE DEF o
  <2> QED BY <1>9, <2>1, CarriedOffer
<1>11. Noted(sent, preparing', faults)
  BY <1>1, <1>2 DEF Noted
<1> QED BY <1>8, <1>10, <1>11

LEMMA FaultType ==
    ASSUME Noted(sent, preparing, faults), NEW k, Fault(k)
    PROVE  faults' \in 0 .. MaxFaults
  BY ReplicaAssumption DEF Noted, Fault

LEMMA CrashInv ==
    ASSUME ReplicaInv, NEW n \in Node, Crash(n)
    PROVE  ReplicaInv'
<1> DEFINE r == [node[n] EXCEPT !.status = "down", !.leads = FALSE]
<1>1. Up(n) /\ Fault("crash") /\ Forget(n) /\ UNCHANGED <<sent, late, ack, chain>>
  BY DEF Crash
<1>2. /\ node \in [Node -> Rec] /\ node[n] \in Rec /\ Noted(sent, preparing, faults)
      /\ Good(node, chain, sent)
  BY InvParts
<1>3. node' = [node EXCEPT ![n] = r]
  BY <1>2 DEF Crash
<1>4. Kept(node[n], r)
  BY <1>1, <1>2 DEF Kept, Rec, Up
<1> HIDE DEF r
<1>5. Steady(node', sent)
  BY <1>2, <1>3, <1>4, KeptGood
<1>6. Good(node', chain, sent) /\ Later(node, chain, node', chain) /\ node[n].commit <= node'[n].commit
  BY <1>5 DEF Steady, Onward
<1>7. \A v \in Node : v # n => node'[v] = node[v]
  BY <1>2, <1>3
<1>8. /\ Served(node', chain, sent, queue', req', ack)
      /\ Carried(node', chain, prep', late, offers') /\ Noted(sent, preparing', faults)
  BY <1>1, <1>6, <1>7, ForgetInv
<1>9. Noted(sent, preparing', faults')
  BY <1>1, <1>2, <1>8, FaultType DEF Noted
<1> QED BY <1>1, <1>8, <1>9 DEF ReplicaInv

LEMMA OpenInv ==
    ASSUME ReplicaInv, NEW n \in Node, Open(n)
    PROVE  ReplicaInv'
<1> DEFINE r == [node[n] EXCEPT
                   !.status = "up",
                   !.state = Replay(node[n].snap.state,
                                    Between(node[n], node[n].snap.index, node[n].commit))]
<1>1. ~Up(n) /\ Forget(n) /\ UNCHANGED <<sent, late, ack, faults, chain>>
  BY DEF Open
<1>2. node \in [Node -> Rec] /\ node[n] \in Rec /\ Good(node, chain, sent)
  BY InvParts
<1>3. node' = [node EXCEPT ![n] = r]
  BY <1>2 DEF Open
<1>4. /\ Good(node', chain, sent) /\ Later(node, chain, node', chain)
      /\ \A v \in Node : node'[v].commit = node[v].commit /\ (v # n => node'[v] = node[v])
  <2>1. Reopened(n, r)
    BY DEF Reopened
  <2> HIDE DEF r
  <2>2. /\ Good(node', chain, sent) /\ Later(node, chain, node', chain)
        /\ node'[n].commit = node[n].commit
    BY <1>2, <1>3, <2>1, OpenGood
  <2>3. \A v \in Node : v # n => node'[v] = node[v]
    BY <1>2, <1>3
  <2> QED BY <2>2, <2>3
<1>5. node[n].commit \in Nat
  BY <1>2, RecLog
<1>6. node[n].commit <= node'[n].commit
  BY <1>4, <1>5
<1>7. /\ Served(node', chain, sent, queue', req', ack)
      /\ Carried(node', chain, prep', late, offers') /\ Noted(sent, preparing', faults)
  BY <1>1, <1>4, <1>6, ForgetInv
<1> QED BY <1>1, <1>7 DEF ReplicaInv

(* The leader sends a piece of its chain.                                  *)
LEMMA AppendMsgFits ==
    ASSUME ReplicaInv, NEW l \in Node, Leads(l),
           NEW prev \in node[l].snap.index .. last_log_index(node[l]), NEW m, m = AppendMsg(l, prev)
    PROVE  m \in AppendRec /\ Fits(node, chain, m)
<1> DEFINE r == node[l]
           t == node[l].term
           last == last_log_index(r)
           end == Min({last, prev + MaxBatch})
           es == Between(r, prev, end)
           c == Min({r.commit, end})
<1>1. /\ r \in Rec /\ Raft(node, chain, sent) /\ ChainOK(chain) /\ Sound(node, chain, sent)
      /\ Typed(node, sent)
  BY InvParts, SoundTyped
<1>2. /\ IsLog(r) /\ t \in Term /\ t \in Nat /\ last \in Nat /\ r.commit \in Nat /\ r.snap.index \in Nat
  BY <1>1, RecLog
<1>3. /\ prev \in Nat /\ r.snap.index <= prev /\ prev <= last /\ MaxBatch \in Nat
  BY <1>2, ReplicaAssumption
<1>4. /\ Along(chain, r, t) /\ last = Len(chain[t])
  BY <1>1 DEF Raft, LeaderOK, Leads
<1>5. /\ end \in Nat /\ prev <= end /\ end <= last /\ end <= prev + MaxBatch
  <2>1. prev + MaxBatch \in Nat /\ prev <= prev + MaxBatch
    BY <1>3
  <2> HIDE DEF last
  <2>2. /\ end \in Nat /\ (end = last \/ end = prev + MaxBatch) /\ end <= last /\ end <= prev + MaxBatch
    BY <1>2, <2>1, MinOf
  <2> QED BY <2>2, <1>2, <1>3, <2>1
<1>6. m = [kind |-> "append", from |-> l, term |-> t, prev |-> prev, prevTerm |-> term_at(r, prev),
           entries |-> es, commit |-> c]
  BY DEF AppendMsg
<1> HIDE DEF end
<1>7. c \in Nat /\ c <= r.commit /\ c <= end
  BY <1>2, <1>5, MinOf
<1> HIDE DEF c, r
<1>8. Part(r, prev, end, es)
  BY <1>2, <1>3, <1>5, BetweenOf
<1> HIDE DEF es
<1>9. es \in Seq(Entry) /\ Len(es) = end - prev /\ \A k \in 1 .. end - prev : es[k] = r.log[(prev - r.snap.index) + k]
  BY <1>8 DEF Part
<1>10. \A k \in 1 .. Len(es) : es[k] = chain[t][prev + k]
  <2> SUFFICES ASSUME NEW k \in 1 .. Len(es) PROVE es[k] = chain[t][prev + k]
    OBVIOUS
  <2>1. k \in Nat /\ k \in 1 .. end - prev /\ prev + k <= last
    BY <1>2, <1>3, <1>5, <1>9
  <2> DEFINE j == (prev - r.snap.index) + k
  <2>2. j \in 1 .. Len(r.log) /\ r.snap.index + j = prev + k
    <3>1. prev + k \in Nat /\ r.snap.index < prev + k
      BY <2>1, <1>2, <1>3
    <3>2. (prev + k) - r.snap.index \in 1 .. Len(r.log)
      BY <3>1, <2>1, <1>2, LogLen
    <3>3. j = (prev + k) - r.snap.index
      BY <2>1, <1>2, <1>3
    <3> QED BY <3>2, <3>3, <2>1, <1>2, <1>3
  <2>3. es[k] = r.log[j]
    BY <1>9, <2>1
  <2> HIDE DEF j
  <2>4. r.log[j] = chain[t][r.snap.index + j]
    BY <1>4, <2>2 DEF Along
  <2> QED BY <2>2, <2>3, <2>4
<1>11. /\ term_at(r, prev) \in Term
       /\ IF prev = 0 THEN term_at(r, prev) = 0 ELSE chain[t][prev].term = term_at(r, prev)
  <2>1. CASE prev = 0
    <3>1. r.snap.index = 0
      BY <2>1, <1>2, <1>3
    <3>2. r.snap.term = 0
      BY <3>1, <1>4 DEF Along
    <3>3. term_at(r, prev) = 0
      BY <2>1, <3>1, <3>2 DEF term_at
    <3> QED BY <2>1, <3>3, TermNat
  <2>2. CASE prev # 0
    <3>1. prev \in Nat \ {0}
      BY <2>2, <1>3
    <3>2. At(chain, t, prev, term_at(r, prev))
      BY <3>1, <1>1, <1>2, <1>3, <1>4, AlongAt
    <3>3. chain[t][prev].term = term_at(r, prev) /\ term_at(r, prev) \in Term
      BY <3>2, <1>1, <1>2, AtParts
    <3> QED BY <2>2, <3>3
  <2> QED BY <2>1, <2>2
<1>12. CommittedUpTo(node, chain, c, t, t)
  <2>1. CommittedUpTo(node, chain, r.commit, t, t)
    BY <1>1, <1>2, <1>4, PlacedAt DEF r
  <2>2. r.commit <= last
    BY <1>1 DEF Typed, r
  <2>3. c <= Len(chain[t]) /\ Len(chain[t]) \in Nat
    BY <1>2, <1>4, <1>5, <1>7
  <2>4. Same(chain, t, t, c)
    BY <2>3 DEF Same
  <2> QED BY <2>1, <2>4, <1>1, <1>2, <1>7, UpToDown
<1> HIDE DEF t, last
<1> DEFINE pt == term_at(r, prev)
<1>13. m = [kind |-> "append", from |-> l, term |-> t, prev |-> prev, prevTerm |-> pt,
            entries |-> es, commit |-> c]
  BY <1>6
<1>14. pt \in Term /\ IF prev = 0 THEN pt = 0 ELSE chain[t][prev].term = pt
  BY <1>11
<1> HIDE DEF pt
<1>15. m \in AppendRec
  BY <1>2, <1>3, <1>7, <1>9, <1>13, <1>14 DEF AppendRec
<1>16. /\ m.kind = "append" /\ m.term = t /\ m.prev = prev /\ m.prevTerm = pt /\ m.entries = es
       /\ m.commit = c
  BY <1>13
<1>17. EndOf(m) = end
  BY <1>16, <1>9, <1>3, <1>5 DEF EndOf
<1>18. AppendFits(node, chain, m)
  BY <1>2, <1>4, <1>5, <1>10, <1>12, <1>14, <1>16, <1>17 DEF AppendFits
<1>19. Len(m.entries) <= MaxBatch
  BY <1>3, <1>5, <1>9, <1>16
<1> QED BY <1>15, <1>16, <1>18, <1>19 DEF Fits

(* engine.rs step on AppendEntries.                                        *)
LEMMA AppendEventServed ==
    ASSUME ReplicaInv, NEW f \in Node, Up(f), NEW m \in AppendRec, Fits(node, chain, m),
           m.term >= node[f].term, AppendEvent(f, m)
    PROVE  /\ Served(node', chain, sent', queue, req', ack')
           /\ Carried(node', chain, prep, late, offers) /\ Noted(sent', preparing, faults)
<1>1. /\ Outputs(f, AppendStep(node[f], m), req[f])
      /\ sent' = IF Appends(Follow(node[f], m.term), m)
                 THEN [sent EXCEPT ![f].append = [term |-> m.term, index |-> Matched(f, m)]]
                 ELSE sent
  BY DEF AppendEvent
<1>2. AppendTyped(m) /\ AppendFits(node, chain, m)
  BY DEF AppendRec, AppendTyped, Fits
<1>3. /\ Good(node, chain, sent) /\ sent \in SentSet /\ Noted(sent, preparing, faults)
  BY InvParts
<1>4. node' = [node EXCEPT ![f] = Settled(f, AppendStep(node[f], m))]
  BY <1>1 DEF Outputs
<1>5. Steady(node', sent') /\ sent' \in SentSet /\ Tells(f, AppendStep(node[f], m), node', chain)
  BY <1>1, <1>2, <1>3, <1>4, AppendSettles
<1>6. /\ Served(node', chain, sent', queue, req', ack')
      /\ Carried(node', chain, prep, late, offers)
  BY <1>1, <1>5, OutputsServed
<1>7. \A v \in Node : sent'[v].snap = sent[v].snap
  <2> DEFINE a == [term |-> m.term, index |-> Matched(f, m)]
  <2>1. sent' = sent \/ sent' = [sent EXCEPT ![f].append = a]
    BY <1>1
  <2> HIDE DEF a
  <2> QED BY <2>1, <1>3 DEF SentSet
<1>8. Noted(sent', preparing, faults)
  BY <1>3, <1>5, <1>7 DEF Noted
<1> QED BY <1>6, <1>8

(* Cluster::incoming on AppendEntries.                                     *)
LEMMA ReceiveServed ==
    ASSUME ReplicaInv, NEW f \in Node, NEW m \in AppendRec, Fits(node, chain, m), Receive(f, m)
    PROVE  /\ Served(node', chain, sent', queue, req', ack')
           /\ Carried(node', chain, prep', late, offers) /\ Noted(sent', preparing', faults)
<1>1. Up(f)
  BY DEF Receive
<1>2. CASE m.term < node[f].term /\ UNCHANGED <<node, req, ack, sent, prep, preparing>>
  <2>1. /\ Served(node, chain, sent, queue, req, ack)
        /\ Carried(node, chain, prep, late, offers) /\ Noted(sent, preparing, faults)
    BY DEF ReplicaInv
  <2> QED BY <1>2, <2>1
<1>3. CASE m.term >= node[f].term /\ AppendEvent(f, m) /\ UNCHANGED <<prep, preparing>>
  BY <1>1, <1>3, AppendEventServed
<1>4. CASE /\ m.term >= node[f].term
           /\ Outputs(f, Follow(node[f], m.term), req[f])
           /\ IF m.from \in preparing[f]
              THEN UNCHANGED <<prep, preparing>>
              ELSE /\ preparing' = [preparing EXCEPT ![f] = @ \cup {m.from}]
                   /\ prep' = [prep EXCEPT ![f] =
                                  @ \cup {[msg |-> m, todo |-> HeadsOf(m), held |-> {}]}]
           /\ UNCHANGED sent
  <2>1. m.term \in Term /\ m.from \in Node /\ Good(node, chain, sent)
    BY InvParts DEF AppendRec
  <2>2. node' = [node EXCEPT ![f] = Settled(f, Follow(node[f], m.term))]
    BY <1>4 DEF Outputs
  <2>3. Steady(node', sent) /\ Tells(f, Follow(node[f], m.term), node', chain)
    BY <1>1, <2>1, <2>2, FollowSettles
  <2>4. /\ Served(node', chain, sent, queue, req', ack')
        /\ Carried(node', chain, prep, late, offers) /\ Noted(sent, preparing, faults)
    BY <1>4, <2>3, OutputsServed, InvParts
  <2>5. preparing' \in [Node -> SUBSET Node]
    BY <1>4, <2>1, <2>4 DEF Noted
  <2>6. Carried(node', chain, prep', late, offers)
    <3> DEFINE p == [msg |-> m, todo |-> HeadsOf(m), held |-> {}]
               P == prep[f] \cup {p}
    <3>1. CASE prep' = prep
      BY <3>1, <2>4
    <3>2. CASE prep' = [prep EXCEPT ![f] = P]
      <4>1. Fits(node', chain, m)
        <5>1. Later(node, chain, node', chain) /\ ChainOK(chain) /\ m \in AppendRec \cup InstallRec
          BY <2>3, InvParts DEF Steady
        <5> QED BY <5>1, FitsLater
      <4>2. HeadsOf(m) \subseteq Heads
        <5>1. m.entries \in Seq(Entry)
          BY DEF AppendRec
        <5>2. \A i \in 1 .. Len(m.entries) : m.entries[i] \in Entry
          BY <5>1
        <5>3. \A i \in 1 .. Len(m.entries) : m.entries[i].cmd \in Command
          BY <5>2 DEF Entry
        <5>4. \A c \in Command : command_heads(c) \subseteq Heads
          BY DEF Command, Writes, Barrier, command_heads
        <5> QED BY <5>3, <5>4 DEF HeadsOf
      <4>3. p \in PrepRec /\ p.todo \cap p.held = {} /\ p.msg = m
        BY <4>2 DEF PrepRec
      <4> HIDE DEF p
      <4>4. /\ prep[f] \subseteq PrepRec
            /\ \A y \in prep[f] : y.todo \cap y.held = {} /\ Fits(node', chain, y.msg)
        BY <2>4 DEF Carried
      <4>5. P \subseteq PrepRec /\ \A y \in P : y.todo \cap y.held = {} /\ Fits(node', chain, y.msg)
        BY <4>1, <4>3, <4>4
      <4> HIDE DEF P
      <4> QED BY <2>4, <3>2, <4>5, CarriedPrep
    <3> QED BY <1>4, <3>1, <3>2
  <2>7. Noted(sent', preparing', faults)
    BY <1>4, <2>4, <2>5 DEF Noted
  <2> QED BY <1>4, <2>4, <2>6, <2>7
<1> QED BY <1>2, <1>3, <1>4 DEF Receive

LEMMA SendInv ==
    ASSUME ReplicaInv, NEW l \in Node, NEW f \in Node,
           NEW prev \in node[l].snap.index .. last_log_index(node[l]), Send(l, f, prev)
    PROVE  ReplicaInv'
<1> DEFINE m == AppendMsg(l, prev)
<1>1. m \in AppendRec /\ Fits(node, chain, m)
  BY AppendMsgFits DEF Send
<1> HIDE DEF m
<1>2. UNCHANGED <<queue, offers, chain>>
  BY DEF Send
<1>3. CASE Receive(f, m) /\ UNCHANGED <<late, faults>>
  <2>1. /\ Served(node', chain, sent', queue, req', ack')
        /\ Carried(node', chain, prep', late, offers) /\ Noted(sent', preparing', faults)
    BY <1>1, <1>3, ReceiveServed
  <2> QED BY <1>2, <1>3, <2>1 DEF ReplicaInv
<1>4. CASE /\ Fault("delay") /\ late' = [to |-> f, msg |-> m]
           /\ UNCHANGED <<node, req, ack, sent, prep, preparing>>
  <2>1. /\ Served(node, chain, sent, queue, req, ack)
        /\ Carried(node, chain, prep, late, offers) /\ Noted(sent, preparing, faults)
    BY DEF ReplicaInv
  <2>2. late' \in LateRec /\ late'.msg = m
    BY <1>1, <1>4 DEF LateRec
  <2>3. Carried(node, chain, prep, late', offers)
    BY <1>1, <2>1, <2>2, CarriedLate
  <2>4. Noted(sent, preparing, faults')
    BY <1>4, <2>1, FaultType DEF Noted
  <2> QED BY <1>2, <1>4, <2>1, <2>3, <2>4 DEF ReplicaInv
<1> QED BY <1>3, <1>4 DEF Send, m

LEMMA ReceiveLateInv ==
    ASSUME ReplicaInv, ReceiveLate
    PROVE  ReplicaInv'
<1>1. late # NoMsg /\ Receive(late.to, late.msg) /\ late' = NoMsg /\ UNCHANGED <<queue, offers, faults, chain>>
  BY DEF ReceiveLate
<1>2. late \in LateRec /\ Fits(node, chain, late.msg)
  BY <1>1, InvParts DEF Carried
<1>3. late.to \in Node /\ late.msg \in AppendRec
  BY <1>2 DEF LateRec
<1>4. /\ Served(node', chain, sent', queue, req', ack')
      /\ Carried(node', chain, prep', late, offers) /\ Noted(sent', preparing', faults)
  BY <1>1, <1>2, <1>3, ReceiveServed
<1>5. Carried(node', chain, prep', NoMsg, offers)
  BY <1>4, CarriedLate
<1> QED BY <1>1, <1>4, <1>5 DEF ReplicaInv

LEMMA PreparedInv ==
    ASSUME ReplicaInv, NEW f \in Node, NEW p \in prep[f], Prepared(f, p)
    PROVE  ReplicaInv'
<1> DEFINE P == prep[f] \ {p}
           m == p.msg
<1>1. /\ Up(f) /\ prep' = [prep EXCEPT ![f] = P]
      /\ preparing' = [preparing EXCEPT ![f] = @ \ {m.from}]
      /\ UNCHANGED <<queue, offers, late, faults, chain>>
  BY DEF Prepared
<1>2. /\ m \in AppendRec \cup InstallRec /\ Fits(node, chain, m)
  BY PrepType
<1>3. SUFFICES /\ Served(node', chain, sent', queue, req', ack')
               /\ Carried(node', chain, prep, late, offers) /\ Noted(sent', preparing, faults)
  <2>1. P \subseteq PrepRec /\ \A x \in P : x.todo \cap x.held = {} /\ Fits(node', chain, x.msg)
    BY <1>3 DEF Carried
  <2> HIDE DEF P, m
  <2>2. Carried(node', chain, prep', late, offers)
    BY <1>1, <1>3, <2>1, CarriedPrep
  <2>3. Noted(sent', preparing', faults)
    BY <1>1, <1>3 DEF Noted
  <2> QED BY <1>1, <1>3, <2>2, <2>3 DEF ReplicaInv
<1>4. CASE m.term < node[f].term /\ UNCHANGED <<node, req, ack, sent>>
  BY <1>4 DEF ReplicaInv
<1>5. CASE m.term >= node[f].term /\ m.kind = "append" /\ AppendEvent(f, m)
  <2>1. m \in AppendRec
    BY <1>2, <1>5 DEF InstallRec
  <2> HIDE DEF m
  <2> QED BY <1>1, <1>2, <1>5, <2>1, AppendEventServed
<1>6. CASE /\ m.term >= node[f].term /\ m.kind = "snapshot"
           /\ Outputs(f, InstallStep(node[f], m), req[f])
           /\ sent' = [sent EXCEPT ![f].snap = Max({@, m.snap.index})]
  <2>1. m \in InstallRec
    BY <1>2, <1>6 DEF AppendRec
  <2> HIDE DEF m
  <2>2. m.term \in Term /\ m.snap \in SnapRec /\ m.snap.index \in Nat /\ m.snap.term \in Term
    BY <2>1 DEF InstallRec, SnapRec
  <2>3. SnapFits(node, chain, m.snap, m.term)
    BY <1>2, <1>6 DEF Fits
  <2>4. /\ Good(node, chain, sent) /\ sent \in SentSet /\ Noted(sent, preparing, faults) /\ ChainOK(chain)
    BY InvParts
  <2>5. node' = [node EXCEPT ![f] = Settled(f, InstallStep(node[f], m))]
    BY <1>6 DEF Outputs
  <2>6. Steady(node', sent) /\ Tells(f, InstallStep(node[f], m), node', chain)
    BY <1>1, <1>6, <2>2, <2>3, <2>4, <2>5, InstallSettles
  <2>7. m.snap.index \in Index
    <3>1. CASE m.snap.index = 0
      BY <3>1, IndexNat
    <3>2. CASE m.snap.index # 0
      <4>1. At(chain, m.snap.term, m.snap.index, m.snap.term)
        BY <2>3, <3>2 DEF SnapFits
      <4>2. m.snap.index <= Len(chain[m.snap.term]) /\ Len(chain[m.snap.term]) \in Nat
        BY <4>1, <2>2, <2>4, AtParts
      <4>3. Len(chain[m.snap.term]) <= MaxIndex + m.snap.term
        BY <2>2, <2>4 DEF ChainOK
      <4>4. m.snap.term \in Nat /\ m.snap.term <= MaxTerm /\ MaxTerm \in Nat /\ MaxIndex \in Nat
        BY <2>2, TermNat, ReplicaAssumption
      <4> QED BY <2>2, <4>2, <4>3, <4>4, IndexNat
    <3> QED BY <3>1, <3>2
  <2>8. sent[f].snap \in Index /\ sent[f].snap \in Nat
    BY <2>4, IndexNat DEF Noted
  <2> DEFINE k == Max({sent[f].snap, m.snap.index})
  <2>9. k \in Index /\ k \in Nat
    BY <2>2, <2>7, <2>8, MaxOf
  <2>10. sent' = [sent EXCEPT ![f].snap = k]
    BY <1>6
  <2> HIDE DEF k
  <2>11. /\ sent' \in SentSet /\ \A v \in Node : sent'[v].snap \in Index /\ sent'[v].append = sent[v].append
    BY <2>4, <2>9, <2>10 DEF SentSet, Noted
  <2>12. Steady(node', sent')
    <3>1. SentType(sent')
      BY <2>11 DEF SentSet, SentType
    <3> QED BY <2>6, <2>11, <3>1, SentAlike
  <2>13. /\ Served(node', chain, sent', queue, req', ack')
         /\ Carried(node', chain, prep, late, offers)
    BY <1>6, <2>6, <2>12, OutputsServed
  <2>14. Noted(sent', preparing, faults)
    BY <2>4, <2>11 DEF Noted
  <2> QED BY <2>13, <2>14
<1> QED BY <1>4, <1>5, <1>6 DEF Prepared

-----------------------------------------------------------------------------
(* Requests.                                                               *)

(* A leader that is not overtaken has what clients have been told of.      *)
LEMMA FenceStarts ==
    ASSUME NEW nd, NEW ch, NEW sn, Good(nd, ch, sn), NEW n \in Node, nd[n].leads,
           NEW a, Heard(nd, ch, a), NEW t, t = nd[n].term
    PROVE  a.index <= Len(ch[t]) \/ Overtaken(nd, ch, t)
<1>1. ChainOK(ch) /\ Raft(nd, ch, sn) /\ nd[n] \in Rec
  BY SoundTyped DEF Good, Sound
<1>2. t \in Term /\ t \in Nat /\ a.index \in Nat /\ Len(ch[t]) \in Nat
  <2>1. t \in Term /\ t \in Nat
    BY <1>1, RecLog
  <2>2. a.index \in Nat
    BY IndexNat DEF Heard
  <2> QED BY <2>1, <2>2, <1>1, ChainLen
<1>3. ch[t] # <<>>
  BY <1>1 DEF Raft, LeaderOK
<1>4. CASE a.index = 0
  BY <1>2, <1>4
<1>5. CASE a.index # 0
  <2>1. PICK x \in Term : At(ch, x, a.index, a.term) /\ Committed(nd, ch, a.index, x, MaxTerm)
    BY <1>5 DEF Heard, Told
  <2>2. PICK u \in Term : \E i \in 1 .. Len(ch[u]) :
           Durable(nd, ch, i, u) /\ At(ch, u, i, u) /\ Stable(ch, i, u) /\ a.index <= i
    BY <1>1, <2>1, CommittedBy
  <2>3. PICK i \in 1 .. Len(ch[u]) :
           Durable(nd, ch, i, u) /\ At(ch, u, i, u) /\ Stable(ch, i, u) /\ a.index <= i
    BY <2>2
  <2>4. u \in Nat /\ i \in Nat
    BY <1>1, <2>3, TermNat, AtParts
  <2>5. CASE u > t
    BY <2>3, <2>4, <2>5 DEF Overtaken
  <2>6. CASE u = t
    BY <1>2, <2>3, <2>4, <2>6
  <2>7. CASE u < t
    <3>1. t > u
      BY <1>2, <2>4, <2>7
    <3>2. At(ch, t, i, u)
      BY <1>2, <1>3, <2>3, <3>1 DEF Stable
    <3>3. i <= Len(ch[t])
      BY <1>1, <1>2, <3>2, AtParts
    <3> QED BY <1>2, <2>3, <2>4, <3>3
  <2> QED BY <1>2, <2>4, <2>5, <2>6, <2>7
<1> QED BY <1>4, <1>5

LEMMA AsksParts ==
    ASSUME NEW nd, NEW ch, NEW n, NEW s, NEW q, Asks(nd, ch, n, s, q)
    PROVE  /\ s \in Seq(Item) /\ q \in ReqRec /\ (q.pc = "stage" => q.cmd.op = "put")
           /\ Fenced(nd, ch, n, q) /\ (nd[n].status = "up" => Waits(s, q))
           /\ Dated(nd[n], s, q) /\ Bounded(nd[n], s, q)
           /\ Len(s) \in Nat /\ DOMAIN s = 1 .. Len(s)
           /\ \A i \in DOMAIN s : s[i] \in Item /\ s[i].term \in Term /\ s[i].term \in Nat
<1>1. /\ s \in Seq(Item) /\ q \in ReqRec /\ (q.pc = "stage" => q.cmd.op = "put")
      /\ Fenced(nd, ch, n, q) /\ (nd[n].status = "up" => Waits(s, q))
      /\ Dated(nd[n], s, q) /\ Bounded(nd[n], s, q)
  BY DEF Asks
<1>2. Len(s) \in Nat /\ DOMAIN s = 1 .. Len(s) /\ \A i \in DOMAIN s : s[i] \in Item
  BY <1>1
<1>3. \A x \in Item : x.term \in Term /\ x.term \in Nat
  BY TermNat DEF Item
<1> QED BY <1>1, <1>2, <1>3

(* Request q goes on as q2 and waits for what it queues.                   *)
LEMMA AppendAsks ==
    ASSUME NEW nd, NEW ch, NEW n \in Node, nd[n] \in Rec, NEW s, NEW q, Asks(nd, ch, n, s, q),
           q.pc \notin {"queued_barrier", "queued"},
           NEW x \in Item, NEW q2 \in ReqRec, x.term = q2.term,
           q2.pc = IF x.cmd = Barrier THEN "queued_barrier" ELSE "queued",
           q2.term <= nd[n].term, \A i \in DOMAIN s : s[i].term <= q2.term,
           Fenced(nd, ch, n, q2),
           nd[n].leads /\ q2.term = nd[n].term =>
              /\ last_log_index(nd[n]) + Len(s) <= MaxIndex
              /\ x.cmd = Barrier => last_log_index(nd[n]) + Len(s) < MaxIndex,
           NEW s2, s2 = Append(s, x)
    PROVE  Asks(nd, ch, n, s2, q2)
<1>1. /\ s \in Seq(Item) /\ (nd[n].status = "up" => Waits(s, q)) /\ Dated(nd[n], s, q)
      /\ Len(s) \in Nat /\ DOMAIN s = 1 .. Len(s) /\ \A i \in DOMAIN s : s[i].term \in Nat
  BY AsksParts
<1>2. /\ s2 \in Seq(Item) /\ Len(s2) = Len(s) + 1 /\ DOMAIN s2 = 1 .. (Len(s) + 1)
      /\ (\A i \in 1 .. Len(s) : s2[i] = s[i]) /\ s2[Len(s) + 1] = x
  BY <1>1, AppendOf
<1>3. /\ q2.term \in Nat /\ nd[n].term \in Nat /\ last_log_index(nd[n]) \in Nat
  BY ReqType, RecLog
<1>4. \A i \in DOMAIN s2 : s2[i] = IF i = Len(s) + 1 THEN x ELSE s[i]
  BY <1>1, <1>2
<1>5. \A i \in DOMAIN s2 : i # Len(s) + 1 => i \in DOMAIN s
  BY <1>1, <1>2
<1>6. nd[n].status = "up" => Waits(s2, q2)
  <2> SUFFICES ASSUME nd[n].status = "up" PROVE Waits(s2, q2)
    OBVIOUS
  <2>1. \A i \in DOMAIN s : ~s[i].live
    BY <1>1, NoneWaits
  <2>2. \A i \in DOMAIN s2 : s2[i].live => i = Len(s) + 1 /\ s2[i] = x
    BY <1>4, <1>5, <2>1
  <2> QED BY <2>2 DEF Waits
<1>7. \A i \in DOMAIN s2 : s2[i].term <= q2.term /\ s2[i].term \in Nat
  BY <1>1, <1>3, <1>4, <1>5
<1>8. Dated(nd[n], s2, q2)
  BY <1>3, <1>7 DEF Dated
<1>9. Bounded(nd[n], s2, q2)
  <2> SUFFICES ASSUME nd[n].leads
               PROVE  /\ (\E i \in DOMAIN s2 : s2[i].term = nd[n].term)
                             => last_log_index(nd[n]) + Len(s2) <= MaxIndex + 1
                      /\ q2.term = nd[n].term
                            /\ q2.pc \in {"queued_barrier", "logged_barrier", "ready", "stage"}
                             => last_log_index(nd[n]) + Len(s2) <= MaxIndex
    BY DEF Bounded
  <2>1. (\E i \in DOMAIN s2 : s2[i].term = nd[n].term) => q2.term = nd[n].term
    BY <1>3, <1>7
  <2>2. q2.pc \in {"queued_barrier", "logged_barrier", "ready", "stage"} => x.cmd = Barrier
    OBVIOUS
  <2>3. MaxIndex \in Nat
    BY ReplicaAssumption
  <2> QED BY <1>1, <1>2, <1>3, <2>1, <2>2, <2>3
<1>10. q2.pc # "stage"
  OBVIOUS
<1> QED BY <1>2, <1>6, <1>8, <1>9, <1>10 DEF Asks

(* Requests of n change while the engines stand still.                     *)
LEMMA AskServed ==
    ASSUME NEW nd, NEW ch, NEW sn, NEW qu, NEW rq, NEW a, Served(nd, ch, sn, qu, rq, a),
           NEW n \in Node, NEW s, NEW q, Asks(nd, ch, n, s, q), NEW a2, Heard(nd, ch, a2),
           NEW qu2, qu2 = [qu EXCEPT ![n] = s], NEW rq2, rq2 = [rq EXCEPT ![n] = q]
    PROVE  Served(nd, ch, sn, qu2, rq2, a2)
<1>1. /\ Good(nd, ch, sn) /\ qu = [v \in Node |-> qu[v]] /\ rq = [v \in Node |-> rq[v]]
      /\ \A v \in Node : Asks(nd, ch, v, qu[v], rq[v])
  BY DEF Served
<1>2. /\ qu2 = [v \in Node |-> qu2[v]] /\ rq2 = [v \in Node |-> rq2[v]]
      /\ \A v \in Node : qu2[v] = (IF v = n THEN s ELSE qu[v]) /\ rq2[v] = IF v = n THEN q ELSE rq[v]
  BY <1>1
<1>3. \A v \in Node : Asks(nd, ch, v, qu2[v], rq2[v])
  BY <1>1, <1>2
<1> QED BY <1>1, <1>2, <1>3 DEF Served

LEMMA StartRequestInv ==
    ASSUME ReplicaInv, NEW n \in Node, NEW c \in Request, StartRequest(n, c)
    PROVE  ReplicaInv'
<1> DEFINE q2 == [Idle EXCEPT !.pc = "queued_barrier", !.cmd = c, !.term = node[n].term,
                              !.floor = ack.index]
           x == [cmd |-> Barrier, term |-> node[n].term, live |-> TRUE]
           s == queue[n]
           s2 == Append(s, x)
<1>1. /\ Leads(n) /\ req[n].pc = "idle" /\ last_log_index(node[n]) + Len(s) < MaxIndex
      /\ req' = [req EXCEPT ![n] = q2] /\ queue' = [queue EXCEPT ![n] = s2]
      /\ UNCHANGED <<node, sent, prep, preparing, offers, late, ack, faults, chain>>
  BY DEF StartRequest
<1>2. /\ Good(node, chain, sent) /\ Heard(node, chain, ack) /\ node[n] \in Rec
      /\ Asks(node, chain, n, s, req[n])
      /\ Served(node, chain, sent, queue, req, ack)
      /\ Carried(node, chain, prep, late, offers) /\ Noted(sent, preparing, faults)
  BY InvParts DEF ReplicaInv
<1>3. node[n].term \in Term /\ node[n].term \in Nat /\ last_log_index(node[n]) \in Nat /\ node[n].leads
  BY <1>1, <1>2, RecLog DEF Leads
<1>4. x \in Item /\ x.term = node[n].term /\ x.cmd = Barrier
  BY <1>3 DEF Item, Command
<1>5. /\ q2 \in ReqRec /\ q2.pc = "queued_barrier" /\ q2.term = node[n].term /\ q2.floor = ack.index
  <2>1. ack.index \in Index
    BY <1>2 DEF Heard
  <2> QED BY <2>1, <1>3, IndexNat DEF Idle, ReqRec
<1> HIDE DEF x, q2
<1>6. Fenced(node, chain, n, q2)
  <2>1. ack.index <= Len(chain[node[n].term]) \/ Overtaken(node, chain, node[n].term)
    BY <1>2, <1>3, FenceStarts
  <2> QED BY <2>1, <1>5 DEF Fenced
<1>7. \A i \in DOMAIN s : s[i].term <= q2.term
  BY <1>2, <1>5, AsksParts DEF Dated
<1>8. /\ last_log_index(node[n]) + Len(s) <= MaxIndex
  <2>1. Len(s) \in Nat /\ MaxIndex \in Nat
    BY <1>2, AsksParts, ReplicaAssumption
  <2> HIDE DEF s
  <2> QED BY <1>1, <1>3, <2>1
<1>9. q2.term <= node[n].term
  BY <1>3, <1>5
<1> HIDE DEF s
<1>10. Asks(node, chain, n, s2, q2)
  BY <1>1, <1>2, <1>4, <1>5, <1>6, <1>7, <1>8, <1>9, AppendAsks
<1> HIDE DEF s2
<1>11. Served(node, chain, sent, queue', req', ack)
  BY <1>1, <1>2, <1>10, AskServed
<1> QED BY <1>1, <1>2, <1>11 DEF ReplicaInv

LEMMA CancelInv ==
    ASSUME ReplicaInv, NEW n \in Node, Cancel(n)
    PROVE  ReplicaInv'
<1> DEFINE s == queue[n]
           s2 == [i \in DOMAIN s |-> [s[i] EXCEPT !.live = FALSE]]
<1>1. /\ Fault("cancel") /\ req' = [req EXCEPT ![n] = Idle] /\ queue' = [queue EXCEPT ![n] = s2]
      /\ UNCHANGED <<node, sent, prep, preparing, offers, late, ack, chain>>
  BY DEF Cancel
<1>2. /\ node[n] \in Rec /\ Asks(node, chain, n, s, req[n])
      /\ Served(node, chain, sent, queue, req, ack) /\ Heard(node, chain, ack)
      /\ Carried(node, chain, prep, late, offers) /\ Noted(sent, preparing, faults)
  BY InvParts DEF ReplicaInv
<1>3. /\ s \in Seq(Item) /\ Dated(node[n], s, req[n]) /\ Bounded(node[n], s, req[n])
      /\ Len(s) \in Nat /\ DOMAIN s = 1 .. Len(s) /\ \A i \in DOMAIN s : s[i] \in Item
  BY <1>2, AsksParts
<1> HIDE DEF s
<1>4. \A i \in DOMAIN s : s2[i] \in Item /\ s2[i].term = s[i].term /\ s2[i].live = FALSE
  BY <1>3 DEF Item
<1>5. s2 \in Seq(Item) /\ DOMAIN s2 = DOMAIN s /\ Len(s2) = Len(s)
  <2>1. DOMAIN s2 = 1 .. Len(s) /\ s2 \in [1 .. Len(s) -> Item]
    BY <1>3, <1>4
  <2> HIDE DEF s2
  <2> QED BY <1>3, <2>1
<1> HIDE DEF s2
<1>6. /\ Idle \in ReqRec /\ Idle.pc = "idle" /\ Idle.term = 0
  BY TermNat, IndexNat DEF Idle, ReqRec
<1>7. node[n].term \in Nat
  BY <1>2, RecLog
<1> HIDE DEF Idle
<1>8. Fenced(node, chain, n, Idle) /\ Waits(s2, Idle)
  BY <1>4, <1>5, <1>6 DEF Fenced, Waits
<1>9. Dated(node[n], s2, Idle)
  BY <1>3, <1>4, <1>5, <1>6, <1>7 DEF Dated
<1>10. Bounded(node[n], s2, Idle)
  BY <1>3, <1>4, <1>5, <1>6 DEF Bounded
<1>11. Asks(node, chain, n, s2, Idle)
  BY <1>5, <1>6, <1>8, <1>9, <1>10 DEF Asks
<1>12. Served(node, chain, sent, queue', req', ack)
  BY <1>1, <1>2, <1>11, AskServed
<1>13. Noted(sent, preparing, faults')
  BY <1>1, <1>2, FaultType DEF Noted
<1> QED BY <1>1, <1>2, <1>12, <1>13 DEF ReplicaInv

LEMMA RequestCommand ==
    ASSUME NEW c \in Request \cup {Barrier}, c.op \in {"put", "delete"}
    PROVE  c \in Command /\ c # Barrier /\ c.head \in Heads
<1>1. c \in Request
  BY DEF Barrier
<1>2. c = [op |-> c.op, head |-> c.head] /\ c.head \in Heads
  BY <1>1 DEF Request
<1> QED BY <1>2 DEF Command, Writes, Barrier

LEMMA ReadyInv ==
    ASSUME ReplicaInv, NEW n \in Node, Ready(n)
    PROVE  ReplicaInv'
<1> DEFINE q == req[n]
           c == q.cmd
           s == queue[n]
           a == [index |-> node[n].commit, term |-> term_at(node[n], node[n].commit)]
           lost == ~node[n].leads \/ node[n].term # q.term
<1>1. /\ Up(n) /\ q.pc = "ready"
      /\ UNCHANGED <<node, sent, prep, preparing, offers, late, faults, chain>>
      /\ \/ req' = [req EXCEPT ![n] = Idle] /\ (ack' = a \/ ack' = ack) /\ queue' = queue
         \/ /\ c.op = "put" /\ req' = [req EXCEPT ![n] = [q EXCEPT !.pc = "stage"]]
            /\ queue' = queue /\ ack' = ack
         \/ /\ c.op = "delete" /\ ~lost /\ req' = [req EXCEPT ![n] = [q EXCEPT !.pc = "queued"]]
            /\ queue' = [queue EXCEPT ![n] = Append(s, [cmd |-> c, term |-> q.term, live |-> TRUE])]
            /\ ack' = ack
  BY DEF Ready
<1>2. /\ node[n] \in Rec /\ Asks(node, chain, n, s, q) /\ Sound(node, chain, sent)
      /\ Served(node, chain, sent, queue, req, ack) /\ Heard(node, chain, ack)
      /\ Carried(node, chain, prep, late, offers) /\ Noted(sent, preparing, faults)
      /\ queue = [v \in Node |-> queue[v]] /\ Raft(node, chain, sent) /\ ChainOK(chain)
  BY InvParts DEF ReplicaInv
<1>3. /\ s \in Seq(Item) /\ q \in ReqRec
      /\ Fenced(node, chain, n, q) /\ (node[n].status = "up" => Waits(s, q))
      /\ Dated(node[n], s, q) /\ Bounded(node[n], s, q)
  BY <1>2, AsksParts
<1>4. queue = [queue EXCEPT ![n] = s]
  BY <1>2
<1>5. \A i \in DOMAIN s : ~s[i].live
  BY <1>1, <1>3, NoneWaits DEF Up
<1>6. Heard(node, chain, a)
  <2>1. term_at(node[n], node[n].commit) \in Term
    BY <1>2, CommitTerm
  <2>2. /\ node[n].commit \in Nat /\ node[n].snap.index <= node[n].commit
        /\ node[n].commit <= last_log_index(node[n]) /\ last_log_index(node[n]) \in Nat
    BY <1>2, RecLog DEF Sound, Cursors
  <2>3. node[n].commit \in Index
    <3>1. PICK t \in Term : Along(chain, node[n], t)
      BY <1>2 DEF Raft, Placed
    <3>2. last_log_index(node[n]) <= Len(chain[t]) /\ Len(chain[t]) \in Nat
      BY <1>2, <3>1, ChainLen DEF Along
    <3>3. Len(chain[t]) <= MaxIndex + t
      BY <1>2 DEF ChainOK
    <3>4. t \in Nat /\ t <= MaxTerm /\ MaxTerm \in Nat /\ MaxIndex \in Nat
      BY TermNat, ReplicaAssumption
    <3> QED BY <2>2, <3>2, <3>3, <3>4, IndexNat
  <2>4. node[n].commit = 0 \/ Told(node, chain, node[n].commit, term_at(node[n], node[n].commit))
    <3>1. CASE node[n].commit # 0
      <4>1. node[n].commit \in Nat \ {0} /\ node[n].commit <= node[n].commit
        BY <2>2, <3>1
      <4> QED BY <1>2, <2>2, <4>1, ToldOf
    <3> QED BY <3>1
  <2> QED BY <2>1, <2>3, <2>4 DEF Heard
<1> HIDE DEF a
<1>7. CASE req' = [req EXCEPT ![n] = Idle] /\ (ack' = a \/ ack' = ack) /\ queue' = queue
  <2>1. Asks(node, chain, n, s, Idle)
    BY <1>2, <1>5, AsksIdle
  <2>2. Heard(node, chain, ack')
    BY <1>2, <1>6, <1>7
  <2> HIDE DEF Idle
  <2>3. Served(node, chain, sent, queue', req', ack')
    BY <1>2, <1>4, <1>7, <2>1, <2>2, AskServed
  <2> QED BY <1>1, <1>2, <2>3 DEF ReplicaInv
<1>8. CASE /\ c.op = "put" /\ req' = [req EXCEPT ![n] = [q EXCEPT !.pc = "stage"]]
           /\ queue' = queue /\ ack' = ack
  <2> DEFINE q2 == [q EXCEPT !.pc = "stage"]
  <2>1. q2 \in ReqRec /\ q2.pc = "stage" /\ q2.term = q.term /\ q2.cmd = q.cmd
    BY <1>3 DEF ReqRec
  <2>2. req' = [req EXCEPT ![n] = q2] /\ q2.cmd.op = "put"
    BY <1>8, <2>1
  <2> HIDE DEF q2
  <2>3. Fenced(node, chain, n, q2) /\ Waits(s, q2)
    BY <1>5, <2>1 DEF Fenced, Waits
  <2>4. Dated(node[n], s, q2) /\ Bounded(node[n], s, q2)
    BY <1>1, <1>3, <2>1 DEF Dated, Bounded
  <2>5. Asks(node, chain, n, s, q2)
    BY <1>3, <2>1, <2>2, <2>3, <2>4 DEF Asks
  <2>6. /\ queue' = [queue EXCEPT ![n] = s] /\ req' = [req EXCEPT ![n] = q2]
        /\ Heard(node, chain, ack')
    BY <1>2, <1>4, <1>8, <2>2
  <2> HIDE DEF s, q, c, lost
  <2>7. Served(node, chain, sent, queue', req', ack')
    BY <1>2, <2>5, <2>6, AskServed
  <2> QED BY <1>1, <1>2, <2>7 DEF ReplicaInv
<1>9. CASE /\ c.op = "delete" /\ ~lost /\ req' = [req EXCEPT ![n] = [q EXCEPT !.pc = "queued"]]
           /\ queue' = [queue EXCEPT ![n] = Append(s, [cmd |-> c, term |-> q.term, live |-> TRUE])]
           /\ ack' = ack
  <2> DEFINE q2 == [q EXCEPT !.pc = "queued"]
             x == [cmd |-> c, term |-> q.term, live |-> TRUE]
             s2 == Append(s, x)
  <2>1. q2 \in ReqRec /\ q2.pc = "queued" /\ q2.term = q.term
    BY <1>3 DEF ReqRec
  <2>2. q.cmd \in Request \cup {Barrier} /\ q.term \in Term /\ q.term \in Nat
    BY <1>3, ReqType
  <2>3. c \in Command /\ c # Barrier
    BY <1>9, <2>2, RequestCommand
  <2>4. x \in Item /\ x.term = q2.term /\ x.cmd = c
    BY <2>1, <2>2, <2>3 DEF Item
  <2>5. req' = [req EXCEPT ![n] = q2] /\ queue' = [queue EXCEPT ![n] = s2]
    BY <1>9
  <2> HIDE DEF q2, x
  <2>6. Fenced(node, chain, n, q2)
    BY <2>1 DEF Fenced
  <2>7. q2.term <= node[n].term /\ \A i \in DOMAIN s : s[i].term <= q2.term
    BY <1>1, <1>3, <2>1 DEF Dated
  <2>8. node[n].leads /\ q2.term = node[n].term => last_log_index(node[n]) + Len(s) <= MaxIndex
    BY <1>1, <1>3, <2>1 DEF Bounded
  <2>9. /\ q2.pc = (IF x.cmd = Barrier THEN "queued_barrier" ELSE "queued")
        /\ q.pc \notin {"queued_barrier", "queued"} /\ x.cmd # Barrier
    BY <1>1, <2>1, <2>3, <2>4
  <2> HIDE DEF s, q
  <2>10. Asks(node, chain, n, s2, q2)
    BY <1>2, <2>1, <2>4, <2>6, <2>7, <2>8, <2>9, AppendAsks
  <2>11. Heard(node, chain, ack')
    BY <1>2, <1>9
  <2> HIDE DEF s2, c, lost
  <2>12. Served(node, chain, sent, queue', req', ack')
    BY <1>2, <2>5, <2>10, <2>11, AskServed
  <2> QED BY <1>1, <1>2, <2>12 DEF ReplicaInv
<1> QED BY <1>1, <1>7, <1>8, <1>9

LEMMA StageWriteInv ==
    ASSUME ReplicaInv, NEW n \in Node, StageWrite(n)
    PROVE  ReplicaInv'
<1> DEFINE q == req[n]
           h == q.cmd.head
           s == queue[n]
<1>1. /\ Up(n) /\ q.pc = "stage"
      /\ UNCHANGED <<sent, prep, preparing, offers, late, ack, faults, chain>>
      /\ \/ /\ node' = [node EXCEPT ![n].arch = @ \cup {h}]
            /\ req' = [req EXCEPT ![n].pc = "queued", ![n].lease = {h}]
            /\ queue' = [queue EXCEPT ![n] = Append(@, [cmd |-> q.cmd, term |-> q.term, live |-> TRUE])]
         \/ req' = [req EXCEPT ![n] = Idle] /\ node' = node /\ queue' = queue
  BY DEF StageWrite
<1>2. /\ node[n] \in Rec /\ Asks(node, chain, n, s, q)
      /\ Served(node, chain, sent, queue, req, ack) /\ Heard(node, chain, ack)
      /\ Carried(node, chain, prep, late, offers) /\ Noted(sent, preparing, faults)
      /\ queue = [v \in Node |-> queue[v]] /\ req = [v \in Node |-> req[v]]
      /\ node \in [Node -> Rec]
  BY InvParts DEF ReplicaInv
<1>3. /\ s \in Seq(Item) /\ q \in ReqRec /\ q.cmd.op = "put"
      /\ Fenced(node, chain, n, q) /\ (node[n].status = "up" => Waits(s, q))
      /\ Dated(node[n], s, q) /\ Bounded(node[n], s, q)
  BY <1>1, <1>2, AsksParts
<1>4. q.cmd \in Request \cup {Barrier} /\ q.term \in Term /\ q.term \in Nat
  BY <1>3, ReqType
<1>5. q.cmd \in Command /\ q.cmd # Barrier /\ h \in Heads
  BY <1>3, <1>4, RequestCommand
<1>6. CASE req' = [req EXCEPT ![n] = Idle] /\ node' = node /\ queue' = queue
  <2>1. \A i \in DOMAIN s : ~s[i].live
    BY <1>1, <1>3, NoneWaits DEF Up
  <2>2. Asks(node, chain, n, s, Idle) /\ queue = [queue EXCEPT ![n] = s]
    BY <1>2, <2>1, AsksIdle
  <2> HIDE DEF Idle
  <2>3. Served(node, chain, sent, queue', req', ack)
    BY <1>2, <1>6, <2>2, AskServed
  <2> QED BY <1>1, <1>2, <1>6, <2>3 DEF ReplicaInv
<1>7. CASE /\ node' = [node EXCEPT ![n].arch = @ \cup {h}]
           /\ req' = [req EXCEPT ![n].pc = "queued", ![n].lease = {h}]
           /\ queue' = [queue EXCEPT ![n] = Append(@, [cmd |-> q.cmd, term |-> q.term, live |-> TRUE])]
  <2> DEFINE r == [node[n] EXCEPT !.arch = @ \cup {h}]
             q2 == [q EXCEPT !.pc = "queued", !.lease = {h}]
             x == [cmd |-> q.cmd, term |-> q.term, live |-> TRUE]
             s2 == Append(s, x)
  <2>1. q2 \in ReqRec /\ q2.pc = "queued" /\ q2.term = q.term
    BY <1>3, <1>5 DEF ReqRec
  <2>2. x \in Item /\ x.term = q.term /\ x.cmd = q.cmd
    BY <1>4, <1>5 DEF Item
  <2>3. node' = [node EXCEPT ![n] = r]
    BY <1>2, <1>7
  <2>4. req' = [req EXCEPT ![n] = q2]
    BY <1>2, <1>3, <1>7 DEF ReqRec
  <2>5. queue' = [queue EXCEPT ![n] = s2]
    BY <1>2, <1>7
  <2>6. Kept(node[n], r)
    BY <1>2, <1>5 DEF Kept, Rec
  <2> HIDE DEF r
  <2>7. Served(node', chain, sent, queue, req, ack) /\ Carried(node', chain, prep, late, offers)
    BY <2>3, <2>6, KeptServed
  <2>8. Asks(node', chain, n, s, q) /\ Heard(node', chain, ack) /\ Good(node', chain, sent)
    BY <2>7 DEF Served
  <2>9. /\ node'[n] \in Rec /\ Dated(node'[n], s, q) /\ Bounded(node'[n], s, q)
    BY <2>8, GoodParts, AsksParts
  <2> HIDE DEF q2, x
  <2>10. Fenced(node', chain, n, q2)
    BY <2>1 DEF Fenced
  <2>11. q2.term <= node'[n].term /\ \A i \in DOMAIN s : s[i].term <= q2.term
    BY <1>1, <2>1, <2>9 DEF Dated
  <2>12. node'[n].leads /\ q2.term = node'[n].term => last_log_index(node'[n]) + Len(s) <= MaxIndex
    BY <1>1, <2>1, <2>9 DEF Bounded
  <2>13. /\ q2.pc = (IF x.cmd = Barrier THEN "queued_barrier" ELSE "queued")
         /\ q.pc \notin {"queued_barrier", "queued"} /\ x.cmd # Barrier /\ x.term = q2.term
    BY <1>1, <1>5, <2>1, <2>2
  <2> HIDE DEF s, q, h
  <2>14. Asks(node', chain, n, s2, q2)
    BY <2>1, <2>2, <2>8, <2>9, <2>10, <2>11, <2>12, <2>13, AppendAsks
  <2> HIDE DEF s2
  <2>15. Served(node', chain, sent, queue', req', ack)
    BY <2>4, <2>5, <2>7, <2>8, <2>14, AskServed
  <2> QED BY <1>1, <1>2, <2>7, <2>15 DEF ReplicaInv
<1> QED BY <1>1, <1>6, <1>7

(* The queue s2 is s without its oldest proposal p.                        *)
Taken(s, p, s2) == s # <<>> /\ p = Head(s) /\ s2 = Tail(s)

LEMMA TailAsks ==
    ASSUME NEW nd, NEW ch, NEW n \in Node, nd[n] \in Rec, NEW s, NEW p, NEW s2, Taken(s, p, s2), NEW q,
           Asks(nd, ch, n, s, q)
    PROVE  /\ Asks(nd, ch, n, s2, q) /\ 1 \in DOMAIN s /\ p = s[1] /\ p \in Item
           /\ Len(s) \in Nat /\ Len(s2) \in Nat /\ Len(s2) = Len(s) - 1
           /\ nd[n].status = "up" /\ p.live => \A i \in DOMAIN s2 : ~s2[i].live
<1>1. /\ s \in Seq(Item) /\ q \in ReqRec /\ (q.pc = "stage" => q.cmd.op = "put")
      /\ Fenced(nd, ch, n, q) /\ (nd[n].status = "up" => Waits(s, q))
      /\ Dated(nd[n], s, q) /\ Bounded(nd[n], s, q)
  BY AsksParts
<1>2. /\ p \in Item /\ p = s[1] /\ 1 \in DOMAIN s
      /\ s2 \in Seq(Item) /\ Len(s2) = Len(s) - 1 /\ Len(s) \in Nat \ {0}
      /\ DOMAIN s = 1 .. Len(s) /\ DOMAIN s2 = 1 .. (Len(s) - 1)
      /\ \A i \in 1 .. (Len(s) - 1) : s2[i] = s[i + 1]
  BY <1>1, HeadTailOf DEF Taken
<1>3. \A i \in DOMAIN s2 : i + 1 \in DOMAIN s /\ s2[i] = s[i + 1] /\ i + 1 # 1 /\ i \in Nat
  BY <1>2
<1>4. nd[n].status = "up" => Waits(s2, q)
  <2> SUFFICES ASSUME nd[n].status = "up" PROVE Waits(s2, q)
    OBVIOUS
  <2>1. \A i, j \in DOMAIN s2 : s2[i].live /\ s2[j].live => i + 1 = j + 1
    BY <1>1, <1>3 DEF Waits
  <2>2. \A i, j \in DOMAIN s2 : i + 1 = j + 1 => i = j
    BY <1>3
  <2>3. \A i \in DOMAIN s2 : s2[i].live =>
          /\ s2[i].term = q.term
          /\ q.pc = IF s2[i].cmd = Barrier THEN "queued_barrier" ELSE "queued"
    BY <1>1, <1>3 DEF Waits
  <2> QED BY <2>1, <2>2, <2>3 DEF Waits
<1>5. nd[n].status = "up" /\ p.live => \A i \in DOMAIN s2 : ~s2[i].live
  BY <1>1, <1>2, <1>3 DEF Waits
<1>6. Dated(nd[n], s2, q)
  BY <1>1, <1>3 DEF Dated
<1>7. Bounded(nd[n], s2, q)
  <2>1. last_log_index(nd[n]) \in Nat /\ MaxIndex \in Nat
    BY RecLog, ReplicaAssumption
  <2>2. (\E i \in DOMAIN s2 : s2[i].term = nd[n].term) => \E i \in DOMAIN s : s[i].term = nd[n].term
    BY <1>3
  <2> QED BY <1>1, <1>2, <2>1, <2>2 DEF Bounded
<1> QED BY <1>1, <1>2, <1>4, <1>5, <1>6, <1>7 DEF Asks

(* The leader of t has logged the proposal at the head of its queue as     *)
(* entry l.                                                                *)
Logs(nd, ch, n, t, l, nd2, ch2) ==
    /\ ChainOK(ch) /\ ChainOK(ch2) /\ Later(nd, ch, nd2, ch2)
    /\ n \in Node /\ nd[n] \in Rec /\ nd2[n] \in Rec /\ t = nd[n].term
    /\ l = last_log_index(nd[n]) + 1 /\ At(ch2, t, l, t) /\ Len(ch[t]) = last_log_index(nd[n])
    /\ nd[n].leads /\ nd[n].status = "up"
    /\ nd[n].commit <= nd2[n].commit /\ nd2[n].term = t
    /\ nd2[n].leads => last_log_index(nd2[n]) = l
    /\ \A u \in Term : u # t => ch2[u] = ch[u]

LEMMA LoggedFenced ==
    ASSUME NEW nd, NEW ch, NEW n, NEW t, NEW l, NEW nd2, NEW ch2, Logs(nd, ch, n, t, l, nd2, ch2),
           Overtaken(nd, ch, t)
    PROVE  Doomed(nd2, ch2, l, t)
<1>1. t \in Term /\ t \in Nat /\ last_log_index(nd[n]) \in Nat /\ ChainOK(ch)
  BY RecLog DEF Logs
<1>2. PICK u \in Term : \E j \in Nat : u > t /\ Durable(nd, ch, j, u)
  BY DEF Overtaken
<1>3. PICK j \in Nat : u > t /\ Durable(nd, ch, j, u)
  BY <1>2
<1>4. Durable(nd2, ch2, j, u)
  BY <1>3 DEF Logs, Later
<1>5. u \in Nat /\ u # t
  BY <1>1, <1>3, TermNat
<1>6. ch2[u] = ch[u]
  BY <1>5 DEF Logs
<1>7. ASSUME At(ch2, u, l, t) PROVE FALSE
  <2>1. At(ch, u, l, t)
    BY <1>6, <1>7 DEF At
  <2>2. At(ch, t, l, t)
    BY <1>1, <2>1, AtParts
  <2>3. l <= Len(ch[t])
    BY <1>1, <2>2, AtParts
  <2> QED BY <1>1, <2>3 DEF Logs
<1> QED BY <1>3, <1>4, <1>7 DEF Doomed

(* The request q waits for proposal p, or for something else, as q2.       *)
Tickets(q, p, l, q2) ==
    q2 = IF p.live
         THEN [q EXCEPT !.pc = IF p.cmd = Barrier THEN "logged_barrier" ELSE "logged", !.index = l]
         ELSE q

LEMMA LoggedAsks ==
    ASSUME NEW nd, NEW ch, NEW n, NEW t, NEW l, NEW nd2, NEW ch2, Logs(nd, ch, n, t, l, nd2, ch2),
           NEW s, NEW p, NEW s2, Taken(s, p, s2), NEW q, Asks(nd, ch, n, s, q), p.term = t, NEW q2,
           Tickets(q, p, l, q2)
    PROVE  Asks(nd2, ch2, n, s2, q2)
<1>1. /\ n \in Node /\ nd[n] \in Rec /\ nd2[n] \in Rec /\ ChainOK(ch) /\ ChainOK(ch2)
      /\ Later(nd, ch, nd2, ch2) /\ t = nd[n].term /\ nd2[n].term = t /\ nd[n].leads
      /\ nd[n].status = "up" /\ nd[n].commit <= nd2[n].commit
      /\ l = last_log_index(nd[n]) + 1 /\ (nd2[n].leads => last_log_index(nd2[n]) = l)
      /\ At(ch2, t, l, t) /\ Len(ch[t]) = last_log_index(nd[n])
  BY DEF Logs
<1>2. /\ nd[n].commit \in Nat /\ nd2[n].commit \in Nat /\ t \in Term /\ t \in Nat
      /\ last_log_index(nd[n]) \in Nat /\ l \in Nat /\ MaxIndex \in Nat
  <2>1. nd[n].commit \in Nat /\ t \in Term /\ t \in Nat /\ last_log_index(nd[n]) \in Nat
    BY <1>1, RecLog
  <2>2. nd2[n].commit \in Nat /\ MaxIndex \in Nat
    BY <1>1, RecLog, ReplicaAssumption
  <2> QED BY <1>1, <2>1, <2>2
<1>3. /\ Asks(nd, ch, n, s2, q) /\ 1 \in DOMAIN s /\ p = s[1] /\ p \in Item
      /\ Len(s) \in Nat /\ Len(s2) \in Nat /\ Len(s2) = Len(s) - 1
      /\ p.live => \A i \in DOMAIN s2 : ~s2[i].live
  <2>1. n \in Node /\ nd[n] \in Rec /\ nd[n].status = "up"
    BY <1>1
  <2>2. /\ Asks(nd, ch, n, s2, q) /\ 1 \in DOMAIN s /\ p = s[1] /\ p \in Item
        /\ Len(s) \in Nat /\ Len(s2) \in Nat /\ Len(s2) = Len(s) - 1
        /\ nd[n].status = "up" /\ p.live => \A i \in DOMAIN s2 : ~s2[i].live
    BY <2>1, TailAsks
  <2> QED BY <2>1, <2>2
<1>4. /\ s2 \in Seq(Item) /\ q \in ReqRec /\ (q.pc = "stage" => q.cmd.op = "put")
      /\ Fenced(nd, ch, n, q) /\ Waits(s2, q) /\ Dated(nd[n], s2, q) /\ Bounded(nd[n], s2, q)
  BY <1>1, <1>3 DEF Asks
<1>5. Waits(s, q) /\ Bounded(nd[n], s, q)
  BY <1>1 DEF Asks
<1>6. q.term = t /\ q.pc \in {"queued_barrier", "logged_barrier", "ready", "stage"}
        => l + Len(s2) <= MaxIndex
  BY <1>1, <1>2, <1>3, <1>5 DEF Bounded
<1>7. l + Len(s2) <= MaxIndex + 1
  <2>1. \E i \in DOMAIN s : s[i].term = nd[n].term
    BY <1>1, <1>3
  <2>2. last_log_index(nd[n]) + Len(s) <= MaxIndex + 1
    BY <1>1, <1>5, <2>1 DEF Bounded
  <2> QED BY <1>1, <1>2, <1>3, <2>2
<1>8. CASE ~p.live
  <2>1. Fenced(nd2, ch2, n, q)
    BY <1>1, <1>2, <1>4, FencedLater
  <2>2. Dated(nd2[n], s2, q)
    BY <1>1, <1>4 DEF Dated
  <2>3. Bounded(nd2[n], s2, q)
    BY <1>1, <1>6, <1>7 DEF Bounded
  <2>4. q2 = q
    BY <1>8 DEF Tickets
  <2> QED BY <1>4, <2>1, <2>2, <2>3, <2>4 DEF Asks
<1>9. CASE p.live
  <2>1. /\ q.term = t /\ q.pc = IF p.cmd = Barrier THEN "queued_barrier" ELSE "queued"
    BY <1>3, <1>5, <1>9 DEF Waits
  <2>2. l \in Index
    <3>1. l <= Len(ch2[t])
      BY <1>1, <1>2, AtParts
    <3>2. Len(ch2[t]) <= MaxIndex + t /\ Len(ch2[t]) \in Nat /\ t <= MaxTerm /\ MaxTerm \in Nat
      BY <1>1, <1>2, ChainLen, TermNat DEF ChainOK
    <3> QED BY <1>2, <3>1, <3>2, IndexNat
  <2>3. /\ q2 \in ReqRec /\ q2.term = t /\ q2.index = l /\ q2.floor = q.floor
        /\ q2.pc = IF p.cmd = Barrier THEN "logged_barrier" ELSE "logged"
    BY <1>4, <1>9, <2>1, <2>2 DEF ReqRec, Tickets
  <2>4. Fenced(nd2, ch2, n, q2)
    <3>1. CASE p.cmd # Barrier
      BY <2>3, <3>1 DEF Fenced
    <3>2. CASE p.cmd = Barrier
      <4>1. q.floor <= last_log_index(nd[n]) \/ Overtaken(nd, ch, t)
        BY <1>1, <1>4, <2>1, <3>2 DEF Fenced
      <4>2. q.floor \in Nat
        BY <1>4, ReqType
      <4>3. q.floor <= l \/ Doomed(nd2, ch2, l, t)
        BY <1>1, <1>2, <4>1, <4>2, LoggedFenced
      <4> QED BY <1>1, <2>3, <3>2, <4>3 DEF Fenced
    <3> QED BY <3>1, <3>2
  <2>5. Waits(s2, q2)
    BY <1>3, <1>9 DEF Waits
  <2>6. Dated(nd2[n], s2, q2)
    BY <1>1, <1>2, <1>4, <2>1, <2>3 DEF Dated
  <2>7. Bounded(nd2[n], s2, q2)
    BY <1>1, <1>6, <1>7, <2>1, <2>3 DEF Bounded
  <2>8. q2.pc # "stage"
    BY <2>3
  <2> QED BY <1>4, <2>3, <2>4, <2>5, <2>6, <2>7, <2>8 DEF Asks
<1> QED BY <1>8, <1>9

(* Cluster::proposal refuses: another term, or not the leader any more.    *)
LEMMA RefusedInv ==
    ASSUME ReplicaInv, NEW n \in Node, Up(n), NEW p, NEW s2, Taken(queue[n], p, s2),
           req' = IF p.live THEN [req EXCEPT ![n] = Idle] ELSE req,
           queue' = [queue EXCEPT ![n] = s2],
           UNCHANGED <<node, sent, prep, preparing, offers, late, ack, faults, chain>>
    PROVE  ReplicaInv'
<1> DEFINE s == queue[n]
           q == req[n]
<1>1. /\ node[n] \in Rec /\ Asks(node, chain, n, s, q) /\ Heard(node, chain, ack)
      /\ Served(node, chain, sent, queue, req, ack)
      /\ Carried(node, chain, prep, late, offers) /\ Noted(sent, preparing, faults)
      /\ req = [v \in Node |-> req[v]] /\ Taken(s, p, s2)
  BY InvParts DEF ReplicaInv
<1>2. req = [req EXCEPT ![n] = q]
  BY <1>1
<1> HIDE DEF s, q, Idle
<1>3. /\ Asks(node, chain, n, s2, q)
      /\ node[n].status = "up" /\ p.live => \A i \in DOMAIN s2 : ~s2[i].live
  BY <1>1, TailAsks
<1>4. CASE p.live
  <2>1. Asks(node, chain, n, s2, Idle)
    BY <1>1, <1>3, <1>4, AsksIdle
  <2>2. req' = [req EXCEPT ![n] = Idle]
    BY <1>4
  <2>3. Served(node, chain, sent, queue', req', ack)
    BY <1>1, <2>1, <2>2, AskServed
  <2> QED BY <1>1, <2>3 DEF ReplicaInv
<1>5. CASE ~p.live
  <2>1. req' = [req EXCEPT ![n] = q]
    BY <1>2, <1>5
  <2>2. Asks(node, chain, n, s2, q)
    BY <1>3
  <2>3. Served(node, chain, sent, queue', req', ack)
    BY <1>1, <2>1, <2>2, AskServed
  <2> QED BY <1>1, <2>3 DEF ReplicaInv
<1> QED BY <1>4, <1>5

(* The log is full: the member stops.                                      *)
LEMMA FullInv ==
    ASSUME ReplicaInv, NEW n \in Node, Up(n), NEW p, NEW s2, Taken(queue[n], p, s2),
           node' = [node EXCEPT ![n] = Stopped(@)], req' = [req EXCEPT ![n] = Idle],
           queue' = [queue EXCEPT ![n] = s2],
           UNCHANGED <<sent, prep, preparing, offers, late, ack, faults, chain>>
    PROVE  ReplicaInv'
<1> DEFINE r == Stopped(node[n])
           s == queue[n]
           q == req[n]
<1>1. /\ node[n] \in Rec /\ node \in [Node -> Rec] /\ Noted(sent, preparing, faults)
      /\ Taken(s, p, s2)
  BY InvParts
<1>2. /\ r \in Rec /\ r.status = "stopped" /\ r.snap = node[n].snap /\ r.log = node[n].log
      /\ r.commit = node[n].commit /\ r.term = node[n].term /\ ~r.leads /\ r.state = node[n].state
  BY <1>1 DEF Stopped, Rec
<1>3. node' = [node EXCEPT ![n] = r] /\ node'[n] = r
  BY <1>1
<1> HIDE DEF r
<1>4. Kept(node[n], r)
  BY <1>2 DEF Kept
<1>5. Served(node', chain, sent, queue, req, ack) /\ Carried(node', chain, prep, late, offers)
  BY <1>3, <1>4, KeptServed
<1>6. Asks(node', chain, n, s, q) /\ Heard(node', chain, ack) /\ node'[n] \in Rec
  BY <1>2, <1>3, <1>5 DEF Served
<1> HIDE DEF s, q, Idle
<1>7. Asks(node', chain, n, s2, q)
  BY <1>1, <1>6, TailAsks
<1>8. node'[n].status # "up"
  BY <1>2, <1>3
<1>9. Asks(node', chain, n, s2, Idle)
  BY <1>6, <1>7, <1>8, AsksIdle
<1>10. Served(node', chain, sent, queue', req', ack)
  BY <1>5, <1>6, <1>9, AskServed
<1> QED BY <1>1, <1>5, <1>10 DEF ReplicaInv

(* The leader logs the proposal.                                           *)
Logging(n, p, s2, q2) ==
    /\ Leads(n) /\ Taken(queue[n], p, s2) /\ p.term = node[n].term /\ Len(node[n].log) < MaxEntries
    /\ Tickets(req[n], p, last_log_index(node[n]) + 1, q2)
    /\ Outputs(n, Advance(n, Append1(node[n], p.cmd)), q2)
    /\ chain' = [chain EXCEPT ![p.term] = Append(@, [term |-> p.term, cmd |-> p.cmd])]
    /\ queue' = [queue EXCEPT ![n] = s2]
    /\ UNCHANGED <<sent, prep, preparing, offers, late, faults>>

LEMMA LoggedInv ==
    ASSUME ReplicaInv, NEW n \in Node, NEW p, NEW s2, NEW q2, Logging(n, p, s2, q2)
    PROVE  ReplicaInv'
<1> DEFINE s == queue[n]
           q == req[n]
           t == node[n].term
           l == last_log_index(node[n]) + 1
           r == Advance(n, Append1(node[n], p.cmd))
<1>0. Leads(n) /\ Len(node[n].log) < MaxEntries /\ Taken(s, p, s2) /\ p.term = t
  BY DEF Logging
<1>1. /\ Good(node, chain, sent) /\ Heard(node, chain, ack) /\ node[n] \in Rec
      /\ ChainOK(chain) /\ node \in [Node -> Rec]
      /\ req = [v \in Node |-> req[v]] /\ queue = [v \in Node |-> queue[v]]
      /\ \A v \in Node : Asks(node, chain, v, queue[v], req[v]) /\ node[v] \in Rec
      /\ Carried(node, chain, prep, late, offers) /\ Noted(sent, preparing, faults)
      /\ Asks(node, chain, n, s, q)
  BY InvParts
<1>2. t \in Term /\ t \in Nat /\ last_log_index(node[n]) \in Nat
  BY <1>1, RecLog
<1>3. node' = [node EXCEPT ![n] = Settled(n, r)]
  BY DEF Outputs, Logging
<1>4. node[n].leads /\ node[n].status = "up"
  BY <1>0 DEF Leads, Up
<1>5. p \in Item /\ 1 \in DOMAIN s /\ p = s[1] /\ Len(s) \in Nat /\ Len(s) >= 1
  <2> HIDE DEF s, q
  <2>0. Taken(s, p, s2) /\ Asks(node, chain, n, s, q) /\ node[n] \in Rec
    BY <1>0, <1>1
  <2>1. p \in Item /\ 1 \in DOMAIN s /\ p = s[1] /\ Len(s) \in Nat
    BY <2>0, TailAsks
  <2>2. DOMAIN s = 1 .. Len(s)
    BY <1>1, AsksParts
  <2> QED BY <2>1, <2>2
<1>6. p.cmd \in Command
  BY <1>5 DEF Item
<1>7. last_log_index(node[n]) <= MaxIndex
  <2>1. Bounded(node[n], s, q)
    BY <1>1 DEF Asks
  <2>2. MaxIndex \in Nat
    BY ReplicaAssumption
  <2> HIDE DEF s, q
  <2>3. last_log_index(node[n]) + Len(s) <= MaxIndex + 1
    BY <1>0, <1>1, <1>4, <1>5, <2>1 DEF Bounded
  <2> QED BY <1>2, <1>5, <2>2, <2>3
<1>8. /\ Good(node', chain', sent) /\ Later(node, chain, node', chain')
      /\ Tells(n, r, node', chain') /\ At(chain', t, l, t) /\ Len(chain[t]) = last_log_index(node[n])
      /\ node[n].commit <= node'[n].commit /\ node'[n].term = t /\ node'[n] \in Rec
      /\ node'[n].leads => last_log_index(node'[n]) = l
      /\ \A v \in Node : v # n => node'[v] = node[v]
  <2>1. chain' = [chain EXCEPT ![t] = Append(@, [term |-> t, cmd |-> p.cmd])]
    BY <1>0 DEF Logging
  <2>2. Good(node, chain, sent) /\ Leads(n) /\ Len(node[n].log) < MaxEntries /\ t = node[n].term
    BY <1>0, <1>1
  <2>3. node' = [node EXCEPT ![n] = Settled(n, Advance(n, Append1(node[n], p.cmd)))]
    BY <1>3
  <2>4. Proposes(n, p.cmd, t, node', chain')
    BY <2>2, <2>3, <1>6, <1>7, <2>1 DEF Proposes
  <2>5. ProposeDone(n, p.cmd, t, node', chain')
    BY <2>2, <2>4, ProposeSettles
  <2> QED BY <2>5 DEF ProposeDone
<1>9. /\ ChainOK(chain') /\ node' \in [Node -> Rec] /\ \A v \in Node : node'[v] \in Rec
  BY <1>8, GoodParts
<1>10. \A u \in Term : u # t => chain'[u] = chain[u]
  <2>1. DOMAIN chain = Term
    BY <1>1 DEF ChainOK
  <2> QED BY <1>0, <2>1 DEF Logging
<1>11. Logs(node, chain, n, t, l, node', chain')
  BY <1>1, <1>4, <1>8, <1>9, <1>10 DEF Logs
<1>12. Carried(node', chain', prep, late, offers) /\ Heard(node', chain', ack)
  BY <1>1, <1>8, <1>9, CarriedLater, HeardLater
<1>13. \A v \in Node : v # n => Asks(node', chain', v, queue[v], req[v])
  <2> SUFFICES ASSUME NEW v \in Node, v # n PROVE Asks(node', chain', v, queue[v], req[v])
    OBVIOUS
  <2>1. node'[v] = node[v] /\ node[v] \in Rec /\ node'[v] \in Rec
    BY <1>1, <1>8, <1>9
  <2>2. Onward(node[v], node'[v])
    BY <2>1, OnwardSelf
  <2> QED BY <1>1, <1>8, <1>9, <2>1, <2>2, AsksLater
<1>14. Asks(node', chain', n, s2, q2)
  <2>1. Tickets(q, p, l, q2)
    BY DEF Logging
  <2>2. Taken(s, p, s2) /\ Asks(node, chain, n, s, q) /\ p.term = t
    BY <1>0, <1>1
  <2> HIDE DEF s, q, t, l, r
  <2> QED BY <1>11, <2>1, <2>2, LoggedAsks
<1>15. /\ Asks(node', chain', n, s2, req'[n]) /\ Heard(node', chain', ack')
       /\ req' = [v \in Node |-> req'[v]] /\ \A v \in Node : v # n => req'[v] = req[v]
  <2>1. Outputs(n, r, q2)
    BY DEF Logging
  <2> HIDE DEF r, s, q, t, l
  <2> QED BY <1>1, <1>8, <1>9, <1>12, <1>14, <2>1, OutputsAsks
<1>16. queue' = [v \in Node |-> queue'[v]] /\ queue'[n] = s2 /\ \A v \in Node : v # n => queue'[v] = queue[v]
  BY <1>1 DEF Logging
<1>17. \A v \in Node : Asks(node', chain', v, queue'[v], req'[v])
  BY <1>13, <1>15, <1>16
<1>18. Served(node', chain', sent, queue', req', ack')
  BY <1>8, <1>15, <1>16, <1>17 DEF Served
<1> HIDE DEF s, q, t, l, r
<1>19. UNCHANGED <<sent, prep, preparing, offers, late, faults>>
  BY DEF Logging
<1> QED BY <1>1, <1>12, <1>18, <1>19 DEF ReplicaInv

LEMMA ProposeInv ==
    ASSUME ReplicaInv, NEW n \in Node, Propose(n)
    PROVE  ReplicaInv'
<1> DEFINE p == Head(queue[n])
           s2 == Tail(queue[n])
           q2 == IF p.live
                 THEN [req[n] EXCEPT !.pc = IF p.cmd = Barrier THEN "logged_barrier" ELSE "logged",
                                     !.index = last_log_index(node[n]) + 1]
                 ELSE req[n]
<1>1. Up(n) /\ Taken(queue[n], p, s2)
  BY DEF Propose, Taken
<1>2. node[n] \in Rec /\ queue = [v \in Node |-> queue[v]]
  BY InvParts
<1>3. queue' = [queue EXCEPT ![n] = s2]
  BY <1>2 DEF Propose
<1>4. UNCHANGED <<sent, prep, preparing, offers, late, faults>>
  BY DEF Propose
<1>5. \/ /\ req' = IF p.live THEN [req EXCEPT ![n] = Idle] ELSE req
         /\ UNCHANGED <<node, ack, chain>>
      \/ /\ node' = [node EXCEPT ![n] = Stopped(@)]
         /\ req' = [req EXCEPT ![n] = Idle]
         /\ UNCHANGED <<ack, chain>>
      \/ /\ node[n].leads /\ node[n].term = p.term /\ ~(Len(node[n].log) >= MaxEntries)
         /\ Outputs(n, Advance(n, Append1(node[n], p.cmd)), q2)
         /\ chain' = [chain EXCEPT ![p.term] = Append(@, [term |-> p.term, cmd |-> p.cmd])]
  BY DEF Propose
<1> HIDE DEF p, s2
<1>6. CASE /\ req' = IF p.live THEN [req EXCEPT ![n] = Idle] ELSE req
           /\ UNCHANGED <<node, ack, chain>>
  BY <1>1, <1>3, <1>4, <1>6, RefusedInv
<1>7. CASE /\ node' = [node EXCEPT ![n] = Stopped(@)]
           /\ req' = [req EXCEPT ![n] = Idle]
           /\ UNCHANGED <<ack, chain>>
  BY <1>1, <1>3, <1>4, <1>7, FullInv
<1>8. CASE /\ node[n].leads /\ node[n].term = p.term /\ ~(Len(node[n].log) >= MaxEntries)
           /\ Outputs(n, Advance(n, Append1(node[n], p.cmd)), q2)
           /\ chain' = [chain EXCEPT ![p.term] = Append(@, [term |-> p.term, cmd |-> p.cmd])]
  <2>1. Len(node[n].log) < MaxEntries
    <3>1. Len(node[n].log) \in Nat
      BY <1>2 DEF Rec, LogRec
    <3> QED BY <1>8, <3>1, ReplicaAssumption
  <2>2. Leads(n)
    BY <1>1, <1>8 DEF Leads
  <2>3. Logging(n, p, s2, q2)
    BY <1>1, <1>3, <1>4, <1>8, <2>1, <2>2 DEF Logging, Tickets
  <2> HIDE DEF q2
  <2> QED BY <2>3, LoggedInv
<1> QED BY <1>5, <1>6, <1>7, <1>8

(* A member learns of a later term, or becomes its leader.                 *)
LEMMA AsksJoins ==
    ASSUME NEW nd, NEW ch, ChainOK(ch), NEW nd2, NEW ch2, ChainOK(ch2), Later(nd, ch, nd2, ch2),
           NEW n \in Node, nd[n] \in Rec, nd2[n] \in Rec, nd[n].commit <= nd2[n].commit,
           nd2[n].term > nd[n].term, nd2[n].status = "up" => nd[n].status = "up",
           NEW s, NEW q, Asks(nd, ch, n, s, q)
    PROVE  Asks(nd2, ch2, n, s, q)
<1>1. /\ s \in Seq(Item) /\ q \in ReqRec /\ (q.pc = "stage" => q.cmd.op = "put")
      /\ Fenced(nd, ch, n, q) /\ (nd[n].status = "up" => Waits(s, q))
      /\ Dated(nd[n], s, q) /\ \A i \in DOMAIN s : s[i].term \in Nat
  BY AsksParts
<1>2. q.term \in Nat /\ nd[n].term \in Nat /\ nd2[n].term \in Nat /\ nd[n].commit \in Nat
      /\ nd2[n].commit \in Nat
  BY <1>1, ReqType, RecLog
<1>3. Fenced(nd2, ch2, n, q)
  BY <1>1, <1>2, FencedLater
<1>4. Dated(nd2[n], s, q)
  BY <1>1, <1>2 DEF Dated
<1>5. Bounded(nd2[n], s, q)
  BY <1>1, <1>2 DEF Bounded, Dated
<1> QED BY <1>1, <1>3, <1>4, <1>5 DEF Asks

LEMMA ElectInv ==
    ASSUME ReplicaInv, NEW q \in Majority, NEW n \in q, Elect(n, q)
    PROVE  ReplicaInv'
<1> DEFINE t == Max({ node[v].term : v \in q }) + 1
           r == [node[n] EXCEPT !.term = t, !.leads = TRUE]
<1>1. /\ Good(node, chain, sent) /\ Heard(node, chain, ack) /\ ChainOK(chain)
      /\ node \in [Node -> Rec] /\ req = [v \in Node |-> req[v]] /\ queue = [v \in Node |-> queue[v]]
      /\ \A v \in Node : Asks(node, chain, v, queue[v], req[v]) /\ node[v] \in Rec
      /\ Carried(node, chain, prep, late, offers) /\ Noted(sent, preparing, faults)
  BY InvParts
<1>2. /\ \A v \in q : Up(v) /\ UpToDate(node[n], node[v])
      /\ \A v \in q : node[v].term < MaxTerm
      /\ ElectsIn(q, n, t, r, node', chain')
      /\ req' = [v \in Node |->
                   IF v \in q \ {n} /\ req[v].pc \in {"logged_barrier", "logged"}
                   THEN Idle ELSE req[v]]
      /\ UNCHANGED <<sent, queue, prep, preparing, offers, late, ack, faults>>
  BY DEF Elect, ElectsIn
<1>3. /\ t \in Term /\ t # 0 /\ \A v \in q : t > node[v].term
      /\ q \in Quorum /\ q \subseteq Voter /\ q \subseteq Node
  BY <1>1, <1>2, ElectTerm
<1> HIDE DEF t, r, Idle
<1>4. ElectDone(q, n, t, r, node', chain')
  BY <1>1, <1>2, <1>3, ElectSettles
<1>5. /\ Good(node', chain', sent) /\ Later(node, chain, node', chain')
      /\ \A v \in Node : /\ node[v].commit <= node'[v].commit /\ node[v].term <= node'[v].term
                         /\ node'[v].status = "up" => node[v].status = "up"
      /\ \A v \in q : node'[v].term = t /\ t > node[v].term
      /\ \A v \in Node : v \notin q => node'[v] = node[v]
  BY <1>4 DEF ElectDone
<1>6. ChainOK(chain') /\ \A v \in Node : node'[v] \in Rec
  BY <1>5, GoodParts
<1>7. Carried(node', chain', prep, late, offers) /\ Heard(node', chain', ack)
  BY <1>1, <1>5, <1>6, CarriedLater, HeardLater
<1>8. ASSUME NEW v \in Node PROVE Asks(node', chain', v, queue[v], req[v])
  <2>1. Asks(node, chain, v, queue[v], req[v]) /\ node[v] \in Rec /\ node'[v] \in Rec
    BY <1>1, <1>6
  <2>2. CASE v \in q
    <3>1. node'[v].term > node[v].term /\ node[v].commit <= node'[v].commit
          /\ (node'[v].status = "up" => node[v].status = "up")
      BY <1>5, <2>2
    <3> QED BY <1>1, <1>5, <1>6, <2>1, <3>1, AsksJoins
  <2>3. CASE v \notin q
    <3>1. Onward(node[v], node'[v])
      BY <1>5, <2>1, <2>3, OnwardSelf
    <3> QED BY <1>1, <1>5, <1>6, <2>1, <3>1, AsksLater
  <2> QED BY <2>2, <2>3
<1>9. ASSUME NEW v \in Node PROVE Asks(node', chain', v, queue'[v], req'[v])
  <2>1. queue'[v] = queue[v] /\ Asks(node', chain', v, queue[v], req[v]) /\ node'[v] \in Rec
    BY <1>2, <1>6, <1>8
  <2>2. CASE req'[v] = req[v]
    BY <2>1, <2>2
  <2>3. CASE req'[v] # req[v]
    <3>1. req'[v] = Idle /\ req[v].pc \in {"logged_barrier", "logged"}
      BY <1>2, <2>3
    <3>2. node'[v].status = "up" => Waits(queue[v], req[v])
      BY <2>1, AsksParts
    <3>3. node'[v].status = "up" => \A i \in DOMAIN queue[v] : ~queue[v][i].live
      BY <3>1, <3>2, NoneWaits
    <3> QED BY <2>1, <3>1, <3>3, AsksIdle
  <2> QED BY <2>2, <2>3
<1>10. req' = [v \in Node |-> req'[v]] /\ queue' = [v \in Node |-> queue'[v]]
  BY <1>1, <1>2
<1>11. Served(node', chain', sent, queue', req', ack)
  BY <1>5, <1>7, <1>9, <1>10 DEF Served
<1> QED BY <1>1, <1>2, <1>7, <1>11 DEF ReplicaInv

-----------------------------------------------------------------------------
LEMMA NextInv == ReplicaInv /\ [Next]_vars => ReplicaInv'
<1> SUFFICES ASSUME ReplicaInv, [Next]_vars PROVE ReplicaInv'
  OBVIOUS
<1>1. ASSUME NEW q \in Majority, NEW n \in q, Elect(n, q) PROVE ReplicaInv'
  BY <1>1, ElectInv
<1>2. ASSUME NEW n \in Node, NEW c \in Request, StartRequest(n, c) PROVE ReplicaInv'
  BY <1>2, StartRequestInv
<1>3. ASSUME NEW n \in Node, Propose(n) PROVE ReplicaInv'
  BY <1>3, ProposeInv
<1>4. ASSUME NEW n \in Node, Ready(n) PROVE ReplicaInv'
  BY <1>4, ReadyInv
<1>5. ASSUME NEW n \in Node, StageWrite(n) PROVE ReplicaInv'
  BY <1>5, StageWriteInv
<1>6. ASSUME NEW n \in Node, Cancel(n) PROVE ReplicaInv'
  BY <1>6, CancelInv
<1>7. ASSUME NEW n \in Node, NEW p \in prep[n], NEW h \in p.todo, StageNext(n, p, h)
      PROVE  ReplicaInv'
  BY <1>7, StageNextInv
<1>8. ASSUME NEW n \in Node, NEW p \in prep[n], StageFails(n, p) PROVE ReplicaInv'
  BY <1>8, StageFailsInv
<1>9. ASSUME NEW n \in Node, NEW p \in prep[n], Prepared(n, p) PROVE ReplicaInv'
  BY <1>9, PreparedInv
<1>10. ASSUME NEW n \in Node, NEW e \in SUBSET Offering(n), Maintain(n, e) PROVE ReplicaInv'
  BY <1>10, MaintainInv
<1>11. ASSUME NEW n \in Node, NEW i \in 1 .. last_log_index(node[n]), HearAppended(n, i)
       PROVE  ReplicaInv'
  BY <1>11, HearAppendedInv
<1>12. ASSUME NEW n \in Node, Crash(n) PROVE ReplicaInv'
  BY <1>12, CrashInv
<1>13. ASSUME NEW n \in Node, Open(n) PROVE ReplicaInv'
  BY <1>13, OpenInv
<1>14. ASSUME NEW l \in Node, NEW f \in Node, HearTerm(l, f) PROVE ReplicaInv'
  BY <1>14, HearTermInv
<1>15. ASSUME NEW l \in Node, NEW f \in Node, HearInstalled(l, f) PROVE ReplicaInv'
  BY <1>15, HearInstalledInv
<1>16. ASSUME NEW l \in Node, NEW f \in Node,
              NEW prev \in node[l].snap.index .. last_log_index(node[l]), Send(l, f, prev)
       PROVE  ReplicaInv'
  BY <1>16, SendInv
<1>17. ASSUME NEW l \in Node, NEW f \in Node, Offer(l, f) PROVE ReplicaInv'
  BY <1>17, OfferInv
<1>18. ASSUME NEW l \in Node, NEW f \in Node, Transfer(l, f) PROVE ReplicaInv'
  BY <1>18, TransferInv
<1>19. ASSUME ReceiveLate PROVE ReplicaInv'
  BY <1>19, ReceiveLateInv
<1>20. ASSUME UNCHANGED vars PROVE ReplicaInv'
  BY <1>20 DEF vars, ReplicaInv
<1> QED
  BY <1>1, <1>2, <1>3, <1>4, <1>5, <1>6, <1>7, <1>8, <1>9, <1>10, <1>11, <1>12, <1>13, <1>14,
     <1>15, <1>16, <1>17, <1>18, <1>19, <1>20 DEF Next

LEMMA SpecInv == Spec => []ReplicaInv
<1>1. Init => ReplicaInv
  BY InitInv
<1>2. ReplicaInv /\ [Next]_vars => ReplicaInv'
  BY NextInv
<1> QED BY <1>1, <1>2, PTL DEF Spec

-----------------------------------------------------------------------------
(* What the invariant says.                                                *)

LEMMA ChainIndex ==
    ASSUME NEW ch, ChainOK(ch), NEW t \in Term, NEW i \in Nat, i <= Len(ch[t])
    PROVE  i \in Index
<1>1. Len(ch[t]) \in Nat /\ Len(ch[t]) <= MaxIndex + t
  BY ChainLen DEF ChainOK
<1>2. t \in Nat /\ t <= MaxTerm /\ MaxTerm \in Nat /\ MaxIndex \in Nat
  BY TermNat, ReplicaAssumption
<1> QED BY <1>1, <1>2, IndexNat

LEMMA SnapType ==
    ASSUME NEW nd, NEW ch, ChainOK(ch), NEW s \in SnapRec, NEW b, SnapFits(nd, ch, s, b)
    PROVE  s \in Snapshot
<1>1. s.index \in Nat /\ s.term \in Term
  BY DEF SnapRec
<1>2. s.index \in Index
  <2>1. CASE s.index = 0
    BY <2>1, IndexNat
  <2>2. CASE s.index # 0
    <3>1. At(ch, s.term, s.index, s.term)
      BY <2>2 DEF SnapFits
    <3>2. s.index <= Len(ch[s.term])
      BY <1>1, <3>1, AtParts
    <3> QED BY <1>1, <3>2, ChainIndex
  <2> QED BY <2>1, <2>2
<1> QED BY <1>2 DEF SnapRec, Snapshot

LEMMA MsgType ==
    ASSUME NEW nd, NEW ch, ChainOK(ch), NEW m \in AppendRec \cup InstallRec, Fits(nd, ch, m)
    PROVE  MsgOK(m)
<1>1. CASE m \in AppendRec
  <2>1. /\ m.kind = "append" /\ m.from \in Node /\ m.term \in Term /\ m.prev \in Nat
        /\ m.prevTerm \in Term /\ m.entries \in Seq(Entry) /\ m.commit \in Nat
    BY <1>1 DEF AppendRec
  <2>2. AppendFits(nd, ch, m) /\ Len(m.entries) <= MaxBatch
    BY <2>1 DEF Fits
  <2>3. Len(m.entries) \in Nat /\ Len(ch[m.term]) \in Nat
    BY <2>1, ChainLen
  <2>4. m.prev <= Len(ch[m.term])
    BY <2>1, <2>2, <2>3 DEF AppendFits, EndOf
  <2>5. m.prev \in Index
    BY <2>1, <2>4, ChainIndex
  <2>6. m.commit \in Index
    <3>1. m.commit = 0 \/ Committed(nd, ch, m.commit, m.term, m.term)
      BY <2>2 DEF AppendFits, CommittedUpTo
    <3>2. CASE m.commit = 0
      BY <3>2, IndexNat
    <3>3. CASE Committed(nd, ch, m.commit, m.term, m.term)
      <4>1. m.commit <= Len(ch[m.term])
        BY <2>1, <3>3, CommittedBy
      <4> QED BY <2>1, <4>1, ChainIndex
    <3> QED BY <3>1, <3>2, <3>3
  <2> QED BY <2>1, <2>2, <2>5, <2>6 DEF MsgOK
<1>2. CASE m \in InstallRec
  <2>1. m.kind = "snapshot" /\ m.from \in Node /\ m.term \in Term /\ m.snap \in SnapRec
    BY <1>2 DEF InstallRec
  <2>2. SnapFits(nd, ch, m.snap, m.term)
    BY <2>1 DEF Fits
  <2>3. m.snap \in Snapshot
    BY <2>1, <2>2, SnapType
  <2> QED BY <2>1, <2>3 DEF MsgOK
<1> QED BY <1>1, <1>2

(* The terms in a log.                                                     *)
LEMMA TermsGrow ==
    ASSUME NEW r \in Rec, NEW ch, ChainOK(ch), NEW t \in Term, t <= r.term, Along(ch, r, t),
           NEW i \in r.snap.index + 1 .. last_log_index(r)
    PROVE  term_at(r, i - 1) <= term_at(r, i) /\ term_at(r, i) <= r.term
<1>1. IsLog(r) /\ r.snap.index \in Nat /\ last_log_index(r) \in Nat /\ r.term \in Nat /\ t \in Nat
  BY RecLog, TermNat
<1>2. i \in Nat \ {0} /\ i - 1 \in Nat /\ r.snap.index <= i /\ r.snap.index <= i - 1
      /\ i <= last_log_index(r) /\ i - 1 <= last_log_index(r) /\ i - 1 <= i
  BY <1>1
<1>3. At(ch, t, i, term_at(r, i))
  BY <1>1, <1>2, AlongAt
<1>4. term_at(r, i) \in Nat /\ term_at(r, i) <= t
  BY <1>3, AtParts
<1>5. CASE i - 1 = 0
  <2>1. r.snap.index = 0 /\ r.snap.term = 0
    BY <1>1, <1>2, <1>5 DEF Along
  <2>2. term_at(r, i - 1) = 0
    BY <1>5, <2>1 DEF term_at
  <2> QED BY <1>1, <1>4, <2>2
<1>6. CASE i - 1 # 0
  <2> DEFINE j == i - 1
  <2>1. j \in Nat \ {0} /\ r.snap.index <= j /\ j <= last_log_index(r) /\ j <= i
    BY <1>2, <1>6
  <2> HIDE DEF j
  <2>2. At(ch, t, j, term_at(r, j))
    BY <1>1, <2>1, AlongAt
  <2>3. term_at(r, j) <= term_at(r, i)
    BY <1>3, <2>1, <2>2, ChainMono
  <2> QED BY <1>1, <1>4, <2>3 DEF j
<1> QED BY <1>5, <1>6

LEMMA TypeOfInv == ReplicaInv => ReplicaTypeOK
<1> SUFFICES ASSUME ReplicaInv PROVE ReplicaTypeOK
  OBVIOUS
<1>1. /\ Sound(node, chain, sent) /\ ChainOK(chain) /\ Raft(node, chain, sent)
      /\ Heard(node, chain, ack)
      /\ \A v \in Node : Asks(node, chain, v, queue[v], req[v]) /\ node[v] \in Rec
      /\ Carried(node, chain, prep, late, offers) /\ Noted(sent, preparing, faults)
      /\ sent \in SentSet
  BY InvParts
<1>2. ASSUME NEW n \in Node
      PROVE  LET r == node[n]
             IN  /\ r.status \in {"up", "down", "stopped"} /\ r.leads \in BOOLEAN
                 /\ r.term \in Term /\ r.commit \in Index /\ r.snap \in Snapshot
                 /\ r.log \in Seq(Entry) /\ r.state \in State /\ r.arch \subseteq Heads
                 /\ r.snap.index <= r.commit /\ r.commit <= last_log_index(r)
                 /\ Len(r.log) <= MaxEntries
                 /\ \A i \in r.snap.index + 1 .. last_log_index(r) :
                        term_at(r, i - 1) <= term_at(r, i) /\ term_at(r, i) <= r.term
  <2> DEFINE r == node[n]
  <2>1. r \in Rec /\ Cursors(r) /\ SnapFits(node, chain, r.snap, r.term)
    BY <1>1 DEF Sound
  <2>2. PICK t \in Term : t <= r.term /\ Along(chain, r, t)
    BY <1>1 DEF Raft, Placed
  <2> HIDE DEF r
  <2>3. /\ r.status \in {"up", "down", "stopped"} /\ r.leads \in BOOLEAN
        /\ r.term \in Term /\ r.log \in LogRec /\ r.state \in State /\ r.arch \subseteq Heads
        /\ r.snap \in SnapRec
    BY <2>1 DEF Rec
  <2>4. r.log \in Seq(Entry) /\ Len(r.log) <= MaxEntries
    BY <2>3 DEF LogRec
  <2>5. r.commit \in Nat /\ last_log_index(r) \in Nat /\ Len(chain[t]) \in Nat
    BY <1>1, <2>1, RecLog, ChainLen
  <2>6. r.snap.index <= r.commit /\ r.commit <= last_log_index(r) /\ last_log_index(r) <= Len(chain[t])
    BY <2>1, <2>2 DEF Cursors, Along
  <2>7. r.commit \in Index
    BY <1>1, <2>5, <2>6, ChainIndex
  <2>8. r.snap \in Snapshot
    BY <1>1, <2>1, <2>3, SnapType
  <2>9. \A i \in r.snap.index + 1 .. last_log_index(r) :
            term_at(r, i - 1) <= term_at(r, i) /\ term_at(r, i) <= r.term
    BY <1>1, <2>1, <2>2, TermsGrow
  <2> QED BY <2>3, <2>4, <2>6, <2>7, <2>8, <2>9 DEF r
<1>3. ASSUME NEW n \in Node
      PROVE  sent[n].append \in [term : Term, index : Index] /\ sent[n].snap \in Index
  <2>1. sent[n].append \in [term : Term, index : Nat] /\ sent[n].snap \in Index
    BY <1>1 DEF SentSet, Noted
  <2>2. sent[n].append.index <= Len(chain[sent[n].append.term])
    BY <1>1 DEF Raft, SentOK
  <2>3. sent[n].append.index \in Index
    <3> DEFINE a == sent[n].append
    <3>1. a.term \in Term /\ a.index \in Nat
      BY <2>1
    <3>2. a.index <= Len(chain[a.term])
      BY <2>2
    <3> HIDE DEF a
    <3>3. a.index \in Index
      BY <1>1, <3>1, <3>2, ChainIndex
    <3> QED BY <3>3 DEF a
  <2> QED BY <2>1, <2>3
<1>4. ASSUME NEW n \in Node
      PROVE  /\ queue[n] \in Seq([cmd : Command, term : Term, live : BOOLEAN])
             /\ req[n].cmd \in Request \cup {Barrier} /\ req[n].lease \subseteq Heads
             /\ req[n].term \in Term /\ req[n].index \in Index /\ req[n].floor \in Index
  <2>1. queue[n] \in Seq(Item) /\ req[n] \in ReqRec
    BY <1>1 DEF Asks
  <2> QED BY <2>1, ReqType DEF Item
<1>5. ASSUME NEW n \in Node
      PROVE  (\A p \in prep[n] : MsgOK(p.msg) /\ p.todo \cap p.held = {}) /\ preparing[n] \subseteq Node
  <2>1. preparing[n] \subseteq Node
    BY <1>1 DEF Noted
  <2>2. ASSUME NEW p \in prep[n] PROVE MsgOK(p.msg) /\ p.todo \cap p.held = {}
    <3>1. p \in PrepRec /\ p.todo \cap p.held = {} /\ Fits(node, chain, p.msg)
      BY <1>1 DEF Carried
    <3>2. p.msg \in AppendRec \cup InstallRec
      BY <3>1 DEF PrepRec
    <3> QED BY <1>1, <3>1, <3>2, MsgType
  <2> QED BY <2>1, <2>2
<1>6. ASSUME NEW n \in Node, NEW p \in Node, offers[n][p] # NoOffer
      PROVE  offers[n][p] \in [term : Term, snap : Snapshot]
  <2> DEFINE o == offers[n][p]
  <2>1. o \in OfferRec /\ SnapFits(node, chain, o.snap, o.term)
    BY <1>1, <1>6 DEF Carried
  <2> HIDE DEF o
  <2>2. o.snap \in Snapshot
    BY <1>1, <2>1, OfferType, SnapType
  <2>3. o \in [term : Term, snap : Snapshot]
    BY <2>1, <2>2 DEF OfferRec
  <2> QED BY <2>3 DEF o
<1>7. late # NoMsg => late.to \in Node /\ MsgOK(late.msg)
  <2> SUFFICES ASSUME late # NoMsg PROVE late.to \in Node /\ MsgOK(late.msg)
    OBVIOUS
  <2>1. late \in LateRec /\ Fits(node, chain, late.msg)
    BY <1>1 DEF Carried
  <2>2. late.to \in Node /\ late.msg \in AppendRec \cup InstallRec
    BY <2>1 DEF LateRec
  <2> QED BY <1>1, <2>1, <2>2, MsgType
<1>8. ack \in [index : Index, term : Term] /\ faults \in 0 .. MaxFaults
  BY <1>1 DEF Heard, Noted
<1> QED BY <1>2, <1>3, <1>4, <1>5, <1>6, <1>7, <1>8 DEF ReplicaTypeOK

(* Two members have committed the same entries.                            *)
LEMMA CommittedSame ==
    ASSUME NEW nd, NEW ch, NEW sn, Sound(nd, ch, sn), NEW m \in Node, NEW n \in Node,
           NEW t \in Term, Along(ch, nd[m], t), NEW u \in Term, Along(ch, nd[n], u),
           NEW i \in Nat, i <= nd[m].commit, i <= nd[n].commit
    PROVE  Same(ch, t, u, i)
<1>1. Typed(nd, sn) /\ ChainOK(ch) /\ Raft(nd, ch, sn)
  BY SoundTyped
<1>2. /\ CommittedUpTo(nd, ch, nd[m].commit, t, nd[m].term)
      /\ CommittedUpTo(nd, ch, nd[n].commit, u, nd[n].term)
  BY <1>1, PlacedAt
<1>3. Len(ch[t]) \in Nat /\ Len(ch[u]) \in Nat
  BY <1>1, ChainLen
<1>4. CASE i = 0
  BY <1>3, <1>4 DEF Same
<1>5. CASE i # 0
  <2>1. nd[m].commit \in Nat /\ nd[n].commit \in Nat
    BY <1>1 DEF Typed
  <2>2. nd[m].commit # 0 /\ nd[n].commit # 0
    BY <1>5, <2>1
  <2>3. /\ Committed(nd, ch, nd[m].commit, t, nd[m].term)
        /\ Committed(nd, ch, nd[n].commit, u, nd[n].term)
    BY <1>2, <2>2 DEF CommittedUpTo
  <2> QED BY <1>1, <2>3, CommittedMeet
<1> QED BY <1>4, <1>5

LEMMA AgreeOfInv == ReplicaInv => ReplicasAgree
<1> SUFFICES ASSUME ReplicaInv, NEW m \in Node, NEW n \in Node
             PROVE  /\ \A i \in Max({node[m].snap.index, node[n].snap.index}) + 1 ..
                                Min({node[m].commit, node[n].commit}) :
                           entry(node[m], i) = entry(node[n], i)
                    /\ node[m].commit = node[n].commit
                          /\ "stopped" \notin {node[m].status, node[n].status}
                          => node[m].state = node[n].state
  BY DEF ReplicasAgree
<1>1. /\ Good(node, chain, sent) /\ Sound(node, chain, sent) /\ ChainOK(chain)
      /\ Raft(node, chain, sent) /\ \A v \in Node : node[v] \in Rec /\ Cursors(node[v])
  BY InvParts DEF Sound
<1>2. \A v \in Node : /\ node[v].snap.index \in Nat /\ node[v].commit \in Nat
                      /\ last_log_index(node[v]) \in Nat /\ IsLog(node[v])
                      /\ node[v].commit <= last_log_index(node[v])
  BY <1>1, RecLog DEF Cursors
<1>3. ASSUME NEW i \in Max({node[m].snap.index, node[n].snap.index}) + 1 ..
                       Min({node[m].commit, node[n].commit})
      PROVE  entry(node[m], i) = entry(node[n], i)
  <2> DEFINE a == Max({node[m].snap.index, node[n].snap.index})
             b == Min({node[m].commit, node[n].commit})
  <2>1. a \in Nat /\ a >= node[m].snap.index /\ a >= node[n].snap.index
    BY <1>2, MaxOf
  <2>2. b \in Nat /\ b <= node[m].commit /\ b <= node[n].commit
    BY <1>2, MinOf
  <2>3. i \in a + 1 .. b
    BY <1>3
  <2> HIDE DEF a, b
  <2>4. i \in Nat \ {0} /\ i <= node[m].commit /\ i <= node[n].commit
        /\ node[m].snap.index < i /\ node[n].snap.index < i
        /\ node[m].snap.index <= i /\ node[n].snap.index <= i
        /\ i <= last_log_index(node[m]) /\ i <= last_log_index(node[n])
    BY <1>2, <2>1, <2>2, <2>3
  <2>5. PICK t \in Term : Along(chain, node[m], t)
    BY <1>1 DEF Raft, Placed
  <2>6. PICK u \in Term : Along(chain, node[n], u)
    BY <1>1 DEF Raft, Placed
  <2>7. entry(node[m], i) = chain[t][i] /\ entry(node[n], i) = chain[u][i]
    BY <1>1, <1>2, <2>4, <2>5, <2>6, AlongAt
  <2>8. Same(chain, t, u, i)
    BY <1>1, <2>4, <2>5, <2>6, CommittedSame
  <2> QED BY <2>4, <2>7, <2>8 DEF Same
<1>4. ASSUME node[m].commit = node[n].commit, "stopped" \notin {node[m].status, node[n].status}
      PROVE  node[m].state = node[n].state
  <2> DEFINE c == node[m].commit
  <2>1. StateFits(chain, node[m], c) /\ StateFits(chain, node[n], c)
    BY <1>1, <1>4 DEF Good, Serves
  <2>2. PICK t \in Term : Along(chain, node[m], t) /\ StateIs(chain, node[m].state, c, t)
    BY <2>1 DEF StateFits
  <2>3. PICK u \in Term : Along(chain, node[n], u) /\ StateIs(chain, node[n].state, c, u)
    BY <2>1 DEF StateFits
  <2>4. c \in Nat /\ c <= node[m].commit /\ c <= node[n].commit
    BY <1>2, <1>4
  <2> HIDE DEF c
  <2>5. Same(chain, t, u, c)
    BY <1>1, <2>2, <2>3, <2>4, CommittedSame
  <2>6. StateIs(chain, node[m].state, c, u)
    BY <1>1, <2>2, <2>4, <2>5, StateSame
  <2> QED BY <2>3, <2>6 DEF StateIs
<1> QED BY <1>3, <1>4

LEMMA AckedOfInv == ReplicaInv => AckedOnMajority
<1> SUFFICES ASSUME ReplicaInv, ack.index > 0
             PROVE  { n \in Voter : Holds(node[n], ack.index, ack.term) } \in Quorum
  BY DEF AckedOnMajority
<1> DEFINE i == ack.index
           w == ack.term
<1>1. /\ ChainOK(chain) /\ Heard(node, chain, ack) /\ \A v \in Node : node[v] \in Rec
  BY InvParts
<1>2. i \in Nat /\ i # 0
  <2>1. ack.index \in Index
    BY <1>1 DEF Heard
  <2>2. ack.index \in Nat
    BY <2>1, IndexNat
  <2> QED BY <2>2
<1>3. PICK t \in Term : At(chain, t, i, w) /\ Committed(node, chain, i, t, MaxTerm)
  BY <1>1, <1>2 DEF Heard, Told
<1> HIDE DEF i, w
<1>4. PICK u \in Term : \E j \in 1 .. Len(chain[u]) :
         Durable(node, chain, j, u) /\ At(chain, u, j, u) /\ i <= j /\ Same(chain, t, u, i)
  BY <1>1, <1>3, CommittedBy
<1>5. PICK j \in 1 .. Len(chain[u]) :
         Durable(node, chain, j, u) /\ At(chain, u, j, u) /\ i <= j /\ Same(chain, t, u, i)
  BY <1>4
<1>6. j \in Nat /\ i \in 1 .. i /\ i \in 1 .. j
  <2>1. Len(chain[u]) \in Nat
    BY <1>1, ChainLen
  <2> QED BY <1>2, <1>5, <2>1
<1>7. At(chain, u, i, w)
  BY <1>1, <1>2, <1>3, <1>5, <1>6, SameParts
<1>8. PICK q \in Quorum : \A v \in q : Has(chain, node[v], j, u)
  BY <1>5 DEF Durable
<1>9. ASSUME NEW v \in q PROVE v \in Voter /\ Holds(node[v], i, w)
  <2>1. v \in Voter /\ v \in Node
    BY ReplicaAssumption DEF Quorum
  <2>2. /\ IsLog(node[v]) /\ node[v].snap.index \in Nat /\ last_log_index(node[v]) \in Nat
    BY <1>1, <2>1, RecLog
  <2>3. PICK x \in Term : /\ Along(chain, node[v], x) /\ j <= last_log_index(node[v])
                          /\ At(chain, x, j, u)
    BY <1>8 DEF Has
  <2>4. Same(chain, u, x, j)
    BY <1>1, <1>5, <2>3, SameTerm
  <2>5. At(chain, x, i, w)
    BY <1>1, <1>6, <1>7, <2>4, SameParts
  <2>6. CASE node[v].snap.index >= i
    BY <2>1, <2>6 DEF Holds
  <2>7. CASE ~(node[v].snap.index >= i)
    <3>1. i \in Nat \ {0} /\ node[v].snap.index <= i /\ i <= last_log_index(node[v])
      BY <1>2, <1>5, <1>6, <2>2, <2>3, <2>7
    <3>2. At(chain, x, i, term_at(node[v], i))
      BY <1>1, <2>2, <2>3, <3>1, AlongAt
    <3>3. term_at(node[v], i) = w
      BY <2>5, <3>2 DEF At
    <3> QED BY <2>1, <3>1, <3>3 DEF Holds
  <2> QED BY <2>6, <2>7
<1>10. q \subseteq { n \in Voter : Holds(node[n], i, w) }
  BY <1>9
<1>11. { n \in Voter : Holds(node[n], i, w) } \in Quorum
  BY <1>10, QuorumUp
<1> QED BY <1>11 DEF i, w

LEMMA FreshOfInv == ReplicaInv => BarrierFresh
<1> SUFFICES ASSUME ReplicaInv, NEW n \in Node, req[n].pc = "ready"
             PROVE  node[n].commit >= req[n].floor
  BY DEF BarrierFresh
<1>1. Fenced(node, chain, n, req[n]) /\ req[n] \in ReqRec /\ node[n] \in Rec
  BY InvParts DEF Asks
<1>2. req[n].floor <= node[n].commit
  BY <1>1 DEF Fenced
<1>3. req[n].floor \in Nat /\ node[n].commit \in Nat
  BY <1>1, ReqType, RecLog
<1> QED BY <1>2, <1>3

-----------------------------------------------------------------------------
(* Every reachable state of the replication has the types of               *)
(* ReplicaTypeOK: cursors inside the log, terms that never decrease along  *)
(* it, and messages, offers and requests of the right shape                *)
(* (engine.rs Storage).                                                    *)
THEOREM ReplicaTypeCorrect == Spec => []ReplicaTypeOK
  BY SpecInv, TypeOfInv, PTL

(* Members never disagree on a committed entry or on the room state it     *)
(* leads to, whatever crashes, elections, delayed messages, compactions    *)
(* and installed snapshots happen (mod.rs outputs, engine.rs Storage).     *)
THEOREM MembersAgree == Spec => []ReplicasAgree
  BY SpecInv, AgreeOfInv, PTL

(* What a client has been told of is on a majority of the voters from then *)
(* on (mod.rs leader_request and outputs).                                 *)
THEOREM AcknowledgedKept == Spec => []AckedOnMajority
  BY SpecInv, AckedOfInv, PTL

(* A request whose barrier is applied answers from a state with every      *)
(* write acknowledged before it started, on whatever leader                *)
(* (mod.rs leader_request).                                                *)
THEOREM RequestsFenced == Spec => []BarrierFresh
  BY SpecInv, FreshOfInv, PTL

==============================================================================
