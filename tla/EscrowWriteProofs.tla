--------------------------- MODULE EscrowWriteProofs ---------------------------
(***************************************************************************)
(* Proofs about the writes of a replicated room (EscrowReplica), on top of *)
(* the agreement of its members (EscrowReplicaProofs).                     *)
(*                                                                         *)
(* Archives (ArchiveInv): a member never loses a generation that its log,  *)
(* its snapshot, its room state or a lease refers to, as long as no        *)
(* request is cancelled while its write is queued, and then nothing but a  *)
(* full log stops it.                                                      *)
(*                                                                         *)
(* Acceptance (AcceptInv): whatever is cancelled, a leader's log has       *)
(* nothing after the barrier of its request when the write is previewed    *)
(* there, so that every logged write is accepted where it is logged.       *)
(***************************************************************************)
EXTENDS EscrowReplicaProofs

-----------------------------------------------------------------------------
(* What a room state and a log refer to.                                   *)

(* The generations of the commands of s are in A.                          *)
Covers(A, s) == \A i \in 1 .. Len(s) : command_heads(s[i].cmd) \subseteq A

Keeps(r) ==
    /\ retained_heads(r.snap.state) \subseteq r.arch /\ retained_heads(r.state) \subseteq r.arch
    /\ Covers(r.arch, r.log)

LEMMA KeepsRefers ==
    ASSUME NEW r
    PROVE  /\ Keeps(r) <=> References(r) \cup retained_heads(r.state) \subseteq r.arch
           /\ \A A : Covers(A, r.log) /\ retained_heads(r.snap.state) \subseteq A
                        <=> References(r) \subseteq A
<1>1. ASSUME NEW A
      PROVE  Covers(A, r.log) /\ retained_heads(r.snap.state) \subseteq A <=> References(r) \subseteq A
  BY DEF Covers, References
<1> QED BY <1>1 DEF Keeps

LEMMA RetainedApply ==
    ASSUME NEW st \in State, NEW c \in Command, NEW k
    PROVE  retained_heads(apply(st, c, k).state) \subseteq retained_heads(st) \cup command_heads(c)
<1> DEFINE A == retained_heads(st) \cup command_heads(c)
<1>1. \A s \in Slot : st[s].head \in A \cup {NoHead} /\ st[s].previous \in A \cup {NoHead}
  BY DEF retained_heads
<1>2. SUFFICES \A s \in Slot : /\ apply(st, c, k).state[s].head \in A \cup {NoHead}
                               /\ apply(st, c, k).state[s].previous \in A \cup {NoHead}
  BY <1>2 DEF retained_heads
<1>3. CASE c.op = "put" /\ c \in Writes
  <2>1. c.head \in Heads /\ slotOf[c.head] \in Slot /\ c.head \in A
    BY <1>3, HeadAssumption DEF Writes, command_heads
  <2> HIDE DEF A
  <2>2. \A x : \A s \in Slot : /\ put(st, c.head, x).state[s].head \in A \cup {NoHead}
                               /\ put(st, c.head, x).state[s].previous \in A \cup {NoHead}
    BY <1>1, <2>1 DEF put, State, SlotState, EmptySlot, Result
  <2> QED BY <2>2, <1>3 DEF apply
<1>4. CASE c.op = "delete" /\ c \in Writes
  <2>1. c.head \in Heads /\ slotOf[c.head] \in Slot
    BY <1>4, HeadAssumption DEF Writes
  <2> HIDE DEF A
  <2>2. \A s \in Slot : /\ delete(st, c.head).state[s].head \in A \cup {NoHead}
                        /\ delete(st, c.head).state[s].previous \in A \cup {NoHead}
    BY <1>1, <2>1 DEF delete, State, SlotState, EmptySlot, Result
  <2> QED BY <2>2, <1>4 DEF apply
<1>5. CASE c = Barrier
  BY <1>1, <1>5 DEF apply, Result, Barrier
<1> QED BY <1>3, <1>4, <1>5 DEF Command, Writes

LEMMA RetainedReplay ==
    ASSUME NEW st \in State, NEW s \in Seq(Entry), NEW A, retained_heads(st) \subseteq A, Covers(A, s)
    PROVE  retained_heads(Replay(st, s)) \subseteq A
<1>1. PICK g : Runs(g, st, s)
  BY RunsExist
<1>2. Replay(st, s) = g[Len(s)] /\ Len(s) \in Nat
  BY <1>1, ReplayBy
<1> DEFINE S == {i \in Nat : i <= Len(s) => retained_heads(g[i]) \subseteq A}
<1>3. 0 \in S
  BY <1>1 DEF Runs
<1>4. \A i \in Nat : i \in S => i + 1 \in S
  <2> SUFFICES ASSUME NEW i \in Nat, i \in S, i + 1 <= Len(s)
               PROVE  retained_heads(g[i + 1]) \subseteq A
    OBVIOUS
  <2>1. i \in 0 .. Len(s) /\ i + 1 \in 1 .. Len(s) /\ (i + 1) - 1 = i /\ i <= Len(s)
    BY <1>2
  <2>2. g[i + 1] = apply(g[i], s[i + 1].cmd, ApplySlots).state /\ g[i] \in State
    BY <1>1, <2>1 DEF Runs
  <2>3. s[i + 1].cmd \in Command /\ command_heads(s[i + 1].cmd) \subseteq A
    <3>1. s[i + 1] \in Entry
      BY <2>1
    <3> QED BY <2>1, <3>1 DEF Covers, Entry
  <2>4. retained_heads(g[i]) \subseteq A
    BY <2>1
  <2> QED BY <2>2, <2>3, <2>4, RetainedApply
<1>5. Nat \subseteq S
  <2> HIDE DEF S
  <2> QED BY <1>3, <1>4, NatInduct
<1>6. Len(s) \in S
  BY <1>2, <1>5
<1> QED BY <1>2, <1>6

(* A part of a log.                                                        *)
LEMMA CoversPart ==
    ASSUME NEW r \in Rec, NEW i \in Nat, NEW j \in Nat, r.snap.index <= i, i <= j,
           j <= last_log_index(r), NEW A, Covers(A, r.log)
    PROVE  Covers(A, Between(r, i, j)) /\ Between(r, i, j) \in Seq(Entry)
<1> DEFINE b == Between(r, i, j)
<1>1. IsLog(r) /\ r.snap.index \in Nat /\ last_log_index(r) = r.snap.index + Len(r.log)
      /\ Len(r.log) \in Nat
  BY RecLog, LogLen
<1>2. Part(r, i, j, b)
  BY <1>1, BetweenOf
<1> HIDE DEF b
<1>3. b \in Seq(Entry) /\ Len(b) = j - i /\ \A k \in 1 .. j - i : b[k] = r.log[(i - r.snap.index) + k]
  BY <1>2 DEF Part
<1>4. \A k \in 1 .. j - i : (i - r.snap.index) + k \in 1 .. Len(r.log)
  BY <1>1
<1>5. \A k \in 1 .. Len(b) : command_heads(b[k].cmd) \subseteq A
  BY <1>3, <1>4 DEF Covers
<1> QED BY <1>3, <1>5 DEF Covers, b

-----------------------------------------------------------------------------
(* Cluster::outputs.                                                       *)

LEMMA SettledCommit ==
    ASSUME NEW n, NEW r \in Rec
    PROVE  Settled(n, r).commit = r.commit
<1>1. Stopped(r).commit = r.commit
  BY DEF Stopped, Rec
<1> DEFINE a == Applied(n, r)
<1>2. a.commit = r.commit /\ DOMAIN a = DOMAIN r
  BY DEF Applied, Rec
<1>3. compact(a).commit = r.commit /\ DOMAIN compact(a) = DOMAIN r
  <2> HIDE DEF a
  <2> QED BY <1>2 DEF compact, Rec
<1> DEFINE b == compact(a)
<1>4. collect(b, Leases(n)).commit = r.commit
  <2> HIDE DEF b
  <2> QED BY <1>3 DEF collect, Rec, b
<1> HIDE DEF a
<1> QED BY <1>1, <1>2, <1>4 DEF Settled, a

LEMMA KeepSettles ==
    ASSUME NEW n \in Node, NEW r \in Rec, Cursors(r), node[n] \in Rec, node[n].commit <= r.commit,
           Keeps(r)
    PROVE  /\ ~Missing(n, r) /\ Keeps(Settled(n, r)) /\ Settled(n, r).status = r.status
           /\ \A L : L \subseteq Leases(n) /\ L \subseteq r.arch => L \subseteq Settled(n, r).arch
<1> DEFINE c == Max({node[n].commit, r.snap.index})
           st == Replay(r.state, Fresh(n, r))
           l == Between(r, r.commit, last_log_index(r))
<1>1. /\ r.commit \in Nat /\ r.snap.index \in Nat /\ last_log_index(r) \in Nat /\ node[n].commit \in Nat
      /\ r.snap.index <= r.commit /\ r.commit <= last_log_index(r)
  BY RecLog DEF Cursors
<1>2. c \in Nat /\ r.snap.index <= c /\ c <= r.commit
  BY <1>1, MaxOf
<1>3. Covers(r.arch, r.log) /\ retained_heads(r.state) \subseteq r.arch
      /\ retained_heads(r.snap.state) \subseteq r.arch
  BY DEF Keeps
<1>4. Covers(r.arch, Fresh(n, r)) /\ Fresh(n, r) \in Seq(Entry)
  <2> HIDE DEF c
  <2>1. Covers(r.arch, Between(r, c, r.commit)) /\ Between(r, c, r.commit) \in Seq(Entry)
    BY <1>1, <1>2, <1>3, CoversPart
  <2> QED BY <2>1 DEF Fresh, c
<1>5. Covers(r.arch, l) /\ l \in Seq(Entry)
  <2>1. last_log_index(r) <= last_log_index(r)
    BY <1>1
  <2> QED BY <1>1, <1>3, <2>1, CoversPart
<1>6. ~Missing(n, r)
  BY <1>3, <1>4 DEF Missing, Covers
<1>7. r.state \in State
  BY DEF Rec
<1>8. retained_heads(st) \subseteq r.arch
  BY <1>3, <1>4, <1>7, RetainedReplay
<1> HIDE DEF c, st, l
<1> DEFINE a == [r EXCEPT !.state = st]
           s == [index |-> r.commit, term |-> term_at(r, r.commit), state |-> st]
           b == [a EXCEPT !.snap = s, !.log = l]
           d == collect(b, Leases(n))
<1>9. a.snap = r.snap /\ a.log = r.log /\ a.commit = r.commit /\ a.state = st
      /\ a.status = r.status /\ a.arch = r.arch /\ DOMAIN a = DOMAIN r
  BY DEF Rec
<1>10. b.snap = s /\ b.log = l /\ b.state = st /\ b.status = r.status /\ b.arch = r.arch
       /\ DOMAIN b = DOMAIN r
  <2> HIDE DEF s
  <2> QED BY <1>9 DEF Rec
<1>11. Applied(n, r) = a
  BY DEF Applied, st
<1>12. compact(a) = b
  <2>1. /\ term_at(a, a.commit) = term_at(r, r.commit)
        /\ Between(a, a.commit, last_log_index(a)) = Between(r, r.commit, last_log_index(r))
    <3> HIDE DEF a
    <3>1. last_log_index(a) = last_log_index(r)
      BY <1>9, SameLog
    <3> QED BY <1>9, <3>1, SameLog
  <2> HIDE DEF a
  <2>2. compact(a) = [a EXCEPT !.snap = [index |-> a.commit, term |-> term_at(a, a.commit), state |-> a.state],
                               !.log = Between(a, a.commit, last_log_index(a))]
    BY DEF compact
  <2> QED BY <2>1, <2>2, <1>9 DEF s, l
<1>13. d.snap = s /\ d.log = l /\ d.state = st /\ d.status = r.status
       /\ d.arch = r.arch \cap (retained_heads(st) \cup References(b) \cup Leases(n))
  <2> HIDE DEF b
  <2> QED BY <1>10 DEF collect, Rec
<1>14. s.state = st
  OBVIOUS
<1> HIDE DEF a, s, b, d
<1>15. Settled(n, r) = a \/ Settled(n, r) = d
  BY <1>6, <1>11, <1>12 DEF Settled, d
<1>16. Keeps(a)
  BY <1>3, <1>8, <1>9 DEF Keeps
<1>17. Keeps(d)
  <2>1. retained_heads(st) \subseteq d.arch
    BY <1>8, <1>13
  <2>2. Covers(References(b), b.log)
    BY KeepsRefers
  <2>3. Covers(d.arch, d.log)
    BY <1>5, <1>10, <1>13, <2>2 DEF Covers
  <2> QED BY <1>13, <1>14, <2>1, <2>3 DEF Keeps
<1> QED BY <1>6, <1>9, <1>13, <1>15, <1>16, <1>17

-----------------------------------------------------------------------------
(* The archive of a member and what it has in hand.                        *)

(* A write in the queue is that of the request in progress, which holds    *)
(* the lease of its generation.                                            *)
Pinned(s, q) ==
    \A i \in DOMAIN s : s[i].cmd.op = "put" =>
        s[i].live /\ s[i].cmd = q.cmd /\ s[i].cmd.head \in q.lease

(* The generations that a message brings.                                  *)
Wanted(m) == IF m.kind = "append" THEN HeadsOf(m) ELSE retained_heads(m.snap.state)

(* Member r with queue s, request q, preparations P and offers o.          *)
Secure(r, s, q, P, o) ==
    /\ Keeps(r) /\ q.lease \subseteq r.arch /\ (r.status = "up" => Pinned(s, q))
    /\ \A x \in P : x.held \subseteq r.arch /\ x.todo \cup x.held = Wanted(x.msg)
    /\ \A p \in Node : o[p] # NoOffer => retained_heads(o[p].snap.state) \subseteq r.arch

ArchiveInv == \A n \in Node : Secure(node[n], queue[n], req[n], prep[n], offers[n])

(* Only a full log stops a member.                                         *)
StopsFull(r, r2) == r2.status = "stopped" => r.status = "stopped" \/ Len(r.log) >= MaxEntries

(* What a step leaves of n.                                                *)
Secured(n) ==
    /\ Secure(node'[n], queue'[n], req'[n], prep'[n], offers'[n])
    /\ StopsFull(node[n], node'[n])

(* A step does not touch v.                                                *)
Left(v) ==
    /\ node'[v] = node[v] /\ queue'[v] = queue[v] /\ req'[v] = req[v] /\ prep'[v] = prep[v]
    /\ offers'[v] = offers[v]

LEMMA LeftSecured ==
    ASSUME ArchiveInv, NEW v \in Node, Left(v)
    PROVE  Secured(v)
  BY DEF ArchiveInv, Left, Secured, StopsFull

LEMMA TablesAre ==
    ASSUME ReplicaInv
    PROVE  /\ DOMAIN node = Node /\ DOMAIN queue = Node /\ DOMAIN req = Node /\ DOMAIN prep = Node
           /\ DOMAIN offers = Node /\ \A n \in Node : node[n] \in Rec
           /\ \A n \in Node : prep[n] \subseteq PrepRec /\ DOMAIN offers[n] = Node
<1>1. /\ node \in [Node -> Rec] /\ req = [v \in Node |-> req[v]] /\ queue = [v \in Node |-> queue[v]]
      /\ Carried(node, chain, prep, late, offers)
  BY InvParts
<1>2. prep \in [Node -> SUBSET PrepRec] /\ offers \in [Node -> [Node -> OfferRec \cup {NoOffer}]]
  BY <1>1 DEF Carried
<1>3. DOMAIN req = Node /\ DOMAIN queue = Node
  BY <1>1
<1> QED BY <1>1, <1>2, <1>3

(* Outside the queue phase nothing queued is a write.                      *)
LEMMA NoWrites ==
    ASSUME NEW s, NEW q, Waits(s, q), Pinned(s, q), q.pc # "queued"
    PROVE  \A i \in DOMAIN s : s[i].cmd.op # "put"
  BY DEF Waits, Pinned, Barrier

LEMMA WritesNone ==
    ASSUME NEW s, \A i \in DOMAIN s : s[i].cmd.op # "put", NEW q
    PROVE  Pinned(s, q)
  BY DEF Pinned

LEMMA LeasesAre ==
    ASSUME NEW n \in Node, NEW A
    PROVE  Leases(n) \subseteq A <=>
              /\ req[n].lease \subseteq A /\ \A x \in prep[n] : x.held \subseteq A
              /\ \A p \in Node : offers[n][p] # NoOffer => retained_heads(offers[n][p].snap.state) \subseteq A
  BY DEF Leases, Held, Offered

(* n takes an engine step to r, and Cluster::outputs follows: its request  *)
(* is q by then, its queue s and its preparations P.                       *)
Engine(n, r, q, s, P) ==
    /\ Outputs(n, r, q) /\ r \in Rec /\ Cursors(r) /\ node[n].commit <= node'[n].commit
    /\ r.arch = node[n].arch /\ r.status = "up" /\ Keeps(r)
    /\ q \in ReqRec /\ q.lease \subseteq req[n].lease /\ Waits(s, q) /\ Pinned(s, q)
    /\ \A x \in P : (x \in prep[n] \/ x.held = {}) /\ x.todo \cup x.held = Wanted(x.msg)

LEMMA EngineSecure ==
    ASSUME ReplicaInv, NEW n \in Node, Secure(node[n], queue[n], req[n], prep[n], offers[n]),
           NEW r, NEW q, NEW s, NEW P, Engine(n, r, q, s, P)
    PROVE  /\ Secure(node'[n], s, req'[n], P, offers[n]) /\ StopsFull(node[n], node'[n])
           /\ \A v \in Node : v # n => node'[v] = node[v] /\ req'[v] = req[v]
<1> DEFINE r2 == Settled(n, r)
           q2 == CASE Missing(n, r) -> Idle
                   [] ~Missing(n, r) /\ Answered(r, q) ->
                           IF q.pc = "logged" THEN Idle ELSE [q EXCEPT !.pc = "ready"]
                   [] OTHER ->
                           IF ~r.leads /\ q.pc \in {"logged_barrier", "logged"}
                           THEN Idle ELSE q
           A == node[n].arch
<1>1. /\ DOMAIN node = Node /\ DOMAIN req = Node /\ node[n] \in Rec
  BY TablesAre
<1>2. node' = [node EXCEPT ![n] = r2] /\ req' = [req EXCEPT ![n] = q2]
  BY DEF Engine, Outputs
<1>3. node'[n] = r2 /\ req'[n] = q2 /\ \A v \in Node : v # n => node'[v] = node[v] /\ req'[v] = req[v]
  <2> HIDE DEF r2, q2
  <2> QED BY <1>1, <1>2
<1>4. node[n].commit <= r.commit
  BY <1>3, SettledCommit DEF Engine
<1>5. /\ ~Missing(n, r) /\ Keeps(r2) /\ r2.status = r.status
      /\ \A L : L \subseteq Leases(n) /\ L \subseteq r.arch => L \subseteq r2.arch
  BY <1>1, <1>4, KeepSettles DEF Engine
<1>6. r.arch = A /\ r.status = "up" /\ q.lease \subseteq req[n].lease /\ Waits(s, q) /\ Pinned(s, q)
  BY DEF Engine
<1> HIDE DEF r2
<1>7. Leases(n) \subseteq A
  BY LeasesAre DEF Secure
<1>8. Leases(n) \subseteq r2.arch
  BY <1>5, <1>6, <1>7
<1>9. /\ req[n].lease \subseteq r2.arch /\ \A x \in prep[n] : x.held \subseteq r2.arch
      /\ \A p \in Node : offers[n][p] # NoOffer => retained_heads(offers[n][p].snap.state) \subseteq r2.arch
  BY <1>8, LeasesAre
<1>10. q2.lease \subseteq q.lease /\ Pinned(s, q2)
  <2>1. CASE q2 = q
    BY <2>1, <1>6
  <2>2. CASE q2 = [q EXCEPT !.pc = "ready"]
    <3>1. q2.lease = q.lease /\ q2.cmd = q.cmd
      <4>1. q \in ReqRec
        BY DEF Engine
      <4> HIDE DEF q2
      <4> QED BY <2>2, <4>1 DEF ReqRec
    <3> QED BY <3>1, <1>6 DEF Pinned
  <2>3. CASE q2 = Idle /\ q.pc \in {"logged_barrier", "logged"}
    <3>1. Idle.lease = {}
      BY DEF Idle
    <3>2. \A i \in DOMAIN s : s[i].cmd.op # "put"
      BY <1>6, <2>3, NoWrites
    <3> HIDE DEF q2
    <3> QED BY <2>3, <3>1, <3>2, WritesNone
  <2>4. q2 = q \/ q2 = [q EXCEPT !.pc = "ready"] \/ (q2 = Idle /\ q.pc \in {"logged_barrier", "logged"})
    BY <1>5 DEF Answered
  <2> HIDE DEF q2
  <2> QED BY <2>1, <2>2, <2>3, <2>4
<1> HIDE DEF q2
<1>11. \A x \in P : x.held \subseteq r2.arch /\ x.todo \cup x.held = Wanted(x.msg)
  BY <1>9 DEF Engine
<1>12. Secure(r2, s, q2, P, offers[n])
  BY <1>5, <1>6, <1>9, <1>10, <1>11 DEF Secure
<1>13. StopsFull(node[n], r2)
  BY <1>5, <1>6 DEF StopsFull
<1> QED BY <1>3, <1>12, <1>13

-----------------------------------------------------------------------------
(* The engine keeps what it refers to.                                     *)

LEMMA FollowKeeps ==
    ASSUME NEW r \in Rec, NEW t \in Term, Keeps(r)
    PROVE  Keeps(Follow(r, t))
<1>1. /\ Alike(r, Follow(r, t)) /\ Follow(r, t).state = r.state /\ Follow(r, t).arch = r.arch
  BY FollowIs
<1> QED BY <1>1 DEF Keeps, Alike

(* The part of a log up to index i, which is in it, and more entries.      *)
LEMMA CoversAppended ==
    ASSUME NEW r \in Rec, NEW i \in Nat, term_at(r, i) \in Term, NEW es \in Seq(Entry), NEW A,
           Covers(A, r.log), Covers(A, es)
    PROVE  Covers(A, append_entries(r, i, es))
<1>1. IsLog(r) /\ r.snap.index \in Nat /\ last_log_index(r) = r.snap.index + Len(r.log)
      /\ Len(r.log) \in Nat /\ r.log \in Seq(Entry)
  BY RecLog, LogLen DEF IsLog
<1>2. r.snap.index <= i /\ i <= last_log_index(r)
  <2>1. MaxTerm + 1 \notin Term
    BY ReplicaAssumption DEF Term
  <2> QED BY <1>1, <2>1 DEF term_at
<1> DEFINE k == i - r.snap.index
           g == r.log
           h == SubSeq(g, 1, k)
<1>3. k \in Nat /\ k <= Len(g) /\ g \in Seq(Entry)
  BY <1>1, <1>2
<1> HIDE DEF k, g
<1>4. h \in Seq(Entry) /\ Len(h) = k /\ \A j \in 1 .. k : h[j] = g[j]
  BY <1>3
<1> HIDE DEF h
<1>5. /\ h \o es \in Seq(Entry) /\ Len(h \o es) = k + Len(es) /\ Len(es) \in Nat
      /\ \A j \in 1 .. k + Len(es) : (h \o es)[j] = IF j <= k THEN h[j] ELSE es[j - k]
  <2>1. Joined(h \o es, h, es) /\ Len(es) \in Nat
    BY <1>4, JoinedOf
  <2> QED BY <1>4, <2>1 DEF Joined
<1>6. ASSUME NEW j \in 1 .. k + Len(es) PROVE command_heads((h \o es)[j].cmd) \subseteq A
  <2>1. CASE j <= k
    <3>1. j \in 1 .. k /\ j \in 1 .. Len(g) /\ (h \o es)[j] = g[j]
      BY <1>3, <1>4, <1>5, <2>1
    <3> QED BY <3>1 DEF Covers, g
  <2>2. CASE ~(j <= k)
    <3>1. j - k \in 1 .. Len(es) /\ (h \o es)[j] = es[j - k]
      BY <1>3, <1>5, <2>2
    <3> QED BY <3>1 DEF Covers
  <2> QED BY <2>1, <2>2
<1>7. Covers(A, h \o es)
  BY <1>5, <1>6 DEF Covers
<1> QED BY <1>7 DEF append_entries, h, k, g

LEMMA AppendKeepsAll ==
    ASSUME NEW r \in Rec, NEW m \in AppendRec, Keeps(r), HeadsOf(m) \subseteq r.arch
    PROVE  Keeps(AppendStep(r, m)) /\ AppendStep(r, m).arch = r.arch
           /\ AppendStep(r, m).status = r.status
<1> DEFINE f == Follow(r, m.term)
           l == append_entries(f, m.prev, m.entries)
           c == Max({f.commit, Min({m.commit, EndOf(m)})})
           a == [f EXCEPT !.log = l, !.commit = c]
<1>1. m.term \in Term /\ m.prev \in Nat /\ m.prevTerm \in Term /\ m.entries \in Seq(Entry)
  BY DEF AppendRec
<1>2. Keeps(f) /\ f \in Rec /\ f.arch = r.arch /\ f.status = r.status
  BY <1>1, FollowKeeps, FollowIs
<1>3. AppendStep(r, m) = IF Appends(f, m) THEN a ELSE f
  BY DEF AppendStep
<1> HIDE DEF f
<1>4. CASE Appends(f, m)
  <2>1. term_at(f, m.prev) \in Term
    BY <1>1, <1>4 DEF Appends
  <2>2. Covers(f.arch, m.entries)
    BY <1>2 DEF Covers, HeadsOf
  <2>3. Covers(f.arch, l)
    BY <1>1, <1>2, <2>1, <2>2, CoversAppended DEF Keeps
  <2> HIDE DEF l, c
  <2>4. a.snap = f.snap /\ a.state = f.state /\ a.arch = f.arch /\ a.log = l /\ a.status = f.status
    BY <1>2 DEF Rec
  <2> HIDE DEF a
  <2>5. Keeps(a)
    BY <1>2, <2>3, <2>4 DEF Keeps
  <2> QED BY <1>2, <1>3, <1>4, <2>4, <2>5
<1>5. CASE ~Appends(f, m)
  BY <1>2, <1>3, <1>5
<1> QED BY <1>4, <1>5

LEMMA InstallKeeps ==
    ASSUME NEW r \in Rec, Cursors(r), NEW m \in InstallRec, Keeps(r),
           retained_heads(m.snap.state) \subseteq r.arch
    PROVE  Keeps(InstallStep(r, m)) /\ InstallStep(r, m).arch = r.arch
           /\ InstallStep(r, m).status = r.status
<1> DEFINE f == Follow(r, m.term)
           s == m.snap
           l == IF term_at(f, s.index) = s.term
                THEN Between(f, s.index, last_log_index(f)) ELSE <<>>
           a == [f EXCEPT !.snap = s, !.log = l]
           b == [a EXCEPT !.commit = s.index, !.state = s.state]
<1>1. m.term \in Term /\ s.index \in Nat /\ s.term \in Term
  BY DEF InstallRec, SnapRec
<1>2. Keeps(f) /\ f \in Rec /\ f.arch = r.arch /\ f.status = r.status /\ Alike(r, f)
  BY <1>1, FollowKeeps, FollowIs
<1>3. InstallStep(r, m) = IF s.index > f.commit THEN b ELSE f
  BY DEF InstallStep, install_snapshot
<1>4. Cursors(f)
  BY <1>2, SameLog DEF Cursors, Alike
<1> HIDE DEF f
<1>5. CASE s.index > f.commit
  <2>1. /\ f.commit \in Nat /\ f.snap.index \in Nat /\ last_log_index(f) \in Nat
        /\ f.snap.index <= f.commit
    BY <1>2, <1>4, RecLog DEF Cursors
  <2>2. Covers(f.arch, l)
    <3>1. CASE term_at(f, s.index) = s.term
      <4>1. MaxTerm + 1 \notin Term
        BY ReplicaAssumption DEF Term
      <4>2. f.snap.index <= s.index /\ s.index <= last_log_index(f)
            /\ last_log_index(f) <= last_log_index(f)
        BY <1>1, <1>5, <2>1, <3>1, <4>1 DEF term_at
      <4>3. Covers(f.arch, Between(f, s.index, last_log_index(f)))
        BY <1>1, <1>2, <2>1, <4>2, CoversPart DEF Keeps
      <4> QED BY <3>1, <4>3
    <3>2. CASE term_at(f, s.index) # s.term
      BY <3>2 DEF Covers
    <3> QED BY <3>1, <3>2
  <2> HIDE DEF l
  <2>3. a.snap = s /\ a.log = l /\ a.arch = f.arch /\ a.status = f.status /\ DOMAIN a = DOMAIN f
    BY <1>2 DEF Rec
  <2>4. b.snap = s /\ b.log = l /\ b.arch = f.arch /\ b.status = f.status /\ b.state = s.state
    <3> HIDE DEF a
    <3> QED BY <1>2, <2>3 DEF Rec
  <2> HIDE DEF b
  <2>5. Keeps(b)
    BY <1>2, <2>2, <2>4 DEF Keeps
  <2> QED BY <1>2, <1>3, <1>5, <2>4, <2>5
<1>6. CASE ~(s.index > f.commit)
  BY <1>2, <1>3, <1>6
<1> QED BY <1>5, <1>6

LEMMA LogKeeps ==
    ASSUME NEW n \in Node, NEW r \in Rec, NEW c \in Command, Keeps(r), command_heads(c) \subseteq r.arch
    PROVE  /\ Keeps(Advance(n, Append1(r, c))) /\ Advance(n, Append1(r, c)).arch = r.arch
           /\ Advance(n, Append1(r, c)).status = r.status
<1> DEFINE e == [term |-> r.term, cmd |-> c]
           l == Append(r.log, e)
           a == Append1(r, c)
           b == [a EXCEPT !.commit = last_log_index(a)]
<1>1. r.log \in Seq(Entry) /\ e \in Entry /\ e.cmd = c
  BY DEF Rec, LogRec, Entry
<1> HIDE DEF e
<1>2. /\ l \in Seq(Entry) /\ Len(l) = Len(r.log) + 1 /\ Len(r.log) \in Nat
      /\ \A i \in 1 .. Len(r.log) : l[i] = r.log[i]
      /\ l[Len(r.log) + 1] = e
  BY <1>1, AppendOf
<1>3. a.snap = r.snap /\ a.state = r.state /\ a.arch = r.arch /\ a.log = l /\ a.status = r.status
      /\ DOMAIN a = DOMAIN r
  BY DEF Append1, Rec, e
<1> HIDE DEF l, a
<1>4. Covers(r.arch, l)
  <2> SUFFICES ASSUME NEW i \in 1 .. Len(l) PROVE command_heads(l[i].cmd) \subseteq r.arch
    BY DEF Covers
  <2>1. CASE i <= Len(r.log)
    <3>1. i \in 1 .. Len(r.log) /\ l[i] = r.log[i]
      BY <1>2, <2>1
    <3> QED BY <3>1 DEF Keeps, Covers
  <2>2. CASE ~(i <= Len(r.log))
    <3>1. i = Len(r.log) + 1
      BY <1>2, <2>2
    <3> QED BY <1>1, <1>2, <3>1
  <2> QED BY <2>1, <2>2
<1>5. b.snap = a.snap /\ b.state = a.state /\ b.arch = a.arch /\ b.log = a.log /\ b.status = a.status
  BY <1>3 DEF Rec
<1>6. Advance(n, a) = b \/ Advance(n, a) = a
  BY DEF Advance
<1> HIDE DEF b
<1>7. Keeps(a) /\ Keeps(b)
  BY <1>3, <1>4, <1>5 DEF Keeps
<1> QED BY <1>3, <1>5, <1>6, <1>7 DEF a

-----------------------------------------------------------------------------
(* One lemma for each action.                                              *)

LEMMA OneSecured ==
    ASSUME ArchiveInv, NEW n \in Node, Secured(n), \A v \in Node : v # n => Left(v)
    PROVE  \A v \in Node : Secured(v)
  BY LeftSecured

LEMMA HearTermSecured ==
    ASSUME ReplicaInv, ArchiveInv, NEW n \in Node, NEW m \in Node, HearTerm(n, m)
    PROVE  \A v \in Node : Secured(v)
<1> DEFINE f == Follow(node[n], node[m].term)
<1>1. /\ Up(n) /\ Outputs(n, f, req[n]) /\ UNCHANGED <<queue, prep, offers>>
  BY DEF HearTerm
<1>2. node[m].term \in Term /\ Good(node, chain, sent) /\ node[n] \in Rec /\ node[n].status = "up"
      /\ Asks(node, chain, n, queue[n], req[n])
  BY <1>1, InvParts, RecLog DEF Up
<1>3. node' = [node EXCEPT ![n] = Settled(n, f)]
  BY <1>1 DEF Outputs
<1>4. Steady(node', sent) /\ Tells(n, f, node', chain)
  BY <1>1, <1>2, <1>3, FollowSettles
<1>5. /\ f \in Rec /\ Cursors(f) /\ node[n].commit <= node'[n].commit
  BY <1>4 DEF Tells, Steady, Onward
<1>6. Secure(node[n], queue[n], req[n], prep[n], offers[n])
  BY DEF ArchiveInv
<1>7. Keeps(f) /\ f.arch = node[n].arch /\ f.status = "up"
  BY <1>2, <1>6, FollowKeeps, FollowIs DEF Secure
<1> HIDE DEF f
<1>8. Engine(n, f, req[n], queue[n], prep[n])
  BY <1>1, <1>2, <1>5, <1>6, <1>7 DEF Engine, Asks, Secure
<1>9. Secured(n) /\ \A v \in Node : v # n => Left(v)
  BY <1>1, <1>6, <1>8, EngineSecure DEF Secured, Left
<1> QED BY <1>9, OneSecured

LEMMA HearAppendedSecured ==
    ASSUME ReplicaInv, ArchiveInv, NEW l \in Node, NEW i \in 1 .. last_log_index(node[l]),
           HearAppended(l, i)
    PROVE  \A v \in Node : Secured(v)
<1> DEFINE r == [node[l] EXCEPT !.commit = i]
<1>1. /\ Leads(l) /\ i > node[l].commit /\ Commits(l, i) /\ Outputs(l, r, req[l])
      /\ UNCHANGED <<queue, prep, offers>>
  BY DEF HearAppended
<1>2. /\ i \in Nat /\ i <= last_log_index(node[l]) /\ Good(node, chain, sent) /\ node[l] \in Rec
      /\ node[l].status = "up" /\ Asks(node, chain, l, queue[l], req[l])
  <2>1. last_log_index(node[l]) \in Nat
    BY InvParts, RecLog
  <2> QED BY <1>1, <2>1, InvParts DEF Leads, Up
<1>3. node' = [node EXCEPT ![l] = Settled(l, r)]
  BY <1>1 DEF Outputs
<1>4. Steady(node', sent) /\ Tells(l, r, node', chain)
  BY <1>1, <1>2, <1>3, CommitSettles
<1>5. /\ r \in Rec /\ Cursors(r) /\ node[l].commit <= node'[l].commit
  BY <1>4 DEF Tells, Steady, Onward
<1>6. Secure(node[l], queue[l], req[l], prep[l], offers[l])
  BY DEF ArchiveInv
<1>7. r.snap = node[l].snap /\ r.log = node[l].log /\ r.state = node[l].state /\ r.arch = node[l].arch
      /\ r.status = "up"
  BY <1>2 DEF Rec
<1> HIDE DEF r
<1>8. Keeps(r)
  BY <1>6, <1>7 DEF Secure, Keeps
<1>9. Engine(l, r, req[l], queue[l], prep[l])
  BY <1>1, <1>2, <1>5, <1>6, <1>7, <1>8 DEF Engine, Asks, Secure
<1>10. Secured(l) /\ \A v \in Node : v # l => Left(v)
  BY <1>1, <1>6, <1>9, EngineSecure DEF Secured, Left
<1> QED BY <1>10, OneSecured

(* Entries whose generations are in the archive are appended; what remains *)
(* set aside is P.                                                         *)
LEMMA AppendSecure ==
    ASSUME ReplicaInv, NEW f \in Node, Up(f), NEW m \in AppendRec, Fits(node, chain, m),
           m.term >= node[f].term, AppendEvent(f, m), HeadsOf(m) \subseteq node[f].arch,
           Secure(node[f], queue[f], req[f], prep[f], offers[f]), NEW P \in SUBSET prep[f]
    PROVE  /\ Secure(node'[f], queue[f], req'[f], P, offers[f]) /\ StopsFull(node[f], node'[f])
           /\ \A v \in Node : v # f => node'[v] = node[v] /\ req'[v] = req[v]
<1> DEFINE r == AppendStep(node[f], m)
<1>1. /\ Outputs(f, r, req[f])
      /\ sent' = IF Appends(Follow(node[f], m.term), m)
                 THEN [sent EXCEPT ![f].append = [term |-> m.term, index |-> Matched(f, m)]]
                 ELSE sent
  BY DEF AppendEvent
<1>2. AppendTyped(m) /\ AppendFits(node, chain, m)
  BY DEF AppendRec, AppendTyped, Fits
<1>3. /\ Good(node, chain, sent) /\ sent \in SentSet /\ node[f] \in Rec /\ node[f].status = "up"
      /\ Asks(node, chain, f, queue[f], req[f])
  BY InvParts DEF Up
<1>4. node' = [node EXCEPT ![f] = Settled(f, r)]
  BY <1>1 DEF Outputs
<1>5. Steady(node', sent') /\ Tells(f, r, node', chain)
  BY <1>1, <1>2, <1>3, <1>4, AppendSettles
<1>6. /\ r \in Rec /\ Cursors(r) /\ node[f].commit <= node'[f].commit
  BY <1>5 DEF Tells, Steady, Onward
<1>7. Keeps(r) /\ r.arch = node[f].arch /\ r.status = "up"
  BY <1>3, AppendKeepsAll DEF Secure
<1> HIDE DEF r
<1>8. Engine(f, r, req[f], queue[f], P)
  BY <1>1, <1>3, <1>6, <1>7 DEF Engine, Asks, Secure
<1> QED BY <1>8, EngineSecure

LEMMA ReceiveSecured ==
    ASSUME ReplicaInv, ArchiveInv, NEW f \in Node, NEW m \in AppendRec, Fits(node, chain, m),
           Receive(f, m), UNCHANGED <<queue, offers>>
    PROVE  \A v \in Node : Secured(v)
<1>1. Up(f) /\ Secure(node[f], queue[f], req[f], prep[f], offers[f]) /\ m.term \in Term
      /\ m.kind = "append"
  BY DEF Receive, ArchiveInv, AppendRec
<1>2. CASE UNCHANGED <<node, req, prep>>
  BY <1>2, LeftSecured DEF Left
<1>3. CASE /\ m.term >= node[f].term /\ HeadsOf(m) = {} /\ AppendEvent(f, m)
           /\ UNCHANGED <<prep, preparing>>
  <2>1. HeadsOf(m) \subseteq node[f].arch /\ prep[f] \in SUBSET prep[f]
    BY <1>3
  <2>2. /\ Secure(node'[f], queue[f], req'[f], prep[f], offers[f]) /\ StopsFull(node[f], node'[f])
        /\ \A v \in Node : v # f => node'[v] = node[v] /\ req'[v] = req[v]
    BY <1>1, <1>3, <2>1, AppendSecure
  <2>3. Secured(f) /\ \A v \in Node : v # f => Left(v)
    BY <1>3, <2>2 DEF Secured, Left
  <2> QED BY <2>3, OneSecured
<1>4. CASE /\ m.term >= node[f].term
           /\ Outputs(f, Follow(node[f], m.term), req[f])
           /\ IF m.from \in preparing[f]
              THEN UNCHANGED <<prep, preparing>>
              ELSE /\ preparing' = [preparing EXCEPT ![f] = @ \cup {m.from}]
                   /\ prep' = [prep EXCEPT ![f] =
                                  @ \cup {[msg |-> m, todo |-> HeadsOf(m), held |-> {}]}]
  <2> DEFINE g == Follow(node[f], m.term)
             x == [msg |-> m, todo |-> HeadsOf(m), held |-> {}]
  <2>1. Good(node, chain, sent) /\ node[f] \in Rec /\ node[f].status = "up"
        /\ Asks(node, chain, f, queue[f], req[f])
    BY <1>1, InvParts DEF Up
  <2>2. node' = [node EXCEPT ![f] = Settled(f, g)]
    BY <1>4 DEF Outputs
  <2>3. Steady(node', sent) /\ Tells(f, g, node', chain)
    BY <1>1, <2>1, <2>2, FollowSettles
  <2>4. g \in Rec /\ Cursors(g) /\ node[f].commit <= node'[f].commit
    BY <2>3 DEF Tells, Steady, Onward
  <2>5. Keeps(g) /\ g.arch = node[f].arch /\ g.status = "up"
    BY <1>1, <2>1, FollowKeeps, FollowIs DEF Secure
  <2>6. DOMAIN prep = Node
    BY TablesAre
  <2>7. x.msg = m /\ x.todo = HeadsOf(m) /\ x.held = {}
    OBVIOUS
  <2> HIDE DEF g, x
  <2>8. prep'[f] \subseteq prep[f] \cup {x} /\ \A v \in Node : v # f => prep'[v] = prep[v]
    BY <1>4, <2>6 DEF x
  <2>9. x.todo \cup x.held = Wanted(x.msg)
    BY <1>1, <2>7 DEF Wanted
  <2>10. \A y \in prep'[f] : (y \in prep[f] \/ y.held = {}) /\ y.todo \cup y.held = Wanted(y.msg)
    BY <1>1, <2>7, <2>8, <2>9 DEF Secure
  <2>11. Engine(f, g, req[f], queue[f], prep'[f])
    BY <1>1, <1>4, <2>1, <2>4, <2>5, <2>10 DEF Engine, Asks, Secure, g
  <2>12. Secured(f) /\ \A v \in Node : v # f => Left(v)
    BY <1>1, <2>8, <2>11, EngineSecure DEF Secured, Left
  <2> QED BY <2>12, OneSecured
<1> QED BY <1>2, <1>3, <1>4 DEF Receive

LEMMA SendSecured ==
    ASSUME ReplicaInv, ArchiveInv, NEW l \in Node, NEW f \in Node,
           NEW prev \in node[l].snap.index .. last_log_index(node[l]), Send(l, f, prev)
    PROVE  \A v \in Node : Secured(v)
<1> DEFINE m == AppendMsg(l, prev)
<1>1. m \in AppendRec /\ Fits(node, chain, m)
  BY AppendMsgFits DEF Send
<1> HIDE DEF m
<1>2. UNCHANGED <<queue, offers, chain>>
  BY DEF Send
<1>3. CASE Receive(f, m)
  BY <1>1, <1>2, <1>3, ReceiveSecured
<1>4. CASE UNCHANGED <<node, req, prep>>
  BY <1>2, <1>4, LeftSecured DEF Left
<1> QED BY <1>3, <1>4 DEF Send, m

LEMMA ReceiveLateSecured ==
    ASSUME ReplicaInv, ArchiveInv, ReceiveLate
    PROVE  \A v \in Node : Secured(v)
<1>1. late # NoMsg /\ Receive(late.to, late.msg) /\ UNCHANGED <<queue, offers>>
  BY DEF ReceiveLate
<1>2. late \in LateRec /\ Fits(node, chain, late.msg)
  BY <1>1, InvParts DEF Carried
<1>3. late.to \in Node /\ late.msg \in AppendRec
  BY <1>2 DEF LateRec
<1> QED BY <1>1, <1>2, <1>3, ReceiveSecured

LEMMA PreparedSecured ==
    ASSUME ReplicaInv, ArchiveInv, NEW f \in Node, NEW p \in prep[f], Prepared(f, p)
    PROVE  \A v \in Node : Secured(v)
<1> DEFINE P == prep[f] \ {p}
           m == p.msg
<1>1. /\ Up(f) /\ p.todo = {} /\ prep' = [prep EXCEPT ![f] = P] /\ UNCHANGED <<queue, offers>>
  BY DEF Prepared
<1>2. /\ m \in AppendRec \cup InstallRec /\ Fits(node, chain, m)
  BY PrepType
<1>3. Secure(node[f], queue[f], req[f], prep[f], offers[f]) /\ P \in SUBSET prep[f]
  BY DEF ArchiveInv
<1>4. Wanted(m) \subseteq node[f].arch
  BY <1>1, <1>3 DEF Secure
<1>5. prep'[f] = P /\ \A v \in Node : v # f => prep'[v] = prep[v]
  BY <1>1, TablesAre
<1>6. SUFFICES /\ Secure(node'[f], queue[f], req'[f], P, offers[f]) /\ StopsFull(node[f], node'[f])
               /\ \A v \in Node : v # f => node'[v] = node[v] /\ req'[v] = req[v]
  <2> HIDE DEF P
  <2>1. Secured(f) /\ \A v \in Node : v # f => Left(v)
    BY <1>1, <1>5, <1>6 DEF Secured, Left
  <2> QED BY <2>1, OneSecured
<1> HIDE DEF m
<1>7. CASE UNCHANGED <<node, req>>
  BY <1>3, <1>7 DEF Secure, StopsFull
<1> HIDE DEF P
<1>8. CASE m.term >= node[f].term /\ m.kind = "append" /\ AppendEvent(f, m)
  <2>1. m \in AppendRec /\ HeadsOf(m) \subseteq node[f].arch
    BY <1>2, <1>4, <1>8 DEF InstallRec, Wanted
  <2> QED BY <1>1, <1>2, <1>3, <1>8, <2>1, AppendSecure
<1>9. CASE /\ m.term >= node[f].term /\ m.kind = "snapshot"
           /\ Outputs(f, InstallStep(node[f], m), req[f])
  <2> DEFINE r == InstallStep(node[f], m)
  <2>1. m \in InstallRec /\ retained_heads(m.snap.state) \subseteq node[f].arch
    BY <1>2, <1>4, <1>9 DEF AppendRec, Wanted
  <2>2. m.term \in Term /\ m.snap \in SnapRec
    BY <2>1 DEF InstallRec
  <2>3. SnapFits(node, chain, m.snap, m.term)
    BY <1>2, <1>9 DEF Fits
  <2>4. /\ Good(node, chain, sent) /\ node[f] \in Rec /\ node[f].status = "up" /\ Cursors(node[f])
        /\ Asks(node, chain, f, queue[f], req[f])
    BY <1>1, InvParts DEF Up, Sound
  <2>5. node' = [node EXCEPT ![f] = Settled(f, r)]
    BY <1>9 DEF Outputs
  <2>6. Steady(node', sent) /\ Tells(f, r, node', chain)
    BY <1>1, <1>9, <2>2, <2>3, <2>4, <2>5, InstallSettles
  <2>7. r \in Rec /\ Cursors(r) /\ node[f].commit <= node'[f].commit
    BY <2>6 DEF Tells, Steady, Onward
  <2>8. Keeps(r) /\ r.arch = node[f].arch /\ r.status = "up"
    BY <1>3, <2>1, <2>4, InstallKeeps DEF Secure
  <2> HIDE DEF r
  <2>9. Engine(f, r, req[f], queue[f], P)
    BY <1>3, <1>9, <2>4, <2>7, <2>8 DEF Engine, Asks, Secure, r
  <2> QED BY <1>3, <2>9, EngineSecure
<1> QED BY <1>7, <1>8, <1>9 DEF Prepared, m

LEMMA TransferSecured ==
    ASSUME ReplicaInv, ArchiveInv, NEW l \in Node, NEW f \in Node, Transfer(l, f)
    PROVE  \A v \in Node : Secured(v)
<1> DEFINE o == offers[l][f]
           g == Follow(node[f], o.term)
           m == [kind |-> "snapshot", from |-> l, term |-> o.term, snap |-> o.snap]
           x == [msg |-> m, todo |-> retained_heads(o.snap.state), held |-> {}]
<1>1. /\ Up(f) /\ o # NoOffer /\ Outputs(f, g, req[f]) /\ UNCHANGED <<queue, offers>>
      /\ prep' = [prep EXCEPT ![f] = @ \cup {x}]
  BY DEF Transfer
<1>2. /\ Good(node, chain, sent) /\ node[f] \in Rec /\ node[f].status = "up"
      /\ Asks(node, chain, f, queue[f], req[f]) /\ Carried(node, chain, prep, late, offers)
  BY <1>1, InvParts DEF Up
<1>3. o \in OfferRec /\ o.term \in Term
  <2>1. o \in OfferRec
    BY <1>1, <1>2 DEF Carried
  <2> QED BY <2>1, OfferType
<1>4. x.todo \cup x.held = Wanted(x.msg) /\ x.held = {}
  BY DEF Wanted
<1> HIDE DEF o, m, x
<1>5. node' = [node EXCEPT ![f] = Settled(f, g)]
  BY <1>1 DEF Outputs
<1>6. Steady(node', sent) /\ Tells(f, g, node', chain)
  BY <1>1, <1>2, <1>3, <1>5, FollowSettles
<1>7. g \in Rec /\ Cursors(g) /\ node[f].commit <= node'[f].commit
  BY <1>6 DEF Tells, Steady, Onward
<1>8. Secure(node[f], queue[f], req[f], prep[f], offers[f])
  BY DEF ArchiveInv
<1>9. Keeps(g) /\ g.arch = node[f].arch /\ g.status = "up"
  BY <1>2, <1>3, <1>8, FollowKeeps, FollowIs DEF Secure
<1> HIDE DEF g
<1>10. prep'[f] = prep[f] \cup {x} /\ \A v \in Node : v # f => prep'[v] = prep[v]
  BY <1>1, TablesAre
<1>11. \A y \in prep'[f] : (y \in prep[f] \/ y.held = {}) /\ y.todo \cup y.held = Wanted(y.msg)
  BY <1>4, <1>8, <1>10 DEF Secure
<1>12. Engine(f, g, req[f], queue[f], prep'[f])
  BY <1>1, <1>2, <1>7, <1>8, <1>9, <1>11 DEF Engine, Asks, Secure
<1>13. Secured(f) /\ \A v \in Node : v # f => Left(v)
  BY <1>1, <1>8, <1>10, <1>12, EngineSecure DEF Secured, Left
<1> QED BY <1>13, OneSecured

LEMMA StageNextSecured ==
    ASSUME ReplicaInv, ArchiveInv, NEW f \in Node, NEW p \in prep[f], NEW h \in p.todo,
           StageNext(f, p, h)
    PROVE  \A v \in Node : Secured(v)
<1> DEFINE r == [node[f] EXCEPT !.arch = @ \cup {h}]
           p2 == [p EXCEPT !.todo = @ \ {h}, !.held = @ \cup {h}]
           P == (prep[f] \ {p}) \cup {p2}
<1>1. /\ node' = [node EXCEPT ![f] = r] /\ prep' = [prep EXCEPT ![f] = P]
      /\ UNCHANGED <<queue, req, offers>>
  BY DEF StageNext
<1>2. node[f] \in Rec /\ p \in PrepRec
  BY InvParts, PrepType
<1>3. r.snap = node[f].snap /\ r.log = node[f].log /\ r.state = node[f].state
      /\ r.arch = node[f].arch \cup {h} /\ r.status = node[f].status
  BY <1>2 DEF Rec
<1>4. p2.msg = p.msg /\ p2.todo = p.todo \ {h} /\ p2.held = p.held \cup {h}
  BY <1>2 DEF PrepRec
<1> HIDE DEF r, p2
<1>5. Secure(node[f], queue[f], req[f], prep[f], offers[f])
  BY DEF ArchiveInv
<1>6. Keeps(r)
  BY <1>3, <1>5 DEF Secure, Keeps, Covers
<1>7. \A x \in P : x.held \subseteq r.arch /\ x.todo \cup x.held = Wanted(x.msg)
  BY <1>3, <1>4, <1>5 DEF Secure
<1>8. Secure(r, queue[f], req[f], P, offers[f]) /\ StopsFull(node[f], r)
  BY <1>3, <1>5, <1>6, <1>7 DEF Secure, StopsFull
<1> HIDE DEF P
<1>9. /\ node'[f] = r /\ prep'[f] = P
      /\ \A v \in Node : v # f => node'[v] = node[v] /\ prep'[v] = prep[v]
  BY <1>1, TablesAre
<1>10. Secured(f) /\ \A v \in Node : v # f => Left(v)
  BY <1>1, <1>8, <1>9 DEF Secured, Left
<1> QED BY <1>10, OneSecured

LEMMA StageFailsSecured ==
    ASSUME ReplicaInv, ArchiveInv, NEW f \in Node, NEW p \in prep[f], StageFails(f, p)
    PROVE  \A v \in Node : Secured(v)
<1>1. prep' = [prep EXCEPT ![f] = @ \ {p}] /\ UNCHANGED <<node, queue, req, offers>>
  BY DEF StageFails
<1>2. prep'[f] = prep[f] \ {p} /\ \A v \in Node : v # f => prep'[v] = prep[v]
  BY <1>1, TablesAre
<1>3. Secure(node[f], queue[f], req[f], prep[f], offers[f])
  BY DEF ArchiveInv
<1>4. Secure(node[f], queue[f], req[f], prep[f] \ {p}, offers[f])
  BY <1>3 DEF Secure
<1>5. Secured(f) /\ \A v \in Node : v # f => Left(v)
  BY <1>1, <1>2, <1>4 DEF Secured, Left, StopsFull
<1> QED BY <1>5, OneSecured

LEMMA MaintainSecured ==
    ASSUME ReplicaInv, ArchiveInv, NEW n \in Node, NEW e, Maintain(n, e)
    PROVE  \A v \in Node : Secured(v)
<1> DEFINE k == [p \in Node |-> IF p \in e THEN NoOffer ELSE offers[n][p]]
           L == req[n].lease \cup Held(prep[n]) \cup Offered(k)
           r == collect(node[n], L)
<1>1. /\ offers' = [offers EXCEPT ![n] = k] /\ node' = [node EXCEPT ![n] = r]
      /\ UNCHANGED <<queue, req, prep>>
  BY DEF Maintain
<1>2. node[n] \in Rec
  BY InvParts
<1>3. Secure(node[n], queue[n], req[n], prep[n], offers[n])
  BY DEF ArchiveInv
<1>4. \A p \in Node : k[p] # NoOffer => k[p] = offers[n][p]
  OBVIOUS
<1>5. \A p \in Node : k[p] # NoOffer => retained_heads(k[p].snap.state) \subseteq Offered(k)
  BY DEF Offered
<1>6. \A x \in prep[n] : x.held \subseteq L
  BY DEF Held
<1> HIDE DEF k
<1>7. Offered(k) \subseteq L /\ req[n].lease \subseteq L
  OBVIOUS
<1> HIDE DEF L
<1>8. r.snap = node[n].snap /\ r.log = node[n].log /\ r.state = node[n].state
      /\ r.arch = node[n].arch \cap (retained_heads(node[n].state) \cup References(node[n]) \cup L)
      /\ r.status = node[n].status
  BY <1>2 DEF collect, Rec
<1> HIDE DEF r
<1>9. Covers(References(node[n]), node[n].log)
      /\ retained_heads(node[n].snap.state) \subseteq References(node[n])
  BY KeepsRefers
<1>10. Keeps(r)
  BY <1>3, <1>8, <1>9 DEF Secure, Keeps, Covers
<1>11. Secure(r, queue[n], req[n], prep[n], k) /\ StopsFull(node[n], r)
  BY <1>3, <1>4, <1>5, <1>6, <1>7, <1>8, <1>10 DEF Secure, StopsFull
<1>12. /\ node'[n] = r /\ offers'[n] = k
       /\ \A v \in Node : v # n => node'[v] = node[v] /\ offers'[v] = offers[v]
  BY <1>1, TablesAre
<1>13. Secured(n) /\ \A v \in Node : v # n => Left(v)
  BY <1>1, <1>11, <1>12 DEF Secured, Left
<1> QED BY <1>13, OneSecured

LEMMA HearInstalledSecured ==
    ASSUME ReplicaInv, ArchiveInv, NEW l \in Node, NEW f \in Node, HearInstalled(l, f)
    PROVE  \A v \in Node : Secured(v)
<1> DEFINE k == [offers[l] EXCEPT ![f] = NoOffer]
<1>1. offers' = [offers EXCEPT ![l] = k] /\ UNCHANGED <<node, queue, req, prep>>
  BY DEF HearInstalled
<1>2. \A p \in Node : k[p] # NoOffer => k[p] = offers[l][p]
  BY TablesAre
<1> HIDE DEF k
<1>3. Secure(node[l], queue[l], req[l], prep[l], offers[l])
  BY DEF ArchiveInv
<1>4. Secure(node[l], queue[l], req[l], prep[l], k)
  BY <1>2, <1>3 DEF Secure
<1>5. offers'[l] = k /\ \A v \in Node : v # l => offers'[v] = offers[v]
  BY <1>1, TablesAre
<1>6. Secured(l) /\ \A v \in Node : v # l => Left(v)
  BY <1>1, <1>4, <1>5 DEF Secured, Left, StopsFull
<1> QED BY <1>6, OneSecured

LEMMA OfferSecured ==
    ASSUME ReplicaInv, ArchiveInv, NEW l \in Node, NEW f \in Node, Offer(l, f)
    PROVE  \A v \in Node : Secured(v)
<1> DEFINE x == [term |-> node[l].term,
                 snap |-> IF offers[l][f] # NoOffer THEN offers[l][f].snap ELSE node[l].snap]
           k == [offers[l] EXCEPT ![f] = x]
<1>1. Secure(node[l], queue[l], req[l], prep[l], offers[l])
  BY DEF ArchiveInv
<1>2. retained_heads(node[l].snap.state) \subseteq node[l].arch
  BY <1>1 DEF Secure, Keeps
<1>3. node' = node /\ UNCHANGED <<queue, req, prep>>
  BY <1>2 DEF Offer
<1>4. offers' = [offers EXCEPT ![l] = k]
  BY <1>2, TablesAre DEF Offer
<1>5. retained_heads(x.snap.state) \subseteq node[l].arch
  BY <1>1, <1>2 DEF Secure
<1> HIDE DEF x
<1>6. \A p \in Node : k[p] = IF p = f THEN x ELSE offers[l][p]
  BY TablesAre
<1> HIDE DEF k
<1>7. Secure(node[l], queue[l], req[l], prep[l], k)
  BY <1>1, <1>5, <1>6 DEF Secure
<1>8. offers'[l] = k /\ \A v \in Node : v # l => offers'[v] = offers[v]
  BY <1>4, TablesAre
<1>9. Secured(l) /\ \A v \in Node : v # l => Left(v)
  BY <1>3, <1>7, <1>8 DEF Secured, Left, StopsFull
<1> QED BY <1>9, OneSecured

(* A process loses its leases, and its queue.                              *)
LEMMA ForgetSecured ==
    ASSUME ReplicaInv, NEW n \in Node, Forget(n), Keeps(node'[n]), node'[n].status # "stopped",
           \A v \in Node : v # n => node'[v] = node[v]
    PROVE  Secured(n) /\ \A v \in Node : v # n => Left(v)
<1>1. /\ queue' = [queue EXCEPT ![n] = <<>>] /\ req' = [req EXCEPT ![n] = Idle]
      /\ prep' = [prep EXCEPT ![n] = {}]
      /\ offers' = [offers EXCEPT ![n] = [p \in Node |-> NoOffer]]
  BY DEF Forget
<1>2. /\ queue'[n] = <<>> /\ req'[n] = Idle /\ prep'[n] = {} /\ offers'[n] = [p \in Node |-> NoOffer]
  BY <1>1, TablesAre
<1>3. \A v \in Node : v # n => Left(v)
  BY <1>1, TablesAre DEF Left
<1>4. Idle.lease = {} /\ Pinned(<<>>, Idle) /\ \A p \in Node : offers'[n][p] = NoOffer
  BY <1>2 DEF Idle, Pinned
<1>5. Secured(n)
  BY <1>2, <1>4 DEF Secured, Secure, StopsFull
<1> QED BY <1>3, <1>5

LEMMA CrashSecured ==
    ASSUME ReplicaInv, ArchiveInv, NEW n \in Node, Crash(n)
    PROVE  \A v \in Node : Secured(v)
<1> DEFINE r == [node[n] EXCEPT !.status = "down", !.leads = FALSE]
<1>1. Forget(n) /\ node' = [node EXCEPT ![n] = r]
  BY TablesAre DEF Crash
<1>2. node[n] \in Rec
  BY InvParts
<1>3. r.snap = node[n].snap /\ r.log = node[n].log /\ r.state = node[n].state
      /\ r.arch = node[n].arch /\ r.status = "down"
  BY <1>2 DEF Rec
<1> HIDE DEF r
<1>4. Keeps(node[n])
  BY DEF ArchiveInv, Secure
<1>5. Keeps(r)
  BY <1>3, <1>4 DEF Keeps
<1>6. node'[n] = r /\ \A v \in Node : v # n => node'[v] = node[v]
  BY <1>1, TablesAre
<1>7. Secured(n) /\ \A v \in Node : v # n => Left(v)
  BY <1>1, <1>3, <1>5, <1>6, ForgetSecured
<1> QED BY <1>7, OneSecured

LEMMA OpenSecured ==
    ASSUME ReplicaInv, ArchiveInv, NEW n \in Node, Open(n)
    PROVE  \A v \in Node : Secured(v)
<1> DEFINE b == Between(node[n], node[n].snap.index, node[n].commit)
           st == Replay(node[n].snap.state, b)
           r == [node[n] EXCEPT !.status = "up", !.state = st]
<1>1. Forget(n) /\ node' = [node EXCEPT ![n] = r]
  BY TablesAre DEF Open
<1>2. node[n] \in Rec /\ Cursors(node[n])
  BY InvParts DEF Sound
<1>3. Keeps(node[n])
  BY DEF ArchiveInv, Secure
<1>4. retained_heads(st) \subseteq node[n].arch
  <2>1. /\ node[n].commit \in Nat /\ node[n].snap.index \in Nat /\ node[n].snap.state \in State
        /\ node[n].snap.index <= node[n].commit /\ node[n].commit <= last_log_index(node[n])
        /\ node[n].snap.index <= node[n].snap.index
    BY <1>2, RecLog DEF Cursors, Rec, SnapRec
  <2>2. Covers(node[n].arch, b) /\ b \in Seq(Entry)
    BY <1>2, <1>3, <2>1, CoversPart DEF Keeps
  <2> HIDE DEF b
  <2> QED BY <1>3, <2>1, <2>2, RetainedReplay DEF Keeps
<1> HIDE DEF st
<1>5. r.snap = node[n].snap /\ r.log = node[n].log /\ r.state = st
      /\ r.arch = node[n].arch /\ r.status = "up"
  BY <1>2 DEF Rec
<1> HIDE DEF r
<1>6. Keeps(r)
  BY <1>3, <1>4, <1>5 DEF Keeps
<1>7. node'[n] = r /\ \A v \in Node : v # n => node'[v] = node[v]
  BY <1>1, TablesAre
<1>8. Secured(n) /\ \A v \in Node : v # n => Left(v)
  BY <1>1, <1>5, <1>6, <1>7, ForgetSecured
<1> QED BY <1>8, OneSecured

(* A write is queued by the request that leases its generation.            *)
LEMMA QueuePinned ==
    ASSUME NEW s \in Seq(Item), \A i \in DOMAIN s : s[i].cmd.op # "put", NEW x \in Item, NEW q,
           x.cmd.op = "put" => x.live /\ x.cmd = q.cmd /\ x.cmd.head \in q.lease
    PROVE  Pinned(Append(s, x), q)
<1> DEFINE g == Append(s, x)
<1>1. /\ DOMAIN s = 1 .. Len(s) /\ DOMAIN g = 1 .. (Len(s) + 1) /\ Len(s) \in Nat
      /\ \A i \in 1 .. Len(s) : g[i] = s[i]
      /\ g[Len(s) + 1] = x
  BY AppendOf
<1> HIDE DEF g
<1>2. ASSUME NEW i \in DOMAIN g, g[i].cmd.op = "put"
      PROVE  g[i].live /\ g[i].cmd = q.cmd /\ g[i].cmd.head \in q.lease
  <2>1. i \in 1 .. Len(s) \/ i = Len(s) + 1
    BY <1>1
  <2> QED BY <1>1, <1>2, <2>1
<1> QED BY <1>2 DEF Pinned, g

LEMMA StartRequestSecured ==
    ASSUME ReplicaInv, ArchiveInv, NEW n \in Node, NEW c \in Request, StartRequest(n, c)
    PROVE  \A v \in Node : Secured(v)
<1> DEFINE q2 == [Idle EXCEPT !.pc = "queued_barrier", !.cmd = c, !.term = node[n].term,
                              !.floor = ack.index]
           x == [cmd |-> Barrier, term |-> node[n].term, live |-> TRUE]
           s2 == Append(queue[n], x)
<1>1. /\ Leads(n) /\ req[n].pc = "idle" /\ req' = [req EXCEPT ![n] = q2]
      /\ queue' = [queue EXCEPT ![n] = s2] /\ UNCHANGED <<node, prep, offers>>
  BY DEF StartRequest
<1>2. node[n] \in Rec /\ Asks(node, chain, n, queue[n], req[n]) /\ node[n].status = "up"
  BY <1>1, InvParts DEF Leads, Up
<1>3. queue[n] \in Seq(Item) /\ Waits(queue[n], req[n])
  BY <1>2 DEF Asks
<1>4. Secure(node[n], queue[n], req[n], prep[n], offers[n])
  BY DEF ArchiveInv
<1>5. \A i \in DOMAIN queue[n] : queue[n][i].cmd.op # "put"
  BY <1>1, <1>2, <1>3, <1>4, NoWrites DEF Secure
<1>6. x \in Item /\ x.cmd.op # "put"
  BY <1>2, RecLog DEF Item, Command, Barrier
<1>7. q2.lease = {}
  BY DEF Idle
<1> HIDE DEF x, q2
<1>8. Pinned(s2, q2)
  BY <1>3, <1>5, <1>6, QueuePinned
<1> HIDE DEF s2
<1>9. Secure(node[n], s2, q2, prep[n], offers[n])
  BY <1>4, <1>7, <1>8 DEF Secure
<1>10. /\ req'[n] = q2 /\ queue'[n] = s2
       /\ \A v \in Node : v # n => req'[v] = req[v] /\ queue'[v] = queue[v]
  BY <1>1, TablesAre
<1>11. Secured(n) /\ \A v \in Node : v # n => Left(v)
  BY <1>1, <1>9, <1>10 DEF Secured, Left, StopsFull
<1> QED BY <1>11, OneSecured

LEMMA ReadySecured ==
    ASSUME ReplicaInv, ArchiveInv, NEW n \in Node, Ready(n)
    PROVE  \A v \in Node : Secured(v)
<1> DEFINE q == req[n]
           x == [cmd |-> q.cmd, term |-> q.term, live |-> TRUE]
<1>1. /\ Up(n) /\ q.pc = "ready" /\ UNCHANGED <<node, prep, offers>>
      /\ \/ req' = [req EXCEPT ![n] = Idle] /\ queue' = queue
         \/ req' = [req EXCEPT ![n] = [q EXCEPT !.pc = "stage"]] /\ queue' = queue
         \/ /\ q.cmd.op = "delete" /\ req' = [req EXCEPT ![n] = [q EXCEPT !.pc = "queued"]]
            /\ queue' = [queue EXCEPT ![n] = Append(queue[n], x)]
  BY DEF Ready
<1>2. node[n] \in Rec /\ Asks(node, chain, n, queue[n], q) /\ node[n].status = "up"
  BY <1>1, InvParts DEF Up
<1>3. queue[n] \in Seq(Item) /\ Waits(queue[n], q) /\ q \in ReqRec
  BY <1>2 DEF Asks
<1>4. Secure(node[n], queue[n], q, prep[n], offers[n])
  BY DEF ArchiveInv
<1>5. \A i \in DOMAIN queue[n] : queue[n][i].cmd.op # "put"
  BY <1>1, <1>2, <1>3, <1>4, NoWrites DEF Secure
<1>6. req'[n].lease \subseteq q.lease /\ \A v \in Node : v # n => req'[v] = req[v]
  <2>1. Idle.lease = {}
    BY DEF Idle
  <2>2. \A c \in {"stage", "queued"} : [q EXCEPT !.pc = c].lease = q.lease
    BY <1>3 DEF ReqRec
  <2>3. PICK y : req' = [req EXCEPT ![n] = y] /\ y.lease \subseteq q.lease
    BY <1>1, <2>1, <2>2
  <2> QED BY <2>3, TablesAre
<1>7. Pinned(queue'[n], req'[n]) /\ \A v \in Node : v # n => queue'[v] = queue[v]
  <2>1. CASE queue' = queue
    BY <2>1, <1>5, WritesNone
  <2>2. CASE q.cmd.op = "delete" /\ queue' = [queue EXCEPT ![n] = Append(queue[n], x)]
    <3>1. x \in Item /\ x.cmd = q.cmd
      BY <1>3, <2>2, RequestCommand, ReqType DEF Item
    <3> HIDE DEF x, q
    <3>2. Pinned(Append(queue[n], x), req'[n])
      BY <1>3, <1>5, <2>2, <3>1, QueuePinned
    <3> QED BY <2>2, <3>2, TablesAre
  <2> QED BY <1>1, <2>1, <2>2
<1> HIDE DEF x, q
<1>8. Secure(node[n], queue'[n], req'[n], prep[n], offers[n])
  BY <1>4, <1>6, <1>7 DEF Secure
<1>9. Secured(n) /\ \A v \in Node : v # n => Left(v)
  BY <1>1, <1>6, <1>7, <1>8 DEF Secured, Left, StopsFull
<1> QED BY <1>9, OneSecured

LEMMA StageWriteSecured ==
    ASSUME ReplicaInv, ArchiveInv, NEW n \in Node, StageWrite(n)
    PROVE  \A v \in Node : Secured(v)
<1> DEFINE q == req[n]
           h == q.cmd.head
           r == [node[n] EXCEPT !.arch = @ \cup {h}]
           q2 == [q EXCEPT !.pc = "queued", !.lease = {h}]
           x == [cmd |-> q.cmd, term |-> q.term, live |-> TRUE]
           s2 == Append(queue[n], x)
<1>1. /\ Up(n) /\ q.pc = "stage" /\ UNCHANGED <<prep, offers>>
      /\ \/ /\ node' = [node EXCEPT ![n] = r] /\ req' = [req EXCEPT ![n] = q2]
            /\ queue' = [queue EXCEPT ![n] = s2]
         \/ req' = [req EXCEPT ![n] = Idle] /\ UNCHANGED <<node, queue>>
  BY DEF StageWrite
<1>2. node[n] \in Rec /\ Asks(node, chain, n, queue[n], q) /\ node[n].status = "up"
  BY <1>1, InvParts DEF Up
<1>3. queue[n] \in Seq(Item) /\ Waits(queue[n], q) /\ q \in ReqRec /\ q.cmd.op = "put"
  BY <1>1, <1>2 DEF Asks
<1>4. Secure(node[n], queue[n], q, prep[n], offers[n])
  BY DEF ArchiveInv
<1>5. \A i \in DOMAIN queue[n] : queue[n][i].cmd.op # "put"
  BY <1>1, <1>2, <1>3, <1>4, NoWrites DEF Secure
<1>6. CASE req' = [req EXCEPT ![n] = Idle] /\ UNCHANGED <<node, queue>>
  <2>1. Idle.lease = {}
    BY DEF Idle
  <2>2. Secure(node[n], queue[n], Idle, prep[n], offers[n])
    BY <1>4, <1>5, <2>1, WritesNone DEF Secure
  <2>3. req'[n] = Idle /\ \A v \in Node : v # n => req'[v] = req[v]
    BY <1>6, TablesAre
  <2> HIDE DEF Idle, q
  <2>4. Secured(n) /\ \A v \in Node : v # n => Left(v)
    BY <1>1, <1>6, <2>2, <2>3 DEF Secured, Left, StopsFull
  <2> QED BY <2>4, OneSecured
<1>7. CASE /\ node' = [node EXCEPT ![n] = r] /\ req' = [req EXCEPT ![n] = q2]
           /\ queue' = [queue EXCEPT ![n] = s2]
  <2>1. r.snap = node[n].snap /\ r.log = node[n].log /\ r.state = node[n].state
        /\ r.arch = node[n].arch \cup {h} /\ r.status = node[n].status
    BY <1>2 DEF Rec
  <2>2. q2.cmd = q.cmd /\ q2.lease = {h}
    BY <1>3 DEF ReqRec
  <2>3. x \in Item /\ x.cmd = q.cmd /\ x.live
    BY <1>3, RequestCommand, ReqType DEF Item
  <2> HIDE DEF q, r, q2, x
  <2>4. Pinned(s2, q2)
    BY <1>3, <1>5, <2>2, <2>3, QueuePinned
  <2> HIDE DEF s2, h
  <2>5. Keeps(r)
    BY <1>4, <2>1 DEF Secure, Keeps, Covers
  <2>6. Secure(r, s2, q2, prep[n], offers[n]) /\ StopsFull(node[n], r)
    BY <1>4, <2>1, <2>2, <2>4, <2>5 DEF Secure, StopsFull
  <2>7. /\ node'[n] = r /\ req'[n] = q2 /\ queue'[n] = s2
        /\ \A v \in Node : v # n => node'[v] = node[v] /\ req'[v] = req[v] /\ queue'[v] = queue[v]
    BY <1>7, TablesAre
  <2>8. Secured(n) /\ \A v \in Node : v # n => Left(v)
    BY <1>1, <2>6, <2>7 DEF Secured, Left
  <2> QED BY <2>8, OneSecured
<1> QED BY <1>1, <1>6, <1>7

(* Nothing queued is a write when the request may be cancelled.            *)
LEMMA CancelSecured ==
    ASSUME ReplicaInv, ArchiveInv, ~LateCancel, NEW n \in Node, Cancel(n)
    PROVE  \A v \in Node : Secured(v)
<1> DEFINE s == queue[n]
           s2 == [i \in DOMAIN s |-> [s[i] EXCEPT !.live = FALSE]]
<1>1. /\ Up(n) /\ ~(req[n].pc = "queued" /\ req[n].cmd.op = "put")
      /\ req' = [req EXCEPT ![n] = Idle] /\ queue' = [queue EXCEPT ![n] = s2]
      /\ UNCHANGED <<node, prep, offers>>
  BY DEF Cancel
<1>2. node[n] \in Rec /\ Asks(node, chain, n, s, req[n]) /\ node[n].status = "up"
  BY <1>1, InvParts DEF Up
<1>3. Waits(s, req[n]) /\ \A i \in DOMAIN s : s[i] \in Item
  BY <1>2, AsksParts
<1>4. Secure(node[n], s, req[n], prep[n], offers[n])
  BY DEF ArchiveInv
<1>5. \A i \in DOMAIN s : s[i].cmd.op # "put"
  BY <1>1, <1>2, <1>3, <1>4 DEF Secure, Pinned, Waits, Barrier
<1>6. \A i \in DOMAIN s2 : s2[i].cmd.op # "put"
  <2>1. \A x \in Item : [x EXCEPT !.live = FALSE].cmd = x.cmd
    BY DEF Item
  <2> QED BY <1>3, <1>5, <2>1
<1>7. Idle.lease = {}
  BY DEF Idle
<1> HIDE DEF s2, s, Idle
<1>8. Secure(node[n], s2, Idle, prep[n], offers[n])
  BY <1>4, <1>6, <1>7, WritesNone DEF Secure
<1>9. /\ req'[n] = Idle /\ queue'[n] = s2
      /\ \A v \in Node : v # n => req'[v] = req[v] /\ queue'[v] = queue[v]
  BY <1>1, TablesAre
<1>10. Secured(n) /\ \A v \in Node : v # n => Left(v)
  BY <1>1, <1>8, <1>9 DEF Secured, Left, StopsFull
<1> QED BY <1>10, OneSecured

(* The queue of n has lost its first proposal p.                           *)
LEMMA TailPinned ==
    ASSUME NEW s \in Seq(Item), NEW p, NEW s2, Taken(s, p, s2), NEW q, Pinned(s, q)
    PROVE  Pinned(s2, q)
<1>1. \A i \in DOMAIN s2 : i + 1 \in DOMAIN s /\ s2[i] = s[i + 1]
  <2>1. /\ s2 \in Seq(Item) /\ Len(s2) = Len(s) - 1 /\ Len(s) \in Nat \ {0}
        /\ DOMAIN s = 1 .. Len(s) /\ DOMAIN s2 = 1 .. (Len(s) - 1)
        /\ \A i \in 1 .. (Len(s) - 1) : s2[i] = s[i + 1]
    BY HeadTailOf DEF Taken
  <2> QED BY <2>1
<1> QED BY <1>1 DEF Pinned

LEMMA ProposeSecured ==
    ASSUME ReplicaInv, ArchiveInv, NEW n \in Node, Propose(n)
    PROVE  \A v \in Node : Secured(v)
<1> DEFINE p == Head(queue[n])
           s2 == Tail(queue[n])
           q2 == IF p.live
                 THEN [req[n] EXCEPT !.pc = IF p.cmd = Barrier THEN "logged_barrier" ELSE "logged",
                                     !.index = last_log_index(node[n]) + 1]
                 ELSE req[n]
<1>1. Up(n) /\ Taken(queue[n], p, s2) /\ node[n].status = "up"
  BY DEF Propose, Taken, Up
<1>2. /\ node[n] \in Rec /\ Asks(node, chain, n, queue[n], req[n]) /\ Good(node, chain, sent)
      /\ Sound(node, chain, sent)
  BY InvParts
<1>3. queue' = [queue EXCEPT ![n] = s2] /\ UNCHANGED <<prep, offers>>
  BY TablesAre DEF Propose
<1>4. \/ /\ req' = IF p.live THEN [req EXCEPT ![n] = Idle] ELSE req
         /\ UNCHANGED node
      \/ /\ node' = [node EXCEPT ![n] = Stopped(@)] /\ Len(node[n].log) >= MaxEntries
         /\ req' = [req EXCEPT ![n] = Idle]
      \/ /\ node[n].leads /\ node[n].term = p.term /\ ~(Len(node[n].log) >= MaxEntries)
         /\ Outputs(n, Advance(n, Append1(node[n], p.cmd)), q2)
         /\ chain' = [chain EXCEPT ![p.term] = Append(@, [term |-> p.term, cmd |-> p.cmd])]
  BY DEF Propose
<1> HIDE DEF p, s2
<1>5. Secure(node[n], queue[n], req[n], prep[n], offers[n])
  BY DEF ArchiveInv
<1>6. /\ queue[n] \in Seq(Item) /\ Waits(queue[n], req[n]) /\ req[n] \in ReqRec
      /\ Asks(node, chain, n, s2, req[n]) /\ p \in Item /\ 1 \in DOMAIN queue[n] /\ p = queue[n][1]
      /\ p.live => \A i \in DOMAIN s2 : ~s2[i].live
  <2>1. queue[n] \in Seq(Item) /\ Waits(queue[n], req[n]) /\ req[n] \in ReqRec
    BY <1>1, <1>2 DEF Asks
  <2> QED BY <1>1, <1>2, <2>1, TailAsks
<1>7. Waits(s2, req[n]) /\ s2 \in Seq(Item)
  BY <1>1, <1>6 DEF Asks
<1>8. Pinned(s2, req[n]) /\ Pinned(queue[n], req[n])
  BY <1>1, <1>5, <1>6, TailPinned DEF Secure
<1>9. queue'[n] = s2 /\ \A v \in Node : v # n => queue'[v] = queue[v]
  BY <1>3, TablesAre
<1>10. CASE /\ req' = IF p.live THEN [req EXCEPT ![n] = Idle] ELSE req
            /\ UNCHANGED node
  <2>1. Idle.lease = {}
    BY DEF Idle
  <2>2. p.live => \A i \in DOMAIN s2 : s2[i].cmd.op # "put"
    BY <1>6, <1>8 DEF Pinned
  <2>3. \A v \in Node : v # n => req'[v] = req[v]
    BY <1>10, TablesAre
  <2>4. req'[n] = IF p.live THEN Idle ELSE req[n]
    BY <1>10, TablesAre
  <2> HIDE DEF Idle
  <2>5. Pinned(s2, req'[n]) /\ req'[n].lease \subseteq req[n].lease
    BY <1>8, <2>1, <2>2, <2>4, WritesNone
  <2>6. Secure(node[n], s2, req'[n], prep[n], offers[n])
    BY <1>5, <2>5 DEF Secure
  <2>7. Secured(n) /\ \A v \in Node : v # n => Left(v)
    BY <1>3, <1>9, <1>10, <2>3, <2>6 DEF Secured, Left, StopsFull
  <2> QED BY <2>7, OneSecured
<1>11. CASE /\ node' = [node EXCEPT ![n] = Stopped(@)] /\ Len(node[n].log) >= MaxEntries
            /\ req' = [req EXCEPT ![n] = Idle]
  <2> DEFINE r == Stopped(node[n])
  <2>1. /\ r.status = "stopped" /\ r.snap = node[n].snap /\ r.log = node[n].log
        /\ r.state = node[n].state /\ r.arch = node[n].arch
    BY <1>2 DEF Stopped, Rec
  <2>2. node'[n] = r /\ req'[n] = Idle /\ \A v \in Node : v # n => node'[v] = node[v] /\ req'[v] = req[v]
    BY <1>11, TablesAre
  <2>3. Idle.lease = {}
    BY DEF Idle
  <2> HIDE DEF r, Idle
  <2>4. Keeps(r)
    BY <1>5, <2>1 DEF Secure, Keeps
  <2>5. Secure(r, s2, Idle, prep[n], offers[n]) /\ StopsFull(node[n], r)
    BY <1>5, <1>11, <2>1, <2>3, <2>4 DEF Secure, StopsFull
  <2>6. Secured(n) /\ \A v \in Node : v # n => Left(v)
    BY <1>3, <1>9, <2>2, <2>5 DEF Secured, Left
  <2> QED BY <2>6, OneSecured
<1>12. CASE /\ node[n].leads /\ node[n].term = p.term /\ ~(Len(node[n].log) >= MaxEntries)
            /\ Outputs(n, Advance(n, Append1(node[n], p.cmd)), q2)
            /\ chain' = [chain EXCEPT ![p.term] = Append(@, [term |-> p.term, cmd |-> p.cmd])]
  <2> DEFINE r == Advance(n, Append1(node[n], p.cmd))
  <2>1. Proposes(n, p.cmd, p.term, node', chain')
    <3>1. Len(node[n].log) < MaxEntries
      <4>1. Len(node[n].log) \in Nat
        BY <1>2 DEF Rec, LogRec
      <4> QED BY <1>12, <4>1, ReplicaAssumption
    <3>2. Leads(n) /\ p.cmd \in Command
      BY <1>1, <1>6, <1>12 DEF Leads, Item
    <3>3. last_log_index(node[n]) <= MaxIndex
      <4>1. Bounded(node[n], queue[n], req[n]) /\ Len(queue[n]) \in Nat /\ DOMAIN queue[n] = 1 .. Len(queue[n])
        BY <1>2, AsksParts
      <4>2. last_log_index(node[n]) + Len(queue[n]) <= MaxIndex + 1
        BY <1>6, <1>12, <4>1 DEF Bounded
      <4>3. last_log_index(node[n]) \in Nat /\ MaxIndex \in Nat /\ Len(queue[n]) >= 1
        BY <1>2, <1>6, <4>1, RecLog, ReplicaAssumption
      <4> QED BY <4>1, <4>2, <4>3
    <3> QED BY <1>12, <3>1, <3>2, <3>3 DEF Proposes, Outputs
  <2>2. ProposeDone(n, p.cmd, p.term, node', chain')
    BY <1>2, <2>1, ProposeSettles
  <2>3. r \in Rec /\ Cursors(r) /\ node[n].commit <= node'[n].commit
    BY <2>2 DEF ProposeDone, Tells
  <2>4. p.cmd \in Command /\ command_heads(p.cmd) \subseteq node[n].arch
    BY <1>5, <1>6, <1>8 DEF Pinned, Secure, command_heads, Item
  <2>5. Keeps(r) /\ r.arch = node[n].arch /\ r.status = "up"
    BY <1>1, <1>2, <1>5, <2>4, LogKeeps DEF Secure
  <2>6. q2 \in ReqRec /\ q2.lease = req[n].lease /\ Waits(s2, q2) /\ Pinned(s2, q2)
    <3>1. CASE ~p.live
      BY <1>6, <1>7, <1>8, <3>1
    <3>2. CASE p.live
      <4> DEFINE k == last_log_index(node[n]) + 1
                 c == IF p.cmd = Barrier THEN "logged_barrier" ELSE "logged"
      <4>1. k \in Index
        <5>1. last_log_index(node[n]) \in Nat /\ last_log_index(node[n]) <= MaxIndex /\ MaxIndex \in Nat
          BY <1>2, <2>1, RecLog, ReplicaAssumption DEF Proposes
        <5>2. MaxTerm \in Nat /\ MaxTerm >= 1
          <6>1. node[n].term # 0 /\ node[n].term \in Term
            BY <1>2, <1>12, RecLog DEF Sound, Raft, LeaderOK
          <6> QED BY <6>1, ReplicaAssumption DEF Term
        <5> QED BY <5>1, <5>2, IndexNat
      <4>2. q2 = [req[n] EXCEPT !.pc = c, !.index = k]
        BY <3>2
      <4>3. c \in {"logged_barrier", "logged"}
        OBVIOUS
      <4> HIDE DEF q2, c, k
      <4>4. q2 \in ReqRec /\ q2.lease = req[n].lease
        BY <1>6, <4>1, <4>2, <4>3 DEF ReqRec
      <4>5. \A i \in DOMAIN s2 : ~s2[i].live
        BY <1>6, <3>2
      <4>6. Waits(s2, q2) /\ Pinned(s2, q2)
        BY <1>8, <4>5 DEF Waits, Pinned
      <4> QED BY <4>4, <4>6
    <3> QED BY <3>1, <3>2
  <2> HIDE DEF r, q2
  <2>7. Engine(n, r, q2, s2, prep[n])
    BY <1>5, <1>12, <2>3, <2>5, <2>6 DEF Engine, Secure, r
  <2>8. Secured(n) /\ \A v \in Node : v # n => Left(v)
    BY <1>3, <1>5, <1>9, <2>7, EngineSecure DEF Secured, Left
  <2> QED BY <2>8, OneSecured
<1> QED BY <1>4, <1>10, <1>11, <1>12

(* An election: the voters follow the new leader, which logs its barrier.  *)
LEMMA VoterSecured ==
    ASSUME ReplicaInv, ArchiveInv, NEW v \in Node, Up(v), NEW t \in Term,
           node'[v] = Settled(v, Follow(node[v], t)),
           req'[v] = req[v] \/ (req'[v] = Idle /\ req[v].pc \in {"logged_barrier", "logged"}),
           queue' = queue, prep' = prep, offers' = offers
    PROVE  Secured(v)
<1> DEFINE f == Follow(node[v], t)
<1>1. /\ Good(node, chain, sent) /\ node[v] \in Rec /\ Asks(node, chain, v, queue[v], req[v])
      /\ node[v].status = "up"
  BY InvParts DEF Up
<1>2. Secure(node[v], queue[v], req[v], prep[v], offers[v])
  BY DEF ArchiveInv
<1>3. f \in Rec /\ f.commit = node[v].commit /\ f.commit \in Nat /\ f.status = "up"
  BY <1>1, FollowSound
<1>4. Tells(v, f, [node EXCEPT ![v] = Settled(v, f)], chain)
  BY <1>1, FollowSettles
<1>5. f.arch = node[v].arch /\ Keeps(f)
  BY <1>1, <1>2, FollowIs, FollowKeeps DEF Secure
<1> HIDE DEF f
<1>6. Cursors(f) /\ node[v].commit <= f.commit
  BY <1>3, <1>4 DEF Tells
<1>7. /\ Keeps(Settled(v, f)) /\ Settled(v, f).status = "up"
      /\ \A L : L \subseteq Leases(v) /\ L \subseteq f.arch => L \subseteq Settled(v, f).arch
  BY <1>1, <1>3, <1>5, <1>6, KeepSettles
<1>8. Leases(v) \subseteq f.arch
  BY <1>2, <1>5, LeasesAre DEF Secure
<1>9. Leases(v) \subseteq node'[v].arch /\ Keeps(node'[v]) /\ node'[v].status = "up"
  BY <1>7, <1>8 DEF f
<1>10. req'[v].lease \subseteq req[v].lease /\ Pinned(queue[v], req'[v])
  <2>1. CASE req'[v] = req[v]
    BY <1>1, <1>2, <2>1 DEF Secure
  <2>2. CASE req'[v] = Idle /\ req[v].pc \in {"logged_barrier", "logged"}
    <3>1. Idle.lease = {}
      BY DEF Idle
    <3>2. Waits(queue[v], req[v]) /\ Pinned(queue[v], req[v])
      BY <1>1, <1>2 DEF Asks, Secure
    <3>3. \A i \in DOMAIN queue[v] : queue[v][i].cmd.op # "put"
      BY <2>2, <3>2, NoWrites
    <3> QED BY <2>2, <3>1, <3>3, WritesNone
  <2> QED BY <2>1, <2>2
<1>11. /\ req[v].lease \subseteq node'[v].arch /\ \A x \in prep[v] : x.held \subseteq node'[v].arch
       /\ \A p \in Node : offers[v][p] # NoOffer =>
             retained_heads(offers[v][p].snap.state) \subseteq node'[v].arch
  BY <1>9, LeasesAre
<1> QED BY <1>2, <1>9, <1>10, <1>11 DEF Secured, Secure, StopsFull

LEMMA ElectSecured ==
    ASSUME ReplicaInv, ArchiveInv, NEW q \in Majority, NEW n \in q, Elect(n, q)
    PROVE  \A v \in Node : Secured(v)
<1> DEFINE t == Max({ node[v].term : v \in q }) + 1
           r == [node[n] EXCEPT !.term = t, !.leads = TRUE]
           led == Advance(n, Append1(r, Barrier))
<1>1. /\ Good(node, chain, sent) /\ node \in [Node -> Rec]
      /\ \A v \in Node : Asks(node, chain, v, queue[v], req[v]) /\ node[v] \in Rec
  BY InvParts
<1>2. /\ \A v \in q : Up(v) /\ UpToDate(node[n], node[v])
      /\ \A v \in q : node[v].term < MaxTerm
      /\ ElectsIn(q, n, t, r, node', chain')
      /\ req' = [v \in Node |->
                   IF v \in q \ {n} /\ req[v].pc \in {"logged_barrier", "logged"}
                   THEN Idle ELSE req[v]]
      /\ UNCHANGED <<queue, prep, offers>>
  BY DEF Elect, ElectsIn
<1>3. /\ t \in Term /\ t # 0 /\ \A v \in q : t > node[v].term
      /\ q \in Quorum /\ q \subseteq Voter /\ q \subseteq Node
  BY <1>1, <1>2, ElectTerm
<1> HIDE DEF t, Idle
<1>4. /\ r \in Rec /\ r.snap = node[n].snap /\ r.log = node[n].log /\ r.state = node[n].state
      /\ r.arch = node[n].arch /\ r.status = node[n].status /\ r.commit = node[n].commit
  <2>1. node[n] \in Rec
    BY <1>1, <1>3
  <2> QED BY <1>3, <2>1 DEF Rec
<1> HIDE DEF r
<1>5. ElectDone(q, n, t, r, node', chain')
  BY <1>1, <1>2, <1>3, ElectSettles
<1>6. /\ node'[n] = IF Len(r.log) >= MaxEntries THEN Stopped(r) ELSE Settled(n, led)
      /\ \A v \in Node : v # n => node'[v] = IF v \in q THEN Settled(v, Follow(node[v], t)) ELSE node[v]
  <2> HIDE DEF led
  <2> QED BY <1>2, <1>3 DEF ElectsIn, led
<1>7. ASSUME NEW v \in Node, v # n PROVE Secured(v)
  <2>1. queue' = queue /\ prep' = prep /\ offers' = offers
    BY <1>2
  <2>2. CASE v \in q
    <3>1. req'[v] = req[v] \/ (req'[v] = Idle /\ req[v].pc \in {"logged_barrier", "logged"})
      BY <1>2
    <3>2. node'[v] = Settled(v, Follow(node[v], t)) /\ Up(v)
      BY <1>2, <1>6, <1>7, <2>2
    <3> QED BY <1>3, <2>1, <3>1, <3>2, VoterSecured
  <2>3. CASE v \notin q
    <3>1. Left(v)
      BY <1>2, <1>6, <1>7, <2>1, <2>3 DEF Left
    <3> QED BY <3>1, LeftSecured
  <2> QED BY <2>2, <2>3
<1>8. /\ Secure(node[n], queue[n], req[n], prep[n], offers[n]) /\ n \in Node
      /\ node[n].status = "up" /\ node[n] \in Rec
  BY <1>1, <1>2, <1>3 DEF ArchiveInv, Up
<1>9. req'[n] = req[n] /\ queue'[n] = queue[n] /\ prep'[n] = prep[n] /\ offers'[n] = offers[n]
  BY <1>2, <1>8
<1>10. Keeps(r)
  BY <1>4, <1>8 DEF Secure, Keeps
<1>11. CASE Len(r.log) >= MaxEntries
  <2> DEFINE r2 == Stopped(r)
  <2>1. /\ r2.snap = r.snap /\ r2.log = r.log /\ r2.state = r.state /\ r2.arch = r.arch
        /\ r2.status = "stopped"
    BY <1>4 DEF Stopped, Rec
  <2>2. node'[n] = r2
    BY <1>6, <1>11
  <2> HIDE DEF r2
  <2>3. Keeps(r2)
    BY <1>10, <2>1 DEF Keeps
  <2>4. Secure(r2, queue[n], req[n], prep[n], offers[n])
    BY <1>4, <1>8, <2>1, <2>3 DEF Secure
  <2>5. StopsFull(node[n], r2)
    BY <1>4, <1>11 DEF StopsFull
  <2> QED BY <1>7, <1>8, <1>9, <2>2, <2>4, <2>5 DEF Secured
<1>12. CASE ~(Len(r.log) >= MaxEntries)
  <2>1. Tells(n, led, node', chain') /\ node[n].commit <= node'[n].commit /\ node'[n] = Settled(n, led)
    BY <1>5, <1>6, <1>8, <1>12 DEF ElectDone
  <2>2. Barrier \in Command /\ command_heads(Barrier) \subseteq r.arch
    BY DEF Command, command_heads, Barrier
  <2>3. Keeps(led) /\ led.arch = r.arch /\ led.status = r.status
    BY <1>4, <1>8, <1>10, <2>2, LogKeeps
  <2> HIDE DEF led
  <2>4. led \in Rec /\ Cursors(led)
    BY <2>1 DEF Tells
  <2>5. node[n].commit <= led.commit
    BY <2>1, <2>4, SettledCommit
  <2>6. /\ Keeps(node'[n]) /\ node'[n].status = "up"
        /\ \A L : L \subseteq Leases(n) /\ L \subseteq led.arch => L \subseteq node'[n].arch
    BY <1>4, <1>8, <2>1, <2>3, <2>4, <2>5, KeepSettles
  <2>7. Leases(n) \subseteq led.arch
    BY <1>4, <1>8, <2>3, LeasesAre DEF Secure
  <2>8. Leases(n) \subseteq node'[n].arch
    BY <2>6, <2>7
  <2>9. /\ req[n].lease \subseteq node'[n].arch /\ \A x \in prep[n] : x.held \subseteq node'[n].arch
        /\ \A p \in Node : offers[n][p] # NoOffer =>
              retained_heads(offers[n][p].snap.state) \subseteq node'[n].arch
    BY <1>8, <2>8, LeasesAre
  <2>10. Secure(node'[n], queue[n], req[n], prep[n], offers[n]) /\ StopsFull(node[n], node'[n])
    BY <1>8, <2>6, <2>9 DEF Secure, StopsFull
  <2> QED BY <1>7, <1>9, <2>10 DEF Secured
<1> QED BY <1>11, <1>12

-----------------------------------------------------------------------------
LEMMA NextSecured ==
    ASSUME ReplicaInv, ArchiveInv, ~LateCancel, [Next]_vars
    PROVE  \A v \in Node : Secured(v)
<1> DEFINE Goal == \A v \in Node : Secured(v)
<1>1. ASSUME NEW q \in Majority, NEW n \in q, Elect(n, q) PROVE Goal
  BY <1>1, ElectSecured
<1>2. ASSUME NEW n \in Node, NEW c \in Request, StartRequest(n, c) PROVE Goal
  BY <1>2, StartRequestSecured
<1>3. ASSUME NEW n \in Node, Propose(n) PROVE Goal
  BY <1>3, ProposeSecured
<1>4. ASSUME NEW n \in Node, Ready(n) PROVE Goal
  BY <1>4, ReadySecured
<1>5. ASSUME NEW n \in Node, StageWrite(n) PROVE Goal
  BY <1>5, StageWriteSecured
<1>6. ASSUME NEW n \in Node, Cancel(n) PROVE Goal
  BY <1>6, CancelSecured
<1>7. ASSUME NEW n \in Node, NEW p \in prep[n], NEW h \in p.todo, StageNext(n, p, h) PROVE Goal
  BY <1>7, StageNextSecured
<1>8. ASSUME NEW n \in Node, NEW p \in prep[n], StageFails(n, p) PROVE Goal
  BY <1>8, StageFailsSecured
<1>9. ASSUME NEW n \in Node, NEW p \in prep[n], Prepared(n, p) PROVE Goal
  BY <1>9, PreparedSecured
<1>10. ASSUME NEW n \in Node, NEW e \in SUBSET Offering(n), Maintain(n, e) PROVE Goal
  BY <1>10, MaintainSecured
<1>11. ASSUME NEW n \in Node, NEW i \in 1 .. last_log_index(node[n]), HearAppended(n, i) PROVE Goal
  BY <1>11, HearAppendedSecured
<1>12. ASSUME NEW n \in Node, Crash(n) PROVE Goal
  BY <1>12, CrashSecured
<1>13. ASSUME NEW n \in Node, Open(n) PROVE Goal
  BY <1>13, OpenSecured
<1>14. ASSUME NEW l \in Node, NEW f \in Node, HearTerm(l, f) PROVE Goal
  BY <1>14, HearTermSecured
<1>15. ASSUME NEW l \in Node, NEW f \in Node, HearInstalled(l, f) PROVE Goal
  BY <1>15, HearInstalledSecured
<1>16. ASSUME NEW l \in Node, NEW f \in Node,
              NEW prev \in node[l].snap.index .. last_log_index(node[l]), Send(l, f, prev)
       PROVE  Goal
  BY <1>16, SendSecured
<1>17. ASSUME NEW l \in Node, NEW f \in Node, Offer(l, f) PROVE Goal
  BY <1>17, OfferSecured
<1>18. ASSUME NEW l \in Node, NEW f \in Node, Transfer(l, f) PROVE Goal
  BY <1>18, TransferSecured
<1>19. ASSUME ReceiveLate PROVE Goal
  BY <1>19, ReceiveLateSecured
<1>20. ASSUME UNCHANGED vars PROVE Goal
  BY <1>20, LeftSecured DEF vars, Left
<1> HIDE DEF Goal
<1>21. Goal
  BY <1>1, <1>2, <1>3, <1>4, <1>5, <1>6, <1>7, <1>8, <1>9, <1>10, <1>11, <1>12, <1>13, <1>14,
     <1>15, <1>16, <1>17, <1>18, <1>19, <1>20 DEF Next
<1> QED BY <1>21 DEF Goal

LEMMA InitArchive == Init => ArchiveInv
<1> SUFFICES ASSUME Init, NEW n \in Node PROVE Secure(node[n], queue[n], req[n], prep[n], offers[n])
  BY DEF ArchiveInv
<1> DEFINE r == node[n]
<1>1. /\ r.log = <<>> /\ r.snap = NoSnapshot /\ r.state = EmptyState /\ r.arch = {}
      /\ queue[n] = <<>> /\ req[n] = Idle /\ prep[n] = {} /\ \A p \in Node : offers[n][p] = NoOffer
  BY DEF Init
<1> HIDE DEF r
<1>2. retained_heads(EmptyState) = {} /\ NoSnapshot.state = EmptyState
  BY DEF retained_heads, EmptyState, EmptySlot, NoSnapshot
<1>3. Keeps(r)
  BY <1>1, <1>2 DEF Keeps, Covers
<1>4. Idle.lease = {} /\ Pinned(<<>>, Idle)
  BY DEF Idle, Pinned
<1>5. Secure(r, queue[n], req[n], prep[n], offers[n])
  BY <1>1, <1>3, <1>4 DEF Secure
<1> QED BY <1>5 DEF r

LEMMA SpecArchive == ASSUME ~LateCancel PROVE Spec => []ArchiveInv
<1>1. Init => ArchiveInv
  BY InitArchive
<1>2. ReplicaInv /\ ArchiveInv /\ [Next]_vars => ArchiveInv'
  <2> SUFFICES ASSUME ReplicaInv, ArchiveInv, [Next]_vars PROVE ArchiveInv'
    OBVIOUS
  <2>1. \A v \in Node : Secured(v)
    BY NextSecured
  <2> QED BY <2>1 DEF Secured, ArchiveInv
<1> QED BY <1>1, <1>2, SpecInv, PTL DEF Spec

LEMMA ArchivedOfInv == ArchiveInv => ReferencesArchived
<1> SUFFICES ASSUME ArchiveInv, NEW n \in Node
             PROVE  References(node[n]) \cup retained_heads(node[n].state) \cup Leases(n) \subseteq node[n].arch
  BY DEF ReferencesArchived
<1>1. Secure(node[n], queue[n], req[n], prep[n], offers[n])
  BY DEF ArchiveInv
<1>2. Leases(n) \subseteq node[n].arch
  BY <1>1, LeasesAre DEF Secure
<1>3. References(node[n]) \cup retained_heads(node[n].state) \subseteq node[n].arch
  BY <1>1, KeepsRefers DEF Secure
<1> QED BY <1>2, <1>3

(* The bound of a log.                                                     *)
LEMMA LogBound ==
    ASSUME ReplicaInv, NEW n \in Node
    PROVE  Len(node[n].log) \in Nat /\ Len(node[n].log) <= MaxIndex + MaxTerm
<1> DEFINE r == node[n]
<1>1. ChainOK(chain) /\ Raft(node, chain, sent) /\ r \in Rec
  BY InvParts
<1>2. PICK t \in Term : t <= r.term /\ Along(chain, r, t)
  BY <1>1 DEF Raft, Placed
<1> HIDE DEF r
<1>3. /\ r.snap.index \in Nat /\ last_log_index(r) = r.snap.index + Len(r.log) /\ Len(r.log) \in Nat
  BY <1>1, RecLog, LogLen
<1>4. last_log_index(r) <= Len(chain[t]) /\ Len(chain[t]) <= MaxIndex + t /\ Len(chain[t]) \in Nat
  BY <1>1, <1>2, ChainLen DEF Along, ChainOK
<1>5. t \in Nat /\ t <= MaxTerm /\ MaxTerm \in Nat /\ MaxIndex \in Nat
  BY TermNat, ReplicaAssumption
<1>6. Len(r.log) \in Nat /\ Len(r.log) <= MaxIndex + MaxTerm
  BY <1>3, <1>4, <1>5
<1> QED BY <1>6 DEF r

(* A step stops a member only if its log is full.                          *)
StopsOnlyFull ==
    \A n \in Node : node[n].status # "stopped" /\ node'[n].status = "stopped" =>
        Len(node[n].log) >= MaxEntries

-----------------------------------------------------------------------------
(* A member never loses a generation that its log, its snapshot, its room  *)
(* state, an offer or a lease refers to, whatever crashes, elections,      *)
(* delayed messages, snapshots, collections and cancelled requests happen  *)
(* (archive.rs:1, mod.rs collect), as long as no caller goes away between  *)
(* the queueing of its write and the proposal.                             *)
THEOREM ArchivesKept ==
    ASSUME ~LateCancel
    PROVE  Spec => []ReferencesArchived
  BY SpecArchive, ArchivedOfInv, PTL

(* Under the same condition no step but that of a leader whose log is full *)
(* stops a member: fail() is never reached by way of a missing generation, *)
(* whether outputs applies, a member reopens or a snapshot is installed.   *)
THEOREM OnlyFullLogsStop ==
    ASSUME ~LateCancel
    PROVE  Spec => [][StopsOnlyFull]_vars
<1>1. ReplicaInv /\ ArchiveInv /\ [Next]_vars => [StopsOnlyFull]_vars
  <2> SUFFICES ASSUME ReplicaInv, ArchiveInv, [Next]_vars PROVE StopsOnlyFull
    OBVIOUS
  <2>1. \A v \in Node : Secured(v)
    BY NextSecured
  <2> QED BY <2>1 DEF Secured, StopsFull, StopsOnlyFull
<1> QED BY <1>1, SpecInv, SpecArchive, PTL DEF Spec

(* A room whose proposals and elections cannot fill a log, as in every     *)
(* run, never stops a member whose disk works.                             *)
THEOREM MembersGoOn ==
    ASSUME ~LateCancel, MaxIndex + MaxTerm < MaxEntries
    PROVE  Spec => []NeverStops
<1>1. Init => NeverStops
  BY DEF Init, NeverStops
<1>2. ReplicaInv /\ ArchiveInv /\ NeverStops /\ [Next]_vars => NeverStops'
  <2> SUFFICES ASSUME ReplicaInv, ArchiveInv, NeverStops, [Next]_vars, NEW n \in Node
               PROVE  node'[n].status # "stopped"
    BY DEF NeverStops
  <2>1. Secured(n) /\ node[n].status # "stopped"
    BY NextSecured DEF NeverStops
  <2>2. Len(node[n].log) \in Nat /\ Len(node[n].log) <= MaxIndex + MaxTerm
    BY LogBound
  <2>3. ~(Len(node[n].log) >= MaxEntries)
    BY <2>2, ReplicaAssumption
  <2> QED BY <2>1, <2>3 DEF Secured, StopsFull
<1> QED BY <1>1, <1>2, SpecInv, SpecArchive, PTL DEF Spec

-----------------------------------------------------------------------------
(* Logged writes are accepted.                                             *)

(* Command c is accepted by a room with log s, under the configured quota. *)
Fitting(s, c) == apply(Replay(EmptyState, s), c, MaxSlots).reply # "error"

(* Every entry of s is accepted after those before it.                     *)
Accepting(s) == \A i \in 1 .. Len(s) : Fitting(SubSeq(s, 1, i - 1), s[i].cmd)

(* Only the oldest proposal of queue s may be a write, only the last one   *)
(* may have a request waiting for it, and a request that is past its       *)
(* barrier proposed all that was queued.                                   *)
InLine(s, q) ==
    /\ \A i \in DOMAIN s : (i > 1 => s[i].cmd = Barrier) /\ (s[i].live => i = Len(s))
    /\ q.pc \in {"logged_barrier", "ready", "stage", "logged"} => s = <<>>

(* A leader's log has nothing after the barrier of its request, so that    *)
(* the write it previewed there fits when it is proposed.                  *)
Previewed(r, ch, s, q) ==
    r.leads =>
        /\ s # <<>> /\ s[1].term = r.term => Fitting(ch[r.term], s[1].cmd)
        /\ q.term = r.term /\ q.pc = "logged_barrier" => q.index = Len(ch[r.term])
        /\ q.term = r.term /\ q.pc = "ready" => r.commit = Len(ch[r.term])
        /\ q.term = r.term /\ q.pc = "stage" => Fitting(ch[r.term], q.cmd)

Lined(r, ch, s, q) == r.status = "up" => InLine(s, q) /\ Previewed(r, ch, s, q)

AcceptInv ==
    /\ \A t \in Term : Accepting(chain[t])
    /\ \A n \in Node : Lined(node[n], chain, queue[n], req[n])

LEMMA BarrierFits ==
    ASSUME NEW s
    PROVE  Fitting(s, Barrier)
  BY DEF Fitting, apply, Barrier, Result

LEMMA AcceptingPrefix ==
    ASSUME NEW s \in Seq(Entry), Accepting(s), NEW l \in Nat, l <= Len(s)
    PROVE  Accepting(SubSeq(s, 1, l)) /\ SubSeq(s, 1, l) \in Seq(Entry) /\ Len(SubSeq(s, 1, l)) = l
<1> DEFINE a == SubSeq(s, 1, l)
<1>1. a \in Seq(Entry) /\ Len(a) = l /\ \A i \in 1 .. l : a[i] = s[i]
  BY Prefix
<1> HIDE DEF a
<1>2. ASSUME NEW i \in 1 .. Len(a) PROVE Fitting(SubSeq(a, 1, i - 1), a[i].cmd)
  <2>1. /\ i - 1 \in Nat /\ i - 1 <= Len(a) /\ i - 1 <= Len(s) /\ i \in 1 .. Len(s) /\ i \in 1 .. l
        /\ \A j \in 1 .. i - 1 : j \in 1 .. l
    BY <1>1
  <2>2. \A j \in 1 .. i - 1 : a[j] = s[j]
    BY <1>1, <2>1
  <2>3. SubSeq(a, 1, i - 1) = SubSeq(s, 1, i - 1)
    BY <1>1, <2>1, <2>2, PrefixSame
  <2> QED BY <1>1, <2>1, <2>3 DEF Accepting
<1> QED BY <1>1, <1>2 DEF Accepting, a

LEMMA AcceptingAppend ==
    ASSUME NEW s \in Seq(Entry), Accepting(s), NEW e \in Entry, Fitting(s, e.cmd)
    PROVE  Accepting(Append(s, e))
<1> DEFINE a == Append(s, e)
<1>1. /\ a \in Seq(Entry) /\ Len(a) = Len(s) + 1 /\ Len(s) \in Nat
      /\ (\A i \in 1 .. Len(s) : a[i] = s[i]) /\ a[Len(s) + 1] = e
  BY AppendOf
<1> HIDE DEF a
<1>2. ASSUME NEW i \in 1 .. Len(a) PROVE Fitting(SubSeq(a, 1, i - 1), a[i].cmd)
  <2>1. /\ i - 1 \in Nat /\ i - 1 <= Len(a) /\ i - 1 <= Len(s)
        /\ \A j \in 1 .. i - 1 : j \in 1 .. Len(s)
    BY <1>1
  <2>2. SubSeq(a, 1, i - 1) = SubSeq(s, 1, i - 1)
    BY <1>1, <2>1, PrefixSame
  <2>3. CASE i \in 1 .. Len(s)
    BY <1>1, <2>2, <2>3 DEF Accepting
  <2>4. CASE i \notin 1 .. Len(s)
    <3>1. i - 1 = Len(s) /\ i = Len(s) + 1
      BY <1>1, <2>4
    <3>2. SubSeq(s, 1, Len(s)) = s
      OBVIOUS
    <3> QED BY <1>1, <2>2, <3>1, <3>2
  <2> QED BY <2>3, <2>4
<1> QED BY <1>2 DEF Accepting, a

-----------------------------------------------------------------------------
(* Members move on.                                                        *)

(* Request q goes on as q2 on a member that has committed up to c.         *)
Proceeds(q, q2, c) ==
    \/ q2 = q
    \/ q2.pc = "idle"
    \/ q.pc = "logged_barrier" /\ q2.pc = "ready" /\ q2.term = q.term /\ q.index <= c

LEMMA LinedOn ==
    ASSUME NEW r \in Rec, NEW r2 \in Rec, Cursors(r2), NEW ch, ChainOK(ch), r.commit <= r2.commit,
           r2.leads => r.leads /\ r2.term = r.term /\ last_log_index(r2) = Len(ch[r2.term]),
           r2.status = "up" => r.status = "up",
           NEW s, NEW q, NEW q2, Lined(r, ch, s, q), Proceeds(q, q2, r2.commit)
    PROVE  Lined(r2, ch, s, q2)
<1> SUFFICES ASSUME r2.status = "up" PROVE InLine(s, q2) /\ Previewed(r2, ch, s, q2)
  BY DEF Lined
<1>1. InLine(s, q) /\ Previewed(r, ch, s, q)
  BY DEF Lined
<1>2. InLine(s, q2)
  BY <1>1 DEF InLine, Proceeds
<1>3. Previewed(r2, ch, s, q2)
  <2> SUFFICES ASSUME r2.leads PROVE Previewed(r2, ch, s, q2)
    BY DEF Previewed
  <2>1. r.leads /\ r2.term = r.term /\ r.commit <= r2.commit /\ r2.commit <= last_log_index(r2)
        /\ last_log_index(r2) = Len(ch[r2.term])
    BY DEF Cursors
  <2>2. r.commit \in Nat /\ r2.commit \in Nat /\ Len(ch[r.term]) \in Nat
    BY RecLog, ChainLen
  <2>3. q2.term = r.term /\ q2.pc = "ready" => Len(ch[r.term]) <= r2.commit
    BY <1>1, <2>1, <2>2 DEF Previewed, Proceeds
  <2>4. q2.term = r.term /\ q2.pc = "ready" => r2.commit = Len(ch[r.term])
    BY <2>1, <2>2, <2>3
  <2> QED BY <1>1, <2>1, <2>4 DEF Previewed, Proceeds
<1> QED BY <1>2, <1>3

LEMMA OutputsProceed ==
    ASSUME ReplicaInv, NEW n \in Node, NEW r, NEW q, Outputs(n, r, q), q \in ReqRec,
           r.commit <= node'[n].commit, r.commit \in Nat, node'[n].commit \in Nat
    PROVE  Proceeds(q, req'[n], node'[n].commit) /\ \A v \in Node : v # n => req'[v] = req[v]
<1>1. /\ DOMAIN req = Node
  BY TablesAre
<1>2. /\ req'[n] = CASE Missing(n, r) -> Idle
                    [] ~Missing(n, r) /\ Answered(r, q) ->
                           IF q.pc = "logged" THEN Idle ELSE [q EXCEPT !.pc = "ready"]
                    [] OTHER ->
                           IF ~r.leads /\ q.pc \in {"logged_barrier", "logged"}
                           THEN Idle ELSE q
      /\ \A v \in Node : v # n => req'[v] = req[v]
  BY <1>1 DEF Outputs
<1>3. \/ req'[n] = Idle \/ req'[n] = q
      \/ req'[n] = [q EXCEPT !.pc = "ready"] /\ Answered(r, q) /\ q.pc # "logged"
  <2> HIDE DEF Idle, Missing, Answered
  <2> QED BY <1>2, Zenon
<1>4. Idle.pc = "idle"
  BY DEF Idle
<1>5. ASSUME req'[n] = [q EXCEPT !.pc = "ready"], Answered(r, q), q.pc # "logged"
      PROVE  Proceeds(q, req'[n], node'[n].commit)
  <2>1. q.pc = "logged_barrier" /\ q.index <= r.commit
    BY <1>5 DEF Answered
  <2>2. q.index \in Nat
    BY ReqType
  <2>3. q.index <= node'[n].commit
    BY <2>1, <2>2
  <2>4. req'[n].pc = "ready" /\ req'[n].term = q.term
    BY <1>5 DEF ReqRec
  <2> QED BY <2>1, <2>3, <2>4 DEF Proceeds
<1> QED BY <1>2, <1>3, <1>4, <1>5 DEF Proceeds

(* The members outside M go on, as those of M do by their own account.     *)
LEMMA OthersLined ==
    ASSUME ReplicaInv, AcceptInv, chain' = chain, NEW sn, Good(node', chain, sn), NEW M,
           \A v \in Node \ M : /\ Onward(node[v], node'[v]) /\ queue'[v] = queue[v]
                                /\ Proceeds(req[v], req'[v], node'[v].commit),
           \A v \in M : Lined(node'[v], chain, queue'[v], req'[v])
    PROVE  AcceptInv'
<1>1. ASSUME NEW v \in Node \ M PROVE Lined(node'[v], chain, queue'[v], req'[v])
  <2>1. /\ node[v] \in Rec /\ node'[v] \in Rec /\ ChainOK(chain) /\ Sound(node', chain, sn)
    BY InvParts, GoodParts DEF Good
  <2>2. Cursors(node'[v]) /\ (node'[v].leads => last_log_index(node'[v]) = Len(chain[node'[v].term]))
    BY <2>1 DEF Sound, Raft, LeaderOK
  <2>3. Lined(node[v], chain, queue[v], req[v])
    BY DEF AcceptInv
  <2>4. queue'[v] = queue[v] /\ Proceeds(req[v], req'[v], node'[v].commit) /\ Onward(node[v], node'[v])
    BY <1>1
  <2>5. Lined(node'[v], chain, queue[v], req'[v])
    BY <2>1, <2>2, <2>3, <2>4, LinedOn DEF Onward
  <2> QED BY <2>4, <2>5
<1>2. \A v \in Node : Lined(node'[v], chain', queue'[v], req'[v])
  BY <1>1
<1>3. \A t \in Term : Accepting(chain'[t])
  BY DEF AcceptInv
<1> QED BY <1>2, <1>3 DEF AcceptInv

(* Engine steps of members with requests they did not touch.               *)
LEMMA EngineLined ==
    ASSUME ReplicaInv, AcceptInv, NEW n \in Node, NEW r, Outputs(n, r, req[n]), NEW sn,
           Steady(node', sn), Tells(n, r, node', chain), UNCHANGED <<queue, chain>>
    PROVE  AcceptInv'
<1>1. Good(node', chain, sn) /\ \A v \in Node : Onward(node[v], node'[v])
  BY DEF Steady
<1>2. req[n] \in ReqRec /\ Lined(node[n], chain, queue[n], req[n])
  BY InvParts DEF Asks, AcceptInv
<1>3. r.commit <= node'[n].commit /\ r.commit \in Nat /\ node'[n].commit \in Nat
  BY <1>1, GoodParts, RecLog DEF Tells
<1>4. \A v \in Node : Proceeds(req[v], req'[v], node'[v].commit)
  BY <1>2, <1>3, OutputsProceed DEF Proceeds
<1> DEFINE M == {}
<1>5. \A v \in Node \ M : queue'[v] = queue[v]
  OBVIOUS
<1>6. \A v \in M : Lined(node'[v], chain, queue'[v], req'[v])
  OBVIOUS
<1> HIDE DEF M
<1> QED BY <1>1, <1>4, <1>5, <1>6, OthersLined

(* Members move, and nothing else does.                                    *)
LEMMA SteadyLined ==
    ASSUME ReplicaInv, AcceptInv, NEW sn, Steady(node', sn), UNCHANGED <<queue, req, chain>>
    PROVE  AcceptInv'
<1>1. Good(node', chain, sn) /\ \A v \in Node : Onward(node[v], node'[v])
  BY DEF Steady
<1> DEFINE M == {}
<1>2. \A v \in Node : queue'[v] = queue[v] /\ Proceeds(req[v], req'[v], node'[v].commit)
  BY DEF Proceeds
<1>3. \A v \in M : Lined(node'[v], chain, queue'[v], req'[v])
  OBVIOUS
<1> HIDE DEF M
<1> QED BY <1>1, <1>2, <1>3, OthersLined

-----------------------------------------------------------------------------
(* The actions of the engine.                                              *)

LEMMA HearTermLined ==
    ASSUME ReplicaInv, AcceptInv, NEW n \in Node, NEW m \in Node, HearTerm(n, m)
    PROVE  AcceptInv'
<1>1. /\ Up(n) /\ Outputs(n, Follow(node[n], node[m].term), req[n]) /\ UNCHANGED <<queue, chain>>
  BY DEF HearTerm
<1>2. node[m].term \in Term /\ Good(node, chain, sent)
  BY InvParts, RecLog
<1>3. node' = [node EXCEPT ![n] = Settled(n, Follow(node[n], node[m].term))]
  BY <1>1 DEF Outputs
<1>4. Steady(node', sent) /\ Tells(n, Follow(node[n], node[m].term), node', chain)
  BY <1>1, <1>2, <1>3, FollowSettles
<1> QED BY <1>1, <1>4, EngineLined

LEMMA HearAppendedLined ==
    ASSUME ReplicaInv, AcceptInv, NEW l \in Node, NEW i \in 1 .. last_log_index(node[l]),
           HearAppended(l, i)
    PROVE  AcceptInv'
<1> DEFINE r == [node[l] EXCEPT !.commit = i]
<1>1. /\ Leads(l) /\ i > node[l].commit /\ Commits(l, i) /\ Outputs(l, r, req[l])
      /\ UNCHANGED <<queue, chain>>
  BY DEF HearAppended
<1>2. /\ i \in Nat /\ i <= last_log_index(node[l]) /\ Good(node, chain, sent)
  <2>1. last_log_index(node[l]) \in Nat
    BY InvParts, RecLog
  <2> QED BY <2>1, InvParts
<1>3. node' = [node EXCEPT ![l] = Settled(l, r)]
  BY <1>1 DEF Outputs
<1>4. Steady(node', sent) /\ Tells(l, r, node', chain)
  BY <1>1, <1>2, <1>3, CommitSettles
<1> HIDE DEF r
<1> QED BY <1>1, <1>4, EngineLined

LEMMA AppendLined ==
    ASSUME ReplicaInv, AcceptInv, NEW f \in Node, Up(f), NEW m \in AppendRec, Fits(node, chain, m),
           m.term >= node[f].term, AppendEvent(f, m), UNCHANGED <<queue, chain>>
    PROVE  AcceptInv'
<1>1. /\ Outputs(f, AppendStep(node[f], m), req[f])
      /\ sent' = IF Appends(Follow(node[f], m.term), m)
                 THEN [sent EXCEPT ![f].append = [term |-> m.term, index |-> Matched(f, m)]]
                 ELSE sent
  BY DEF AppendEvent
<1>2. AppendTyped(m) /\ AppendFits(node, chain, m)
  BY DEF AppendRec, AppendTyped, Fits
<1>3. /\ Good(node, chain, sent) /\ sent \in SentSet
  BY InvParts
<1>4. node' = [node EXCEPT ![f] = Settled(f, AppendStep(node[f], m))]
  BY <1>1 DEF Outputs
<1>5. Steady(node', sent') /\ Tells(f, AppendStep(node[f], m), node', chain)
  BY <1>1, <1>2, <1>3, <1>4, AppendSettles
<1> QED BY <1>1, <1>5, EngineLined

LEMMA SameLined ==
    ASSUME AcceptInv, UNCHANGED <<node, req, queue, chain>>
    PROVE  AcceptInv'
  BY DEF AcceptInv

LEMMA ReceiveLined ==
    ASSUME ReplicaInv, AcceptInv, NEW f \in Node, NEW m \in AppendRec, Fits(node, chain, m),
           Receive(f, m), UNCHANGED <<queue, chain>>
    PROVE  AcceptInv'
<1>1. Up(f)
  BY DEF Receive
<1>2. CASE m.term < node[f].term /\ UNCHANGED <<node, req, ack, sent, prep, preparing>>
  BY <1>2, SameLined
<1>3. CASE m.term >= node[f].term /\ AppendEvent(f, m)
  BY <1>1, <1>3, AppendLined
<1>4. CASE m.term >= node[f].term /\ Outputs(f, Follow(node[f], m.term), req[f]) /\ UNCHANGED sent
  <2>1. m.term \in Term /\ Good(node, chain, sent)
    BY InvParts DEF AppendRec
  <2>2. node' = [node EXCEPT ![f] = Settled(f, Follow(node[f], m.term))]
    BY <1>4 DEF Outputs
  <2>3. Steady(node', sent) /\ Tells(f, Follow(node[f], m.term), node', chain)
    BY <1>1, <2>1, <2>2, FollowSettles
  <2> QED BY <1>4, <2>3, EngineLined
<1> QED BY <1>2, <1>3, <1>4 DEF Receive

LEMMA SendLined ==
    ASSUME ReplicaInv, AcceptInv, NEW l \in Node, NEW f \in Node,
           NEW prev \in node[l].snap.index .. last_log_index(node[l]), Send(l, f, prev)
    PROVE  AcceptInv'
<1> DEFINE m == AppendMsg(l, prev)
<1>1. m \in AppendRec /\ Fits(node, chain, m)
  BY AppendMsgFits DEF Send
<1> HIDE DEF m
<1>2. UNCHANGED <<queue, chain>>
  BY DEF Send
<1>3. CASE Receive(f, m)
  BY <1>1, <1>2, <1>3, ReceiveLined
<1>4. CASE UNCHANGED <<node, req, ack, sent, prep, preparing>>
  BY <1>2, <1>4, SameLined
<1> QED BY <1>3, <1>4 DEF Send, m

LEMMA ReceiveLateLined ==
    ASSUME ReplicaInv, AcceptInv, ReceiveLate
    PROVE  AcceptInv'
<1>1. late # NoMsg /\ Receive(late.to, late.msg) /\ UNCHANGED <<queue, chain>>
  BY DEF ReceiveLate
<1>2. late \in LateRec /\ Fits(node, chain, late.msg)
  BY <1>1, InvParts DEF Carried
<1>3. late.to \in Node /\ late.msg \in AppendRec
  BY <1>2 DEF LateRec
<1> QED BY <1>1, <1>2, <1>3, ReceiveLined

LEMMA PreparedLined ==
    ASSUME ReplicaInv, AcceptInv, NEW f \in Node, NEW p \in prep[f], Prepared(f, p)
    PROVE  AcceptInv'
<1> DEFINE m == p.msg
<1>1. /\ Up(f) /\ UNCHANGED <<queue, chain>>
  BY DEF Prepared
<1>2. /\ m \in AppendRec \cup InstallRec /\ Fits(node, chain, m)
  BY PrepType
<1>3. CASE m.term < node[f].term /\ UNCHANGED <<node, req, ack, sent>>
  BY <1>1, <1>3, SameLined
<1>4. CASE m.term >= node[f].term /\ m.kind = "append" /\ AppendEvent(f, m)
  <2>1. m \in AppendRec
    BY <1>2, <1>4 DEF InstallRec
  <2> HIDE DEF m
  <2> QED BY <1>1, <1>2, <1>4, <2>1, AppendLined
<1>5. CASE /\ m.term >= node[f].term /\ m.kind = "snapshot"
           /\ Outputs(f, InstallStep(node[f], m), req[f])
  <2>1. m \in InstallRec
    BY <1>2, <1>5 DEF AppendRec
  <2> HIDE DEF m
  <2>2. m.term \in Term /\ m.snap \in SnapRec /\ m.snap.index \in Nat /\ m.snap.term \in Term
    BY <2>1 DEF InstallRec, SnapRec
  <2>3. SnapFits(node, chain, m.snap, m.term)
    BY <1>2, <1>5 DEF Fits
  <2>4. Good(node, chain, sent)
    BY InvParts
  <2>5. node' = [node EXCEPT ![f] = Settled(f, InstallStep(node[f], m))]
    BY <1>5 DEF Outputs
  <2>6. Steady(node', sent) /\ Tells(f, InstallStep(node[f], m), node', chain)
    BY <1>1, <1>5, <2>2, <2>3, <2>4, <2>5, InstallSettles
  <2> QED BY <1>1, <1>5, <2>6, EngineLined
<1> QED BY <1>3, <1>4, <1>5 DEF Prepared

LEMMA TransferLined ==
    ASSUME ReplicaInv, AcceptInv, NEW l \in Node, NEW f \in Node, Transfer(l, f)
    PROVE  AcceptInv'
<1> DEFINE x == offers[l][f]
<1>1. /\ Up(f) /\ x # NoOffer /\ Outputs(f, Follow(node[f], x.term), req[f])
      /\ UNCHANGED <<queue, chain>>
  BY DEF Transfer
<1>2. /\ Carried(node, chain, prep, late, offers) /\ Good(node, chain, sent)
  BY InvParts
<1>3. x \in OfferRec
  BY <1>1, <1>2 DEF Carried
<1> HIDE DEF x
<1>4. x.term \in Term
  BY <1>3, OfferType
<1>5. node' = [node EXCEPT ![f] = Settled(f, Follow(node[f], x.term))]
  BY <1>1 DEF Outputs
<1>6. Steady(node', sent) /\ Tells(f, Follow(node[f], x.term), node', chain)
  BY <1>1, <1>2, <1>4, <1>5, FollowSettles
<1> QED BY <1>1, <1>6, EngineLined

(* Steps that change the archive or the status of a member only.           *)
LEMMA StageNextLined ==
    ASSUME ReplicaInv, AcceptInv, NEW f \in Node, NEW p \in prep[f], NEW h \in p.todo,
           StageNext(f, p, h)
    PROVE  AcceptInv'
<1> DEFINE r == [node[f] EXCEPT !.arch = @ \cup {h}]
<1>1. node' = [node EXCEPT ![f] = r] /\ UNCHANGED <<queue, req, chain>>
  <2>1. node \in [Node -> Rec]
    BY InvParts
  <2> QED BY <2>1 DEF StageNext
<1>2. node[f] \in Rec /\ Good(node, chain, sent) /\ h \in Heads
  <2>1. p \in PrepRec
    BY InvParts DEF Carried
  <2> QED BY <2>1, InvParts DEF PrepRec
<1>3. Kept(node[f], r)
  BY <1>2 DEF Kept, Rec
<1> HIDE DEF r
<1>4. Steady(node', sent)
  BY <1>1, <1>2, <1>3, KeptGood
<1> QED BY <1>1, <1>4, SteadyLined

LEMMA MaintainLined ==
    ASSUME ReplicaInv, AcceptInv, NEW n \in Node, NEW expired, Maintain(n, expired)
    PROVE  AcceptInv'
<1> DEFINE kept == [p \in Node |-> IF p \in expired THEN NoOffer ELSE offers[n][p]]
           r == collect(node[n], req[n].lease \cup Held(prep[n]) \cup Offered(kept))
<1>1. /\ node' = [node EXCEPT ![n] = r] /\ UNCHANGED <<queue, req, chain>>
  BY DEF Maintain
<1>2. node[n] \in Rec /\ Good(node, chain, sent)
  BY InvParts
<1>3. Kept(node[n], r)
  <2> DEFINE a == node[n].arch \cap (retained_heads(node[n].state) \cup References(node[n])
                      \cup (req[n].lease \cup Held(prep[n]) \cup Offered(kept)))
  <2>1. r = [node[n] EXCEPT !.arch = a]
    BY DEF collect
  <2>2. a \in SUBSET Heads
    BY <1>2 DEF Rec
  <2> HIDE DEF a, r
  <2> QED BY <1>2, <2>1, <2>2 DEF Kept, Rec
<1> HIDE DEF r
<1>4. Steady(node', sent)
  BY <1>1, <1>2, <1>3, KeptGood
<1> QED BY <1>1, <1>4, SteadyLined

LEMMA OfferLined ==
    ASSUME ReplicaInv, AcceptInv, NEW l \in Node, NEW f \in Node, Offer(l, f)
    PROVE  AcceptInv'
<1>1. /\ node' = node \/ node' = [node EXCEPT ![l] = Stopped(node[l])]
      /\ UNCHANGED <<queue, req, chain>>
  BY DEF Offer
<1>2. node[l] \in Rec /\ Good(node, chain, sent)
  BY InvParts
<1>3. CASE node' = node
  BY <1>1, <1>3, SameLined
<1>4. CASE node' = [node EXCEPT ![l] = Stopped(node[l])]
  <2> DEFINE r == Stopped(node[l])
  <2>1. Kept(node[l], r) /\ node' = [node EXCEPT ![l] = r]
    BY <1>2, <1>4 DEF Kept, Rec, Stopped
  <2> HIDE DEF r
  <2>2. Steady(node', sent)
    BY <1>2, <2>1, KeptGood
  <2> QED BY <1>1, <2>2, SteadyLined
<1> QED BY <1>1, <1>3, <1>4

(* A crash and a reopening leave nothing queued.                           *)
LEMMA ForgetLined ==
    ASSUME ReplicaInv, AcceptInv, NEW n \in Node, Forget(n), chain' = chain, NEW sn,
           Good(node', chain, sn), \A v \in Node : v # n => node'[v] = node[v]
    PROVE  AcceptInv'
<1> DEFINE M == {n}
<1>1. DOMAIN queue = Node /\ DOMAIN req = Node /\ \A v \in Node : node[v] \in Rec
  BY TablesAre
<1>2. /\ queue'[n] = <<>> /\ req'[n] = Idle
      /\ \A v \in Node : v # n => queue'[v] = queue[v] /\ req'[v] = req[v]
  <2> HIDE DEF Idle
  <2> QED BY <1>1 DEF Forget
<1>3. Idle.pc = "idle"
  BY DEF Idle
<1>4. Lined(node'[n], chain, <<>>, Idle)
  BY <1>3 DEF Lined, InLine, Previewed
<1>5. \A v \in Node \ M : /\ Onward(node[v], node'[v]) /\ queue'[v] = queue[v]
                          /\ Proceeds(req[v], req'[v], node'[v].commit)
  BY <1>1, <1>2, OnwardSelf DEF Proceeds
<1>6. \A v \in M : Lined(node'[v], chain, queue'[v], req'[v])
  BY <1>2, <1>4
<1> HIDE DEF M
<1> QED BY <1>5, <1>6, OthersLined

LEMMA CrashLined ==
    ASSUME ReplicaInv, AcceptInv, NEW n \in Node, Crash(n)
    PROVE  AcceptInv'
<1>1. Forget(n) /\ chain' = chain
  BY DEF Crash
<1>2. node \in [Node -> Rec]
  BY InvParts
<1>3. \A v \in Node : v # n => node'[v] = node[v]
  BY <1>2 DEF Crash
<1>4. ReplicaInv'
  BY CrashInv
<1>5. Good(node', chain', sent')
  BY <1>4 DEF ReplicaInv, Served
<1> QED BY <1>1, <1>3, <1>5, ForgetLined

LEMMA OpenLined ==
    ASSUME ReplicaInv, AcceptInv, NEW n \in Node, Open(n)
    PROVE  AcceptInv'
<1>1. Forget(n) /\ chain' = chain
  BY DEF Open
<1>2. node \in [Node -> Rec]
  BY InvParts
<1>3. \A v \in Node : v # n => node'[v] = node[v]
  BY <1>2 DEF Open
<1>4. ReplicaInv'
  BY OpenInv
<1>5. Good(node', chain', sent')
  BY <1>4 DEF ReplicaInv, Served
<1> QED BY <1>1, <1>3, <1>5, ForgetLined

-----------------------------------------------------------------------------
(* Requests on member n.                                                   *)
LEMMA AskLined ==
    ASSUME ReplicaInv, AcceptInv, NEW n \in Node, NEW r, Kept(node[n], r),
           node' = [node EXCEPT ![n] = r], chain' = chain,
           \A v \in Node : v # n => queue'[v] = queue[v] /\ req'[v] = req[v],
           Lined(r, chain, queue'[n], req'[n])
    PROVE  AcceptInv'
<1>1. Good(node, chain, sent) /\ DOMAIN node = Node
  BY InvParts, TablesAre
<1>2. Steady(node', sent)
  BY <1>1, KeptGood
<1>3. Good(node', chain, sent) /\ \A v \in Node : Onward(node[v], node'[v])
  BY <1>2 DEF Steady
<1> DEFINE M == {n}
<1>4. \A v \in Node \ M : /\ Onward(node[v], node'[v]) /\ queue'[v] = queue[v]
                          /\ Proceeds(req[v], req'[v], node'[v].commit)
  BY <1>3 DEF Proceeds
<1>5. \A v \in M : Lined(node'[v], chain, queue'[v], req'[v])
  BY <1>1
<1> HIDE DEF M
<1> QED BY <1>3, <1>4, <1>5, OthersLined

LEMMA StillLined ==
    ASSUME ReplicaInv, AcceptInv, NEW n \in Node, UNCHANGED <<node, chain>>,
           \A v \in Node : v # n => queue'[v] = queue[v] /\ req'[v] = req[v],
           Lined(node[n], chain, queue'[n], req'[n])
    PROVE  AcceptInv'
<1>1. Kept(node[n], node[n]) /\ node \in [Node -> Rec]
  BY InvParts DEF Kept
<1>2. node' = [node EXCEPT ![n] = node[n]]
  BY <1>1
<1> QED BY <1>1, <1>2, AskLined

(* Proposal x is queued after s, in which nobody waits.                    *)
LEMMA QueueLine ==
    ASSUME NEW s \in Seq(Item), NEW q, InLine(s, q), \A i \in DOMAIN s : ~s[i].live, NEW x \in Item,
           x.cmd = Barrier \/ s = <<>>, NEW q2, q2.pc \in {"queued_barrier", "queued"}
    PROVE  /\ InLine(Append(s, x), q2) /\ Append(s, x) # <<>>
           /\ Append(s, x)[1] = IF s = <<>> THEN x ELSE s[1]
<1> DEFINE g == Append(s, x)
<1>1. /\ DOMAIN s = 1 .. Len(s) /\ DOMAIN g = 1 .. (Len(s) + 1) /\ Len(s) \in Nat
      /\ \A i \in 1 .. Len(s) : g[i] = s[i]
      /\ g[Len(s) + 1] = x /\ Len(g) = Len(s) + 1 /\ g \in Seq(Item)
  BY AppendOf
<1>2. s = <<>> <=> Len(s) = 0
  OBVIOUS
<1> HIDE DEF g
<1>3. ASSUME NEW i \in DOMAIN g
      PROVE  (i > 1 => g[i].cmd = Barrier) /\ (g[i].live => i = Len(g))
  <2>1. i \in 1 .. Len(s) \/ i = Len(s) + 1
    BY <1>1
  <2>2. CASE i \in 1 .. Len(s)
    BY <1>1, <2>2 DEF InLine
  <2>3. CASE i = Len(s) + 1
    BY <1>1, <1>2, <2>3
  <2> QED BY <2>1, <2>2, <2>3
<1>4. g # <<>>
  BY <1>1
<1>5. g[1] = IF s = <<>> THEN x ELSE s[1]
  BY <1>1, <1>2
<1>6. InLine(g, q2)
  BY <1>3 DEF InLine
<1> QED BY <1>4, <1>5, <1>6 DEF g

LEMMA StartRequestLined ==
    ASSUME ReplicaInv, AcceptInv, NEW n \in Node, NEW c \in Request, StartRequest(n, c)
    PROVE  AcceptInv'
<1> DEFINE q2 == [Idle EXCEPT !.pc = "queued_barrier", !.cmd = c, !.term = node[n].term,
                              !.floor = ack.index]
           x == [cmd |-> Barrier, term |-> node[n].term, live |-> TRUE]
           s == queue[n]
           s2 == Append(s, x)
<1>1. /\ Leads(n) /\ req[n].pc = "idle" /\ req' = [req EXCEPT ![n] = q2]
      /\ queue' = [queue EXCEPT ![n] = s2] /\ UNCHANGED <<node, chain>>
  BY DEF StartRequest
<1>2. node[n] \in Rec /\ Asks(node, chain, n, s, req[n]) /\ node[n].status = "up"
  BY <1>1, InvParts DEF Leads, Up
<1>3. s \in Seq(Item) /\ Waits(s, req[n])
  BY <1>2 DEF Asks
<1>4. \A i \in DOMAIN s : ~s[i].live
  BY <1>1, <1>3, NoneWaits
<1>5. x \in Item /\ x.cmd = Barrier
  BY <1>2, RecLog DEF Item, Command
<1>6. q2.pc = "queued_barrier"
  BY DEF Idle
<1>7. InLine(s, req[n]) /\ Previewed(node[n], chain, s, req[n])
  BY <1>2 DEF AcceptInv, Lined
<1> HIDE DEF x, q2, s
<1>8. InLine(s2, q2) /\ s2 # <<>> /\ s2[1] = IF s = <<>> THEN x ELSE s[1]
  BY <1>3, <1>4, <1>5, <1>6, <1>7, QueueLine
<1>9. Previewed(node[n], chain, s2, q2)
  BY <1>5, <1>6, <1>7, <1>8, BarrierFits DEF Previewed
<1> HIDE DEF s2
<1>10. /\ req'[n] = q2 /\ queue'[n] = s2
       /\ \A v \in Node : v # n => req'[v] = req[v] /\ queue'[v] = queue[v]
  BY <1>1, TablesAre
<1>11. Lined(node[n], chain, s2, q2)
  BY <1>8, <1>9 DEF Lined
<1> QED BY <1>1, <1>10, <1>11, StillLined

(* A request that ends.                                                    *)
LEMMA EndLined ==
    ASSUME NEW r, NEW ch, NEW s, NEW q, Lined(r, ch, s, q)
    PROVE  Lined(r, ch, s, Idle)
<1>1. Idle.pc = "idle"
  BY DEF Idle
<1> QED BY <1>1 DEF Lined, InLine, Previewed

(* The write that q is about is tried at the end of the leader's log.      *)
LEMMA ReadyFits ==
    ASSUME ReplicaInv, AcceptInv, NEW n \in Node, Up(n), req[n].pc = "ready",
           node[n].leads, node[n].term = req[n].term, NEW c,
           apply(node[n].state, c, MaxSlots).reply # "error"
    PROVE  Fitting(chain[node[n].term], c)
<1> DEFINE r == node[n]
           t == node[n].term
           st == Replay(EmptyState, SubSeq(chain[t], 1, r.commit))
<1>1. /\ r \in Rec /\ Good(node, chain, sent) /\ ChainOK(chain) /\ Sound(node, chain, sent)
      /\ Lined(r, chain, queue[n], req[n]) /\ r.status = "up"
  BY InvParts DEF AcceptInv, Up
<1>2. r.commit = Len(chain[t])
  BY <1>1 DEF Lined, Previewed
<1>3. LeaderOK(node, chain, n) /\ Serves(chain, r) /\ Cursors(r)
  BY <1>1 DEF Good, Sound, Raft
<1>4. Along(chain, r, t) /\ StateFits(chain, r, r.commit) /\ r.commit <= last_log_index(r)
  BY <1>1, <1>3 DEF LeaderOK, Serves, Cursors
<1>5. IsLog(r) /\ r.commit \in Nat /\ t \in Term
  BY <1>1, RecLog
<1>6. StateIs(chain, r.state, r.commit, t)
  <2> HIDE DEF r, t
  <2> QED BY <1>1, <1>4, <1>5, FitsAny
<1>7. r.state = st
  BY <1>6 DEF StateIs
<1>8. SubSeq(chain[t], 1, Len(chain[t])) = chain[t]
  <2>1. chain[t] \in Seq(Entry)
    BY <1>1, <1>5 DEF ChainOK
  <2> QED BY <2>1
<1> QED BY <1>2, <1>7, <1>8 DEF Fitting

LEMMA ReadyLined ==
    ASSUME ReplicaInv, AcceptInv, NEW n \in Node, Ready(n)
    PROVE  AcceptInv'
<1> DEFINE q == req[n]
           x == [cmd |-> q.cmd, term |-> q.term, live |-> TRUE]
           s == queue[n]
           tried == /\ node[n].leads /\ node[n].term = q.term
                    /\ apply(node[n].state, q.cmd, MaxSlots).reply = "ack"
<1>1. /\ Up(n) /\ q.pc = "ready" /\ UNCHANGED <<node, chain>>
      /\ \/ req' = [req EXCEPT ![n] = Idle] /\ queue' = queue
         \/ tried /\ req' = [req EXCEPT ![n] = [q EXCEPT !.pc = "stage"]] /\ queue' = queue
         \/ /\ tried /\ q.cmd.op = "delete" /\ req' = [req EXCEPT ![n] = [q EXCEPT !.pc = "queued"]]
            /\ queue' = [queue EXCEPT ![n] = Append(s, x)]
  BY DEF Ready
<1>2. node[n] \in Rec /\ Asks(node, chain, n, s, q) /\ node[n].status = "up"
  BY <1>1, InvParts DEF Up
<1>3. s \in Seq(Item) /\ q \in ReqRec
  BY <1>2 DEF Asks
<1>4. Lined(node[n], chain, s, q) /\ InLine(s, q) /\ s = <<>>
  BY <1>1, <1>2 DEF AcceptInv, Lined, InLine
<1>5. tried => Fitting(chain[node[n].term], q.cmd)
  <2>1. "ack" # "error"
    OBVIOUS
  <2> QED BY <1>1, <2>1, ReadyFits
<1>6. CASE req' = [req EXCEPT ![n] = Idle] /\ queue' = queue
  <2>1. req'[n] = Idle /\ queue'[n] = s /\ \A v \in Node : v # n => req'[v] = req[v] /\ queue'[v] = queue[v]
    <3> HIDE DEF Idle
    <3> QED BY <1>6, TablesAre
  <2>2. Lined(node[n], chain, s, Idle)
    BY <1>4, EndLined
  <2> HIDE DEF Idle
  <2> QED BY <1>1, <2>1, <2>2, StillLined
<1>7. CASE tried /\ req' = [req EXCEPT ![n] = [q EXCEPT !.pc = "stage"]] /\ queue' = queue
  <2> DEFINE q2 == [q EXCEPT !.pc = "stage"]
  <2>1. q2.pc = "stage" /\ q2.cmd = q.cmd
    BY <1>3 DEF ReqRec
  <2>2. req'[n] = q2 /\ queue'[n] = s /\ \A v \in Node : v # n => req'[v] = req[v] /\ queue'[v] = queue[v]
    BY <1>7, TablesAre
  <2>3. Fitting(chain[node[n].term], q.cmd)
    BY <1>5, <1>7
  <2> HIDE DEF q2, q, s
  <2>4. Lined(node[n], chain, s, q2)
    BY <1>4, <2>1, <2>3 DEF Lined, InLine, Previewed
  <2> QED BY <1>1, <2>2, <2>4, StillLined
<1>8. CASE /\ tried /\ q.cmd.op = "delete" /\ req' = [req EXCEPT ![n] = [q EXCEPT !.pc = "queued"]]
           /\ queue' = [queue EXCEPT ![n] = Append(s, x)]
  <2> DEFINE q2 == [q EXCEPT !.pc = "queued"]
             s2 == Append(s, x)
  <2>1. q2.pc = "queued"
    BY <1>3 DEF ReqRec
  <2>2. x \in Item /\ x.cmd = q.cmd
    BY <1>3, <1>8, RequestCommand, ReqType DEF Item
  <2>3. Fitting(chain[node[n].term], q.cmd)
    BY <1>5, <1>8
  <2>4. req'[n] = q2 /\ queue'[n] = s2 /\ \A v \in Node : v # n => req'[v] = req[v] /\ queue'[v] = queue[v]
    BY <1>8, TablesAre
  <2> HIDE DEF x, q, q2, s
  <2>5. InLine(s, q) /\ (x.cmd = Barrier \/ s = <<>>) /\ \A i \in DOMAIN s : ~s[i].live
    BY <1>4
  <2>6. InLine(s2, q2) /\ s2[1] = IF s = <<>> THEN x ELSE s[1]
    BY <1>3, <2>1, <2>2, <2>5, QueueLine
  <2> HIDE DEF s2
  <2>7. Lined(node[n], chain, s2, q2)
    BY <1>4, <2>1, <2>2, <2>3, <2>6 DEF Lined, Previewed
  <2> QED BY <1>1, <2>4, <2>7, StillLined
<1> QED BY <1>1, <1>6, <1>7, <1>8

LEMMA StageWriteLined ==
    ASSUME ReplicaInv, AcceptInv, NEW n \in Node, StageWrite(n)
    PROVE  AcceptInv'
<1> DEFINE q == req[n]
           h == q.cmd.head
           r == [node[n] EXCEPT !.arch = @ \cup {h}]
           q2 == [q EXCEPT !.pc = "queued", !.lease = {h}]
           x == [cmd |-> q.cmd, term |-> q.term, live |-> TRUE]
           s == queue[n]
           s2 == Append(s, x)
<1>1. /\ Up(n) /\ q.pc = "stage" /\ chain' = chain
      /\ \/ /\ node' = [node EXCEPT ![n] = r] /\ req' = [req EXCEPT ![n] = q2]
            /\ queue' = [queue EXCEPT ![n] = s2]
         \/ req' = [req EXCEPT ![n] = Idle] /\ UNCHANGED <<node, queue>>
  BY DEF StageWrite
<1>2. node[n] \in Rec /\ Asks(node, chain, n, s, q) /\ node[n].status = "up"
  BY <1>1, InvParts DEF Up
<1>3. s \in Seq(Item) /\ q \in ReqRec /\ q.cmd.op = "put"
  BY <1>1, <1>2 DEF Asks
<1>4. Lined(node[n], chain, s, q) /\ InLine(s, q) /\ s = <<>> /\ Previewed(node[n], chain, s, q)
  BY <1>1, <1>2 DEF AcceptInv, Lined, InLine
<1>5. CASE req' = [req EXCEPT ![n] = Idle] /\ UNCHANGED <<node, queue>>
  <2>1. req'[n] = Idle /\ queue'[n] = s /\ \A v \in Node : v # n => req'[v] = req[v] /\ queue'[v] = queue[v]
    <3> HIDE DEF Idle
    <3> QED BY <1>5, TablesAre
  <2>2. Lined(node[n], chain, s, Idle)
    BY <1>4, EndLined
  <2> HIDE DEF Idle
  <2> QED BY <1>1, <1>5, <2>1, <2>2, StillLined
<1>6. CASE /\ node' = [node EXCEPT ![n] = r] /\ req' = [req EXCEPT ![n] = q2]
           /\ queue' = [queue EXCEPT ![n] = s2]
  <2>1. x \in Item /\ x.cmd = q.cmd /\ x.term = q.term /\ h \in Heads
    BY <1>3, RequestCommand, ReqType DEF Item
  <2>2. q2.pc = "queued"
    BY <1>3 DEF ReqRec
  <2>3. Kept(node[n], r)
    <3> HIDE DEF h
    <3> QED BY <1>2, <2>1 DEF Kept, Rec
  <2>4. /\ req'[n] = q2 /\ queue'[n] = s2
        /\ \A v \in Node : v # n => req'[v] = req[v] /\ queue'[v] = queue[v]
    BY <1>6, TablesAre
  <2> HIDE DEF x, q, q2, s, r, h
  <2>5. InLine(s, q) /\ (x.cmd = Barrier \/ s = <<>>) /\ \A i \in DOMAIN s : ~s[i].live
    BY <1>4
  <2>6. InLine(s2, q2) /\ s2[1] = IF s = <<>> THEN x ELSE s[1]
    BY <1>3, <2>1, <2>2, <2>5, QueueLine
  <2> HIDE DEF s2
  <2>7. r.leads /\ q.term = r.term => Fitting(chain[r.term], q.cmd)
    BY <1>1, <1>4, <2>3 DEF Previewed, Kept
  <2>8. Lined(r, chain, s2, q2)
    BY <1>4, <2>1, <2>2, <2>6, <2>7 DEF Lined, Previewed
  <2> QED BY <1>1, <1>6, <2>3, <2>4, <2>8, AskLined
<1> QED BY <1>1, <1>5, <1>6

LEMMA CancelLined ==
    ASSUME ReplicaInv, AcceptInv, NEW n \in Node, Cancel(n)
    PROVE  AcceptInv'
<1> DEFINE s == queue[n]
           s2 == [i \in DOMAIN s |-> [s[i] EXCEPT !.live = FALSE]]
<1>1. /\ Up(n) /\ req' = [req EXCEPT ![n] = Idle] /\ queue' = [queue EXCEPT ![n] = s2]
      /\ UNCHANGED <<node, chain>>
  BY DEF Cancel
<1>2. node[n] \in Rec /\ Asks(node, chain, n, s, req[n]) /\ node[n].status = "up"
  BY <1>1, InvParts DEF Up
<1>3. (\A i \in DOMAIN s : s[i] \in Item) /\ DOMAIN s = 1 .. Len(s) /\ Len(s) \in Nat /\ s \in Seq(Item)
  BY <1>2, AsksParts
<1>4. InLine(s, req[n]) /\ Previewed(node[n], chain, s, req[n])
  BY <1>2 DEF AcceptInv, Lined
<1>5. /\ DOMAIN s2 = DOMAIN s
      /\ \A i \in DOMAIN s : s2[i].cmd = s[i].cmd /\ s2[i].term = s[i].term /\ ~s2[i].live
  <2>1. \A y \in Item : /\ [y EXCEPT !.live = FALSE].cmd = y.cmd
                        /\ [y EXCEPT !.live = FALSE].term = y.term
                        /\ ~[y EXCEPT !.live = FALSE].live
    BY DEF Item
  <2> QED BY <1>3, <2>1
<1>6. s2 # <<>> => 1 \in DOMAIN s /\ s # <<>>
  <2>1. s2 \in Seq(Item)
    <3>1. \A y \in Item : [y EXCEPT !.live = FALSE] \in Item
      BY DEF Item
    <3> QED BY <1>3, <3>1
  <2> QED BY <1>3, <1>5, <2>1
<1>7. Idle.pc = "idle"
  BY DEF Idle
<1> HIDE DEF s2, s, Idle
<1>8. InLine(s2, Idle)
  BY <1>4, <1>5, <1>7 DEF InLine
<1>9. Previewed(node[n], chain, s2, Idle)
  BY <1>4, <1>5, <1>6, <1>7 DEF Previewed
<1>10. /\ req'[n] = Idle /\ queue'[n] = s2
       /\ \A v \in Node : v # n => req'[v] = req[v] /\ queue'[v] = queue[v]
  BY <1>1, TablesAre
<1>11. Lined(node[n], chain, s2, Idle)
  BY <1>8, <1>9 DEF Lined
<1> QED BY <1>1, <1>10, <1>11, StillLined

-----------------------------------------------------------------------------
(* Proposals.                                                              *)

(* The queue s has lost its first proposal p: barriers are left.           *)
LEMMA TailLine ==
    ASSUME NEW s \in Seq(Item), NEW p, NEW s2, Taken(s, p, s2), NEW q, InLine(s, q)
    PROVE  /\ \A q2 : q2.pc \notin {"logged_barrier", "ready", "stage", "logged"} => InLine(s2, q2)
           /\ q.pc \notin {"logged_barrier", "ready", "stage", "logged"}
           /\ (p.live => s2 = <<>>) /\ (s2 # <<>> => s2[1].cmd = Barrier)
<1>1. /\ p = s[1] /\ 1 \in DOMAIN s
      /\ s2 \in Seq(Item) /\ Len(s2) = Len(s) - 1 /\ Len(s) \in Nat \ {0}
      /\ DOMAIN s = 1 .. Len(s) /\ DOMAIN s2 = 1 .. (Len(s) - 1)
      /\ \A i \in 1 .. (Len(s) - 1) : s2[i] = s[i + 1]
  BY HeadTailOf DEF Taken
<1>2. ASSUME NEW i \in DOMAIN s2
      PROVE  s2[i].cmd = Barrier /\ (s2[i].live => i = Len(s2))
  <2>1. i + 1 \in DOMAIN s /\ s2[i] = s[i + 1] /\ i + 1 > 1 /\ i \in Nat
    BY <1>1
  <2>2. s[i + 1].cmd = Barrier /\ (s[i + 1].live => i + 1 = Len(s))
    BY <2>1 DEF InLine
  <2> QED BY <1>1, <2>1, <2>2
<1>3. p.live => s2 = <<>>
  <2>1. p.live => Len(s) = 1
    BY <1>1 DEF InLine
  <2>2. Len(s2) = 0 => s2 = <<>>
    BY <1>1
  <2> QED BY <1>1, <2>1, <2>2
<1>4. s2 # <<>> => 1 \in DOMAIN s2
  BY <1>1
<1>5. q.pc \notin {"logged_barrier", "ready", "stage", "logged"}
  BY DEF InLine, Taken
<1> QED BY <1>2, <1>3, <1>4, <1>5 DEF InLine

(* The drive loop logs proposal p, and the request it answers is now q2.    *)
LogsNow(n, p, s2, q2) ==
    /\ q2 = IF p.live
            THEN [req[n] EXCEPT !.pc = IF p.cmd = Barrier THEN "logged_barrier" ELSE "logged",
                                !.index = last_log_index(node[n]) + 1]
            ELSE req[n]
    /\ Outputs(n, Advance(n, Append1(node[n], p.cmd)), q2)
    /\ chain' = [chain EXCEPT ![p.term] = Append(@, [term |-> p.term, cmd |-> p.cmd])]
    /\ queue' = [queue EXCEPT ![n] = s2]

LEMMA LoggedLined ==
    ASSUME ReplicaInv, AcceptInv, NEW n \in Node, Up(n), NEW p, NEW s2, Taken(queue[n], p, s2),
           node[n].leads, node[n].term = p.term, ~(Len(node[n].log) >= MaxEntries),
           NEW q2, LogsNow(n, p, s2, q2)
    PROVE  AcceptInv'
<1> DEFINE r == Advance(n, Append1(node[n], p.cmd))
           t == p.term
           s == queue[n]
           e == [term |-> p.term, cmd |-> p.cmd]
           k == last_log_index(node[n]) + 1
<1>1. /\ node[n] \in Rec /\ Asks(node, chain, n, s, req[n]) /\ Good(node, chain, sent)
      /\ Sound(node, chain, sent) /\ node[n].status = "up" /\ ChainOK(chain)
  BY InvParts DEF Up
<1>2. s \in Seq(Item) /\ req[n] \in ReqRec /\ p \in Item /\ p = s[1] /\ 1 \in DOMAIN s /\ s # <<>>
  <2>1. s \in Seq(Item) /\ req[n] \in ReqRec
    BY <1>1 DEF Asks
  <2> QED BY <2>1, HeadTailOf DEF Taken
<1>3. InLine(s, req[n]) /\ Previewed(node[n], chain, s, req[n])
  BY <1>1 DEF AcceptInv, Lined
<1>4. /\ \A x : x.pc \notin {"logged_barrier", "ready", "stage", "logged"} => InLine(s2, x)
      /\ req[n].pc \notin {"logged_barrier", "ready", "stage", "logged"}
      /\ (p.live => s2 = <<>>) /\ (s2 # <<>> => s2[1].cmd = Barrier)
  <2> HIDE DEF s
  <2> QED BY <1>2, <1>3, TailLine DEF s
<1>5. Proposes(n, p.cmd, t, node', chain')
  <2>1. Len(node[n].log) < MaxEntries
    <3>1. Len(node[n].log) \in Nat
      BY <1>1 DEF Rec, LogRec
    <3> QED BY <3>1, ReplicaAssumption
  <2>2. Leads(n) /\ p.cmd \in Command
    BY <1>2 DEF Leads, Item
  <2>3. last_log_index(node[n]) <= MaxIndex
    <3>1. Bounded(node[n], s, req[n]) /\ Len(s) \in Nat /\ DOMAIN s = 1 .. Len(s)
      BY <1>1, AsksParts
    <3>2. last_log_index(node[n]) + Len(s) <= MaxIndex + 1
      BY <1>2, <3>1 DEF Bounded
    <3>3. last_log_index(node[n]) \in Nat /\ MaxIndex \in Nat /\ Len(s) >= 1
      BY <1>1, <1>2, <3>1, RecLog, ReplicaAssumption
    <3> QED BY <3>1, <3>2, <3>3
  <2> QED BY <2>1, <2>2, <2>3 DEF Proposes, Outputs, LogsNow
<1>6. ProposeDone(n, p.cmd, t, node', chain')
  BY <1>1, <1>5, ProposeSettles
<1>7. /\ Good(node', chain', sent) /\ Tells(n, r, node', chain')
      /\ Len(chain[t]) = last_log_index(node[n]) /\ node[n].commit <= node'[n].commit
      /\ node'[n].term = t /\ node'[n] \in Rec /\ \A v \in Node : v # n => node'[v] = node[v]
  BY <1>6 DEF ProposeDone
<1>8. t \in Term /\ chain[t] \in Seq(Entry) /\ e \in Entry /\ DOMAIN chain = Term
  BY <1>1, <1>2, RequestCommand DEF ChainOK, Item, Entry
<1>9. /\ chain'[t] = Append(chain[t], e) /\ Len(chain'[t]) = k
      /\ \A u \in Term : u # t => chain'[u] = chain[u]
  <2>1. chain'[t] = Append(chain[t], e) /\ \A u \in Term : u # t => chain'[u] = chain[u]
    BY <1>8 DEF LogsNow
  <2> QED BY <1>7, <1>8, <2>1, AppendOf
<1> HIDE DEF e, k
<1>10. Accepting(chain'[t])
  <2>1. Fitting(chain[t], p.cmd) /\ e.cmd = p.cmd
    BY <1>2, <1>3 DEF Previewed, e
  <2>2. Accepting(chain[t])
    BY <1>8 DEF AcceptInv
  <2> QED BY <1>8, <1>9, <2>1, <2>2, AcceptingAppend
<1>11. \A u \in Term : Accepting(chain'[u])
  BY <1>9, <1>10 DEF AcceptInv
<1>12. ASSUME NEW v \in Node, v # n PROVE Lined(node'[v], chain', queue'[v], req'[v])
  <2>1. node'[v] = node[v] /\ queue'[v] = queue[v] /\ req'[v] = req[v]
    BY <1>7, <1>12, TablesAre DEF Outputs, LogsNow
  <2>2. Lined(node[v], chain, queue[v], req[v]) /\ LeaderOK(node, chain, v) /\ node[v].term \in Term
    BY <1>1, TablesAre, RecLog DEF AcceptInv, Sound, Raft
  <2>3. node[v].leads => chain'[node[v].term] = chain[node[v].term]
    BY <1>9, <1>12, <2>2 DEF LeaderOK
  <2> QED BY <2>1, <2>2, <2>3 DEF Lined, Previewed
<1>13. Lined(node'[n], chain', s2, req'[n])
  <2>1. /\ q2 \in ReqRec /\ (p.live => q2.index = k /\ q2.pc \in {"logged_barrier", "logged"})
        /\ (~p.live => q2 = req[n])
    <3>1. CASE ~p.live
      BY <1>2, <3>1 DEF LogsNow
    <3>2. CASE p.live
      <4> DEFINE c == IF p.cmd = Barrier THEN "logged_barrier" ELSE "logged"
      <4>1. k \in Index
        <5>1. last_log_index(node[n]) \in Nat /\ last_log_index(node[n]) <= MaxIndex /\ MaxIndex \in Nat
          BY <1>1, <1>5, RecLog, ReplicaAssumption DEF Proposes
        <5>2. MaxTerm \in Nat /\ MaxTerm >= 1
          <6>1. node[n].term # 0 /\ node[n].term \in Term
            BY <1>1, RecLog DEF Sound, Raft, LeaderOK
          <6> QED BY <6>1, ReplicaAssumption DEF Term
        <5> QED BY <5>1, <5>2, IndexNat DEF k
      <4>2. q2 = [req[n] EXCEPT !.pc = c, !.index = k]
        BY <3>2 DEF k, LogsNow
      <4>3. c \in {"logged_barrier", "logged"}
        OBVIOUS
      <4> HIDE DEF c
      <4> QED BY <1>2, <3>2, <4>1, <4>2, <4>3 DEF ReqRec
    <3> QED BY <3>1, <3>2
  <2>2. /\ Proceeds(q2, req'[n], node'[n].commit) /\ ChainOK(chain') /\ Cursors(node'[n])
        /\ LeaderOK(node', chain', n)
    <3>1. r.commit <= node'[n].commit /\ r.commit \in Nat /\ node'[n].commit \in Nat
      BY <1>7, RecLog DEF Tells
    <3>2. ChainOK(chain') /\ Cursors(node'[n]) /\ LeaderOK(node', chain', n)
      BY <1>7, GoodParts DEF Good, Sound, Raft
    <3>3. Outputs(n, r, q2)
      BY DEF LogsNow
    <3> HIDE DEF r
    <3>4. Proceeds(q2, req'[n], node'[n].commit)
      BY <2>1, <3>1, <3>3, OutputsProceed
    <3> QED BY <3>2, <3>4
  <2>3. InLine(s2, q2)
    <3>1. CASE p.live
      BY <1>4, <3>1 DEF InLine
    <3>2. CASE ~p.live
      BY <1>4, <2>1, <3>2
    <3> QED BY <3>1, <3>2
  <2>4. Previewed(node[n], chain', s2, q2)
    <3>1. s2 # <<>> => Fitting(chain'[t], s2[1].cmd)
      BY <1>4, BarrierFits
    <3>2. q2.pc \notin {"ready", "stage"} /\ (q2.pc = "logged_barrier" => q2.index = Len(chain'[t]))
      BY <1>4, <1>9, <2>1
    <3> QED BY <3>1, <3>2 DEF Previewed
  <2>5. Lined(node[n], chain', s2, q2)
    BY <2>3, <2>4 DEF Lined
  <2>6. /\ node'[n].leads => /\ node[n].leads /\ node'[n].term = node[n].term
                             /\ last_log_index(node'[n]) = Len(chain'[node'[n].term])
        /\ node[n].commit <= node'[n].commit /\ node[n] \in Rec /\ node'[n] \in Rec
    BY <1>1, <1>7, <2>2 DEF LeaderOK
  <2> QED BY <1>1, <2>2, <2>5, <2>6, LinedOn
<1>14. queue'[n] = s2
  BY TablesAre DEF LogsNow
<1> QED BY <1>11, <1>12, <1>13, <1>14 DEF AcceptInv

LEMMA ProposeLined ==
    ASSUME ReplicaInv, AcceptInv, NEW n \in Node, Propose(n)
    PROVE  AcceptInv'
<1> DEFINE p == Head(queue[n])
           s2 == Tail(queue[n])
           q2 == IF p.live
                 THEN [req[n] EXCEPT !.pc = IF p.cmd = Barrier THEN "logged_barrier" ELSE "logged",
                                     !.index = last_log_index(node[n]) + 1]
                 ELSE req[n]
<1>1. Up(n) /\ Taken(queue[n], p, s2) /\ node[n].status = "up"
  BY DEF Propose, Taken, Up
<1>2. node[n] \in Rec /\ queue[n] \in Seq(Item)
  BY InvParts DEF Asks
<1>3. queue' = [queue EXCEPT ![n] = s2]
  BY TablesAre DEF Propose
<1>4. \/ /\ req' = IF p.live THEN [req EXCEPT ![n] = Idle] ELSE req
         /\ UNCHANGED <<node, chain>>
      \/ /\ node' = [node EXCEPT ![n] = Stopped(@)] /\ chain' = chain
         /\ req' = [req EXCEPT ![n] = Idle]
      \/ /\ node[n].leads /\ node[n].term = p.term /\ ~(Len(node[n].log) >= MaxEntries)
         /\ Outputs(n, Advance(n, Append1(node[n], p.cmd)), q2)
         /\ chain' = [chain EXCEPT ![p.term] = Append(@, [term |-> p.term, cmd |-> p.cmd])]
  BY DEF Propose
<1> HIDE DEF p, s2
<1>5. InLine(queue[n], req[n]) /\ Previewed(node[n], chain, queue[n], req[n])
  BY <1>1 DEF AcceptInv, Lined
<1>6. /\ \A x : x.pc \notin {"logged_barrier", "ready", "stage", "logged"} => InLine(s2, x)
      /\ req[n].pc \notin {"logged_barrier", "ready", "stage", "logged"}
      /\ (p.live => s2 = <<>>) /\ (s2 # <<>> => s2[1].cmd = Barrier)
  BY <1>1, <1>2, <1>5, TailLine
<1>7. queue'[n] = s2 /\ \A v \in Node : v # n => queue'[v] = queue[v]
  BY <1>3, TablesAre
<1>8. CASE /\ req' = IF p.live THEN [req EXCEPT ![n] = Idle] ELSE req
           /\ UNCHANGED <<node, chain>>
  <2>1. /\ req'[n] = (IF p.live THEN Idle ELSE req[n])
        /\ \A v \in Node : v # n => req'[v] = req[v]
    <3> HIDE DEF Idle
    <3> QED BY <1>8, TablesAre
  <2>2. req'[n].pc \notin {"logged_barrier", "ready", "stage", "logged"}
    BY <1>6, <2>1 DEF Idle
  <2>3. Lined(node[n], chain, s2, req'[n])
    BY <1>6, <2>2, BarrierFits DEF Lined, Previewed
  <2> QED BY <1>7, <1>8, <2>1, <2>3, StillLined
<1>9. CASE /\ node' = [node EXCEPT ![n] = Stopped(@)] /\ chain' = chain
           /\ req' = [req EXCEPT ![n] = Idle]
  <2> DEFINE r == Stopped(node[n])
  <2>1. Kept(node[n], r) /\ node' = [node EXCEPT ![n] = r] /\ r.status # "up"
    BY <1>2, <1>9, TablesAre DEF Kept, Rec, Stopped
  <2>2. \A v \in Node : v # n => req'[v] = req[v]
    BY <1>9, TablesAre
  <2> HIDE DEF r
  <2>3. Lined(r, chain, s2, req'[n])
    BY <2>1 DEF Lined
  <2> QED BY <1>7, <1>9, <2>1, <2>2, <2>3, AskLined
<1>10. CASE /\ node[n].leads /\ node[n].term = p.term /\ ~(Len(node[n].log) >= MaxEntries)
            /\ Outputs(n, Advance(n, Append1(node[n], p.cmd)), q2)
            /\ chain' = [chain EXCEPT ![p.term] = Append(@, [term |-> p.term, cmd |-> p.cmd])]
  <2>1. LogsNow(n, p, s2, q2)
    BY <1>3, <1>10 DEF LogsNow
  <2> HIDE DEF q2
  <2> QED BY <1>1, <1>10, <2>1, LoggedLined
<1> QED BY <1>4, <1>8, <1>9, <1>10

(* An election: the voters of q leave their terms behind, and n starts a   *)
(* log of its own.                                                         *)
LEMMA PastAccepting ==
    ASSUME ReplicaInv, AcceptInv, NEW n \in Node
    PROVE  Past(node[n]) \in Seq(Entry) /\ Accepting(Past(node[n]))
<1> DEFINE w == last_log_term(node[n])
           l == last_log_index(node[n])
<1>1. node[n] \in Rec /\ ChainOK(chain) /\ Placed(node, chain, n)
  BY InvParts DEF Raft
<1>2. IsLog(node[n]) /\ l \in Nat
  BY <1>1, RecLog
<1>3. PICK u \in Term : Along(chain, node[n], u)
  BY <1>1 DEF Placed
<1>4. w \in Term /\ Along(chain, node[n], w)
  BY <1>1, <1>2, <1>3, AlongLast
<1>5. chain[w] \in Seq(Entry) /\ Accepting(chain[w]) /\ l <= Len(chain[w])
  BY <1>1, <1>4 DEF ChainOK, AcceptInv, Along
<1>6. Past(node[n]) = SubSeq(chain[w], 1, l)
  BY DEF Past
<1> HIDE DEF w, l
<1> QED BY <1>2, <1>5, <1>6, AcceptingPrefix

LEMMA NoChain ==
    ASSUME ReplicaInv, NEW q \in Quorum, NEW t \in Term, \A v \in q : t > node[v].term, q \subseteq Node
    PROVE  chain[t] = <<>>
<1> SUFFICES ASSUME chain[t] # <<>> PROVE FALSE
  OBVIOUS
<1>1. Elected(node, chain) /\ \A v \in Node : node[v].term \in Nat
  BY InvParts, RecLog DEF Raft
<1>2. PICK x \in Quorum : \A v \in x : node[v].term >= t
  BY <1>1 DEF Elected
<1>3. PICK v \in Voter : v \in q /\ v \in x
  BY QuorumMeet
<1>4. node[v].term >= t /\ t > node[v].term /\ node[v].term \in Nat /\ t \in Nat
  BY <1>1, <1>2, <1>3, TermNat
<1> QED BY <1>4

LEMMA ElectLined ==
    ASSUME ReplicaInv, AcceptInv, NEW q \in Majority, NEW n \in q, Elect(n, q)
    PROVE  AcceptInv'
<1> DEFINE t == Max({ node[v].term : v \in q }) + 1
           r == [node[n] EXCEPT !.term = t, !.leads = TRUE]
           e == [term |-> t, cmd |-> Barrier]
<1>1. /\ Good(node, chain, sent) /\ node \in [Node -> Rec] /\ ChainOK(chain) /\ Raft(node, chain, sent)
      /\ \A v \in Node : Asks(node, chain, v, queue[v], req[v]) /\ node[v] \in Rec
  BY InvParts
<1>2. /\ \A v \in q : Up(v) /\ UpToDate(node[n], node[v])
      /\ \A v \in q : node[v].term < MaxTerm
      /\ ElectsIn(q, n, t, r, node', chain')
      /\ req' = [v \in Node |->
                   IF v \in q \ {n} /\ req[v].pc \in {"logged_barrier", "logged"}
                   THEN Idle ELSE req[v]]
      /\ UNCHANGED queue
  BY DEF Elect, ElectsIn
<1>3. /\ t \in Term /\ t # 0 /\ \A v \in q : t > node[v].term
      /\ q \in Quorum /\ q \subseteq Voter /\ q \subseteq Node
  BY <1>1, <1>2, ElectTerm
<1> HIDE DEF t, Idle, r
<1>4. ElectDone(q, n, t, r, node', chain')
  BY <1>1, <1>2, <1>3, ElectSettles
<1>5. /\ \A v \in Node : node'[v].status = "up" => node[v].status = "up"
      /\ \A v \in q : node'[v].term = t /\ (v # n => ~node'[v].leads)
      /\ \A v \in Node : v \notin q => node'[v] = node[v]
  BY <1>4 DEF ElectDone
<1>6. chain[t] = <<>>
  BY <1>3, NoChain
<1>7. chain' = chain \/ chain' = [chain EXCEPT ![t] = Append(Past(node[n]), e)]
  BY <1>2 DEF ElectsIn
<1>8. /\ \A u \in Term : u # t => chain'[u] = chain[u]
      /\ chain'[t] = chain[t] \/ chain'[t] = Append(Past(node[n]), e)
  BY <1>1, <1>3, <1>7 DEF ChainOK
<1>9. e \in Entry /\ e.cmd = Barrier
  BY <1>3 DEF Entry, Command
<1> HIDE DEF e
<1>10. \A u \in Term : Accepting(chain'[u])
  <2>1. Accepting(Append(Past(node[n]), e))
    BY <1>3, <1>9, PastAccepting, BarrierFits, AcceptingAppend
  <2> QED BY <1>8, <2>1 DEF AcceptInv
<1>11. ASSUME NEW v \in Node, node'[v].status = "up"
       PROVE  InLine(queue[v], req'[v]) /\ InLine(queue[v], req[v]) /\ Previewed(node[v], chain, queue[v], req[v])
  <2>1. InLine(queue[v], req[v]) /\ Previewed(node[v], chain, queue[v], req[v])
    BY <1>5, <1>11 DEF AcceptInv, Lined
  <2>2. req'[v] = Idle \/ req'[v] = req[v]
    BY <1>2
  <2>3. Idle.pc = "idle"
    BY DEF Idle
  <2> QED BY <2>1, <2>2, <2>3 DEF InLine
<1>12. ASSUME NEW v \in Node \ q, node'[v].status = "up"
       PROVE  Previewed(node'[v], chain', queue[v], req'[v])
  <2>1. node'[v] = node[v] /\ req'[v] = req[v] /\ LeaderOK(node, chain, v) /\ node[v].term \in Term
    BY <1>1, <1>2, <1>5, RecLog DEF Raft
  <2>2. node[v].leads => chain'[node[v].term] = chain[node[v].term]
    BY <1>6, <1>8, <2>1 DEF LeaderOK
  <2>3. Previewed(node[v], chain, queue[v], req[v])
    BY <1>11, <1>12
  <2> QED BY <2>1, <2>2, <2>3 DEF Previewed
<1>13. Previewed(node'[n], chain', queue[n], req'[n])
  <2>1. /\ Dated(node[n], queue[n], req[n]) /\ queue[n] \in Seq(Item) /\ req[n] \in ReqRec
        /\ \A i \in DOMAIN queue[n] : queue[n][i].term \in Nat
    BY <1>1, <1>3, AsksParts
  <2>2. req'[n] = req[n] /\ node'[n].term = t /\ node[n].term < t /\ node[n].term \in Nat /\ t \in Nat
        /\ req[n].term \in Nat
    BY <1>1, <1>2, <1>3, <1>5, <2>1, RecLog, TermNat, ReqType
  <2>3. req[n].term # t
    BY <2>1, <2>2 DEF Dated
  <2>4. queue[n] # <<>> => 1 \in DOMAIN queue[n]
    BY <2>1
  <2>5. queue[n] # <<>> => queue[n][1].term # t
    BY <2>1, <2>2, <2>4 DEF Dated
  <2> QED BY <2>2, <2>3, <2>5 DEF Previewed
<1>14. ASSUME NEW v \in q, v # n PROVE Previewed(node'[v], chain', queue[v], req'[v])
  BY <1>5, <1>14 DEF Previewed
<1>15. \A v \in Node : Lined(node'[v], chain', queue[v], req'[v])
  BY <1>11, <1>12, <1>13, <1>14 DEF Lined
<1> QED BY <1>2, <1>10, <1>15 DEF AcceptInv

-----------------------------------------------------------------------------
LEMMA NextLined ==
    ASSUME ReplicaInv, AcceptInv, [Next]_vars
    PROVE  AcceptInv'
<1> DEFINE Goal == AcceptInv'
<1>1. ASSUME NEW q \in Majority, NEW n \in q, Elect(n, q) PROVE Goal
  BY <1>1, ElectLined
<1>2. ASSUME NEW n \in Node, NEW c \in Request, StartRequest(n, c) PROVE Goal
  BY <1>2, StartRequestLined
<1>3. ASSUME NEW n \in Node, Propose(n) PROVE Goal
  BY <1>3, ProposeLined
<1>4. ASSUME NEW n \in Node, Ready(n) PROVE Goal
  BY <1>4, ReadyLined
<1>5. ASSUME NEW n \in Node, StageWrite(n) PROVE Goal
  BY <1>5, StageWriteLined
<1>6. ASSUME NEW n \in Node, Cancel(n) PROVE Goal
  BY <1>6, CancelLined
<1>7. ASSUME NEW n \in Node, NEW p \in prep[n], NEW h \in p.todo, StageNext(n, p, h) PROVE Goal
  BY <1>7, StageNextLined
<1>8. ASSUME NEW n \in Node, NEW p \in prep[n], StageFails(n, p) PROVE Goal
  BY <1>8, SameLined DEF StageFails
<1>9. ASSUME NEW n \in Node, NEW p \in prep[n], Prepared(n, p) PROVE Goal
  BY <1>9, PreparedLined
<1>10. ASSUME NEW n \in Node, NEW e \in SUBSET Offering(n), Maintain(n, e) PROVE Goal
  BY <1>10, MaintainLined
<1>11. ASSUME NEW n \in Node, NEW i \in 1 .. last_log_index(node[n]), HearAppended(n, i) PROVE Goal
  BY <1>11, HearAppendedLined
<1>12. ASSUME NEW n \in Node, Crash(n) PROVE Goal
  BY <1>12, CrashLined
<1>13. ASSUME NEW n \in Node, Open(n) PROVE Goal
  BY <1>13, OpenLined
<1>14. ASSUME NEW l \in Node, NEW f \in Node, HearTerm(l, f) PROVE Goal
  BY <1>14, HearTermLined
<1>15. ASSUME NEW l \in Node, NEW f \in Node, HearInstalled(l, f) PROVE Goal
  BY <1>15, SameLined DEF HearInstalled
<1>16. ASSUME NEW l \in Node, NEW f \in Node,
              NEW prev \in node[l].snap.index .. last_log_index(node[l]), Send(l, f, prev)
       PROVE  Goal
  BY <1>16, SendLined
<1>17. ASSUME NEW l \in Node, NEW f \in Node, Offer(l, f) PROVE Goal
  BY <1>17, OfferLined
<1>18. ASSUME NEW l \in Node, NEW f \in Node, Transfer(l, f) PROVE Goal
  BY <1>18, TransferLined
<1>19. ASSUME ReceiveLate PROVE Goal
  BY <1>19, ReceiveLateLined
<1>20. ASSUME UNCHANGED vars PROVE Goal
  BY <1>20, SameLined DEF vars
<1> HIDE DEF Goal
<1>21. Goal
  BY <1>1, <1>2, <1>3, <1>4, <1>5, <1>6, <1>7, <1>8, <1>9, <1>10, <1>11, <1>12, <1>13, <1>14,
     <1>15, <1>16, <1>17, <1>18, <1>19, <1>20 DEF Next
<1> QED BY <1>21 DEF Goal

LEMMA InitAccept == Init => AcceptInv
<1> SUFFICES ASSUME Init PROVE AcceptInv
  OBVIOUS
<1>1. ReplicaInv
  BY InitInv
<1>2. \A t \in Term : chain[t] = <<>>
  BY DEF Init
<1>3. \A t \in Term : Accepting(chain[t])
  BY <1>2 DEF Accepting
<1>4. \A n \in Node : queue[n] = <<>> /\ req[n] = Idle
  <2> HIDE DEF Idle
  <2> QED BY DEF Init
<1>5. Idle.pc = "idle"
  BY DEF Idle
<1>6. \A n \in Node : Lined(node[n], chain, queue[n], req[n])
  BY <1>4, <1>5 DEF Lined, InLine, Previewed
<1> QED BY <1>3, <1>6 DEF AcceptInv

LEMMA SpecAccept == Spec => []AcceptInv
<1>1. Init => AcceptInv
  BY InitAccept
<1>2. ReplicaInv /\ AcceptInv /\ [Next]_vars => AcceptInv'
  BY NextLined
<1> QED BY <1>1, <1>2, SpecInv, PTL DEF Spec

(* The entry at i of the log of n is the one of a chain, applied to what   *)
(* precedes it there.                                                      *)
LEMMA AcceptedOfInv == ReplicaInv /\ AcceptInv => CommittedAccepted
<1> SUFFICES ASSUME ReplicaInv, AcceptInv, NEW n \in Node,
                    NEW i \in node[n].snap.index + 1 .. node[n].commit
             PROVE  apply(Replay(node[n].snap.state, Between(node[n], node[n].snap.index, i - 1)),
                          entry(node[n], i).cmd, MaxSlots).reply # "error"
  BY DEF CommittedAccepted
<1> DEFINE r == node[n]
           b == Between(r, r.snap.index, i - 1)
<1>1. /\ r \in Rec /\ ChainOK(chain) /\ Placed(node, chain, n) /\ Cursors(r)
      /\ SnapFits(node, chain, r.snap, r.term)
  BY InvParts DEF Raft, Sound
<1>2. IsLog(r) /\ r.commit \in Nat /\ r.snap.index \in Nat /\ last_log_index(r) \in Nat
  BY <1>1, RecLog
<1>3. PICK t \in Term : Along(chain, r, t)
  BY <1>1 DEF Placed
<1>4. /\ i \in Nat \ {0} /\ i - 1 \in Nat /\ r.snap.index <= i - 1 /\ i - 1 <= last_log_index(r)
      /\ i <= last_log_index(r) /\ i - r.snap.index \in 1 .. Len(r.log)
  <2>1. Len(r.log) \in Nat /\ last_log_index(r) = r.snap.index + Len(r.log)
    BY <1>2 DEF IsLog, last_log_index
  <2>2. i \in r.snap.index + 1 .. r.commit /\ r.commit <= last_log_index(r)
    BY <1>1 DEF Cursors
  <2> HIDE DEF r
  <2> QED BY <1>2, <2>1, <2>2
<1>5. StateIs(chain, r.snap.state, r.snap.index, t)
  BY <1>1, <1>2, <1>3, SnapAlong
<1>6. StateIs(chain, Replay(r.snap.state, b), i - 1, t)
  BY <1>1, <1>2, <1>3, <1>4, <1>5, StateOn
<1>7. Replay(r.snap.state, b) = Replay(EmptyState, SubSeq(chain[t], 1, i - 1))
  BY <1>6 DEF StateIs
<1>8. entry(r, i) = chain[t][i] /\ i \in 1 .. Len(chain[t])
  <2>1. entry(r, i) = chain[t][r.snap.index + (i - r.snap.index)] /\ last_log_index(r) <= Len(chain[t])
    BY <1>3, <1>4 DEF Along, entry
  <2>2. r.snap.index + (i - r.snap.index) = i /\ Len(chain[t]) \in Nat
    BY <1>1, <1>2, <1>4, ChainLen
  <2> QED BY <1>2, <1>4, <2>1, <2>2
<1>9. Fitting(SubSeq(chain[t], 1, i - 1), chain[t][i].cmd)
  BY <1>8 DEF AcceptInv, Accepting
<1> QED BY <1>7, <1>8, <1>9 DEF Fitting

(* Every logged write that commits is accepted when it is applied, under   *)
(* the configured slot quota too, in every room of any number of members,  *)
(* terms and slots, whatever is cancelled and whoever leads: the preview   *)
(* in leader_request is never overtaken by another entry of the log.       *)
THEOREM CommittedWritesAccepted == Spec => []CommittedAccepted
  BY SpecInv, SpecAccept, AcceptedOfInv, PTL

================================================================================
