--------------------------- MODULE EscrowReplicaRaft ---------------------------
(***************************************************************************)
(* Why the members of a replicated room agree: facts about the logs of one *)
(* state (nd, ch and sn stand for node, chain and sent) and about how they *)
(* change, from which EscrowReplicaProofs shows that the actions of        *)
(* EscrowReplica keep them.                                                *)
(*                                                                         *)
(* The ghost chain keeps the whole log of each term's leader.  A log, a    *)
(* message and a snapshot are then always a piece of some chain; chains    *)
(* that have an entry of one term in one place agree on what precedes it,  *)
(* and an entry that a quorum acknowledged is in every later chain.        *)
(***************************************************************************)
EXTENDS EscrowReplica, ProofLemmas

(* The chains of terms t and u have the same first i entries.               *)
Same(ch, t, u, i) ==
    /\ i <= Len(ch[t]) /\ i <= Len(ch[u])
    /\ \A j \in 1 .. i : ch[t][j] = ch[u][j]

(* ch[t] holds at i an entry of term u.                                     *)
At(ch, t, i, u) == i \in 1 .. Len(ch[t]) /\ ch[t][i].term = u

(* An entry of term u is in the chain of a later term with all that         *)
(* precedes it in the chain of u.                                           *)
ChainOK(ch) ==
    /\ ch \in [Term -> Seq(Entry)]
    /\ \A t \in Term : Len(ch[t]) <= MaxIndex + t /\ (t = 0 => Len(ch[t]) = 0)
    /\ \A t \in Term : \A i \in 1 .. Len(ch[t]) :
          ch[t][i].term <= t /\ ch[t][i].term # 0 /\ Same(ch, t, ch[t][i].term, i)

(* The log of r runs along the chain of t.                                  *)
Along(ch, r, t) ==
    /\ last_log_index(r) <= Len(ch[t])
    /\ \A i \in 1 .. Len(r.log) : r.log[i] = ch[t][r.snap.index + i]
    /\ IF r.snap.index = 0 THEN r.snap.term = 0 ELSE ch[t][r.snap.index].term = r.snap.term

Has(ch, r, i, u) ==
    \E t \in Term : Along(ch, r, t) /\ i <= last_log_index(r) /\ At(ch, t, i, u)

(* No quorum can acknowledge entry i to the leader of term t any more.      *)
Dead(nd, sn, i, t) ==
    \E q \in Quorum : \A v \in q :
        nd[v].term > t /\ ~(sn[v].append.term = t /\ sn[v].append.index >= i)

(* Every later leader has entry i of term t.                                *)
Stable(ch, i, t) ==
    \A u \in Term : u > t /\ ch[u] # <<>> => At(ch, u, i, t)

Durable(nd, ch, i, t) ==
    /\ t \in Term /\ At(ch, t, i, t) /\ Stable(ch, i, t)
    /\ \E q \in Quorum : \A v \in q : nd[v].term >= t /\ Has(ch, nd[v], i, t)

(* The first c entries of the chain of t were committed by term b.          *)
Committed(nd, ch, c, t, b) ==
    \E u \in Term : \E i \in 1 .. Len(ch[u]) :
        /\ u <= b /\ Durable(nd, ch, i, u)
        /\ c \in 1 .. i /\ c <= Len(ch[t]) /\ ch[u][c].term = ch[t][c].term

CommittedUpTo(nd, ch, c, t, b) == c = 0 \/ Committed(nd, ch, c, t, b)

Placed(nd, ch, n) ==
    \E t \in Term : /\ t <= nd[n].term /\ Along(ch, nd[n], t)
                    /\ CommittedUpTo(nd, ch, nd[n].commit, t, nd[n].term)

LeaderOK(nd, ch, n) ==
    nd[n].leads =>
        /\ nd[n].term # 0 /\ n \in Voter
        /\ Along(ch, nd[n], nd[n].term)
        /\ last_log_index(nd[n]) = Len(ch[nd[n].term]) /\ ch[nd[n].term] # <<>>
        /\ \A m \in Node : nd[m].leads /\ nd[m].term = nd[n].term => m = n

Elected(nd, ch) ==
    \A u \in Term : ch[u] # <<>> => \E q \in Quorum : \A v \in q : nd[v].term >= u

Complete(nd, ch, sn) ==
    \A u, t \in Term : \A i \in 1 .. Len(ch[t]) :
        ch[u] # <<>> /\ t < u /\ ch[t][i].term = t => At(ch, u, i, t) \/ Dead(nd, sn, i, t)

SentOK(nd, ch, sn, v) ==
    LET t == sn[v].append.term IN
    /\ t <= nd[v].term /\ sn[v].append.index <= Len(ch[t])
    /\ \A i \in 1 .. sn[v].append.index :
         At(ch, t, i, t) => Has(ch, nd[v], i, t) \/ Dead(nd, sn, i, t)

Raft(nd, ch, sn) ==
    /\ ChainOK(ch)
    /\ \A n \in Node : Placed(nd, ch, n) /\ LeaderOK(nd, ch, n)
    /\ Elected(nd, ch) /\ Complete(nd, ch, sn)
    /\ \A v \in Node : SentOK(nd, ch, sn, v)

AppendFits(nd, ch, m) ==
    /\ EndOf(m) <= Len(ch[m.term])
    /\ \A k \in 1 .. Len(m.entries) : m.entries[k] = ch[m.term][m.prev + k]
    /\ IF m.prev = 0 THEN m.prevTerm = 0 ELSE ch[m.term][m.prev].term = m.prevTerm
    /\ CommittedUpTo(nd, ch, m.commit, m.term, m.term)


-----------------------------------------------------------------------------
(* Constants.                                                              *)

LEMMA TermNat == Term \subseteq Nat /\ 0 \in Term /\ \A t \in Term : t <= MaxTerm /\ MaxTerm \in Nat
BY ReplicaAssumption DEF Term

LEMMA QuorumMeet ==
    ASSUME NEW q \in Quorum, NEW s \in Quorum
    PROVE  \E v \in Voter : v \in q /\ v \in s
<1>1. IsFiniteSet(Voter) /\ q \in SUBSET Voter /\ s \in SUBSET Voter
  BY ReplicaAssumption, FS_Subset DEF Quorum
<1>2. IsFiniteSet(q) /\ IsFiniteSet(s)
  BY <1>1, FS_Subset
<1>3. Cardinality(q) \in Nat /\ Cardinality(s) \in Nat /\ Cardinality(Voter) \in Nat
  BY <1>1, <1>2, FS_CardinalityType
<1>4. 2 * Cardinality(q) > Cardinality(Voter) /\ 2 * Cardinality(s) > Cardinality(Voter)
  BY DEF Quorum
<1>5. Cardinality(q) + Cardinality(s) > Cardinality(Voter)
  BY <1>3, <1>4
<1>6. q \cap s # {}
  BY <1>1, <1>5, FS_MajoritiesIntersect
<1> QED BY <1>1, <1>6

LEMMA QuorumUp ==
    ASSUME NEW q \in Quorum, NEW s, q \subseteq s, s \subseteq Voter
    PROVE  s \in Quorum
<1>1. IsFiniteSet(Voter) /\ q \in SUBSET Voter /\ s \in SUBSET Voter
  BY ReplicaAssumption, FS_Subset DEF Quorum
<1>2. IsFiniteSet(q) /\ IsFiniteSet(s)
  BY <1>1, FS_Subset
<1>3. Cardinality(q) \in Nat /\ Cardinality(s) \in Nat /\ Cardinality(Voter) \in Nat
  BY <1>1, <1>2, FS_CardinalityType
<1>4. Cardinality(q) <= Cardinality(s)
  BY <1>2, FS_Subset
<1>5. 2 * Cardinality(s) > Cardinality(Voter)
  BY <1>3, <1>4 DEF Quorum
<1> QED BY <1>1, <1>5 DEF Quorum

-----------------------------------------------------------------------------
(* Chains.                                                                 *)

LEMMA ChainEntry ==
    ASSUME NEW ch, ChainOK(ch), NEW t \in Term, NEW i, NEW w, At(ch, t, i, w)
    PROVE  /\ i \in 1 .. Len(ch[t]) /\ ch[t][i] \in Entry /\ ch[t][i].term = w
           /\ w \in Term /\ w <= t /\ w # 0 /\ Same(ch, t, w, i)
<1>1. ch[t] \in Seq(Entry) /\ i \in 1 .. Len(ch[t]) /\ ch[t][i].term = w
  BY DEF ChainOK, At
<1>2. ch[t][i] \in Entry
  BY <1>1
<1>3. w \in Term
  BY <1>1, <1>2 DEF Entry
<1>4. ch[t][i].term <= t /\ ch[t][i].term # 0 /\ Same(ch, t, ch[t][i].term, i)
  BY <1>1 DEF ChainOK
<1> QED BY <1>1, <1>2, <1>3, <1>4

LEMMA ChainLen ==
    ASSUME NEW ch, ChainOK(ch)
    PROVE  \A t \in Term : Len(ch[t]) \in Nat /\ Len(ch[0]) = 0 /\ ch[t] \in Seq(Entry)
                           /\ (ch[t] # <<>> <=> Len(ch[t]) > 0)
BY TermNat DEF ChainOK

LEMMA AtParts ==
    ASSUME NEW ch, ChainOK(ch), NEW t \in Term, NEW i, NEW w, At(ch, t, i, w)
    PROVE  /\ i \in Nat \ {0} /\ i <= Len(ch[t]) /\ Len(ch[t]) \in Nat /\ ch[t] # <<>>
           /\ i \in 1 .. Len(ch[t]) /\ w \in Term /\ w \in Nat \ {0} /\ w <= t /\ t \in Nat
           /\ At(ch, w, i, w) /\ ch[t][i].term = w /\ Len(ch[w]) \in Nat
<1>1. Len(ch[t]) \in Nat /\ (ch[t] # <<>> <=> Len(ch[t]) > 0) /\ t \in Nat
  BY ChainLen, TermNat
<1>2. /\ i \in 1 .. Len(ch[t]) /\ ch[t][i].term = w
      /\ w \in Term /\ w <= t /\ w # 0 /\ Same(ch, t, w, i)
  BY ChainEntry
<1>3. i \in Nat \ {0} /\ i <= Len(ch[t]) /\ Len(ch[t]) > 0 /\ w \in Nat \ {0}
  BY <1>1, <1>2, TermNat
<1>4. Len(ch[w]) \in Nat
  BY <1>2, ChainLen
<1>5. At(ch, w, i, w)
  BY <1>2, <1>3, <1>4 DEF At, Same
<1> QED BY <1>1, <1>2, <1>3, <1>4, <1>5

(* The log matching property.                                              *)
LEMMA SameTerm ==
    ASSUME NEW ch, ChainOK(ch), NEW t \in Term, NEW u \in Term, NEW i, NEW w,
           At(ch, t, i, w), At(ch, u, i, w)
    PROVE  Same(ch, t, u, i)
<1>1. Same(ch, t, w, i) /\ Same(ch, u, w, i)
  BY ChainEntry
<1> QED BY <1>1 DEF Same

LEMMA SameParts ==
    ASSUME NEW ch, ChainOK(ch), NEW t \in Term, NEW u \in Term, NEW i \in Nat, Same(ch, t, u, i),
           NEW j \in 1 .. i
    PROVE  /\ j \in 1 .. Len(ch[t]) /\ j \in 1 .. Len(ch[u]) /\ ch[t][j] = ch[u][j]
           /\ \A w : At(ch, t, j, w) <=> At(ch, u, j, w)
<1>1. Len(ch[t]) \in Nat /\ Len(ch[u]) \in Nat /\ i <= Len(ch[t]) /\ i <= Len(ch[u])
      /\ ch[t][j] = ch[u][j]
  BY ChainLen DEF Same
<1>2. j \in 1 .. Len(ch[t]) /\ j \in 1 .. Len(ch[u])
  BY <1>1
<1> QED BY <1>1, <1>2 DEF At

(* Terms never decrease along a chain.                                     *)
LEMMA ChainMono ==
    ASSUME NEW ch, ChainOK(ch), NEW t \in Term, NEW i, NEW w, At(ch, t, i, w),
           NEW j, NEW x, At(ch, t, j, x), i <= j
    PROVE  w <= x
<1>1. /\ i \in Nat \ {0} /\ j \in Nat \ {0} /\ x \in Term /\ At(ch, x, j, x)
  BY AtParts
<1>2. Same(ch, t, x, j)
  BY <1>1, SameTerm
<1>3. At(ch, x, i, w)
  <2>1. j <= Len(ch[x]) /\ Len(ch[x]) \in Nat
    BY <1>1, AtParts
  <2> QED BY <1>1, <1>2, <2>1 DEF Same, At
<1> QED BY <1>1, <1>3, AtParts

-----------------------------------------------------------------------------
(* Committed entries.                                                      *)

LEMMA StableMeet ==
    ASSUME NEW ch, ChainOK(ch),
           NEW t \in Term, NEW i, At(ch, t, i, t), Stable(ch, i, t),
           NEW u \in Term, NEW j, At(ch, u, j, u), Stable(ch, j, u),
           NEW k \in Nat, k <= i, k <= j
    PROVE  Same(ch, t, u, k)
<1>0. /\ t \in Nat /\ u \in Nat /\ i \in Nat /\ j \in Nat /\ i >= 1 /\ j >= 1
      /\ Len(ch[t]) \in Nat /\ Len(ch[u]) \in Nat /\ i <= Len(ch[t]) /\ j <= Len(ch[u])
      /\ ch[t] # <<>> /\ ch[u] # <<>>
  BY AtParts
<1>1. CASE t < u
  <2>1. At(ch, u, i, t)
    BY <1>0, <1>1 DEF Stable
  <2>2. Same(ch, t, u, i)
    BY <2>1, SameTerm
  <2> QED BY <1>0, <2>2 DEF Same
<1>2. CASE u < t
  <2>1. At(ch, t, j, u)
    BY <1>0, <1>2 DEF Stable
  <2>2. Same(ch, t, u, j)
    BY <2>1, SameTerm
  <2> QED BY <1>0, <2>2 DEF Same
<1>3. CASE t = u
  BY <1>0, <1>3 DEF Same
<1> QED BY <1>0, <1>1, <1>2, <1>3

(* What is committed is part of a durable prefix.                          *)
LEMMA CommittedBy ==
    ASSUME NEW nd, NEW ch, ChainOK(ch), NEW c, NEW t \in Term, NEW b, Committed(nd, ch, c, t, b)
    PROVE  /\ c \in Nat \ {0} /\ c <= Len(ch[t])
           /\ \E u \in Term : \E i \in 1 .. Len(ch[u]) :
                 /\ u <= b /\ Durable(nd, ch, i, u) /\ At(ch, u, i, u) /\ Stable(ch, i, u)
                 /\ c <= i /\ Same(ch, t, u, c)
<1>1. PICK u \in Term : \E i \in 1 .. Len(ch[u]) :
        /\ u <= b /\ Durable(nd, ch, i, u)
        /\ c \in 1 .. i /\ c <= Len(ch[t]) /\ ch[u][c].term = ch[t][c].term
  BY DEF Committed
<1>2. PICK i \in 1 .. Len(ch[u]) :
        /\ u <= b /\ Durable(nd, ch, i, u)
        /\ c \in 1 .. i /\ c <= Len(ch[t]) /\ ch[u][c].term = ch[t][c].term
  BY <1>1
<1>3. Len(ch[u]) \in Nat /\ Len(ch[t]) \in Nat
  BY ChainLen
<1>4. c \in 1 .. Len(ch[u]) /\ c \in 1 .. Len(ch[t]) /\ c \in Nat \ {0} /\ c <= i
  BY <1>2, <1>3
<1>5. Same(ch, t, u, c)
  BY <1>2, <1>4, SameTerm DEF At
<1>6. At(ch, u, i, u) /\ Stable(ch, i, u)
  BY <1>2 DEF Durable
<1> QED BY <1>2, <1>4, <1>5, <1>6

LEMMA UpToLater ==
    ASSUME NEW nd, NEW ch, NEW c, NEW t, NEW b \in Nat, CommittedUpTo(nd, ch, c, t, b),
           NEW d \in Nat, b <= d
    PROVE  CommittedUpTo(nd, ch, c, t, d)
<1>1. \A u \in Term : u \in Nat /\ (u <= b => u <= d)
  BY TermNat
<1> QED BY <1>1 DEF CommittedUpTo, Committed

LEMMA CommittedStable ==
    ASSUME NEW nd, NEW ch, ChainOK(ch), NEW c, NEW t \in Term, NEW b, Committed(nd, ch, c, t, b),
           NEW u \in Term, NEW i, At(ch, u, i, u), Stable(ch, i, u),
           NEW k \in Nat, k <= c, k <= i
    PROVE  Same(ch, t, u, k)
<1>1. PICK w \in Term : \E j \in 1 .. Len(ch[w]) :
                 /\ At(ch, w, j, w) /\ Stable(ch, j, w) /\ c <= j /\ Same(ch, t, w, c)
  BY CommittedBy
<1>2. PICK j \in 1 .. Len(ch[w]) :
                 /\ At(ch, w, j, w) /\ Stable(ch, j, w) /\ c <= j /\ Same(ch, t, w, c)
  BY <1>1
<1>3. c \in Nat /\ Len(ch[w]) \in Nat
  BY CommittedBy, ChainLen
<1>4. Same(ch, w, u, k)
  BY <1>2, <1>3, StableMeet
<1> QED BY <1>2, <1>3, <1>4, ChainLen DEF Same

LEMMA CommittedMeet ==
    ASSUME NEW nd, NEW ch, ChainOK(ch), NEW c, NEW t \in Term, NEW b, Committed(nd, ch, c, t, b),
           NEW d, NEW u \in Term, NEW b2, Committed(nd, ch, d, u, b2),
           NEW k \in Nat, k <= c, k <= d
    PROVE  Same(ch, t, u, k)
<1>1. PICK w \in Term : \E j \in 1 .. Len(ch[w]) :
                 /\ At(ch, w, j, w) /\ Stable(ch, j, w) /\ d <= j /\ Same(ch, u, w, d)
  BY CommittedBy
<1>2. PICK j \in 1 .. Len(ch[w]) :
                 /\ At(ch, w, j, w) /\ Stable(ch, j, w) /\ d <= j /\ Same(ch, u, w, d)
  BY <1>1
<1>3. d \in Nat /\ Len(ch[w]) \in Nat
  BY CommittedBy, ChainLen
<1>4. Same(ch, t, w, k)
  BY <1>2, <1>3, CommittedStable
<1> QED BY <1>2, <1>3, <1>4, ChainLen DEF Same

LEMMA CommittedDown ==
    ASSUME NEW nd, NEW ch, ChainOK(ch), NEW c, NEW t \in Term, NEW b, Committed(nd, ch, c, t, b),
           NEW d \in Nat, d <= c, NEW u \in Term, Same(ch, t, u, d)
    PROVE  CommittedUpTo(nd, ch, d, u, b)
<1>1. PICK w \in Term : \E j \in 1 .. Len(ch[w]) :
                 /\ w <= b /\ Durable(nd, ch, j, w) /\ c <= j /\ Same(ch, t, w, c)
  BY CommittedBy
<1>2. PICK j \in 1 .. Len(ch[w]) : /\ w <= b /\ Durable(nd, ch, j, w) /\ c <= j /\ Same(ch, t, w, c)
  BY <1>1
<1>3. c \in Nat /\ Len(ch[w]) \in Nat /\ Len(ch[u]) \in Nat /\ Len(ch[t]) \in Nat
  BY CommittedBy, ChainLen
<1>4. CASE d = 0
  BY <1>4 DEF CommittedUpTo
<1>5. CASE d # 0
  <2>1. d \in 1 .. j /\ d <= Len(ch[u]) /\ ch[w][d].term = ch[u][d].term
    BY <1>2, <1>3, <1>5 DEF Same
  <2> QED BY <1>2, <2>1 DEF Committed, CommittedUpTo
<1> QED BY <1>4, <1>5

-----------------------------------------------------------------------------
(* Logs.                                                                   *)

IsLog(r) == r.snap.index \in Nat /\ r.snap.term \in Term /\ r.log \in Seq(Entry)

LEMMA LogLen ==
    ASSUME NEW r, IsLog(r)
    PROVE  /\ Len(r.log) \in Nat /\ last_log_index(r) \in Nat /\ r.snap.index \in Nat
           /\ r.snap.index <= last_log_index(r)
           /\ last_log_index(r) = r.snap.index + Len(r.log)
           /\ \A i \in Nat : r.snap.index < i /\ i <= last_log_index(r) =>
                 i - r.snap.index \in 1 .. Len(r.log)
BY DEF IsLog, last_log_index

LEMMA AlongAt ==
    ASSUME NEW r, IsLog(r), NEW ch, ChainOK(ch), NEW t \in Term, Along(ch, r, t),
           NEW i \in Nat \ {0}, r.snap.index <= i, i <= last_log_index(r)
    PROVE  At(ch, t, i, term_at(r, i)) /\ (r.snap.index < i => entry(r, i) = ch[t][i])
<1>1. /\ Len(r.log) \in Nat /\ last_log_index(r) \in Nat /\ r.snap.index \in Nat
      /\ Len(ch[t]) \in Nat /\ last_log_index(r) <= Len(ch[t])
  BY LogLen, ChainLen DEF Along
<1>2. i \in 1 .. Len(ch[t])
  BY <1>1
<1>3. CASE i = r.snap.index
  BY <1>2, <1>3 DEF Along, At, term_at
<1>4. CASE r.snap.index < i
  <2>1. i - r.snap.index \in 1 .. Len(r.log) /\ r.snap.index + (i - r.snap.index) = i
    BY <1>1, <1>4, LogLen
  <2>2. r.log[i - r.snap.index] = ch[t][r.snap.index + (i - r.snap.index)]
    BY <2>1 DEF Along
  <2>3. term_at(r, i) = r.log[i - r.snap.index].term
    BY <1>1, <1>4 DEF term_at
  <2>4. r.log[i - r.snap.index] = ch[t][i]
    BY <2>1, <2>2
  <2> QED BY <1>2, <2>3, <2>4 DEF At, entry
<1> QED BY <1>1, <1>3, <1>4

LEMMA AlongSame ==
    ASSUME NEW r, IsLog(r), NEW ch, ChainOK(ch), NEW t \in Term, NEW u \in Term, Along(ch, r, t),
           Same(ch, t, u, last_log_index(r))
    PROVE  Along(ch, r, u)
<1>1. /\ Len(r.log) \in Nat /\ last_log_index(r) \in Nat /\ r.snap.index \in Nat
      /\ r.snap.index <= last_log_index(r) /\ last_log_index(r) = r.snap.index + Len(r.log)
  BY LogLen
<1>2. last_log_index(r) <= Len(ch[u]) /\ \A j \in 1 .. last_log_index(r) : ch[t][j] = ch[u][j]
  BY DEF Same
<1>3. ASSUME NEW i \in 1 .. Len(r.log) PROVE r.log[i] = ch[u][r.snap.index + i]
  <2>1. r.snap.index + i \in 1 .. last_log_index(r)
    BY <1>1
  <2> QED BY <1>2, <2>1 DEF Along
<1>4. CASE r.snap.index = 0
  BY <1>2, <1>3, <1>4 DEF Along
<1>5. CASE r.snap.index # 0
  <2>1. r.snap.index \in 1 .. last_log_index(r)
    BY <1>1, <1>5
  <2>2. ch[u][r.snap.index].term = r.snap.term
    BY <1>2, <1>5, <2>1 DEF Along
  <2> QED BY <1>2, <1>3, <1>5, <2>2 DEF Along
<1> QED BY <1>4, <1>5

LEMMA AlongUnique ==
    ASSUME NEW r, IsLog(r), NEW ch, ChainOK(ch), NEW t \in Term, NEW u \in Term, Along(ch, r, t),
           Along(ch, r, u)
    PROVE  Same(ch, t, u, last_log_index(r))
<1>1. /\ last_log_index(r) \in Nat /\ r.snap.index \in Nat /\ r.snap.index <= last_log_index(r)
      /\ Len(ch[t]) \in Nat /\ Len(ch[u]) \in Nat
  BY LogLen, ChainLen
<1>2. CASE last_log_index(r) = 0
  BY <1>1, <1>2 DEF Same
<1>3. CASE last_log_index(r) # 0
  BY <1>1, <1>3, AlongAt, SameTerm
<1> QED BY <1>2, <1>3

(* A log runs along the chain of its last term.                            *)
LEMMA AlongLast ==
    ASSUME NEW r, IsLog(r), NEW ch, ChainOK(ch), NEW t \in Term, Along(ch, r, t)
    PROVE  /\ last_log_term(r) \in Term /\ last_log_term(r) <= t
           /\ Along(ch, r, last_log_term(r))
           /\ last_log_index(r) = 0 => last_log_term(r) = 0
           /\ last_log_index(r) # 0 =>
                 At(ch, last_log_term(r), last_log_index(r), last_log_term(r))
<1> DEFINE l == last_log_index(r)
           w == last_log_term(r)
<1>1. l \in Nat /\ r.snap.index \in Nat /\ r.snap.index <= l
  BY LogLen
<1>2. CASE l = 0
  <2>1. w = 0
    BY <1>1, <1>2 DEF last_log_term, term_at, Along
  <2>2. Same(ch, t, 0, l)
    BY <1>1, <1>2, ChainLen, TermNat DEF Same
  <2> QED BY <1>2, <2>1, <2>2, TermNat, AlongSame
<1>3. CASE l # 0
  <2>1. At(ch, t, l, w)
    BY <1>1, <1>3, AlongAt DEF last_log_term
  <2>2. w \in Term /\ w <= t /\ At(ch, w, l, w)
    BY <2>1, AtParts
  <2>3. Same(ch, t, w, l)
    BY <2>1, <2>2, SameTerm
  <2> QED BY <1>3, <2>2, <2>3, AlongSame
<1> QED BY <1>2, <1>3

LEMMA HasAlong ==
    ASSUME NEW r, IsLog(r), NEW ch, ChainOK(ch), NEW t \in Term, Along(ch, r, t),
           NEW i, NEW w, Has(ch, r, i, w)
    PROVE  /\ i <= last_log_index(r) /\ At(ch, t, i, w) /\ At(ch, w, i, w)
           /\ w \in Term /\ i \in Nat \ {0}
<1>1. PICK u \in Term : Along(ch, r, u) /\ i <= last_log_index(r) /\ At(ch, u, i, w)
  BY DEF Has
<1>2. Same(ch, t, u, last_log_index(r)) /\ last_log_index(r) \in Nat
  BY <1>1, AlongUnique, LogLen
<1>3. i \in Nat \ {0} /\ w \in Term /\ At(ch, w, i, w)
  BY <1>1, AtParts
<1>4. i \in 1 .. last_log_index(r)
  BY <1>1, <1>2, <1>3
<1> QED BY <1>1, <1>2, <1>3, <1>4, SameParts

-----------------------------------------------------------------------------
(* Steps that leave the chains alone.                                      *)

Typed(nd, sn) ==
    \A v \in Node : /\ IsLog(nd[v]) /\ nd[v].term \in Term /\ nd[v].commit \in Nat
                    /\ nd[v].snap.index <= nd[v].commit /\ nd[v].commit <= last_log_index(nd[v])
                    /\ sn[v].append.term \in Term /\ sn[v].append.index \in Nat

(* Chains grow at the end, by entries of their term once they have one.    *)
Grows(ch, ch2) ==
    \A t \in Term :
        /\ Len(ch[t]) <= Len(ch2[t]) /\ \A i \in 1 .. Len(ch[t]) : ch2[t][i] = ch[t][i]
        /\ ch[t] # <<>> => \A i \in Len(ch[t]) + 1 .. Len(ch2[t]) : ch2[t][i].term = t

(* What is durable stays so.                                               *)
Later(nd, ch, nd2, ch2) ==
    /\ Grows(ch, ch2)
    /\ \A t \in Term : \A i \in Nat : Durable(nd, ch, i, t) => Durable(nd2, ch2, i, t)

(* Member v may become r and have acknowledged a.                          *)
Moves(nd, ch, sn, v, r, a) ==
    /\ r.term >= nd[v].term
    /\ \A t \in Term : \A i \in Nat :
          At(ch, t, i, t) /\ Stable(ch, i, t) /\ Has(ch, nd[v], i, t) => Has(ch, r, i, t)
    /\ \E t \in Term : /\ t <= r.term /\ Along(ch, r, t)
                       /\ CommittedUpTo(nd, ch, r.commit, t, r.term)
    /\ r.leads => /\ nd[v].leads /\ r.term = nd[v].term
                  /\ last_log_index(r) = last_log_index(nd[v]) /\ Along(ch, r, r.term)
    /\ a = sn[v].append \/ a.term >= nd[v].term
    /\ a.term <= r.term /\ a.index <= Len(ch[a.term])
    /\ \A i \in 1 .. a.index :
         At(ch, a.term, i, a.term) => Has(ch, r, i, a.term) \/ Dead(nd, sn, i, a.term)

LEMMA AllMove ==
    ASSUME NEW nd, NEW ch, NEW sn, NEW nd2, NEW sn2, Typed(nd, sn), Typed(nd2, sn2),
           Raft(nd, ch, sn),
           \A v \in Node : Moves(nd, ch, sn, v, nd2[v], sn2[v].append)
    PROVE  Raft(nd2, ch, sn2) /\ Later(nd, ch, nd2, ch)
<1>0. /\ ChainOK(ch) /\ Voter \subseteq Node /\ \A q \in Quorum : q \subseteq Voter
      /\ \A t \in Term : t \in Nat /\ Len(ch[t]) \in Nat
      /\ \A v \in Node : /\ nd[v].term \in Nat /\ nd2[v].term \in Nat
                         /\ sn[v].append.term \in Nat /\ sn2[v].append.term \in Nat
  BY TermNat, ChainLen, ReplicaAssumption DEF Raft, Quorum, Typed
<1>1. ASSUME NEW v \in Node
      PROVE  nd2[v].term >= nd[v].term
  BY DEF Moves
<1>2. ASSUME NEW t \in Term, NEW i \in Nat, Durable(nd, ch, i, t)
      PROVE  Durable(nd2, ch, i, t)
  <2>1. At(ch, t, i, t) /\ Stable(ch, i, t)
    BY <1>2 DEF Durable
  <2>2. PICK q \in Quorum : \A v \in q : nd[v].term >= t /\ Has(ch, nd[v], i, t)
    BY <1>2 DEF Durable
  <2>3. ASSUME NEW v \in q PROVE nd2[v].term >= t /\ Has(ch, nd2[v], i, t)
    <3>1. v \in Node /\ Moves(nd, ch, sn, v, nd2[v], sn2[v].append)
      BY <1>0
    <3>2. nd[v].term >= t /\ Has(ch, nd[v], i, t)
      BY <2>2
    <3>3. Has(ch, nd2[v], i, t)
      BY <2>1, <3>1, <3>2 DEF Moves
    <3> QED BY <1>0, <1>1, <3>1, <3>2, <3>3
  <2> QED BY <2>1, <2>3 DEF Durable
<1>3. Later(nd, ch, nd2, ch)
  BY <1>0, <1>2 DEF Later, Grows
<1>4. ASSUME NEW c, NEW t \in Term, NEW b, CommittedUpTo(nd, ch, c, t, b)
      PROVE  CommittedUpTo(nd2, ch, c, t, b)
  <2>1. CASE c = 0
    BY <2>1 DEF CommittedUpTo
  <2>2. CASE Committed(nd, ch, c, t, b)
    BY <1>0, <1>2, <2>2 DEF Committed, CommittedUpTo
  <2> QED BY <1>4, <2>1, <2>2 DEF CommittedUpTo
<1>5. ASSUME NEW i, NEW t \in Term, Dead(nd, sn, i, t)
      PROVE  Dead(nd2, sn2, i, t)
  <2>1. PICK q \in Quorum : \A v \in q :
            nd[v].term > t /\ ~(sn[v].append.term = t /\ sn[v].append.index >= i)
    BY <1>5 DEF Dead
  <2>2. ASSUME NEW v \in q
        PROVE  nd2[v].term > t /\ ~(sn2[v].append.term = t /\ sn2[v].append.index >= i)
    <3>1. v \in Node /\ Moves(nd, ch, sn, v, nd2[v], sn2[v].append)
      BY <1>0
    <3>2. nd[v].term > t /\ ~(sn[v].append.term = t /\ sn[v].append.index >= i)
      BY <2>1
    <3>3. sn2[v].append = sn[v].append \/ sn2[v].append.term >= nd[v].term
      BY <3>1 DEF Moves
    <3> QED BY <1>0, <1>1, <3>1, <3>2, <3>3
  <2> QED BY <2>2 DEF Dead
<1>6. ASSUME NEW n \in Node PROVE Placed(nd2, ch, n)
  <2>1. Moves(nd, ch, sn, n, nd2[n], sn2[n].append)
    OBVIOUS
  <2>2. PICK t \in Term : /\ t <= nd2[n].term /\ Along(ch, nd2[n], t)
                          /\ CommittedUpTo(nd, ch, nd2[n].commit, t, nd2[n].term)
    BY <2>1 DEF Moves
  <2> QED BY <1>4, <2>2 DEF Placed
<1>7. ASSUME NEW n \in Node PROVE LeaderOK(nd2, ch, n)
  <2>1. \A m \in Node : nd2[m].leads =>
            /\ nd[m].leads /\ nd2[m].term = nd[m].term /\ Along(ch, nd2[m], nd2[m].term)
            /\ last_log_index(nd2[m]) = last_log_index(nd[m])
    BY DEF Moves
  <2>2. LeaderOK(nd, ch, n)
    BY DEF Raft
  <2> QED BY <2>1, <2>2 DEF LeaderOK
<1>8. Elected(nd2, ch)
  <2> SUFFICES ASSUME NEW u \in Term, ch[u] # <<>>
               PROVE  \E q \in Quorum : \A v \in q : nd2[v].term >= u
    BY DEF Elected
  <2>1. PICK q \in Quorum : \A v \in q : nd[v].term >= u
    BY DEF Raft, Elected
  <2>2. \A v \in q : nd2[v].term >= u
    BY <1>0, <1>1, <2>1
  <2> QED BY <2>2
<1>9. Complete(nd2, ch, sn2)
  BY <1>5 DEF Complete, Raft
<1>10. ASSUME NEW v \in Node PROVE SentOK(nd2, ch, sn2, v)
  <2>1. v \in Node /\ Moves(nd, ch, sn, v, nd2[v], sn2[v].append) /\ sn2[v].append.term \in Term
    BY <1>0 DEF Typed
  <2> QED BY <1>5, <2>1 DEF SentOK, Moves
<1> QED
  BY <1>0, <1>3, <1>6, <1>7, <1>8, <1>9, <1>10 DEF Raft

(* A member whose log stays, or is compacted.                              *)
LEMMA MoveLike ==
    ASSUME NEW nd, NEW ch, NEW sn, Typed(nd, sn), Raft(nd, ch, sn), NEW v \in Node, NEW r,
           r.term \in Term, r.term >= nd[v].term, last_log_index(r) = last_log_index(nd[v]),
           \A t \in Term : Along(ch, nd[v], t) => Along(ch, r, t),
           r.leads => nd[v].leads /\ r.term = nd[v].term,
           r.commit = nd[v].commit \/
              \E t \in Term : /\ t <= r.term /\ Along(ch, nd[v], t)
                              /\ CommittedUpTo(nd, ch, r.commit, t, r.term)
    PROVE  Moves(nd, ch, sn, v, r, sn[v].append)
<1>0. /\ ChainOK(ch) /\ IsLog(nd[v]) /\ nd[v].term \in Term /\ nd[v].term \in Nat /\ r.term \in Nat
      /\ sn[v].append.term \in Term /\ sn[v].append.term \in Nat
      /\ Placed(nd, ch, v) /\ LeaderOK(nd, ch, v) /\ SentOK(nd, ch, sn, v)
      /\ \A t \in Term : t \in Nat
  BY TermNat DEF Raft, Typed
<1>1. \A i, t : Has(ch, nd[v], i, t) => Has(ch, r, i, t)
  BY DEF Has
<1>2. \E t \in Term : t <= r.term /\ Along(ch, r, t) /\ CommittedUpTo(nd, ch, r.commit, t, r.term)
  <2>1. CASE r.commit = nd[v].commit
    <3>1. PICK t \in Term : /\ t <= nd[v].term /\ Along(ch, nd[v], t)
                            /\ CommittedUpTo(nd, ch, nd[v].commit, t, nd[v].term)
      BY <1>0 DEF Placed
    <3>2. CommittedUpTo(nd, ch, nd[v].commit, t, r.term)
      BY <1>0, <3>1, UpToLater
    <3> QED BY <1>0, <2>1, <3>1, <3>2
  <2>2. CASE r.commit # nd[v].commit
    BY <2>2
  <2> QED BY <2>1, <2>2
<1>3. r.leads => Along(ch, r, r.term)
  BY <1>0 DEF LeaderOK
<1>4. /\ sn[v].append.term <= r.term /\ sn[v].append.index <= Len(ch[sn[v].append.term])
      /\ \A i \in 1 .. sn[v].append.index : At(ch, sn[v].append.term, i, sn[v].append.term) =>
            Has(ch, r, i, sn[v].append.term) \/ Dead(nd, sn, i, sn[v].append.term)
  BY <1>0, <1>1 DEF SentOK
<1> QED
  BY <1>1, <1>2, <1>3, <1>4 DEF Moves

LEMMA MoveStill ==
    ASSUME NEW nd, NEW ch, NEW sn, Typed(nd, sn), Raft(nd, ch, sn), NEW v \in Node
    PROVE  Moves(nd, ch, sn, v, nd[v], sn[v].append)
<1>1. nd[v].term \in Term /\ nd[v].term \in Nat
  BY TermNat DEF Typed
<1>2. nd[v].term >= nd[v].term
  BY <1>1
<1> QED BY <1>1, <1>2, MoveLike

(* One member changes.                                                     *)
LEMMA OneMoves ==
    ASSUME NEW nd, NEW ch, NEW sn, NEW nd2, NEW sn2, Typed(nd, sn), Typed(nd2, sn2),
           Raft(nd, ch, sn), NEW n \in Node,
           Moves(nd, ch, sn, n, nd2[n], sn2[n].append),
           \A v \in Node : v # n => nd2[v] = nd[v] /\ sn2[v].append = sn[v].append
    PROVE  Raft(nd2, ch, sn2) /\ Later(nd, ch, nd2, ch)
<1>1. ASSUME NEW v \in Node PROVE Moves(nd, ch, sn, v, nd2[v], sn2[v].append)
  <2>1. CASE v = n
    BY <2>1
  <2>2. CASE v # n
    BY <2>2, MoveStill
  <2> QED BY <2>1, <2>2
<1> QED BY <1>1, AllMove

-----------------------------------------------------------------------------
(* A message of the leader of its term, or a snapshot, changes a log.      *)

AppendTyped(m) ==
    /\ m.term \in Term /\ m.prev \in Nat /\ m.prevTerm \in Term /\ m.commit \in Nat
    /\ m.entries \in Seq(Entry)

(* The message starts where r and the chain of its term agree.             *)
Meets(ch, r, x, m) ==
    /\ r.snap.index <= m.prev /\ m.prev <= last_log_index(r) /\ Same(ch, x, m.term, m.prev)
    /\ EndOf(m) = m.prev + Len(m.entries) /\ Len(m.entries) \in Nat
    /\ EndOf(m) <= Len(ch[m.term]) /\ EndOf(m) \in Nat
    /\ \A j \in Nat : m.prev < j /\ j <= EndOf(m) => m.entries[j - m.prev] = ch[m.term][j]

LEMMA AppendMeets ==
    ASSUME NEW nd, NEW ch, ChainOK(ch), NEW r, IsLog(r), NEW x \in Term, Along(ch, r, x),
           NEW m, AppendTyped(m), AppendFits(nd, ch, m), term_at(r, m.prev) = m.prevTerm
    PROVE  Meets(ch, r, x, m)
<1>0. /\ m.prev \in Nat /\ m.term \in Term /\ m.prevTerm \in Term /\ Len(m.entries) \in Nat
      /\ m.prevTerm \in Nat /\ m.prevTerm <= MaxTerm /\ MaxTerm \in Nat
      /\ Len(ch[m.term]) \in Nat /\ Len(ch[x]) \in Nat
      /\ last_log_index(r) \in Nat /\ r.snap.index \in Nat
  BY TermNat, ChainLen, LogLen DEF AppendTyped
<1>1. r.snap.index <= m.prev /\ m.prev <= last_log_index(r)
  BY <1>0, LogLen DEF term_at
<1>2. /\ EndOf(m) = m.prev + Len(m.entries) /\ EndOf(m) <= Len(ch[m.term]) /\ EndOf(m) \in Nat
      /\ \A k \in 1 .. Len(m.entries) : m.entries[k] = ch[m.term][m.prev + k]
  BY <1>0 DEF EndOf, AppendFits
<1>3. Same(ch, x, m.term, m.prev)
  <2>1. CASE m.prev = 0
    BY <1>0, <2>1 DEF Same
  <2>2. CASE m.prev # 0
    <3>1. At(ch, x, m.prev, m.prevTerm)
      BY <1>0, <1>1, <2>2, AlongAt
    <3>2. m.prev \in 1 .. Len(ch[m.term])
      BY <1>0, <1>2, <2>2
    <3>3. At(ch, m.term, m.prev, m.prevTerm)
      BY <2>2, <3>2 DEF At, AppendFits
    <3> QED BY <1>0, <3>1, <3>3, SameTerm
  <2> QED BY <2>1, <2>2
<1>4. ASSUME NEW j \in Nat, m.prev < j, j <= EndOf(m)
      PROVE  m.entries[j - m.prev] = ch[m.term][j]
  <2>1. j - m.prev \in 1 .. Len(m.entries) /\ m.prev + (j - m.prev) = j
    BY <1>0, <1>2, <1>4
  <2>2. m.entries[j - m.prev] = ch[m.term][m.prev + (j - m.prev)]
    BY <1>2, <2>1
  <2> QED BY <2>1, <2>2
<1> QED
  BY <1>0, <1>1, <1>2, <1>3, <1>4 DEF Meets

LEMMA SameDown ==
    ASSUME NEW ch, ChainOK(ch), NEW t \in Term, NEW u \in Term, NEW i \in Nat, NEW j \in Nat,
           Same(ch, t, u, i), j <= i
    PROVE  Same(ch, t, u, j) /\ Same(ch, u, t, j) /\ Same(ch, t, t, j) /\ Same(ch, u, u, j)
BY ChainLen DEF Same

LEMMA UpToDown ==
    ASSUME NEW nd, NEW ch, ChainOK(ch), NEW c \in Nat, NEW t \in Term, NEW b,
           CommittedUpTo(nd, ch, c, t, b), NEW d \in Nat, d <= c, NEW u \in Term, Same(ch, t, u, d)
    PROVE  CommittedUpTo(nd, ch, d, u, b)
<1>1. CASE c = 0
  BY <1>1 DEF CommittedUpTo
<1>2. CASE Committed(nd, ch, c, t, b)
  BY <1>2, CommittedDown
<1> QED BY <1>1, <1>2 DEF CommittedUpTo

(* c consists of s and t.                                                  *)
Joined(c, s, t) ==
    /\ c \in Seq(Entry) /\ Len(c) = Len(s) + Len(t)
    /\ \A i \in 1 .. Len(s) + Len(t) : c[i] = IF i <= Len(s) THEN s[i] ELSE t[i - Len(s)]

LEMMA JoinedOf == \A s, t \in Seq(Entry) : Joined(s \o t, s, t)
<1> SUFFICES ASSUME NEW s \in Seq(Entry), NEW t \in Seq(Entry) PROVE Joined(s \o t, s, t)
  OBVIOUS
<1> QED BY DEF Joined

(* What Storage::append_entries leaves.                                    *)
LEMMA AppendLog ==
    ASSUME NEW nd, NEW ch, ChainOK(ch), NEW r, IsLog(r), NEW x \in Term, Along(ch, r, x),
           NEW m, AppendTyped(m), AppendFits(nd, ch, m), term_at(r, m.prev) = m.prevTerm,
           r.commit \in Nat, r.commit <= last_log_index(r),
           \A k \in 1 .. Len(m.entries) :
               m.prev + k <= r.commit => ~Differs(r, m.prev, m.entries, k),
           NEW r2, r2.snap = r.snap, r2.log = append_entries(r, m.prev, m.entries)
    PROVE  /\ IsLog(r2)
           /\ \/ /\ r2.log = r.log /\ EndOf(m) <= last_log_index(r)
                 /\ Same(ch, x, m.term, EndOf(m))
              \/ /\ Along(ch, r2, m.term) /\ last_log_index(r2) = EndOf(m)
                 /\ r.commit < EndOf(m) /\ Same(ch, x, m.term, r.commit)
                 /\ \E c \in Nat \ {0} : /\ c <= EndOf(m)
                                         /\ c > last_log_index(r) \/ ch[x][c] # ch[m.term][c]
<1> DEFINE p == m.prev
           s == r.snap.index
           l == last_log_index(r)
           e == EndOf(m)
           u == m.term
           es == m.entries
<1>1. /\ s <= p /\ p <= l /\ Same(ch, x, u, p)
      /\ e = p + Len(es) /\ Len(es) \in Nat /\ e <= Len(ch[u]) /\ e \in Nat
      /\ \A j \in Nat : p < j /\ j <= e => es[j - p] = ch[u][j]
  <2>1. Meets(ch, r, x, m)
    BY AppendMeets
  <2> QED BY <2>1 DEF Meets
<1>2. /\ s \in Nat /\ p \in Nat /\ l \in Nat /\ u \in Term /\ Len(ch[u]) \in Nat /\ Len(ch[x]) \in Nat
      /\ l = s + Len(r.log) /\ Len(r.log) \in Nat /\ l <= Len(ch[x])
      /\ r.log \in Seq(Entry) /\ es \in Seq(Entry)
  <2>1. p \in Nat /\ u \in Term /\ es \in Seq(Entry)
    BY DEF AppendTyped
  <2>2. s \in Nat /\ l \in Nat /\ l = s + Len(r.log) /\ Len(r.log) \in Nat
    BY LogLen
  <2>3. Len(ch[u]) \in Nat /\ Len(ch[x]) \in Nat
    BY <2>1, ChainLen
  <2>4. l <= Len(ch[x]) /\ r.log \in Seq(Entry)
    BY DEF Along, IsLog
  <2> QED BY <2>1, <2>2, <2>3, <2>4
<1>a. /\ \A i \in 1 .. Len(r.log) : r.log[i] = ch[x][s + i]
      /\ s = 0 => r.snap.term = 0
      /\ s # 0 => ch[x][s].term = r.snap.term
  BY DEF Along
<1>b. /\ r2.log = IF \E k \in 1 .. Len(es) : Differs(r, p, es, k)
                  THEN SubSeq(r.log, 1, p - s) \o es ELSE r.log
      /\ r2.snap.index = s /\ r2.snap.term \in Term /\ r2.snap.term = r.snap.term
  BY DEF append_entries, IsLog
<1>c. \A k : Differs(r, p, es, k) <=> (p + k > l \/ entry(r, p + k) # es[k])
  BY DEF Differs
<1>d. \A k \in 1 .. Len(es) : p + k <= r.commit => ~Differs(r, p, es, k)
  OBVIOUS
<1>e. \A i \in Nat : s < i /\ i <= l => entry(r, i) = ch[x][i]
  <2> SUFFICES ASSUME NEW i \in Nat, s < i, i <= l PROVE entry(r, i) = ch[x][i]
    OBVIOUS
  <2>1. i \in Nat \ {0} /\ s <= i
    BY <1>2
  <2> QED BY <2>1, AlongAt
<1>f. r.commit \in Nat /\ r.commit <= l
  OBVIOUS
<1> HIDE DEF p, s, l, e, u, es
<1>3. ASSUME NEW k \in 1 .. Len(es)
      PROVE  Differs(r, p, es, k) <=> (p + k > l \/ ch[x][p + k] # ch[u][p + k])
  <2>1. p + k \in Nat /\ p < p + k /\ p + k <= e /\ (p + k) - p = k
    BY <1>1, <1>2
  <2>2. es[k] = ch[u][p + k]
    BY <1>1, <2>1
  <2>3. ASSUME p + k <= l PROVE entry(r, p + k) = ch[x][p + k]
    BY <1>1, <1>2, <1>e, <2>1, <2>3
  <2> QED BY <1>2, <1>c, <2>1, <2>2, <2>3
<1>4. CASE \E k \in 1 .. Len(es) : Differs(r, p, es, k)
  <2> DEFINE a == SubSeq(r.log, 1, p - s)
  <2>1. PICK k \in 1 .. Len(es) : Differs(r, p, es, k)
    BY <1>4
  <2>2. p + k \in Nat \ {0} /\ p + k <= e /\ (p + k > l \/ ch[x][p + k] # ch[u][p + k])
    BY <1>1, <1>2, <1>3, <2>1
  <2>3. ~(p + k <= r.commit)
    BY <1>d, <2>1
  <2>4. r.commit < e
    BY <1>1, <1>2, <2>2, <2>3
  <2>5. Same(ch, x, u, r.commit)
    <3>1. ASSUME NEW j \in 1 .. r.commit PROVE ch[x][j] = ch[u][j]
      <4>1. CASE j <= p
        BY <1>1, <1>2, <4>1, SameParts
      <4>2. CASE j > p
        <5>1. j - p \in 1 .. Len(es) /\ p + (j - p) = j /\ p + (j - p) <= r.commit
          BY <1>1, <1>2, <2>4, <4>2
        <5>2. ~Differs(r, p, es, j - p)
          BY <1>d, <5>1
        <5>3. ch[x][p + (j - p)] = ch[u][p + (j - p)]
          BY <1>3, <5>1, <5>2
        <5> QED BY <5>1, <5>3
      <4> QED BY <1>2, <4>1, <4>2
    <3>2. r.commit <= Len(ch[x]) /\ r.commit <= Len(ch[u])
      BY <1>1, <1>2, <1>f, <2>4
    <3> QED BY <3>1, <3>2 DEF Same
  <2>6. a \in Seq(Entry) /\ Len(a) = p - s /\ \A i \in 1 .. (p - s) : a[i] = r.log[i]
    BY <1>1, <1>2
  <2>7. r2.log = a \o es
    BY <1>4, <1>b
  <2> HIDE DEF a
  <2>8. /\ a \o es \in Seq(Entry) /\ Len(a \o es) = (p - s) + Len(es)
        /\ \A i \in 1 .. (p - s) + Len(es) :
              (a \o es)[i] = IF i <= p - s THEN a[i] ELSE es[i - (p - s)]
    <3>1. a \in Seq(Entry) /\ es \in Seq(Entry)
      BY <1>2, <2>6
    <3>2. Joined(a \o es, a, es)
      BY <3>1, JoinedOf, Zenon
    <3> HIDE DEF a
    <3> QED BY <2>6, <3>2 DEF Joined
  <2>9. IsLog(r2) /\ last_log_index(r2) = e
    <3>1. r2.log \in Seq(Entry) /\ Len(r2.log) = (p - s) + Len(es)
      BY <2>7, <2>8
    <3>2. s + ((p - s) + Len(es)) = e
      BY <1>1, <1>2
    <3> QED BY <1>2, <1>b, <3>1, <3>2 DEF IsLog, last_log_index
  <2>10. ASSUME NEW i \in 1 .. Len(r2.log) PROVE r2.log[i] = ch[u][s + i]
    <3>1. i \in 1 .. (p - s) + Len(es)
      BY <2>7, <2>8
    <3>2. CASE i <= p - s
      <4>1. s + i \in 1 .. p /\ i \in 1 .. (p - s) /\ i \in 1 .. Len(r.log)
        BY <1>1, <1>2, <3>1, <3>2
      <4>2. r2.log[i] = r.log[i]
        BY <2>6, <2>7, <2>8, <3>1, <3>2, <4>1
      <4>3. r.log[i] = ch[x][s + i]
        BY <1>a, <4>1
      <4>4. ch[x][s + i] = ch[u][s + i]
        BY <1>1, <4>1 DEF Same
      <4> QED BY <4>2, <4>3, <4>4
    <3>3. CASE ~(i <= p - s)
      <4>1. s + i \in Nat /\ p < s + i /\ s + i <= e /\ (s + i) - p = i - (p - s)
        BY <1>1, <1>2, <3>1, <3>3
      <4>2. es[(s + i) - p] = ch[u][s + i]
        BY <1>1, <4>1
      <4> QED BY <2>7, <2>8, <3>1, <3>3, <4>1, <4>2
    <3> QED BY <3>2, <3>3
  <2>11. s # 0 => ch[u][s].term = r.snap.term
    <3> SUFFICES ASSUME s # 0 PROVE ch[u][s].term = r.snap.term
      OBVIOUS
    <3>1. s \in 1 .. p
      BY <1>1, <1>2
    <3>2. ch[x][s] = ch[u][s]
      BY <1>1, <3>1 DEF Same
    <3> QED BY <1>a, <3>2
  <2>12. Along(ch, r2, u)
    BY <1>1, <1>a, <1>b, <2>9, <2>10, <2>11 DEF Along
  <2> QED BY <2>2, <2>4, <2>5, <2>9, <2>12 DEF p, s, l, e, u, es
<1>5. CASE ~\E k \in 1 .. Len(es) : Differs(r, p, es, k)
  <2>1. r2.log = r.log
    BY <1>5, <1>b
  <2>2. e <= l
    <3>1. CASE Len(es) = 0
      BY <1>1, <1>2, <3>1
    <3>2. CASE Len(es) # 0
      <4>1. Len(es) \in 1 .. Len(es)
        BY <1>1, <3>2
      <4>2. ~(p + Len(es) > l)
        BY <1>3, <1>5, <4>1
      <4> QED BY <1>1, <1>2, <4>2
    <3> QED BY <3>1, <3>2
  <2>3. ASSUME NEW j \in 1 .. e PROVE ch[x][j] = ch[u][j]
    <3>1. CASE j <= p
      BY <1>1, <1>2, <3>1, SameParts
    <3>2. CASE j > p
      <4>1. j - p \in 1 .. Len(es) /\ p + (j - p) = j
        BY <1>1, <1>2, <3>2
      <4>2. ch[x][p + (j - p)] = ch[u][p + (j - p)]
        BY <1>3, <1>5, <4>1
      <4> QED BY <4>1, <4>2
    <3> QED BY <1>1, <1>2, <3>1, <3>2
  <2>4. Same(ch, x, u, e)
    BY <1>1, <1>2, <2>2, <2>3 DEF Same
  <2> QED BY <1>2, <1>b, <2>1, <2>2, <2>4 DEF IsLog, p, s, l, e, u, es
<1> QED BY <1>4, <1>5

(* A member has committed a prefix of every chain its log runs along.      *)
LEMMA PlacedAt ==
    ASSUME NEW nd, NEW ch, NEW sn, Typed(nd, sn), Raft(nd, ch, sn), NEW v \in Node,
           NEW x \in Term, Along(ch, nd[v], x)
    PROVE  CommittedUpTo(nd, ch, nd[v].commit, x, nd[v].term)
<1>0. /\ ChainOK(ch) /\ IsLog(nd[v]) /\ nd[v].commit \in Nat
      /\ nd[v].commit <= last_log_index(nd[v]) /\ last_log_index(nd[v]) \in Nat
      /\ Placed(nd, ch, v)
  BY LogLen DEF Typed, Raft
<1>1. PICK t \in Term : /\ t <= nd[v].term /\ Along(ch, nd[v], t)
                        /\ CommittedUpTo(nd, ch, nd[v].commit, t, nd[v].term)
  BY <1>0 DEF Placed
<1>2. Same(ch, t, x, last_log_index(nd[v]))
  BY <1>0, <1>1, AlongUnique
<1>3. Same(ch, t, x, nd[v].commit)
  BY <1>0, <1>2, SameDown
<1>4. nd[v].commit <= nd[v].commit
  BY <1>0
<1> QED BY <1>0, <1>1, <1>3, <1>4, UpToDown

LEMMA StableOrDead ==
    ASSUME NEW nd, NEW ch, NEW sn, Raft(nd, ch, sn), NEW t \in Term, NEW i, At(ch, t, i, t)
    PROVE  Stable(ch, i, t) \/ Dead(nd, sn, i, t)
<1>1. i \in 1 .. Len(ch[t]) /\ ch[t][i].term = t
  BY DEF At
<1>2. Complete(nd, ch, sn)
  BY DEF Raft
<1>3. \A u \in Term : u > t <=> t < u
  BY TermNat
<1> QED BY <1>1, <1>2, <1>3 DEF Complete, Stable

(* A member that keeps what is stable may keep its acknowledgement.        *)
LEMMA SentKept ==
    ASSUME NEW nd, NEW ch, NEW sn, Typed(nd, sn), Raft(nd, ch, sn), NEW v \in Node, NEW r,
           \A t \in Term : \A i \in Nat :
              At(ch, t, i, t) /\ Stable(ch, i, t) /\ Has(ch, nd[v], i, t) => Has(ch, r, i, t),
           NEW i \in 1 .. sn[v].append.index, At(ch, sn[v].append.term, i, sn[v].append.term)
    PROVE  Has(ch, r, i, sn[v].append.term) \/ Dead(nd, sn, i, sn[v].append.term)
<1> DEFINE t == sn[v].append.term
<1>1. t \in Term /\ SentOK(nd, ch, sn, v) /\ i \in Nat
  BY DEF Typed, Raft
<1>2. Has(ch, nd[v], i, t) \/ Dead(nd, sn, i, t)
  BY <1>1 DEF SentOK
<1>3. Stable(ch, i, t) \/ Dead(nd, sn, i, t)
  BY <1>1, StableOrDead
<1> HIDE DEF t
<1>4. CASE Has(ch, nd[v], i, t) /\ Stable(ch, i, t)
  BY <1>1, <1>4 DEF t
<1> QED BY <1>2, <1>3, <1>4 DEF t

(* What a quorum has acknowledged to its leader is durable.                *)
LEMMA QuorumDurable ==
    ASSUME NEW nd, NEW ch, NEW sn, Typed(nd, sn), Raft(nd, ch, sn), NEW t \in Term, NEW i,
           At(ch, t, i, t), NEW q \in Quorum,
           \A v \in q : \/ nd[v].term = t /\ Has(ch, nd[v], i, t)
                        \/ sn[v].append.term = t /\ sn[v].append.index >= i
    PROVE  Durable(nd, ch, i, t)
<1>0. /\ Voter \subseteq Node /\ \A s \in Quorum : s \subseteq Voter
      /\ \A v \in Node : nd[v].term \in Nat /\ sn[v].append.index \in Nat /\ SentOK(nd, ch, sn, v)
      /\ ChainOK(ch) /\ t \in Nat
  BY TermNat, ReplicaAssumption DEF Quorum, Typed, Raft
<1>1. ~Dead(nd, sn, i, t)
  <2> SUFFICES ASSUME NEW s \in Quorum,
                      \A v \in s : nd[v].term > t /\ ~(sn[v].append.term = t /\ sn[v].append.index >= i)
               PROVE  FALSE
    BY DEF Dead
  <2>1. PICK v \in Voter : v \in q /\ v \in s
    BY QuorumMeet
  <2>2. nd[v].term > t /\ ~(sn[v].append.term = t /\ sn[v].append.index >= i) /\ nd[v].term \in Nat
    BY <1>0, <2>1
  <2> QED BY <1>0, <2>1, <2>2
<1>2. Stable(ch, i, t)
  BY <1>1, StableOrDead
<1>3. ASSUME NEW v \in q PROVE nd[v].term >= t /\ Has(ch, nd[v], i, t)
  <2>1. v \in Node
    BY <1>0
  <2>2. CASE nd[v].term = t /\ Has(ch, nd[v], i, t)
    BY <1>0, <2>1, <2>2
  <2>3. CASE sn[v].append.term = t /\ sn[v].append.index >= i
    <3>1. i \in Nat \ {0}
      BY <1>0, AtParts
    <3>2. i \in 1 .. sn[v].append.index
      BY <1>0, <2>1, <2>3, <3>1
    <3>3. t <= nd[v].term /\ (Has(ch, nd[v], i, t) \/ Dead(nd, sn, i, t))
      BY <1>0, <2>1, <2>3, <3>2 DEF SentOK
    <3> QED BY <1>0, <1>1, <2>1, <3>3
  <2> QED BY <2>2, <2>3
<1> QED BY <1>2, <1>3 DEF Durable

LEMMA MaxOf ==
    ASSUME NEW a \in Nat, NEW b \in Nat
    PROVE  /\ Max({a, b}) \in Nat /\ (Max({a, b}) = a \/ Max({a, b}) = b)
           /\ Max({a, b}) >= a /\ Max({a, b}) >= b
<1>1. \E x \in {a, b} : \A y \in {a, b} : x >= y
  OBVIOUS
<1>2. Max({a, b}) \in {a, b} /\ \A y \in {a, b} : Max({a, b}) >= y
  BY <1>1 DEF Max
<1> QED BY <1>2

LEMMA MinOf ==
    ASSUME NEW a \in Nat, NEW b \in Nat
    PROVE  /\ Min({a, b}) \in Nat /\ (Min({a, b}) = a \/ Min({a, b}) = b)
           /\ Min({a, b}) <= a /\ Min({a, b}) <= b
<1>1. \E x \in {a, b} : \A y \in {a, b} : x <= y
  OBVIOUS
<1>2. Min({a, b}) \in {a, b} /\ \A y \in {a, b} : Min({a, b}) <= y
  BY <1>1 DEF Min
<1> QED BY <1>2

(* A log that ends at e on the chain of u.                                 *)
LEMMA AppendKeeps ==
    ASSUME NEW ch, ChainOK(ch), NEW r, IsLog(r), NEW x \in Term, Along(ch, r, x), NEW u \in Term, x <= u,
           NEW e \in Nat, ch[u] # <<>>,
           NEW c \in Nat \ {0}, c <= e, c > last_log_index(r) \/ ch[x][c] # ch[u][c],
           NEW r2, Along(ch, r2, u), last_log_index(r2) = e,
           NEW t \in Term, NEW i \in Nat, At(ch, t, i, t), Stable(ch, i, t), Has(ch, r, i, t)
    PROVE  Has(ch, r2, i, t)
<1>1. /\ i <= last_log_index(r) /\ At(ch, x, i, t) /\ last_log_index(r) \in Nat
      /\ x \in Nat /\ u \in Nat /\ t \in Nat /\ t <= x /\ i \in Nat \ {0}
  <2>1. i <= last_log_index(r) /\ At(ch, x, i, t) /\ i \in Nat \ {0}
    BY HasAlong
  <2>2. t <= x
    BY <2>1, AtParts
  <2> QED BY <2>1, <2>2, LogLen, TermNat
<1>2. At(ch, u, i, t)
  <2>1. CASE t < u
    BY <1>1, <2>1 DEF Stable
  <2>2. CASE ~(t < u)
    <3>1. x = u
      BY <1>1, <2>2
    <3> QED BY <1>1, <3>1
  <2> QED BY <2>1, <2>2
<1>3. Same(ch, x, u, i)
  BY <1>1, <1>2, SameTerm
<1>4. ~(c <= i)
  <2> SUFFICES ASSUME c <= i PROVE FALSE
    OBVIOUS
  <2>1. c \in 1 .. i /\ ~(c > last_log_index(r))
    BY <1>1
  <2>2. ch[x][c] = ch[u][c]
    BY <1>3, <2>1 DEF Same
  <2> QED BY <2>1, <2>2
<1>5. i <= last_log_index(r2)
  BY <1>1, <1>4
<1> QED BY <1>2, <1>5 DEF Has

Follows(r, m, r2) ==
    /\ r2.term = r.term /\ r2.leads = r.leads /\ r2.snap = r.snap
    /\ r2.log = append_entries(r, m.prev, m.entries)
    /\ r2.commit = Max({r.commit, Min({m.commit, EndOf(m)})})

LEMMA MoveAppend ==
    ASSUME NEW nd, NEW ch, NEW sn, Typed(nd, sn), Raft(nd, ch, sn), NEW v \in Node,
           NEW m, AppendTyped(m), AppendFits(nd, ch, m), m.term = nd[v].term, Appends(nd[v], m),
           NEW r, Follows(nd[v], m, r),
           NEW a, a.term = m.term,
           a.index \in Nat,
           a.index = EndOf(m) \/ (sn[v].append.term = m.term /\ a.index = sn[v].append.index)
    PROVE  /\ IsLog(r) /\ r.commit \in Nat /\ nd[v].commit <= r.commit
           /\ r.commit <= last_log_index(r)
           /\ Moves(nd, ch, sn, v, r, a)
<1> DEFINE e == EndOf(m)
           u == m.term
           d == Min({m.commit, e})
<1>0. /\ ChainOK(ch) /\ IsLog(nd[v]) /\ nd[v].commit \in Nat /\ nd[v].term \in Term
      /\ nd[v].commit <= last_log_index(nd[v]) /\ last_log_index(nd[v]) \in Nat
      /\ Placed(nd, ch, v) /\ LeaderOK(nd, ch, v) /\ SentOK(nd, ch, sn, v)
      /\ u \in Term /\ m.commit \in Nat /\ Len(ch[u]) \in Nat /\ u \in Nat
  BY LogLen, ChainLen, TermNat DEF Typed, Raft, AppendTyped
<1>1. PICK x \in Term : x <= u /\ Along(ch, nd[v], x) /\ (nd[v].leads => x = u)
  <2>1. CASE nd[v].leads
    <3>1. Along(ch, nd[v], u) /\ u <= u
      BY <1>0, <2>1 DEF LeaderOK
    <3> QED BY <1>0, <3>1
  <2>2. CASE ~nd[v].leads
    BY <1>0, <2>2 DEF Placed
  <2> QED BY <2>1, <2>2
<1>2. /\ e \in Nat /\ e <= Len(ch[u])
  <2>1. term_at(nd[v], m.prev) = m.prevTerm
    BY DEF Appends
  <2>2. Meets(ch, nd[v], x, m)
    BY <1>0, <1>1, <2>1, AppendMeets
  <2> QED BY <2>2 DEF Meets
<1>3. /\ IsLog(r)
      /\ \/ /\ r.log = nd[v].log /\ e <= last_log_index(nd[v]) /\ Same(ch, x, u, e)
         \/ /\ Along(ch, r, u) /\ last_log_index(r) = e
            /\ nd[v].commit < e /\ Same(ch, x, u, nd[v].commit)
            /\ \E c \in Nat \ {0} : /\ c <= e
                                    /\ c > last_log_index(nd[v]) \/ ch[x][c] # ch[u][c]
  BY <1>0, <1>1, AppendLog DEF Appends, Follows
<1>4. /\ d \in Nat /\ d <= m.commit /\ d <= e /\ r.commit \in Nat /\ nd[v].commit <= r.commit
      /\ r.commit = d \/ r.commit = nd[v].commit
  <2>1. d \in Nat /\ d <= m.commit /\ d <= e
    BY <1>0, <1>2, MinOf
  <2>2. r.commit = Max({nd[v].commit, d})
    BY DEF Follows
  <2> HIDE DEF d
  <2> QED BY <1>0, <2>1, <2>2, MaxOf
<1>5. CommittedUpTo(nd, ch, m.commit, u, u) /\ CommittedUpTo(nd, ch, nd[v].commit, x, u)
  <2>1. CommittedUpTo(nd, ch, nd[v].commit, x, nd[v].term)
    BY <1>1, PlacedAt
  <2> QED BY <2>1 DEF AppendFits
<1>6. r.term = u /\ r.leads = nd[v].leads /\ r.snap = nd[v].snap /\ r.term >= nd[v].term
  BY <1>0 DEF Follows
<1>c. /\ m.commit \in Nat /\ nd[v].commit \in Nat /\ u = nd[v].term /\ a.term = u
      /\ a.index = e \/ (sn[v].append.term = u /\ a.index = sn[v].append.index)
      /\ a.index \in Nat
  BY <1>0
<1> HIDE DEF e, u, d
<1>7. ASSUME NEW y \in Term, y <= u, Along(ch, r, y), e <= last_log_index(r), Same(ch, y, u, e),
             CommittedUpTo(nd, ch, nd[v].commit, y, u),
             nd[v].leads => y = u /\ last_log_index(r) = last_log_index(nd[v]),
             \A t \in Term : \A i \in Nat :
               At(ch, t, i, t) /\ Stable(ch, i, t) /\ Has(ch, nd[v], i, t) => Has(ch, r, i, t)
      PROVE  Moves(nd, ch, sn, v, r, a)
  <2>1. CommittedUpTo(nd, ch, r.commit, y, u)
    <3>1. CASE r.commit = d
      <4>1. Same(ch, u, y, d)
        BY <1>0, <1>2, <1>4, <1>7, SameDown
      <4>2. CommittedUpTo(nd, ch, d, y, u)
        BY <1>0, <1>4, <1>5, <4>1, UpToDown
      <4> QED BY <3>1, <4>2
    <3>2. CASE r.commit = nd[v].commit
      BY <1>7, <3>2
    <3> QED BY <1>4, <3>1, <3>2
  <2>2. ASSUME NEW i \in 1 .. a.index, At(ch, u, i, u)
        PROVE  Has(ch, r, i, u) \/ Dead(nd, sn, i, u)
    <3>1. CASE a.index = e
      <4>1. i \in 1 .. e /\ i \in Nat /\ i <= last_log_index(r)
        BY <1>2, <1>3, <1>7, <3>1, LogLen
      <4>2. At(ch, y, i, u)
        BY <1>0, <1>2, <1>7, <2>2, <4>1, SameParts
      <4> QED BY <1>7, <4>1, <4>2 DEF Has
    <3>2. CASE sn[v].append.term = u /\ a.index = sn[v].append.index
      BY <1>7, <2>2, <3>2, SentKept
    <3> QED BY <1>c, <3>1, <3>2
  <2>3. a.index <= Len(ch[u])
    <3>1. CASE a.index = e
      BY <1>2, <3>1
    <3>2. CASE sn[v].append.term = u /\ a.index = sn[v].append.index
      BY <1>0, <3>2 DEF SentOK
    <3> QED BY <1>c, <3>1, <3>2
  <2>4. a.term >= nd[v].term /\ a.term <= r.term
    BY <1>0, <1>6, <1>c
  <2>5. r.leads => /\ nd[v].leads /\ r.term = nd[v].term
                   /\ last_log_index(r) = last_log_index(nd[v]) /\ Along(ch, r, r.term)
    BY <1>6, <1>7, <1>c
  <2>6. /\ \E t \in Term : t <= r.term /\ Along(ch, r, t) /\ CommittedUpTo(nd, ch, r.commit, t, r.term)
        /\ \A i \in 1 .. a.index : At(ch, a.term, i, a.term) =>
              Has(ch, r, i, a.term) \/ Dead(nd, sn, i, a.term)
        /\ a.index <= Len(ch[a.term])
    BY <1>6, <1>7, <1>c, <2>1, <2>2, <2>3
  <2> QED BY <1>6, <1>7, <2>4, <2>5, <2>6 DEF Moves
<1>8. CASE r.log = nd[v].log /\ e <= last_log_index(nd[v]) /\ Same(ch, x, u, e)
  <2>1. last_log_index(r) = last_log_index(nd[v]) /\ (\A t : Along(ch, nd[v], t) => Along(ch, r, t))
    BY <1>6, <1>8 DEF last_log_index, Along
  <2>2. \A i, t : Has(ch, nd[v], i, t) => Has(ch, r, i, t)
    BY <2>1 DEF Has
  <2>3. Moves(nd, ch, sn, v, r, a)
    BY <1>1, <1>5, <1>7, <1>8, <2>1, <2>2
  <2>4. r.commit <= last_log_index(r)
    BY <1>0, <1>2, <1>4, <1>8, <2>1
  <2> QED BY <1>3, <1>4, <2>3, <2>4
<1>9. CASE /\ Along(ch, r, u) /\ last_log_index(r) = e
           /\ nd[v].commit < e /\ Same(ch, x, u, nd[v].commit)
           /\ \E c \in Nat \ {0} : c <= e /\ (c > last_log_index(nd[v]) \/ ch[x][c] # ch[u][c])
  <2>1. PICK c \in Nat \ {0} : c <= e /\ (c > last_log_index(nd[v]) \/ ch[x][c] # ch[u][c])
    BY <1>9
  <2>2. ~nd[v].leads
    <3> SUFFICES ASSUME nd[v].leads PROVE FALSE
      OBVIOUS
    <3>1. x = u /\ last_log_index(nd[v]) = Len(ch[u])
      BY <1>0, <1>1, <1>c DEF LeaderOK
    <3> QED BY <1>0, <1>2, <2>1, <3>1
  <2>3. u <= u /\ e <= e /\ Same(ch, u, u, e) /\ ch[u] # <<>>
    <3>1. e <= e /\ e > 0 /\ u <= u
      BY <1>0, <1>2, <2>1
    <3>2. Same(ch, u, u, e)
      BY <1>0, <1>2 DEF Same
    <3>3. Len(ch[u]) > 0
      BY <1>0, <1>2, <3>1
    <3>4. ch[u] # <<>>
      BY <1>0, <3>3, ChainLen
    <3> QED BY <3>1, <3>2, <3>4
  <2>4. CommittedUpTo(nd, ch, nd[v].commit, u, u)
    <3>1. nd[v].commit <= nd[v].commit
      BY <1>0
    <3> QED BY <1>0, <1>5, <1>9, <3>1, UpToDown
  <2>5. \A t \in Term : \A i \in Nat :
          At(ch, t, i, t) /\ Stable(ch, i, t) /\ Has(ch, nd[v], i, t) => Has(ch, r, i, t)
    BY <1>0, <1>1, <1>2, <1>9, <2>1, <2>3, AppendKeeps
  <2>6. Moves(nd, ch, sn, v, r, a)
    BY <1>0, <1>7, <1>9, <2>2, <2>3, <2>4, <2>5
  <2>7. r.commit <= last_log_index(r)
    BY <1>0, <1>2, <1>4, <1>9
  <2> QED BY <1>3, <1>4, <2>6, <2>7
<1> QED BY <1>3, <1>8, <1>9

(* What Storage::install_snapshot leaves.                                  *)
Installed(r, s, r2) ==
    /\ r2.term = r.term /\ r2.leads = r.leads /\ r2.snap = s
    /\ r2.log = IF term_at(r, s.index) = s.term
                THEN Between(r, s.index, last_log_index(r)) ELSE <<>>
    /\ r2.commit = s.index

(* c is the part of the log of r from i + 1 to j.                          *)
Part(r, i, j, c) ==
    /\ c \in Seq(Entry) /\ Len(c) = j - i
    /\ \A k \in 1 .. j - i : c[k] = r.log[(i - r.snap.index) + k]

LEMMA BetweenOf ==
    ASSUME NEW r, IsLog(r), NEW i \in Nat, NEW j \in Nat, r.snap.index <= i, i <= j,
           j <= last_log_index(r)
    PROVE  Part(r, i, j, Between(r, i, j))
<1>1. /\ r.log \in Seq(Entry) /\ r.snap.index \in Nat /\ Len(r.log) \in Nat
      /\ last_log_index(r) = r.snap.index + Len(r.log)
  BY LogLen DEF IsLog
<1> DEFINE a == i + 1 - r.snap.index
           b == j - r.snap.index
<1>e. i \in Nat /\ j \in Nat /\ r.snap.index <= i /\ i <= j /\ j <= last_log_index(r)
  OBVIOUS
<1>2. /\ a \in 1 .. Len(r.log) + 1 /\ b \in 0 .. Len(r.log) /\ b - a + 1 = j - i
      /\ a <= b + 1 /\ a \in Nat /\ b \in Nat /\ j - i \in Nat
  <2> DEFINE s == r.snap.index
             n == Len(r.log)
  <2>1. s \in Nat /\ n \in Nat /\ i \in Nat /\ j \in Nat /\ s <= i /\ i <= j /\ j <= s + n
    BY <1>1, <1>e
  <2> HIDE DEF s, n
  <2>2. /\ i + 1 - s \in 1 .. n + 1 /\ j - s \in 0 .. n
        /\ (j - s) - (i + 1 - s) + 1 = j - i /\ i + 1 - s <= (j - s) + 1
        /\ i + 1 - s \in Nat /\ j - s \in Nat /\ j - i \in Nat
    BY <2>1
  <2> QED BY <2>2 DEF s, n
<1>f. ASSUME NEW k \in 1 .. j - i PROVE a + k - 1 = (i - r.snap.index) + k
  BY <1>1, <1>e
<1>3. Between(r, i, j) = SubSeq(r.log, a, b)
  BY DEF Between
<1> HIDE DEF a, b
<1>4. /\ SubSeq(r.log, a, b) \in Seq(Entry) /\ Len(SubSeq(r.log, a, b)) = b - a + 1
      /\ \A k \in 1 .. b - a + 1 : SubSeq(r.log, a, b)[k] = r.log[a + k - 1]
  BY <1>1, <1>2
<1> QED BY <1>2, <1>f, <1>3, <1>4 DEF Part

(* Cutting a log off at i that it has leaves it on its chains.             *)
LEMMA CutAlong ==
    ASSUME NEW ch, ChainOK(ch), NEW r, IsLog(r), NEW x \in Term, Along(ch, r, x),
           NEW i \in Nat, r.snap.index <= i, i <= last_log_index(r),
           NEW r2, r2.snap.index = i, r2.snap.term = term_at(r, i), r2.snap.term \in Term,
           r2.log = Between(r, i, last_log_index(r))
    PROVE  IsLog(r2) /\ last_log_index(r2) = last_log_index(r) /\ Along(ch, r2, x)
<1> DEFINE l == last_log_index(r)
           s == r.snap.index
<1>1. /\ l \in Nat /\ s \in Nat /\ s <= l /\ l = s + Len(r.log) /\ Len(r.log) \in Nat /\ l <= l
      /\ l <= Len(ch[x]) /\ Len(ch[x]) \in Nat
  BY LogLen, ChainLen DEF Along
<1>2. /\ r2.log \in Seq(Entry) /\ Len(r2.log) = l - i
      /\ \A k \in 1 .. l - i : r2.log[k] = r.log[(i - s) + k]
  <2>1. Part(r, i, l, r2.log)
    BY <1>1, BetweenOf
  <2> QED BY <2>1 DEF Part
<1>3. \A k \in 1 .. Len(r.log) : r.log[k] = ch[x][s + k]
  BY DEF Along
<1>e. i \in Nat /\ s <= i /\ i <= l
  OBVIOUS
<1>4. IsLog(r2) /\ last_log_index(r2) = l
  BY <1>1, <1>2 DEF IsLog, last_log_index
<1> HIDE DEF l, s
<1>5. ASSUME NEW k \in 1 .. Len(r2.log) PROVE r2.log[k] = ch[x][i + k]
  <2>1. k \in 1 .. l - i /\ (i - s) + k \in 1 .. Len(r.log) /\ s + ((i - s) + k) = i + k
    BY <1>1, <1>2, <1>e
  <2>2. r.log[(i - s) + k] = ch[x][s + ((i - s) + k)]
    BY <1>3, <2>1
  <2> QED BY <1>2, <2>1, <2>2
<1>6. CASE i = 0
  <2>1. s = 0
    BY <1>1, <1>6, <1>e
  <2>2. r2.snap.term = 0
    BY <1>6, <2>1 DEF term_at, Along, s
  <2> QED BY <1>1, <1>4, <1>5, <1>6, <2>2 DEF Along, l
<1>7. CASE i # 0
  <2>1. At(ch, x, i, term_at(r, i))
    BY <1>7, AlongAt
  <2>2. ch[x][i].term = r2.snap.term
    BY <2>1 DEF At
  <2> QED BY <1>1, <1>4, <1>5, <1>7, <2>2 DEF Along, l
<1> QED BY <1>6, <1>7

LEMMA MoveInstall ==
    ASSUME NEW nd, NEW ch, NEW sn, Typed(nd, sn), Raft(nd, ch, sn), NEW v \in Node,
           NEW s, s.index \in Nat, s.term \in Term, s.index > nd[v].commit,
           At(ch, s.term, s.index, s.term), s.term <= nd[v].term,
           Committed(nd, ch, s.index, s.term, nd[v].term),
           NEW r, Installed(nd[v], s, r)
    PROVE  /\ IsLog(r) /\ r.commit \in Nat /\ r.commit <= last_log_index(r)
           /\ Moves(nd, ch, sn, v, r, sn[v].append)
<1> DEFINE c == s.index
           u == s.term
           p == nd[v]
<1>0. /\ ChainOK(ch) /\ IsLog(p) /\ p.commit \in Nat /\ p.term \in Term
      /\ p.snap.index <= p.commit /\ p.snap.index \in Nat /\ last_log_index(p) \in Nat
      /\ Placed(nd, ch, v) /\ LeaderOK(nd, ch, v) /\ SentOK(nd, ch, sn, v)
      /\ p.term \in Nat /\ u \in Nat /\ c \in Nat \ {0} /\ p.snap.index <= c
      /\ r.term = p.term /\ r.leads = p.leads /\ r.snap = s /\ r.commit = c
      /\ sn[v].append.term \in Term
  BY LogLen, TermNat DEF Typed, Raft, Installed
<1>1. PICK x \in Term : x <= p.term /\ Along(ch, p, x) /\ (p.leads => x = p.term)
  <2>1. CASE p.leads
    <3>1. Along(ch, p, p.term) /\ p.term <= p.term
      BY <1>0, <2>1 DEF LeaderOK
    <3> QED BY <1>0, <3>1
  <2>2. CASE ~p.leads
    BY <1>0, <2>2 DEF Placed
  <2> QED BY <2>1, <2>2
<1>2. CommittedUpTo(nd, ch, c, u, p.term)
  BY DEF CommittedUpTo
<1>3. ASSUME NEW y \in Term, y <= p.term, IsLog(r), Along(ch, r, y), Same(ch, u, y, c),
             p.leads => y = p.term /\ last_log_index(r) = last_log_index(p),
             \A t \in Term : \A i \in Nat :
               At(ch, t, i, t) /\ Stable(ch, i, t) /\ Has(ch, p, i, t) => Has(ch, r, i, t)
      PROVE  /\ r.commit \in Nat /\ r.commit <= last_log_index(r)
             /\ Moves(nd, ch, sn, v, r, sn[v].append)
  <2>1. CommittedUpTo(nd, ch, r.commit, y, r.term)
    <3>1. c <= c
      BY <1>0
    <3>2. CommittedUpTo(nd, ch, c, y, p.term)
      BY <1>0, <1>2, <1>3, <3>1, UpToDown
    <3> QED BY <1>0, <3>2
  <2>2. \A i \in 1 .. sn[v].append.index : At(ch, sn[v].append.term, i, sn[v].append.term) =>
            Has(ch, r, i, sn[v].append.term) \/ Dead(nd, sn, i, sn[v].append.term)
    BY <1>3, SentKept
  <2>3. sn[v].append.term <= r.term /\ sn[v].append.index <= Len(ch[sn[v].append.term])
    BY <1>0 DEF SentOK
  <2>4. r.leads => /\ p.leads /\ r.term = p.term
                   /\ last_log_index(r) = last_log_index(p) /\ Along(ch, r, r.term)
    BY <1>0, <1>3
  <2>5. /\ r.term >= p.term
        /\ \E t \in Term : t <= r.term /\ Along(ch, r, t) /\ CommittedUpTo(nd, ch, r.commit, t, r.term)
    BY <1>0, <1>3, <2>1
  <2>6. r.commit \in Nat /\ r.commit <= last_log_index(r)
    BY <1>0, <1>3, LogLen
  <2> QED BY <1>3, <2>2, <2>3, <2>4, <2>5, <2>6 DEF Moves
<1>a. At(ch, u, c, u)
  OBVIOUS
<1>b. r.log = IF term_at(p, c) = u THEN Between(p, c, last_log_index(p)) ELSE <<>>
  BY DEF Installed
<1>d. r.snap.index = c /\ r.snap.term = u /\ u \in Term
  BY <1>0
<1> HIDE DEF c, u, p
<1>4. CASE term_at(p, c) = u
  <2>1. c <= last_log_index(p)
    <3>1. u <= MaxTerm /\ MaxTerm \in Nat
      BY <1>d, TermNat
    <3> QED BY <1>0, <1>4, <3>1, LogLen DEF term_at
  <2>2. /\ IsLog(r) /\ last_log_index(r) = last_log_index(p)
        /\ \A t \in Term : Along(ch, p, t) => Along(ch, r, t)
    <3>1. r.snap.term = term_at(p, c) /\ r.log = Between(p, c, last_log_index(p)) /\ r.snap.term \in Term
      BY <1>4, <1>b, <1>d
    <3> QED BY <1>0, <1>1, <1>d, <2>1, <3>1, CutAlong
  <2>3. \A i, t : Has(ch, p, i, t) => Has(ch, r, i, t)
    BY <2>2 DEF Has
  <2>4. At(ch, x, c, u)
    BY <1>0, <1>1, <1>4, <2>1, AlongAt
  <2>5. Same(ch, u, x, c)
    BY <1>0, <1>1, <1>a, <1>d, <2>4, SameTerm
  <2> QED BY <1>1, <1>3, <2>2, <2>3, <2>5 DEF p
<1>5. CASE term_at(p, c) # u
  <2>1. r.log = <<>>
    BY <1>5, <1>b
  <2>2. IsLog(r) /\ last_log_index(r) = c
    BY <1>0, <1>d, <2>1 DEF IsLog, last_log_index
  <2>3. Along(ch, r, u)
    <3>1. c <= Len(ch[u]) /\ ch[u][c].term = u /\ c # 0
      BY <1>0, <1>a, <1>d, AtParts
    <3> QED BY <1>d, <2>1, <2>2, <3>1 DEF Along
  <2>4. ASSUME NEW y \in Term, Along(ch, p, y), Same(ch, y, u, c), c <= last_log_index(p)
        PROVE  FALSE
    <3>1. At(ch, y, c, term_at(p, c))
      BY <1>0, <2>4, AlongAt
    <3>2. c \in 1 .. c
      BY <1>0
    <3>3. At(ch, y, c, u)
      BY <1>0, <1>a, <1>d, <2>4, <3>2, SameParts
    <3> QED BY <1>5, <3>1, <3>3 DEF At
  <2>5. ASSUME NEW t \in Term, NEW i \in Nat, At(ch, t, i, t), Stable(ch, i, t), Has(ch, p, i, t)
        PROVE  Has(ch, r, i, t)
    <3>0. i \in Nat \ {0} /\ i <= last_log_index(p) /\ At(ch, x, i, t)
      BY <1>0, <1>1, <2>5, HasAlong
    <3>1. CASE i <= c
      <4>1. Same(ch, u, t, i)
        <5>1. i <= i
          BY <3>0
        <5> QED BY <1>0, <1>d, <2>5, <3>1, <5>1, CommittedStable DEF c, u, p
      <4>2. i \in 1 .. i
        BY <3>0
      <4>3. At(ch, u, i, t)
        BY <1>0, <1>d, <2>5, <4>1, <4>2, SameParts
      <4> QED BY <1>d, <2>2, <2>3, <3>1, <4>3 DEF Has
    <3>2. CASE c < i
      <4>1. Same(ch, u, t, c)
        <5>1. c <= c /\ c <= i
          BY <1>0, <3>2
        <5> QED BY <1>0, <1>d, <2>5, <5>1, CommittedStable DEF c, u, p
      <4>2. Same(ch, x, t, i)
        BY <1>0, <1>1, <2>5, <3>0, SameTerm
      <4>3. Same(ch, x, u, c)
        BY <1>0, <3>2, <4>1, <4>2 DEF Same
      <4> QED BY <1>0, <1>1, <2>4, <3>0, <3>2, <4>3
    <3> QED BY <1>0, <3>0, <3>1, <3>2
  <2>6. ~p.leads
    <3> SUFFICES ASSUME p.leads PROVE FALSE
      OBVIOUS
    <3>1. x = p.term /\ last_log_index(p) = Len(ch[x]) /\ ch[x] # <<>>
      BY <1>0, <1>1 DEF LeaderOK, p
    <3>2. PICK w \in Term : \E i \in 1 .. Len(ch[w]) :
                 /\ w <= p.term /\ At(ch, w, i, w) /\ Stable(ch, i, w)
                 /\ c <= i /\ Same(ch, u, w, c)
      BY <1>0, <1>d, CommittedBy DEF c, u, p
    <3>3. PICK i \in 1 .. Len(ch[w]) :
                 /\ w <= p.term /\ At(ch, w, i, w) /\ Stable(ch, i, w)
                 /\ c <= i /\ Same(ch, u, w, c)
      BY <3>2
    <3>4. i \in Nat /\ w \in Nat /\ x \in Nat
      BY <1>0, <3>3, AtParts, TermNat
    <3>5. At(ch, x, i, w)
      <4>1. CASE w = x
        BY <3>3, <4>1
      <4>2. CASE w < x
        BY <3>1, <3>3, <3>4, <4>2 DEF Stable
      <4> QED BY <3>1, <3>3, <3>4, <4>1, <4>2
    <3>6. Same(ch, x, w, i) /\ i <= Len(ch[x]) /\ Len(ch[x]) \in Nat
      BY <1>0, <3>3, <3>5, SameTerm, AtParts
    <3>7. Same(ch, x, u, c) /\ c <= last_log_index(p)
      BY <1>0, <3>1, <3>3, <3>4, <3>6 DEF Same
    <3> QED BY <1>1, <2>4, <3>7
  <2>7. Same(ch, u, u, c)
    BY <1>0, <1>a, <1>d, AtParts DEF Same
  <2> QED BY <1>3, <1>d, <2>2, <2>3, <2>5, <2>6, <2>7 DEF u, p
<1> QED BY <1>4, <1>5

-----------------------------------------------------------------------------
(* A leader extends the chain of its term.                                 *)

LEMMA GrowAt ==
    ASSUME NEW ch, ChainOK(ch), NEW ch2, Grows(ch, ch2), NEW t \in Term, NEW i, NEW w
    PROVE  /\ At(ch, t, i, w) => At(ch2, t, i, w)
           /\ At(ch2, t, i, w) /\ i <= Len(ch[t]) => At(ch, t, i, w)
           /\ At(ch2, t, i, w) /\ ch[t] # <<>> => At(ch, t, i, w) \/ w = t
<1>1. Len(ch[t]) \in Nat
  BY ChainLen
<1>2. Len(ch[t]) <= Len(ch2[t]) /\ \A j \in 1 .. Len(ch[t]) : ch2[t][j] = ch[t][j]
  BY DEF Grows
<1>3. ch[t] # <<>> => \A j \in Len(ch[t]) + 1 .. Len(ch2[t]) : ch2[t][j].term = t
  BY DEF Grows
<1>4. ASSUME At(ch, t, i, w) PROVE At(ch2, t, i, w)
  BY <1>1, <1>2, <1>4 DEF At
<1>5. ASSUME At(ch2, t, i, w), i <= Len(ch[t]) PROVE At(ch, t, i, w)
  BY <1>1, <1>2, <1>5 DEF At
<1>6. ASSUME At(ch2, t, i, w), ch[t] # <<>> PROVE At(ch, t, i, w) \/ w = t
  <2>1. CASE i <= Len(ch[t])
    BY <1>5, <1>6, <2>1
  <2>2. CASE ~(i <= Len(ch[t]))
    <3>1. i \in Len(ch[t]) + 1 .. Len(ch2[t]) /\ ch2[t][i].term = w
      BY <1>1, <1>6, <2>2 DEF At
    <3> QED BY <1>3, <1>6, <3>1
  <2> QED BY <2>1, <2>2
<1> QED BY <1>4, <1>5, <1>6

LEMMA GrowAlong ==
    ASSUME NEW ch, ChainOK(ch), NEW ch2, Grows(ch, ch2), NEW r, IsLog(r), NEW t \in Term,
           Along(ch, r, t)
    PROVE  Along(ch2, r, t)
<1>1. /\ last_log_index(r) \in Nat /\ Len(ch[t]) \in Nat /\ r.snap.index \in Nat /\ Len(r.log) \in Nat
      /\ last_log_index(r) <= Len(ch[t]) /\ last_log_index(r) = r.snap.index + Len(r.log)
  BY LogLen, ChainLen DEF Along
<1>2. Len(ch[t]) <= Len(ch2[t]) /\ \A j \in 1 .. Len(ch[t]) : ch2[t][j] = ch[t][j]
  BY DEF Grows
<1>3. last_log_index(r) <= Len(ch2[t])
  <2>1. CASE Len(ch2[t]) \in Int
    BY <1>1, <1>2, <2>1
  <2>2. CASE Len(ch2[t]) \notin Int
    BY <1>1, <1>2, <2>2
  <2> QED BY <2>1, <2>2
<1>4. ASSUME NEW i \in 1 .. Len(r.log) PROVE r.log[i] = ch2[t][r.snap.index + i]
  <2>1. r.snap.index + i \in 1 .. Len(ch[t])
    BY <1>1
  <2>2. r.log[i] = ch[t][r.snap.index + i]
    BY DEF Along
  <2> QED BY <1>2, <2>1, <2>2
<1>5. CASE r.snap.index = 0
  BY <1>3, <1>4, <1>5 DEF Along
<1>6. CASE r.snap.index # 0
  <2>1. r.snap.index \in 1 .. Len(ch[t])
    BY <1>1, <1>6
  <2>2. ch2[t][r.snap.index] = ch[t][r.snap.index]
    BY <1>2, <2>1
  <2> QED BY <1>3, <1>4, <1>6, <2>2 DEF Along
<1> QED BY <1>5, <1>6

LEMMA GrowHas ==
    ASSUME NEW ch, ChainOK(ch), NEW ch2, Grows(ch, ch2), NEW r, IsLog(r), NEW i, NEW w,
           Has(ch, r, i, w)
    PROVE  Has(ch2, r, i, w)
<1>1. PICK t \in Term : Along(ch, r, t) /\ i <= last_log_index(r) /\ At(ch, t, i, w)
  BY DEF Has
<1>2. Along(ch2, r, t) /\ At(ch2, t, i, w)
  BY <1>1, GrowAlong, GrowAt
<1> QED BY <1>1, <1>2 DEF Has

(* The leader of term t may write base: what precedes an entry of an       *)
(* earlier term is what precedes it in the chain of that term.             *)
BaseOK(ch, t, base) ==
    /\ base \in Seq(Entry) /\ (ch[t] = base \/ ch[t] = <<>>)
    /\ \A i \in 1 .. Len(base) :
         /\ base[i].term <= t /\ base[i].term # 0
         /\ base[i].term # t =>
              i <= Len(ch[base[i].term]) /\ \A j \in 1 .. i : base[j] = ch[base[i].term][j]

(* The chain of t becomes base and e.                                      *)
Extended(ch, t, base, e, ch2) ==
    /\ ch2 \in [Term -> Seq(Entry)] /\ \A u \in Term : u # t => ch2[u] = ch[u]
    /\ Len(ch2[t]) = Len(base) + 1 /\ Len(base) \in Nat
    /\ \A i \in 1 .. Len(base) : ch2[t][i] = base[i]
    /\ ch2[t][Len(base) + 1] = e

LEMMA ExtendChain ==
    ASSUME NEW ch, ChainOK(ch), NEW t \in Term, t # 0, NEW base, BaseOK(ch, t, base),
           Len(base) + 1 <= MaxIndex + t, NEW e \in Entry, e.term = t,
           NEW ch2, Extended(ch, t, base, e, ch2)
    PROVE  ChainOK(ch2) /\ Grows(ch, ch2)
<1>0. /\ ch2 \in [Term -> Seq(Entry)] /\ Len(base) \in Nat /\ t \in Nat
      /\ \A u \in Term : /\ ch2[u] \in Seq(Entry) /\ Len(ch2[u]) \in Nat /\ Len(ch[u]) \in Nat /\ u \in Nat
                         /\ u # t => ch2[u] = ch[u]
      /\ Len(ch2[t]) = Len(base) + 1 /\ ch2[t][Len(base) + 1] = e
      /\ \A i \in 1 .. Len(base) : ch2[t][i] = base[i]
  BY ChainLen, TermNat DEF Extended
<1>1. /\ Len(ch[t]) <= Len(base) /\ \A i \in 1 .. Len(ch[t]) : ch[t][i] = base[i]
      /\ ch[t] # <<>> => Len(ch[t]) = Len(base)
  <2>1. CASE ch[t] = base
    BY <1>0, <2>1
  <2>2. CASE ch[t] = <<>>
    BY <1>0, <2>2
  <2> QED BY <2>1, <2>2 DEF BaseOK
<1>2. \A i \in 1 .. Len(ch[t]) : ch2[t][i] = ch[t][i]
  <2> SUFFICES ASSUME NEW i \in 1 .. Len(ch[t]) PROVE ch2[t][i] = ch[t][i]
    OBVIOUS
  <2>1. i \in 1 .. Len(base)
    BY <1>0, <1>1
  <2> QED BY <1>0, <1>1, <2>1
<1>3. Grows(ch, ch2)
  <2> SUFFICES ASSUME NEW u \in Term
               PROVE  /\ Len(ch[u]) <= Len(ch2[u])
                      /\ \A i \in 1 .. Len(ch[u]) : ch2[u][i] = ch[u][i]
                      /\ ch[u] # <<>> => \A i \in Len(ch[u]) + 1 .. Len(ch2[u]) : ch2[u][i].term = u
    BY DEF Grows
  <2>1. CASE u # t
    BY <1>0, <2>1
  <2>2. CASE u = t
    <3>1. Len(ch[t]) <= Len(ch2[t])
      BY <1>0, <1>1
    <3>2. ASSUME ch[t] # <<>>, NEW i \in Len(ch[t]) + 1 .. Len(ch2[t]) PROVE ch2[t][i].term = t
      <4>1. i = Len(base) + 1
        BY <1>0, <1>1, <3>2
      <4> QED BY <1>0, <4>1
    <3> QED BY <1>2, <2>2, <3>1, <3>2
  <2> QED BY <2>1, <2>2
<1>4. ASSUME NEW u \in Term, NEW i \in 1 .. Len(ch2[u])
      PROVE  ch2[u][i].term <= u /\ ch2[u][i].term # 0 /\ Same(ch2, u, ch2[u][i].term, i)
  <2>1. CASE u # t
    <3> DEFINE w == ch[u][i].term
    <3>1. ch2[u] = ch[u] /\ i \in 1 .. Len(ch[u])
      BY <1>0, <2>1
    <3>2. w <= u /\ w # 0 /\ Same(ch, u, w, i)
      BY <3>1 DEF ChainOK
    <3>3. w \in Term
      <4>1. At(ch, u, i, w)
        BY <3>1 DEF At
      <4> QED BY <4>1, ChainEntry
    <3> HIDE DEF w
    <3>4. Len(ch[w]) <= Len(ch2[w]) /\ \A j \in 1 .. Len(ch[w]) : ch2[w][j] = ch[w][j]
      BY <1>3, <3>3 DEF Grows
    <3>5. i <= Len(ch[w]) /\ i <= Len(ch[u]) /\ \A j \in 1 .. i : ch[u][j] = ch[w][j]
      BY <3>2 DEF Same
    <3>6. i <= Len(ch2[w]) /\ \A j \in 1 .. i : ch[w][j] = ch2[w][j]
      BY <1>0, <3>3, <3>4, <3>5
    <3>7. Same(ch2, u, w, i)
      BY <3>1, <3>5, <3>6 DEF Same
    <3> QED BY <3>1, <3>2, <3>7 DEF w
  <2>2. CASE u = t /\ i = Len(base) + 1
    <3>1. ch2[u][i].term = t /\ t <= t
      BY <1>0, <2>2
    <3>2. Same(ch2, t, t, i)
      BY <1>0, <2>2 DEF Same
    <3> QED BY <2>2, <3>1, <3>2
  <2>3. CASE u = t /\ i # Len(base) + 1
    <3> DEFINE w == base[i].term
    <3>1. i \in 1 .. Len(base) /\ ch2[t][i] = base[i]
      BY <1>0, <2>3
    <3>2. /\ w <= t /\ w # 0 /\ w \in Term
          /\ w # t => i <= Len(ch[w]) /\ \A j \in 1 .. i : base[j] = ch[w][j]
      <4>1. base[i] \in Entry
        BY <3>1 DEF BaseOK
      <4>2. w \in Term
        BY <4>1 DEF Entry
      <4> QED BY <3>1, <4>2 DEF BaseOK
    <3> HIDE DEF w
    <3>3. CASE w = t
      <4>1. Same(ch2, t, t, i)
        BY <1>0, <2>3 DEF Same
      <4> QED BY <2>3, <3>1, <3>2, <3>3, <4>1 DEF w
    <3>4. CASE w # t
      <4>1. ch2[w] = ch[w] /\ i <= Len(ch[w]) /\ i <= Len(ch2[t])
        BY <1>0, <3>1, <3>2, <3>4
      <4>2. ASSUME NEW j \in 1 .. i PROVE ch2[t][j] = ch2[w][j]
        <5>1. j \in 1 .. Len(base)
          BY <1>0, <3>1
        <5> QED BY <1>0, <3>2, <3>4, <4>1, <5>1
      <4>3. Same(ch2, t, w, i)
        BY <4>1, <4>2 DEF Same
      <4> QED BY <2>3, <3>1, <3>2, <4>3 DEF w
    <3> QED BY <3>3, <3>4
  <2> QED BY <2>1, <2>2, <2>3
<1>5. \A u \in Term : Len(ch2[u]) <= MaxIndex + u /\ (u = 0 => Len(ch2[u]) = 0)
  <2> SUFFICES ASSUME NEW u \in Term PROVE Len(ch2[u]) <= MaxIndex + u /\ (u = 0 => Len(ch2[u]) = 0)
    OBVIOUS
  <2>1. CASE u = t
    BY <1>0, <2>1
  <2>2. CASE u # t
    BY <1>0, <2>2 DEF ChainOK
  <2> QED BY <2>1, <2>2
<1> QED BY <1>0, <1>3, <1>4, <1>5 DEF ChainOK

LEMMA LaterUpTo ==
    ASSUME NEW nd, NEW ch, ChainOK(ch), NEW nd2, NEW ch2, ChainOK(ch2), Later(nd, ch, nd2, ch2),
           NEW c, NEW t \in Term, NEW b, CommittedUpTo(nd, ch, c, t, b)
    PROVE  CommittedUpTo(nd2, ch2, c, t, b)
<1>1. CASE c = 0
  BY <1>1 DEF CommittedUpTo
<1>2. CASE Committed(nd, ch, c, t, b)
  <2>1. PICK u \in Term : \E i \in 1 .. Len(ch[u]) :
          /\ u <= b /\ Durable(nd, ch, i, u)
          /\ c \in 1 .. i /\ c <= Len(ch[t]) /\ ch[u][c].term = ch[t][c].term
    BY <1>2 DEF Committed
  <2>2. PICK i \in 1 .. Len(ch[u]) :
          /\ u <= b /\ Durable(nd, ch, i, u)
          /\ c \in 1 .. i /\ c <= Len(ch[t]) /\ ch[u][c].term = ch[t][c].term
    BY <2>1
  <2>3. /\ Len(ch[u]) \in Nat /\ Len(ch[t]) \in Nat /\ Len(ch2[u]) \in Nat /\ Len(ch2[t]) \in Nat
        /\ Len(ch[u]) <= Len(ch2[u]) /\ Len(ch[t]) <= Len(ch2[t])
        /\ \A j \in 1 .. Len(ch[u]) : ch2[u][j] = ch[u][j]
        /\ \A j \in 1 .. Len(ch[t]) : ch2[t][j] = ch[t][j]
    BY ChainLen DEF Later, Grows
  <2>4. /\ i \in 1 .. Len(ch2[u]) /\ i \in Nat /\ c \in 1 .. Len(ch[u]) /\ c \in 1 .. Len(ch[t])
        /\ c <= Len(ch2[t])
    BY <2>2, <2>3
  <2>5. ch2[u][c].term = ch2[t][c].term
    BY <2>2, <2>3, <2>4
  <2>6. Durable(nd2, ch2, i, u)
    BY <2>2, <2>4 DEF Later
  <2> QED BY <2>2, <2>4, <2>5, <2>6 DEF Committed, CommittedUpTo
<1> QED BY <1>1, <1>2 DEF CommittedUpTo

(* The log of r ends where base ends.                                      *)
On(r, base) ==
    /\ last_log_index(r) = Len(base)
    /\ \A i \in 1 .. Len(r.log) : r.log[i] = base[r.snap.index + i]
    /\ IF r.snap.index = 0 THEN r.snap.term = 0 ELSE base[r.snap.index].term = r.snap.term

(* Member n, the leader of t, appends e to its log.                        *)
Leading(nd, n, t, e, nd2) ==
    /\ \A v \in Node : v # n => nd2[v] = nd[v]
    /\ nd[n].term = t /\ nd2[n].term = t /\ nd2[n].leads
    /\ nd2[n].snap = nd[n].snap /\ nd2[n].commit = nd[n].commit
    /\ nd2[n].log = Append(nd[n].log, e)

(* Base has what may be acknowledged in an earlier term.                   *)
Reaches(nd, ch, sn, t, base) ==
    /\ \A w \in Term : \A i \in Nat : w < t /\ At(ch, w, i, w) =>
          (i \in 1 .. Len(base) /\ base[i].term = w) \/ Dead(nd, sn, i, w)
    /\ \A w \in Term : \A i \in Nat : w < t /\ Durable(nd, ch, i, w) =>
          i \in 1 .. Len(base) /\ base[i].term = w
    /\ \E q \in Quorum : \A v \in q : nd[v].term >= t

(* The log r2 is r and one more entry of the chain of t.                    *)
Longer(ch, r, t, l, ch2, r2) ==
    /\ IsLog(r2) /\ last_log_index(r2) = l /\ Len(ch2[t]) = l
    /\ Along(ch2, r2, t) /\ Along(ch2, r, t) /\ At(ch2, t, l, t)
    /\ \A i, w : Has(ch, r, i, w) => Has(ch2, r2, i, w)
    /\ Has(ch2, r2, l, t)

LEMMA ExtendLog ==
    ASSUME NEW ch, ChainOK(ch), NEW t \in Term, NEW base, NEW e \in Entry, e.term = t,
           NEW ch2, ChainOK(ch2), Grows(ch, ch2), Extended(ch, t, base, e, ch2),
           NEW r, IsLog(r), On(r, base), NEW r2, r2.snap = r.snap, r2.log = Append(r.log, e)
    PROVE  Longer(ch, r, t, Len(base) + 1, ch2, r2)
<1> DEFINE b == Len(base)
           s == r.snap.index
<1>1. /\ b \in Nat /\ Len(ch2[t]) = b + 1 /\ ch2[t][b + 1] = e
      /\ \A i \in 1 .. b : ch2[t][i] = base[i]
  BY DEF Extended
<1>2. /\ r.log \in Seq(Entry) /\ s \in Nat /\ Len(r.log) \in Nat /\ r.snap.term \in Term
      /\ b = s + Len(r.log) /\ last_log_index(r) = b
      /\ \A i \in 1 .. Len(r.log) : r.log[i] = base[s + i]
      /\ s = 0 => r.snap.term = 0
      /\ s # 0 => base[s].term = r.snap.term
  BY LogLen DEF On, IsLog
<1>3. /\ r2.log \in Seq(Entry) /\ Len(r2.log) = Len(r.log) + 1 /\ r2.snap.index = s
      /\ r2.snap.term = r.snap.term
      /\ \A i \in 1 .. Len(r.log) : r2.log[i] = r.log[i]
      /\ r2.log[Len(r.log) + 1] = e
  BY <1>2, AppendOf
<1> HIDE DEF b, s
<1>4. IsLog(r2) /\ last_log_index(r2) = b + 1
  BY <1>2, <1>3 DEF IsLog, last_log_index
<1>5. \A i \in 1 .. Len(r.log) : r.log[i] = ch2[t][s + i]
  <2> SUFFICES ASSUME NEW i \in 1 .. Len(r.log) PROVE r.log[i] = ch2[t][s + i]
    OBVIOUS
  <2>1. s + i \in 1 .. b
    BY <1>2
  <2> QED BY <1>1, <1>2, <2>1
<1>6. s # 0 => ch2[t][s].term = r.snap.term
  <2> SUFFICES ASSUME s # 0 PROVE ch2[t][s].term = r.snap.term
    OBVIOUS
  <2>1. s \in 1 .. b
    BY <1>2
  <2> QED BY <1>1, <1>2, <2>1
<1>7. Along(ch2, r, t)
  BY <1>1, <1>2, <1>5, <1>6 DEF Along, s
<1>8. Along(ch2, r2, t)
  <2>1. ASSUME NEW i \in 1 .. Len(r2.log) PROVE r2.log[i] = ch2[t][s + i]
    <3>1. CASE i = Len(r.log) + 1
      <4>1. s + i = b + 1
        BY <1>2, <3>1
      <4> QED BY <1>1, <1>3, <3>1, <4>1
    <3>2. CASE i # Len(r.log) + 1
      <4>1. i \in 1 .. Len(r.log)
        BY <1>2, <1>3, <3>2
      <4> QED BY <1>3, <1>5, <4>1
    <3> QED BY <3>1, <3>2
  <2>2. b + 1 <= Len(ch2[t])
    BY <1>1
  <2> QED BY <1>2, <1>3, <1>4, <1>6, <2>1, <2>2 DEF Along
<1>9. At(ch2, t, b + 1, t)
  BY <1>1 DEF At
<1>10. ASSUME NEW i, NEW w, Has(ch, r, i, w) PROVE Has(ch2, r2, i, w)
  <2>1. Has(ch2, r, i, w)
    BY <1>10, GrowHas
  <2>2. i <= last_log_index(r) /\ At(ch2, t, i, w) /\ i \in Nat \ {0}
    BY <1>7, <2>1, HasAlong
  <2>3. i <= last_log_index(r2)
    BY <1>1, <1>2, <1>4, <2>2
  <2> QED BY <1>8, <2>2, <2>3 DEF Has
<1>11. Has(ch2, r2, b + 1, t)
  <2>1. b + 1 <= last_log_index(r2)
    BY <1>1, <1>4
  <2> QED BY <1>8, <1>9, <2>1 DEF Has
<1> QED BY <1>1, <1>4, <1>7, <1>8, <1>9, <1>10, <1>11 DEF b, Longer

(* The leader's entry l is in its chain and its log, and all is well.      *)
Led(nd, ch, sn, n, t, l, nd2, ch2) ==
    /\ Typed(nd2, sn) /\ Raft(nd2, ch2, sn) /\ Later(nd, ch, nd2, ch2)
    /\ last_log_index(nd2[n]) = l /\ At(ch2, t, l, t) /\ Has(ch2, nd2[n], l, t)

LEMMA ExtendRaft ==
    ASSUME NEW nd, NEW ch, NEW sn, Typed(nd, sn), Raft(nd, ch, sn),
           NEW t \in Term, t # 0, NEW n \in Voter, NEW e \in Entry, e.term = t,
           NEW base, BaseOK(ch, t, base), Len(base) + 1 <= MaxIndex + t,
           NEW ch2, Extended(ch, t, base, e, ch2), NEW nd2, Leading(nd, n, t, e, nd2),
           On(nd[n], base), Reaches(nd, ch, sn, t, base),
           \A m \in Node : nd[m].leads /\ nd[m].term = t => m = n
    PROVE  Led(nd, ch, sn, n, t, Len(base) + 1, nd2, ch2)
<1>0. /\ ChainOK(ch) /\ ChainOK(ch2) /\ Grows(ch, ch2) /\ n \in Node /\ t \in Nat
      /\ Voter \subseteq Node /\ \A q \in Quorum : q \subseteq Voter
  BY ExtendChain, TermNat, ReplicaAssumption DEF Raft, Quorum
<1>1. /\ IsLog(nd2[n]) /\ last_log_index(nd2[n]) = Len(base) + 1 /\ Len(ch2[t]) = Len(base) + 1
      /\ Along(ch2, nd2[n], t) /\ Along(ch2, nd[n], t) /\ At(ch2, t, Len(base) + 1, t)
      /\ \A i, w : Has(ch, nd[n], i, w) => Has(ch2, nd2[n], i, w)
      /\ Has(ch2, nd2[n], Len(base) + 1, t)
  <2>1. IsLog(nd[n]) /\ nd2[n].snap = nd[n].snap /\ nd2[n].log = Append(nd[n].log, e)
    BY <1>0 DEF Typed, Leading
  <2>2. Longer(ch, nd[n], t, Len(base) + 1, ch2, nd2[n])
    BY <1>0, <2>1, ExtendLog
  <2> QED BY <2>2 DEF Longer
<1>2. \A u \in Term : /\ Len(ch[u]) \in Nat /\ Len(ch2[u]) \in Nat /\ u \in Nat
                      /\ u # t => ch2[u] = ch[u]
                      /\ Len(ch[u]) <= Len(ch2[u])
  BY <1>0, ChainLen, TermNat DEF Extended, Grows
<1>3. \A v \in Node : /\ nd2[v].term = nd[v].term /\ nd[v].term \in Nat /\ IsLog(nd[v])
                      /\ nd2[v].commit = nd[v].commit /\ nd[v].commit \in Nat
                      /\ sn[v].append.term \in Term /\ sn[v].append.index \in Nat
  BY TermNat DEF Typed, Leading
<1>4. Typed(nd2, sn)
  <2> SUFFICES ASSUME NEW v \in Node
               PROVE  /\ IsLog(nd2[v]) /\ nd2[v].term \in Term /\ nd2[v].commit \in Nat
                      /\ nd2[v].snap.index <= nd2[v].commit /\ nd2[v].commit <= last_log_index(nd2[v])
                      /\ sn[v].append.term \in Term /\ sn[v].append.index \in Nat
    BY DEF Typed
  <2>1. CASE v # n
    BY <2>1 DEF Leading, Typed
  <2>2. CASE v = n
    <3>1. /\ nd[n].snap.index <= nd[n].commit /\ nd[n].commit <= last_log_index(nd[n])
          /\ nd2[n].snap = nd[n].snap /\ last_log_index(nd[n]) = Len(base) /\ Len(base) \in Nat
      BY <1>0 DEF Typed, Leading, On, BaseOK
    <3>2. nd2[n].commit <= last_log_index(nd2[n])
      BY <1>0, <1>1, <1>3, <3>1
    <3> QED BY <1>0, <1>1, <1>3, <2>2, <3>1, <3>2 DEF Leading
  <2> QED BY <2>1, <2>2
<1>5. ASSUME NEW v \in Node, NEW i, NEW w, Has(ch, nd[v], i, w) PROVE Has(ch2, nd2[v], i, w)
  <2>1. CASE v = n
    BY <1>1, <1>5, <2>1
  <2>2. CASE v # n
    BY <1>0, <1>3, <1>5, <2>2, GrowHas DEF Leading
  <2> QED BY <2>1, <2>2
<1>6. ASSUME NEW i, NEW w, Dead(nd, sn, i, w) PROVE Dead(nd2, sn, i, w)
  BY <1>0, <1>3, <1>6 DEF Dead
<1>b. Len(base) \in Nat
  BY DEF BaseOK
<1>7. ASSUME NEW w \in Term, NEW i, i \in 1 .. Len(base), base[i].term = w PROVE At(ch2, t, i, w)
  <2>1. ch2[t][i] = base[i] /\ Len(ch2[t]) = Len(base) + 1
    BY <1>7 DEF Extended
  <2>2. i \in 1 .. Len(ch2[t])
    BY <1>b, <1>7, <2>1
  <2> QED BY <1>7, <2>1, <2>2 DEF At
<1>8. ASSUME NEW w \in Term, NEW i \in Nat, Durable(nd, ch, i, w) PROVE Durable(nd2, ch2, i, w)
  <2>1. At(ch, w, i, w) /\ Stable(ch, i, w)
    BY <1>8 DEF Durable
  <2>2. PICK q \in Quorum : \A v \in q : nd[v].term >= w /\ Has(ch, nd[v], i, w)
    BY <1>8 DEF Durable
  <2>3. At(ch2, w, i, w)
    BY <1>0, <2>1, GrowAt
  <2>4. \A v \in q : nd2[v].term >= w /\ Has(ch2, nd2[v], i, w)
    BY <1>0, <1>3, <1>5, <2>2
  <2>5. ASSUME NEW u \in Term, u > w, ch2[u] # <<>> PROVE At(ch2, u, i, w)
    <3>1. CASE u # t
      <4>1. ch2[u] = ch[u]
        BY <1>2, <3>1
      <4>2. At(ch, u, i, w)
        BY <2>1, <2>5, <4>1 DEF Stable
      <4> QED BY <1>0, <4>2, GrowAt
    <3>2. CASE u = t
      <4>1. w < t
        BY <1>2, <2>5, <3>2
      <4>2. i \in 1 .. Len(base) /\ base[i].term = w
        BY <1>8, <4>1 DEF Reaches
      <4> QED BY <1>7, <3>2, <4>2
    <3> QED BY <3>1, <3>2
  <2> QED BY <2>3, <2>4, <2>5 DEF Durable, Stable
<1>9. Later(nd, ch, nd2, ch2)
  BY <1>0, <1>8 DEF Later
<1>10. ASSUME NEW v \in Node PROVE Placed(nd2, ch2, v)
  <2>1. PICK x \in Term : /\ x <= nd[v].term /\ Along(ch, nd[v], x)
                          /\ CommittedUpTo(nd, ch, nd[v].commit, x, nd[v].term)
    BY DEF Raft, Placed
  <2>2. CommittedUpTo(nd2, ch2, nd[v].commit, x, nd[v].term) /\ Along(ch2, nd[v], x)
    BY <1>0, <1>3, <1>9, <2>1, LaterUpTo, GrowAlong
  <2>3. CASE v # n
    <3>1. nd2[v] = nd[v]
      BY <2>3 DEF Leading
    <3> QED BY <2>1, <2>2, <3>1 DEF Placed
  <2>4. CASE v = n
    <3>1. Same(ch2, x, t, last_log_index(nd[n])) /\ last_log_index(nd[n]) \in Nat
      BY <1>0, <1>1, <1>3, <2>2, <2>4, AlongUnique, LogLen
    <3>2. nd[n].commit <= last_log_index(nd[n]) /\ nd[n].commit \in Nat /\ nd[n].commit <= nd[n].commit
      BY <1>0, <1>3 DEF Typed
    <3>3. Same(ch2, x, t, nd[n].commit)
      BY <1>0, <3>1, <3>2, SameDown
    <3>4. CommittedUpTo(nd2, ch2, nd[n].commit, t, nd[n].term)
      BY <1>0, <2>2, <2>4, <3>2, <3>3, UpToDown
    <3>5. nd[n].term = t /\ t <= t
      BY <1>0 DEF Leading
    <3> QED BY <1>0, <1>1, <1>3, <2>4, <3>4, <3>5 DEF Placed
  <2> QED BY <2>3, <2>4
<1>11. ASSUME NEW m \in Node PROVE LeaderOK(nd2, ch2, m)
  <2>1. \A v \in Node : v # n => nd2[v] = nd[v] /\ (nd[v].leads => nd[v].term # t)
    BY DEF Leading
  <2>2. nd2[n].term = t /\ n \in Voter /\ ch2[t] # <<>>
    <3>1. Len(ch2[t]) > 0
      BY <1>1, <1>b
    <3> QED BY <1>0, <3>1, ChainLen DEF Leading
  <2>3. CASE m = n
    BY <1>1, <2>1, <2>2, <2>3 DEF LeaderOK
  <2>4. CASE m # n
    <3>1. LeaderOK(nd, ch, m) /\ nd2[m] = nd[m] /\ nd[m].term \in Term
      BY <2>1, <2>4 DEF Raft, Typed
    <3> SUFFICES ASSUME nd[m].leads PROVE LeaderOK(nd2, ch2, m)
      BY <3>1 DEF LeaderOK
    <3>2. nd[m].term # t /\ ch2[nd[m].term] = ch[nd[m].term]
      BY <1>2, <2>1, <2>4, <3>1
    <3>3. Along(ch2, nd[m], nd[m].term)
      BY <3>1, <3>2 DEF LeaderOK, Along
    <3>4. \A k \in Node : nd2[k].leads /\ nd2[k].term = nd[m].term => k = m
      BY <2>1, <2>2, <3>1, <3>2 DEF LeaderOK
    <3> QED BY <3>1, <3>2, <3>3, <3>4 DEF LeaderOK
  <2> QED BY <2>3, <2>4
<1>12. Elected(nd2, ch2)
  <2> SUFFICES ASSUME NEW u \in Term, ch2[u] # <<>>
               PROVE  \E q \in Quorum : \A v \in q : nd2[v].term >= u
    BY DEF Elected
  <2>1. \E q \in Quorum : \A v \in q : nd[v].term >= u
    <3>1. CASE u = t
      BY <3>1 DEF Reaches
    <3>2. CASE u # t
      BY <1>2, <3>2 DEF Raft, Elected
    <3> QED BY <3>1, <3>2
  <2> QED BY <1>0, <1>3, <2>1
<1>13. ASSUME NEW v \in Node, NEW i, ~(i <= Len(ch[t])), i \in Nat
       PROVE  ~(sn[v].append.term = t /\ sn[v].append.index >= i)
  <2>1. SentOK(nd, ch, sn, v)
    BY DEF Raft
  <2> QED BY <1>2, <1>3, <1>13, <2>1 DEF SentOK
<1>14. Complete(nd2, ch2, sn)
  <2> SUFFICES ASSUME NEW u \in Term, NEW w \in Term, NEW i \in 1 .. Len(ch2[w]),
                      ch2[u] # <<>>, w < u, ch2[w][i].term = w
               PROVE  At(ch2, u, i, w) \/ Dead(nd2, sn, i, w)
    BY DEF Complete
  <2>1. At(ch2, w, i, w) /\ i \in Nat
    BY DEF At
  <2>2. CASE At(ch, w, i, w)
    <3>1. CASE u # t
      <4>1. ch[u] # <<>> /\ i \in 1 .. Len(ch[w]) /\ ch[w][i].term = w
        BY <1>2, <2>2, <3>1 DEF At
      <4>2. At(ch, u, i, w) \/ Dead(nd, sn, i, w)
        BY <4>1 DEF Raft, Complete
      <4> QED BY <1>0, <1>6, <4>2, GrowAt
    <3>2. CASE u = t
      <4>1. (i \in 1 .. Len(base) /\ base[i].term = w) \/ Dead(nd, sn, i, w)
        BY <2>1, <2>2, <3>2 DEF Reaches
      <4> QED BY <1>6, <1>7, <3>2, <4>1
    <3> QED BY <3>1, <3>2
  <2>3. CASE ~At(ch, w, i, w)
    <3>1. w = t /\ ~(i <= Len(ch[t]))
      <4>1. CASE w # t
        BY <1>2, <2>1, <2>3, <4>1 DEF At
      <4>2. CASE w = t /\ i <= Len(ch[t])
        BY <1>0, <2>1, <2>3, <4>2, GrowAt
      <4> QED BY <4>1, <4>2
    <3>2. u # t /\ ch[u] # <<>> /\ u > t
      BY <1>2, <3>1
    <3>3. PICK q \in Quorum : \A v \in q : nd[v].term >= u
      BY <3>2 DEF Raft, Elected
    <3>4. ASSUME NEW v \in q
          PROVE  nd[v].term > w /\ ~(sn[v].append.term = w /\ sn[v].append.index >= i)
      <4>1. v \in Node /\ nd[v].term >= u /\ nd[v].term \in Nat
        BY <1>0, <1>3, <3>3
      <4>2. ~(sn[v].append.term = t /\ sn[v].append.index >= i)
        BY <1>13, <2>1, <3>1, <4>1
      <4>3. nd[v].term > w
        BY <1>2, <3>1, <3>2, <4>1
      <4> QED BY <3>1, <4>2, <4>3
    <3>5. Dead(nd, sn, i, w)
      BY <3>4 DEF Dead
    <3> QED BY <1>6, <3>5
  <2> QED BY <2>2, <2>3
<1>15. ASSUME NEW v \in Node PROVE SentOK(nd2, ch2, sn, v)
  <2> DEFINE w == sn[v].append.term
             k == sn[v].append.index
  <2>1. /\ w \in Term /\ k \in Nat /\ w <= nd[v].term /\ k <= Len(ch[w])
        /\ \A i \in 1 .. k : At(ch, w, i, w) => Has(ch, nd[v], i, w) \/ Dead(nd, sn, i, w)
    BY <1>3 DEF Raft, SentOK
  <2>2. w <= nd2[v].term /\ k <= Len(ch2[w])
    BY <1>2, <1>3, <2>1
  <2>3. ASSUME NEW i \in 1 .. k, At(ch2, w, i, w)
        PROVE  Has(ch2, nd2[v], i, w) \/ Dead(nd2, sn, i, w)
    <3> HIDE DEF w, k
    <3>1. i <= Len(ch[w])
      BY <1>2, <2>1
    <3>2. At(ch, w, i, w)
      BY <1>0, <2>1, <2>3, <3>1, GrowAt
    <3> QED BY <1>5, <1>6, <2>1, <3>2
  <2> QED BY <2>2, <2>3 DEF SentOK
<1> QED BY <1>0, <1>1, <1>4, <1>9, <1>10, <1>11, <1>12, <1>14, <1>15 DEF Raft, Led

LEMMA ProposeRaft ==
    ASSUME NEW nd, NEW ch, NEW sn, Typed(nd, sn), Raft(nd, ch, sn),
           NEW n \in Node, nd[n].leads, NEW t, t = nd[n].term, NEW e \in Entry, e.term = t,
           Len(ch[t]) + 1 <= MaxIndex + t,
           NEW nd2, Leading(nd, n, t, e, nd2), NEW ch2, ch2 = [ch EXCEPT ![t] = Append(@, e)]
    PROVE  Led(nd, ch, sn, n, t, Len(ch[t]) + 1, nd2, ch2)
<1> DEFINE base == ch[t]
<1>0. /\ ChainOK(ch) /\ t \in Term /\ LeaderOK(nd, ch, n) /\ Len(ch[t]) \in Nat /\ ch[t] \in Seq(Entry)
      /\ ch \in [Term -> Seq(Entry)]
  BY ChainLen DEF Raft, Typed, ChainOK
<1>1. /\ t # 0 /\ n \in Voter /\ Along(ch, nd[n], t) /\ last_log_index(nd[n]) = Len(ch[t])
      /\ ch[t] # <<>> /\ \A m \in Node : nd[m].leads /\ nd[m].term = t => m = n
  BY <1>0 DEF LeaderOK
<1>2. BaseOK(ch, t, base)
  <2> SUFFICES ASSUME NEW i \in 1 .. Len(ch[t])
               PROVE  /\ ch[t][i].term <= t /\ ch[t][i].term # 0
                      /\ ch[t][i].term # t => /\ i <= Len(ch[ch[t][i].term])
                                              /\ \A j \in 1 .. i : ch[t][j] = ch[ch[t][i].term][j]
    BY <1>0 DEF BaseOK
  <2>1. ch[t][i].term <= t /\ ch[t][i].term # 0 /\ Same(ch, t, ch[t][i].term, i)
    BY <1>0 DEF ChainOK
  <2> QED BY <2>1 DEF Same
<1>3. Extended(ch, t, base, e, ch2)
  <2>1. /\ Append(ch[t], e) \in Seq(Entry) /\ Len(Append(ch[t], e)) = Len(ch[t]) + 1
        /\ \A i \in 1 .. Len(ch[t]) : Append(ch[t], e)[i] = ch[t][i]
        /\ Append(ch[t], e)[Len(ch[t]) + 1] = e
    BY <1>0, AppendOf
  <2>2. ch2[t] = Append(ch[t], e) /\ \A u \in Term : u # t => ch2[u] = ch[u]
    BY <1>0
  <2>3. ch2 \in [Term -> Seq(Entry)]
    BY <1>0, <2>1
  <2> QED BY <1>0, <2>1, <2>2, <2>3 DEF Extended
<1>4. On(nd[n], base)
  BY <1>1 DEF On, Along
<1>5. Reaches(nd, ch, sn, t, base)
  <2>1. ASSUME NEW w \in Term, NEW i \in Nat, w < t, At(ch, w, i, w)
        PROVE  (i \in 1 .. Len(base) /\ base[i].term = w) \/ Dead(nd, sn, i, w)
    <3>1. i \in 1 .. Len(ch[w]) /\ ch[w][i].term = w
      BY <2>1 DEF At
    <3>2. At(ch, t, i, w) \/ Dead(nd, sn, i, w)
      BY <1>0, <1>1, <2>1, <3>1 DEF Raft, Complete
    <3> QED BY <3>2 DEF At
  <2>2. ASSUME NEW w \in Term, NEW i \in Nat, w < t, Durable(nd, ch, i, w)
        PROVE  i \in 1 .. Len(base) /\ base[i].term = w
    <3>1. t > w
      BY <1>0, <2>2, TermNat
    <3>2. At(ch, t, i, w)
      BY <1>0, <1>1, <2>2, <3>1 DEF Durable, Stable
    <3> QED BY <3>2 DEF At
  <2>3. \E q \in Quorum : \A v \in q : nd[v].term >= t
    BY <1>0, <1>1 DEF Raft, Elected
  <2> QED BY <2>1, <2>2, <2>3 DEF Reaches
<1> HIDE DEF base
<1>6. Len(base) + 1 <= MaxIndex + t
  BY DEF base
<1>7. Led(nd, ch, sn, n, t, Len(base) + 1, nd2, ch2)
  BY <1>0, <1>1, <1>2, <1>3, <1>4, <1>5, <1>6, ExtendRaft
<1> QED BY <1>7 DEF base

(* What a candidate's log must have, because a voter that prefers it has   *)
(* it.                                                                     *)
LEMMA Preferred ==
    ASSUME NEW ch, ChainOK(ch), NEW c, IsLog(c), NEW x \in Term, Along(ch, c, x),
           NEW v, IsLog(v), NEW y \in Term, Along(ch, v, y), UpToDate(c, v),
           NEW i, NEW w \in Term, Has(ch, v, i, w), Stable(ch, i, w)
    PROVE  i \in 1 .. last_log_index(c) /\ At(ch, last_log_term(c), i, w)
<1>1. /\ last_log_term(v) \in Term /\ Along(ch, v, last_log_term(v))
      /\ last_log_term(c) \in Term /\ Along(ch, c, last_log_term(c))
      /\ last_log_term(v) \in Nat /\ last_log_term(c) \in Nat /\ w \in Nat
      /\ last_log_index(c) # 0 => At(ch, last_log_term(c), last_log_index(c), last_log_term(c))
      /\ last_log_index(c) = 0 => last_log_term(c) = 0
      /\ last_log_index(c) \in Nat /\ last_log_index(v) \in Nat
  BY AlongLast, LogLen, TermNat
<1>2. i <= last_log_index(v) /\ At(ch, last_log_term(v), i, w) /\ i \in Nat \ {0}
  BY <1>1, HasAlong
<1>3. w <= last_log_term(v)
  BY <1>1, <1>2, AtParts
<1>4. CASE last_log_term(c) = last_log_term(v) /\ last_log_index(c) >= last_log_index(v)
  BY <1>1, <1>2, <1>4
<1>5. CASE last_log_term(c) > last_log_term(v)
  <2>1. last_log_term(c) > w /\ last_log_index(c) # 0
    BY <1>1, <1>3, <1>5
  <2>2. ch[last_log_term(c)] # <<>>
    BY <1>1, <2>1, AtParts
  <2>3. At(ch, last_log_term(c), i, w)
    BY <1>1, <2>1, <2>2 DEF Stable
  <2>4. ~(last_log_index(c) <= i)
    <3> SUFFICES ASSUME last_log_index(c) <= i PROVE FALSE
      OBVIOUS
    <3>1. last_log_term(c) <= w
      BY <1>1, <2>1, <2>3, ChainMono
    <3> QED BY <1>1, <2>1, <3>1
  <2> QED BY <1>1, <1>2, <2>3, <2>4
<1> QED BY <1>4, <1>5 DEF UpToDate

LEMMA ElectRaft ==
    ASSUME NEW nd, NEW ch, NEW sn, Typed(nd, sn), Raft(nd, ch, sn), NEW q \in Quorum, NEW n \in q,
           NEW t \in Term, t # 0, ch[t] = <<>>,
           \A v \in q : nd[v].term = t /\ UpToDate(nd[n], nd[v]),
           NEW e \in Entry, e.term = t, NEW nd2, Leading(nd, n, t, e, nd2),
           NEW ch2,
           ch2 = [ch EXCEPT ![t] =
                     Append(SubSeq(ch[last_log_term(nd[n])], 1, last_log_index(nd[n])), e)]
    PROVE  Led(nd, ch, sn, n, t, last_log_index(nd[n]) + 1, nd2, ch2)
<1> DEFINE l == last_log_index(nd[n])
           w0 == last_log_term(nd[n])
           base == SubSeq(ch[w0], 1, l)
<1>0. /\ ChainOK(ch) /\ n \in Node /\ n \in Voter /\ \A v \in q : v \in Node /\ v \in Voter
      /\ \A v \in Node : /\ IsLog(nd[v]) /\ nd[v].term \in Nat /\ LeaderOK(nd, ch, v)
                         /\ \E y \in Term : y <= nd[v].term /\ Along(ch, nd[v], y)
      /\ ch \in [Term -> Seq(Entry)] /\ t \in Nat /\ Voter \subseteq Node
      /\ \A s \in Quorum : s \subseteq Voter
  BY ReplicaAssumption, TermNat DEF Raft, Typed, Quorum, ChainOK, Placed
<1>1. PICK x \in Term : x <= t /\ Along(ch, nd[n], x)
  BY <1>0
<1>2. /\ w0 \in Term /\ w0 <= x /\ Along(ch, nd[n], w0) /\ l \in Nat /\ w0 \in Nat /\ x \in Nat
      /\ l = 0 => w0 = 0
      /\ l # 0 => At(ch, w0, l, w0)
      /\ l <= Len(ch[w0]) /\ Len(ch[w0]) \in Nat /\ ch[w0] \in Seq(Entry)
  <2>1. /\ w0 \in Term /\ w0 <= x /\ Along(ch, nd[n], w0) /\ (l = 0 => w0 = 0)
        /\ l # 0 => At(ch, w0, l, w0)
    BY <1>0, <1>1, AlongLast
  <2>2. l <= Len(ch[w0])
    BY <2>1 DEF Along
  <2>3. l \in Nat
    BY <1>0, LogLen
  <2> QED BY <1>0, <2>1, <2>2, <2>3, ChainLen, TermNat
<1>3. w0 < t
  <2>1. CASE l = 0
    BY <1>0, <1>2, <2>1
  <2>2. CASE l # 0
    <3>1. ch[w0] # <<>>
      BY <1>0, <1>2, <2>2, AtParts
    <3> QED BY <1>0, <1>1, <1>2, <3>1
  <2> QED BY <2>1, <2>2
<1>4. base \in Seq(Entry) /\ Len(base) = l /\ \A i \in 1 .. l : base[i] = ch[w0][i]
  <2> HIDE DEF w0, l
  <2> QED BY <1>2
<1>5. ASSUME NEW i \in 1 .. l, NEW w, At(ch, w0, i, w) PROVE i \in 1 .. Len(base) /\ base[i].term = w
  BY <1>4, <1>5 DEF At
<1>a. ch2 = [ch EXCEPT ![t] = Append(base, e)]
  OBVIOUS
<1>b. Leading(nd, n, t, e, nd2) /\ \A v \in q : nd[v].term = t /\ UpToDate(nd[n], nd[v])
  OBVIOUS
<1>c. On(nd[n], base)
  <2>1. \A i \in 1 .. Len(nd[n].log) : nd[n].log[i] = base[nd[n].snap.index + i]
    <3> SUFFICES ASSUME NEW i \in 1 .. Len(nd[n].log) PROVE nd[n].log[i] = base[nd[n].snap.index + i]
      OBVIOUS
    <3>1. nd[n].snap.index + i \in 1 .. l
      <4>1. nd[n].snap.index \in Nat /\ Len(nd[n].log) \in Nat /\ l = nd[n].snap.index + Len(nd[n].log)
        BY <1>0, LogLen
      <4> HIDE DEF l
      <4> QED BY <4>1
    <3>2. nd[n].log[i] = ch[w0][nd[n].snap.index + i]
      BY <1>2 DEF Along
    <3> HIDE DEF base, l, w0
    <3> QED BY <1>4, <3>1, <3>2
  <2>2. CASE nd[n].snap.index = 0
    BY <1>2, <1>4, <2>1, <2>2 DEF Along, On
  <2>3. CASE nd[n].snap.index # 0
    <3>1. nd[n].snap.index \in 1 .. l
      BY <1>0, <2>3, LogLen
    <3>2. base[nd[n].snap.index] = ch[w0][nd[n].snap.index]
      BY <1>4, <3>1
    <3>3. ch[w0][nd[n].snap.index].term = nd[n].snap.term
      BY <1>2, <2>3 DEF Along
    <3> HIDE DEF base, l, w0
    <3> QED BY <1>4, <2>1, <2>3, <3>2, <3>3 DEF On, l
  <2> QED BY <2>2, <2>3
<1>d. ASSUME NEW v \in q, NEW i, NEW w \in Term, Has(ch, nd[v], i, w), Stable(ch, i, w)
      PROVE  i \in 1 .. Len(base) /\ base[i].term = w
  <2>1. i \in 1 .. l /\ At(ch, w0, i, w)
    BY <1>0, <1>1, <1>b, <1>d, Preferred
  <2> QED BY <1>5, <2>1
<1>m. Len(base) + 1 <= MaxIndex + t
  <2>1. Len(ch[w0]) <= MaxIndex + w0
    BY <1>0, <1>2 DEF ChainOK
  <2> HIDE DEF base, l, w0
  <2> QED BY <1>0, <1>2, <1>3, <1>4, <2>1, ReplicaAssumption
<1>l. Len(base) = last_log_index(nd[n])
  BY <1>4
<1> HIDE DEF base, l, w0
<1>6. BaseOK(ch, t, base)
  <2> SUFFICES ASSUME NEW i \in 1 .. Len(base)
               PROVE  /\ base[i].term <= t /\ base[i].term # 0
                      /\ base[i].term # t => /\ i <= Len(ch[base[i].term])
                                             /\ \A j \in 1 .. i : base[j] = ch[base[i].term][j]
    BY <1>4 DEF BaseOK
  <2> DEFINE w == ch[w0][i].term
  <2>1. base[i] = ch[w0][i] /\ i \in 1 .. Len(ch[w0]) /\ i \in 1 .. l
    BY <1>2, <1>4
  <2>2. w <= w0 /\ w # 0 /\ Same(ch, w0, w, i) /\ w \in Term
    <3>1. At(ch, w0, i, w)
      BY <2>1 DEF At
    <3> QED BY <1>0, <1>2, <3>1, ChainEntry
  <2>3. \A j \in 1 .. i : base[j] = ch[w0][j]
    BY <1>2, <1>4
  <2>4. base[i].term = w
    BY <2>1
  <2> HIDE DEF w
  <2>5. w <= t
    BY <1>0, <1>2, <1>3, <2>2, TermNat
  <2> QED BY <2>2, <2>3, <2>4, <2>5 DEF Same
<1>7. Extended(ch, t, base, e, ch2)
  <2>1. /\ Append(base, e) \in Seq(Entry) /\ Len(Append(base, e)) = Len(base) + 1
        /\ \A i \in 1 .. Len(base) : Append(base, e)[i] = base[i]
        /\ Append(base, e)[Len(base) + 1] = e
    BY <1>4, AppendOf
  <2>2. ch2[t] = Append(base, e) /\ \A u \in Term : u # t => ch2[u] = ch[u]
    BY <1>0, <1>a
  <2>3. ch2 \in [Term -> Seq(Entry)]
    BY <1>0, <1>a, <2>1
  <2> QED BY <1>2, <1>4, <2>1, <2>2, <2>3 DEF Extended
<1>8. Reaches(nd, ch, sn, t, base)
  <2>1. ASSUME NEW w \in Term, NEW i \in Nat, w < t, At(ch, w, i, w)
        PROVE  (i \in 1 .. Len(base) /\ base[i].term = w) \/ Dead(nd, sn, i, w)
    <3>1. CASE \E v \in q : sn[v].append.term = w /\ sn[v].append.index >= i
      <4>1. PICK v \in q : sn[v].append.term = w /\ sn[v].append.index >= i
        BY <3>1
      <4>2. sn[v].append.index \in Nat /\ SentOK(nd, ch, sn, v) /\ i \in Nat \ {0}
        BY <1>0, <2>1, AtParts DEF Typed, Raft
      <4>3. i \in 1 .. sn[v].append.index
        BY <4>1, <4>2
      <4>4. Has(ch, nd[v], i, w) \/ Dead(nd, sn, i, w)
        BY <2>1, <4>1, <4>2, <4>3 DEF SentOK
      <4>5. Stable(ch, i, w) \/ Dead(nd, sn, i, w)
        BY <2>1, StableOrDead
      <4> QED BY <1>d, <4>4, <4>5
    <3>2. CASE ~\E v \in q : sn[v].append.term = w /\ sn[v].append.index >= i
      <4>1. ASSUME NEW v \in q
            PROVE  nd[v].term > w /\ ~(sn[v].append.term = w /\ sn[v].append.index >= i)
        BY <1>0, <1>b, <2>1, <3>2, TermNat
      <4>2. Dead(nd, sn, i, w)
        BY <4>1 DEF Dead
      <4> QED BY <4>2
    <3> QED BY <3>1, <3>2
  <2>2. ASSUME NEW w \in Term, NEW i \in Nat, w < t, Durable(nd, ch, i, w)
        PROVE  i \in 1 .. Len(base) /\ base[i].term = w
    <3>1. PICK s \in Quorum : \A v \in s : nd[v].term >= w /\ Has(ch, nd[v], i, w)
      BY <2>2 DEF Durable
    <3>2. PICK v \in Voter : v \in q /\ v \in s
      BY QuorumMeet
    <3>3. Has(ch, nd[v], i, w) /\ Stable(ch, i, w)
      BY <2>2, <3>1, <3>2 DEF Durable
    <3> QED BY <1>d, <3>2, <3>3
  <2>3. \A v \in q : nd[v].term >= t
    BY <1>0, <1>b
  <2> QED BY <2>1, <2>2, <2>3 DEF Reaches
<1>9. \A m \in Node : nd[m].leads /\ nd[m].term = t => m = n
  BY <1>0 DEF LeaderOK
<1>10. Led(nd, ch, sn, n, t, Len(base) + 1, nd2, ch2)
  BY <1>0, <1>b, <1>c, <1>m, <1>6, <1>7, <1>8, <1>9, ExtendRaft
<1> QED BY <1>10, <1>l

=============================================================================
