----------------------------- MODULE ProofLemmas -----------------------------
(***************************************************************************)
(* Facts about finite sequences and sets that the proofs about the         *)
(* components share: the operators the models use for queues and logs      *)
(* (Append, Tail, concatenation, RemoveAt, SetToSeq) keep the type of a    *)
(* sequence and add no element that was not there; facts about remainders; *)
(* and what a sum over a finite set is, by induction on its subsets.       *)
(***************************************************************************)
EXTENDS Naturals, Sequences, SequencesExt, FiniteSetTheorems, VecOps, TLAPS

(* Every nonempty set of naturals has a least element, and a bounded one a *)
(* greatest.                                                               *)
LEMMA NatMin ==
    ASSUME NEW T \in SUBSET Nat, T # {}
    PROVE  \E x \in T : \A y \in T : x <= y
<1> DEFINE R == OpToRel(<, Nat)
<1>1. PICK x \in T : \A y \in T : ~(<<y, x>> \in R)
  <2>1. IsWellFoundedOn(R, Nat)
    BY NatLessThanWellFounded, Zenon
  <2> HIDE DEF R
  <2> QED BY <2>1, WFMin, Zenon
<1>2. R = {ss \in Nat \X Nat : ss[1] < ss[2]}
  BY Zenon DEF OpToRel
<1>3. \A y \in T : x <= y
  <2> HIDE DEF R
  <2>1. x \in Nat /\ \A y \in T : y \in Nat /\ ~(y < x)
    BY <1>1, <1>2
  <2> QED BY <2>1
<1> QED BY <1>3

LEMMA NatMax ==
    ASSUME NEW T \in SUBSET Nat, T # {}, NEW b \in Nat, \A y \in T : y <= b
    PROVE  \E x \in T : \A y \in T : y <= x
<1> DEFINE U == {b - y : y \in T}
<1>0. PICK z \in T : TRUE
  OBVIOUS
<1>1. U \in SUBSET Nat /\ b - z \in U
  BY <1>0
<1>2. PICK u \in U : \A v \in U : u <= v
  BY <1>1, NatMin
<1>3. PICK x \in T : u = b - x
  OBVIOUS
<1>4. \A y \in T : b - x <= b - y
  BY <1>2, <1>3
<1>5. \A y \in T : y <= x
  BY <1>4
<1> QED BY <1>5

(* Induction over the naturals, for sets.                                  *)
LEMMA NatInduct ==
    ASSUME NEW S, 0 \in S, \A n \in Nat : n \in S => n + 1 \in S
    PROVE  Nat \subseteq S
<1> SUFFICES ASSUME Nat \ S # {} PROVE FALSE
  OBVIOUS
<1>1. PICK x \in Nat \ S : \A y \in Nat \ S : x <= y
  BY NatMin
<1>2. x # 0 /\ x - 1 \in Nat /\ x - 1 \in S
  BY <1>1
<1> QED BY <1>1, <1>2

(* The entries of a sequence of naturals are bounded.                       *)
LEMMA SeqBounded ==
    ASSUME NEW n \in Nat, NEW x \in [1 .. n -> Nat]
    PROVE  \E top \in Nat : \A i \in 1 .. n : x[i] <= top
<1> DEFINE P(m) == \E top \in Nat : \A i \in 1 .. m : x[i] <= top
           S == {m \in Nat : m <= n => P(m)}
<1>1. 0 \in S
  <2>1. \A i \in 1 .. 0 : x[i] <= 0 OBVIOUS
  <2> QED BY <2>1
<1>2. ASSUME NEW m \in Nat, m \in S PROVE m + 1 \in S
  <2> SUFFICES ASSUME m + 1 <= n PROVE P(m + 1) OBVIOUS
  <2>1. PICK top \in Nat : \A i \in 1 .. m : x[i] <= top BY <1>2
  <2>2. x[m + 1] \in Nat /\ \A i \in 1 .. (m + 1) : i \in 1 .. m \/ i = m + 1 OBVIOUS
  <2>3. CASE x[m + 1] <= top
    <3>1. \A i \in 1 .. (m + 1) : x[i] <= top BY <2>1, <2>2, <2>3
    <3> QED BY <3>1
  <2>4. CASE top <= x[m + 1]
    <3>1. \A i \in 1 .. m : x[i] \in Nat OBVIOUS
    <3>2. \A i \in 1 .. (m + 1) : x[i] <= x[m + 1] BY <2>1, <2>2, <2>4, <3>1
    <3> QED BY <2>2, <3>2
  <2> QED BY <2>2, <2>3, <2>4
<1>3. Nat \subseteq S
  <2> HIDE DEF S
  <2> QED BY <1>1, <1>2, NatInduct
<1>4. n \in S /\ n <= n
  <2> HIDE DEF S
  <2> QED BY <1>3
<1> QED BY <1>4

LEMMA MaxOfSet ==
    ASSUME NEW T \in SUBSET Nat, T # {}, NEW top \in Nat, \A y \in T : y <= top
    PROVE  Max(T) \in T /\ Max(T) \in Nat /\ \A y \in T : y <= Max(T)
<1>1. \E x \in T : \A y \in T : x >= y BY NatMax
<1>2. Max(T) \in T /\ \A y \in T : Max(T) >= y BY <1>1 DEF Max
<1> QED BY <1>2

(* A queue grows by what is appended.                                      *)
LEMMA AppendOf ==
    ASSUME NEW R, NEW s \in Seq(R), NEW x \in R
    PROVE  /\ Append(s, x) \in Seq(R) /\ Len(Append(s, x)) = Len(s) + 1
           /\ DOMAIN s = 1..Len(s) /\ DOMAIN Append(s, x) = 1..(Len(s) + 1) /\ Len(s) \in Nat
           /\ \A i \in 1..Len(s) : Append(s, x)[i] = s[i]
           /\ Append(s, x)[Len(s) + 1] = x
OBVIOUS

(* The head of a queue is an element of it and the tail holds the others.  *)
LEMMA HeadTailOf ==
    ASSUME NEW R, NEW s \in Seq(R), s # <<>>
    PROVE  /\ Head(s) \in R /\ Head(s) = s[1] /\ 1 \in DOMAIN s
           /\ Tail(s) \in Seq(R) /\ Len(Tail(s)) = Len(s) - 1 /\ Len(s) \in Nat \ {0}
           /\ DOMAIN s = 1..Len(s) /\ DOMAIN Tail(s) = 1..(Len(s) - 1)
           /\ \A i \in 1..(Len(s) - 1) : Tail(s)[i] = s[i + 1]
OBVIOUS

(* SetToSeq lists each element of a finite set once.                       *)
LEMMA SetToSeqOf ==
    ASSUME NEW S, IsFiniteSet(S)
    PROVE  /\ Cardinality(S) \in Nat /\ SetToSeq(S) \in [1..Cardinality(S) -> S]
           /\ \A i, j \in 1..Cardinality(S) : SetToSeq(S)[i] = SetToSeq(S)[j] => i = j
<1>1. Cardinality(S) \in Nat /\ ExistsBijection(1..Cardinality(S), S)
  BY FS_CardinalityType
<1>2. PICK f : f \in Bijection(1..Cardinality(S), S)
  BY <1>1 DEF ExistsBijection
<1>3. f \in [1..Cardinality(S) -> S] /\ IsInjective(f)
  BY <1>2 DEF Bijection, Injection, IsInjective
<1>4. SetToSeq(S) \in [1..Cardinality(S) -> S] /\ IsInjective(SetToSeq(S))
  BY <1>3 DEF SetToSeq
<1> HIDE DEF SetToSeq
<1> QED BY <1>1, <1>4 DEF IsInjective

LEMMA ImageFinite ==
    ASSUME NEW S, IsFiniteSet(S), NEW f
    PROVE  IsFiniteSet({f[x] : x \in S}) /\ Cardinality({f[x] : x \in S}) <= Cardinality(S)
<1> DEFINE T == {f[x] : x \in S}
<1> DEFINE g == [x \in S |-> f[x]]
<1>1. g \in Surjection(S, T)
  BY DEF Surjection
<1> QED
  BY <1>1, FS_Surjection

LEMMA ConcatOf ==
    ASSUME NEW R, NEW s \in Seq(R), NEW t \in Seq(R)
    PROVE  /\ s \o t \in Seq(R) /\ Len(s \o t) = Len(s) + Len(t)
           /\ \A i \in DOMAIN (s \o t) :
                 (s \o t)[i] = IF i <= Len(s) THEN s[i] ELSE t[i - Len(s)]
OBVIOUS

LEMMA RemoveAtOf ==
    ASSUME NEW R, NEW s \in Seq(R), NEW i \in DOMAIN s
    PROVE  /\ RemoveAt(s, i) \in Seq(R)
           /\ Len(RemoveAt(s, i)) = Len(s) - 1
           /\ \A k \in DOMAIN RemoveAt(s, i) : \E m \in DOMAIN s : RemoveAt(s, i)[k] = s[m]
<1> DEFINE a == SubSeq(s, 1, i - 1)
           b == SubSeq(s, i + 1, Len(s))
<1>1. i \in 1..Len(s) /\ Len(s) \in Nat
  OBVIOUS
<1>2. a \in Seq(R) /\ Len(a) = i - 1 /\ \A k \in 1..(i - 1) : a[k] = s[k]
  BY <1>1
<1>3. b \in Seq(R) /\ Len(b) = Len(s) - i /\ \A k \in 1..(Len(s) - i) : b[k] = s[i + k]
  BY <1>1
<1>4. /\ a \o b \in Seq(R) /\ Len(a \o b) = Len(s) - 1
      /\ \A k \in 1..(Len(s) - 1) : (a \o b)[k] = IF k <= i - 1 THEN a[k] ELSE b[k - (i - 1)]
  <2> HIDE DEF a, b
  <2> QED BY <1>1, <1>2, <1>3
<1>5. \A k \in 1..(Len(s) - 1) : \E m \in DOMAIN s : (a \o b)[k] = s[m]
  <2> HIDE DEF a, b
  <2> TAKE k \in 1..(Len(s) - 1)
  <2>1. CASE k <= i - 1
    BY <2>1, <1>1, <1>2, <1>4
  <2>2. CASE ~(k <= i - 1)
    <3>1. k - (i - 1) \in 1..(Len(s) - i) /\ i + (k - (i - 1)) = k + 1 /\ k + 1 \in DOMAIN s
      BY <2>2, <1>1
    <3>2. (a \o b)[k] = s[k + 1]
      BY <3>1, <2>2, <1>3, <1>4
    <3> QED BY <3>1, <3>2
  <2> QED BY <2>1, <2>2
<1>6. RemoveAt(s, i) = a \o b
  BY DEF RemoveAt
<1>7. DOMAIN (a \o b) = 1..(Len(s) - 1)
  <2> HIDE DEF a, b
  <2> QED BY <1>1, <1>4
<1> HIDE DEF a, b
<1> QED
  BY <1>4, <1>5, <1>6, <1>7

(* What retain computes: an increasing map of its places to the places of   *)
(* the entries kept.                                                        *)
Keeping(f, s, keep) ==
    /\ f[0] = <<>>
    /\ \A i \in 1 .. Len(s) :
          f[i] = IF s[i] \in keep THEN Append(f[i - 1], s[i]) ELSE f[i - 1]

KeptPlaces(g, r, s, n, keep) ==
    /\ g \in [1 .. Len(r) -> 1 .. n]
    /\ \A a, b \in 1 .. Len(r) : a < b => g[a] < g[b]
    /\ \A a \in 1 .. Len(r) : r[a] = s[g[a]]
    /\ \A i \in 1 .. n : s[i] \in keep => \E a \in 1 .. Len(r) : g[a] = i

LEMMA KeepingExists ==
    ASSUME NEW T, NEW s \in Seq(T), NEW keep
    PROVE  \E f \in [0 .. Len(s) -> Seq(T)] : Keeping(f, s, keep)
<1> DEFINE Ok(g, n) ==
        /\ g \in [0 .. n -> Seq(T)] /\ g[0] = <<>>
        /\ \A i \in 1 .. n : g[i] = IF s[i] \in keep THEN Append(g[i - 1], s[i]) ELSE g[i - 1]
           S == {n \in Nat : n <= Len(s) => \E g : Ok(g, n)}
<1>1. 0 \in S
  <2> DEFINE f == [i \in 0 .. 0 |-> <<>>]
  <2>1. f \in [0 .. 0 -> Seq(T)] /\ f[0] = <<>>
    OBVIOUS
  <2>2. \A i : i \notin 1 .. 0
    <3>1. \A i \in Int : ~(1 <= i /\ i <= 0)
      OBVIOUS
    <3> QED BY <3>1
  <2> HIDE DEF f
  <2>3. Ok(f, 0)
    BY <2>1, <2>2
  <2> QED BY <2>3
<1>2. ASSUME NEW n \in Nat, n \in S PROVE n + 1 \in S
  <2>1. ASSUME n + 1 <= Len(s) PROVE \E g : Ok(g, n + 1)
    <3>1. PICK g : Ok(g, n)
      <4>1. n <= Len(s) BY <2>1
      <4> HIDE DEF Ok
      <4> QED BY <1>2, <4>1
    <3>2. n + 1 \in 1 .. Len(s) /\ s[n + 1] \in T /\ n \in 0 .. n
      BY <2>1
    <3>3. g[n] \in Seq(T)
      BY <3>1, <3>2
    <3> DEFINE x == IF s[n + 1] \in keep THEN Append(g[n], s[n + 1]) ELSE g[n]
    <3>4. x \in Seq(T)
      BY <3>2, <3>3, AppendOf
    <3> DEFINE h == [i \in 0 .. n + 1 |-> IF i = n + 1 THEN x ELSE g[i]]
    <3>5. h \in [0 .. n + 1 -> Seq(T)] /\ h[0] = <<>>
      <4> HIDE DEF x
      <4> QED BY <3>1, <3>4
    <3>6. ASSUME NEW i \in 1 .. n + 1
          PROVE  h[i] = IF s[i] \in keep THEN Append(h[i - 1], s[i]) ELSE h[i - 1]
      <4>1. CASE i = n + 1
        <5>1. h[i] = x /\ h[i - 1] = g[n]
          <6> HIDE DEF x
          <6> QED BY <4>1
        <5> HIDE DEF h
        <5> QED BY <5>1, <4>1
      <4>2. CASE i # n + 1
        <5>1. h[i] = g[i] /\ h[i - 1] = g[i - 1] /\ i \in 1 .. n
          <6> HIDE DEF x
          <6> QED BY <4>2
        <5> HIDE DEF h
        <5> QED BY <5>1, <3>1
      <4> QED BY <4>1, <4>2
    <3>7. Ok(h, n + 1)
      <4> HIDE DEF h
      <4> QED BY <3>5, <3>6
    <3> QED BY <3>7
  <2> HIDE DEF Ok
  <2> QED BY <2>1
<1>3. Nat \subseteq S
  <2> HIDE DEF S
  <2> QED BY <1>1, <1>2, NatInduct
<1>4. Len(s) \in S
  <2>1. Len(s) \in Nat
    OBVIOUS
  <2> HIDE DEF S
  <2> QED BY <1>3, <2>1
<1> QED BY <1>4 DEF Keeping

LEMMA KeepingPlaces ==
    ASSUME NEW T, NEW s \in Seq(T), NEW keep, NEW f, Keeping(f, s, keep)
    PROVE  /\ f[Len(s)] \in Seq(T \cap keep)
           /\ \E g : KeptPlaces(g, f[Len(s)], s, Len(s), keep)
<1> DEFINE P(n) == f[n] \in Seq(T \cap keep) /\ \E g : KeptPlaces(g, f[n], s, n, keep)
           S == {n \in Nat : n <= Len(s) => P(n)}
<1>1. 0 \in S
  <2>1. f[0] = <<>> /\ Len(f[0]) = 0
    BY DEF Keeping
  <2>2. \A i : i \notin 1 .. 0
    <3>1. \A i \in Int : ~(1 <= i /\ i <= 0)
      OBVIOUS
    <3> QED BY <3>1
  <2>3. KeptPlaces([i \in 1 .. 0 |-> i], f[0], s, 0, keep)
    BY <2>1, <2>2 DEF KeptPlaces
  <2>4. <<>> \in Seq(T \cap keep)
    OBVIOUS
  <2>5. P(0)
    BY <2>1, <2>3, <2>4
  <2> HIDE DEF P
  <2> QED BY <2>5
<1>2. ASSUME NEW n \in Nat, n \in S PROVE n + 1 \in S
  <2>1. ASSUME n + 1 <= Len(s) PROVE P(n + 1)
    <3>1. f[n] \in Seq(T \cap keep) /\ \E g : KeptPlaces(g, f[n], s, n, keep)
      BY <1>2, <2>1
    <3>2. PICK g : KeptPlaces(g, f[n], s, n, keep)
      BY <3>1
    <3>3. n + 1 \in 1 .. Len(s) /\ s[n + 1] \in T
      BY <2>1
    <3>4. f[n + 1] = IF s[n + 1] \in keep THEN Append(f[n], s[n + 1]) ELSE f[n]
      <4>1. (n + 1) - 1 = n OBVIOUS
      <4> QED BY <3>3, <4>1 DEF Keeping
    <3> DEFINE r == f[n]
               l == Len(f[n])
    <3>5. l \in Nat
      BY <3>1
    <3>6. CASE s[n + 1] \notin keep
      <4>1. KeptPlaces(g, f[n + 1], s, n + 1, keep)
        <5>1. f[n + 1] = f[n] BY <3>4, <3>6
        <5>2. g \in [1 .. l -> 1 .. (n + 1)]
          BY <3>2, <3>5 DEF KeptPlaces
        <5>3. \A i \in 1 .. (n + 1) : i \in 1 .. n \/ i = n + 1
          OBVIOUS
        <5> QED BY <3>2, <3>6, <5>1, <5>2, <5>3 DEF KeptPlaces
      <4> QED BY <3>1, <3>4, <3>6, <4>1
    <3>7. CASE s[n + 1] \in keep
      <4> DEFINE q == f[n + 1]
                 h == [a \in 1 .. (l + 1) |-> IF a = l + 1 THEN n + 1 ELSE g[a]]
      <4>1. q = Append(f[n], s[n + 1]) BY <3>4, <3>7
      <4>2. q \in Seq(T \cap keep) /\ Len(q) = l + 1 /\ q[l + 1] = s[n + 1]
            /\ \A a \in 1 .. l : q[a] = f[n][a]
        BY <3>1, <3>3, <3>7, <4>1, AppendOf
      <4>3. /\ g \in [1 .. l -> 1 .. n]
            /\ \A a, b \in 1 .. l : a < b => g[a] < g[b]
            /\ \A a \in 1 .. l : f[n][a] = s[g[a]]
            /\ \A i \in 1 .. n : s[i] \in keep => \E a \in 1 .. l : g[a] = i
        BY <3>2 DEF KeptPlaces
      <4>4. h[l + 1] = n + 1 /\ \A a \in 1 .. l : h[a] = g[a] /\ g[a] \in 1 .. n
        <5> HIDE DEF l, q
        <5> QED BY <3>5, <4>3
      <4>5. \A a \in 1 .. (l + 1) : a \in 1 .. l \/ a = l + 1
        BY <3>5
      <4>6. h \in [1 .. (l + 1) -> 1 .. (n + 1)]
        <5>1. \A a \in 1 .. (l + 1) : h[a] \in 1 .. (n + 1)
          <6> HIDE DEF h
          <6> QED BY <4>4, <4>5
        <5> QED BY <5>1
      <4> HIDE DEF h, q
      <4>7. \A a, b \in 1 .. (l + 1) : a < b => h[a] < h[b]
        BY <3>5, <4>3, <4>4, <4>5
      <4>8. \A a \in 1 .. (l + 1) : q[a] = s[h[a]]
        BY <4>2, <4>3, <4>4, <4>5
      <4>9. \A i \in 1 .. (n + 1) : s[i] \in keep => \E a \in 1 .. (l + 1) : h[a] = i
        <5>1. \A i \in 1 .. (n + 1) : i \in 1 .. n \/ i = n + 1
          OBVIOUS
        <5>2. l + 1 \in 1 .. (l + 1) /\ 1 .. l \subseteq 1 .. (l + 1)
          BY <3>5
        <5> QED BY <4>3, <4>4, <5>1, <5>2
      <4>10. KeptPlaces(h, q, s, n + 1, keep)
        BY <4>2, <4>6, <4>7, <4>8, <4>9 DEF KeptPlaces
      <4> QED BY <4>2, <4>10 DEF q
    <3> QED BY <3>6, <3>7
  <2> HIDE DEF P
  <2> QED BY <2>1
<1>3. Nat \subseteq S
  <2> HIDE DEF S
  <2> QED BY <1>1, <1>2, NatInduct
<1>4. Len(s) \in S
  <2>1. Len(s) \in Nat
    OBVIOUS
  <2> HIDE DEF S
  <2> QED BY <1>3, <2>1
<1> QED BY <1>4

LEMMA RetainOf ==
    ASSUME NEW T, NEW s \in Seq(T), NEW keep
    PROVE  /\ Retain(s, keep) \in Seq(T \cap keep)
           /\ \E g : KeptPlaces(g, Retain(s, keep), s, Len(s), keep)
<1> DEFINE Body(k) == [i \in 0 .. Len(s) |->
                IF i = 0 THEN <<>>
                ELSE IF s[i] \in keep THEN Append(k[i - 1], s[i]) ELSE k[i - 1]]
           kept == CHOOSE k : k = Body(k)
<1>1. PICK f \in [0 .. Len(s) -> Seq(T)] : Keeping(f, s, keep)
  BY KeepingExists
<1>2. f = Body(f)
  <2>1. \A i \in 0 .. Len(s) : f[i] = Body(f)[i]
    <3>1. \A i \in 0 .. Len(s) : i = 0 \/ i \in 1 .. Len(s) OBVIOUS
    <3> QED BY <1>1, <3>1 DEF Keeping
  <2> QED BY <1>1, <2>1
<1>3. kept = Body(kept)
  <2> HIDE DEF Body
  <2> QED BY <1>2
<1>4. Keeping(kept, s, keep)
  <2>1. kept[0] = <<>>
    <3>1. Body(kept)[0] = <<>>
      <4> HIDE DEF kept
      <4> QED OBVIOUS
    <3> HIDE DEF kept, Body
    <3> QED BY <1>3, <3>1
  <2>2. ASSUME NEW i \in 1 .. Len(s)
        PROVE  kept[i] = IF s[i] \in keep THEN Append(kept[i - 1], s[i]) ELSE kept[i - 1]
    <3>1. Body(kept)[i] = IF s[i] \in keep THEN Append(kept[i - 1], s[i]) ELSE kept[i - 1]
      <4> HIDE DEF kept
      <4> QED OBVIOUS
    <3>2. kept[i] = Body(kept)[i]
      <4> HIDE DEF kept, Body
      <4> QED BY <1>3
    <3> HIDE DEF kept, Body
    <3> QED BY <3>1, <3>2
  <2> HIDE DEF kept
  <2> QED BY <2>1, <2>2 DEF Keeping
<1>5. Retain(s, keep) = kept[Len(s)]
  BY DEF Retain
<1> HIDE DEF kept
<1>6. kept[Len(s)] \in Seq(T \cap keep) /\ \E g : KeptPlaces(g, kept[Len(s)], s, Len(s), keep)
  BY <1>4, KeepingPlaces
<1> QED BY <1>5, <1>6

(* What pop_front leaves is a tail of the queue; all before it were gone.   *)
LEMMA PopWhileOf ==
    ASSUME NEW T, NEW s \in Seq(T), NEW gone
    PROVE  \E k \in 1 .. Len(s) + 1 :
              /\ PopWhile(s, gone) = SubSeq(s, k, Len(s))
              /\ PopWhile(s, gone) \in Seq(T) /\ Len(PopWhile(s, gone)) = Len(s) + 1 - k
              /\ \A i \in 1 .. Len(s) + 1 - k : PopWhile(s, gone)[i] = s[k - 1 + i]
              /\ \A i \in 1 .. k - 1 : s[i] \in gone
              /\ k <= Len(s) => s[k] \notin gone
<1> DEFINE F == {i \in 1 .. Len(s) + 1 : i <= Len(s) => s[i] \notin gone}
           k == Min(F)
<1>1. Len(s) \in Nat
  OBVIOUS
<1>2. F \in SUBSET Nat /\ F # {}
  <2>1. Len(s) + 1 \in F BY <1>1
  <2> QED BY <2>1
<1>3. k \in F /\ \A y \in F : k <= y
  <2>1. \E x \in F : \A y \in F : x <= y
    BY <1>2, NatMin
  <2> HIDE DEF F
  <2> QED BY <2>1 DEF Min
<1> HIDE DEF k
<1>4. k \in 1 .. Len(s) + 1 /\ (k <= Len(s) => s[k] \notin gone)
  BY <1>3
<1>5. \A i \in 1 .. k - 1 : s[i] \in gone
  <2> SUFFICES ASSUME NEW i \in 1 .. k - 1, s[i] \notin gone PROVE FALSE
    OBVIOUS
  <2>1. i \in F BY <1>1, <1>4
  <2> QED BY <1>1, <1>3, <1>4, <2>1
<1>6. PopWhile(s, gone) = SubSeq(s, k, Len(s))
  BY DEF PopWhile, k
<1>7. SubSeq(s, k, Len(s)) \in Seq(T) /\ Len(SubSeq(s, k, Len(s))) = Len(s) + 1 - k
      /\ \A i \in 1 .. Len(s) + 1 - k : SubSeq(s, k, Len(s))[i] = s[k - 1 + i]
  BY <1>1, <1>4
<1> QED BY <1>4, <1>5, <1>6, <1>7

(* Remainders and quotients by a positive number, for calendar periods.     *)
LEMMA RemainderRange ==
    ASSUME NEW t \in Nat, NEW m \in Nat \ {0}
    PROVE  t % m \in 0 .. (m - 1)
OBVIOUS

LEMMA QuotientOf ==
    ASSUME NEW t \in Nat, NEW m \in Nat \ {0}
    PROVE  t = m * (t \div m) + (t % m) /\ t \div m \in Nat
OBVIOUS

LEMMA TimesGap ==
    ASSUME NEW m \in Nat \ {0}, NEW a \in Nat, NEW b \in Nat, a < b
    PROVE m * a + m <= m * b
OBVIOUS

LEMMA RemainderOf ==
    ASSUME NEW t \in Nat, NEW m \in Nat \ {0}
    PROVE  \E q \in Nat : t = m * q + (t % m)
BY QuotientOf

(* A day later in the same period: the period has the same start.           *)
LEMMA SamePeriod ==
    ASSUME NEW t \in Nat, NEW m \in Nat \ {0}, NEW n \in Nat, n = t + 1, n % m # 0
    PROVE  n - (n % m) = t - (t % m)
<1>1. PICK q \in Nat : t = m * q + (t % m)
  BY RemainderOf
<1>2. PICK u \in Nat : n = m * u + (n % m)
  BY RemainderOf
<1>3. t % m \in 0..(m - 1) /\ n % m \in 1..(m - 1)
  <2>1. t % m \in 0..(m - 1) /\ n % m \in 0..(m - 1)
    BY RemainderRange
  <2>2. \A x \in 0..(m - 1) : x # 0 => x \in 1..(m - 1)
    OBVIOUS
  <2> QED BY <2>1, <2>2
<1>4. ASSUME NEW r \in 0..(m - 1), NEW s \in 1..(m - 1), t = m * q + r, n = m * u + s
      PROVE  n - s = t - r
  <2>0. m * u \in Nat /\ m * q \in Nat
    OBVIOUS
  <2>1. CASE q < u
    <3>1. m * q + m <= m * u
      BY <2>1, TimesGap
    <3> QED BY <1>4, <2>0, <3>1
  <2>2. CASE u < q
    <3>1. m * u + m <= m * q
      BY <2>2, TimesGap
    <3> QED BY <1>4, <2>0, <3>1
  <2>3. CASE q = u
    BY <1>4, <2>0, <2>3
  <2> QED BY <2>1, <2>2, <2>3
<1> QED BY <1>1, <1>2, <1>3, <1>4


-----------------------------------------------------------------------------
(* How the fold of Functions sums the entries of f: it takes one index of  *)
(* the set after the other.                                                *)
AnyOf(s) == CHOOSE x \in s : TRUE

Summing(g, f, U) ==
    g = [s \in SUBSET U |-> IF s = {} THEN 0 ELSE f[AnyOf(s)] + g[s \ {AnyOf(s)}]]

LEMMA AnyOfIn == ASSUME NEW s, s # {} PROVE AnyOf(s) \in s
BY DEF AnyOf

LEMMA SmallerSubset ==
    ASSUME NEW U, IsFiniteSet(U), NEW s \in SUBSET U, NEW x \in s
    PROVE  /\ IsFiniteSet(s) /\ Cardinality(s) \in Nat \ {0}
           /\ s \ {x} \in SUBSET U /\ Cardinality(s \ {x}) = Cardinality(s) - 1
<1>1. IsFiniteSet(s) /\ Cardinality(s) \in Nat BY FS_Subset, FS_CardinalityType
<1>2. Cardinality(s) # 0 BY <1>1, FS_EmptySet
<1>3. Cardinality(s \ {x}) = Cardinality(s) - 1 BY <1>1, FS_RemoveElement
<1> QED BY <1>1, <1>2, <1>3

LEMMA SummingExists ==
    ASSUME NEW U, IsFiniteSet(U), NEW f
    PROVE  \E g : Summing(g, f, U)
<1> DEFINE Upto(n) == {s \in SUBSET U : Cardinality(s) <= n}
           Step(g, s) == IF s = {} THEN 0 ELSE f[AnyOf(s)] + g[s \ {AnyOf(s)}]
           Ok(g, n) == g = [s \in DOMAIN g |-> g[s]] /\ DOMAIN g = Upto(n) /\ \A s \in Upto(n) : g[s] = Step(g, s)
           S == {n \in Nat : \E g : Ok(g, n)}
<1>1. 0 \in S
  <2> DEFINE g == [s \in Upto(0) |-> 0]
  <2>1. \A s \in Upto(0) : s = {}
    <3> SUFFICES ASSUME NEW s \in Upto(0), s # {} PROVE FALSE OBVIOUS
    <3>1. Cardinality(s) \in Nat \ {0} BY AnyOfIn, SmallerSubset
    <3> QED BY <3>1
  <2>2. Ok(g, 0) BY <2>1
  <2> HIDE DEF g, Ok
  <2> QED BY <2>2
<1>2. ASSUME NEW n \in Nat, n \in S PROVE n + 1 \in S
  <2>1. PICK g : Ok(g, n) BY <1>2
  <2> DEFINE h == [s \in Upto(n + 1) |-> Step(g, s)]
  <2>2. ASSUME NEW s \in Upto(n + 1), s # {}
        PROVE  s \ {AnyOf(s)} \in Upto(n) /\ s \ {AnyOf(s)} \in Upto(n + 1)
    <3>1. Cardinality(s) \in Nat /\ s \ {AnyOf(s)} \in SUBSET U
          /\ Cardinality(s \ {AnyOf(s)}) = Cardinality(s) - 1
      BY <2>2, AnyOfIn, SmallerSubset
    <3> QED BY <3>1
  <2>3. ASSUME NEW s \in Upto(n), s \in Upto(n + 1) PROVE h[s] = g[s]
    <3> HIDE DEF Upto
    <3> QED BY <2>1, <2>3
  <2>4. ASSUME NEW s \in Upto(n + 1) PROVE h[s] = Step(h, s)
    <3>1. h[s] = Step(g, s) OBVIOUS
    <3>2. CASE s = {} BY <3>1, <3>2
    <3>3. CASE s # {}
      <4>1. h[s \ {AnyOf(s)}] = g[s \ {AnyOf(s)}] BY <2>2, <2>3, <3>3
      <4> HIDE DEF h
      <4> QED BY <3>1, <3>3, <4>1
    <3> QED BY <3>2, <3>3
  <2>5. DOMAIN h = Upto(n + 1) /\ h = [s \in DOMAIN h |-> h[s]] OBVIOUS
  <2>6. Ok(h, n + 1)
    <3> HIDE DEF h, Upto, Step
    <3> QED BY <2>4, <2>5
  <2> HIDE DEF Ok, h
  <2> QED BY <2>6
<1>3. Nat \subseteq S
  <2> HIDE DEF S
  <2> QED BY <1>1, <1>2, NatInduct
<1> DEFINE c == Cardinality(U)
<1>4. c \in Nat BY FS_CardinalityType
<1>5. PICK g : Ok(g, c)
  <2> HIDE DEF Ok
  <2> QED BY <1>3, <1>4
<1>6. Upto(c) = SUBSET U
  <2> SUFFICES ASSUME NEW s \in SUBSET U PROVE Cardinality(s) <= c OBVIOUS
  <2> QED BY FS_Subset
<1>7. DOMAIN g = SUBSET U /\ \A s \in SUBSET U : g[s] = Step(g, s)
  <2> HIDE DEF Upto, Step, c
  <2> QED BY <1>5, <1>6
<1>8. g = [s \in DOMAIN g |-> g[s]]
  BY <1>5
<1>9. g = [s \in SUBSET U |-> Step(g, s)]
  <2> HIDE DEF Step
  <2> QED BY <1>7, <1>8
<1> QED BY <1>9 DEF Summing

LEMMA SumUnfold ==
    ASSUME NEW U, IsFiniteSet(U), NEW f
    PROVE  \E g : Summing(g, f, U) /\ SumFunctionOnSet(f, U) = g[U]
<1> DEFINE it == CHOOSE g : Summing(g, f, U)
<1>1. Summing(it, f, U) BY SummingExists
<1>2. SumFunctionOnSet(f, U) = it[U]
  BY DEF SumFunctionOnSet, FoldFunctionOnSet, MapThenFoldSet, Summing, AnyOf
<1> QED BY <1>1, <1>2

LEMMA SummingStep ==
    ASSUME NEW U, NEW f, NEW g, Summing(g, f, U), NEW s \in SUBSET U
    PROVE  g[s] = IF s = {} THEN 0 ELSE f[AnyOf(s)] + g[s \ {AnyOf(s)}]
BY DEF Summing

(* Subsets of a finite set, by induction over their size.                  *)
LEMMA SubsetInduct ==
    ASSUME NEW U, IsFiniteSet(U), NEW Good,
           \A s \in SUBSET U :
              (\A t \in SUBSET U : Cardinality(t) < Cardinality(s) => t \in Good) => s \in Good
    PROVE  SUBSET U \subseteq Good
<1> DEFINE S == {n \in Nat : \A s \in SUBSET U : Cardinality(s) <= n => s \in Good}
<1>0. \A s \in SUBSET U : Cardinality(s) \in Nat BY FS_Subset, FS_CardinalityType
<1>1. 0 \in S
  <2> SUFFICES ASSUME NEW s \in SUBSET U, Cardinality(s) <= 0 PROVE s \in Good OBVIOUS
  <2>1. \A t \in SUBSET U : ~(Cardinality(t) < Cardinality(s)) BY <1>0
  <2> QED BY <2>1
<1>2. ASSUME NEW n \in Nat, n \in S PROVE n + 1 \in S
  <2> SUFFICES ASSUME NEW s \in SUBSET U, Cardinality(s) <= n + 1 PROVE s \in Good OBVIOUS
  <2>1. \A t \in SUBSET U : Cardinality(t) < Cardinality(s) => t \in Good
    <3> SUFFICES ASSUME NEW t \in SUBSET U, Cardinality(t) < Cardinality(s) PROVE t \in Good OBVIOUS
    <3>1. Cardinality(t) <= n BY <1>0
    <3> QED BY <1>2, <3>1
  <2> QED BY <2>1
<1>3. Nat \subseteq S
  <2> HIDE DEF S
  <2> QED BY <1>1, <1>2, NatInduct
<1> SUFFICES ASSUME NEW s \in SUBSET U PROVE s \in Good OBVIOUS
<1>4. Cardinality(s) \in S /\ Cardinality(s) <= Cardinality(s)
  <2> HIDE DEF S
  <2> QED BY <1>0, <1>3
<1> QED BY <1>4

(* The order in which the indices are taken does not matter.               *)
LEMMA SummingParts ==
    ASSUME NEW U, IsFiniteSet(U), NEW f, \A x \in U : f[x] \in Nat, NEW g, Summing(g, f, U)
    PROVE  \A s \in SUBSET U : g[s] \in Nat /\ \A x \in s : g[s] = f[x] + g[s \ {x}]
<1> DEFINE P(s) == g[s] \in Nat /\ \A x \in s : g[s] = f[x] + g[s \ {x}]
           Good == {s \in SUBSET U : P(s)}
<1>1. ASSUME NEW s \in SUBSET U,
             \A t \in SUBSET U : Cardinality(t) < Cardinality(s) => t \in Good
      PROVE  P(s)
  <2>1. CASE s = {}
    <3>1. g[s] = 0 BY <2>1, SummingStep
    <3> QED BY <2>1, <3>1
  <2>2. CASE s # {}
    <3> DEFINE y == AnyOf(s)
    <3>1. y \in s /\ f[y] \in Nat BY <2>2, AnyOfIn
    <3>2. g[s] = f[y] + g[s \ {y}] BY <2>2, SummingStep
    <3> HIDE DEF y
    <3>3. ASSUME NEW x \in s PROVE s \ {x} \in Good
      <4>1. s \ {x} \in SUBSET U /\ Cardinality(s \ {x}) < Cardinality(s)
        BY SmallerSubset
      <4> HIDE DEF Good
      <4> QED BY <1>1, <4>1
    <3>4. g[s] \in Nat
      <4>1. g[s \ {y}] \in Nat BY <3>1, <3>3
      <4> QED BY <3>1, <3>2, <4>1
    <3>5. ASSUME NEW x \in s PROVE g[s] = f[x] + g[s \ {x}]
      <4>1. CASE x = y BY <3>2, <4>1
      <4>2. CASE x # y
        <5>1. x \in s \ {y} /\ y \in s \ {x} BY <3>1, <4>2
        <5>2. g[s \ {y}] = f[x] + g[(s \ {y}) \ {x}] BY <3>1, <3>3, <5>1
        <5>3. g[s \ {x}] = f[y] + g[(s \ {x}) \ {y}] BY <3>3, <5>1
        <5>4. (s \ {y}) \ {x} = (s \ {x}) \ {y} OBVIOUS
        <5> DEFINE r == g[(s \ {x}) \ {y}]
        <5>5. r \in Nat
          <6>1. (s \ {x}) \ {y} \in Good
            <7>1. (s \ {x}) \ {y} \in SUBSET U
                  /\ Cardinality((s \ {x}) \ {y}) < Cardinality(s)
              <8>1. s \ {x} \in SUBSET U /\ Cardinality(s \ {x}) = Cardinality(s) - 1
                    /\ Cardinality(s) \in Nat
                BY SmallerSubset
              <8>2. Cardinality((s \ {x}) \ {y}) = Cardinality(s \ {x}) - 1
                <9> HIDE DEF r, Good
                <9> DEFINE q == s \ {x}
                <9>1. q \in SUBSET U /\ y \in q BY <5>1, <8>1
                <9> HIDE DEF q
                <9>2. Cardinality(q \ {y}) = Cardinality(q) - 1 BY <9>1, SmallerSubset
                <9> QED BY <9>2 DEF q
              <8> QED BY <8>1, <8>2
            <7> HIDE DEF Good
            <7> QED BY <1>1, <7>1
          <6> QED BY <6>1
        <5>6. f[x] \in Nat OBVIOUS
        <5>7. g[s] = f[y] + (f[x] + r) /\ g[s \ {x}] = f[y] + r BY <3>2, <5>2, <5>3, <5>4
        <5> HIDE DEF r
        <5> QED BY <3>1, <5>5, <5>6, <5>7
      <4> QED BY <4>1, <4>2
    <3> QED BY <3>4, <3>5
  <2> QED BY <2>1, <2>2
<1>2. SUBSET U \subseteq Good
  <2>1. \A s \in SUBSET U :
          (\A t \in SUBSET U : Cardinality(t) < Cardinality(s) => t \in Good) => s \in Good
    BY <1>1
  <2> HIDE DEF Good
  <2> QED BY <2>1, SubsetInduct
<1> QED BY <1>2

(* Sums over subsets, taken from one table of a larger set.                *)
LEMMA SummingSame ==
    ASSUME NEW U, IsFiniteSet(U), NEW f, NEW g, Summing(g, f, U)
    PROVE  \A s \in SUBSET U : g[s] = SumFunctionOnSet(f, s)
<1> SUFFICES ASSUME NEW V \in SUBSET U PROVE g[V] = SumFunctionOnSet(f, V) OBVIOUS
<1>0. IsFiniteSet(V) BY FS_Subset
<1>1. PICK h : Summing(h, f, V) /\ SumFunctionOnSet(f, V) = h[V] BY <1>0, SumUnfold
<1> DEFINE Good == {s \in SUBSET V : g[s] = h[s]}
<1>2. ASSUME NEW s \in SUBSET V,
             \A t \in SUBSET V : Cardinality(t) < Cardinality(s) => t \in Good
      PROVE  s \in Good
  <2>0. s \in SUBSET U OBVIOUS
  <2>1. CASE s = {} BY <1>1, <2>0, <2>1, SummingStep
  <2>2. CASE s # {}
    <3>1. g[s] = f[AnyOf(s)] + g[s \ {AnyOf(s)}] BY <2>0, <2>2, SummingStep
    <3>2. h[s] = f[AnyOf(s)] + h[s \ {AnyOf(s)}]
      <4>1. Summing(h, f, V) BY <1>1
      <4>2. h[s] = IF s = {} THEN 0 ELSE f[AnyOf(s)] + h[s \ {AnyOf(s)}]
        BY <4>1, SummingStep
      <4> QED BY <2>2, <4>2
    <3>3. s \ {AnyOf(s)} \in SUBSET V /\ Cardinality(s \ {AnyOf(s)}) < Cardinality(s)
      BY <1>0, <2>2, AnyOfIn, SmallerSubset
    <3>4. s \ {AnyOf(s)} \in Good
      <4> HIDE DEF Good
      <4> QED BY <1>2, <3>3
    <3> QED BY <3>1, <3>2, <3>4
  <2> QED BY <2>1, <2>2
<1>3. SUBSET V \subseteq Good
  <2> HIDE DEF Good
  <2> QED BY <1>0, <1>2, SubsetInduct
<1> QED BY <1>1, <1>3

(* The sum of no entry is 0, and each entry adds its value.                *)
LEMMA SumOf ==
    ASSUME NEW U, IsFiniteSet(U), NEW f, \A x \in U : f[x] \in Nat
    PROVE  /\ SumFunctionOnSet(f, U) \in Nat
           /\ U = {} => SumFunctionOnSet(f, U) = 0
           /\ \A x \in U : /\ SumFunctionOnSet(f, U \ {x}) \in Nat
                           /\ SumFunctionOnSet(f, U) = f[x] + SumFunctionOnSet(f, U \ {x})
<1>1. PICK g : Summing(g, f, U) /\ SumFunctionOnSet(f, U) = g[U] BY SumUnfold
<1>2. \A s \in SUBSET U : g[s] \in Nat /\ \A x \in s : g[s] = f[x] + g[s \ {x}]
  <2>1. Summing(g, f, U) BY <1>1
  <2> QED BY <2>1, SummingParts
<1>3. \A s \in SUBSET U : g[s] = SumFunctionOnSet(f, s)
  <2>1. Summing(g, f, U) BY <1>1
  <2> QED BY <2>1, SummingSame
<1>4. \A x \in U : U \ {x} \in SUBSET U OBVIOUS
<1>5. U = {} => g[U] = 0 BY <1>1, SummingStep
<1> QED BY <1>1, <1>2, <1>3, <1>4, <1>5

(* A sum grows with its entries.                                           *)
LEMMA SumLess ==
    ASSUME NEW U, IsFiniteSet(U), NEW f, NEW g,
           \A x \in U : f[x] \in Nat /\ g[x] \in Nat /\ f[x] <= g[x]
    PROVE  SumFunctionOnSet(f, U) <= SumFunctionOnSet(g, U)
<1> DEFINE F(s) == SumFunctionOnSet(f, s)
           G(s) == SumFunctionOnSet(g, s)
           Good == {s \in SUBSET U : F(s) <= G(s)}
<1>1. ASSUME NEW s \in SUBSET U,
             \A t \in SUBSET U : Cardinality(t) < Cardinality(s) => t \in Good
      PROVE  s \in Good
  <2>0. IsFiniteSet(s) /\ \A x \in s : f[x] \in Nat /\ g[x] \in Nat BY FS_Subset
  <2>1. CASE s = {}
    <3>1. F(s) = 0 /\ G(s) = 0 BY <2>0, <2>1, SumOf
    <3> QED BY <3>1
  <2>2. CASE s # {}
    <3> DEFINE x == AnyOf(s)
    <3>0. x \in s BY <2>2, AnyOfIn
    <3> HIDE DEF x
    <3>1. F(s) = f[x] + F(s \ {x}) /\ F(s \ {x}) \in Nat BY <2>0, <3>0, SumOf
    <3>2. G(s) = g[x] + G(s \ {x}) /\ G(s \ {x}) \in Nat BY <2>0, <3>0, SumOf
    <3>3. s \ {x} \in SUBSET U /\ Cardinality(s \ {x}) < Cardinality(s)
      BY <3>0, SmallerSubset
    <3>4. F(s \ {x}) <= G(s \ {x})
      <4>1. s \ {x} \in Good
        <5> HIDE DEF Good
        <5> QED BY <1>1, <3>3
      <4> QED BY <4>1
    <3>5. f[x] \in Nat /\ g[x] \in Nat /\ f[x] <= g[x] BY <3>0
    <3>6. F(s) <= G(s)
      <4> HIDE DEF F, G
      <4> QED BY <3>1, <3>2, <3>4, <3>5
    <3> QED BY <3>6
  <2> QED BY <2>1, <2>2
<1>2. SUBSET U \subseteq Good
  <2> HIDE DEF Good
  <2> QED BY <1>1, SubsetInduct
<1> QED BY <1>2

(* Changing one entry changes the sum by as much.                          *)
LEMMA SumChange ==
    ASSUME NEW U, IsFiniteSet(U), NEW f, NEW g, NEW y \in U,
           \A x \in U : f[x] \in Nat /\ g[x] \in Nat,
           \A x \in U \ {y} : f[x] = g[x]
    PROVE  /\ SumFunctionOnSet(f, U) \in Nat /\ SumFunctionOnSet(g, U) \in Nat
           /\ SumFunctionOnSet(f, U) + g[y] = SumFunctionOnSet(g, U) + f[y]
<1> DEFINE V == U \ {y}
           a == SumFunctionOnSet(f, V)
           b == SumFunctionOnSet(g, V)
           c == SumFunctionOnSet(f, U)
           d == SumFunctionOnSet(g, U)
<1>1. IsFiniteSet(V) BY FS_Subset
<1>2. a <= b /\ b <= a /\ a \in Nat /\ b \in Nat
  <2>1. \A x \in V : f[x] \in Nat /\ g[x] \in Nat /\ f[x] <= g[x] /\ g[x] <= f[x] OBVIOUS
  <2> HIDE DEF V
  <2> QED BY <1>1, <2>1, SumLess, SumOf
<1>3. c \in Nat /\ d \in Nat /\ c = f[y] + a /\ d = g[y] + b
  BY SumOf
<1>4. f[y] \in Nat /\ g[y] \in Nat OBVIOUS
<1> HIDE DEF a, b, c, d
<1>5. c + g[y] = d + f[y] BY <1>2, <1>3, <1>4
<1> QED BY <1>3, <1>5 DEF c, d

(* A sum over fewer indices is no larger, and one more index adds at most  *)
(* its entry.                                                              *)
LEMMA SumWithin ==
    ASSUME NEW U, IsFiniteSet(U), NEW f, \A x \in U : f[x] \in Nat, NEW T \in SUBSET U
    PROVE  SumFunctionOnSet(f, T) <= SumFunctionOnSet(f, U)
<1> DEFINE F(s) == SumFunctionOnSet(f, s)
           Good == {s \in SUBSET U : F(T \cap s) <= F(s)}
<1>1. ASSUME NEW s \in SUBSET U,
             \A t \in SUBSET U : Cardinality(t) < Cardinality(s) => t \in Good
      PROVE  s \in Good
  <2>0. /\ IsFiniteSet(s) /\ IsFiniteSet(T \cap s)
        /\ \A x \in s : f[x] \in Nat
        /\ \A x \in T \cap s : f[x] \in Nat
    BY FS_Subset
  <2>1. CASE s = {}
    <3>1. F(s) = 0 BY <2>0, <2>1, SumOf
    <3>2. T \cap s = s BY <2>1
    <3> QED BY <3>1, <3>2
  <2>2. CASE s # {}
    <3> DEFINE x == AnyOf(s)
    <3>0. x \in s BY <2>2, AnyOfIn
    <3> HIDE DEF x
    <3>1. F(s) = f[x] + F(s \ {x}) /\ F(s \ {x}) \in Nat BY <2>0, <3>0, SumOf
    <3>2. s \ {x} \in SUBSET U /\ Cardinality(s \ {x}) < Cardinality(s)
      BY <3>0, SmallerSubset
    <3>3. F(T \cap (s \ {x})) <= F(s \ {x})
      <4>1. s \ {x} \in Good
        <5> HIDE DEF Good
        <5> QED BY <1>1, <3>2
      <4> QED BY <4>1
    <3>4. f[x] \in Nat BY <3>0
    <3>5. CASE x \in T
      <4> DEFINE q == T \cap s
      <4>1. x \in q /\ q \ {x} = T \cap (s \ {x}) BY <3>0, <3>5
      <4>2. IsFiniteSet(q) /\ \A y \in q : f[y] \in Nat BY <2>0
      <4> HIDE DEF q
      <4>3. F(q) = f[x] + F(q \ {x}) /\ F(q \ {x}) \in Nat BY <4>1, <4>2, SumOf
      <4>4. F(q \ {x}) <= F(s \ {x}) BY <3>3, <4>1
      <4>5. F(q) <= F(s)
        <5> HIDE DEF F
        <5> QED BY <3>1, <3>4, <4>3, <4>4
      <4> QED BY <4>5 DEF q
    <3>6. CASE x \notin T
      <4>1. T \cap (s \ {x}) = T \cap s BY <3>6
      <4>2. F(T \cap s) \in Nat BY <2>0, SumOf
      <4>3. F(T \cap s) <= F(s)
        <5> HIDE DEF F
        <5> QED BY <3>1, <3>3, <3>4, <4>1, <4>2
      <4> QED BY <4>3
    <3> QED BY <3>5, <3>6
  <2> QED BY <2>1, <2>2
<1>2. SUBSET U \subseteq Good
  <2> HIDE DEF Good
  <2> QED BY <1>1, SubsetInduct
<1>3. T \cap U = T OBVIOUS
<1> QED BY <1>2, <1>3

LEMMA SumOneMore ==
    ASSUME NEW U, IsFiniteSet(U), NEW f, \A x \in U : f[x] \in Nat, NEW y, f[y] \in Nat
    PROVE  SumFunctionOnSet(f, U \cup {y}) <= SumFunctionOnSet(f, U) + f[y]
<1> DEFINE V == U \cup {y}
<1>1. IsFiniteSet(V) /\ y \in V /\ \A x \in V : f[x] \in Nat BY FS_AddElement
<1>2. V \ {y} \in SUBSET U OBVIOUS
<1> HIDE DEF V
<1> DEFINE a == SumFunctionOnSet(f, V)
           b == SumFunctionOnSet(f, V \ {y})
           c == SumFunctionOnSet(f, U)
<1>3. a = f[y] + b /\ b \in Nat BY <1>1, SumOf
<1>4. b <= c BY <1>2, SumWithin
<1>5. c \in Nat BY SumOf
<1> HIDE DEF a, b, c
<1>6. a <= c + f[y] BY <1>3, <1>4, <1>5
<1> QED BY <1>6 DEF a, c, V

(* A sum of zeros.                                                         *)
LEMMA SumZero ==
    ASSUME NEW U, IsFiniteSet(U), NEW f, \A x \in U : f[x] = 0
    PROVE  SumFunctionOnSet(f, U) = 0
<1> DEFINE F(s) == SumFunctionOnSet(f, s)
           Good == {s \in SUBSET U : F(s) = 0}
<1>1. ASSUME NEW s \in SUBSET U,
             \A t \in SUBSET U : Cardinality(t) < Cardinality(s) => t \in Good
      PROVE  s \in Good
  <2>0. IsFiniteSet(s) /\ \A x \in s : f[x] \in Nat BY FS_Subset
  <2>1. CASE s = {}
    <3>1. F(s) = 0 BY <2>0, <2>1, SumOf
    <3> QED BY <3>1
  <2>2. CASE s # {}
    <3> DEFINE x == AnyOf(s)
    <3>0. x \in s BY <2>2, AnyOfIn
    <3> HIDE DEF x
    <3>1. F(s) = f[x] + F(s \ {x}) BY <2>0, <3>0, SumOf
    <3>2. s \ {x} \in SUBSET U /\ Cardinality(s \ {x}) < Cardinality(s)
      BY <3>0, SmallerSubset
    <3>3. F(s \ {x}) = 0
      <4>1. s \ {x} \in Good
        <5> HIDE DEF Good
        <5> QED BY <1>1, <3>2
      <4> QED BY <4>1
    <3>4. F(s) = 0 BY <3>0, <3>1, <3>3
    <3> QED BY <3>4
  <2> QED BY <2>1, <2>2
<1>2. SUBSET U \subseteq Good
  <2> HIDE DEF Good
  <2> QED BY <1>1, SubsetInduct
<1> QED BY <1>2
=============================================================================
