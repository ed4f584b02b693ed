----------------------------- MODULE FoldFacts -----------------------------
(***************************************************************************)
(* Induction over the naturals stated with a set in place of a predicate,  *)
(* and what it gives for the folds of the community modules and for the    *)
(* filter of SeqFilter.  The proofs about definitions that fold over or    *)
(* filter a sequence rest on these facts.                                  *)
(***************************************************************************)
EXTENDS SequencesExt, SeqFilter, SequenceTheorems, FiniteSetTheorems, TLAPS

LEMMA NatSetInduction ==
  ASSUME NEW S, 0 \in S, \A n \in Nat : n \in S => n + 1 \in S
  PROVE  Nat \subseteq S
<1> DEFINE T == Nat \ S
           R == {ss \in Nat \X Nat : ss[1] < ss[2]}
<1> SUFFICES ASSUME T # {} PROVE FALSE
  OBVIOUS
<1>1. IsWellFoundedOn(R, Nat)
  BY NatLessThanWellFounded DEF OpToRel
<1>2. T \subseteq Nat
  OBVIOUS
<1> HIDE DEF T
<1>3. \E x \in T : \A y \in T : ~(<<y, x>> \in R)
  BY <1>1, <1>2, WFMin
<1>4. PICK x \in T : \A y \in T : ~(y < x)
  BY <1>2, <1>3
<1>5. x # 0
  BY DEF T
<1>6. x - 1 \in Nat /\ x - 1 < x
  BY <1>2, <1>5
<1>7. x - 1 \in S
  BY <1>4, <1>6 DEF T
<1> QED
  BY <1>2, <1>6, <1>7 DEF T

(* Induction up to a bound. *)
LEMMA UpToInduction ==
  ASSUME NEW n \in Nat, NEW S, 0 \in S, \A k \in 1 .. n : k - 1 \in S => k \in S
  PROVE  0 .. n \subseteq S
<1> DEFINE T == {k \in Nat : k <= n => k \in S}
<1>1. 0 \in T
  OBVIOUS
<1>2. ASSUME NEW k \in Nat, k \in T PROVE k + 1 \in T
  <2>1. CASE k + 1 <= n
    <3>1. k + 1 \in 1 .. n /\ (k + 1) - 1 = k /\ k \in S
      BY <1>2, <2>1
    <3> QED
      BY <3>1
  <2>2. CASE ~(k + 1 <= n)
    BY <2>2
  <2> QED
    BY <2>1, <2>2
<1> HIDE DEF T
<1>3. Nat \subseteq T
  BY <1>1, <1>2, NatSetInduction
<1> QED
  BY <1>3 DEF T

LEMMA MaxIs ==
  ASSUME NEW s \in SUBSET Int, NEW n \in s, \A k \in s : k <= n
  PROVE  Max(s) = n
<1>1. \A x \in s : (\A y \in s : x >= y) => x = n
  OBVIOUS
<1>2. n >= n /\ \A y \in s : n >= y
  OBVIOUS
<1> QED
  BY <1>1, <1>2 DEF Max

LEMMA MaxIsIn ==
  ASSUME NEW n \in Nat, NEW s \in SUBSET (1 .. n), s # {}
  PROVE  Max(s) \in s /\ \A k \in s : k <= Max(s)
<1> DEFINE S == {n - k : k \in s}
           R == {ss \in Nat \X Nat : ss[1] < ss[2]}
<1>1. IsWellFoundedOn(R, Nat)
  BY NatLessThanWellFounded DEF OpToRel
<1>2. S \subseteq Nat /\ S # {}
  <2>1. \A k \in s : n - k \in Nat
    OBVIOUS
  <2> QED
    BY <2>1
<1> HIDE DEF S
<1>3. \E x \in S : \A y \in S : ~(<<y, x>> \in R)
  BY <1>1, <1>2, WFMin
<1>4. PICK x \in S : \A y \in S : ~(y < x)
  BY <1>2, <1>3
<1>5. PICK k \in s : x = n - k
  BY DEF S
<1>6. \A j \in s : n - j \in S
  BY DEF S
<1>7. \A j \in s : j <= k
  BY <1>4, <1>5, <1>6
<1> QED
  BY <1>7, MaxIs

(* The subsets a fold over a sequence goes through. *)
LEMMA MaxOfPrefix ==
  ASSUME NEW n \in Nat, NEW k \in 1 .. n
  PROVE  /\ 1 .. k # {} /\ 1 .. k \in SUBSET (1 .. n)
         /\ Max(1 .. k) = k
         /\ (1 .. k) \ {k} = 1 .. (k - 1)
<1>1. 1 .. k \in SUBSET Int /\ k \in 1 .. k /\ \A j \in 1 .. k : j <= k
  OBVIOUS
<1>2. Max(1 .. k) = k
  BY <1>1, MaxIs
<1> QED
  BY <1>2

-----------------------------------------------------------------------------
(* MapThenFoldSet is defined by a recursive function on the subsets of S   *)
(* that takes, of each subset s, the element ch[s] last.  For an operation *)
(* on a set A of accumulators, given as a function f, there is one.        *)
Chooses(ch, S) == IsFiniteSet(S) /\ \A s \in SUBSET S : s # {} => ch[s] \in s

FoldsBy(g, A, base, S, ch, f) ==
  /\ g \in [SUBSET S -> A]
  /\ g[{}] = base
  /\ \A s \in SUBSET S : s # {} => g[s] = f[<<ch[s], g[s \ {ch[s]}]>>]

LEMMA FoldByExists ==
  ASSUME NEW A, NEW S, NEW base \in A, NEW ch, Chooses(ch, S), NEW f \in [S \X A -> A]
  PROVE  \E g : FoldsBy(g, A, base, S, ch, f)
<1> DEFINE Small(k) == {s \in SUBSET S : Cardinality(s) <= k}
           IsFold(g, k) == /\ g \in [Small(k) -> A]
                           /\ g[{}] = base
                           /\ \A s \in Small(k) : s # {} => g[s] = f[<<ch[s], g[s \ {ch[s]}]>>]
           T == {k \in Nat : \E g : IsFold(g, k)}
<1>1. \A s \in SUBSET S : /\ Cardinality(s) \in Nat
                          /\ Cardinality(s) <= Cardinality(S)
                          /\ Cardinality(s) = 0 <=> s = {}
                          /\ \A x \in s : Cardinality(s \ {x}) = Cardinality(s) - 1
  BY FS_Subset, FS_CardinalityType, FS_EmptySet, FS_RemoveElement DEF Chooses
<1>2. 0 \in T
  <2> DEFINE g == [s \in Small(0) |-> base]
  <2>1. \A s \in Small(0) : s = {}
    BY <1>1
  <2>2. {} \in Small(0)
    BY <1>1
  <2>3. IsFold(g, 0)
    BY <2>1, <2>2
  <2> HIDE DEF IsFold, g
  <2> QED
    BY <2>3
<1>3. ASSUME NEW k \in Nat, k \in T PROVE k + 1 \in T
  <2>1. PICK g : IsFold(g, k)
    BY <1>3
  <2> DEFINE h == [s \in Small(k + 1) |->
                     IF s \in Small(k) THEN g[s] ELSE f[<<ch[s], g[s \ {ch[s]}]>>]]
  <2>2. \A s \in Small(k + 1) : s # {} => ch[s] \in s /\ s \ {ch[s]} \in Small(k)
    BY <1>1 DEF Chooses
  <2>3. {} \in Small(k) /\ \A s \in Small(k) : s \in Small(k + 1)
    BY <1>1
  <2>4. \A s \in Small(k + 1) : s \notin Small(k) => s # {}
    BY <2>3
  <2> HIDE DEF Small
  <2>5. \A s \in Small(k) : g[s] \in A
    BY <2>1
  <2>6. \A s \in Small(k + 1) : s # {} => ch[s] \in S
    BY <2>2 DEF Small
  <2>7. \A s \in Small(k + 1) : s # {} => f[<<ch[s], g[s \ {ch[s]}]>>] \in A
    BY <2>2, <2>5, <2>6
  <2>8. h \in [Small(k + 1) -> A]
    BY <2>4, <2>5, <2>7
  <2>9. \A s \in Small(k) : h[s] = g[s]
    BY <2>3
  <2>10. \A s \in Small(k + 1) : s # {} => h[s] = f[<<ch[s], h[s \ {ch[s]}]>>]
    <3> TAKE s \in Small(k + 1)
    <3> SUFFICES ASSUME s # {} PROVE h[s] = f[<<ch[s], h[s \ {ch[s]}]>>]
      OBVIOUS
    <3>1. h[s \ {ch[s]}] = g[s \ {ch[s]}]
      BY <2>2, <2>9
    <3>2. h[s] = f[<<ch[s], g[s \ {ch[s]}]>>]
      BY <2>1
    <3> QED
      BY <3>1, <3>2
  <2>11. h[{}] = base
    BY <2>1, <2>3, <2>9
  <2> HIDE DEF h
  <2>12. IsFold(h, k + 1)
    BY <2>8, <2>10, <2>11
  <2> HIDE DEF IsFold
  <2> QED
    BY <2>12
<1> HIDE DEF T
<1>4. Nat \subseteq T
  BY <1>2, <1>3, NatSetInduction
<1>5. Cardinality(S) \in T
  BY <1>1, <1>4
<1>6. PICK g : IsFold(g, Cardinality(S))
  BY <1>5 DEF T
<1>7. Small(Cardinality(S)) = SUBSET S
  BY <1>1
<1>8. FoldsBy(g, A, base, S, ch, f)
  BY <1>6, <1>7 DEF FoldsBy
<1> QED
  BY <1>8

(* A function that does so as long as its values are accumulators. *)
FollowsFold(i, A, base, S, ch, f) ==
  /\ i[{}] = base
  /\ \A s \in SUBSET S : s # {} /\ i[s \ {ch[s]}] \in A
                           => i[s] = f[<<ch[s], i[s \ {ch[s]}]>>]

(* It is that fold, whatever its values are elsewhere. *)
LEMMA FoldByIs ==
  ASSUME NEW A, NEW S, NEW base, NEW ch, NEW f, Chooses(ch, S),
         NEW g, FoldsBy(g, A, base, S, ch, f),
         NEW i, FollowsFold(i, A, base, S, ch, f)
  PROVE  \A s \in SUBSET S : i[s] = g[s]
<1> DEFINE T == {k \in Nat : \A s \in SUBSET S : Cardinality(s) = k => i[s] = g[s]}
<1>1. \A s \in SUBSET S : /\ Cardinality(s) \in Nat
                          /\ Cardinality(s) = 0 <=> s = {}
                          /\ \A x \in s : Cardinality(s \ {x}) = Cardinality(s) - 1
  BY FS_Subset, FS_CardinalityType, FS_EmptySet, FS_RemoveElement DEF Chooses
<1>2. 0 \in T
  BY <1>1 DEF FoldsBy, FollowsFold
<1>3. ASSUME NEW k \in Nat, k \in T PROVE k + 1 \in T
  <2> SUFFICES ASSUME NEW s \in SUBSET S, Cardinality(s) = k + 1
               PROVE  i[s] = g[s]
    OBVIOUS
  <2>1. s # {} /\ ch[s] \in s
    BY <1>1 DEF Chooses
  <2>2. s \ {ch[s]} \in SUBSET S /\ Cardinality(s \ {ch[s]}) = k
    BY <1>1, <2>1
  <2>3. i[s \ {ch[s]}] = g[s \ {ch[s]}]
    BY <1>3, <2>2
  <2> QED
    BY <2>1, <2>2, <2>3 DEF FoldsBy, FollowsFold
<1> HIDE DEF T
<1>4. Nat \subseteq T
  BY <1>2, <1>3, NatSetInduction
<1> QED
  BY <1>1, <1>4 DEF T

-----------------------------------------------------------------------------
(* The lists a filter goes through. *)
KeptSoFar(h, A, s, K) ==
  /\ h \in [0 .. Len(s) -> Seq(A)]
  /\ h[0] = <<>>
  /\ \A k \in 1 .. Len(s) :
       h[k] = IF s[k] \in K THEN Append(h[k - 1], s[k]) ELSE h[k - 1]
  /\ h[Len(s)] = Kept(s, K)

LEMMA KeptChain ==
  ASSUME NEW A, NEW s \in Seq(A), NEW K
  PROVE  \E h : KeptSoFar(h, A, s, K)
<1> DEFINE n == Len(s)
           Add(a, x) == IF x \in K THEN Append(a, x) ELSE a
           Def(g, i) == IF i = 0 THEN <<>>
                        ELSE IF s[i] \in K THEN Append(g[i - 1], s[i]) ELSE g[i - 1]
           kept == CHOOSE g : g = [i \in 0 .. n |-> Def(g, i)]
           Upto(g, k) == /\ g \in [0 .. k -> Seq(A)]
                         /\ g[0] = <<>>
                         /\ \A i \in 1 .. k : g[i] = Add(g[i - 1], s[i])
           T == {k \in 0 .. n : \E g : Upto(g, k)}
<1>1. n \in Nat /\ s \in [1 .. n -> A]
  BY LenProperties
<1>2. Kept(s, K) = kept[n]
  BY DEF Kept
<1>3. \A a \in Seq(A), i \in 1 .. n : Add(a, s[i]) \in Seq(A)
  BY <1>1, AppendProperties
<1>4. \A g, i : i # 0 => Def(g, i) = Add(g[i - 1], s[i])
  OBVIOUS
<1> HIDE DEF kept, n, Add
<1>5. 0 \in T
  <2>1. <<>> \in Seq(A)
    BY EmptySeq
  <2>2. Upto([i \in 0 .. 0 |-> <<>>], 0)
    BY <2>1
  <2> HIDE DEF Upto
  <2> QED
    BY <1>1, <2>2
<1>6. ASSUME NEW k \in 1 .. n, k - 1 \in T PROVE k \in T
  <2>1. PICK g : Upto(g, k - 1)
    BY <1>6
  <2> DEFINE h == [i \in 0 .. k |-> IF i = k THEN Add(g[k - 1], s[k]) ELSE g[i]]
  <2>2. k \in Nat /\ k - 1 \in Nat /\ k \in 0 .. n /\ k - 1 \in 0 .. (k - 1)
    BY <1>1
  <2>3. g[k - 1] \in Seq(A) /\ Add(g[k - 1], s[k]) \in Seq(A)
    BY <1>3, <2>1, <2>2
  <2>4. \A i \in 0 .. (k - 1) : h[i] = g[i]
    BY <2>2
  <2>5. h \in [0 .. k -> Seq(A)]
    BY <2>1, <2>2, <2>3
  <2>6. h[k] = Add(g[k - 1], s[k]) /\ h[k - 1] = g[k - 1] /\ h[0] = g[0]
    BY <2>2, <2>4
  <2> HIDE DEF h
  <2>7. \A i \in 1 .. k : h[i] = Add(h[i - 1], s[i])
    <3> TAKE i \in 1 .. k
    <3>1. CASE i = k
      BY <2>6, <3>1
    <3>2. CASE i # k
      <4>1. i \in 1 .. (k - 1) /\ i \in 0 .. (k - 1) /\ i - 1 \in 0 .. (k - 1)
        BY <2>2, <3>2
      <4> QED
        BY <2>1, <2>4, <4>1
    <3> QED
      BY <3>1, <3>2
  <2>8. Upto(h, k)
    BY <2>1, <2>5, <2>6, <2>7
  <2> HIDE DEF Upto
  <2> QED
    BY <2>2, <2>8
<1>7. PICK g : Upto(g, n)
  <2>1. n \in 0 .. n
    BY <1>1
  <2> HIDE DEF T
  <2>2. 0 .. n \subseteq T
    BY <1>1, <1>5, <1>6, UpToInduction
  <2>3. n \in T
    BY <2>1, <2>2
  <2> QED
    BY <2>3 DEF T
<1>8. kept = [i \in 0 .. n |-> Def(kept, i)]
  <2>1. g = [i \in 0 .. n |-> g[i]]
    BY <1>7
  <2>2. \A i \in 0 .. n : g[i] = Def(g, i)
    <3> TAKE i \in 0 .. n
    <3>1. CASE i = 0
      BY <1>7, <3>1
    <3>2. CASE i # 0
      <4>1. i \in 1 .. n
        BY <1>1, <3>2
      <4>2. g[i] = Add(g[i - 1], s[i])
        BY <1>7, <4>1
      <4>3. Def(g, i) = Add(g[i - 1], s[i])
        BY <1>4, <3>2
      <4> QED
        BY <4>2, <4>3
    <3> QED
      BY <3>1, <3>2
  <2>3. g = [i \in 0 .. n |-> Def(g, i)]
    BY <2>1, <2>2
  <2> HIDE DEF Def
  <2> QED
    BY <2>3 DEF kept
<1>9. \A i \in 0 .. n : kept[i] = Def(kept, i)
  <2> HIDE DEF Def
  <2> QED
    BY <1>8
<1>10. \A i \in 0 .. n : kept[i] \in Seq(A)
  <2> DEFINE R == {i \in 0 .. n : kept[i] \in Seq(A)}
  <2>1. 0 \in R
    <3>1. 0 \in 0 .. n
      BY <1>1
    <3>2. kept[0] = <<>>
      BY <1>9, <3>1
    <3>3. <<>> \in Seq(A)
      BY EmptySeq
    <3> QED
      BY <3>1, <3>2, <3>3
  <2>2. ASSUME NEW i \in 1 .. n, i - 1 \in R PROVE i \in R
    <3>1. i \in 0 .. n /\ i # 0
      BY <1>1
    <3>2. kept[i] = Add(kept[i - 1], s[i])
      BY <1>4, <1>9, <3>1
    <3> QED
      BY <1>3, <2>2, <3>1, <3>2
  <2> HIDE DEF R
  <2>3. 0 .. n \subseteq R
    BY <1>1, <2>1, <2>2, UpToInduction
  <2> QED
    BY <2>3 DEF R
<1>11. kept \in [0 .. n -> Seq(A)]
  <2> HIDE DEF Def
  <2> QED
    BY <1>8, <1>10
<1>12. kept[0] = <<>>
  BY <1>1, <1>9
<1>13. \A i \in 1 .. n : kept[i] = Add(kept[i - 1], s[i])
  <2> TAKE i \in 1 .. n
  <2>1. i \in 0 .. n /\ i # 0
    BY <1>1
  <2> QED
    BY <1>4, <1>9, <2>1
<1> HIDE DEF Def
<1> QED
  BY <1>2, <1>11, <1>12, <1>13 DEF n, Add, KeptSoFar

(* What is in K is in the list s once at most. *)
OnceIn(s, K) == \A i, j \in DOMAIN s : s[i] = s[j] /\ s[i] \in K => i = j

(* What a filter keeps: the elements of s that are in K, as often as in s. *)
LEMMA KeptIsOnce ==
  ASSUME NEW A, NEW s \in Seq(A), NEW K
  PROVE  /\ Kept(s, K) \in Seq(A)
         /\ ToSet(Kept(s, K)) = ToSet(s) \cap K
         /\ Len(Kept(s, K)) <= Len(s)
         /\ OnceIn(s, K) => IsInjective(Kept(s, K))
<1>0. PICK h : KeptSoFar(h, A, s, K)
  BY KeptChain
<1>1. /\ h \in [0 .. Len(s) -> Seq(A)] /\ h[0] = <<>>
      /\ \A k \in 1 .. Len(s) :
           h[k] = IF s[k] \in K THEN Append(h[k - 1], s[k]) ELSE h[k - 1]
      /\ h[Len(s)] = Kept(s, K)
  BY <1>0 DEF KeptSoFar
<1> DEFINE Elems(k) == {s[i] : i \in 1 .. k} \cap K
           Good(k) == /\ {h[k][i] : i \in 1 .. Len(h[k])} = Elems(k)
                      /\ Len(h[k]) <= k
                      /\ OnceIn(s, K) => IsInjective(h[k])
           T == {k \in 0 .. Len(s) : Good(k)}
<1>2. Len(s) \in Nat /\ s \in [1 .. Len(s) -> A] /\ DOMAIN s = 1 .. Len(s)
  BY LenProperties
<1>3. 0 \in T
  BY <1>1, <1>2 DEF IsInjective
<1>4. ASSUME NEW k \in 1 .. Len(s), k - 1 \in T PROVE k \in T
  <2> DEFINE u == h[k - 1]
  <2>1. u \in Seq(A) /\ k - 1 \in 0 .. Len(s) /\ k \in 0 .. Len(s) /\ s[k] \in A /\ k \in Nat
    BY <1>1, <1>2
  <2>2. Good(k - 1)
    BY <1>4
  <2>3. Len(u) \in Nat /\ DOMAIN u = 1 .. Len(u)
    BY <2>1, LenProperties
  <2>4. 1 .. k = (1 .. (k - 1)) \cup {k}
    BY <2>1
  <2>5. Elems(k) = Elems(k - 1) \cup ({s[k]} \cap K)
    BY <2>4
  <2>6. CASE s[k] \notin K
    <3>1. h[k] = u
      BY <1>1, <2>6
    <3>2. Elems(k) = Elems(k - 1)
      BY <2>5, <2>6
    <3> HIDE DEF Elems, u
    <3>3. Good(k)
      BY <2>1, <2>2, <2>3, <3>1, <3>2 DEF u
    <3> QED
      BY <2>1, <3>3
  <2>7. CASE s[k] \in K
    <3> DEFINE w == Append(u, s[k])
    <3>1. h[k] = w
      BY <1>1, <2>7
    <3>2. /\ Len(w) = Len(u) + 1 /\ DOMAIN w = 1 .. (Len(u) + 1)
          /\ w[Len(u) + 1] = s[k]
          /\ \A i \in 1 .. Len(u) : w[i] = u[i]
      BY <2>1, <2>3, AppendProperties
    <3> HIDE DEF w, u
    <3>3. 1 .. (Len(u) + 1) = (1 .. Len(u)) \cup {Len(u) + 1}
      BY <2>3
    <3>4. {w[i] : i \in 1 .. Len(w)} = {u[i] : i \in 1 .. Len(u)} \cup {s[k]}
      BY <3>2, <3>3
    <3>5. {w[i] : i \in 1 .. Len(w)} = Elems(k)
      BY <2>2, <2>5, <2>7, <3>4 DEF u
    <3>6. Len(w) <= k
      BY <2>1, <2>2, <2>3, <3>2 DEF u
    <3>7. ASSUME OnceIn(s, K) PROVE IsInjective(w)
      <4>1. \A i \in 1 .. Len(u) : u[i] # s[k]
        <5>1. \A i \in 1 .. Len(u) : u[i] \in Elems(k - 1)
          BY <2>2 DEF u
        <5>2. \A i \in 1 .. (k - 1) : i \in DOMAIN s /\ i # k
          BY <1>2, <2>1
        <5>3. \A i \in 1 .. (k - 1) : s[i] # s[k]
          BY <1>2, <2>7, <3>7, <5>2 DEF OnceIn
        <5> QED
          BY <5>1, <5>3
      <4>2. IsInjective(u)
        BY <2>2, <3>7 DEF u
      <4> QED
        BY <2>3, <3>2, <3>3, <4>1, <4>2 DEF IsInjective
    <3> QED
      BY <2>1, <3>1, <3>5, <3>6, <3>7
  <2> QED
    BY <2>6, <2>7
<1> HIDE DEF T
<1>5. 0 .. Len(s) \subseteq T
  BY <1>2, <1>3, <1>4, UpToInduction
<1>6. Good(Len(s)) /\ Kept(s, K) \in Seq(A)
  <2>1. Len(s) \in 0 .. Len(s)
    BY <1>2
  <2>2. Good(Len(s))
    <3> HIDE DEF Good
    <3> QED
      BY <1>5, <2>1 DEF T
  <2> QED
    BY <1>1, <2>1, <2>2
<1>7. \A t \in Seq(A) : ToSet(t) = {t[i] : i \in 1 .. Len(t)}
  BY LenProperties DEF ToSet
<1> HIDE DEF Good
<1> QED
  BY <1>1, <1>2, <1>6, <1>7 DEF Good

LEMMA KeptIs ==
  ASSUME NEW A, NEW s \in Seq(A), NEW K
  PROVE  /\ Kept(s, K) \in Seq(A)
         /\ ToSet(Kept(s, K)) = ToSet(s) \cap K
         /\ Len(Kept(s, K)) <= Len(s)
         /\ IsInjective(s) => IsInjective(Kept(s, K))
<1>1. IsInjective(s) => OnceIn(s, K)
  BY DEF IsInjective, OnceIn
<1> QED
  BY <1>1, KeptIsOnce

LEMMA ConcatIs ==
  ASSUME NEW A, NEW s \in Seq(A), NEW t \in Seq(A)
  PROVE  /\ s \o t \in Seq(A) /\ ToSet(s \o t) = ToSet(s) \cup ToSet(t)
         /\ IsInjective(s) /\ IsInjective(t) /\ ToSet(s) \cap ToSet(t) = {} => IsInjective(s \o t)
<1> DEFINE u == s \o t
           m == Len(s)
           n == Len(t)
<1>1. /\ u \in Seq(A) /\ Len(u) = m + n
      /\ \A i \in 1 .. m + n : u[i] = IF i <= m THEN s[i] ELSE t[i - m]
  BY ConcatProperties
<1>2. \A x \in Seq(A) : Len(x) \in Nat /\ DOMAIN x = 1 .. Len(x) /\ ToSet(x) = {x[i] : i \in 1 .. Len(x)}
  BY LenProperties DEF ToSet
<1>3. m \in Nat /\ n \in Nat
  BY <1>2
<1> HIDE DEF u, m, n
<1>4. /\ \A i \in 1 .. m : i \in 1 .. m + n /\ u[i] = s[i]
      /\ \A i \in 1 .. n : m + i \in 1 .. m + n /\ u[m + i] = t[i]
  <2>1. ASSUME NEW i \in 1 .. m PROVE i \in 1 .. m + n /\ u[i] = s[i]
    <3>1. i \in 1 .. m + n /\ i <= m
      BY <1>3
    <3> QED
      BY <1>1, <3>1
  <2>2. ASSUME NEW i \in 1 .. n PROVE m + i \in 1 .. m + n /\ u[m + i] = t[i]
    <3>1. m + i \in 1 .. m + n /\ ~(m + i <= m) /\ (m + i) - m = i
      BY <1>3
    <3> QED
      BY <1>1, <3>1
  <2> QED
    BY <2>1, <2>2
<1>5. \A i \in 1 .. m + n : \/ i \in 1 .. m /\ u[i] = s[i]
                            \/ i - m \in 1 .. n /\ m + (i - m) = i /\ u[i] = t[i - m]
  <2> TAKE i \in 1 .. m + n
  <2>1. CASE i <= m
    <3>1. i \in 1 .. m
      BY <1>3, <2>1
    <3> QED
      BY <1>4, <3>1
  <2>2. CASE ~(i <= m)
    <3>1. i - m \in 1 .. n /\ m + (i - m) = i
      BY <1>3, <2>2
    <3> QED
      BY <1>1, <2>2, <3>1
  <2> QED
    BY <2>1, <2>2
<1>6. /\ ToSet(s) = {s[i] : i \in 1 .. m} /\ ToSet(t) = {t[i] : i \in 1 .. n}
      /\ ToSet(u) = {u[i] : i \in 1 .. m + n}
      /\ DOMAIN s = 1 .. m /\ DOMAIN t = 1 .. n /\ DOMAIN u = 1 .. m + n
  BY <1>1, <1>2 DEF m, n
<1>7. ToSet(u) = ToSet(s) \cup ToSet(t)
  <2>1. ToSet(u) \subseteq ToSet(s) \cup ToSet(t)
    BY <1>5, <1>6
  <2>2. ToSet(s) \cup ToSet(t) \subseteq ToSet(u)
    BY <1>4, <1>6
  <2> QED
    BY <2>1, <2>2
<1>8. ASSUME IsInjective(s), IsInjective(t), ToSet(s) \cap ToSet(t) = {} PROVE IsInjective(u)
  <2> SUFFICES ASSUME NEW i \in 1 .. m + n, NEW j \in 1 .. m + n, u[i] = u[j] PROVE i = j
    BY <1>6 DEF IsInjective
  <2>1. \A k \in 1 .. m, l \in 1 .. n : s[k] # t[l]
    BY <1>6, <1>8
  <2>2. CASE i \in 1 .. m /\ u[i] = s[i] /\ j \in 1 .. m /\ u[j] = s[j]
    BY <1>6, <1>8, <2>2 DEF IsInjective
  <2>3. CASE /\ i - m \in 1 .. n /\ m + (i - m) = i /\ u[i] = t[i - m]
             /\ j - m \in 1 .. n /\ m + (j - m) = j /\ u[j] = t[j - m]
    <3>1. i - m = j - m
      BY <1>6, <1>8, <2>3 DEF IsInjective
    <3> QED
      BY <2>3, <3>1
  <2> QED
    BY <1>5, <2>1, <2>2, <2>3
<1> QED
  BY <1>1, <1>7, <1>8 DEF u

(* A list without repetitions is as long as the set of its elements. *)
LEMMA InjectiveLen ==
  ASSUME NEW A, NEW s \in Seq(A), IsInjective(s)
  PROVE  IsFiniteSet(ToSet(s)) /\ Cardinality(ToSet(s)) = Len(s)
<1>1. Len(s) \in Nat /\ s \in [1 .. Len(s) -> A] /\ DOMAIN s = 1 .. Len(s)
  BY LenProperties
<1>2. s \in Bijection(1 .. Len(s), ToSet(s))
  BY <1>1 DEF Bijection, Injection, Surjection, IsInjective, ToSet
<1>3. IsFiniteSet(1 .. Len(s)) /\ Cardinality(1 .. Len(s)) = Len(s)
  BY <1>1, FS_Interval
<1>4. ExistsBijection(1 .. Len(s), ToSet(s))
  BY <1>2 DEF ExistsBijection
<1> QED
  BY <1>3, <1>4, FS_Bijection

-----------------------------------------------------------------------------
(* A fold from left to right goes through a chain of values.  FoldLeft is  *)
(* a fold on the indices of the sequence that takes the last one last.     *)
ChainOf(h, A, base, n, f) ==
  /\ h \in [0 .. n -> A]
  /\ h[0] = base
  /\ \A k \in 1 .. n : h[k] = f[<<k, h[k - 1]>>]

FoldsUp(g, A, base, n, f) ==
  /\ g \in [SUBSET (1 .. n) -> A]
  /\ g[{}] = base
  /\ \A s \in SUBSET (1 .. n) : s # {} => Max(s) \in s /\ g[s] = f[<<Max(s), g[s \ {Max(s)}]>>]

FollowsUp(i, A, base, n, f) ==
  /\ i[{}] = base
  /\ \A s \in SUBSET (1 .. n) : s # {} /\ i[s \ {Max(s)}] \in A
                                 => i[s] = f[<<Max(s), i[s \ {Max(s)}]>>]

ChainTo(A, base, n, f, last) == \E h : ChainOf(h, A, base, n, f) /\ h[n] = last

LEMMA FoldUpExists ==
  ASSUME NEW n \in Nat, NEW A, NEW base \in A, NEW f \in [(1 .. n) \X A -> A]
  PROVE  \E g : FoldsUp(g, A, base, n, f)
<1> DEFINE ch == [s \in SUBSET (1 .. n) |-> Max(s)]
<1>1. IsFiniteSet(1 .. n)
  BY FS_Interval
<1>2. \A s \in SUBSET (1 .. n) : s # {} => Max(s) \in s
  BY MaxIsIn
<1>3. \A s \in SUBSET (1 .. n) : ch[s] = Max(s)
  OBVIOUS
<1>4. Chooses(ch, 1 .. n)
  BY <1>1, <1>2 DEF Chooses
<1> HIDE DEF ch
<1> DEFINE S == 1 .. n
<1> HIDE DEF S
<1>5. PICK g : FoldsBy(g, A, base, S, ch, f)
  BY <1>4, FoldByExists DEF S
<1>6. FoldsUp(g, A, base, n, f)
  BY <1>2, <1>3, <1>5 DEF FoldsBy, FoldsUp, S
<1> QED
  BY <1>6

LEMMA FoldUpIsChain ==
  ASSUME NEW n \in Nat, NEW A, NEW base \in A, NEW f \in [(1 .. n) \X A -> A],
         NEW i, FollowsUp(i, A, base, n, f)
  PROVE  ChainTo(A, base, n, f, i[1 .. n])
<1> DEFINE ch == [s \in SUBSET (1 .. n) |-> Max(s)]
<1>1. PICK g : FoldsUp(g, A, base, n, f)
  BY FoldUpExists
<1>2. \A s \in SUBSET (1 .. n) : ch[s] = Max(s)
  OBVIOUS
<1> HIDE DEF ch
<1>3. Chooses(ch, 1 .. n)
  <2>1. IsFiniteSet(1 .. n)
    BY FS_Interval
  <2>2. \A s \in SUBSET (1 .. n) : s # {} => Max(s) \in s
    BY MaxIsIn
  <2> QED
    BY <1>2, <2>1, <2>2 DEF Chooses
<1>4. FoldsBy(g, A, base, 1 .. n, ch, f)
  BY <1>1, <1>2 DEF FoldsBy, FoldsUp
<1>5. FollowsFold(i, A, base, 1 .. n, ch, f)
  BY <1>2 DEF FollowsUp, FollowsFold
<1>6. \A s \in SUBSET (1 .. n) : i[s] = g[s]
  <2> DEFINE S == 1 .. n
  <2> HIDE DEF S
  <2>1. Chooses(ch, S) /\ FoldsBy(g, A, base, S, ch, f) /\ FollowsFold(i, A, base, S, ch, f)
    BY <1>3, <1>4, <1>5 DEF S
  <2>2. \A s \in SUBSET S : i[s] = g[s]
    BY <2>1, FoldByIs
  <2> QED
    BY <2>2 DEF S
<1> DEFINE h == [k \in 0 .. n |-> g[1 .. k]]
<1>7. /\ \A k \in 1 .. n : 1 .. k # {} /\ Max(1 .. k) = k /\ (1 .. k) \ {k} = 1 .. (k - 1)
      /\ \A k \in 0 .. n : 1 .. k \in SUBSET (1 .. n)
      /\ 1 .. 0 = {}
  BY MaxOfPrefix
<1>8. h \in [0 .. n -> A] /\ h[0] = base
  BY <1>1, <1>7 DEF FoldsUp
<1>9. ASSUME NEW k \in 1 .. n PROVE h[k] = f[<<k, h[k - 1]>>]
  <2>1. k - 1 \in 0 .. n /\ k \in 0 .. n
    OBVIOUS
  <2>2. 1 .. k \in SUBSET (1 .. n) /\ 1 .. k # {} /\ Max(1 .. k) = k /\ (1 .. k) \ {k} = 1 .. (k - 1)
    BY <1>7, <2>1
  <2>3. g[1 .. k] = f[<<k, g[1 .. (k - 1)]>>]
    BY <1>1, <2>2 DEF FoldsUp
  <2> QED
    BY <2>1, <2>3
<1>10. h[n] = i[1 .. n]
  BY <1>6, <1>7
<1> HIDE DEF h
<1> QED
  BY <1>8, <1>9, <1>10 DEF ChainOf, ChainTo

(* The prefixes of a sequence. *)
LEMMA PrefixGrows ==
  ASSUME NEW A, NEW s \in Seq(A)
  PROVE  /\ SubSeq(s, 1, 0) = <<>> /\ SubSeq(s, 1, Len(s)) = s
         /\ \A k \in 0 .. Len(s) : /\ SubSeq(s, 1, k) \in Seq(A) /\ Len(SubSeq(s, 1, k)) = k
                                   /\ \A i \in 1 .. k : SubSeq(s, 1, k)[i] = s[i]
         /\ \A k \in 1 .. Len(s) : SubSeq(s, 1, k) = Append(SubSeq(s, 1, k - 1), s[k])
<1>1. Len(s) \in Nat /\ s \in [1 .. Len(s) -> A] /\ s \in Seq(A)
  BY LenProperties
<1>2. \A k \in 0 .. Len(s) : /\ SubSeq(s, 1, k) \in Seq(A) /\ Len(SubSeq(s, 1, k)) = k
                             /\ \A i \in 1 .. k : SubSeq(s, 1, k)[i] = s[i]
  <2> TAKE k \in 0 .. Len(s)
  <2>1. \A i \in 1 .. k : s[i] \in A
    BY <1>1
  <2> QED
    BY <1>1, <2>1, SubSeqProperties
<1>3. ASSUME NEW k \in 1 .. Len(s) PROVE SubSeq(s, 1, k) = Append(SubSeq(s, 1, k - 1), s[k])
  <2> DEFINE a == SubSeq(s, 1, k)
             b == SubSeq(s, 1, k - 1)
  <2>1. k - 1 \in 0 .. Len(s) /\ k \in 0 .. Len(s) /\ s[k] \in A
    BY <1>1
  <2>2. /\ a \in Seq(A) /\ Len(a) = k /\ \A i \in 1 .. k : a[i] = s[i]
        /\ b \in Seq(A) /\ Len(b) = k - 1 /\ \A i \in 1 .. k - 1 : b[i] = s[i]
    BY <1>2, <2>1
  <2> HIDE DEF a, b
  <2>3. /\ Append(b, s[k]) \in Seq(A) /\ Len(Append(b, s[k])) = k
        /\ \A i \in 1 .. k : Append(b, s[k])[i] = s[i]
    BY <2>1, <2>2, AppendProperties
  <2>4. a = Append(b, s[k])
    BY <2>2, <2>3, SeqEqual
  <2> QED
    BY <2>4 DEF a, b
<1>4. SubSeq(s, 1, 0) = <<>>
  BY <1>1, <1>2, EmptySeq
<1>5. SubSeq(s, 1, Len(s)) = s
  <2>1. Len(s) \in 0 .. Len(s)
    BY <1>1
  <2> QED
    BY <1>1, <1>2, <2>1, SeqEqual
<1> QED
  BY <1>2, <1>3, <1>4, <1>5
=============================================================================
