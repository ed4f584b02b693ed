------------------------- MODULE PrefixCache_proofs -------------------------
(***************************************************************************)
(* Proofs about PrefixCache, for any requests, texts, blocks, sizes and    *)
(* limits.  Each operation of the tiers and of the block pool keeps its    *)
(* books and forgets nothing, so the nested calls of a lookup do; with the *)
(* counts of the blocks a request uses they give the invariant of Spec.    *)
(***************************************************************************)
EXTENDS PrefixCache, FoldFacts

USE TiersAssumption, CacheAssumption

LEMMA Limits ==
  /\ StoreCap \in Nat /\ PinnedBudget \in Nat /\ DiskCaps \subseteq Nat
  /\ \A h \in Hashes : Size[h] \in Nat \ {0}
BY DEF TiersAssumption

(* The entries that hold what was computed under their key, and a list with  *)
(* one at most of a key.                                                     *)
Entry(h) == [key |-> h, data |-> h]
Entries == {Entry(h) : h \in Hashes}
Shelf(s) == s \in Seq(Entries) /\ IsInjective(s)

-----------------------------------------------------------------------------
(* The bytes of a list *)

BytesSoFar(h, s) ==
  /\ h \in [0 .. Len(s) -> Nat]
  /\ h[0] = 0
  /\ \A k \in 1 .. Len(s) : h[k] = h[k - 1] + Size[s[k].key]
  /\ h[Len(s)] = Bytes(s)

LEMMA SeqFacts ==
  ASSUME NEW A, NEW s \in Seq(A)
  PROVE  /\ Len(s) \in Nat /\ DOMAIN s = 1 .. Len(s)
         /\ \A i \in 1 .. Len(s) : s[i] \in A
         /\ ToSet(s) = {s[i] : i \in 1 .. Len(s)}
BY LenProperties DEF ToSet

LEMMA BytesChain ==
  ASSUME NEW s \in Seq(Entries)
  PROVE  \E h : BytesSoFar(h, s)
<1> DEFINE n == Len(s)
           f == [x \in (1 .. n) \X Nat |-> x[2] + Size[s[x[1]].key]]
           Def(g, t) == IF t = {} THEN 0 ELSE g[t \ {Max(t)}] + Size[s[Max(t)].key]
           iter == CHOOSE g : g = [t \in SUBSET (1 .. n) |-> Def(g, t)]
<1>1. n \in Nat /\ DOMAIN s = 1 .. n /\ \A i \in 1 .. n : s[i] \in Entries
  BY SeqFacts
<1>2. \A i \in 1 .. n : Size[s[i].key] \in Nat
  BY <1>1 DEF Entries, Entry
<1>3. f \in [(1 .. n) \X Nat -> Nat] /\ \A k \in 1 .. n, a \in Nat : f[<<k, a>>] = a + Size[s[k].key]
  BY <1>2
<1>4. Bytes(s) = iter[1 .. n]
  BY <1>1 DEF Bytes, FoldLeft, MapThenFoldSet
<1> HIDE DEF f, n
<1>5. PICK g : FoldsUp(g, Nat, 0, n, f)
  BY <1>1, <1>3, FoldUpExists
<1>6. \A t \in SUBSET (1 .. n) : g[t] = Def(g, t)
  <2>1. \A t \in SUBSET (1 .. n) : t # {} => Max(t) \in 1 .. n /\ g[t \ {Max(t)}] \in Nat
    BY <1>5 DEF FoldsUp
  <2> QED
    BY <1>3, <1>5, <2>1 DEF FoldsUp
<1>7. g = [t \in SUBSET (1 .. n) |-> Def(g, t)]
  <2>1. g = [t \in SUBSET (1 .. n) |-> g[t]]
    BY <1>5 DEF FoldsUp
  <2> QED
    BY <1>6, <2>1
<1>8. iter = [t \in SUBSET (1 .. n) |-> Def(iter, t)]
  <2> HIDE DEF Def
  <2> QED
    BY <1>7
<1>9. \A t \in SUBSET (1 .. n) : iter[t] = Def(iter, t)
  <2> HIDE DEF iter, Def
  <2> QED
    BY <1>8
<1> HIDE DEF iter
<1>10. FollowsUp(iter, Nat, 0, n, f)
  <2>1. \A t \in SUBSET (1 .. n) : t # {} => Max(t) \in 1 .. n
    BY <1>1, MaxIsIn
  <2> QED
    BY <1>3, <1>9, <2>1 DEF FollowsUp
<1>11. PICK h : ChainOf(h, Nat, 0, n, f) /\ h[n] = iter[1 .. n]
  <2>1. ChainTo(Nat, 0, n, f, iter[1 .. n])
    BY <1>1, <1>3, <1>10, FoldUpIsChain
  <2> QED
    BY <2>1 DEF ChainTo
<1>12. BytesSoFar(h, s)
  <2>1. \A k \in 1 .. n : k - 1 \in 0 .. n
    BY <1>1
  <2> QED
    BY <1>3, <1>4, <1>11, <2>1 DEF ChainOf, BytesSoFar, n
<1> QED
  BY <1>12

LEMMA BytesAppend ==
  ASSUME NEW s \in Seq(Entries), NEW e \in Entries
  PROVE  Bytes(Append(s, e)) = Bytes(s) + Size[e.key]
<1> DEFINE a == Append(s, e)
<1>1. /\ a \in Seq(Entries) /\ Len(a) = Len(s) + 1 /\ Len(s) \in Nat
      /\ \A i \in 1 .. Len(s) : a[i] = s[i]
      /\ a[Len(s) + 1] = e
  BY AppendProperties, LenProperties
<1> HIDE DEF a
<1>2. PICK h : BytesSoFar(h, s)
  BY BytesChain
<1>3. PICK g : BytesSoFar(g, a)
  BY <1>1, BytesChain
<1> DEFINE T == {k \in 0 .. Len(s) : g[k] = h[k]}
<1>4. 0 \in T
  BY <1>1, <1>2, <1>3 DEF BytesSoFar
<1>5. ASSUME NEW k \in 1 .. Len(s), k - 1 \in T PROVE k \in T
  <2>1. k \in 1 .. Len(a) /\ a[k] = s[k] /\ k \in 0 .. Len(s) /\ g[k - 1] = h[k - 1]
    BY <1>1, <1>5
  <2>2. g[k] = g[k - 1] + Size[a[k].key] /\ h[k] = h[k - 1] + Size[s[k].key]
    BY <1>2, <1>3, <2>1 DEF BytesSoFar
  <2> QED
    BY <2>1, <2>2
<1> HIDE DEF T
<1>6. 0 .. Len(s) \subseteq T
  BY <1>1, <1>4, <1>5, UpToInduction
<1>7. g[Len(s)] = h[Len(s)]
  BY <1>1, <1>6 DEF T
<1>8. Bytes(a) = g[Len(s) + 1] /\ g[Len(s) + 1] = g[Len(s)] + Size[e.key]
  BY <1>1, <1>3 DEF BytesSoFar
<1> QED
  BY <1>2, <1>7, <1>8 DEF BytesSoFar, a

LEMMA BytesNat ==
  ASSUME NEW s \in Seq(Entries)
  PROVE  Bytes(s) \in Nat
BY BytesChain, LenProperties DEF BytesSoFar

LEMMA BytesEmpty == Bytes(<<>>) = 0
<1>1. <<>> \in Seq(Entries) /\ Len(<<>>) = 0
  BY EmptySeq
<1>2. PICK h : BytesSoFar(h, <<>>)
  BY <1>1, BytesChain
<1> QED
  BY <1>1, <1>2 DEF BytesSoFar

LEMMA EntryFacts ==
  /\ \A h \in Hashes : Entry(h) \in Entries /\ Entry(h).key = h /\ Entry(h).data = h
  /\ \A e \in Entries : e.key \in Hashes /\ e = Entry(e.key) /\ e.data = e.key
                        /\ Size[e.key] \in Nat \ {0}
BY DEF Entries, Entry

LEMMA ShelfFacts ==
  ASSUME NEW s, Shelf(s)
  PROVE  /\ s \in Seq(Entries) /\ Len(s) \in Nat /\ DOMAIN s = 1 .. Len(s)
         /\ \A i \in 1 .. Len(s) : /\ s[i] \in Entries /\ s[i].key \in Hashes
                                   /\ s[i] = Entry(s[i].key) /\ s[i].key \in Keys(s)
         /\ \A i, j \in 1 .. Len(s) : s[i].key = s[j].key => i = j
         /\ Keys(s) \subseteq Hashes
         /\ \A h \in Keys(s) : Entry(h) \in ToSet(s)
         /\ \A h \in Hashes : Entry(h) \in ToSet(s) => h \in Keys(s)
<1>1. /\ s \in Seq(Entries) /\ Len(s) \in Nat /\ DOMAIN s = 1 .. Len(s)
      /\ \A i \in 1 .. Len(s) : s[i] \in Entries
      /\ ToSet(s) = {s[i] : i \in 1 .. Len(s)}
  BY SeqFacts DEF Shelf
<1>2. \A i \in 1 .. Len(s) : s[i].key \in Hashes /\ s[i] = Entry(s[i].key) /\ s[i].key \in Keys(s)
  BY <1>1, EntryFacts DEF Keys
<1>3. \A i, j \in 1 .. Len(s) : s[i].key = s[j].key => i = j
  BY <1>1, <1>2 DEF Shelf, IsInjective
<1>4. Keys(s) = {s[i].key : i \in 1 .. Len(s)}
  BY <1>1 DEF Keys
<1> QED
  BY <1>1, <1>2, <1>3, <1>4, EntryFacts

(* A list of true entries without repetitions counts its keys. *)
LEMMA ShelfCounts ==
  ASSUME NEW s, Shelf(s)
  PROVE  IsFiniteSet(Keys(s)) /\ Cardinality(Keys(s)) = Len(s)
<1> DEFINE k == [i \in 1 .. Len(s) |-> s[i].key]
<1>1. /\ Len(s) \in Nat /\ DOMAIN s = 1 .. Len(s)
      /\ \A i \in 1 .. Len(s) : s[i].key \in Hashes
      /\ \A i, j \in 1 .. Len(s) : s[i].key = s[j].key => i = j
  BY ShelfFacts
<1>2. k \in Seq(Hashes) /\ Len(k) = Len(s) /\ DOMAIN k = 1 .. Len(s)
  BY <1>1
<1>3. IsInjective(k)
  BY <1>1, <1>2 DEF IsInjective
<1>4. ToSet(k) = Keys(s)
  BY <1>1, <1>2 DEF ToSet, Keys
<1> HIDE DEF k
<1> QED
  BY <1>2, <1>3, <1>4, InjectiveLen

LEMMA ShelfEmpty == Shelf(<<>>) /\ Keys(<<>>) = {}
<1>1. <<>> \in Seq(Entries) /\ DOMAIN <<>> = {}
  BY EmptySeq
<1> QED
  BY <1>1 DEF Shelf, IsInjective, Keys

LEMMA ShelfAppend ==
  ASSUME NEW s, Shelf(s), NEW h \in Hashes, h \notin Keys(s)
  PROVE  /\ Shelf(Append(s, Entry(h)))
         /\ Keys(Append(s, Entry(h))) = Keys(s) \cup {h}
         /\ Len(Append(s, Entry(h))) = Len(s) + 1
         /\ Bytes(Append(s, Entry(h))) = Bytes(s) + Size[h]
<1> DEFINE a == Append(s, Entry(h))
<1>1. /\ s \in Seq(Entries) /\ Len(s) \in Nat /\ DOMAIN s = 1 .. Len(s)
      /\ \A i \in 1 .. Len(s) : s[i] \in Entries /\ s[i].key \in Keys(s)
      /\ \A i, j \in 1 .. Len(s) : s[i].key = s[j].key => i = j
  BY ShelfFacts
<1>2. Entry(h) \in Entries /\ Entry(h).key = h
  BY EntryFacts
<1>3. /\ a \in Seq(Entries) /\ Len(a) = Len(s) + 1 /\ DOMAIN a = 1 .. Len(s) + 1
      /\ \A i \in 1 .. Len(s) : a[i] = s[i]
      /\ a[Len(s) + 1] = Entry(h)
  <2>1. a \in Seq(Entries) /\ Len(a) = Len(s) + 1 /\ (\A i \in 1 .. Len(s) : a[i] = s[i])
        /\ a[Len(s) + 1] = Entry(h)
    BY <1>1, <1>2, AppendProperties
  <2> HIDE DEF a
  <2> QED
    BY <2>1, SeqFacts
<1>4. Bytes(a) = Bytes(s) + Size[h]
  BY <1>1, <1>2, BytesAppend
<1> HIDE DEF a
<1>5. IsInjective(a)
  <2> SUFFICES ASSUME NEW i \in 1 .. Len(s) + 1, NEW j \in 1 .. Len(s) + 1, a[i] = a[j]
               PROVE  i = j
    BY <1>3 DEF IsInjective
  <2>1. CASE i \in 1 .. Len(s) /\ j \in 1 .. Len(s)
    BY <1>1, <1>3, <2>1
  <2>2. CASE i = Len(s) + 1 /\ j \in 1 .. Len(s)
    BY <1>1, <1>2, <1>3, <2>2
  <2>3. CASE i \in 1 .. Len(s) /\ j = Len(s) + 1
    BY <1>1, <1>2, <1>3, <2>3
  <2>4. \A k \in 1 .. Len(s) + 1 : k \in 1 .. Len(s) \/ k = Len(s) + 1
    BY <1>1
  <2>5. i \in 1 .. Len(s) \/ i = Len(s) + 1
    BY <2>4
  <2>6. j \in 1 .. Len(s) \/ j = Len(s) + 1
    BY <2>4
  <2> QED
    BY <2>1, <2>2, <2>3, <2>5, <2>6
<1>6. Keys(a) = Keys(s) \cup {h}
  <2>1. Keys(a) = {a[i].key : i \in 1 .. Len(s) + 1} /\ Keys(s) = {s[i].key : i \in 1 .. Len(s)}
    BY <1>1, <1>3 DEF Keys
  <2>2. \A i \in 1 .. Len(s) + 1 : i \in 1 .. Len(s) \/ i = Len(s) + 1
    BY <1>1
  <2>3. \A i \in 1 .. Len(s) : i \in 1 .. Len(s) + 1
    BY <1>1
  <2>4. Len(s) + 1 \in 1 .. Len(s) + 1
    BY <1>1
  <2> QED
    BY <1>2, <1>3, <2>1, <2>2, <2>3, <2>4
<1> QED
  BY <1>3, <1>4, <1>5, <1>6 DEF Shelf, a

(* The list without the entry of a key. *)
Others(h) == [key : Hashes \ {h}, data : Hashes \cup {NoData}]

LEMMA OthersIs ==
  ASSUME NEW h, NEW e \in Entries
  PROVE  e \in Others(h) <=> e.key # h
BY DEF Others, Entries, Entry

LEMMA ShelfWithout ==
  ASSUME NEW s, Shelf(s), NEW h
  PROVE  /\ Shelf(Without(s, h))
         /\ Keys(Without(s, h)) = Keys(s) \ {h}
         /\ Len(Without(s, h)) <= Len(s)
         /\ Bytes(Without(s, h)) = Bytes(s) - (IF h \in Keys(s) THEN Size[h] ELSE 0)
<1> DEFINE w == Without(s, h)
<1>0. /\ s \in Seq(Entries) /\ Len(s) \in Nat /\ DOMAIN s = 1 .. Len(s)
      /\ \A i \in 1 .. Len(s) : s[i] \in Entries /\ s[i].key \in Keys(s) /\ s[i].key \in Hashes
      /\ \A i, j \in 1 .. Len(s) : s[i].key = s[j].key => i = j
      /\ \A k \in Keys(s) : Entry(k) \in ToSet(s)
  BY ShelfFacts
<1>1. w = Kept(s, Others(h))
  BY DEF Without, Others
<1>2. w \in Seq(Entries) /\ ToSet(w) = ToSet(s) \cap Others(h) /\ IsInjective(w) /\ Len(w) <= Len(s)
  BY <1>0, <1>1, KeptIs DEF Shelf
<1>3. Shelf(w)
  BY <1>2 DEF Shelf
<1>4. Keys(w) = Keys(s) \ {h}
  <2> HIDE DEF w
  <2>1. /\ \A k \in Keys(w) : k \in Hashes /\ Entry(k) \in ToSet(w)
        /\ \A k \in Hashes : Entry(k) \in ToSet(w) => k \in Keys(w)
        /\ \A k \in Keys(s) : k \in Hashes /\ Entry(k) \in ToSet(s)
        /\ \A k \in Hashes : Entry(k) \in ToSet(s) => k \in Keys(s)
    BY <1>3, ShelfFacts
  <2>2. \A k \in Hashes : Entry(k) \in ToSet(w) <=> Entry(k) \in ToSet(s) /\ k # h
    BY <1>2, OthersIs, EntryFacts
  <2> QED
    BY <2>1, <2>2
<1>5. Bytes(w) = Bytes(s) - (IF h \in Keys(s) THEN Size[h] ELSE 0)
  <2>1. PICK g : KeptSoFar(g, Entries, s, Others(h))
    BY <1>0, KeptChain
  <2>2. PICK b : BytesSoFar(b, s)
    BY <1>0, BytesChain
  <2> DEFINE Gone(k) == \E i \in 1 .. k : s[i].key = h
             T == {k \in 0 .. Len(s) : Bytes(g[k]) = b[k] - (IF Gone(k) THEN Size[h] ELSE 0)}
  <2>3. 0 \in T
    BY <1>0, <2>1, <2>2, BytesEmpty DEF KeptSoFar, BytesSoFar
  <2>4. ASSUME NEW k \in 1 .. Len(s), k - 1 \in T PROVE k \in T
    <3>1. /\ k \in 0 .. Len(s) /\ k - 1 \in 0 .. Len(s) /\ b[k] = b[k - 1] + Size[s[k].key]
          /\ g[k - 1] \in Seq(Entries) /\ s[k] \in Entries /\ b[k - 1] \in Nat
          /\ Size[s[k].key] \in Nat /\ Bytes(g[k - 1]) \in Nat
          /\ g[k] = IF s[k] \in Others(h) THEN Append(g[k - 1], s[k]) ELSE g[k - 1]
      <4>1. k \in 0 .. Len(s) /\ k - 1 \in 0 .. Len(s)
        BY <1>0
      <4>2. g[k - 1] \in Seq(Entries)
            /\ g[k] = IF s[k] \in Others(h) THEN Append(g[k - 1], s[k]) ELSE g[k - 1]
        BY <2>1, <4>1 DEF KeptSoFar
      <4>3. b[k] = b[k - 1] + Size[s[k].key] /\ b[k - 1] \in Nat
        BY <2>2, <4>1 DEF BytesSoFar
      <4>4. s[k] \in Entries /\ Size[s[k].key] \in Nat
        BY <1>0, EntryFacts
      <4>5. Bytes(g[k - 1]) \in Nat
        BY <4>2, BytesNat
      <4> QED
        BY <4>1, <4>2, <4>3, <4>4, <4>5
    <3>2. Bytes(g[k - 1]) = b[k - 1] - (IF Gone(k - 1) THEN Size[h] ELSE 0)
      BY <2>4
    <3>3. CASE s[k].key = h
      <4>1. g[k] = g[k - 1] /\ Gone(k)
        BY <3>1, <3>3, OthersIs
      <4>2. ~Gone(k - 1)
        BY <1>0, <3>3
      <4> QED
        BY <3>1, <3>2, <3>3, <4>1, <4>2
    <3>4. CASE s[k].key # h
      <4>1. Bytes(g[k]) = Bytes(g[k - 1]) + Size[s[k].key]
        BY <3>1, <3>4, OthersIs, BytesAppend
      <4>2. Gone(k) <=> Gone(k - 1)
        BY <3>4
      <4> DEFINE less == IF Gone(k) THEN Size[h] ELSE 0
      <4>3. less \in Nat
        BY <1>0, EntryFacts
      <4>4. Bytes(g[k - 1]) = b[k - 1] - less
        BY <3>2, <4>2
      <4> HIDE DEF less
      <4>5. Bytes(g[k]) = b[k] - less
        BY <3>1, <4>1, <4>3, <4>4
      <4> QED
        BY <3>1, <4>5 DEF less
    <3> QED
      BY <3>3, <3>4
  <2> HIDE DEF T
  <2>5. 0 .. Len(s) \subseteq T
    BY <1>0, <2>3, <2>4, UpToInduction
  <2>6. Bytes(g[Len(s)]) = b[Len(s)] - (IF Gone(Len(s)) THEN Size[h] ELSE 0)
    BY <1>0, <2>5 DEF T
  <2>7. Gone(Len(s)) <=> h \in Keys(s)
    BY <1>0 DEF Keys
  <2> QED
    BY <1>1, <2>1, <2>2, <2>6, <2>7 DEF KeptSoFar, BytesSoFar
<1> QED
  BY <1>2, <1>3, <1>4, <1>5

-----------------------------------------------------------------------------
(* A list cut in two *)

LEMMA CutFacts ==
  ASSUME NEW A, NEW s \in Seq(A), NEW k \in 0 .. Len(s)
  PROVE  /\ SubSeq(s, 1, k) \in Seq(A) /\ Len(SubSeq(s, 1, k)) = k
         /\ \A i \in 1 .. k : SubSeq(s, 1, k)[i] = s[i]
         /\ Rest(s, k) \in Seq(A) /\ Len(Rest(s, k)) = Len(s) - k
         /\ \A i \in 1 .. Len(s) - k : Rest(s, k)[i] = s[k + i]
<1>1. Len(s) \in Nat /\ \A i \in 1 .. Len(s) : s[i] \in A
  BY SeqFacts
<1>2. k \in Nat /\ k <= Len(s)
  BY <1>1
<1>3. \A i \in 1 .. k : s[i] \in A
  BY <1>1, <1>2
<1>4. /\ SubSeq(s, 1, k) \in Seq(A) /\ Len(SubSeq(s, 1, k)) = k
      /\ \A i \in 1 .. k : SubSeq(s, 1, k)[i] = s[i]
  <2>1. /\ SubSeq(s, 1, k) \in Seq(A) /\ Len(SubSeq(s, 1, k)) = IF 1 <= k THEN k - 1 + 1 ELSE 0
        /\ \A i \in 1 .. k - 1 + 1 : SubSeq(s, 1, k)[i] = s[1 + i - 1]
    BY <1>2, <1>3, SubSeqProperties
  <2>2. k - 1 + 1 = k /\ \A i \in 1 .. k : 1 + i - 1 = i
    BY <1>2
  <2> QED
    BY <1>2, <2>1, <2>2
<1>5. \A i \in k + 1 .. Len(s) : s[i] \in A
  BY <1>1, <1>2
<1>6. /\ Rest(s, k) \in Seq(A) /\ Len(Rest(s, k)) = IF k + 1 <= Len(s) THEN Len(s) - (k + 1) + 1 ELSE 0
      /\ \A i \in 1 .. Len(s) - (k + 1) + 1 : Rest(s, k)[i] = s[(k + 1) + i - 1]
  <2>1. k + 1 \in Int /\ Len(s) \in Int
    BY <1>1, <1>2
  <2> QED
    BY <1>5, <2>1, SubSeqProperties DEF Rest
<1>7. Len(s) - (k + 1) + 1 = Len(s) - k /\ \A i \in 1 .. Len(s) - k : (k + 1) + i - 1 = k + i
  BY <1>1, <1>2
<1>8. Len(Rest(s, k)) = Len(s) - k
  <2>1. CASE k + 1 <= Len(s)
    BY <1>6, <1>7, <2>1
  <2>2. CASE ~(k + 1 <= Len(s))
    <3>1. Len(Rest(s, k)) = 0
      BY <1>6, <2>2
    <3>2. Len(s) - k = 0
      BY <1>1, <1>2, <2>2
    <3> QED
      BY <3>1, <3>2
  <2> QED
    BY <2>1, <2>2
<1>9. \A i \in 1 .. Len(s) - k : Rest(s, k)[i] = s[k + i]
  BY <1>6, <1>7
<1> QED
  BY <1>4, <1>6, <1>8, <1>9

LEMMA CutSets ==
  ASSUME NEW A, NEW s \in Seq(A), NEW k \in 0 .. Len(s)
  PROVE  /\ ToSet(SubSeq(s, 1, k)) = {s[i] : i \in 1 .. k}
         /\ ToSet(Rest(s, k)) = {s[i] : i \in k + 1 .. Len(s)}
         /\ ToSet(SubSeq(s, 1, k)) \cup ToSet(Rest(s, k)) = ToSet(s)
         /\ IsInjective(s) => /\ IsInjective(SubSeq(s, 1, k)) /\ IsInjective(Rest(s, k))
                              /\ ToSet(SubSeq(s, 1, k)) \cap ToSet(Rest(s, k)) = {}
<1> DEFINE p == SubSeq(s, 1, k)
           q == Rest(s, k)
<1>1. /\ p \in Seq(A) /\ Len(p) = k /\ \A i \in 1 .. k : p[i] = s[i]
      /\ q \in Seq(A) /\ Len(q) = Len(s) - k /\ \A i \in 1 .. Len(s) - k : q[i] = s[k + i]
  BY CutFacts
<1>2. /\ Len(s) \in Nat /\ DOMAIN s = 1 .. Len(s) /\ ToSet(s) = {s[i] : i \in 1 .. Len(s)}
      /\ k \in Nat /\ k <= Len(s)
  BY SeqFacts
<1> HIDE DEF p, q
<1>3. /\ DOMAIN p = 1 .. k /\ ToSet(p) = {p[i] : i \in 1 .. k}
      /\ DOMAIN q = 1 .. Len(s) - k /\ ToSet(q) = {q[i] : i \in 1 .. Len(s) - k}
  BY <1>1, SeqFacts
<1>4. ToSet(p) = {s[i] : i \in 1 .. k}
  <2>1. \A i \in 1 .. k : p[i] = s[i]
    BY <1>1
  <2>2. {p[i] : i \in 1 .. k} = {s[i] : i \in 1 .. k}
    BY <2>1
  <2> QED
    BY <1>3, <2>2
<1>5. ToSet(q) = {s[i] : i \in k + 1 .. Len(s)}
  <2>1. \A i \in 1 .. Len(s) - k : k + i \in k + 1 .. Len(s)
    BY <1>2
  <2>2. \A i \in k + 1 .. Len(s) : i - k \in 1 .. Len(s) - k /\ k + (i - k) = i
    BY <1>2
  <2>3. \A i \in 1 .. Len(s) - k : q[i] = s[k + i]
    BY <1>1
  <2>4. \A i \in k + 1 .. Len(s) : s[i] = q[i - k]
    BY <2>2, <2>3
  <2>5. {q[i] : i \in 1 .. Len(s) - k} \subseteq {s[i] : i \in k + 1 .. Len(s)}
    BY <2>1, <2>3
  <2>6. {s[i] : i \in k + 1 .. Len(s)} \subseteq {q[i] : i \in 1 .. Len(s) - k}
    BY <2>2, <2>4
  <2> QED
    BY <1>3, <2>5, <2>6
<1>6. \A i \in 1 .. Len(s) : i \in 1 .. k \/ i \in k + 1 .. Len(s)
  BY <1>2
<1>7. (\A i \in 1 .. k : i \in 1 .. Len(s)) /\ \A i \in k + 1 .. Len(s) : i \in 1 .. Len(s)
  BY <1>2
<1>8. ToSet(p) \cup ToSet(q) = ToSet(s)
  BY <1>2, <1>4, <1>5, <1>6, <1>7
<1>9. ASSUME IsInjective(s)
      PROVE  IsInjective(p) /\ IsInjective(q) /\ ToSet(p) \cap ToSet(q) = {}
  <2>1. \A i, j \in 1 .. Len(s) : s[i] = s[j] => i = j
    BY <1>2, <1>9 DEF IsInjective
  <2>2. IsInjective(p)
    <3>1. \A i, j \in 1 .. k : p[i] = p[j] => i = j
      BY <1>1, <1>7, <2>1
    <3> QED
      BY <1>3, <3>1, Zenon DEF IsInjective
  <2>3. IsInjective(q)
    <3>1. \A i \in 1 .. Len(s) - k : k + i \in 1 .. Len(s)
      BY <1>2
    <3>2. \A i, j \in 1 .. Len(s) - k : k + i = k + j => i = j
      BY <1>2
    <3>3. \A i, j \in 1 .. Len(s) - k : q[i] = q[j] => i = j
      BY <1>1, <2>1, <3>1, <3>2, SMTT(30)
    <3> QED
      BY <1>3, <3>3 DEF IsInjective
  <2>4. \A i \in 1 .. k, j \in k + 1 .. Len(s) : i # j
    BY <1>2
  <2> QED
    BY <1>4, <1>5, <1>7, <2>1, <2>2, <2>3, <2>4
<1> QED
  BY <1>4, <1>5, <1>8, <1>9 DEF p, q

LEMMA ShelfCut ==
  ASSUME NEW s, Shelf(s), NEW k \in 0 .. Len(s)
  PROVE  /\ Shelf(SubSeq(s, 1, k)) /\ Shelf(Rest(s, k))
         /\ Keys(s) = Keys(SubSeq(s, 1, k)) \cup Keys(Rest(s, k))
         /\ Keys(SubSeq(s, 1, k)) \cap Keys(Rest(s, k)) = {}
<1>1. s \in Seq(Entries) /\ IsInjective(s)
  BY DEF Shelf
<1>2. Shelf(SubSeq(s, 1, k)) /\ Shelf(Rest(s, k))
  BY <1>1, CutFacts, CutSets DEF Shelf
<1>3. /\ ToSet(SubSeq(s, 1, k)) \cup ToSet(Rest(s, k)) = ToSet(s)
      /\ ToSet(SubSeq(s, 1, k)) \cap ToSet(Rest(s, k)) = {}
  BY <1>1, CutSets
<1>4. \A t : Shelf(t) => /\ Keys(t) \subseteq Hashes
                         /\ \A h \in Hashes : h \in Keys(t) <=> Entry(h) \in ToSet(t)
  BY ShelfFacts
<1> QED
  BY <1>2, <1>3, <1>4

LEMMA BytesCut ==
  ASSUME NEW s \in Seq(Entries), NEW b, BytesSoFar(b, s), NEW k \in 0 .. Len(s)
  PROVE  Bytes(SubSeq(s, 1, k)) = b[k] /\ Bytes(Rest(s, k)) = b[Len(s)] - b[k]
<1> DEFINE p == SubSeq(s, 1, k)
           q == Rest(s, k)
<1>1. /\ p \in Seq(Entries) /\ Len(p) = k /\ \A i \in 1 .. k : p[i] = s[i]
      /\ q \in Seq(Entries) /\ Len(q) = Len(s) - k /\ \A i \in 1 .. Len(s) - k : q[i] = s[k + i]
  BY CutFacts
<1>2. Len(s) \in Nat /\ k \in Nat /\ k <= Len(s) /\ \A i \in 1 .. Len(s) : s[i] \in Entries
  BY SeqFacts
<1> HIDE DEF p, q
<1>3. PICK c : BytesSoFar(c, p)
  BY <1>1, BytesChain
<1>4. PICK d : BytesSoFar(d, q)
  BY <1>1, BytesChain
<1>5. /\ \A i \in 0 .. Len(s) : b[i] \in Nat
      /\ \A i \in 1 .. Len(s) : b[i] = b[i - 1] + Size[s[i].key] /\ Size[s[i].key] \in Nat
      /\ b[0] = 0
  BY <1>2, EntryFacts DEF BytesSoFar
<1> DEFINE T == {i \in 0 .. k : c[i] = b[i]}
           U == {i \in 0 .. Len(s) - k : d[i] = b[k + i] - b[k]}
<1>6. 0 \in T
  BY <1>1, <1>2, <1>3, <1>5 DEF BytesSoFar
<1>7. ASSUME NEW i \in 1 .. k, i - 1 \in T PROVE i \in T
  <2>1. i \in 0 .. k /\ i \in 1 .. Len(s) /\ c[i - 1] = b[i - 1]
    BY <1>2, <1>7
  <2>2. c[i] = c[i - 1] + Size[p[i].key] /\ p[i] = s[i]
    BY <1>1, <1>3 DEF BytesSoFar
  <2> QED
    BY <1>5, <2>1, <2>2
<1>8. 0 \in U
  <2>1. 0 \in 0 .. Len(s) - k /\ k + 0 = k /\ k \in 0 .. Len(s)
    BY <1>2
  <2>2. d[0] = 0
    BY <1>4 DEF BytesSoFar
  <2> QED
    BY <1>5, <2>1, <2>2
<1>9. ASSUME NEW i \in 1 .. Len(s) - k, i - 1 \in U PROVE i \in U
  <2>1. /\ i \in 0 .. Len(s) - k /\ k + i \in 1 .. Len(s) /\ k + (i - 1) = (k + i) - 1
        /\ k + (i - 1) \in 0 .. Len(s) /\ k \in 0 .. Len(s)
        /\ d[i - 1] = b[k + (i - 1)] - b[k]
    BY <1>2, <1>9
  <2>2. d[i] = d[i - 1] + Size[q[i].key] /\ q[i] = s[k + i]
    BY <1>1, <1>4 DEF BytesSoFar
  <2>3. b[k + i] = b[k + (i - 1)] + Size[s[k + i].key] /\ Size[s[k + i].key] \in Nat
    BY <1>5, <2>1
  <2>4. b[k + (i - 1)] \in Nat /\ b[k] \in Nat
    BY <1>5, <2>1
  <2> QED
    BY <2>1, <2>2, <2>3, <2>4
<1> HIDE DEF T, U
<1>10. 0 .. k \subseteq T
  BY <1>2, <1>6, <1>7, UpToInduction
<1>11. 0 .. Len(s) - k \subseteq U
  <2>1. Len(s) - k \in Nat
    BY <1>2
  <2> DEFINE n == Len(s) - k
  <2> HIDE DEF n
  <2>2. 0 .. n \subseteq U
    BY <1>8, <1>9, <2>1, UpToInduction DEF n
  <2> QED
    BY <2>2 DEF n
<1>12. c[k] = b[k] /\ d[Len(s) - k] = b[Len(s)] - b[k]
  <2>1. k \in T /\ Len(s) - k \in U /\ k + (Len(s) - k) = Len(s)
    BY <1>2, <1>10, <1>11
  <2> QED
    BY <2>1 DEF T, U
<1> QED
  BY <1>1, <1>3, <1>4, <1>12 DEF BytesSoFar, p, q

LEMMA BytesSplit ==
  ASSUME NEW s \in Seq(Entries), NEW k \in 0 .. Len(s)
  PROVE  /\ Bytes(SubSeq(s, 1, k)) \in Nat /\ Bytes(Rest(s, k)) \in Nat
         /\ Bytes(s) = Bytes(SubSeq(s, 1, k)) + Bytes(Rest(s, k))
<1>1. PICK b : BytesSoFar(b, s)
  BY BytesChain
<1>2. Bytes(SubSeq(s, 1, k)) = b[k] /\ Bytes(Rest(s, k)) = b[Len(s)] - b[k]
  BY <1>1, BytesCut
<1>3. SubSeq(s, 1, k) \in Seq(Entries) /\ Rest(s, k) \in Seq(Entries)
  BY CutFacts
<1>4. b[k] \in Nat /\ b[Len(s)] \in Nat /\ Bytes(s) = b[Len(s)]
  BY <1>1, LenProperties, SMTT(30) DEF BytesSoFar
<1> QED
  BY <1>2, <1>3, <1>4, BytesNat

(* A list of no bytes is empty. *)
LEMMA BytesNone ==
  ASSUME NEW s \in Seq(Entries), Bytes(s) <= 0
  PROVE  Len(s) = 0
<1>1. Len(s) \in Nat
  BY LenProperties
<1> SUFFICES ASSUME Len(s) # 0 PROVE FALSE
  OBVIOUS
<1>2. PICK b : BytesSoFar(b, s)
  BY BytesChain
<1>3. Len(s) \in 1 .. Len(s) /\ Len(s) - 1 \in 0 .. Len(s)
  BY <1>1
<1>4. b[Len(s)] = b[Len(s) - 1] + Size[s[Len(s)].key] /\ b[Len(s) - 1] \in Nat
  BY <1>2, <1>3 DEF BytesSoFar
<1>5. Size[s[Len(s)].key] \in Nat \ {0}
  BY <1>3, SeqFacts, EntryFacts
<1> QED
  BY <1>2, <1>4, <1>5 DEF BytesSoFar

(* How many entries go: enough for the rest to be within room, if any is.    *)
LEMMA VictimsSuffice ==
  ASSUME NEW s \in Seq(Entries), NEW total \in Int, NEW room \in Int
  PROVE  /\ Victims(s, total, room) \in 0 .. Len(s)
         /\ \/ total - Bytes(SubSeq(s, 1, Victims(s, total, room))) <= room
            \/ Victims(s, total, room) = Len(s)
<1> DEFINE Enough(k) == total - Bytes(SubSeq(s, 1, k)) <= room
           R == {ss \in Nat \X Nat : ss[1] < ss[2]}
           S == {k \in 0 .. Len(s) : Enough(k) \/ k = Len(s)}
<1>1. IsWellFoundedOn(R, Nat)
  BY NatLessThanWellFounded DEF OpToRel
<1>2. Len(s) \in Nat /\ S \subseteq Nat /\ S # {}
  <2>1. Len(s) \in Nat
    BY LenProperties
  <2>2. Len(s) \in S
    BY <2>1
  <2> QED
    BY <2>1, <2>2
<1>3. \E k \in S : \A j \in S : ~(<<j, k>> \in R)
  <2> HIDE DEF S
  <2> QED
    BY <1>1, <1>2, WFMin
<1>4. PICK k \in S : \A j \in S : ~(j < k)
  BY <1>2, <1>3
<1>5. \A j \in 0 .. k - 1 : ~Enough(j)
  <2>1. \A j \in 0 .. k - 1 : j \in 0 .. Len(s) /\ j < k
    BY <1>2, <1>4
  <2> QED
    BY <1>4, <2>1
<1>6. \A j \in 0 .. k - 1 : total - Bytes(SubSeq(s, 1, j)) > room
  <2> TAKE j \in 0 .. k - 1
  <2>1. j \in 0 .. Len(s)
    BY <1>2, <1>4
  <2>2. Bytes(SubSeq(s, 1, j)) \in Nat
    BY <2>1, BytesSplit
  <2> QED
    BY <1>5, <2>2
<1>7. \E i \in 0 .. Len(s) :
        /\ total - Bytes(SubSeq(s, 1, i)) <= room \/ i = Len(s)
        /\ \A j \in 0 .. i - 1 : total - Bytes(SubSeq(s, 1, j)) > room
  BY <1>4, <1>6
<1> QED
  BY <1>7 DEF Victims

-----------------------------------------------------------------------------
(* Tiers that keep their books *)

TierSet == [l1 : {[h \in D |-> h] : D \in SUBSET Hashes}, slot : Nat,
            l2 : Seq(Entries), used : Nat, disk : Seq(Entries), cap : DiskCaps]

Stocked(t) == Shelf(t.l2) /\ t.used = Bytes(t.l2) /\ t.used <= StoreCap
Slotted(t) ==
  /\ IsFiniteSet(DOMAIN t.l1) /\ \A h \in DOMAIN t.l1 : Size[h] <= t.slot
  /\ DOMAIN t.l1 # {} => Cardinality(DOMAIN t.l1) <= Slots(t)
Filed(t) == Shelf(t.disk) /\ (t.cap > 0 => Bytes(t.disk) <= t.cap \/ Len(t.disk) = 1)

GoodTiers == {t \in TierSet : Stocked(t) /\ Slotted(t) /\ Filed(t)}

(* Nothing leaves the store and the disk on the way from t to u. *)
Stays(t, u) == /\ u.cap = t.cap
               /\ DiskOn /\ t.cap = 0
                    => Keys(t.l2) \cup Keys(t.disk) \subseteq Keys(u.l2) \cup Keys(u.disk)

LEMMA StaysOrder ==
  /\ \A t : Stays(t, t)
  /\ \A t, u, v : Stays(t, u) /\ Stays(u, v) => Stays(t, v)
BY DEF Stays

LEMMA TierFacts ==
  ASSUME NEW t \in GoodTiers
  PROVE  /\ t \in TierSet /\ Stocked(t) /\ Slotted(t) /\ Filed(t)
         /\ Shelf(t.l2) /\ Shelf(t.disk) /\ t.cap \in Nat /\ t.slot \in Nat /\ t.used \in Nat
         /\ t.l2 \in Seq(Entries) /\ t.disk \in Seq(Entries)
         /\ DOMAIN t.l1 \subseteq Hashes /\ \A h \in DOMAIN t.l1 : t.l1[h] = h
BY DEF GoodTiers, TierSet, Stocked, Filed

(* A file is put in the place of one with its name, after the oldest went. *)
LEMMA FilePut ==
  ASSUME NEW d, Shelf(d), NEW k \in 0 .. Len(d), NEW h \in Hashes
  PROVE  LET a == Append(Without(Rest(d, k), h), Entry(h))
         IN  /\ Shelf(a) /\ h \in Keys(a) /\ Len(a) <= Len(d) - k + 1
             /\ Bytes(a) <= Bytes(Rest(d, k)) + Size[h]
             /\ k = 0 => Keys(a) = Keys(d) \cup {h}
<1> DEFINE r == Rest(d, k)
           w == Without(r, h)
           a == Append(w, Entry(h))
<1>1. d \in Seq(Entries) /\ Len(d) \in Nat
  BY ShelfFacts
<1>2. Shelf(r) /\ Len(r) = Len(d) - k /\ r \in Seq(Entries)
  BY <1>1, ShelfCut, CutFacts
<1>3. k = 0 => Keys(r) = Keys(d)
  <2> SUFFICES ASSUME k = 0 PROVE Keys(r) = Keys(d)
    OBVIOUS
  <2>1. Keys(d) = Keys(SubSeq(d, 1, k)) \cup Keys(r)
    BY ShelfCut
  <2>2. Len(SubSeq(d, 1, k)) = 0 /\ SubSeq(d, 1, k) \in Seq(Entries)
    BY <1>1, CutFacts
  <2>3. SubSeq(d, 1, k) = <<>>
    BY <2>2, EmptySeq
  <2> QED
    BY <2>1, <2>3, ShelfEmpty
<1> HIDE DEF r
<1>4. /\ Shelf(w) /\ Keys(w) = Keys(r) \ {h} /\ Len(w) <= Len(r)
      /\ Bytes(w) = Bytes(r) - (IF h \in Keys(r) THEN Size[h] ELSE 0)
  BY <1>2, ShelfWithout
<1> HIDE DEF w
<1>5. /\ Shelf(a) /\ Keys(a) = Keys(w) \cup {h} /\ Len(a) = Len(w) + 1
      /\ Bytes(a) = Bytes(w) + Size[h]
  BY <1>4, ShelfAppend
<1>6. Bytes(r) \in Nat /\ Size[h] \in Nat /\ Bytes(w) <= Bytes(r) /\ Bytes(w) \in Nat
  <2>1. Bytes(r) \in Nat /\ Size[h] \in Nat
    BY <1>2, BytesNat, EntryFacts
  <2>2. Bytes(w) \in Nat
    BY <1>4, BytesNat DEF Shelf
  <2> QED
    BY <1>4, <2>1, <2>2
<1>7. Len(w) \in Nat
  BY <1>4, ShelfFacts
<1> HIDE DEF a
<1>8. Keys(a) = Keys(r) \cup {h}
  BY <1>4, <1>5
<1>9. Len(a) <= Len(d) - k + 1
  BY <1>1, <1>2, <1>4, <1>5, <1>7
<1>10. Bytes(a) <= Bytes(r) + Size[h]
  BY <1>5, <1>6
<1> QED
  BY <1>3, <1>5, <1>8, <1>9, <1>10 DEF a, w, r

LEMMA DiskSetGood ==
  ASSUME NEW t \in GoodTiers, NEW e \in Entries
  PROVE  /\ DiskSet(t, e) \in GoodTiers /\ Stays(t, DiskSet(t, e))
         /\ DiskSet(t, e) = [t EXCEPT !.disk = DiskSet(t, e).disk]
         /\ e.key \in Keys(DiskSet(t, e).disk)
         /\ t.cap = 0 => Keys(DiskSet(t, e).disk) = Keys(t.disk) \cup {e.key}
<1> DEFINE h == e.key
           room == IF t.cap > Size[e.key] THEN t.cap - Size[e.key] ELSE 0
           k == IF t.cap = 0 THEN 0 ELSE Victims(t.disk, Bytes(t.disk), room)
           a == Append(Without(Rest(t.disk, k), h), Entry(h))
           u == [t EXCEPT !.disk = a]
<1>1. h \in Hashes /\ e = Entry(h) /\ Size[h] \in Nat \ {0}
  BY EntryFacts
<1>2. DiskSet(t, e) = u
  BY <1>1 DEF DiskSet
<1>3. Shelf(t.disk) /\ t.disk \in Seq(Entries) /\ Len(t.disk) \in Nat /\ t.cap \in Nat /\ t \in TierSet
  BY TierFacts, ShelfFacts
<1>4. room \in Nat /\ Bytes(t.disk) \in Nat
  BY <1>1, <1>3, BytesNat
<1> HIDE DEF room
<1>5. k \in 0 .. Len(t.disk)
  BY <1>3, <1>4, VictimsSuffice
<1>6. t.cap # 0 => Bytes(t.disk) - Bytes(SubSeq(t.disk, 1, k)) <= room \/ k = Len(t.disk)
  BY <1>3, <1>4, VictimsSuffice
<1>7. t.cap = 0 => k = 0
  OBVIOUS
<1> HIDE DEF k
<1>8. /\ Shelf(a) /\ h \in Keys(a) /\ Len(a) <= Len(t.disk) - k + 1
      /\ Bytes(a) <= Bytes(Rest(t.disk, k)) + Size[h]
      /\ k = 0 => Keys(a) = Keys(t.disk) \cup {h}
  BY <1>1, <1>3, <1>5, FilePut
<1>9. /\ Bytes(SubSeq(t.disk, 1, k)) \in Nat /\ Bytes(Rest(t.disk, k)) \in Nat
      /\ Bytes(t.disk) = Bytes(SubSeq(t.disk, 1, k)) + Bytes(Rest(t.disk, k))
  BY <1>3, <1>5, BytesSplit
<1>10. Len(a) \in Nat /\ Len(a) # 0 /\ a \in Seq(Entries) /\ Bytes(a) \in Nat
  <2> HIDE DEF a
  <2>1. a \in Seq(Entries) /\ Len(a) \in Nat /\ DOMAIN a = 1 .. Len(a)
    BY <1>8, ShelfFacts
  <2>2. Bytes(a) \in Nat
    BY <2>1, BytesNat
  <2>3. DOMAIN a # {}
    BY <1>8 DEF Keys
  <2> QED
    BY <2>1, <2>2, <2>3
<1> HIDE DEF a
<1>11. t.cap > 0 => Bytes(a) <= t.cap \/ Len(a) = 1
  <2> SUFFICES ASSUME t.cap > 0 PROVE Bytes(a) <= t.cap \/ Len(a) = 1
    OBVIOUS
  <2>1. Bytes(Rest(t.disk, k)) <= room \/ k = Len(t.disk)
    BY <1>3, <1>4, <1>6, <1>9
  <2>2. Len(Rest(t.disk, k)) = Len(t.disk) - k /\ Rest(t.disk, k) \in Seq(Entries)
    BY <1>3, <1>5, CutFacts
  <2>3. Bytes(Rest(t.disk, k)) <= 0 => Len(Rest(t.disk, k)) = 0
    BY <2>2, BytesNone
  <2>4. k = Len(t.disk) => Len(a) = 1
    <3> SUFFICES ASSUME k = Len(t.disk) PROVE Len(a) = 1
      OBVIOUS
    <3>1. Len(a) <= Len(t.disk) - Len(t.disk) + 1
      BY <1>8
    <3>2. Len(a) <= 1
      BY <1>3, <3>1
    <3>3. Len(a) \in Nat /\ Len(a) # 0
      BY <1>10
    <3> DEFINE n == Len(a)
    <3>4. n \in Nat /\ n # 0 /\ n <= 1
      BY <3>2, <3>3
    <3> HIDE DEF n
    <3>5. n = 1
      BY <3>4
    <3> QED
      BY <3>5 DEF n
  <2>5. CASE t.cap > Size[h]
    BY <1>1, <1>3, <1>8, <1>9, <1>10, <2>1, <2>4, <2>5 DEF room
  <2>6. CASE ~(t.cap > Size[h])
    <3>1. room = 0
      BY <2>6 DEF room
    <3>2. Len(t.disk) - k = 0
      BY <1>3, <1>5, <2>1, <2>2, <2>3, <3>1
    <3>3. k = Len(t.disk)
      BY <1>3, <1>5, <3>2
    <3> QED
      BY <2>4, <3>3
  <2> QED
    BY <2>5, <2>6
<1>12. u \in TierSet /\ u.disk = a /\ u.l1 = t.l1 /\ u.l2 = t.l2 /\ u.slot = t.slot
       /\ u.used = t.used /\ u.cap = t.cap
  BY <1>3, <1>10 DEF TierSet
<1> HIDE DEF u
<1>13. Stocked(u) /\ Slotted(u) /\ Filed(u)
  BY <1>8, <1>11, <1>12, TierFacts DEF Stocked, Slotted, Filed, Slots
<1>14. Stays(t, u)
  BY <1>7, <1>8, <1>12 DEF Stays
<1> QED
  BY <1>2, <1>7, <1>8, <1>12, <1>13, <1>14 DEF GoodTiers, u

FilesSoFar(h, t, s) ==
  /\ h \in [0 .. Len(s) -> GoodTiers]
  /\ h[0] = t
  /\ \A k \in 1 .. Len(s) : h[k] = DiskSet(h[k - 1], s[k])
  /\ h[Len(s)] = FoldLeft(DiskSet, t, s)

LEMMA FilesChain ==
  ASSUME NEW t \in GoodTiers, NEW s \in Seq(Entries)
  PROVE  \E h : FilesSoFar(h, t, s)
<1> DEFINE n == Len(s)
           A == GoodTiers
           f == [x \in (1 .. n) \X A |-> DiskSet(x[2], s[x[1]])]
           Def(g, u) == IF u = {} THEN t ELSE DiskSet(g[u \ {Max(u)}], s[Max(u)])
           iter == CHOOSE g : g = [u \in SUBSET (1 .. n) |-> Def(g, u)]
<1>1. n \in Nat /\ DOMAIN s = 1 .. n /\ (\A i \in 1 .. n : s[i] \in Entries) /\ t \in A
  BY SeqFacts
<1>2. \A i \in 1 .. n, a \in A : DiskSet(a, s[i]) \in A
  BY <1>1, DiskSetGood
<1>3. f \in [(1 .. n) \X A -> A] /\ \A k \in 1 .. n, a \in A : f[<<k, a>>] = DiskSet(a, s[k])
  BY <1>2
<1>4. FoldLeft(DiskSet, t, s) = iter[1 .. n]
  BY <1>1 DEF FoldLeft, MapThenFoldSet
<1> HIDE DEF f, n, A
<1>5. PICK g : FoldsUp(g, A, t, n, f)
  BY <1>1, <1>3, FoldUpExists
<1>6. \A u \in SUBSET (1 .. n) : g[u] = Def(g, u)
  <2>1. \A u \in SUBSET (1 .. n) : u # {} => Max(u) \in 1 .. n /\ g[u \ {Max(u)}] \in A
    BY <1>5 DEF FoldsUp
  <2> QED
    BY <1>3, <1>5, <2>1 DEF FoldsUp
<1>7. g = [u \in SUBSET (1 .. n) |-> Def(g, u)]
  <2>1. g = [u \in SUBSET (1 .. n) |-> g[u]]
    BY <1>5 DEF FoldsUp
  <2> HIDE DEF Def
  <2> QED
    BY <1>6, <2>1
<1>8. iter = [u \in SUBSET (1 .. n) |-> Def(iter, u)]
  <2> HIDE DEF Def
  <2> QED
    BY <1>7
<1>9. \A u \in SUBSET (1 .. n) : iter[u] = Def(iter, u)
  <2> HIDE DEF iter, Def
  <2> QED
    BY <1>8
<1> HIDE DEF iter
<1>10. FollowsUp(iter, A, t, n, f)
  <2>1. \A u \in SUBSET (1 .. n) : u # {} => Max(u) \in 1 .. n
    BY <1>1, MaxIsIn
  <2> QED
    BY <1>3, <1>9, <2>1 DEF FollowsUp
<1>11. PICK h : ChainOf(h, A, t, n, f) /\ h[n] = iter[1 .. n]
  <2>1. ChainTo(A, t, n, f, iter[1 .. n])
    BY <1>1, <1>3, <1>10, FoldUpIsChain
  <2> QED
    BY <2>1 DEF ChainTo
<1>12. FilesSoFar(h, t, s)
  <2>1. \A k \in 1 .. n : k - 1 \in 0 .. n
    BY <1>1
  <2>2. \A k \in 1 .. n : h[k - 1] \in A
    BY <1>11, <2>1 DEF ChainOf
  <2>3. \A k \in 1 .. n : h[k] = DiskSet(h[k - 1], s[k])
    BY <1>3, <1>11, <2>2 DEF ChainOf
  <2> QED
    BY <1>4, <1>11, <2>3 DEF ChainOf, FilesSoFar, n, A
<1> QED
  BY <1>12

LEMMA FilesAll ==
  ASSUME NEW t \in GoodTiers, NEW s \in Seq(Entries)
  PROVE  LET u == FoldLeft(DiskSet, t, s)
         IN  /\ u \in GoodTiers /\ Stays(t, u) /\ u = [t EXCEPT !.disk = u.disk]
             /\ t.cap = 0 => \A i \in 1 .. Len(s) : s[i].key \in Keys(u.disk)
<1>1. PICK h : FilesSoFar(h, t, s)
  BY FilesChain
<1> DEFINE Good(k) == /\ Stays(t, h[k]) /\ h[k] = [t EXCEPT !.disk = h[k].disk]
                      /\ t.cap = 0 => \A i \in 1 .. k : s[i].key \in Keys(h[k].disk)
           T == {k \in 0 .. Len(s) : Good(k)}
<1>2. Len(s) \in Nat /\ (\A i \in 1 .. Len(s) : s[i] \in Entries) /\ t \in TierSet
  BY SeqFacts, TierFacts
<1>3. 0 \in T
  <2>1. h[0] = t /\ 0 \in 0 .. Len(s)
    BY <1>1, <1>2 DEF FilesSoFar
  <2>2. t = [t EXCEPT !.disk = t.disk]
    BY <1>2 DEF TierSet
  <2> QED
    BY <2>1, <2>2, StaysOrder
<1>4. ASSUME NEW k \in 1 .. Len(s), k - 1 \in T PROVE k \in T
  <2> DEFINE a == h[k - 1]
             b == h[k]
  <2>1. k - 1 \in 0 .. Len(s) /\ k \in 0 .. Len(s) /\ Good(k - 1) /\ s[k] \in Entries
    BY <1>2, <1>4
  <2>2. a \in GoodTiers /\ b = DiskSet(a, s[k])
    BY <1>1, <2>1 DEF FilesSoFar
  <2> HIDE DEF a, b
  <2>3. /\ Stays(a, b) /\ b = [a EXCEPT !.disk = b.disk] /\ s[k].key \in Keys(b.disk)
        /\ a.cap = 0 => Keys(b.disk) = Keys(a.disk) \cup {s[k].key}
    BY <2>1, <2>2, DiskSetGood
  <2>4. /\ Stays(t, a) /\ a = [t EXCEPT !.disk = a.disk]
        /\ t.cap = 0 => \A i \in 1 .. k - 1 : s[i].key \in Keys(a.disk)
    BY <2>1 DEF a
  <2>5. Stays(t, b)
    BY <2>3, <2>4, StaysOrder
  <2>6. b = [t EXCEPT !.disk = b.disk] /\ a.cap = t.cap
    BY <1>2, <2>3, <2>4 DEF TierSet, Stays
  <2>7. ASSUME t.cap = 0, NEW i \in 1 .. k PROVE s[i].key \in Keys(b.disk)
    <3>1. i \in 1 .. k - 1 \/ i = k
      BY <1>2
    <3> QED
      BY <2>3, <2>4, <2>6, <2>7, <3>1
  <2>8. Good(k)
    BY <2>5, <2>6, <2>7 DEF b
  <2> QED
    BY <2>1, <2>8
<1> HIDE DEF T
<1>5. 0 .. Len(s) \subseteq T
  BY <1>2, <1>3, <1>4, UpToInduction
<1>6. Good(Len(s)) /\ h[Len(s)] \in GoodTiers /\ h[Len(s)] = FoldLeft(DiskSet, t, s)
  BY <1>1, <1>2, <1>5 DEF T, FilesSoFar
<1> QED
  BY <1>6

(* An eviction spills the coldest entries, and frees their slots.            *)
LEMMA SpilledGood ==
  ASSUME NEW t \in GoodTiers, NEW k \in 0 .. Len(t.l2)
  PROVE  /\ Spilled(t, k) \in GoodTiers /\ Stays(t, Spilled(t, k))
         /\ Spilled(t, k).l2 = Rest(t.l2, k)
         /\ Spilled(t, k).used = t.used - Bytes(SubSeq(t.l2, 1, k))
<1> DEFINE gone == SubSeq(t.l2, 1, k)
           v == IF DiskOn THEN FoldLeft(DiskSet, t, gone) ELSE t
           u == [v EXCEPT !.l2 = Rest(@, k), !.used = @ - Bytes(gone),
                          !.l1 = Evicted(@, Keys(gone))]
<1>1. Spilled(t, k) = u
  BY DEF Spilled
<1>2. Shelf(t.l2) /\ t.l2 \in Seq(Entries) /\ t \in TierSet /\ Stocked(t) /\ Slotted(t) /\ Filed(t)
  BY TierFacts
<1>3. /\ Shelf(gone) /\ gone \in Seq(Entries) /\ Shelf(Rest(t.l2, k)) /\ Rest(t.l2, k) \in Seq(Entries)
      /\ Keys(t.l2) = Keys(gone) \cup Keys(Rest(t.l2, k))
      /\ Bytes(gone) \in Nat /\ Bytes(Rest(t.l2, k)) \in Nat
      /\ Bytes(t.l2) = Bytes(gone) + Bytes(Rest(t.l2, k))
  BY <1>2, ShelfCut, CutFacts, BytesSplit
<1> HIDE DEF gone
<1>4. /\ v \in GoodTiers /\ Stays(t, v) /\ v = [t EXCEPT !.disk = v.disk]
      /\ DiskOn /\ t.cap = 0 => Keys(gone) \subseteq Keys(v.disk)
  <2>1. CASE DiskOn
    <3>1. /\ v \in GoodTiers /\ Stays(t, v) /\ v = [t EXCEPT !.disk = v.disk]
          /\ t.cap = 0 => \A i \in 1 .. Len(gone) : gone[i].key \in Keys(v.disk)
      BY <1>3, <2>1, FilesAll
    <3>2. Keys(gone) = {gone[i].key : i \in 1 .. Len(gone)}
      BY <1>3, SeqFacts DEF Keys
    <3> HIDE DEF v
    <3> QED
      BY <3>1, <3>2
  <2>2. CASE ~DiskOn
    <3>1. t = [t EXCEPT !.disk = t.disk]
      BY <1>2 DEF TierSet
    <3> QED
      BY <2>2, <3>1, StaysOrder
  <2> QED
    BY <2>1, <2>2
<1> HIDE DEF v
<1>5. /\ v \in TierSet /\ v.l2 = t.l2 /\ v.used = t.used /\ v.l1 = t.l1 /\ v.slot = t.slot
      /\ v.cap = t.cap /\ Filed(v)
  BY <1>2, <1>4, TierFacts DEF TierSet
<1>6. /\ u.l2 = Rest(t.l2, k) /\ u.used = t.used - Bytes(gone) /\ u.l1 = Evicted(t.l1, Keys(gone))
      /\ u.slot = t.slot /\ u.cap = t.cap /\ u.disk = v.disk
  BY <1>5 DEF TierSet
<1>7. u.used = Bytes(u.l2) /\ u.used <= StoreCap /\ u.used \in Nat
  <2> HIDE DEF u
  <2>1. t.used = Bytes(t.l2) /\ t.used <= StoreCap /\ StoreCap \in Nat
    BY <1>2 DEF Stocked
  <2>2. u.used = Bytes(Rest(t.l2, k))
    BY <1>3, <1>6, <2>1
  <2> QED
    BY <1>3, <1>6, <2>1, <2>2
<1>8. /\ Evicted(t.l1, Keys(gone)) = [h \in DOMAIN t.l1 \ Keys(gone) |-> h]
      /\ DOMAIN t.l1 \subseteq Hashes /\ DOMAIN u.l1 = DOMAIN t.l1 \ Keys(gone)
  BY <1>6, TierFacts DEF Evicted
<1>9. u \in TierSet
  <2>1. Evicted(t.l1, Keys(gone)) \in {[h \in D |-> h] : D \in SUBSET Hashes}
    BY <1>8
  <2> QED
    BY <1>3, <1>5, <1>6, <1>7, <2>1 DEF TierSet
<1> HIDE DEF u
<1>10. Slotted(u)
  <2>1. IsFiniteSet(DOMAIN t.l1) /\ DOMAIN u.l1 \in SUBSET DOMAIN t.l1
    BY <1>2, <1>8 DEF Slotted
  <2>2. IsFiniteSet(DOMAIN u.l1) /\ Cardinality(DOMAIN u.l1) <= Cardinality(DOMAIN t.l1)
    BY <2>1, FS_Subset
  <2>3. Slots(u) = Slots(t)
    BY <1>6 DEF Slots
  <2>4. DOMAIN u.l1 # {} => Cardinality(DOMAIN u.l1) <= Slots(t)
    <3>1. SUFFICES ASSUME DOMAIN u.l1 # {} PROVE Cardinality(DOMAIN u.l1) <= Slots(t)
      OBVIOUS
    <3>2. Cardinality(DOMAIN t.l1) <= Slots(t)
      BY <1>2, <2>1, <3>1 DEF Slotted
    <3>3. Cardinality(DOMAIN t.l1) \in Nat /\ Cardinality(DOMAIN u.l1) \in Nat
      BY <2>1, <2>2, FS_CardinalityType
    <3>4. Slots(t) \in Int
      <4>1. \E h \in DOMAIN t.l1 : Size[h] <= t.slot /\ Size[h] \in Nat \ {0}
        BY <1>2, <1>8, <2>1, <3>1 DEF Slotted
      <4>2. t.slot \in Nat \ {0} /\ PinnedBudget \in Nat
        BY <4>1, TierFacts
      <4>3. PinnedBudget \div t.slot \in Int /\ 1 \in Int
        BY <4>2
      <4> QED
        BY <4>3, Zenon DEF Slots
    <3> QED
      BY <2>2, <3>2, <3>3, <3>4
  <2> QED
    BY <1>2, <1>6, <2>1, <2>2, <2>3, <2>4 DEF Slotted
<1>11. Stays(t, u)
  <2>1. DiskOn /\ t.cap = 0 => Keys(t.disk) \subseteq Keys(u.disk) \cup Keys(u.l2) \cup Keys(gone)
    BY <1>3, <1>4, <1>5, <1>6 DEF Stays
  <2> QED
    BY <1>3, <1>4, <1>6, <2>1 DEF Stays
<1>12. Stocked(u) /\ Filed(u)
  BY <1>3, <1>5, <1>6, <1>7 DEF Stocked, Filed
<1> QED
  BY <1>1, <1>6, <1>9, <1>10, <1>11, <1>12 DEF GoodTiers, gone

(* What is evicted makes room for an entry that can fit.                     *)
LEMMA FittedGood ==
  ASSUME NEW t \in GoodTiers, NEW need \in Nat
  PROVE  /\ Fitted(t, need) \in GoodTiers /\ Stays(t, Fitted(t, need))
         /\ need <= StoreCap => Fitted(t, need).used + need <= StoreCap
         /\ Keys(Fitted(t, need).l2) \subseteq Keys(t.l2)
<1> DEFINE k == Victims(t.l2, t.used, StoreCap - need)
           u == Fitted(t, need)
<1>1. t.l2 \in Seq(Entries) /\ t.used = Bytes(t.l2) /\ t.used \in Nat /\ Len(t.l2) \in Nat
  BY TierFacts, LenProperties DEF Stocked
<1>2. StoreCap - need \in Int /\ StoreCap \in Nat
  BY Limits
<1>3. /\ k \in 0 .. Len(t.l2)
      /\ t.used - Bytes(SubSeq(t.l2, 1, k)) <= StoreCap - need \/ k = Len(t.l2)
  BY <1>1, <1>2, VictimsSuffice
<1>4. u = Spilled(t, k)
  BY DEF Fitted
<1> HIDE DEF k, u
<1>5. /\ u \in GoodTiers /\ Stays(t, u) /\ u.l2 = Rest(t.l2, k)
      /\ u.used = t.used - Bytes(SubSeq(t.l2, 1, k))
  BY <1>3, <1>4, SpilledGood
<1>6. u.used \in Nat /\ u.used = Bytes(u.l2)
  BY <1>5, TierFacts DEF Stocked
<1>7. k = Len(t.l2) => u.used = 0
  <2> SUFFICES ASSUME k = Len(t.l2) PROVE u.used = 0
    OBVIOUS
  <2>1. Len(u.l2) = Len(t.l2) - k /\ u.l2 \in Seq(Entries)
    BY <1>1, <1>3, <1>5, CutFacts
  <2>2. Len(u.l2) = 0
    BY <1>1, <2>1
  <2>3. u.l2 = <<>>
    BY <2>1, <2>2, EmptySeq
  <2> QED
    BY <1>6, <2>3, BytesEmpty
<1>8. need <= StoreCap => u.used + need <= StoreCap
  BY <1>2, <1>3, <1>5, <1>6, <1>7
<1>9. Keys(u.l2) \subseteq Keys(t.l2)
  BY <1>3, <1>5, TierFacts, ShelfCut
<1> QED
  BY <1>5, <1>8, <1>9 DEF u

(* A pinned slot is taken, written over, or nothing changes but the size of  *)
(* the slots, which the first block sets.                                    *)
LEMMA PinnedGood ==
  ASSUME NEW t \in GoodTiers, NEW h \in Hashes
  PROVE  /\ Pinned(t, h, h) \in GoodTiers /\ Stays(t, Pinned(t, h, h))
         /\ Pinned(t, h, h).l2 = t.l2 /\ Pinned(t, h, h).used = t.used
         /\ Pinned(t, h, h).disk = t.disk /\ Pinned(t, h, h).cap = t.cap
<1> DEFINE u == IF t.slot = 0 THEN [t EXCEPT !.slot = SlotFor(Size[h])] ELSE t
           fits == /\ Size[h] <= u.slot
                   /\ h \in DOMAIN u.l1 \/ Cardinality(DOMAIN u.l1) < Slots(u)
           v == [u EXCEPT !.l1 = [k \in DOMAIN @ \cup {h} |-> IF k = h THEN h ELSE @[k]]]
           p == Pinned(t, h, h)
<1>1. p = IF PinnedBudget = 0 THEN t ELSE IF ~fits THEN u ELSE v
  BY DEF Pinned
<1>2. /\ t \in TierSet /\ Stocked(t) /\ Slotted(t) /\ Filed(t) /\ t.slot \in Nat
      /\ DOMAIN t.l1 \subseteq Hashes /\ \A k \in DOMAIN t.l1 : t.l1[k] = k
  BY TierFacts
<1>3. Size[h] \in Nat \ {0} /\ \A k \in Hashes : Size[k] \in Nat \ {0}
  OBVIOUS
<1>4. SlotFor(Size[h]) \in Nat \ {0}
  BY <1>3 DEF SlotFor
<1>5. t.slot = 0 => DOMAIN t.l1 = {}
  BY <1>2, <1>3 DEF Slotted
<1>6. /\ u \in GoodTiers /\ u.slot \in Nat \ {0} /\ u.l1 = t.l1 /\ u.l2 = t.l2
      /\ u.used = t.used /\ u.disk = t.disk /\ u.cap = t.cap
  <2>1. CASE t.slot = 0
    <3>1. /\ u \in TierSet /\ u.slot \in Nat \ {0} /\ u.l1 = t.l1 /\ u.l2 = t.l2
          /\ u.used = t.used /\ u.disk = t.disk /\ u.cap = t.cap
      BY <1>2, <1>4, <2>1 DEF TierSet
    <3> HIDE DEF u
    <3>2. Stocked(u) /\ Slotted(u) /\ Filed(u)
      BY <1>2, <1>5, <2>1, <3>1 DEF Stocked, Slotted, Filed
    <3> QED
      BY <3>1, <3>2 DEF GoodTiers
  <2>2. CASE t.slot # 0
    BY <1>2, <2>2
  <2> QED
    BY <2>1, <2>2
<1> HIDE DEF u
<1>7. fits => v \in GoodTiers
  <2> SUFFICES ASSUME fits PROVE v \in GoodTiers
    OBVIOUS
  <2>1. u \in TierSet /\ Stocked(u) /\ Slotted(u) /\ Filed(u)
    BY <1>6, TierFacts
  <2>2. [k \in DOMAIN u.l1 \cup {h} |-> IF k = h THEN h ELSE u.l1[k]] = [k \in DOMAIN u.l1 \cup {h} |-> k]
    BY <1>2, <1>6
  <2>3. /\ v.l1 = [k \in DOMAIN u.l1 \cup {h} |-> k] /\ v.slot = u.slot /\ v.l2 = u.l2
        /\ v.used = u.used /\ v.disk = u.disk /\ v.cap = u.cap
    BY <2>1, <2>2 DEF TierSet
  <2>4. v \in TierSet
    <3>1. [k \in DOMAIN u.l1 \cup {h} |-> k] \in {[k \in D |-> k] : D \in SUBSET Hashes}
      BY <1>2, <1>6
    <3> QED
      BY <2>1, <2>2, <3>1 DEF TierSet
  <2> HIDE DEF v
  <2>5. IsFiniteSet(DOMAIN u.l1) /\ DOMAIN v.l1 = DOMAIN u.l1 \cup {h}
    BY <2>1, <2>3 DEF Slotted
  <2>6. /\ IsFiniteSet(DOMAIN v.l1)
        /\ Cardinality(DOMAIN v.l1) = IF h \in DOMAIN u.l1 THEN Cardinality(DOMAIN u.l1)
                                      ELSE Cardinality(DOMAIN u.l1) + 1
    BY <2>5, FS_AddElement, ZenonT(30)
  <2>7. Slots(v) = Slots(u) /\ Slots(u) \in Int
    <3>1. u.slot \in Nat \ {0} /\ PinnedBudget \in Nat /\ v.slot = u.slot
      BY <1>6, <2>3, Limits
    <3>2. PinnedBudget \div u.slot \in Int
      BY <3>1
    <3> HIDE DEF fits
    <3> QED
      BY <3>1, <3>2 DEF Slots
  <2>8. Cardinality(DOMAIN u.l1) \in Nat
    BY <2>5, FS_CardinalityType
  <2>9. Cardinality(DOMAIN v.l1) <= Slots(v)
    <3>1. CASE h \in DOMAIN u.l1
      BY <2>1, <2>6, <2>7, <3>1 DEF Slotted
    <3>2. CASE h \notin DOMAIN u.l1
      BY <2>6, <2>7, <2>8, <3>2
    <3> QED
      BY <3>1, <3>2
  <2>10. \A k \in DOMAIN v.l1 : Size[k] <= v.slot
    BY <2>1, <2>3, <2>5 DEF Slotted
  <2>11. Stocked(v) /\ Slotted(v) /\ Filed(v)
    BY <2>1, <2>3, <2>6, <2>9, <2>10 DEF Stocked, Slotted, Filed
  <2> QED
    BY <2>4, <2>11 DEF GoodTiers
<1>8. v.l2 = u.l2 /\ v.used = u.used /\ v.disk = u.disk /\ v.cap = u.cap
  BY <1>6, TierFacts DEF TierSet
<1> HIDE DEF v, fits
<1>9. p \in GoodTiers /\ p.l2 = t.l2 /\ p.used = t.used /\ p.disk = t.disk /\ p.cap = t.cap
  BY <1>1, <1>6, <1>7, <1>8
<1> HIDE DEF p
<1>10. Stays(t, p)
  BY <1>9 DEF Stays
<1> QED
  BY <1>9, <1>10 DEF p

LEMMA RemovedGood ==
  ASSUME NEW t \in GoodTiers, NEW h \in Hashes
  PROVE  /\ Removed(t, h) \in GoodTiers
         /\ Keys(Removed(t, h).l2) = Keys(t.l2) \ {h} /\ Removed(t, h).disk = t.disk
         /\ Removed(t, h).cap = t.cap
         /\ Removed(t, h).used <= t.used
<1> DEFINE u == Removed(t, h)
<1>1. t \in TierSet /\ Stocked(t) /\ Slotted(t) /\ Filed(t) /\ Shelf(t.l2) /\ t.used \in Nat
  BY TierFacts
<1>2. /\ Shelf(Without(t.l2, h)) /\ Keys(Without(t.l2, h)) = Keys(t.l2) \ {h}
      /\ Bytes(Without(t.l2, h)) = Bytes(t.l2) - (IF h \in Keys(t.l2) THEN Size[h] ELSE 0)
  BY <1>1, ShelfWithout
<1>3. Without(t.l2, h) \in Seq(Entries) /\ Bytes(Without(t.l2, h)) \in Nat
  BY <1>2, BytesNat DEF Shelf
<1>4. /\ u.l2 = Without(t.l2, h) /\ u.l1 = t.l1 /\ u.slot = t.slot /\ u.disk = t.disk
      /\ u.cap = t.cap /\ u.used = IF h \in Keys(t.l2) THEN t.used - Size[h] ELSE t.used
  BY <1>1 DEF Removed, TierSet
<1>5. u.used = Bytes(u.l2) /\ u.used \in Nat /\ u.used <= t.used /\ u.used <= StoreCap
  <2> HIDE DEF u
  <2>1. t.used = Bytes(t.l2) /\ t.used <= StoreCap /\ StoreCap \in Nat /\ Size[h] \in Nat
    BY <1>1, Limits DEF Stocked
  <2>2. u.used = Bytes(u.l2)
    <3>1. CASE h \in Keys(t.l2)
      BY <1>2, <1>4, <2>1, <3>1
    <3>2. CASE h \notin Keys(t.l2)
      BY <1>1, <1>2, <1>4, <2>1, <3>2
    <3> QED
      BY <3>1, <3>2
  <2>3. u.used <= t.used
    BY <1>1, <1>4, <2>1
  <2> QED
    BY <1>1, <1>3, <1>4, <2>1, <2>2, <2>3
<1>6. u \in TierSet
  BY <1>1, <1>3, <1>4, <1>5 DEF TierSet, Removed
<1> HIDE DEF u
<1>7. Stocked(u) /\ Slotted(u) /\ Filed(u)
  BY <1>1, <1>2, <1>4, <1>5 DEF Stocked, Slotted, Filed, Slots
<1> QED
  BY <1>2, <1>4, <1>5, <1>6, <1>7 DEF GoodTiers, u

LEMMA AddedGood ==
  ASSUME NEW t \in GoodTiers, NEW h \in Hashes, h \notin Keys(t.l2), t.used + Size[h] <= StoreCap
  PROVE  /\ Added(t, h, h) \in GoodTiers /\ Stays(t, Added(t, h, h))
         /\ Keys(Added(t, h, h).l2) = Keys(t.l2) \cup {h} /\ Added(t, h, h).disk = t.disk
         /\ Added(t, h, h).cap = t.cap
<1> DEFINE u == Added(t, h, h)
<1>1. t \in TierSet /\ Stocked(t) /\ Slotted(t) /\ Filed(t) /\ Shelf(t.l2) /\ t.used \in Nat
  BY TierFacts
<1>2. /\ u.l2 = Append(t.l2, Entry(h)) /\ u.used = t.used + Size[h] /\ u.l1 = t.l1
      /\ u.slot = t.slot /\ u.disk = t.disk /\ u.cap = t.cap
  BY <1>1 DEF Added, TierSet, Entry
<1>3. Shelf(u.l2) /\ Keys(u.l2) = Keys(t.l2) \cup {h} /\ Bytes(u.l2) = Bytes(t.l2) + Size[h]
  BY <1>1, <1>2, ShelfAppend
<1>4. u.used \in Nat /\ u.l2 \in Seq(Entries) /\ Size[h] \in Nat
  BY <1>1, <1>2, <1>3 DEF Shelf
<1>5. u \in TierSet
  BY <1>1, <1>2, <1>4 DEF TierSet, Added
<1> HIDE DEF u
<1>6. Stocked(u) /\ Slotted(u) /\ Filed(u)
  BY <1>1, <1>2, <1>3 DEF Stocked, Slotted, Filed, Slots
<1>7. Stays(t, u)
  BY <1>2, <1>3 DEF Stays
<1> QED
  BY <1>2, <1>3, <1>5, <1>6, <1>7 DEF GoodTiers, u

LEMMA DemotedGood ==
  ASSUME NEW t \in GoodTiers, NEW h \in Hashes
  PROVE  /\ Demoted(t, h, h) \in GoodTiers /\ Stays(t, Demoted(t, h, h))
         /\ Size[h] <= StoreCap => h \in Keys(Demoted(t, h, h).l2)
<1> DEFINE f == Fitted(t, Size[h])
           r == Removed(f, h)
           p == Pinned(r, h, h)
           a == Added(p, h, h)
<1>1. Size[h] \in Nat /\ StoreCap \in Nat
  BY Limits
<1>2. /\ f \in GoodTiers /\ Stays(t, f) /\ f.used \in Nat
      /\ Size[h] <= StoreCap => f.used + Size[h] <= StoreCap
  BY <1>1, FittedGood, TierFacts
<1>3. CASE Size[h] > StoreCap
  BY <1>1, <1>2, <1>3 DEF Demoted
<1>4. CASE ~(Size[h] > StoreCap)
  <2>1. Demoted(t, h, h) = a
    BY <1>4 DEF Demoted, Stored
  <2> HIDE DEF f
  <2>2. /\ r \in GoodTiers /\ Keys(r.l2) = Keys(f.l2) \ {h} /\ r.disk = f.disk
        /\ r.cap = f.cap /\ r.used <= f.used /\ r.used \in Nat
    BY <1>2, RemovedGood, TierFacts
  <2> HIDE DEF r
  <2>3. /\ p \in GoodTiers /\ p.l2 = r.l2 /\ p.used = r.used /\ p.disk = r.disk /\ p.cap = r.cap
    BY <2>2, PinnedGood
  <2> HIDE DEF p
  <2>4. p.used + Size[h] <= StoreCap /\ h \notin Keys(p.l2)
    BY <1>1, <1>2, <1>4, <2>2, <2>3
  <2>5. /\ a \in GoodTiers /\ Keys(a.l2) = Keys(p.l2) \cup {h} /\ a.disk = p.disk /\ a.cap = p.cap
    BY <2>3, <2>4, AddedGood
  <2> HIDE DEF a
  <2>6. Stays(f, a)
    BY <2>2, <2>3, <2>5 DEF Stays
  <2> QED
    BY <1>2, <2>1, <2>5, <2>6, StaysOrder
<1> QED
  BY <1>3, <1>4

LEMMA DataOfIs ==
  ASSUME NEW s, Shelf(s), NEW h \in Keys(s)
  PROVE  DataOf(s, h) = h
<1>1. \A e \in {s[i] : i \in DOMAIN s} : e \in Entries
  BY ShelfFacts
<1>2. \E e \in {s[i] : i \in DOMAIN s} : e.key = h
  BY DEF Keys
<1>3. \A e \in Entries : e.data = e.key
  BY EntryFacts
<1> QED
  BY <1>1, <1>2, <1>3 DEF DataOf

(* A file that is read moves to the end of the order.                        *)
LEMMA ReadGood ==
  ASSUME NEW t \in GoodTiers, NEW h \in Keys(t.disk)
  PROVE  LET u == [t EXCEPT !.disk = DiskRead(@, h)]
         IN  /\ u \in GoodTiers /\ Stays(t, u) /\ u.l2 = t.l2
<1> DEFINE w == Without(t.disk, h)
           d == Append(w, Entry(h))
           u == [t EXCEPT !.disk = DiskRead(@, h)]
<1>1. Shelf(t.disk) /\ t \in TierSet /\ Stocked(t) /\ Slotted(t) /\ Filed(t) /\ h \in Hashes
  BY TierFacts, ShelfFacts
<1>2. DiskRead(t.disk, h) = d
  BY <1>1, DataOfIs DEF DiskRead, Entry
<1>3. Shelf(w) /\ Keys(w) = Keys(t.disk) \ {h} /\ Bytes(w) = Bytes(t.disk) - Size[h]
  BY <1>1, ShelfWithout
<1> HIDE DEF w
<1>4. Shelf(d) /\ Keys(d) = Keys(w) \cup {h} /\ Bytes(d) = Bytes(w) + Size[h]
  BY <1>1, <1>3, ShelfAppend
<1> HIDE DEF d
<1>5. Keys(d) = Keys(t.disk)
  BY <1>3, <1>4
<1>6. Len(d) = Len(t.disk) /\ d \in Seq(Entries)
  BY <1>1, <1>4, <1>5, ShelfCounts DEF Shelf
<1>7. Bytes(d) = Bytes(t.disk)
  <2>1. Size[h] \in Nat /\ Bytes(t.disk) \in Nat
    BY <1>1, Limits, BytesNat DEF Shelf
  <2> QED
    BY <1>3, <1>4, <2>1
<1>8. /\ u \in TierSet /\ u.disk = d /\ u.l2 = t.l2 /\ u.used = t.used /\ u.l1 = t.l1
      /\ u.slot = t.slot /\ u.cap = t.cap
  BY <1>1, <1>2, <1>6 DEF TierSet
<1> HIDE DEF u
<1>9. Stocked(u) /\ Slotted(u) /\ Filed(u)
  BY <1>1, <1>4, <1>6, <1>7, <1>8 DEF Stocked, Slotted, Filed, Slots
<1>10. Stays(t, u)
  BY <1>5, <1>8 DEF Stays
<1> QED
  BY <1>8, <1>9, <1>10 DEF GoodTiers, u

LEMMA FetchedGood ==
  ASSUME NEW t \in GoodTiers, NEW h \in Hashes
  PROVE  /\ Fetched(t, h).tiers \in GoodTiers /\ Stays(t, Fetched(t, h).tiers)
         /\ Fetched(t, h).data \in {h, NoData}
<1>1. CASE h \in DOMAIN t.l1
  BY <1>1, TierFacts, StaysOrder DEF Fetched
<1>2. CASE h \notin DOMAIN t.l1 /\ h \in Keys(t.l2)
  <2>1. DataOf(t.l2, h) = h
    BY <1>2, TierFacts, DataOfIs
  <2> QED
    BY <1>2, <2>1, StaysOrder DEF Fetched
<1>3. CASE h \notin DOMAIN t.l1 /\ h \notin Keys(t.l2) /\ (~DiskOn \/ h \notin Keys(t.disk))
  BY <1>3, StaysOrder DEF Fetched
<1>4. CASE h \notin DOMAIN t.l1 /\ h \notin Keys(t.l2) /\ DiskOn /\ h \in Keys(t.disk)
  <2> DEFINE u == [t EXCEPT !.disk = DiskRead(@, h)]
             f == Fitted(u, Size[h])
  <2>1. DataOf(t.disk, h) = h
    BY <1>4, TierFacts, DataOfIs
  <2>2. Fetched(t, h) = [tiers |-> MovedUp(f, h, h), data |-> h]
    BY <1>4, <2>1 DEF Fetched
  <2>3. u \in GoodTiers /\ Stays(t, u) /\ u.l2 = t.l2
    BY <1>4, ReadGood
  <2>4. Size[h] \in Nat
    BY Limits
  <2> HIDE DEF u
  <2>5. /\ f \in GoodTiers /\ Stays(u, f) /\ Keys(f.l2) \subseteq Keys(u.l2)
        /\ Size[h] <= StoreCap => f.used + Size[h] <= StoreCap
    BY <2>3, <2>4, FittedGood
  <2> HIDE DEF f
  <2>6. MovedUp(f, h, h) \in GoodTiers /\ Stays(f, MovedUp(f, h, h))
    <3>1. CASE Size[h] <= StoreCap
      BY <1>4, <2>3, <2>5, <3>1, AddedGood DEF MovedUp
    <3>2. CASE ~(Size[h] <= StoreCap)
      BY <2>5, <3>2, StaysOrder DEF MovedUp
    <3> QED
      BY <3>1, <3>2
  <2>7. Stays(t, MovedUp(f, h, h))
    BY <2>3, <2>5, <2>6, StaysOrder
  <2> QED
    BY <2>2, <2>6, <2>7
<1> QED
  BY <1>1, <1>2, <1>3, <1>4

-----------------------------------------------------------------------------
(* The pool and the memory *)

PoolSet == [queue : Seq(Blocks), ref : [Blocks -> Nat], hash : [Blocks -> Hashes \cup {NoHash}],
            map : [Hashes -> Seq(Blocks)], bytes : [Blocks -> Hashes \cup {NoData}]]

(* The queue has the blocks without a reference, and the map those with a    *)
(* hash, which hold what was computed under it.                              *)
Queued(p) == /\ IsInjective(p.queue)
             /\ \A b \in Blocks : b \in ToSet(p.queue) <=> p.ref[b] = 0
Mapped(p) == \A b \in Blocks, h \in Hashes : /\ b \in ToSet(p.map[h]) <=> p.hash[b] = h
                                             /\ p.hash[b] = h => p.bytes[b] = h

Mems == {m \in [p : PoolSet, t : GoodTiers] : Mapped(m.p)}
GoodMems == {m \in Mems : Queued(m.p)}

(* What is on the GPU, in a tier, or was too large for the store.            *)
Present(m, h) == \/ m.p.map[h] # <<>>
                 \/ h \in Keys(m.t.l2) \cup Keys(m.t.disk)
                 \/ Size[h] > StoreCap
Keeps(m, u) == /\ u.t.cap = m.t.cap
               /\ DiskOn /\ m.t.cap = 0 => \A h \in Hashes : Present(m, h) => Present(u, h)

LEMMA KeepsOrder ==
  /\ \A m : Keeps(m, m)
  /\ \A m, u, v : Keeps(m, u) /\ Keeps(u, v) => Keeps(m, v)
BY DEF Keeps

LEMMA MemFacts ==
  ASSUME NEW m \in Mems
  PROVE  /\ m = [p |-> m.p, t |-> m.t] /\ m.p \in PoolSet /\ m.t \in GoodTiers /\ Mapped(m.p)
         /\ m.p.queue \in Seq(Blocks) /\ m.p.ref \in [Blocks -> Nat]
         /\ m.p.hash \in [Blocks -> Hashes \cup {NoHash}] /\ m.p.map \in [Hashes -> Seq(Blocks)]
         /\ m.p.bytes \in [Blocks -> Hashes \cup {NoData}]
BY DEF Mems, PoolSet

(* More tiers keep what a map that lost nothing else answers for.            *)
LEMMA KeepsIf ==
  ASSUME NEW m, NEW u, Stays(m.t, u.t),
         \A h \in Hashes : m.p.map[h] # <<>> => Present(u, h)
  PROVE  Keeps(m, u)
BY DEF Keeps, Present, Stays

(* An eviction demotes the block and takes its hash, and nothing else.       *)
LEMMA EvictedGood ==
  ASSUME NEW m \in Mems, NEW b \in Blocks
  PROVE  LET u == EvictCached(m, b)
         IN  /\ u \in Mems /\ Keeps(m, u)
             /\ u.p.queue = m.p.queue /\ u.p.ref = m.p.ref /\ u.p.bytes = m.p.bytes
             /\ \A c \in Blocks : u.p.hash[c] = IF c = b THEN NoHash ELSE m.p.hash[c]
<1> DEFINE h == m.p.hash[b]
           q == [Pop(m.p, b) EXCEPT !.hash[b] = NoHash]
           u == EvictCached(m, b)
<1>1. /\ m.p \in PoolSet /\ m.t \in GoodTiers /\ Mapped(m.p)
      /\ m.p.queue \in Seq(Blocks) /\ m.p.ref \in [Blocks -> Nat]
      /\ m.p.hash \in [Blocks -> Hashes \cup {NoHash}] /\ m.p.map \in [Hashes -> Seq(Blocks)]
      /\ m.p.bytes \in [Blocks -> Hashes \cup {NoData}]
  BY MemFacts
<1>2. CASE h = NoHash
  <2>1. u = m
    BY <1>2 DEF EvictCached
  <2> QED
    BY <1>2, <2>1, KeepsOrder
<1>3. CASE h # NoHash
  <2>1. h \in Hashes /\ b \in ToSet(m.p.map[h]) /\ m.p.bytes[b] = h
    BY <1>1, <1>3 DEF Mapped
  <2>2. u = [p |-> q, t |-> Demoted(m.t, h, h)]
    BY <1>3, <2>1 DEF EvictCached
  <2> HIDE DEF h, u
  <2>3. /\ Demoted(m.t, h, h) \in GoodTiers /\ Stays(m.t, Demoted(m.t, h, h))
        /\ Size[h] <= StoreCap => h \in Keys(Demoted(m.t, h, h).l2)
    BY <1>1, <2>1, DemotedGood
  <2> DEFINE d == Demoted(m.t, h, h)
             k == Kept(m.p.map[h], Blocks \ {b})
  <2>4. k \in Seq(Blocks) /\ ToSet(k) = ToSet(m.p.map[h]) \cap (Blocks \ {b})
    BY <1>1, <2>1, KeptIs
  <2> HIDE DEF d, k
  <2>5. /\ q.queue = m.p.queue /\ q.ref = m.p.ref /\ q.bytes = m.p.bytes
        /\ q.hash = [m.p.hash EXCEPT ![b] = NoHash]
        /\ q.map = [m.p.map EXCEPT ![h] = k]
    BY <1>1 DEF Pop, PoolSet, h, k
  <2>6. q \in PoolSet
    <3> DEFINE w == Pop(m.p, b)
    <3>1. [m.p.map EXCEPT ![h] = k] \in [Hashes -> Seq(Blocks)]
      BY <1>1, <2>4
    <3>2. w = [m.p EXCEPT !.map = [m.p.map EXCEPT ![h] = k]]
      BY DEF Pop, h, k
    <3>3. w \in PoolSet /\ w.hash = m.p.hash
      BY <1>1, <3>1, <3>2 DEF PoolSet
    <3>4. [w.hash EXCEPT ![b] = NoHash] \in [Blocks -> Hashes \cup {NoHash}]
      BY <1>1, <3>3
    <3>5. q = [w EXCEPT !.hash = [w.hash EXCEPT ![b] = NoHash]]
      OBVIOUS
    <3> HIDE DEF w, q
    <3> QED
      BY <3>3, <3>4, <3>5 DEF PoolSet
  <2> HIDE DEF q
  <2>7. \A c \in Blocks : q.hash[c] = IF c = b THEN NoHash ELSE m.p.hash[c]
    BY <1>1, <2>5
  <2>8. \A g \in Hashes : q.map[g] = IF g = h THEN k ELSE m.p.map[g]
    BY <1>1, <2>5
  <2>9. Mapped(q)
    <3> SUFFICES ASSUME NEW c \in Blocks, NEW g \in Hashes
                 PROVE  /\ c \in ToSet(q.map[g]) <=> q.hash[c] = g
                        /\ q.hash[c] = g => q.bytes[c] = g
      BY DEF Mapped
    <3>1. /\ c \in ToSet(m.p.map[g]) <=> m.p.hash[c] = g
          /\ m.p.hash[c] = g => m.p.bytes[c] = g
      BY <1>1 DEF Mapped
    <3>2. NoHash # g
      OBVIOUS
    <3>3. CASE c = b
      BY <2>4, <2>5, <2>7, <2>8, <3>1, <3>2, <3>3 DEF h
    <3>4. CASE c # b
      BY <2>4, <2>5, <2>7, <2>8, <3>1, <3>2, <3>4 DEF h
    <3> QED
      BY <3>3, <3>4
  <2>10. u \in Mems /\ u.p = q /\ u.t = d
    BY <2>2, <2>3, <2>6, <2>9 DEF Mems, d
  <2>11. \A g \in Hashes : m.p.map[g] # <<>> => Present(u, g)
    <3> TAKE g \in Hashes
    <3>1. CASE g = h
      <4>1. Size[h] \in Nat /\ StoreCap \in Nat
        BY <2>1, Limits
      <4> QED
        BY <2>3, <2>10, <3>1, <4>1 DEF Present, d
    <3>2. CASE g # h
      BY <2>8, <2>10, <3>2 DEF Present
    <3> QED
      BY <3>1, <3>2
  <2>12. Keeps(m, u)
    BY <2>3, <2>10, <2>11, KeepsIf DEF d
  <2> QED
    BY <2>5, <2>7, <2>10, <2>12 DEF u
<1> QED
  BY <1>2, <1>3

EvictsSoFar(h, m, s) ==
  /\ h \in [0 .. Len(s) -> Mems]
  /\ h[0] = m
  /\ \A k \in 1 .. Len(s) : h[k] = EvictCached(h[k - 1], s[k])
  /\ h[Len(s)] = FoldLeft(EvictCached, m, s)

LEMMA EvictsChain ==
  ASSUME NEW m \in Mems, NEW s \in Seq(Blocks)
  PROVE  \E h : EvictsSoFar(h, m, s)
<1> DEFINE n == Len(s)
           A == Mems
           f == [x \in (1 .. n) \X A |-> EvictCached(x[2], s[x[1]])]
           Def(g, u) == IF u = {} THEN m ELSE EvictCached(g[u \ {Max(u)}], s[Max(u)])
           iter == CHOOSE g : g = [u \in SUBSET (1 .. n) |-> Def(g, u)]
<1>1. n \in Nat /\ DOMAIN s = 1 .. n /\ (\A i \in 1 .. n : s[i] \in Blocks) /\ m \in A
  BY SeqFacts
<1>2. \A i \in 1 .. n, a \in A : EvictCached(a, s[i]) \in A
  BY <1>1, EvictedGood
<1>3. f \in [(1 .. n) \X A -> A] /\ \A k \in 1 .. n, a \in A : f[<<k, a>>] = EvictCached(a, s[k])
  BY <1>2
<1>4. FoldLeft(EvictCached, m, s) = iter[1 .. n]
  BY <1>1 DEF FoldLeft, MapThenFoldSet
<1> HIDE DEF f, n, A
<1>5. PICK g : FoldsUp(g, A, m, n, f)
  BY <1>1, <1>3, FoldUpExists
<1>6. \A u \in SUBSET (1 .. n) : g[u] = Def(g, u)
  <2>1. \A u \in SUBSET (1 .. n) : u # {} => Max(u) \in 1 .. n /\ g[u \ {Max(u)}] \in A
    BY <1>5 DEF FoldsUp
  <2> QED
    BY <1>3, <1>5, <2>1 DEF FoldsUp
<1>7. g = [u \in SUBSET (1 .. n) |-> Def(g, u)]
  <2>1. g = [u \in SUBSET (1 .. n) |-> g[u]]
    BY <1>5 DEF FoldsUp
  <2> HIDE DEF Def
  <2> QED
    BY <1>6, <2>1
<1>8. iter = [u \in SUBSET (1 .. n) |-> Def(iter, u)]
  <2> HIDE DEF Def
  <2> QED
    BY <1>7
<1>9. \A u \in SUBSET (1 .. n) : iter[u] = Def(iter, u)
  <2> HIDE DEF iter, Def
  <2> QED
    BY <1>8
<1> HIDE DEF iter
<1>10. FollowsUp(iter, A, m, n, f)
  <2>1. \A u \in SUBSET (1 .. n) : u # {} => Max(u) \in 1 .. n
    BY <1>1, MaxIsIn
  <2> QED
    BY <1>3, <1>9, <2>1 DEF FollowsUp
<1>11. PICK h : ChainOf(h, A, m, n, f) /\ h[n] = iter[1 .. n]
  <2>1. ChainTo(A, m, n, f, iter[1 .. n])
    BY <1>1, <1>3, <1>10, FoldUpIsChain
  <2> QED
    BY <2>1 DEF ChainTo
<1>12. EvictsSoFar(h, m, s)
  <2>1. \A k \in 1 .. n : k - 1 \in 0 .. n
    BY <1>1
  <2>2. \A k \in 1 .. n : h[k - 1] \in A
    BY <1>11, <2>1 DEF ChainOf
  <2>3. \A k \in 1 .. n : h[k] = EvictCached(h[k - 1], s[k])
    BY <1>3, <1>11, <2>2 DEF ChainOf
  <2> QED
    BY <1>4, <1>11, <2>3 DEF ChainOf, EvictsSoFar, n, A
<1> QED
  BY <1>12

LEMMA EvictsAll ==
  ASSUME NEW m \in Mems, NEW s \in Seq(Blocks)
  PROVE  LET u == FoldLeft(EvictCached, m, s)
         IN  /\ u \in Mems /\ Keeps(m, u)
             /\ u.p.queue = m.p.queue /\ u.p.ref = m.p.ref /\ u.p.bytes = m.p.bytes
             /\ \A c \in Blocks : u.p.hash[c] = IF c \in ToSet(s) THEN NoHash ELSE m.p.hash[c]
<1>1. PICK h : EvictsSoFar(h, m, s)
  BY EvictsChain
<1> DEFINE Good(k) ==
             /\ Keeps(m, h[k])
             /\ h[k].p.queue = m.p.queue /\ h[k].p.ref = m.p.ref /\ h[k].p.bytes = m.p.bytes
             /\ \A c \in Blocks : h[k].p.hash[c] = IF \E i \in 1 .. k : s[i] = c
                                                   THEN NoHash ELSE m.p.hash[c]
           T == {k \in 0 .. Len(s) : Good(k)}
<1>2. Len(s) \in Nat /\ (\A i \in 1 .. Len(s) : s[i] \in Blocks) /\ ToSet(s) = {s[i] : i \in 1 .. Len(s)}
  BY SeqFacts
<1>3. 0 \in T
  <2>1. h[0] = m /\ 0 \in 0 .. Len(s)
    BY <1>1, <1>2 DEF EvictsSoFar
  <2> QED
    BY <2>1, KeepsOrder
<1>4. ASSUME NEW k \in 1 .. Len(s), k - 1 \in T PROVE k \in T
  <2> DEFINE a == h[k - 1]
             b == h[k]
  <2>1. k - 1 \in 0 .. Len(s) /\ k \in 0 .. Len(s) /\ Good(k - 1) /\ s[k] \in Blocks
    BY <1>2, <1>4
  <2>2. a \in Mems /\ b = EvictCached(a, s[k])
    BY <1>1, <2>1 DEF EvictsSoFar
  <2> HIDE DEF a, b
  <2>3. /\ Keeps(a, b)
        /\ b.p.queue = a.p.queue /\ b.p.ref = a.p.ref /\ b.p.bytes = a.p.bytes
        /\ \A c \in Blocks : b.p.hash[c] = IF c = s[k] THEN NoHash ELSE a.p.hash[c]
    BY <2>1, <2>2, EvictedGood, ZenonT(30)
  <2>4. /\ Keeps(m, a)
        /\ a.p.queue = m.p.queue /\ a.p.ref = m.p.ref /\ a.p.bytes = m.p.bytes
        /\ \A c \in Blocks : a.p.hash[c] = IF \E i \in 1 .. k - 1 : s[i] = c
                                           THEN NoHash ELSE m.p.hash[c]
    BY <2>1 DEF a
  <2>5. Keeps(m, b)
    BY <2>3, <2>4, KeepsOrder
  <2>6. ASSUME NEW c \in Blocks
        PROVE  b.p.hash[c] = IF \E i \in 1 .. k : s[i] = c THEN NoHash ELSE m.p.hash[c]
    <3>1. (\E i \in 1 .. k : s[i] = c) <=> (\E i \in 1 .. k - 1 : s[i] = c) \/ s[k] = c
      <4>1. \A i \in 1 .. k : i \in 1 .. k - 1 \/ i = k
        BY <1>2
      <4>2. k \in 1 .. k /\ \A i \in 1 .. k - 1 : i \in 1 .. k
        BY <1>2
      <4> QED
        BY <4>1, <4>2
    <3> QED
      BY <2>3, <2>4, <3>1
  <2>7. Good(k)
    BY <2>3, <2>4, <2>5, <2>6 DEF b
  <2> QED
    BY <2>1, <2>7
<1> HIDE DEF T
<1>5. 0 .. Len(s) \subseteq T
  BY <1>2, <1>3, <1>4, UpToInduction
<1>6. Good(Len(s)) /\ h[Len(s)] \in Mems /\ h[Len(s)] = FoldLeft(EvictCached, m, s)
  BY <1>1, <1>2, <1>5 DEF T, EvictsSoFar
<1>7. \A c : c \in ToSet(s) <=> \E i \in 1 .. Len(s) : s[i] = c
  BY <1>2
<1> QED
  BY <1>6, <1>7

(* The blocks an allocation takes are the coldest of the free ones; they are *)
(* evicted, and have one reference then.                                     *)
LEMMA ColdestFacts ==
  ASSUME NEW m \in GoodMems, NEW n \in 0 .. Free(m)
  PROVE  LET c == Coldest(m, n)
         IN  /\ c \in Seq(Blocks) /\ Len(c) = n /\ n \in Nat /\ IsInjective(c)
             /\ \A i \in 1 .. n : c[i] \in Blocks /\ m.p.ref[c[i]] = 0 /\ c[i] \in ToSet(c)
             /\ \A b \in ToSet(c) : b \in Blocks /\ m.p.ref[b] = 0
             /\ ToSet(c) = {c[i] : i \in 1 .. n}
             /\ ToSet(c) \cup ToSet(Rest(m.p.queue, n)) = ToSet(m.p.queue)
             /\ ToSet(c) \cap ToSet(Rest(m.p.queue, n)) = {}
             /\ Rest(m.p.queue, n) \in Seq(Blocks) /\ IsInjective(Rest(m.p.queue, n))
<1> DEFINE c == Coldest(m, n)
<1>1. m \in Mems /\ Queued(m.p) /\ m.p.queue \in Seq(Blocks)
  BY MemFacts DEF GoodMems
<1>2. n \in 0 .. Len(m.p.queue) /\ c = SubSeq(m.p.queue, 1, n) /\ Len(m.p.queue) \in Nat
  BY <1>1, LenProperties DEF Free, Coldest
<1> HIDE DEF c
<1>3. c \in Seq(Blocks) /\ Len(c) = n /\ Rest(m.p.queue, n) \in Seq(Blocks)
  BY <1>1, <1>2, CutFacts
<1>4. /\ IsInjective(c) /\ IsInjective(Rest(m.p.queue, n))
      /\ ToSet(c) \cup ToSet(Rest(m.p.queue, n)) = ToSet(m.p.queue)
      /\ ToSet(c) \cap ToSet(Rest(m.p.queue, n)) = {}
  BY <1>1, <1>2, CutSets DEF Queued
<1>5. (\A i \in 1 .. n : c[i] \in Blocks) /\ ToSet(c) = {c[i] : i \in 1 .. n}
  <2>1. /\ DOMAIN c = 1 .. Len(c) /\ \A i \in 1 .. Len(c) : c[i] \in Blocks
        /\ ToSet(c) = {c[i] : i \in 1 .. Len(c)}
    BY <1>3, SeqFacts
  <2> QED
    BY <1>3, <2>1
<1>6. \A b \in ToSet(c) : b \in Blocks /\ m.p.ref[b] = 0
  BY <1>1, <1>4, <1>5 DEF Queued
<1> QED
  BY <1>2, <1>3, <1>4, <1>5, <1>6 DEF c

LEMMA GetNewGood ==
  ASSUME NEW m \in GoodMems, NEW n \in 0 .. Free(m)
  PROVE  LET u == GetNew(m, n)
             c == ToSet(Coldest(m, n))
         IN  /\ u \in GoodMems /\ Keeps(m, u) /\ u.p.bytes = m.p.bytes
             /\ \A b \in Blocks : /\ u.p.ref[b] = IF b \in c THEN 1 ELSE m.p.ref[b]
                                  /\ u.p.hash[b] = IF b \in c THEN NoHash ELSE m.p.hash[b]
<1> DEFINE s == Coldest(m, n)
           c == ToSet(s)
           d == [m EXCEPT !.p.queue = Rest(@, n)]
           e == FoldLeft(EvictCached, d, s)
           ref == [b \in Blocks |-> IF b \in c THEN e.p.ref[b] + 1 ELSE e.p.ref[b]]
           u == GetNew(m, n)
<1>1. m \in Mems /\ Queued(m.p)
  BY DEF GoodMems
<1>2. u = [e EXCEPT !.p.ref = ref]
  BY DEF GetNew
<1> HIDE DEF u
<1>3. /\ s \in Seq(Blocks) /\ Rest(m.p.queue, n) \in Seq(Blocks)
      /\ \A b \in c : b \in Blocks /\ m.p.ref[b] = 0
      /\ c \cup ToSet(Rest(m.p.queue, n)) = ToSet(m.p.queue)
      /\ c \cap ToSet(Rest(m.p.queue, n)) = {}
      /\ IsInjective(Rest(m.p.queue, n))
  BY ColdestFacts
<1> HIDE DEF s
<1>4. /\ d \in Mems /\ d.t = m.t /\ d.p.queue = Rest(m.p.queue, n) /\ d.p.ref = m.p.ref
      /\ d.p.hash = m.p.hash /\ d.p.bytes = m.p.bytes /\ d.p.map = m.p.map
  <2> DEFINE p == [m.p EXCEPT !.queue = Rest(m.p.queue, n)]
  <2>1. d = [m EXCEPT !.p = p]
    OBVIOUS
  <2>2. /\ p \in PoolSet /\ p.queue = Rest(m.p.queue, n) /\ p.ref = m.p.ref
        /\ p.hash = m.p.hash /\ p.bytes = m.p.bytes /\ p.map = m.p.map
    BY <1>1, <1>3, MemFacts DEF PoolSet
  <2>3. m \in [p : PoolSet, t : GoodTiers] /\ Mapped(m.p)
    BY <1>1 DEF Mems
  <2> HIDE DEF d, p
  <2>4. d \in [p : PoolSet, t : GoodTiers] /\ d.t = m.t /\ d.p = p
    BY <2>1, <2>2, <2>3
  <2>5. Mapped(p)
    BY <2>2, <2>3 DEF Mapped
  <2> QED
    BY <2>2, <2>4, <2>5 DEF Mems
<1>5. Keeps(m, d)
  BY <1>1, <1>4, StaysOrder, KeepsIf, ZenonT(30) DEF Present
<1> HIDE DEF d
<1>6. /\ e \in Mems /\ Keeps(d, e)
      /\ e.p.queue = d.p.queue /\ e.p.ref = d.p.ref /\ e.p.bytes = d.p.bytes
      /\ \A b \in Blocks : e.p.hash[b] = IF b \in c THEN NoHash ELSE d.p.hash[b]
  BY <1>3, <1>4, EvictsAll
<1> HIDE DEF e
<1>7. /\ ref \in [Blocks -> Nat]
      /\ \A b \in Blocks : ref[b] = IF b \in c THEN 1 ELSE m.p.ref[b]
  <2>1. m.p.ref \in [Blocks -> Nat] /\ e.p.ref = m.p.ref
    BY <1>1, <1>4, <1>6, MemFacts
  <2> QED
    BY <1>3, <2>1
<1> HIDE DEF ref
<1>8. /\ u \in Mems /\ u.t = e.t /\ u.p.queue = e.p.queue /\ u.p.ref = ref
      /\ u.p.hash = e.p.hash /\ u.p.bytes = e.p.bytes /\ u.p.map = e.p.map
  <2> DEFINE p == [e.p EXCEPT !.ref = ref]
  <2>1. u = [e EXCEPT !.p = p]
    BY <1>2
  <2>2. e \in [p : PoolSet, t : GoodTiers] /\ Mapped(e.p) /\ e.p \in PoolSet
    BY <1>6 DEF Mems
  <2>3. /\ p \in PoolSet /\ p.queue = e.p.queue /\ p.ref = ref
        /\ p.hash = e.p.hash /\ p.bytes = e.p.bytes /\ p.map = e.p.map
    BY <1>7, <2>2 DEF PoolSet
  <2> HIDE DEF p
  <2>4. u \in [p : PoolSet, t : GoodTiers] /\ u.t = e.t /\ u.p = p
    BY <2>1, <2>2, <2>3
  <2>5. Mapped(p)
    BY <2>2, <2>3 DEF Mapped
  <2> QED
    BY <2>3, <2>4, <2>5 DEF Mems
<1>9. Keeps(e, u)
  BY <1>8, StaysOrder, KeepsIf DEF Present
<1>10. Keeps(m, u)
  <2>1. Keeps(m, e)
    BY <1>5, <1>6, KeepsOrder
  <2> QED
    BY <1>9, <2>1, KeepsOrder
<1>11. Queued(u.p)
  <2>1. u.p.queue = Rest(m.p.queue, n)
    BY <1>4, <1>6, <1>8
  <2>2. \A b \in Blocks : b \in ToSet(m.p.queue) <=> m.p.ref[b] = 0
    BY <1>1 DEF Queued
  <2>3. \A b \in Blocks : b \in ToSet(u.p.queue) <=> u.p.ref[b] = 0
    <3> TAKE b \in Blocks
    <3>1. b \in ToSet(u.p.queue) <=> b \in ToSet(m.p.queue) /\ b \notin c
      BY <1>3, <2>1
    <3>2. u.p.ref[b] = IF b \in c THEN 1 ELSE m.p.ref[b]
      BY <1>7, <1>8
    <3> QED
      BY <2>2, <3>1, <3>2
  <2> QED
    BY <1>3, <2>1, <2>3 DEF Queued
<1> QED
  BY <1>4, <1>6, <1>7, <1>8, <1>10, <1>11 DEF GoodMems, u, s

(* A block without a hash is filled and answers for one.                     *)
Answers(p, b, h) == Insert([p EXCEPT !.bytes[b] = h], b, h)

LEMMA InsertGood ==
  ASSUME NEW p \in PoolSet, Mapped(p), NEW b \in Blocks, p.hash[b] = NoHash, NEW h \in Hashes
  PROVE  LET q == Answers(p, b, h)
         IN  /\ q \in PoolSet /\ Mapped(q) /\ q.queue = p.queue /\ q.ref = p.ref
             /\ \A c \in Blocks : /\ q.hash[c] = IF c = b THEN h ELSE p.hash[c]
                                  /\ q.bytes[c] = IF c = b THEN h ELSE p.bytes[c]
             /\ \A g \in Hashes : p.map[g] # <<>> \/ g = h => q.map[g] # <<>>
<1> DEFINE a == [p EXCEPT !.bytes[b] = h]
           w == [a EXCEPT !.hash[b] = h]
           k == IF b \in ToSet(p.map[h]) THEN p.map[h] ELSE Append(p.map[h], b)
           q == Insert(a, b, h)
<1>1. /\ p.queue \in Seq(Blocks) /\ p.ref \in [Blocks -> Nat]
      /\ p.hash \in [Blocks -> Hashes \cup {NoHash}] /\ p.map \in [Hashes -> Seq(Blocks)]
      /\ p.bytes \in [Blocks -> Hashes \cup {NoData}]
  BY DEF PoolSet
<1>2. b \notin ToSet(p.map[h])
  <2>1. NoHash # h
    OBVIOUS
  <2> QED
    BY <2>1 DEF Mapped
<1>3. p.map[h] \in Seq(Blocks)
  BY <1>1
<1>4. k \in Seq(Blocks) /\ ToSet(k) = ToSet(p.map[h]) \cup {b} /\ k # <<>>
  <2> DEFINE z == Append(p.map[h], b)
  <2>1. k = z
    BY <1>2
  <2>2. /\ z \in Seq(Blocks) /\ z # <<>> /\ Len(z) = Len(p.map[h]) + 1
        /\ \A i \in 1 .. Len(p.map[h]) : z[i] = p.map[h][i]
        /\ z[Len(p.map[h]) + 1] = b
    <3> DEFINE x == p.map[h]
    <3>1. x \in Seq(Blocks)
      BY <1>3
    <3> HIDE DEF x
    <3>2. /\ Append(x, b) \in Seq(Blocks) /\ Append(x, b) # <<>> /\ Len(Append(x, b)) = Len(x) + 1
          /\ \A i \in 1 .. Len(x) : Append(x, b)[i] = x[i]
          /\ Append(x, b)[Len(x) + 1] = b
      BY <3>1, AppendProperties
    <3> QED
      BY <3>2 DEF x
  <2> HIDE DEF z
  <2>3. ToSet(z) = {z[i] : i \in 1 .. Len(p.map[h]) + 1}
    BY <2>2, SeqFacts
  <2>4. ToSet(p.map[h]) = {p.map[h][i] : i \in 1 .. Len(p.map[h])} /\ Len(p.map[h]) \in Nat
    BY <1>3, SeqFacts
  <2>5. \A i \in 1 .. Len(p.map[h]) + 1 : i \in 1 .. Len(p.map[h]) \/ i = Len(p.map[h]) + 1
    BY <2>4
  <2>6. (\A i \in 1 .. Len(p.map[h]) : i \in 1 .. Len(p.map[h]) + 1)
        /\ Len(p.map[h]) + 1 \in 1 .. Len(p.map[h]) + 1
    BY <2>4
  <2>7. ToSet(z) \subseteq ToSet(p.map[h]) \cup {b}
    BY <2>2, <2>3, <2>4, <2>5
  <2>8. ToSet(p.map[h]) \cup {b} \subseteq ToSet(z)
    BY <2>2, <2>3, <2>4, <2>6
  <2> QED
    BY <2>1, <2>2, <2>7, <2>8
<1>5. /\ a \in PoolSet /\ a.queue = p.queue /\ a.ref = p.ref /\ a.hash = p.hash /\ a.map = p.map
      /\ a.bytes = [p.bytes EXCEPT ![b] = h]
  <2>1. [p.bytes EXCEPT ![b] = h] \in [Blocks -> Hashes \cup {NoData}]
    BY <1>1
  <2>2. a = [p EXCEPT !.bytes = [p.bytes EXCEPT ![b] = h]]
    OBVIOUS
  <2> HIDE DEF a
  <2> QED
    BY <2>1, <2>2 DEF PoolSet
<1>6. q = [w EXCEPT !.map = [w.map EXCEPT ![h] = IF b \in ToSet(w.map[h]) THEN w.map[h]
                                                 ELSE Append(w.map[h], b)]]
  BY DEF Insert
<1> HIDE DEF a
<1>7. /\ w \in PoolSet /\ w.queue = p.queue /\ w.ref = p.ref /\ w.map = p.map
      /\ w.bytes = [p.bytes EXCEPT ![b] = h] /\ w.hash = [p.hash EXCEPT ![b] = h]
  <2>1. [p.hash EXCEPT ![b] = h] \in [Blocks -> Hashes \cup {NoHash}]
    BY <1>1
  <2>2. w = [a EXCEPT !.hash = [a.hash EXCEPT ![b] = h]]
    OBVIOUS
  <2> HIDE DEF w
  <2> QED
    BY <1>5, <2>1, <2>2 DEF PoolSet
<1> HIDE DEF w, q
<1>8. q = [w EXCEPT !.map = [p.map EXCEPT ![h] = k]]
  BY <1>6, <1>7
<1>9. [p.map EXCEPT ![h] = k] \in [Hashes -> Seq(Blocks)]
  BY <1>1, <1>4
<1> HIDE DEF k
<1>10. /\ q \in PoolSet /\ q.queue = p.queue /\ q.ref = p.ref
       /\ q.bytes = [p.bytes EXCEPT ![b] = h] /\ q.hash = [p.hash EXCEPT ![b] = h]
       /\ q.map = [p.map EXCEPT ![h] = k]
  BY <1>7, <1>8, <1>9 DEF PoolSet
<1>11. \A c \in Blocks : /\ q.hash[c] = IF c = b THEN h ELSE p.hash[c]
                         /\ q.bytes[c] = IF c = b THEN h ELSE p.bytes[c]
  BY <1>1, <1>10
<1>12. \A g \in Hashes : q.map[g] = IF g = h THEN k ELSE p.map[g]
  BY <1>1, <1>10
<1>13. Mapped(q)
  <2> SUFFICES ASSUME NEW c \in Blocks, NEW g \in Hashes
               PROVE  /\ c \in ToSet(q.map[g]) <=> q.hash[c] = g
                      /\ q.hash[c] = g => q.bytes[c] = g
    BY DEF Mapped
  <2>1. /\ c \in ToSet(p.map[g]) <=> p.hash[c] = g
        /\ p.hash[c] = g => p.bytes[c] = g
    BY DEF Mapped
  <2>2. NoHash # g
    OBVIOUS
  <2>3. CASE c = b
    BY <1>4, <1>11, <1>12, <2>1, <2>2, <2>3
  <2>4. CASE c # b
    BY <1>4, <1>11, <1>12, <2>1, <2>4
  <2> QED
    BY <2>3, <2>4
<1>14. \A g \in Hashes : p.map[g] # <<>> \/ g = h => q.map[g] # <<>>
  BY <1>4, <1>12
<1> QED
  BY <1>10, <1>11, <1>13, <1>14 DEF q, a, Answers

-----------------------------------------------------------------------------
(* The lookup *)

(* From m to u some free blocks were taken, each with one reference, and     *)
(* filled; the others are as they were.                                      *)
Loans(m, u) ==
  /\ Keeps(m, u)
  /\ \A b \in Blocks :
       /\ m.p.ref[b] <= u.p.ref[b]
       /\ m.p.ref[b] > 0 => u.p.ref[b] = m.p.ref[b]
       /\ u.p.ref[b] = m.p.ref[b] => u.p.hash[b] = m.p.hash[b] /\ u.p.bytes[b] = m.p.bytes[b]
       /\ m.p.hash[b] # NoHash => u.p.hash[b] # NoHash

LEMMA GoodMemFacts ==
  ASSUME NEW m \in GoodMems
  PROVE  /\ m \in Mems /\ m.p \in PoolSet /\ m.t \in GoodTiers /\ Mapped(m.p) /\ Queued(m.p)
         /\ m.p.queue \in Seq(Blocks) /\ m.p.map \in [Hashes -> Seq(Blocks)]
         /\ \A b \in Blocks : m.p.ref[b] \in Nat
BY MemFacts DEF GoodMems

LEMMA LoansOrder ==
  /\ \A m \in GoodMems : Loans(m, m)
  /\ \A m, u, v \in GoodMems : Loans(m, u) /\ Loans(u, v) => Loans(m, v)
<1>1. ASSUME NEW m \in GoodMems PROVE Loans(m, m)
  BY KeepsOrder, GoodMemFacts DEF Loans
<1>2. ASSUME NEW m \in GoodMems, NEW u \in GoodMems, NEW v \in GoodMems, Loans(m, u), Loans(u, v)
      PROVE  Loans(m, v)
  <2>1. Keeps(m, v)
    BY <1>2, KeepsOrder DEF Loans
  <2>2. ASSUME NEW b \in Blocks
        PROVE  /\ m.p.ref[b] <= v.p.ref[b]
               /\ m.p.ref[b] > 0 => v.p.ref[b] = m.p.ref[b]
               /\ v.p.ref[b] = m.p.ref[b] => v.p.hash[b] = m.p.hash[b] /\ v.p.bytes[b] = m.p.bytes[b]
               /\ m.p.hash[b] # NoHash => v.p.hash[b] # NoHash
    <3>1. m.p.ref[b] \in Nat /\ u.p.ref[b] \in Nat /\ v.p.ref[b] \in Nat
      BY GoodMemFacts
    <3>2. /\ m.p.ref[b] <= u.p.ref[b]
          /\ m.p.ref[b] > 0 => u.p.ref[b] = m.p.ref[b]
          /\ u.p.ref[b] = m.p.ref[b] => u.p.hash[b] = m.p.hash[b] /\ u.p.bytes[b] = m.p.bytes[b]
          /\ m.p.hash[b] # NoHash => u.p.hash[b] # NoHash
      BY <1>2 DEF Loans
    <3>3. /\ u.p.ref[b] <= v.p.ref[b]
          /\ u.p.ref[b] > 0 => v.p.ref[b] = u.p.ref[b]
          /\ v.p.ref[b] = u.p.ref[b] => v.p.hash[b] = u.p.hash[b] /\ v.p.bytes[b] = u.p.bytes[b]
          /\ u.p.hash[b] # NoHash => v.p.hash[b] # NoHash
      BY <1>2 DEF Loans
    <3> QED
      BY <3>1, <3>2, <3>3
  <2> QED
    BY <2>1, <2>2 DEF Loans
<1> QED
  BY <1>1, <1>2

LEMMA RetieredGood ==
  ASSUME NEW m \in GoodMems, NEW t \in GoodTiers
  PROVE  LET u == [m EXCEPT !.t = t]
         IN  u \in GoodMems /\ u.p = m.p /\ u.t = t
BY DEF GoodMems, Mems

LEMMA ColdestOne ==
  ASSUME NEW m \in GoodMems, Free(m) # 0
  PROVE  LET c == Coldest(m, 1)
         IN  /\ 1 \in 0 .. Free(m) /\ c \in Seq(Blocks) /\ Len(c) = 1 /\ Head(c) = c[1]
             /\ c[1] \in Blocks /\ m.p.ref[c[1]] = 0 /\ ToSet(c) = {c[1]}
<1> DEFINE n == 1
           c == Coldest(m, n)
<1>1. Free(m) \in Nat
  BY GoodMemFacts, LenProperties DEF Free
<1>2. n \in 0 .. Free(m)
  BY <1>1
<1>3. 1 \in 1 .. n /\ \A i \in 1 .. n : i = 1
  OBVIOUS
<1>4. n = 1
  OBVIOUS
<1> HIDE DEF n
<1>5. /\ c \in Seq(Blocks) /\ Len(c) = n
      /\ \A i \in 1 .. n : c[i] \in Blocks /\ m.p.ref[c[i]] = 0
      /\ ToSet(c) = {c[i] : i \in 1 .. n}
  BY <1>2, ColdestFacts
<1> HIDE DEF c
<1>6. c[1] \in Blocks /\ m.p.ref[c[1]] = 0 /\ ToSet(c) = {c[1]}
  BY <1>3, <1>5
<1>7. Len(c) = 1 /\ Head(c) = c[1]
  BY <1>4, <1>5
<1> QED
  BY <1>2, <1>4, <1>5, <1>6, <1>7 DEF c

(* A promotion takes the coldest block for what was found in the tiers.      *)
LEMMA RestoredGood ==
  ASSUME NEW m \in GoodMems, NEW h \in Hashes, NEW data \in {h, NoData}
  PROVE  LET r == Restored(m, h, data)
         IN  /\ r.m \in GoodMems /\ Loans(m, r.m)
             /\ \/ r.block = NoBlock
                \/ r.block \in Blocks /\ r.m.p.hash[r.block] = h /\ Present(r.m, h)
<1>1. CASE data = NoData \/ Free(m) = 0
  BY <1>1, LoansOrder DEF Restored
<1>2. CASE ~(data = NoData \/ Free(m) = 0)
  <2> DEFINE c == Coldest(m, 1)
             b == Head(c)
             g == GetNew(m, 1)
             q == Answers(g.p, b, h)
             f == Filled(g, b, h, h)
             u == [f EXCEPT !.t = Removed(@, h)]
  <2>1. data = h
    BY <1>2
  <2>2. Restored(m, h, data) = [m |-> u, block |-> b]
    BY <1>2, <2>1 DEF Restored
  <2>3. 1 \in 0 .. Free(m)
    BY <1>2, ColdestOne
  <2>4. c[1] \in Blocks /\ m.p.ref[c[1]] = 0 /\ ToSet(c) = {c[1]}
    BY <1>2, ColdestOne
  <2>5. b = c[1]
    BY <1>2, ColdestOne
  <2>6. /\ g \in GoodMems /\ Keeps(m, g) /\ g.p.bytes = m.p.bytes
        /\ \A d \in Blocks : /\ g.p.ref[d] = IF d = b THEN 1 ELSE m.p.ref[d]
                             /\ g.p.hash[d] = IF d = b THEN NoHash ELSE m.p.hash[d]
    <3>1. /\ g \in GoodMems /\ Keeps(m, g) /\ g.p.bytes = m.p.bytes
          /\ \A d \in Blocks : /\ g.p.ref[d] = IF d \in ToSet(c) THEN 1 ELSE m.p.ref[d]
                               /\ g.p.hash[d] = IF d \in ToSet(c) THEN NoHash ELSE m.p.hash[d]
      BY <2>3, GetNewGood
    <3> HIDE DEF b, c, g
    <3> QED
      BY <2>4, <2>5, <3>1
  <2>7. b \in Blocks /\ m.p.ref[b] = 0
    BY <2>4, <2>5
  <2>8. f = [g EXCEPT !.p = q]
    BY DEF Filled, Answers
  <2> HIDE DEF b, c, g, f
  <2>9. /\ q \in PoolSet /\ Mapped(q) /\ q.queue = g.p.queue /\ q.ref = g.p.ref
        /\ \A d \in Blocks : /\ q.hash[d] = IF d = b THEN h ELSE g.p.hash[d]
                             /\ q.bytes[d] = IF d = b THEN h ELSE g.p.bytes[d]
        /\ \A x \in Hashes : g.p.map[x] # <<>> \/ x = h => q.map[x] # <<>>
    <3>1. g.p \in PoolSet /\ Mapped(g.p) /\ g.p.hash[b] = NoHash
      BY <2>6, <2>7, GoodMemFacts
    <3> HIDE DEF u
    <3> QED
      BY <2>7, <3>1, InsertGood
  <2> HIDE DEF q
  <2>10. f \in GoodMems /\ f.p = q /\ f.t = g.t
    <3>1. g \in [p : PoolSet, t : GoodTiers] /\ Queued(g.p)
      BY <2>6 DEF GoodMems, Mems
    <3>2. f \in [p : PoolSet, t : GoodTiers] /\ f.p = q /\ f.t = g.t
      BY <2>8, <2>9, <3>1
    <3>3. Queued(q)
      BY <2>9, <3>1 DEF Queued
    <3> QED
      BY <2>9, <3>2, <3>3 DEF GoodMems, Mems
  <2>11. /\ Removed(g.t, h) \in GoodTiers /\ Removed(g.t, h).cap = g.t.cap
         /\ Keys(Removed(g.t, h).l2) = Keys(g.t.l2) \ {h} /\ Removed(g.t, h).disk = g.t.disk
    BY <2>6, GoodMemFacts, RemovedGood
  <2>12. u = [f EXCEPT !.t = Removed(g.t, h)]
    BY <2>10
  <2> HIDE DEF u
  <2>13. u \in GoodMems /\ u.p = q /\ u.t = Removed(g.t, h)
    BY <2>10, <2>11, <2>12, RetieredGood
  <2>14. Keeps(g, u)
    <3>1. \A x \in Hashes : Present(g, x) => Present(u, x)
      BY <2>9, <2>11, <2>13 DEF Present
    <3> QED
      BY <2>11, <2>13, <3>1 DEF Keeps
  <2>15. Keeps(m, u)
    BY <2>6, <2>14, KeepsOrder
  <2>16. ASSUME NEW d \in Blocks
         PROVE  /\ m.p.ref[d] <= u.p.ref[d]
                /\ m.p.ref[d] > 0 => u.p.ref[d] = m.p.ref[d]
                /\ u.p.ref[d] = m.p.ref[d] => u.p.hash[d] = m.p.hash[d] /\ u.p.bytes[d] = m.p.bytes[d]
                /\ m.p.hash[d] # NoHash => u.p.hash[d] # NoHash
    <3>1. m.p.ref[d] \in Nat /\ h # NoHash
      BY GoodMemFacts
    <3>2. CASE d = b
      BY <2>6, <2>7, <2>9, <2>13, <3>1, <3>2
    <3>3. CASE d # b
      BY <2>6, <2>9, <2>13, <3>1, <3>3
    <3> QED
      BY <3>2, <3>3
  <2>17. u.p.hash[b] = h /\ Present(u, h)
    BY <2>7, <2>9, <2>13 DEF Present
  <2> QED
    BY <2>2, <2>7, <2>13, <2>15, <2>16, <2>17 DEF Loans
<1> QED
  BY <1>1, <1>2

LEMMA LookedGood ==
  ASSUME NEW m \in GoodMems, NEW h \in Hashes
  PROVE  LET l == Looked(m, h)
         IN  /\ l.m \in GoodMems /\ Loans(m, l.m)
             /\ \/ l.block = NoBlock
                \/ l.block \in Blocks /\ l.m.p.hash[l.block] = h /\ Present(l.m, h)
<1>1. CASE m.p.map[h] # <<>>
  <2> DEFINE s == m.p.map[h]
  <2>1. s \in Seq(Blocks) /\ s # <<>> /\ Mapped(m.p)
    BY <1>1, GoodMemFacts
  <2>2. Looked(m, h) = [m |-> m, block |-> Head(s)]
    BY <1>1 DEF Looked
  <2> HIDE DEF s
  <2>3. Len(s) \in Nat \ {0} /\ Head(s) = s[1]
    BY <2>1, EmptySeq
  <2>4. s[1] \in Blocks /\ s[1] \in ToSet(s)
    BY <2>1, <2>3, SeqFacts
  <2>5. m.p.hash[s[1]] = h
    BY <2>1, <2>4 DEF Mapped, s
  <2>6. Present(m, h)
    BY <1>1 DEF Present
  <2> QED
    BY <2>2, <2>3, <2>4, <2>5, <2>6, LoansOrder
<1>2. CASE m.p.map[h] = <<>>
  <2> DEFINE f == Fetched(m.t, h)
             a == [m EXCEPT !.t = f.tiers]
             r == Restored(a, h, f.data)
  <2>1. Looked(m, h) = r
    BY <1>2 DEF Looked, Promoted
  <2>2. f.tiers \in GoodTiers /\ Stays(m.t, f.tiers) /\ f.data \in {h, NoData}
    BY GoodMemFacts, FetchedGood
  <2> HIDE DEF f
  <2>3. a \in GoodMems /\ a.p = m.p /\ a.t = f.tiers
    BY <2>2, RetieredGood
  <2> HIDE DEF a
  <2>4. /\ r.m \in GoodMems /\ Loans(a, r.m)
        /\ \/ r.block = NoBlock
           \/ r.block \in Blocks /\ r.m.p.hash[r.block] = h /\ Present(r.m, h)
    BY <2>2, <2>3, RestoredGood
  <2> HIDE DEF r
  <2>5. Keeps(m, a)
    BY <2>2, <2>3, KeepsIf DEF Present
  <2>6. Loans(m, a)
    BY <2>3, <2>5, GoodMemFacts DEF Loans
  <2> QED
    BY <2>1, <2>3, <2>4, <2>6, LoansOrder
<1> QED
  BY <1>1, <1>2

Accs == [m : GoodMems, hits : Seq(Blocks), over : BOOLEAN]
Fresh(m) == [m |-> m, hits |-> <<>>, over |-> FALSE]
Look(acc, h) == IF acc.over THEN acc ELSE Hit(acc, Looked(acc.m, h))

LEMMA LookGood ==
  ASSUME NEW acc \in Accs, NEW h \in Hashes
  PROVE  LET a == Look(acc, h)
         IN  /\ a \in Accs /\ Loans(acc.m, a.m)
             /\ \/ a.over /\ a.hits = acc.hits
                \/ /\ ~acc.over /\ ~a.over
                   /\ \E b \in Blocks : /\ a.hits = Append(acc.hits, b)
                                        /\ a.m.p.hash[b] = h /\ Present(a.m, h)
<1> DEFINE a == Look(acc, h)
           l == Looked(acc.m, h)
<1>1. acc.m \in GoodMems /\ acc.hits \in Seq(Blocks) /\ acc.over \in BOOLEAN
  BY DEF Accs
<1>2. CASE acc.over
  BY <1>1, <1>2, LoansOrder DEF Look
<1>3. CASE ~acc.over
  <2>1. a = Hit(acc, l)
    BY <1>3 DEF Look
  <2>2. /\ l.m \in GoodMems /\ Loans(acc.m, l.m)
        /\ \/ l.block = NoBlock
           \/ l.block \in Blocks /\ l.m.p.hash[l.block] = h /\ Present(l.m, h)
    BY <1>1, LookedGood
  <2> HIDE DEF l, a
  <2>3. CASE l.block = NoBlock
    <3>1. a = [acc EXCEPT !.m = l.m, !.over = TRUE]
      BY <2>1, <2>3 DEF Hit
    <3>2. a \in Accs /\ a.m = l.m /\ a.over /\ a.hits = acc.hits
      BY <1>1, <2>2, <3>1 DEF Accs
    <3> QED
      BY <2>2, <3>2 DEF a
  <2>4. CASE l.block # NoBlock
    <3>1. a = [acc EXCEPT !.m = l.m, !.hits = Append(acc.hits, l.block)]
      BY <2>1, <2>4 DEF Hit
    <3>2. l.block \in Blocks
      BY <2>2, <2>4
    <3>3. Append(acc.hits, l.block) \in Seq(Blocks)
      BY <1>1, <3>2, AppendProperties
    <3>4. a \in Accs /\ a.m = l.m /\ a.over = acc.over /\ a.hits = Append(acc.hits, l.block)
      BY <1>1, <2>2, <3>1, <3>3 DEF Accs
    <3> QED
      BY <1>3, <2>2, <2>4, <3>2, <3>4 DEF a
  <2> QED
    BY <2>3, <2>4
<1> QED
  BY <1>1, <1>2, <1>3

LooksSoFar(h, m, s) ==
  /\ h \in [0 .. Len(s) -> Accs]
  /\ h[0] = Fresh(m)
  /\ \A k \in 1 .. Len(s) : h[k] = Look(h[k - 1], s[k])
  /\ h[Len(s)] = LongestHit(m, s)

LEMMA LooksChain ==
  ASSUME NEW m \in GoodMems, NEW s \in Seq(Hashes)
  PROVE  \E h : LooksSoFar(h, m, s)
<1> DEFINE n == Len(s)
           A == Accs
           f == [x \in (1 .. n) \X A |-> Look(x[2], s[x[1]])]
           Def(g, u) == IF u = {} THEN Fresh(m) ELSE Look(g[u \ {Max(u)}], s[Max(u)])
           iter == CHOOSE g : g = [u \in SUBSET (1 .. n) |-> Def(g, u)]
<1>1. n \in Nat /\ DOMAIN s = 1 .. n /\ (\A i \in 1 .. n : s[i] \in Hashes) /\ Fresh(m) \in A
  BY SeqFacts, EmptySeq DEF Fresh, Accs
<1>2. \A i \in 1 .. n, a \in A : Look(a, s[i]) \in A
  BY <1>1, LookGood
<1>3. f \in [(1 .. n) \X A -> A] /\ \A k \in 1 .. n, a \in A : f[<<k, a>>] = Look(a, s[k])
  BY <1>2
<1>4. LongestHit(m, s) = iter[1 .. n]
  BY <1>1 DEF FoldLeft, MapThenFoldSet, LongestHit, Look, Fresh
<1> HIDE DEF f, n, A
<1>5. PICK g : FoldsUp(g, A, Fresh(m), n, f)
  BY <1>1, <1>3, FoldUpExists
<1>6. \A u \in SUBSET (1 .. n) : g[u] = Def(g, u)
  <2>1. \A u \in SUBSET (1 .. n) : u # {} => Max(u) \in 1 .. n /\ g[u \ {Max(u)}] \in A
    BY <1>5 DEF FoldsUp
  <2> QED
    BY <1>3, <1>5, <2>1 DEF FoldsUp
<1>7. g = [u \in SUBSET (1 .. n) |-> Def(g, u)]
  <2>1. g = [u \in SUBSET (1 .. n) |-> g[u]]
    BY <1>5 DEF FoldsUp
  <2> HIDE DEF Def
  <2> QED
    BY <1>6, <2>1
<1>8. iter = [u \in SUBSET (1 .. n) |-> Def(iter, u)]
  <2> HIDE DEF Def
  <2> QED
    BY <1>7
<1>9. \A u \in SUBSET (1 .. n) : iter[u] = Def(iter, u)
  <2> HIDE DEF iter, Def
  <2> QED
    BY <1>8
<1> HIDE DEF iter
<1>10. FollowsUp(iter, A, Fresh(m), n, f)
  <2>1. \A u \in SUBSET (1 .. n) : u # {} => Max(u) \in 1 .. n
    BY <1>1, MaxIsIn
  <2> QED
    BY <1>3, <1>9, <2>1 DEF FollowsUp
<1>11. PICK h : ChainOf(h, A, Fresh(m), n, f) /\ h[n] = iter[1 .. n]
  <2>1. ChainTo(A, Fresh(m), n, f, iter[1 .. n])
    BY <1>1, <1>3, <1>10, FoldUpIsChain
  <2> QED
    BY <2>1 DEF ChainTo
<1>12. LooksSoFar(h, m, s)
  <2>1. \A k \in 1 .. n : k - 1 \in 0 .. n
    BY <1>1
  <2>2. \A k \in 1 .. n : h[k - 1] \in A
    BY <1>11, <2>1 DEF ChainOf
  <2>3. \A k \in 1 .. n : h[k] = Look(h[k - 1], s[k])
    BY <1>3, <1>11, <2>2 DEF ChainOf
  <2> QED
    BY <1>4, <1>11, <2>3 DEF ChainOf, LooksSoFar, n, A
<1> QED
  BY <1>12

(* What a lookup of s in m found, l: the blocks hit have a hash, and each    *)
(* that has not the hash it was hit for was taken for another since.         *)
HitsAre(m, s, l) ==
  /\ l.m \in GoodMems /\ Loans(m, l.m)
  /\ l.hits \in Seq(Blocks) /\ Len(l.hits) \in 0 .. Len(s)
  /\ \A i \in 1 .. Len(l.hits) :
       /\ l.m.p.hash[l.hits[i]] # NoHash
       /\ l.m.p.hash[l.hits[i]] = s[i] \/ l.m.p.ref[l.hits[i]] > m.p.ref[l.hits[i]]
       /\ DiskOn /\ m.t.cap = 0 => Present(l.m, s[i])

LEMMA HitsGood ==
  ASSUME NEW m \in GoodMems, NEW s \in Seq(Hashes)
  PROVE  HitsAre(m, s, LongestHit(m, s))
<1>1. PICK h : LooksSoFar(h, m, s)
  BY LooksChain
<1> DEFINE Good(k) == /\ Len(h[k].hits) <= k
                      /\ ~h[k].over => Len(h[k].hits) = k
                      /\ Loans(m, h[k].m)
                      /\ \A i \in 1 .. Len(h[k].hits) :
                           /\ h[k].m.p.hash[h[k].hits[i]] # NoHash
                           /\ \/ h[k].m.p.hash[h[k].hits[i]] = s[i]
                              \/ h[k].m.p.ref[h[k].hits[i]] > m.p.ref[h[k].hits[i]]
                           /\ DiskOn /\ m.t.cap = 0 => Present(h[k].m, s[i])
           T == {k \in 0 .. Len(s) : Good(k)}
<1>2. Len(s) \in Nat /\ (\A i \in 1 .. Len(s) : s[i] \in Hashes) /\ NoHash \notin Hashes
  BY SeqFacts
<1>3. \A k \in 0 .. Len(s) : h[k] \in Accs /\ h[k].m \in GoodMems /\ h[k].hits \in Seq(Blocks)
                             /\ Len(h[k].hits) \in Nat
  <2> TAKE k \in 0 .. Len(s)
  <2>1. h[k] \in Accs
    BY <1>1 DEF LooksSoFar
  <2>2. h[k].hits \in Seq(Blocks)
    BY <2>1 DEF Accs
  <2> QED
    BY <2>1, <2>2, LenProperties DEF Accs
<1>4. 0 \in T
  <2>1. h[0] = Fresh(m) /\ 0 \in 0 .. Len(s)
    BY <1>1, <1>2 DEF LooksSoFar
  <2>2. h[0].hits = <<>> /\ h[0].m = m /\ h[0].over = FALSE
    BY <2>1 DEF Fresh
  <2>3. Len(h[0].hits) = 0
    BY <2>2, EmptySeq
  <2> QED
    BY <2>1, <2>2, <2>3, LoansOrder
<1>5. ASSUME NEW k \in 1 .. Len(s), k - 1 \in T PROVE k \in T
  <2> DEFINE a == h[k - 1]
             b == h[k]
  <2>1. k - 1 \in 0 .. Len(s) /\ k \in 0 .. Len(s) /\ Good(k - 1) /\ s[k] \in Hashes /\ k \in Nat
    <3>1. s[k] \in Hashes /\ k \in Nat /\ k \in 0 .. Len(s)
      BY <1>2
    <3>2. k - 1 \in 0 .. Len(s) /\ Good(k - 1)
      BY <1>2, <1>5
    <3> HIDE DEF Good
    <3> QED
      BY <3>1, <3>2
  <2>2. a \in Accs /\ b = Look(a, s[k]) /\ b \in Accs
    BY <1>1, <2>1 DEF LooksSoFar
  <2>3. a.m \in GoodMems /\ a.hits \in Seq(Blocks) /\ Len(a.hits) \in Nat /\ b.m \in GoodMems
        /\ \A i \in 1 .. Len(a.hits) : a.hits[i] \in Blocks
    BY <1>3, <2>1, SeqFacts
  <2>4. /\ Len(a.hits) <= k - 1 /\ Loans(m, a.m)
        /\ ~a.over => Len(a.hits) = k - 1
        /\ \A i \in 1 .. Len(a.hits) :
             /\ a.m.p.hash[a.hits[i]] # NoHash
             /\ a.m.p.hash[a.hits[i]] = s[i] \/ a.m.p.ref[a.hits[i]] > m.p.ref[a.hits[i]]
             /\ DiskOn /\ m.t.cap = 0 => Present(a.m, s[i])
    BY <2>1
  <2> HIDE DEF a, b
  <2>5. /\ Loans(a.m, b.m)
        /\ \/ b.over /\ b.hits = a.hits
           \/ /\ ~a.over /\ ~b.over
              /\ \E x \in Blocks : /\ b.hits = Append(a.hits, x)
                                   /\ b.m.p.hash[x] = s[k] /\ Present(b.m, s[k])
    <3> DEFINE e == s[k]
    <3>1. e \in Hashes /\ b = Look(a, e)
      BY <2>1, <2>2
    <3> HIDE DEF e, Good, T
    <3>2. /\ Loans(a.m, Look(a, e).m)
          /\ \/ Look(a, e).over /\ Look(a, e).hits = a.hits
             \/ /\ ~a.over /\ ~Look(a, e).over
                /\ \E x \in Blocks : /\ Look(a, e).hits = Append(a.hits, x)
                                     /\ Look(a, e).m.p.hash[x] = e /\ Present(Look(a, e).m, e)
      BY <2>2, <3>1, LookGood
    <3> QED
      BY <3>1, <3>2 DEF e
  <2>6. Loans(m, b.m)
    BY <2>3, <2>4, <2>5, LoansOrder
  <2>7. \A i \in 1 .. Len(a.hits) :
             /\ b.m.p.hash[a.hits[i]] # NoHash
             /\ b.m.p.hash[a.hits[i]] = s[i] \/ b.m.p.ref[a.hits[i]] > m.p.ref[a.hits[i]]
             /\ DiskOn /\ m.t.cap = 0 => Present(b.m, s[i])
    <3> TAKE i \in 1 .. Len(a.hits)
    <3> DEFINE x == a.hits[i]
    <3>1. x \in Blocks /\ m.p.ref[x] \in Nat /\ a.m.p.ref[x] \in Nat /\ b.m.p.ref[x] \in Nat
      BY <2>3, GoodMemFacts
    <3>2. /\ a.m.p.hash[x] # NoHash
          /\ a.m.p.hash[x] = s[i] \/ a.m.p.ref[x] > m.p.ref[x]
          /\ DiskOn /\ m.t.cap = 0 => Present(a.m, s[i])
      BY <2>4
    <3> HIDE DEF x
    <3>3. /\ m.p.ref[x] <= a.m.p.ref[x] /\ a.m.p.ref[x] <= b.m.p.ref[x]
          /\ b.m.p.ref[x] = a.m.p.ref[x] => b.m.p.hash[x] = a.m.p.hash[x]
          /\ a.m.p.hash[x] # NoHash => b.m.p.hash[x] # NoHash
      BY <2>4, <2>5, <3>1 DEF Loans
    <3>4. DiskOn /\ m.t.cap = 0 => Present(b.m, s[i])
      <4>1. s[i] \in Hashes
        <5>1. i \in 1 .. Len(s)
          BY <2>1, <2>3, <2>4
        <5> QED
          BY <1>2, <5>1
      <4> QED
        BY <2>4, <2>5, <3>2, <4>1 DEF Loans, Keeps
    <3>5. b.m.p.hash[x] = s[i] \/ b.m.p.ref[x] > m.p.ref[x]
      BY <3>1, <3>2, <3>3, SMTT(30)
    <3> QED
      BY <3>2, <3>3, <3>4, <3>5 DEF x
  <2>8. CASE b.over /\ b.hits = a.hits
    <3>1. Len(b.hits) <= k
      <4>1. k \in Nat /\ Len(a.hits) \in Nat /\ Len(a.hits) <= k - 1
        BY <2>1, <2>3, <2>4
      <4> QED
        BY <2>8, <4>1
    <3>2. Good(k)
      BY <2>6, <2>7, <2>8, <3>1 DEF b
    <3> QED
      BY <2>1, <3>2
  <2>9. ASSUME ~a.over, ~b.over, NEW x \in Blocks,
               b.hits = Append(a.hits, x), b.m.p.hash[x] = s[k], Present(b.m, s[k])
        PROVE  k \in T
    <3>1. /\ Len(a.hits) = k - 1 /\ Len(b.hits) = Len(a.hits) + 1
          /\ \A i \in 1 .. Len(a.hits) : b.hits[i] = a.hits[i]
          /\ b.hits[Len(a.hits) + 1] = x
      BY <2>3, <2>4, <2>9, AppendProperties
    <3>2. Len(b.hits) = k /\ b.hits[k] = x
      BY <2>1, <3>1
    <3>3. \A i \in 1 .. Len(b.hits) : i \in 1 .. Len(a.hits) \/ i = k
      BY <2>1, <3>1
    <3>4. \A i \in 1 .. Len(b.hits) :
             /\ b.m.p.hash[b.hits[i]] # NoHash
             /\ b.m.p.hash[b.hits[i]] = s[i] \/ b.m.p.ref[b.hits[i]] > m.p.ref[b.hits[i]]
             /\ DiskOn /\ m.t.cap = 0 => Present(b.m, s[i])
      <4> TAKE i \in 1 .. Len(b.hits)
      <4>1. CASE i = k
        BY <1>2, <2>1, <2>9, <3>2, <4>1
      <4>2. CASE i \in 1 .. Len(a.hits)
        BY <2>7, <3>1, <4>2
      <4> QED
        BY <3>3, <4>1, <4>2
    <3>5. Good(k)
      <4>1. Len(b.hits) <= k /\ Len(b.hits) = k
        BY <2>1, <3>2
      <4> QED
        BY <2>6, <3>4, <4>1 DEF b
    <3> QED
      BY <2>1, <3>5
  <2> QED
    BY <2>5, <2>8, <2>9
<1> HIDE DEF T
<1>6. 0 .. Len(s) \subseteq T
  BY <1>2, <1>4, <1>5, UpToInduction
<1> DEFINE n == Len(s)
           l == h[n]
<1>7. n \in 0 .. Len(s) /\ n \in T /\ l = LongestHit(m, s)
  <2>1. n \in Nat
    BY <1>2
  <2>2. n \in 0 .. Len(s)
    BY <2>1
  <2>3. l = LongestHit(m, s)
    BY <1>1 DEF LooksSoFar
  <2> QED
    BY <1>6, <2>2, <2>3
<1>8. Good(n)
  BY <1>7 DEF T
<1>9. l.m \in GoodMems /\ l.hits \in Seq(Blocks) /\ Len(l.hits) \in Nat
  BY <1>3, <1>7
<1>10. Len(l.hits) \in 0 .. Len(s)
  BY <1>2, <1>8, <1>9
<1>11. HitsAre(m, s, l)
  BY <1>8, <1>9, <1>10 DEF HitsAre
<1> QED
  BY <1>7, <1>11

-----------------------------------------------------------------------------
(* How often a block is in a list *)

Count(s, b) == Cardinality(At(s, b))

LEMMA CountFacts ==
  ASSUME NEW s \in Seq(Blocks), NEW b
  PROVE  /\ At(s, b) = {i \in 1 .. Len(s) : s[i] = b} /\ IsFiniteSet(At(s, b))
         /\ Count(s, b) \in Nat
         /\ Count(s, b) = 0 <=> b \notin ToSet(s)
<1>1. Len(s) \in Nat /\ DOMAIN s = 1 .. Len(s)
  BY SeqFacts
<1>2. At(s, b) = {i \in 1 .. Len(s) : s[i] = b}
  BY <1>1 DEF At
<1>3. IsFiniteSet(1 .. Len(s)) /\ At(s, b) \in SUBSET (1 .. Len(s))
  <2>1. IsFiniteSet(1 .. Len(s))
    BY <1>1, FS_Interval
  <2> QED
    BY <1>2, <2>1, Zenon
<1>4. IsFiniteSet(At(s, b))
  BY <1>3, FS_Subset
<1>5. Cardinality(At(s, b)) \in Nat /\ (Cardinality(At(s, b)) = 0 <=> At(s, b) = {})
  BY <1>4, FS_CardinalityType, FS_EmptySet
<1>6. At(s, b) = {} <=> b \notin ToSet(s)
  BY <1>1, <1>2 DEF ToSet
<1> QED
  BY <1>2, <1>4, <1>5, <1>6 DEF Count

LEMMA CountEmpty == \A b : Count(<<>>, b) = 0
<1>1. <<>> \in Seq(Blocks) /\ ToSet(<<>>) = {}
  BY EmptySeq DEF ToSet
<1> QED
  BY <1>1, CountFacts

(* What is in a list once, or not at all, is counted so.                     *)
LEMMA CountOnce ==
  ASSUME NEW s \in Seq(Blocks), IsInjective(s), NEW b
  PROVE  Count(s, b) = IF b \in ToSet(s) THEN 1 ELSE 0
<1>1. CASE b \notin ToSet(s)
  BY <1>1, CountFacts
<1>2. CASE b \in ToSet(s)
  <2>1. DOMAIN s = 1 .. Len(s) /\ At(s, b) = {i \in 1 .. Len(s) : s[i] = b}
    BY SeqFacts, CountFacts
  <2>2. PICK i \in 1 .. Len(s) : s[i] = b
    BY <1>2, <2>1 DEF ToSet
  <2>3. At(s, b) = {i}
    BY <2>1, <2>2 DEF IsInjective
  <2> QED
    BY <1>2, <2>3, FS_Singleton DEF Count
<1> QED
  BY <1>1, <1>2

LEMMA CountConcat ==
  ASSUME NEW s \in Seq(Blocks), NEW t \in Seq(Blocks), NEW b
  PROVE  Count(s \o t, b) = Count(s, b) + Count(t, b)
<1> DEFINE u == s \o t
           n == Len(s)
           L == {n + i : i \in At(t, b)}
           f == [i \in At(t, b) |-> n + i]
<1>1. /\ u \in Seq(Blocks) /\ Len(u) = Len(s) + Len(t)
      /\ \A i \in 1 .. Len(s) + Len(t) : u[i] = IF i <= Len(s) THEN s[i] ELSE t[i - Len(s)]
  BY ConcatProperties
<1>2. Len(s) \in Nat /\ Len(t) \in Nat
  BY SeqFacts
<1> HIDE DEF u
<1>3. /\ At(u, b) = {i \in 1 .. Len(u) : u[i] = b}
      /\ At(s, b) = {i \in 1 .. Len(s) : s[i] = b} /\ IsFiniteSet(At(s, b))
      /\ At(t, b) = {i \in 1 .. Len(t) : t[i] = b} /\ IsFiniteSet(At(t, b))
  BY <1>1, CountFacts
<1>4. At(u, b) = At(s, b) \cup L
  <2>1. ASSUME NEW i \in At(u, b) PROVE i \in At(s, b) \cup L
    <3>1. i \in 1 .. Len(s) + Len(t) /\ u[i] = b
      BY <1>1, <1>3
    <3>2. CASE i <= n
      <4>1. i \in 1 .. Len(s) /\ s[i] = b
        BY <1>1, <1>2, <3>1, <3>2
      <4> QED
        BY <1>3, <4>1
    <3>3. CASE ~(i <= n)
      <4>1. i - n \in 1 .. Len(t) /\ t[i - n] = b /\ n + (i - n) = i
        BY <1>1, <1>2, <3>1, <3>3
      <4> QED
        BY <1>3, <4>1
    <3> QED
      BY <3>2, <3>3
  <2>2. ASSUME NEW i \in At(s, b) PROVE i \in At(u, b)
    <3>1. i \in 1 .. Len(s) /\ s[i] = b
      BY <1>3
    <3>2. i \in 1 .. Len(s) + Len(t) /\ i <= Len(s)
      BY <1>2, <3>1
    <3> QED
      BY <1>1, <1>3, <3>1, <3>2
  <2>3. ASSUME NEW i \in At(t, b) PROVE n + i \in At(u, b)
    <3>1. i \in 1 .. Len(t) /\ t[i] = b
      BY <1>3
    <3>2. n + i \in 1 .. Len(s) + Len(t) /\ ~(n + i <= Len(s)) /\ (n + i) - Len(s) = i
      BY <1>2, <3>1
    <3>3. u[n + i] = t[i]
      BY <1>1, <3>2
    <3> QED
      BY <1>1, <1>3, <3>1, <3>2, <3>3
  <2> QED
    BY <2>1, <2>2, <2>3
<1>5. At(s, b) \cap L = {}
  <2>1. \A i \in 1 .. Len(s), j \in 1 .. Len(t) : i # n + j
    BY <1>2
  <2> QED
    BY <1>3, <2>1
<1>6. IsFiniteSet(L) /\ Cardinality(L) = Cardinality(At(t, b))
  <2>1. \A i, j \in 1 .. Len(t) : n + i = n + j => i = j
    BY <1>2
  <2>2. f \in Bijection(At(t, b), L)
    BY <1>3, <2>1 DEF Bijection, Injection, Surjection, IsInjective
  <2> HIDE DEF f, L
  <2>3. ExistsBijection(At(t, b), L)
    BY <2>2 DEF ExistsBijection
  <2> QED
    BY <1>3, <2>3, FS_Bijection
<1> HIDE DEF L
<1>7. Cardinality(At(s, b) \cup L) = Cardinality(At(s, b)) + Cardinality(L) - Cardinality({})
  BY <1>3, <1>5, <1>6, FS_Union
<1>8. Cardinality({}) = 0 /\ Cardinality(At(s, b)) \in Nat /\ Cardinality(At(t, b)) \in Nat
  BY <1>3, FS_EmptySet, FS_CardinalityType
<1> QED
  BY <1>4, <1>6, <1>7, <1>8 DEF Count, u

LEMMA CountReverse ==
  ASSUME NEW s \in Seq(Blocks), NEW b
  PROVE  /\ Reverse(s) \in Seq(Blocks) /\ Len(Reverse(s)) = Len(s)
         /\ \A i \in 1 .. Len(s) : Reverse(s)[i] = s[(Len(s) - i) + 1]
         /\ Count(Reverse(s), b) = Count(s, b) /\ ToSet(Reverse(s)) = ToSet(s)
<1> DEFINE r == Reverse(s)
           n == Len(s)
           f == [i \in At(s, b) |-> (n - i) + 1]
<1>1. n \in Nat /\ (\A i \in 1 .. n : s[i] \in Blocks) /\ ToSet(s) = {s[i] : i \in 1 .. n}
  BY SeqFacts
<1>2. /\ \A i \in 1 .. n : (n - i) + 1 \in 1 .. n /\ (n - ((n - i) + 1)) + 1 = i
      /\ \A i, j \in 1 .. n : (n - i) + 1 = (n - j) + 1 => i = j
  BY <1>1
<1>3. r = [i \in 1 .. n |-> s[(n - i) + 1]]
  BY DEF Reverse
<1>4. r \in Seq(Blocks) /\ Len(r) = n /\ \A i \in 1 .. n : r[i] = s[(n - i) + 1]
  BY <1>1, <1>2, <1>3
<1> HIDE DEF r
<1>5. ToSet(r) = {r[i] : i \in 1 .. n}
  BY <1>4, SeqFacts
<1>6. ToSet(r) \subseteq ToSet(s)
  BY <1>1, <1>2, <1>4, <1>5
<1>7. \A i \in 1 .. n : s[i] = r[(n - i) + 1]
  <2> TAKE i \in 1 .. n
  <2> DEFINE j == (n - i) + 1
  <2>1. j \in 1 .. n /\ (n - j) + 1 = i
    BY <1>2
  <2> HIDE DEF j
  <2>2. r[j] = s[(n - j) + 1]
    BY <1>4, <2>1
  <2> QED
    BY <2>1, <2>2 DEF j
<1>8. ToSet(s) \subseteq ToSet(r)
  <2> SUFFICES ASSUME NEW i \in 1 .. n PROVE s[i] \in ToSet(r)
    BY <1>1
  <2> DEFINE j == (n - i) + 1
  <2>1. j \in 1 .. n /\ s[i] = r[j]
    BY <1>2, <1>7
  <2> HIDE DEF j
  <2> QED
    BY <1>5, <2>1
<1>9. /\ At(r, b) = {i \in 1 .. n : r[i] = b}
      /\ At(s, b) = {i \in 1 .. n : s[i] = b} /\ IsFiniteSet(At(s, b))
  BY <1>4, CountFacts
<1>10. f \in Bijection(At(s, b), At(r, b))
  <2>1. f \in [At(s, b) -> At(r, b)]
    BY <1>2, <1>7, <1>9
  <2>2. \A i, j \in At(s, b) : f[i] = f[j] => i = j
    BY <1>2, <1>9
  <2>3. \A i \in At(r, b) : (n - i) + 1 \in At(s, b) /\ f[(n - i) + 1] = i
    BY <1>2, <1>4, <1>9
  <2> HIDE DEF f
  <2> QED
    BY <2>1, <2>2, <2>3 DEF Bijection, Injection, Surjection, IsInjective
<1> HIDE DEF f
<1>11. Cardinality(At(r, b)) = Cardinality(At(s, b))
  BY <1>9, <1>10, FS_Bijection DEF ExistsBijection
<1> QED
  BY <1>4, <1>6, <1>8, <1>11 DEF Count, r

-----------------------------------------------------------------------------
(* Blocks that are hit, filled and freed *)

Pools == {p \in PoolSet : Queued(p)}

LEMMA TouchedGood ==
  ASSUME NEW p \in Pools, NEW b \in Blocks
  PROVE  LET q == Touched(p, b)
         IN  /\ q \in Pools /\ q.hash = p.hash /\ q.map = p.map /\ q.bytes = p.bytes
             /\ \A c \in Blocks : q.ref[c] = p.ref[c] + (IF c = b THEN 1 ELSE 0)
<1> DEFINE k == IF p.ref[b] = 0 THEN Kept(p.queue, Blocks \ {b}) ELSE p.queue
           w == [p EXCEPT !.queue = k]
           q == Touched(p, b)
<1>1. p \in PoolSet /\ Queued(p) /\ p.queue \in Seq(Blocks) /\ p.ref \in [Blocks -> Nat]
  BY DEF Pools, PoolSet
<1>2. /\ k \in Seq(Blocks) /\ IsInjective(k)
      /\ \A c \in Blocks : c \in ToSet(k) <=> c \in ToSet(p.queue) /\ c # b
  <2>1. CASE p.ref[b] = 0
    <3>1. /\ Kept(p.queue, Blocks \ {b}) \in Seq(Blocks)
          /\ ToSet(Kept(p.queue, Blocks \ {b})) = ToSet(p.queue) \cap (Blocks \ {b})
          /\ IsInjective(Kept(p.queue, Blocks \ {b}))
      BY <1>1, KeptIs DEF Queued
    <3> QED
      BY <2>1, <3>1
  <2>2. CASE p.ref[b] # 0
    BY <1>1, <2>2 DEF Queued
  <2> QED
    BY <2>1, <2>2
<1> HIDE DEF k
<1>3. /\ w \in PoolSet /\ w.queue = k /\ w.ref = p.ref /\ w.hash = p.hash /\ w.map = p.map
      /\ w.bytes = p.bytes
  BY <1>1, <1>2 DEF PoolSet
<1>4. q = [w EXCEPT !.ref = [w.ref EXCEPT ![b] = w.ref[b] + 1]]
  BY DEF Touched, k
<1> HIDE DEF w, q
<1>5. [w.ref EXCEPT ![b] = w.ref[b] + 1] \in [Blocks -> Nat]
  BY <1>1, <1>3
<1>6. /\ q \in PoolSet /\ q.queue = k /\ q.hash = p.hash /\ q.map = p.map /\ q.bytes = p.bytes
      /\ q.ref = [p.ref EXCEPT ![b] = p.ref[b] + 1]
  BY <1>3, <1>4, <1>5 DEF PoolSet
<1>7. \A c \in Blocks : q.ref[c] = p.ref[c] + (IF c = b THEN 1 ELSE 0)
  BY <1>1, <1>6
<1>8. Queued(q)
  <2>1. ASSUME NEW c \in Blocks PROVE c \in ToSet(q.queue) <=> q.ref[c] = 0
    <3>1. c \in ToSet(q.queue) <=> p.ref[c] = 0 /\ c # b
      BY <1>1, <1>2, <1>6 DEF Queued
    <3>2. q.ref[c] = 0 <=> p.ref[c] = 0 /\ c # b
      BY <1>1, <1>7
    <3> QED
      BY <3>1, <3>2
  <2> QED
    BY <1>2, <1>6, <2>1 DEF Queued
<1> QED
  BY <1>6, <1>7, <1>8 DEF Pools, q

TouchesSoFar(h, p, s) ==
  /\ h \in [0 .. Len(s) -> Pools]
  /\ h[0] = p
  /\ \A k \in 1 .. Len(s) : h[k] = Touched(h[k - 1], s[k])
  /\ h[Len(s)] = FoldLeft(Touched, p, s)

LEMMA TouchesChain ==
  ASSUME NEW p \in Pools, NEW s \in Seq(Blocks)
  PROVE  \E h : TouchesSoFar(h, p, s)
<1> DEFINE n == Len(s)
           A == Pools
           f == [x \in (1 .. n) \X A |-> Touched(x[2], s[x[1]])]
           Def(g, u) == IF u = {} THEN p ELSE Touched(g[u \ {Max(u)}], s[Max(u)])
           iter == CHOOSE g : g = [u \in SUBSET (1 .. n) |-> Def(g, u)]
<1>1. n \in Nat /\ DOMAIN s = 1 .. n /\ (\A i \in 1 .. n : s[i] \in Blocks) /\ p \in A
  BY SeqFacts
<1>2. \A i \in 1 .. n, a \in A : Touched(a, s[i]) \in A
  BY <1>1, TouchedGood
<1>3. f \in [(1 .. n) \X A -> A] /\ \A k \in 1 .. n, a \in A : f[<<k, a>>] = Touched(a, s[k])
  BY <1>2
<1>4. FoldLeft(Touched, p, s) = iter[1 .. n]
  BY <1>1 DEF FoldLeft, MapThenFoldSet
<1> HIDE DEF f, n, A
<1>5. PICK g : FoldsUp(g, A, p, n, f)
  BY <1>1, <1>3, FoldUpExists
<1>6. \A u \in SUBSET (1 .. n) : g[u] = Def(g, u)
  <2>1. \A u \in SUBSET (1 .. n) : u # {} => Max(u) \in 1 .. n /\ g[u \ {Max(u)}] \in A
    BY <1>5 DEF FoldsUp
  <2> QED
    BY <1>3, <1>5, <2>1 DEF FoldsUp
<1>7. g = [u \in SUBSET (1 .. n) |-> Def(g, u)]
  <2>1. g = [u \in SUBSET (1 .. n) |-> g[u]]
    BY <1>5 DEF FoldsUp
  <2> HIDE DEF Def
  <2> QED
    BY <1>6, <2>1
<1>8. iter = [u \in SUBSET (1 .. n) |-> Def(iter, u)]
  <2> HIDE DEF Def
  <2> QED
    BY <1>7
<1>9. \A u \in SUBSET (1 .. n) : iter[u] = Def(iter, u)
  <2> HIDE DEF iter, Def
  <2> QED
    BY <1>8
<1> HIDE DEF iter
<1>10. FollowsUp(iter, A, p, n, f)
  <2>1. \A u \in SUBSET (1 .. n) : u # {} => Max(u) \in 1 .. n
    BY <1>1, MaxIsIn
  <2> QED
    BY <1>3, <1>9, <2>1 DEF FollowsUp
<1>11. PICK h : ChainOf(h, A, p, n, f) /\ h[n] = iter[1 .. n]
  <2>1. ChainTo(A, p, n, f, iter[1 .. n])
    BY <1>1, <1>3, <1>10, FoldUpIsChain
  <2> QED
    BY <2>1 DEF ChainTo
<1>12. TouchesSoFar(h, p, s)
  <2>1. \A k \in 1 .. n : k - 1 \in 0 .. n
    BY <1>1
  <2>2. \A k \in 1 .. n : h[k - 1] \in A
    BY <1>11, <2>1 DEF ChainOf
  <2>3. \A k \in 1 .. n : h[k] = Touched(h[k - 1], s[k])
    BY <1>3, <1>11, <2>2 DEF ChainOf
  <2> QED
    BY <1>4, <1>11, <2>3 DEF ChainOf, TouchesSoFar, n, A
<1> QED
  BY <1>12

LEMMA TouchesAll ==
  ASSUME NEW p \in Pools, NEW s \in Seq(Blocks)
  PROVE  LET q == FoldLeft(Touched, p, s)
         IN  /\ q \in Pools /\ q.hash = p.hash /\ q.map = p.map /\ q.bytes = p.bytes
             /\ \A c \in Blocks : q.ref[c] = p.ref[c] + Count(s, c)
<1>1. PICK h : TouchesSoFar(h, p, s)
  BY TouchesChain
<1> DEFINE C(k, c) == Cardinality({i \in 1 .. k : s[i] = c})
           Good(k) == /\ h[k].hash = p.hash /\ h[k].map = p.map /\ h[k].bytes = p.bytes
                      /\ \A c \in Blocks : h[k].ref[c] = p.ref[c] + C(k, c)
           T == {k \in 0 .. Len(s) : Good(k)}
<1>2. Len(s) \in Nat /\ (\A i \in 1 .. Len(s) : s[i] \in Blocks) /\ p.ref \in [Blocks -> Nat]
  BY SeqFacts DEF Pools, PoolSet
<1>3. 0 \in T
  <2>1. h[0] = p /\ 0 \in 0 .. Len(s)
    BY <1>1, <1>2 DEF TouchesSoFar
  <2>2. \A c : {i \in 1 .. 0 : s[i] = c} = {}
    OBVIOUS
  <2>3. \A c : C(0, c) = 0
    BY <2>2, FS_EmptySet
  <2> HIDE DEF C
  <2> QED
    BY <1>2, <2>1, <2>3
<1>4. ASSUME NEW k \in 1 .. Len(s), k - 1 \in T PROVE k \in T
  <2> DEFINE a == h[k - 1]
             b == h[k]
  <2>1. k \in 0 .. Len(s) /\ k - 1 \in 0 .. Len(s) /\ s[k] \in Blocks /\ k \in Nat
    BY <1>2
  <2>2. Good(k - 1)
    BY <1>4
  <2>3. a \in Pools /\ b = Touched(a, s[k])
    BY <1>1, <2>1 DEF TouchesSoFar
  <2>4. \A c : C(k, c) = C(k - 1, c) + (IF c = s[k] THEN 1 ELSE 0) /\ C(k - 1, c) \in Nat
    <3> TAKE c
    <3> DEFINE X == {i \in 1 .. k : s[i] = c}
               Y == {i \in 1 .. k - 1 : s[i] = c}
    <3>1. IsFiniteSet(1 .. k - 1)
      <4>1. 1 \in Int /\ k - 1 \in Int
        BY <2>1
      <4> QED
        BY <4>1, FS_Interval
    <3>2. IsFiniteSet(Y) /\ Cardinality(Y) \in Nat
      <4>1. Y \in SUBSET (1 .. k - 1)
        OBVIOUS
      <4> HIDE DEF Y
      <4> QED
        BY <3>1, <4>1, FS_Subset, FS_CardinalityType
    <3>3. /\ \A i \in 1 .. k : i \in 1 .. k - 1 \/ i = k
          /\ \A i \in 1 .. k - 1 : i \in 1 .. k /\ i # k
          /\ k \in 1 .. k /\ k \notin 1 .. k - 1
      BY <2>1
    <3>4. CASE c = s[k]
      <4>1. X = Y \cup {k} /\ k \notin Y
        BY <3>3, <3>4
      <4> HIDE DEF X, Y
      <4>2. Cardinality(X) = Cardinality(Y) + 1
        BY <3>2, <4>1, FS_AddElement
      <4> QED
        BY <3>2, <3>4, <4>2 DEF X, Y
    <3>5. CASE c # s[k]
      <4>1. X = Y
        BY <3>3, <3>5
      <4>2. C(k, c) = Cardinality(X) /\ C(k - 1, c) = Cardinality(Y)
        OBVIOUS
      <4> HIDE DEF X, Y, C
      <4> QED
        BY <3>2, <3>5, <4>1, <4>2
    <3> QED
      BY <3>4, <3>5
  <2> HIDE DEF C
  <2>5. /\ a.hash = p.hash /\ a.map = p.map /\ a.bytes = p.bytes
        /\ \A c \in Blocks : a.ref[c] = p.ref[c] + C(k - 1, c)
    BY <2>2
  <2> HIDE DEF a, b
  <2>6. /\ b.hash = a.hash /\ b.map = a.map /\ b.bytes = a.bytes
        /\ \A c \in Blocks : b.ref[c] = a.ref[c] + (IF c = s[k] THEN 1 ELSE 0)
    BY <2>1, <2>3, TouchedGood
  <2>7. \A c \in Blocks : b.ref[c] = p.ref[c] + C(k, c)
    <3> TAKE c \in Blocks
    <3>1. p.ref[c] \in Nat /\ C(k - 1, c) \in Nat /\ C(k, c) = C(k - 1, c) + (IF c = s[k] THEN 1 ELSE 0)
      BY <1>2, <2>4
    <3>2. a.ref[c] = p.ref[c] + C(k - 1, c) /\ b.ref[c] = a.ref[c] + (IF c = s[k] THEN 1 ELSE 0)
      BY <2>5, <2>6
    <3> QED
      BY <3>1, <3>2
  <2>8. Good(k)
    BY <2>5, <2>6, <2>7 DEF b
  <2> QED
    BY <2>1, <2>8
<1> HIDE DEF T
<1>5. 0 .. Len(s) \subseteq T
  BY <1>2, <1>3, <1>4, UpToInduction
<1>6. Good(Len(s)) /\ h[Len(s)] \in Pools /\ h[Len(s)] = FoldLeft(Touched, p, s)
  <2> HIDE DEF C
  <2> QED
    BY <1>1, <1>2, <1>5 DEF T, TouchesSoFar
<1>7. \A c : C(Len(s), c) = Count(s, c)
  BY CountFacts DEF Count
<1> HIDE DEF C
<1> QED
  BY <1>6, <1>7

(* The blocks that are hit leave the queue, one for each that was free.      *)
LEMMA TouchedRoom ==
  ASSUME NEW p \in Pools, NEW s \in Seq(Blocks)
  PROVE  LET q == FoldLeft(Touched, p, s)
         IN  /\ Len(p.queue) \in Nat /\ Len(q.queue) \in Nat
             /\ Cardinality({i \in DOMAIN s : p.ref[s[i]] = 0}) \in Nat
             /\ Len(p.queue) <= Len(q.queue) + Cardinality({i \in DOMAIN s : p.ref[s[i]] = 0})
<1> DEFINE q == FoldLeft(Touched, p, s)
           I == {i \in DOMAIN s : p.ref[s[i]] = 0}
           H == {s[i] : i \in I}
           f == [i \in I |-> s[i]]
<1>1. /\ q \in Pools /\ \A c \in Blocks : q.ref[c] = p.ref[c] + Count(s, c)
  BY TouchesAll
<1> HIDE DEF q
<1>2. \A x \in Pools : /\ x.queue \in Seq(Blocks) /\ IsInjective(x.queue)
                       /\ \A b \in Blocks : b \in ToSet(x.queue) <=> x.ref[b] = 0
                       /\ \A b \in Blocks : x.ref[b] \in Nat
  BY DEF Pools, PoolSet, Queued
<1>3. \A x \in Pools : /\ IsFiniteSet(ToSet(x.queue)) /\ Len(x.queue) \in Nat
                       /\ Cardinality(ToSet(x.queue)) = Len(x.queue)
                       /\ ToSet(x.queue) \subseteq Blocks
  <2> TAKE x \in Pools
  <2> DEFINE z == x.queue
  <2>1. z \in Seq(Blocks) /\ IsInjective(z)
    BY <1>2
  <2> HIDE DEF z
  <2>2. IsFiniteSet(ToSet(z)) /\ Cardinality(ToSet(z)) = Len(z) /\ Len(z) \in Nat /\ ToSet(z) \subseteq Blocks
    BY <2>1, InjectiveLen, SeqFacts
  <2> QED
    BY <2>2 DEF z
<1>4. DOMAIN s = 1 .. Len(s) /\ Len(s) \in Nat /\ (\A i \in 1 .. Len(s) : s[i] \in Blocks)
      /\ ToSet(s) = {s[i] : i \in 1 .. Len(s)}
  BY SeqFacts
<1>5. IsFiniteSet(I) /\ Cardinality(I) \in Nat
  <2>1. IsFiniteSet(1 .. Len(s)) /\ I \in SUBSET (1 .. Len(s))
    BY <1>4, FS_Interval
  <2> QED
    BY <2>1, FS_Subset, FS_CardinalityType
<1>6. IsFiniteSet(H) /\ Cardinality(H) <= Cardinality(I) /\ Cardinality(H) \in Nat
  <2>1. f \in Surjection(I, H)
    BY DEF Surjection
  <2> HIDE DEF f, H, I
  <2> QED
    BY <1>5, <2>1, FS_Surjection, FS_CardinalityType
<1>7. ToSet(p.queue) \subseteq ToSet(q.queue) \cup H
  <2> SUFFICES ASSUME NEW b \in ToSet(p.queue), b \notin H PROVE b \in ToSet(q.queue)
    OBVIOUS
  <2>1. b \in Blocks /\ p.ref[b] = 0
    BY <1>2, <1>3
  <2>2. b \notin ToSet(s)
    BY <1>4, <2>1
  <2>3. Count(s, b) = 0
    BY <2>2, CountFacts
  <2>4. q.ref[b] = 0
    BY <1>1, <2>1, <2>3
  <2> QED
    BY <1>1, <1>2, <2>1, <2>4
<1> HIDE DEF H, I, f
<1> DEFINE A == ToSet(p.queue)
           B == ToSet(q.queue)
<1>8. /\ IsFiniteSet(A) /\ IsFiniteSet(B) /\ A \subseteq B \cup H
      /\ Cardinality(A) = Len(p.queue) /\ Cardinality(B) = Len(q.queue)
      /\ Len(p.queue) \in Nat /\ Len(q.queue) \in Nat
  BY <1>1, <1>3, <1>7
<1> HIDE DEF A, B
<1>9. IsFiniteSet(B \cup H) /\ Cardinality(B \cup H) = Cardinality(B) + Cardinality(H) - Cardinality(B \cap H)
  BY <1>6, <1>8, FS_Union
<1>10. IsFiniteSet(B \cap H) /\ Cardinality(B \cap H) \in Nat
  <2>1. B \cap H \in SUBSET H
    OBVIOUS
  <2> QED
    BY <1>6, <2>1, FS_Subset, FS_CardinalityType
<1>11. Cardinality(A) <= Cardinality(B \cup H)
  BY <1>8, <1>9, FS_Subset
<1>12. Len(p.queue) <= Len(q.queue) + Cardinality(I)
  BY <1>5, <1>6, <1>8, <1>9, <1>10, <1>11
<1> QED
  BY <1>5, <1>8, <1>12 DEF I, q

LEMMA AnswersType ==
  ASSUME NEW p \in PoolSet, NEW b \in Blocks, NEW h \in Hashes
  PROVE  Answers(p, b, h) \in PoolSet
<1> DEFINE a == [p EXCEPT !.bytes = [p.bytes EXCEPT ![b] = h]]
           w == [a EXCEPT !.hash = [a.hash EXCEPT ![b] = h]]
           k == IF b \in ToSet(w.map[h]) THEN w.map[h] ELSE Append(w.map[h], b)
           q == [w EXCEPT !.map = [w.map EXCEPT ![h] = k]]
<1>1. Answers(p, b, h) = q
  BY DEF Answers, Insert
<1>2. a \in PoolSet
  <2>1. [p.bytes EXCEPT ![b] = h] \in [Blocks -> Hashes \cup {NoData}]
    BY DEF PoolSet
  <2> QED
    BY <2>1 DEF PoolSet
<1> HIDE DEF a
<1>3. w \in PoolSet
  <2>1. [a.hash EXCEPT ![b] = h] \in [Blocks -> Hashes \cup {NoHash}]
    BY <1>2 DEF PoolSet
  <2> QED
    BY <1>2, <2>1 DEF PoolSet
<1> HIDE DEF w
<1>4. q \in PoolSet
  <2>1. w.map \in [Hashes -> Seq(Blocks)]
    BY <1>3 DEF PoolSet
  <2>2. w.map[h] \in Seq(Blocks)
    BY <2>1
  <2>3. k \in Seq(Blocks)
    BY <2>2, AppendProperties
  <2> HIDE DEF k
  <2>4. [w.map EXCEPT ![h] = k] \in [Hashes -> Seq(Blocks)]
    BY <2>1, <2>3
  <2> QED
    BY <1>3, <2>4 DEF PoolSet
<1> QED
  BY <1>1, <1>4

(* The blocks bs at the places w are filled with the text s.                 *)
Fills(p, bs, s, w) == FoldLeft(LAMBDA q, i : Answers(q, bs[i], s[i]), p, w)

FillsSoFar(h, p, bs, s, w) ==
  /\ h \in [0 .. Len(w) -> PoolSet]
  /\ h[0] = p
  /\ \A k \in 1 .. Len(w) : h[k] = Answers(h[k - 1], bs[w[k]], s[w[k]])
  /\ h[Len(w)] = Fills(p, bs, s, w)

LEMMA FillsChain ==
  ASSUME NEW p \in PoolSet, NEW bs \in Seq(Blocks), NEW s \in Seq(Hashes),
         Len(s) <= Len(bs), NEW w \in Seq(1 .. Len(s))
  PROVE  \E h : FillsSoFar(h, p, bs, s, w)
<1> DEFINE n == Len(w)
           A == PoolSet
           f == [x \in (1 .. n) \X A |-> Answers(x[2], bs[w[x[1]]], s[w[x[1]]])]
           Def(g, u) == IF u = {} THEN p ELSE Answers(g[u \ {Max(u)}], bs[w[Max(u)]], s[w[Max(u)]])
           iter == CHOOSE g : g = [u \in SUBSET (1 .. n) |-> Def(g, u)]
<1>1. n \in Nat /\ DOMAIN w = 1 .. n /\ (\A i \in 1 .. n : w[i] \in (1 .. Len(s))) /\ p \in A
  BY SeqFacts
<1>2. \A i \in 1 .. n, a \in A : Answers(a, bs[w[i]], s[w[i]]) \in A
  <2> TAKE i \in 1 .. n, a \in A
  <2>1. w[i] \in 1 .. Len(s) /\ Len(s) \in Nat /\ Len(bs) \in Nat
    BY <1>1, SeqFacts
  <2>2. w[i] \in 1 .. Len(bs)
    BY <2>1
  <2>3. bs[w[i]] \in Blocks /\ s[w[i]] \in Hashes
    BY <2>1, <2>2, SeqFacts
  <2> QED
    BY <2>3, AnswersType
<1>3. f \in [(1 .. n) \X A -> A] /\ \A k \in 1 .. n, a \in A : f[<<k, a>>] = Answers(a, bs[w[k]], s[w[k]])
  BY <1>2
<1>4. Fills(p, bs, s, w) = iter[1 .. n]
  BY <1>1 DEF FoldLeft, MapThenFoldSet, Fills
<1> HIDE DEF f, n, A
<1>5. PICK g : FoldsUp(g, A, p, n, f)
  BY <1>1, <1>3, FoldUpExists
<1>6. \A u \in SUBSET (1 .. n) : g[u] = Def(g, u)
  <2>1. \A u \in SUBSET (1 .. n) : u # {} => Max(u) \in 1 .. n /\ g[u \ {Max(u)}] \in A
    BY <1>5 DEF FoldsUp
  <2> QED
    BY <1>3, <1>5, <2>1 DEF FoldsUp
<1>7. g = [u \in SUBSET (1 .. n) |-> Def(g, u)]
  <2>1. g = [u \in SUBSET (1 .. n) |-> g[u]]
    BY <1>5 DEF FoldsUp
  <2> HIDE DEF Def
  <2> QED
    BY <1>6, <2>1
<1>8. iter = [u \in SUBSET (1 .. n) |-> Def(iter, u)]
  <2> HIDE DEF Def
  <2> QED
    BY <1>7
<1>9. \A u \in SUBSET (1 .. n) : iter[u] = Def(iter, u)
  <2> HIDE DEF iter, Def
  <2> QED
    BY <1>8
<1> HIDE DEF iter
<1>10. FollowsUp(iter, A, p, n, f)
  <2>1. \A u \in SUBSET (1 .. n) : u # {} => Max(u) \in 1 .. n
    BY <1>1, MaxIsIn
  <2> QED
    BY <1>3, <1>9, <2>1 DEF FollowsUp
<1>11. PICK h : ChainOf(h, A, p, n, f) /\ h[n] = iter[1 .. n]
  <2>1. ChainTo(A, p, n, f, iter[1 .. n])
    BY <1>1, <1>3, <1>10, FoldUpIsChain
  <2> QED
    BY <2>1 DEF ChainTo
<1>12. FillsSoFar(h, p, bs, s, w)
  <2>1. \A k \in 1 .. n : k - 1 \in 0 .. n
    BY <1>1
  <2>2. \A k \in 1 .. n : h[k - 1] \in A
    BY <1>11, <2>1 DEF ChainOf
  <2>3. \A k \in 1 .. n : h[k] = Answers(h[k - 1], bs[w[k]], s[w[k]])
    BY <1>3, <1>11, <2>2 DEF ChainOf
  <2> QED
    BY <1>4, <1>11, <2>3 DEF ChainOf, FillsSoFar, n, A
<1> QED
  BY <1>12

FilledIn(p, bs, s, w, q) ==
  /\ q \in PoolSet /\ Mapped(q) /\ q.queue = p.queue /\ q.ref = p.ref
  /\ \A c \in Blocks : (\A i \in 1 .. Len(w) : bs[w[i]] # c)
                       => q.hash[c] = p.hash[c] /\ q.bytes[c] = p.bytes[c]
  /\ \A g \in Hashes : p.map[g] # <<>> => q.map[g] # <<>>
  /\ \A i \in 1 .. Len(w) : q.map[s[w[i]]] # <<>>

LEMMA FillsGood ==
  ASSUME NEW p \in PoolSet, Mapped(p), NEW bs \in Seq(Blocks), NEW s \in Seq(Hashes),
         Len(s) <= Len(bs), NEW w \in Seq(1 .. Len(s)),
         \A i \in 1 .. Len(w) : p.hash[bs[w[i]]] = NoHash,
         \A i, j \in 1 .. Len(w) : bs[w[i]] = bs[w[j]] => i = j
  PROVE  FilledIn(p, bs, s, w, Fills(p, bs, s, w))
<1>1. PICK h : FillsSoFar(h, p, bs, s, w)
  BY FillsChain
<1> DEFINE Good(k) ==
      /\ Mapped(h[k]) /\ h[k].queue = p.queue /\ h[k].ref = p.ref
      /\ \A c \in Blocks : (\A i \in 1 .. k : bs[w[i]] # c)
                           => h[k].hash[c] = p.hash[c] /\ h[k].bytes[c] = p.bytes[c]
      /\ \A g \in Hashes : p.map[g] # <<>> => h[k].map[g] # <<>>
      /\ \A i \in 1 .. k : h[k].map[s[w[i]]] # <<>>
           T == {k \in 0 .. Len(w) : Good(k)}
<1>2. /\ Len(w) \in Nat /\ Len(s) \in Nat /\ Len(bs) \in Nat
      /\ \A i \in 1 .. Len(w) : w[i] \in 1 .. Len(s)
      /\ \A i \in 1 .. Len(s) : s[i] \in Hashes
      /\ \A i \in 1 .. Len(bs) : bs[i] \in Blocks
  BY SeqFacts
<1>3. \A i \in 1 .. Len(w) : bs[w[i]] \in Blocks /\ s[w[i]] \in Hashes
  <2>1. \A i \in 1 .. Len(s) : i \in 1 .. Len(bs)
    BY <1>2
  <2> QED
    BY <1>2, <2>1
<1>4. 0 \in T
  <2>1. h[0] = p /\ 0 \in 0 .. Len(w)
    BY <1>1, <1>2 DEF FillsSoFar
  <2>2. Good(0)
    BY <2>1
  <2> QED
    BY <2>1, <2>2
<1>5. ASSUME NEW k \in 1 .. Len(w), k - 1 \in T PROVE k \in T
  <2> DEFINE a == h[k - 1]
             b == h[k]
             x == bs[w[k]]
             y == s[w[k]]
  <2>1. /\ k \in 0 .. Len(w) /\ k - 1 \in 0 .. Len(w) /\ k \in Nat /\ k \in 1 .. k
        /\ \A i \in 1 .. k : i \in 1 .. k - 1 \/ i = k
        /\ \A i \in 1 .. k - 1 : i \in 1 .. k /\ i # k /\ i \in 1 .. Len(w)
    BY <1>2
  <2>2. Good(k - 1)
    BY <1>5
  <2>3. a \in PoolSet /\ b = Answers(a, x, y) /\ x \in Blocks /\ y \in Hashes
    BY <1>1, <1>3, <2>1 DEF FillsSoFar
  <2>4. /\ Mapped(a) /\ a.queue = p.queue /\ a.ref = p.ref
        /\ \A c \in Blocks : (\A i \in 1 .. k - 1 : bs[w[i]] # c)
                             => a.hash[c] = p.hash[c] /\ a.bytes[c] = p.bytes[c]
        /\ \A g \in Hashes : p.map[g] # <<>> => a.map[g] # <<>>
        /\ \A i \in 1 .. k - 1 : a.map[s[w[i]]] # <<>>
    BY <2>2
  <2>5. a.hash[x] = NoHash
    <3>1. \A i \in 1 .. k - 1 : bs[w[i]] # x
      BY <2>1
    <3> QED
      BY <2>3, <2>4, <3>1
  <2> HIDE DEF a, b, x, y, T
  <2>6. /\ b \in PoolSet /\ Mapped(b) /\ b.queue = a.queue /\ b.ref = a.ref
        /\ \A c \in Blocks : /\ b.hash[c] = IF c = x THEN y ELSE a.hash[c]
                             /\ b.bytes[c] = IF c = x THEN y ELSE a.bytes[c]
        /\ \A g \in Hashes : a.map[g] # <<>> \/ g = y => b.map[g] # <<>>
    BY <2>3, <2>4, <2>5, InsertGood
  <2>7. ASSUME NEW c \in Blocks, \A i \in 1 .. k : bs[w[i]] # c
        PROVE  b.hash[c] = p.hash[c] /\ b.bytes[c] = p.bytes[c]
    <3>1. c # x
      BY <2>1, <2>7 DEF x
    <3>2. \A i \in 1 .. k - 1 : bs[w[i]] # c
      BY <2>1, <2>7
    <3> QED
      BY <2>4, <2>6, <3>1, <3>2
  <2>8. \A i \in 1 .. k : b.map[s[w[i]]] # <<>>
    <3> TAKE i \in 1 .. k
    <3>1. CASE i = k
      BY <2>3, <2>6, <3>1 DEF y
    <3>2. CASE i # k
      <4>1. i \in 1 .. k - 1
        BY <2>1, <3>2
      <4>2. s[w[i]] \in Hashes
        BY <1>3, <2>1, <4>1
      <4> QED
        BY <2>4, <2>6, <4>1, <4>2
    <3> QED
      BY <3>1, <3>2
  <2>9. \A g \in Hashes : p.map[g] # <<>> => b.map[g] # <<>>
    BY <2>4, <2>6
  <2>10. Good(k)
    BY <2>4, <2>6, <2>7, <2>8, <2>9 DEF b
  <2> HIDE DEF Good
  <2> QED
    BY <2>1, <2>10 DEF T
<1> HIDE DEF T
<1>6. 0 .. Len(w) \subseteq T
  BY <1>2, <1>4, <1>5, UpToInduction
<1>7. Good(Len(w)) /\ h[Len(w)] \in PoolSet /\ h[Len(w)] = Fills(p, bs, s, w)
  <2> HIDE DEF Good
  <2>1. Len(w) \in 0 .. Len(w)
    BY <1>2
  <2> QED
    BY <1>1, <1>6, <2>1 DEF T, FillsSoFar
<1> QED
  BY <1>7 DEF FilledIn

FilledFrom(p, bs, s, n, q) ==
  /\ q \in PoolSet /\ Mapped(q) /\ q.queue = p.queue /\ q.ref = p.ref
  /\ \A c \in Blocks : (\A i \in n + 1 .. Len(s) : bs[i] # c)
                       => q.hash[c] = p.hash[c] /\ q.bytes[c] = p.bytes[c]
  /\ \A g \in Hashes : p.map[g] # <<>> => q.map[g] # <<>>
  /\ \A i \in n + 1 .. Len(s) : q.map[s[i]] # <<>>

(* cache_full_blocks of the blocks of bs after the first n: they were not    *)
(* cached, and are in bs once.                                               *)
LEMMA CachedFullGood ==
  ASSUME NEW p \in PoolSet, Mapped(p), NEW bs \in Seq(Blocks), NEW s \in Seq(Hashes),
         Len(s) <= Len(bs), NEW n \in 0 .. Len(s),
         \A i \in n + 1 .. Len(s) : p.hash[bs[i]] = NoHash,
         \A i, j \in n + 1 .. Len(s) : bs[i] = bs[j] => i = j
  PROVE  FilledFrom(p, bs, s, n, CachedFull(p, bs, s, n))
<1> DEFINE w == [i \in 1 .. Len(s) - n |-> n + i]
           q == CachedFull(p, bs, s, n)
<1>1. q = Fills(p, bs, s, w)
  BY DEF CachedFull, Fills, Answers
<1>2. Len(s) \in Nat /\ n \in Nat /\ Len(s) - n \in Nat
  BY SeqFacts
<1>3. /\ w \in Seq(1 .. Len(s)) /\ Len(w) = Len(s) - n
      /\ \A i \in 1 .. Len(w) : w[i] = n + i
  <2>1. \A i \in 1 .. Len(s) - n : n + i \in 1 .. Len(s)
    BY <1>2
  <2>2. w \in [1 .. Len(s) - n -> 1 .. Len(s)]
    BY <2>1
  <2> QED
    BY <1>2, <2>2
<1> HIDE DEF w, q
<1>4. /\ \A i \in 1 .. Len(w) : w[i] \in n + 1 .. Len(s)
      /\ \A i \in n + 1 .. Len(s) : i - n \in 1 .. Len(w) /\ w[i - n] = i
      /\ \A i, j \in 1 .. Len(w) : w[i] = w[j] => i = j
  <2> DEFINE e == Len(s)
  <2>1. e \in Nat /\ n \in Nat /\ n <= e /\ Len(w) = e - n /\ \A i \in 1 .. e - n : w[i] = n + i
    BY <1>2, <1>3
  <2> HIDE DEF e
  <2>2. \A i \in 1 .. e - n : w[i] \in n + 1 .. e
    BY <2>1
  <2>3. ASSUME NEW i \in n + 1 .. e PROVE i - n \in 1 .. e - n /\ w[i - n] = i
    <3>1. i - n \in 1 .. e - n
      BY <2>1
    <3>2. w[i - n] = n + (i - n)
      BY <2>1, <3>1
    <3> QED
      BY <2>1, <3>1, <3>2
  <2>4. ASSUME NEW i \in 1 .. e - n, NEW j \in 1 .. e - n, w[i] = w[j] PROVE i = j
    <3>1. w[i] = n + i /\ w[j] = n + j
      BY <2>1
    <3>2. n + i = n + j
      BY <2>4, <3>1
    <3>3. i \in Int /\ j \in Int /\ n \in Int
      BY <2>1
    <3> QED
      BY <3>2, <3>3
  <2>5. 1 .. Len(w) = 1 .. e - n
    BY <2>1
  <2> QED
    BY <2>2, <2>3, <2>4, <2>5 DEF e
<1>5. /\ \A i \in 1 .. Len(w) : p.hash[bs[w[i]]] = NoHash
      /\ \A i, j \in 1 .. Len(w) : bs[w[i]] = bs[w[j]] => i = j
  BY <1>4
<1>6. /\ q \in PoolSet /\ Mapped(q) /\ q.queue = p.queue /\ q.ref = p.ref
      /\ \A c \in Blocks : (\A i \in 1 .. Len(w) : bs[w[i]] # c)
                           => q.hash[c] = p.hash[c] /\ q.bytes[c] = p.bytes[c]
      /\ \A g \in Hashes : p.map[g] # <<>> => q.map[g] # <<>>
      /\ \A i \in 1 .. Len(w) : q.map[s[w[i]]] # <<>>
  <2>1. w \in Seq(1 .. Len(s))
    BY <1>3
  <2>2. FilledIn(p, bs, s, w, Fills(p, bs, s, w))
    BY <1>5, <2>1, FillsGood
  <2> QED
    BY <1>1, <2>2 DEF FilledIn
<1>7. \A i \in n + 1 .. Len(s) : q.map[s[i]] # <<>>
  <2> TAKE i \in n + 1 .. Len(s)
  <2>1. i - n \in 1 .. Len(w) /\ w[i - n] = i
    BY <1>4
  <2>2. q.map[s[w[i - n]]] # <<>>
    BY <1>6, <2>1
  <2> QED
    BY <2>1, <2>2
<1>8. ASSUME NEW c \in Blocks, \A i \in n + 1 .. Len(s) : bs[i] # c
      PROVE  q.hash[c] = p.hash[c] /\ q.bytes[c] = p.bytes[c]
  BY <1>4, <1>6, <1>8
<1> QED
  BY <1>6, <1>7, <1>8 DEF q, FilledFrom

(* Blocks are freed as often as they are in bs.  One that is there twice has *)
(* a reference left, so that no block enters the queue twice.                *)
LEMMA FreedGood ==
  ASSUME NEW p \in Pools, NEW bs \in Seq(Blocks),
         \A b \in Blocks : Count(bs, b) <= p.ref[b],
         \A i, j \in DOMAIN bs : bs[i] = bs[j] /\ i # j => Count(bs, bs[i]) < p.ref[bs[i]]
  PROVE  LET q == Freed(p, bs)
         IN  /\ q \in Pools /\ q.hash = p.hash /\ q.map = p.map /\ q.bytes = p.bytes
             /\ \A b \in Blocks : q.ref[b] = p.ref[b] - Count(bs, b)
<1> DEFINE ref == [b \in Blocks |-> p.ref[b] - Count(bs, b)]
           w == [p EXCEPT !.ref = ref]
           Z == {b \in Blocks : ref[b] = 0}
           k == Kept(bs, Z)
           q == Freed(p, bs)
<1>1. /\ p \in PoolSet /\ p.queue \in Seq(Blocks) /\ p.ref \in [Blocks -> Nat]
      /\ IsInjective(p.queue) /\ \A b \in Blocks : b \in ToSet(p.queue) <=> p.ref[b] = 0
  BY DEF Pools, PoolSet, Queued
<1>2. \A b \in Blocks : /\ Count(bs, b) \in Nat /\ (Count(bs, b) = 0 <=> b \notin ToSet(bs))
  BY CountFacts
<1>3. /\ DOMAIN bs = 1 .. Len(bs) /\ (\A i \in DOMAIN bs : bs[i] \in Blocks)
      /\ ToSet(bs) \subseteq Blocks
  BY SeqFacts
<1>4. /\ ref \in [Blocks -> Nat] /\ \A b \in Blocks : ref[b] = p.ref[b] - Count(bs, b)
  <2>1. ASSUME NEW b \in Blocks PROVE p.ref[b] - Count(bs, b) \in Nat
    <3>1. p.ref[b] \in Nat /\ Count(bs, b) \in Nat /\ Count(bs, b) <= p.ref[b]
      BY <1>1, <1>2
    <3> QED
      BY <3>1
  <2> QED
    BY <2>1
<1>5. q = [w EXCEPT !.queue = w.queue \o k]
  BY DEF Freed, Count
<1> HIDE DEF ref
<1>6. w \in PoolSet /\ w.queue = p.queue /\ w.ref = ref /\ w.hash = p.hash /\ w.map = p.map
      /\ w.bytes = p.bytes
  BY <1>1, <1>4 DEF PoolSet
<1> HIDE DEF w, q
<1>7. OnceIn(bs, Z)
  <2> SUFFICES ASSUME NEW i \in DOMAIN bs, NEW j \in DOMAIN bs, bs[i] = bs[j], bs[i] \in Z, i # j
               PROVE  FALSE
    BY DEF OnceIn
  <2> DEFINE b == bs[i]
  <2>1. Count(bs, b) < p.ref[b] /\ b \in Blocks /\ ref[b] = 0
    BY <1>3
  <2> HIDE DEF b
  <2>2. p.ref[b] \in Nat /\ Count(bs, b) \in Nat /\ p.ref[b] - Count(bs, b) = 0
    BY <1>1, <1>2, <1>4, <2>1
  <2> QED
    BY <2>1, <2>2
<1>8. k \in Seq(Blocks) /\ ToSet(k) = ToSet(bs) \cap Z /\ IsInjective(k)
  BY <1>7, KeptIsOnce
<1>9. /\ \A b \in Blocks : ref[b] = 0 <=> p.ref[b] = 0 \/ b \in ToSet(bs) \cap Z
      /\ ToSet(p.queue) \cap ToSet(k) = {}
  <2>1. ASSUME NEW b \in Blocks
        PROVE  /\ ref[b] = 0 <=> p.ref[b] = 0 \/ (b \in ToSet(bs) /\ ref[b] = 0)
               /\ ~(p.ref[b] = 0 /\ b \in ToSet(bs))
    <3>1. /\ p.ref[b] \in Nat /\ Count(bs, b) \in Nat /\ Count(bs, b) <= p.ref[b]
          /\ ref[b] = p.ref[b] - Count(bs, b)
      BY <1>1, <1>2, <1>4
    <3>2. Count(bs, b) = 0 <=> b \notin ToSet(bs)
      BY <1>2
    <3> QED
      BY <3>1, <3>2
  <2> QED
    BY <1>1, <1>3, <1>8, <2>1
<1> HIDE DEF k, Z
<1>10. /\ p.queue \o k \in Seq(Blocks) /\ IsInjective(p.queue \o k)
       /\ ToSet(p.queue \o k) = ToSet(p.queue) \cup ToSet(k)
  BY <1>1, <1>8, <1>9, ConcatIs
<1>11. /\ q \in PoolSet /\ q.queue = p.queue \o k /\ q.ref = ref /\ q.hash = p.hash
       /\ q.map = p.map /\ q.bytes = p.bytes
  <2> DEFINE z == p.queue \o k
  <2>1. z \in Seq(Blocks) /\ q = [w EXCEPT !.queue = z]
    BY <1>5, <1>6, <1>10
  <2> HIDE DEF z
  <2>2. q \in PoolSet /\ q.queue = z /\ q.ref = w.ref /\ q.hash = w.hash /\ q.map = w.map /\ q.bytes = w.bytes
    BY <1>6, <2>1 DEF PoolSet
  <2> QED
    BY <1>6, <2>2 DEF z
<1>12. Queued(q)
  BY <1>1, <1>8, <1>9, <1>10, <1>11 DEF Queued
<1> QED
  BY <1>4, <1>11, <1>12 DEF Pools, q

-----------------------------------------------------------------------------
(* How often the requests Q use a block, with the tables t *)

Tables == [Requests -> Seq(Blocks)]
Places(t, b, Q) == UNION {{q} \X At(t[q], b) : q \in Q}
UsesIn(t, b) == Cardinality(Places(t, b, Requests))

LEMMA PlacesFinite ==
  ASSUME NEW t \in Tables, NEW b, NEW Q \in SUBSET Requests
  PROVE  IsFiniteSet(Places(t, b, Q)) /\ Cardinality(Places(t, b, Q)) \in Nat
<1> DEFINE S == {{q} \X At(t[q], b) : q \in Q}
           f == [q \in Q |-> {q} \X At(t[q], b)]
<1>1. IsFiniteSet(Q)
  BY FS_Subset DEF CacheAssumption
<1>2. f \in Surjection(Q, S)
  BY DEF Surjection
<1>3. \A T \in S : IsFiniteSet(T)
  <2> SUFFICES ASSUME NEW q \in Q PROVE IsFiniteSet({q} \X At(t[q], b))
    OBVIOUS
  <2>1. t[q] \in Seq(Blocks)
    BY DEF Tables
  <2>2. IsFiniteSet({q}) /\ IsFiniteSet(At(t[q], b))
    BY <2>1, FS_Singleton, CountFacts
  <2> QED
    BY <2>2, FS_Product
<1> HIDE DEF f, S
<1>4. IsFiniteSet(S)
  BY <1>1, <1>2, FS_Surjection
<1>5. IsFiniteSet(UNION S)
  BY <1>3, <1>4, FS_UNION
<1> QED
  BY <1>5, FS_CardinalityType DEF Places, S

LEMMA PlacesSplit ==
  ASSUME NEW t \in Tables, NEW b, NEW r \in Requests
  PROVE  LET n == Cardinality(Places(t, b, Requests \ {r}))
         IN  n \in Nat /\ UsesIn(t, b) \in Nat /\ UsesIn(t, b) = n + Count(t[r], b)
<1> DEFINE A == Places(t, b, Requests \ {r})
           B == {r} \X At(t[r], b)
           f == [i \in At(t[r], b) |-> <<r, i>>]
<1>1. IsFiniteSet(A) /\ Cardinality(A) \in Nat
  BY PlacesFinite
<1>2. t[r] \in Seq(Blocks)
  BY DEF Tables
<1>3. IsFiniteSet(At(t[r], b)) /\ Count(t[r], b) \in Nat
  BY <1>2, CountFacts
<1>4. IsFiniteSet(B) /\ Cardinality(B) = Count(t[r], b)
  <2>1. f \in Bijection(At(t[r], b), B)
    BY DEF Bijection, Injection, Surjection, IsInjective
  <2> HIDE DEF f, B
  <2> QED
    BY <1>3, <2>1, FS_Bijection DEF ExistsBijection, Count
<1>5. Places(t, b, Requests) = A \cup B
  BY DEF Places
<1>6. A \cap B = {}
  BY DEF Places
<1> HIDE DEF A, B
<1>7. Cardinality(A \cup B) = Cardinality(A) + Cardinality(B) - Cardinality({})
  BY <1>1, <1>4, <1>6, FS_Union
<1>8. Cardinality({}) = 0
  BY FS_EmptySet
<1> QED
  BY <1>1, <1>3, <1>4, <1>5, <1>7, <1>8 DEF UsesIn, A

(* A request is given the blocks bs for the blocks a it had.                 *)
UsesMoved(t, u, a, bs, b) ==
  /\ u \in Tables /\ UsesIn(t, b) \in Nat /\ UsesIn(u, b) \in Nat
  /\ Count(a, b) \in Nat /\ Count(bs, b) \in Nat
  /\ UsesIn(u, b) + Count(a, b) = UsesIn(t, b) + Count(bs, b)
  /\ Count(a, b) <= UsesIn(t, b) /\ Count(bs, b) <= UsesIn(u, b)

LEMMA UsesChange ==
  ASSUME NEW t \in Tables, NEW r \in Requests, NEW bs \in Seq(Blocks), NEW b
  PROVE  UsesMoved(t, [t EXCEPT ![r] = bs], t[r], bs, b)
<1> DEFINE u == [t EXCEPT ![r] = bs]
           Q == Requests \ {r}
           n == Cardinality(Places(t, b, Q))
           m == Cardinality(Places(u, b, Q))
<1>1. u \in Tables /\ u[r] = bs /\ t[r] \in Seq(Blocks) /\ \A q \in Q : u[q] = t[q]
  BY DEF Tables
<1> HIDE DEF u
<1>2. Places(u, b, Q) = Places(t, b, Q)
  BY <1>1 DEF Places
<1>3. n \in Nat /\ UsesIn(t, b) \in Nat /\ UsesIn(t, b) = n + Count(t[r], b)
  BY PlacesSplit
<1>4. m \in Nat /\ UsesIn(u, b) \in Nat /\ UsesIn(u, b) = m + Count(u[r], b)
  BY <1>1, PlacesSplit
<1>5. m = n
  BY <1>2
<1> HIDE DEF m, n
<1>6. Count(t[r], b) \in Nat /\ Count(bs, b) \in Nat
  BY <1>1, CountFacts
<1> DEFINE x == Count(t[r], b)
           y == Count(bs, b)
           v == UsesIn(t, b)
           z == UsesIn(u, b)
<1>7. x \in Nat /\ y \in Nat /\ v = n + x /\ z = n + y /\ v \in Nat /\ z \in Nat /\ n \in Nat
  BY <1>1, <1>3, <1>4, <1>5, <1>6
<1> HIDE DEF x, y, v, z
<1>8. z + x = v + y /\ x <= v /\ y <= z
  BY <1>7
<1> QED
  BY <1>1, <1>7, <1>8 DEF u, x, y, v, z, UsesMoved

(* A block is used where it is in a table, and only there.                   *)
LEMMA UsedWhere ==
  ASSUME NEW t \in Tables, NEW b
  PROVE  UsesIn(t, b) = 0 <=> \A r \in Requests : b \notin ToSet(t[r])
<1>1. IsFiniteSet(Places(t, b, Requests))
  BY PlacesFinite
<1>2. UsesIn(t, b) = 0 <=> Places(t, b, Requests) = {}
  BY <1>1, FS_EmptySet DEF UsesIn
<1>3. Places(t, b, Requests) = {} <=> \A r \in Requests : At(t[r], b) = {}
  <2>1. ASSUME NEW r \in Requests, NEW i \in At(t[r], b)
        PROVE  <<r, i>> \in Places(t, b, Requests)
    BY DEF Places
  <2>2. ASSUME NEW x \in Places(t, b, Requests)
        PROVE  \E r \in Requests : At(t[r], b) # {}
    BY DEF Places
  <2> QED
    BY <2>1, <2>2
<1>4. \A r \in Requests : At(t[r], b) = {} <=> b \notin ToSet(t[r])
  BY DEF At, ToSet
<1> QED
  BY <1>2, <1>3, <1>4

-----------------------------------------------------------------------------
(* The invariant, of a memory m with the tables t, the texts x and what is   *)
(* known, k.  A block that is twice in the table of a request has a          *)
(* reference that no request holds, which the lookup took and dropped; and   *)
(* the tail of a request answers for nothing and is nobody else's.           *)

TablesOK(t, x) == /\ x \in [Requests -> Texts \cup {<<>>}]
                  /\ t \in Tables
                  /\ \A r \in Requests : \/ t[r] = <<>> /\ x[r] = <<>>
                                         \/ Len(t[r]) = Len(x[r]) + 1
CountsCover(t, p) == \A b \in Blocks : UsesIn(t, b) <= p.ref[b]
TwiceIsLent(t, p) ==
  \A r \in Requests : \A i, j \in DOMAIN t[r] :
    t[r][i] = t[r][j] /\ i # j => UsesIn(t, t[r][i]) < p.ref[t[r][i]]
OwnTail(t, p, r) == /\ p.hash[Last(t[r])] = NoHash
                    /\ \A q \in Requests : \A i \in DOMAIN t[q] :
                         t[q][i] = Last(t[r]) => q = r /\ i = Len(t[r])
TailsAreOwn(t, p, Q) == \A r \in Q : t[r] # <<>> => OwnTail(t, p, r)
Remembered(k, x, m) == /\ k \subseteq Hashes
                       /\ \A r \in Requests : ToSet(x[r]) \subseteq k
                       /\ DiskOn /\ m.t.cap = 0 => \A h \in k : Present(m, h)

Whole(m, t, x, k) ==
  /\ m \in GoodMems /\ TablesOK(t, x)
  /\ CountsCover(t, m.p) /\ TwiceIsLent(t, m.p) /\ TailsAreOwn(t, m.p, Requests)
  /\ Remembered(k, x, m)

IInv == Whole(Memory, table, text, known)

LEMMA TableFacts ==
  ASSUME NEW t \in Tables, NEW r \in Requests
  PROVE  /\ t[r] \in Seq(Blocks) /\ Len(t[r]) \in Nat /\ DOMAIN t[r] = 1 .. Len(t[r])
         /\ \A i \in 1 .. Len(t[r]) : /\ t[r][i] \in Blocks /\ t[r][i] \in ToSet(t[r])
                                      /\ UsesIn(t, t[r][i]) \in Nat \ {0}
         /\ t[r] # <<>> => /\ Len(t[r]) \in 1 .. Len(t[r]) /\ Last(t[r]) = t[r][Len(t[r])]
                           /\ Last(t[r]) \in Blocks
<1>1. t[r] \in Seq(Blocks)
  BY DEF Tables
<1>2. /\ Len(t[r]) \in Nat /\ DOMAIN t[r] = 1 .. Len(t[r])
      /\ \A i \in 1 .. Len(t[r]) : t[r][i] \in Blocks /\ t[r][i] \in ToSet(t[r])
  <2> DEFINE z == t[r]
  <2>1. z \in Seq(Blocks)
    BY <1>1
  <2> HIDE DEF z
  <2>2. /\ Len(z) \in Nat /\ DOMAIN z = 1 .. Len(z)
        /\ \A i \in 1 .. Len(z) : z[i] \in Blocks /\ z[i] \in ToSet(z)
    BY <2>1, SeqFacts
  <2> QED
    BY <2>2 DEF z
<1>3. \A b \in ToSet(t[r]) : UsesIn(t, b) # 0
  BY UsedWhere
<1>4. \A b : UsesIn(t, b) \in Nat
  BY PlacesSplit
<1>5. ASSUME t[r] # <<>>
      PROVE  Len(t[r]) \in 1 .. Len(t[r]) /\ Last(t[r]) = t[r][Len(t[r])]
  <2>1. Len(t[r]) # 0
    BY <1>1, <1>5, EmptySeq
  <2> QED
    BY <1>2, <2>1 DEF Last
<1> QED
  BY <1>1, <1>2, <1>3, <1>4, <1>5

(* Loans to others leave what a request has.                                 *)
LEMMA LoansKeepTables ==
  ASSUME NEW m \in GoodMems, NEW u \in GoodMems, Loans(m, u), NEW t \in Tables,
         CountsCover(t, m.p), TwiceIsLent(t, m.p), TailsAreOwn(t, m.p, Requests)
  PROVE  /\ CountsCover(t, u.p) /\ TwiceIsLent(t, u.p) /\ TailsAreOwn(t, u.p, Requests)
         /\ \A r \in Requests : \A i \in DOMAIN t[r] : u.p.bytes[t[r][i]] = m.p.bytes[t[r][i]]
<1>1. \A b \in Blocks : /\ UsesIn(t, b) \in Nat /\ m.p.ref[b] \in Nat /\ u.p.ref[b] \in Nat
                        /\ UsesIn(t, b) <= m.p.ref[b] /\ m.p.ref[b] <= u.p.ref[b]
                        /\ m.p.ref[b] > 0 => /\ u.p.ref[b] = m.p.ref[b] /\ u.p.hash[b] = m.p.hash[b]
                                             /\ u.p.bytes[b] = m.p.bytes[b]
  <2> TAKE b \in Blocks
  <2>1. m.p.ref[b] \in Nat /\ u.p.ref[b] \in Nat
    BY GoodMemFacts
  <2>2. UsesIn(t, b) \in Nat
    BY PlacesFinite DEF UsesIn
  <2> QED
    BY <2>1, <2>2 DEF Loans, CountsCover
<1>2. CountsCover(t, u.p)
  <2> SUFFICES ASSUME NEW b \in Blocks PROVE UsesIn(t, b) <= u.p.ref[b]
    BY DEF CountsCover
  <2> QED
    BY <1>1
<1>3. ASSUME NEW r \in Requests, NEW i \in DOMAIN t[r]
      PROVE  /\ t[r][i] \in Blocks /\ u.p.ref[t[r][i]] = m.p.ref[t[r][i]]
             /\ u.p.hash[t[r][i]] = m.p.hash[t[r][i]] /\ u.p.bytes[t[r][i]] = m.p.bytes[t[r][i]]
  <2> DEFINE b == t[r][i]
  <2>1. b \in Blocks /\ UsesIn(t, b) \in Nat \ {0}
    BY TableFacts
  <2> HIDE DEF b
  <2>2. m.p.ref[b] > 0
    BY <1>1, <2>1
  <2> QED
    BY <1>1, <2>1, <2>2 DEF b
<1>4. TwiceIsLent(t, u.p)
  BY <1>3 DEF TwiceIsLent
<1>5. TailsAreOwn(t, u.p, Requests)
  <2> SUFFICES ASSUME NEW r \in Requests, t[r] # <<>> PROVE OwnTail(t, u.p, r)
    BY DEF TailsAreOwn
  <2>1. OwnTail(t, m.p, r)
    BY DEF TailsAreOwn
  <2>2. Len(t[r]) \in DOMAIN t[r] /\ Last(t[r]) = t[r][Len(t[r])]
    BY TableFacts
  <2>3. u.p.hash[Last(t[r])] = m.p.hash[Last(t[r])]
    BY <1>3, <2>2
  <2> QED
    BY <2>1, <2>3 DEF OwnTail
<1> QED
  BY <1>2, <1>3, <1>4, <1>5

(* The memory and the tables when r is about to get more blocks than the     *)
(* ones it holds: its own tail is not constrained.                           *)
HeldFor(m, t, r) ==
  /\ m \in GoodMems /\ t \in Tables
  /\ CountsCover(t, m.p) /\ TwiceIsLent(t, m.p) /\ TailsAreOwn(t, m.p, Requests \ {r})

LEMMA TouchedMem ==
  ASSUME NEW m \in GoodMems, NEW s \in Seq(Blocks)
  PROVE  LET u == [m EXCEPT !.p = FoldLeft(Touched, @, s)]
         IN  /\ u \in GoodMems /\ Keeps(m, u) /\ u.t = m.t /\ u.p = FoldLeft(Touched, m.p, s)
             /\ u.p.hash = m.p.hash /\ u.p.bytes = m.p.bytes
             /\ \A c \in Blocks : u.p.ref[c] = m.p.ref[c] + Count(s, c)
<1> DEFINE q == FoldLeft(Touched, m.p, s)
           u == [m EXCEPT !.p = q]
<1>1. m \in Mems /\ m.p \in Pools /\ m.t \in GoodTiers /\ Mapped(m.p) /\ m = [p |-> m.p, t |-> m.t]
  BY GoodMemFacts, MemFacts DEF Pools
<1>2. /\ q \in Pools /\ q.hash = m.p.hash /\ q.map = m.p.map /\ q.bytes = m.p.bytes
      /\ \A c \in Blocks : q.ref[c] = m.p.ref[c] + Count(s, c)
  BY <1>1, TouchesAll
<1> HIDE DEF q
<1>3. u = [p |-> q, t |-> m.t]
  BY <1>1
<1>4. u \in GoodMems
  BY <1>1, <1>2, <1>3 DEF GoodMems, Mems, Mapped, Pools
<1>5. Keeps(m, u)
  BY <1>2, <1>3 DEF Keeps, Present
<1> QED
  BY <1>2, <1>3, <1>4, <1>5 DEF q

(* The hits of a lookup are touched, and r is to have them: a hit that is    *)
(* there twice was lent for one of the two hashes it was hit for.            *)
LEMMA HitsHeld ==
  ASSUME NEW m \in GoodMems, NEW t \in Tables, NEW r \in Requests, t[r] = <<>>,
         CountsCover(t, m.p), TwiceIsLent(t, m.p), TailsAreOwn(t, m.p, Requests),
         NEW s \in Seq(Hashes), IsInjective(s), NEW l, HitsAre(m, s, l)
  PROVE  HeldFor([l.m EXCEPT !.p = FoldLeft(Touched, @, l.hits)], [t EXCEPT ![r] = l.hits], r)
<1> DEFINE u == [t EXCEPT ![r] = l.hits]
           v == [l.m EXCEPT !.p = FoldLeft(Touched, @, l.hits)]
           a == l.hits
<1>1. /\ l.m \in GoodMems /\ Loans(m, l.m) /\ a \in Seq(Blocks) /\ Len(a) \in 0 .. Len(s)
      /\ \A i \in 1 .. Len(a) :
           /\ l.m.p.hash[a[i]] # NoHash
           /\ l.m.p.hash[a[i]] = s[i] \/ l.m.p.ref[a[i]] > m.p.ref[a[i]]
  BY DEF HitsAre
<1>2. /\ v \in GoodMems /\ v.p.hash = l.m.p.hash
      /\ \A c \in Blocks : v.p.ref[c] = l.m.p.ref[c] + Count(a, c)
  BY <1>1, TouchedMem
<1>3. /\ u \in Tables /\ u[r] = a /\ \A q \in Requests : q # r => u[q] = t[q]
      /\ \A b : UsesIn(u, b) \in Nat /\ UsesIn(t, b) \in Nat /\ Count(a, b) \in Nat
                /\ UsesIn(u, b) = UsesIn(t, b) + Count(a, b)
  <2>1. u \in Tables /\ u[r] = a /\ \A q \in Requests : q # r => u[q] = t[q]
    BY <1>1 DEF Tables
  <2>2. ASSUME NEW b
        PROVE  /\ UsesIn(u, b) \in Nat /\ UsesIn(t, b) \in Nat /\ Count(a, b) \in Nat
               /\ UsesIn(u, b) = UsesIn(t, b) + Count(a, b)
    <3>1. Count(t[r], b) = 0
      BY CountEmpty
    <3>2. /\ UsesIn(u, b) \in Nat /\ UsesIn(t, b) \in Nat /\ Count(a, b) \in Nat
          /\ UsesIn(u, b) + Count(t[r], b) = UsesIn(t, b) + Count(a, b)
      BY <1>1, UsesChange DEF UsesMoved
    <3> QED
      BY <3>1, <3>2
  <2> QED
    BY <2>1, <2>2
<1> HIDE DEF u, v, a
<1>4. \A b \in Blocks : UsesIn(t, b) <= m.p.ref[b] /\ m.p.ref[b] <= l.m.p.ref[b]
  BY <1>1 DEF CountsCover, Loans
<1>5. \A b \in Blocks : m.p.ref[b] \in Nat /\ l.m.p.ref[b] \in Nat
  BY <1>1, GoodMemFacts
<1>6. \A b \in Blocks : /\ UsesIn(u, b) <= v.p.ref[b]
                        /\ UsesIn(t, b) < l.m.p.ref[b] => UsesIn(u, b) < v.p.ref[b]
  <2> TAKE b \in Blocks
  <2>1. /\ UsesIn(t, b) \in Nat /\ Count(a, b) \in Nat /\ l.m.p.ref[b] \in Nat /\ m.p.ref[b] \in Nat
        /\ UsesIn(u, b) = UsesIn(t, b) + Count(a, b) /\ v.p.ref[b] = l.m.p.ref[b] + Count(a, b)
        /\ UsesIn(t, b) <= m.p.ref[b] /\ m.p.ref[b] <= l.m.p.ref[b]
    BY <1>2, <1>3, <1>4, <1>5
  <2> QED
    BY <2>1
<1>7. CountsCover(u, v.p)
  BY <1>6 DEF CountsCover
<1>8. TwiceIsLent(t, l.m.p) /\ TailsAreOwn(t, l.m.p, Requests)
  BY <1>1, LoansKeepTables
<1>9. TwiceIsLent(u, v.p)
  <2> SUFFICES ASSUME NEW q \in Requests, NEW i \in DOMAIN u[q], NEW j \in DOMAIN u[q],
                      u[q][i] = u[q][j], i # j
               PROVE  UsesIn(u, u[q][i]) < v.p.ref[u[q][i]]
    BY DEF TwiceIsLent
  <2> DEFINE b == u[q][i]
  <2>1. b \in Blocks
    BY <1>3, TableFacts
  <2>2. UsesIn(t, b) < l.m.p.ref[b]
    <3>1. CASE q # r
      <4>1. u[q] = t[q]
        BY <1>3, <3>1
      <4> QED
        BY <1>8, <4>1 DEF TwiceIsLent
    <3>2. CASE q = r
      <4>1. i \in 1 .. Len(a) /\ j \in 1 .. Len(a) /\ a[i] = b /\ a[j] = b
        <5>1. DOMAIN a = 1 .. Len(a)
          BY <1>1, SeqFacts
        <5> QED
          BY <1>3, <3>2, <5>1
      <4>2. s[i] # s[j]
        <5>1. Len(s) \in Nat /\ DOMAIN s = 1 .. Len(s)
          BY SeqFacts
        <5>2. i \in DOMAIN s /\ j \in DOMAIN s
          BY <1>1, <4>1, <5>1
        <5> QED
          BY <5>2 DEF IsInjective
      <4> HIDE DEF b
      <4>3. l.m.p.ref[b] > m.p.ref[b]
        BY <1>1, <4>1, <4>2
      <4>4. UsesIn(t, b) \in Nat /\ m.p.ref[b] \in Nat /\ l.m.p.ref[b] \in Nat
            /\ UsesIn(t, b) <= m.p.ref[b]
        BY <1>3, <1>4, <1>5, <2>1
      <4> QED
        BY <4>3, <4>4
    <3> QED
      BY <3>1, <3>2
  <2> HIDE DEF b
  <2> QED
    BY <1>6, <2>1, <2>2 DEF b
<1>10. TailsAreOwn(u, v.p, Requests \ {r})
  <2> SUFFICES ASSUME NEW q \in Requests \ {r}, u[q] # <<>> PROVE OwnTail(u, v.p, q)
    BY DEF TailsAreOwn
  <2>1. u[q] = t[q]
    BY <1>3
  <2>2. OwnTail(t, l.m.p, q)
    BY <1>8, <2>1 DEF TailsAreOwn
  <2>3. v.p.hash[Last(u[q])] = NoHash
    BY <1>2, <2>1, <2>2 DEF OwnTail
  <2>4. ASSUME NEW o \in Requests, NEW i \in DOMAIN u[o], u[o][i] = Last(u[q])
        PROVE  o = q /\ i = Len(u[q])
    <3>1. CASE o # r
      BY <1>3, <2>1, <2>2, <2>4, <3>1 DEF OwnTail
    <3>2. CASE o = r
      <4>1. i \in 1 .. Len(a) /\ a[i] = Last(t[q])
        <5>1. DOMAIN a = 1 .. Len(a)
          BY <1>1, SeqFacts
        <5> QED
          BY <1>3, <2>1, <2>4, <3>2, <5>1
      <4>2. l.m.p.hash[a[i]] # NoHash
        BY <1>1, <4>1
      <4> QED
        BY <2>2, <4>1, <4>2 DEF OwnTail
    <3> QED
      BY <3>1, <3>2
  <2> QED
    BY <2>3, <2>4 DEF OwnTail
<1> QED
  BY <1>2, <1>3, <1>7, <1>9, <1>10 DEF HeldFor, u, v

(* A request has the text s in the blocks bs, of which those after the first *)
(* n are filled; the last one is its tail.                                   *)
Running(g, bs, s, n) ==
  [g EXCEPT !.p = CachedFull([@ EXCEPT !.bytes[Last(bs)] = NoData], bs, s, n)]

(* It fills blocks it was just given, or its own tail.                       *)
FillsOwn(m, t, r, s, n) ==
  \/ n = Len(t[r])
  \/ /\ n + 1 = Len(t[r]) /\ Len(s) = Len(t[r])
     /\ t[r] # <<>> /\ OwnTail(t, m.p, r)

(* The e coldest blocks are given to r after those it has: no request has    *)
(* them, and the last of them is its new tail.                               *)
GivenTo(m, t, a, C, bs, e) ==
  /\ a \in Seq(Blocks) /\ Len(a) \in Nat /\ e \in Nat
  /\ bs \in Seq(Blocks) /\ Len(bs) = Len(a) + e
  /\ \A i \in 1 .. Len(bs) : \/ i \in 1 .. Len(a) /\ bs[i] = a[i] /\ bs[i] \notin C
                             \/ i \notin 1 .. Len(a) /\ bs[i] \in C
  /\ \A i \in 1 .. Len(a) : i \in 1 .. Len(bs)
  /\ \A i, j \in 1 .. Len(bs) : bs[i] = bs[j] /\ bs[i] \in C => i = j
  /\ Len(bs) \in 1 .. Len(bs) /\ Last(bs) = bs[Len(bs)] /\ Last(bs) \in C
  /\ \A b \in C : /\ b \in Blocks /\ m.p.ref[b] = 0 /\ UsesIn(t, b) = 0
                         /\ \A q \in Requests : \A i \in DOMAIN t[q] : t[q][i] # b
  /\ \A b \in Blocks : Count(bs, b) = Count(a, b) + IF b \in C THEN 1 ELSE 0

LEMMA GivenFacts ==
  ASSUME NEW m, NEW t, NEW r \in Requests, HeldFor(m, t, r), NEW e \in 1 .. Free(m)
  PROVE  GivenTo(m, t, t[r], ToSet(Coldest(m, e)), t[r] \o Coldest(m, e), e)
<1> DEFINE a  == t[r]
           c  == Coldest(m, e)
           bs == a \o c
           k  == Len(a)
<1>1. m \in GoodMems /\ t \in Tables /\ CountsCover(t, m.p)
  BY DEF HeldFor
<1>2. a \in Seq(Blocks) /\ k \in Nat
  BY <1>1, TableFacts
<1>3. Free(m) \in Nat /\ e \in 0 .. Free(m) /\ e \in Nat /\ e \in 1 .. e /\ \A i \in 1 .. e : i \in Nat
  BY <1>1, GoodMemFacts, LenProperties DEF Free
<1>4. /\ c \in Seq(Blocks) /\ Len(c) = e /\ IsInjective(c)
      /\ \A i \in 1 .. e : c[i] \in Blocks /\ m.p.ref[c[i]] = 0 /\ c[i] \in ToSet(c)
      /\ \A b \in ToSet(c) : b \in Blocks /\ m.p.ref[b] = 0
  BY <1>1, <1>3, ColdestFacts
<1>5. \A b \in ToSet(c) : UsesIn(t, b) = 0
  <2> TAKE b \in ToSet(c)
  <2>1. UsesIn(t, b) \in Nat /\ b \in Blocks /\ m.p.ref[b] = 0
    BY <1>1, <1>4, PlacesFinite DEF UsesIn
  <2>2. UsesIn(t, b) <= 0
    BY <1>1, <2>1 DEF CountsCover
  <2> QED
    BY <2>1, <2>2
<1>6. \A b \in ToSet(c) : \A q \in Requests : \A i \in DOMAIN t[q] : t[q][i] # b
  <2> SUFFICES ASSUME NEW b \in ToSet(c), NEW q \in Requests, NEW i \in DOMAIN t[q] PROVE t[q][i] # b
    OBVIOUS
  <2>1. UsesIn(t, t[q][i]) # 0
    BY <1>1, TableFacts, SMTT(30)
  <2> QED
    BY <1>5, <2>1
<1>7. \A b \in Blocks : Count(bs, b) = Count(a, b) + IF b \in ToSet(c) THEN 1 ELSE 0
  BY <1>2, <1>4, CountConcat, CountOnce
<1>8. /\ bs \in Seq(Blocks) /\ Len(bs) = k + e
      /\ \A i \in 1 .. k + e : bs[i] = IF i <= k THEN a[i] ELSE c[i - k]
  <2> HIDE DEF a, c
  <2>0. a \in Seq(Blocks) /\ c \in Seq(Blocks)
    BY <1>2, <1>4
  <2>1. /\ a \o c \in Seq(Blocks) /\ Len(a \o c) = Len(a) + Len(c)
        /\ \A i \in 1 .. Len(a) + Len(c) : (a \o c)[i] = IF i <= Len(a) THEN a[i] ELSE c[i - Len(a)]
    BY <2>0, ConcatProperties
  <2>2. Len(c) = e
    BY <1>4
  <2> HIDE DEF bs
  <2>3. bs = a \o c
    BY DEF bs
  <2> QED
    BY <2>1, <2>2, <2>3
<1>9. DOMAIN a = 1 .. k /\ DOMAIN c = 1 .. e
  BY <1>2, <1>4, SeqFacts
<1>10. \A i \in 1 .. k : a[i] \notin ToSet(c)
  BY <1>6, <1>9
<1> HIDE DEF a, c, bs, k
<1>11. \A i \in 1 .. k + e : \/ i \in 1 .. k /\ bs[i] = a[i] /\ bs[i] \notin ToSet(c)
                             \/ i \notin 1 .. k /\ i - k \in 1 .. e /\ bs[i] = c[i - k] /\ bs[i] \in ToSet(c)
  <2> TAKE i \in 1 .. k + e
  <2>1. CASE i <= k
    <3>1. i \in 1 .. k
      BY <1>2, <2>1
    <3> QED
      BY <1>8, <1>10, <2>1, <3>1
  <2>2. CASE ~(i <= k)
    <3>1. i \notin 1 .. k /\ i - k \in 1 .. e
      BY <1>2, <1>3, <2>2
    <3> QED
      BY <1>4, <1>8, <2>2, <3>1
  <2> QED
    BY <2>1, <2>2
<1>12. \A i \in 1 .. k : i \in 1 .. k + e
  BY <1>2, <1>3
<1>13. ASSUME NEW i \in 1 .. k + e, NEW j \in 1 .. k + e, bs[i] = bs[j], bs[i] \in ToSet(c) PROVE i = j
  <2>1. i - k \in 1 .. e /\ j - k \in 1 .. e /\ c[i - k] = c[j - k]
    BY <1>11, <1>13
  <2>2. i - k = j - k
    BY <1>4, <1>9, <2>1 DEF IsInjective
  <2>3. i \in Int /\ j \in Int
    BY <1>2, <1>3
  <2> QED
    BY <1>2, <2>2, <2>3
<1>14. k + e \in 1 .. k + e /\ k + e \notin 1 .. k
  BY <1>2, <1>3
<1>15. Last(bs) = bs[k + e] /\ bs[k + e] \in ToSet(c)
  BY <1>8, <1>11, <1>14 DEF Last
<1> QED
  <2> DEFINE C == ToSet(c)
  <2>1. /\ a \in Seq(Blocks) /\ k \in Nat /\ e \in Nat /\ bs \in Seq(Blocks) /\ Len(bs) = k + e
        /\ \A i, j \in 1 .. Len(bs) : bs[i] = bs[j] /\ bs[i] \in C => i = j
        /\ Len(bs) \in 1 .. Len(bs) /\ Last(bs) = bs[Len(bs)] /\ Last(bs) \in C
    BY <1>2, <1>3, <1>8, <1>13, <1>14, <1>15
  <2>2. /\ \A i \in 1 .. Len(bs) : \/ i \in 1 .. k /\ bs[i] = a[i] /\ bs[i] \notin C
                                   \/ i \notin 1 .. k /\ bs[i] \in C
        /\ \A i \in 1 .. k : i \in 1 .. Len(bs)
    BY <1>8, <1>11, <1>12
  <2>3. /\ \A b \in C : /\ b \in Blocks /\ m.p.ref[b] = 0 /\ UsesIn(t, b) = 0
                        /\ \A q \in Requests : \A i \in DOMAIN t[q] : t[q][i] # b
        /\ \A b \in Blocks : Count(bs, b) = Count(a, b) + IF b \in C THEN 1 ELSE 0
    BY <1>4, <1>5, <1>6, <1>7
  <2> HIDE DEF C
  <2>4. GivenTo(m, t, a, C, bs, e)
    BY <2>1, <2>2, <2>3 DEF GivenTo, k
  <2> QED
    BY <2>4 DEF a, c, bs, C

RunsTo(m, t, r, s, n, bs, u, v) ==
  /\ v \in GoodMems /\ Keeps(m, v) /\ u \in Tables /\ u[r] = bs
  /\ bs \in Seq(Blocks) /\ Len(bs) = Len(s) + 1
  /\ \A i \in 1 .. Len(t[r]) : bs[i] = t[r][i]
  /\ CountsCover(u, v.p) /\ TwiceIsLent(u, v.p) /\ TailsAreOwn(u, v.p, Requests)
  /\ \A i \in n + 1 .. Len(s) : v.p.map[s[i]] # <<>>
  /\ \A q \in Requests : \A i \in DOMAIN t[q] :
       q # r \/ i # Len(t[q]) => v.p.bytes[t[q][i]] = m.p.bytes[t[q][i]]

LEMMA RunsGood ==
  ASSUME NEW m, NEW t, NEW r \in Requests, HeldFor(m, t, r), NEW e \in 1 .. Free(m),
         NEW s \in Seq(Hashes), NEW n \in 0 .. Len(s), Len(t[r]) + e = Len(s) + 1,
         FillsOwn(m, t, r, s, n)
  PROVE  LET bs == t[r] \o Coldest(m, e)
         IN  RunsTo(m, t, r, s, n, bs, [t EXCEPT ![r] = bs], Running(GetNew(m, e), bs, s, n))
<1> DEFINE a  == t[r]
           c  == Coldest(m, e)
           C  == ToSet(c)
           bs == a \o c
           g  == GetNew(m, e)
           u  == [t EXCEPT ![r] = bs]
           w  == [g.p EXCEPT !.bytes[Last(bs)] = NoData]
           x  == CachedFull(w, bs, s, n)
           v  == Running(g, bs, s, n)
<1>1. m \in GoodMems /\ t \in Tables /\ CountsCover(t, m.p) /\ TwiceIsLent(t, m.p)
      /\ TailsAreOwn(t, m.p, Requests \ {r})
  BY DEF HeldFor
<1>2. /\ a \in Seq(Blocks) /\ Len(a) \in Nat /\ e \in Nat
      /\ bs \in Seq(Blocks) /\ Len(bs) = Len(a) + e
      /\ \A i \in 1 .. Len(bs) : \/ i \in 1 .. Len(a) /\ bs[i] = a[i] /\ bs[i] \notin C
                                 \/ i \notin 1 .. Len(a) /\ bs[i] \in C
      /\ \A i \in 1 .. Len(a) : i \in 1 .. Len(bs)
      /\ \A i, j \in 1 .. Len(bs) : bs[i] = bs[j] /\ bs[i] \in C => i = j
      /\ Len(bs) \in 1 .. Len(bs) /\ Last(bs) = bs[Len(bs)] /\ Last(bs) \in C
      /\ \A b \in C : /\ b \in Blocks /\ m.p.ref[b] = 0 /\ UsesIn(t, b) = 0
                      /\ \A q \in Requests : \A i \in DOMAIN t[q] : t[q][i] # b
      /\ \A b \in Blocks : Count(bs, b) = Count(a, b) + IF b \in C THEN 1 ELSE 0
  <2>1. GivenTo(m, t, a, C, bs, e)
    BY GivenFacts
  <2> HIDE DEF a, C, bs
  <2> QED
    BY <2>1 DEF GivenTo
<1>3. e \in 0 .. Free(m)
  BY <1>1, <1>2, GoodMemFacts, LenProperties DEF Free
<1>4. /\ g \in GoodMems /\ Keeps(m, g) /\ g.p.bytes = m.p.bytes
      /\ \A b \in Blocks : /\ g.p.ref[b] = IF b \in C THEN 1 ELSE m.p.ref[b]
                           /\ g.p.hash[b] = IF b \in C THEN NoHash ELSE m.p.hash[b]
  BY <1>1, <1>3, GetNewGood
<1>5. Len(s) \in Nat /\ n \in Nat /\ n <= Len(s) /\ Len(bs) = Len(s) + 1
  BY <1>2, SeqFacts
<1>6. u \in Tables /\ u[r] = bs /\ \A q \in Requests : q # r => u[q] = t[q]
  BY <1>1, <1>2 DEF Tables
<1>7. \A b \in Blocks : /\ UsesIn(u, b) \in Nat /\ UsesIn(t, b) \in Nat
                        /\ UsesIn(u, b) = UsesIn(t, b) + IF b \in C THEN 1 ELSE 0
  <2> TAKE b \in Blocks
  <2>1. /\ UsesIn(t, b) \in Nat /\ UsesIn(u, b) \in Nat /\ Count(a, b) \in Nat
        /\ UsesIn(u, b) + Count(a, b) = UsesIn(t, b) + Count(bs, b)
    <3>1. t \in Tables /\ bs \in Seq(Blocks)
      BY <1>1, <1>2
    <3>2. UsesMoved(t, u, a, bs, b)
      BY <3>1, UsesChange
    <3> HIDE DEF u, a, bs
    <3> QED
      BY <3>2 DEF UsesMoved
  <2>2. Count(bs, b) = Count(a, b) + IF b \in C THEN 1 ELSE 0
    BY <1>2
  <2> HIDE DEF C, u, bs, a
  <2> QED
    BY <2>1, <2>2
<1> HIDE DEF a, c, C, g, u, w, x, v
<1>8. DOMAIN a = 1 .. Len(a) /\ a = t[r]
  BY <1>2, SeqFacts DEF a
<1> HIDE DEF bs
<1>9. FillsOwn(m, t, r, s, n) /\ Len(t[r]) = Len(a)
  BY DEF a
<1>10. \A i \in n + 1 .. Len(s) :
         /\ i \in 1 .. Len(bs) /\ i # Len(bs)
         /\ \/ bs[i] \in C
            \/ /\ a # <<>> /\ i = Len(a) /\ Len(a) = Len(s) /\ OwnTail(t, m.p, r)
               /\ bs[i] = Last(a)
  <2> TAKE i \in n + 1 .. Len(s)
  <2>1. i \in 1 .. Len(bs) /\ i # Len(bs)
    BY <1>5
  <2>2. CASE n = Len(a)
    <3>1. i \notin 1 .. Len(a)
      BY <1>2, <2>2
    <3> QED
      BY <1>2, <2>1, <3>1
  <2>3. CASE n # Len(a)
    <3>1. n + 1 = Len(a) /\ Len(s) = Len(a) /\ a # <<>> /\ OwnTail(t, m.p, r)
      BY <1>8, <1>9, <2>3 DEF FillsOwn
    <3>2. i = Len(a) /\ i \in 1 .. Len(a)
      BY <1>2, <1>5, <3>1
    <3>3. bs[i] = a[i]
      BY <1>2, <2>1, <3>2
    <3> QED
      BY <2>1, <3>1, <3>2, <3>3 DEF Last
  <2> QED
    BY <2>2, <2>3
<1>11. \A i \in n + 1 .. Len(s) : bs[i] \in Blocks /\ g.p.hash[bs[i]] = NoHash /\ bs[i] # Last(bs)
  <2> TAKE i \in n + 1 .. Len(s)
  <2>1. bs[i] \in Blocks
    BY <1>2, <1>10, SeqFacts
  <2>2. bs[i] # Last(bs)
    BY <1>2, <1>10
  <2>3. g.p.hash[bs[i]] = NoHash
    BY <1>4, <1>8, <1>10, <2>1 DEF OwnTail
  <2> QED
    BY <2>1, <2>2, <2>3
<1>12. \A i, j \in n + 1 .. Len(s) : bs[i] = bs[j] => i = j
  <2> TAKE i, j \in n + 1 .. Len(s)
  <2>1. i \in 1 .. Len(bs) /\ j \in 1 .. Len(bs)
    BY <1>10
  <2>2. bs[i] \in C /\ bs[i] = bs[j] => i = j
    BY <1>2, <2>1
  <2> QED
    BY <1>10, <2>2
<1>13. /\ w \in PoolSet /\ Mapped(w) /\ w.queue = g.p.queue /\ w.ref = g.p.ref
       /\ w.hash = g.p.hash /\ w.map = g.p.map
       /\ \A b \in Blocks : b # Last(bs) => w.bytes[b] = g.p.bytes[b]
  <2> DEFINE p == g.p
  <2>1. p \in PoolSet /\ Mapped(p)
    BY <1>4, GoodMemFacts
  <2>2. w = [p EXCEPT !.bytes[Last(bs)] = NoData] /\ Last(bs) \in Blocks
    BY <1>2 DEF w
  <2>3. p.hash[Last(bs)] = NoHash
    BY <1>2, <1>4
  <2> HIDE DEF p, w
  <2>4. [p.bytes EXCEPT ![Last(bs)] = NoData] \in [Blocks -> Hashes \cup {NoData}]
    BY <2>1, <2>2 DEF PoolSet
  <2>5. /\ w \in PoolSet /\ w.queue = p.queue /\ w.ref = p.ref /\ w.hash = p.hash /\ w.map = p.map
        /\ w.bytes = [p.bytes EXCEPT ![Last(bs)] = NoData]
    BY <2>1, <2>2, <2>4 DEF PoolSet
  <2>6. \A b \in Blocks : b # Last(bs) => w.bytes[b] = p.bytes[b]
    BY <2>1, <2>5 DEF PoolSet
  <2>7. Mapped(w)
    <3>1. \A h \in Hashes : h # NoHash
      BY DEF CacheAssumption
    <3> QED
      BY <2>1, <2>3, <2>5, <2>6, <3>1 DEF Mapped
  <2> QED
    BY <2>5, <2>6, <2>7 DEF p
<1>14. /\ x \in PoolSet /\ Mapped(x) /\ x.queue = g.p.queue /\ x.ref = g.p.ref
       /\ \A b \in Blocks : (\A i \in n + 1 .. Len(s) : bs[i] # b)
                            => x.hash[b] = g.p.hash[b] /\ x.bytes[b] = w.bytes[b]
       /\ \A h \in Hashes : g.p.map[h] # <<>> => x.map[h] # <<>>
       /\ \A i \in n + 1 .. Len(s) : x.map[s[i]] # <<>>
  <2>1. \A i \in n + 1 .. Len(s) : w.hash[bs[i]] = NoHash
    BY <1>11, <1>13
  <2>2. Len(s) <= Len(bs) /\ bs \in Seq(Blocks) /\ n \in 0 .. Len(s)
    BY <1>2, <1>5
  <2>3. /\ x \in PoolSet /\ Mapped(x) /\ x.queue = w.queue /\ x.ref = w.ref
        /\ \A b \in Blocks : (\A i \in n + 1 .. Len(s) : bs[i] # b)
                             => x.hash[b] = w.hash[b] /\ x.bytes[b] = w.bytes[b]
        /\ \A h \in Hashes : w.map[h] # <<>> => x.map[h] # <<>>
        /\ \A i \in n + 1 .. Len(s) : x.map[s[i]] # <<>>
    <3>1. w \in PoolSet /\ Mapped(w)
      BY <1>13
    <3>2. FilledFrom(w, bs, s, n, CachedFull(w, bs, s, n))
      BY <1>12, <2>1, <2>2, <3>1, CachedFullGood
    <3> QED
      BY <3>2 DEF FilledFrom, x
  <2> QED
    BY <1>13, <2>3
<1>15. v = [p |-> x, t |-> g.t]
  <2>1. g = [p |-> g.p, t |-> g.t]
    BY <1>4, GoodMemFacts, MemFacts
  <2> QED
    BY <2>1 DEF v, x, w, Running
<1>16. v \in GoodMems
  <2>1. g.t \in GoodTiers /\ Queued(g.p)
    BY <1>4, GoodMemFacts
  <2>2. Queued(x)
    BY <1>14, <2>1 DEF Queued
  <2> QED
    BY <1>14, <1>15, <2>1, <2>2 DEF GoodMems, Mems
<1>17. Keeps(m, v)
  <2>1. Keeps(g, v)
    BY <1>14, <1>15 DEF Keeps, Present
  <2> QED
    BY <1>4, <2>1, KeepsOrder
<1>18. \A b \in Blocks : v.p.ref[b] = IF b \in C THEN 1 ELSE m.p.ref[b]
  BY <1>4, <1>14, <1>15
<1>19. ASSUME NEW q \in Requests, NEW i \in DOMAIN t[q]
       PROVE  /\ t[q][i] \in Blocks /\ t[q][i] \notin C
              /\ q # r \/ i # Len(t[q]) => /\ v.p.hash[t[q][i]] = m.p.hash[t[q][i]]
                                           /\ v.p.bytes[t[q][i]] = m.p.bytes[t[q][i]]
  <2> DEFINE b == t[q][i]
  <2>1. b \in Blocks /\ b \notin C
    BY <1>1, <1>2, TableFacts
  <2>2. ASSUME q # r \/ i # Len(t[q]), NEW j \in n + 1 .. Len(s) PROVE bs[j] # b
    <3>1. CASE bs[j] \in C
      BY <2>1, <3>1
    <3>2. CASE OwnTail(t, m.p, r) /\ bs[j] = Last(a)
      BY <1>8, <2>2, <3>2 DEF OwnTail
    <3> QED
      BY <1>10, <3>1, <3>2
  <2> HIDE DEF b
  <2>3. ASSUME q # r \/ i # Len(t[q])
        PROVE  v.p.hash[b] = m.p.hash[b] /\ v.p.bytes[b] = m.p.bytes[b]
    <3>1. x.hash[b] = g.p.hash[b] /\ x.bytes[b] = w.bytes[b]
      BY <1>14, <2>1, <2>2, <2>3
    <3>2. b # Last(bs)
      BY <1>2, <2>1
    <3> QED
      BY <1>4, <1>13, <1>15, <2>1, <3>1, <3>2
  <2> QED
    BY <2>1, <2>3 DEF b
<1>20. CountsCover(u, v.p)
  <2> SUFFICES ASSUME NEW b \in Blocks PROVE UsesIn(u, b) <= v.p.ref[b]
    BY DEF CountsCover
  <2>1. CASE b \in C
    <3>1. UsesIn(u, b) = 0 + 1 /\ v.p.ref[b] = 1
      BY <1>2, <1>7, <1>18, <2>1
    <3> QED
      BY <3>1
  <2>2. CASE b \notin C
    <3>1. UsesIn(u, b) = UsesIn(t, b) + 0 /\ UsesIn(t, b) \in Nat /\ v.p.ref[b] = m.p.ref[b]
      BY <1>7, <1>18, <2>2
    <3>2. UsesIn(u, b) = UsesIn(t, b)
      BY <3>1
    <3> QED
      BY <1>1, <3>1, <3>2 DEF CountsCover
  <2> QED
    BY <2>1, <2>2
<1>21. ASSUME NEW b \in Blocks, b \notin C, UsesIn(t, b) < m.p.ref[b] PROVE UsesIn(u, b) < v.p.ref[b]
  <2>1. UsesIn(u, b) = UsesIn(t, b) + 0 /\ UsesIn(t, b) \in Nat /\ v.p.ref[b] = m.p.ref[b]
    BY <1>7, <1>18, <1>21
  <2>2. UsesIn(u, b) = UsesIn(t, b)
    BY <2>1
  <2> QED
    BY <1>21, <2>1, <2>2
<1>22. DOMAIN bs = 1 .. Len(bs)
  BY <1>2, SeqFacts
<1>23. TwiceIsLent(u, v.p)
  <2> SUFFICES ASSUME NEW q \in Requests, NEW i \in DOMAIN u[q], NEW j \in DOMAIN u[q],
                      u[q][i] = u[q][j], i # j
               PROVE  UsesIn(u, u[q][i]) < v.p.ref[u[q][i]]
    BY DEF TwiceIsLent
  <2>1. CASE q # r
    <3>1. u[q] = t[q]
      BY <1>6, <2>1
    <3>2. t[q][i] \in Blocks /\ t[q][i] \notin C /\ UsesIn(t, t[q][i]) < m.p.ref[t[q][i]]
      BY <1>1, <1>19, <3>1 DEF TwiceIsLent
    <3> QED
      BY <1>21, <3>1, <3>2
  <2>2. CASE q = r
    <3>1. i \in 1 .. Len(bs) /\ j \in 1 .. Len(bs) /\ bs[i] = bs[j] /\ u[q][i] = bs[i]
      BY <1>6, <1>22, <2>2
    <3>2. bs[i] \notin C
      BY <1>2, <3>1
    <3>3. i \in 1 .. Len(a) /\ j \in 1 .. Len(a) /\ bs[i] = a[i] /\ bs[j] = a[j]
      BY <1>2, <3>1, <3>2
    <3>4. UsesIn(t, a[i]) < m.p.ref[a[i]]
      BY <1>1, <1>8, <3>1, <3>3 DEF TwiceIsLent
    <3>5. a[i] \in Blocks
      BY <1>2, <3>3, SeqFacts
    <3> QED
      BY <1>21, <3>1, <3>2, <3>3, <3>4, <3>5
  <2> QED
    BY <2>1, <2>2
<1>24. TailsAreOwn(u, v.p, Requests)
  <2> SUFFICES ASSUME NEW q \in Requests, u[q] # <<>> PROVE OwnTail(u, v.p, q)
    BY DEF TailsAreOwn
  <2>1. CASE q # r
    <3>1. u[q] = t[q] /\ t[q] # <<>>
      BY <1>6, <2>1
    <3>2. OwnTail(t, m.p, q)
      BY <1>1, <2>1, <3>1 DEF TailsAreOwn
    <3>3. Len(t[q]) \in DOMAIN t[q] /\ Last(t[q]) = t[q][Len(t[q])]
      BY <1>1, <3>1, TableFacts
    <3>4. v.p.hash[Last(t[q])] = NoHash /\ Last(t[q]) \notin C
      BY <1>19, <2>1, <3>2, <3>3 DEF OwnTail
    <3>5. ASSUME NEW o \in Requests, NEW i \in DOMAIN u[o], u[o][i] = Last(t[q])
          PROVE  o = q /\ i = Len(t[q])
      <4>1. CASE o # r
        BY <1>6, <3>2, <3>5, <4>1 DEF OwnTail
      <4>2. CASE o = r
        <5>1. i \in 1 .. Len(bs) /\ bs[i] = Last(t[q])
          BY <1>6, <1>22, <3>5, <4>2
        <5>2. i \in 1 .. Len(a) /\ a[i] = Last(t[q])
          BY <1>2, <3>4, <5>1
        <5> QED
          BY <1>8, <2>1, <3>2, <5>2 DEF OwnTail
      <4> QED
        BY <4>1, <4>2
    <3> QED
      BY <3>1, <3>4, <3>5 DEF OwnTail
  <2>2. CASE q = r
    <3>1. u[q] = bs
      BY <1>6, <2>2
    <3>2. v.p.hash[Last(bs)] = NoHash
      <4>1. \A i \in n + 1 .. Len(s) : bs[i] # Last(bs)
        BY <1>11
      <4>2. Last(bs) \in Blocks /\ Last(bs) \in C
        BY <1>2
      <4> QED
        BY <1>4, <1>14, <1>15, <4>1, <4>2
    <3>3. ASSUME NEW o \in Requests, NEW i \in DOMAIN u[o], u[o][i] = Last(bs)
          PROVE  o = r /\ i = Len(bs)
      <4>1. CASE o # r
        BY <1>2, <1>6, <3>3, <4>1
      <4>2. CASE o = r
        <5>1. i \in 1 .. Len(bs) /\ bs[i] = Last(bs)
          BY <1>6, <1>22, <3>3, <4>2
        <5> QED
          BY <1>2, <4>2, <5>1
      <4> QED
        BY <4>1, <4>2
    <3> QED
      BY <2>2, <3>1, <3>2, <3>3 DEF OwnTail
  <2> QED
    BY <2>1, <2>2
<1>25. \A i \in n + 1 .. Len(s) : v.p.map[s[i]] # <<>>
  BY <1>14, <1>15
<1>26. \A i \in 1 .. Len(a) : bs[i] = a[i]
  BY <1>2
<1>27. \A q \in Requests : \A i \in DOMAIN t[q] :
         q # r \/ i # Len(t[q]) => v.p.bytes[t[q][i]] = m.p.bytes[t[q][i]]
  BY <1>19
<1> QED
  <2>1. RunsTo(m, t, r, s, n, bs, u, v)
    BY <1>2, <1>5, <1>6, <1>8, <1>16, <1>17, <1>20, <1>23, <1>24, <1>25, <1>26, <1>27 DEF RunsTo
  <2> QED
    BY <2>1 DEF a, c, bs, g, u, v

-----------------------------------------------------------------------------
(* The steps *)

LEMMA KeepsRemembered ==
  ASSUME NEW m, NEW u, Keeps(m, u), NEW k, NEW x, Remembered(k, x, m)
  PROVE  Remembered(k, x, u)
BY DEF Keeps, Remembered

LEMMA TextFacts ==
  ASSUME NEW s \in Texts
  PROVE  /\ s \in Seq(Hashes) /\ IsInjective(s) /\ Len(s) \in Nat
         /\ ToSet(s) = {s[i] : i \in 1 .. Len(s)} /\ \A i \in 1 .. Len(s) : s[i] \in Hashes
<1>1. s \in Seq(Hashes) /\ IsInjective(s)
  BY DEF CacheAssumption
<1> QED
  BY <1>1, SeqFacts

(* A request that has the blocks t[r] in t, and is otherwise as in z, runs.  *)
LEMMA RunsStep ==
  ASSUME NEW m, NEW t, NEW r \in Requests, HeldFor(m, t, r), NEW e \in 1 .. Free(m),
         NEW s \in Texts, NEW n \in 0 .. Len(s), Len(t[r]) + e = Len(s) + 1,
         FillsOwn(m, t, r, s, n),
         NEW z, NEW x, TablesOK(z, x), t = [z EXCEPT ![r] = t[r]],
         NEW k, Remembered(k, x, m),
         \A i \in 1 .. n : DiskOn /\ m.t.cap = 0 => Present(m, s[i])
  PROVE  LET bs == t[r] \o Coldest(m, e)
         IN  Whole(Running(GetNew(m, e), bs, s, n), [z EXCEPT ![r] = bs], [x EXCEPT ![r] = s],
                   k \cup ToSet(s))
<1> DEFINE bs == t[r] \o Coldest(m, e)
           u  == [t EXCEPT ![r] = bs]
           v  == Running(GetNew(m, e), bs, s, n)
           y  == [x EXCEPT ![r] = s]
           l  == k \cup ToSet(s)
<1>1. /\ s \in Seq(Hashes) /\ Len(s) \in Nat /\ ToSet(s) = {s[i] : i \in 1 .. Len(s)}
      /\ \A i \in 1 .. Len(s) : s[i] \in Hashes
  BY TextFacts
<1>2. /\ v \in GoodMems /\ Keeps(m, v) /\ u \in Tables /\ u[r] = bs
      /\ bs \in Seq(Blocks) /\ Len(bs) = Len(s) + 1
      /\ CountsCover(u, v.p) /\ TwiceIsLent(u, v.p) /\ TailsAreOwn(u, v.p, Requests)
      /\ \A i \in n + 1 .. Len(s) : v.p.map[s[i]] # <<>>
  <2>1. RunsTo(m, t, r, s, n, bs, u, v)
    BY <1>1, RunsGood
  <2> HIDE DEF bs, u, v
  <2> QED
    BY <2>1 DEF RunsTo
<1>3. z \in Tables /\ x \in [Requests -> Texts \cup {<<>>}]
  BY DEF TablesOK
<1>4. u = [z EXCEPT ![r] = bs]
  BY <1>3 DEF Tables
<1> HIDE DEF bs, u, v
<1>5. /\ y \in [Requests -> Texts \cup {<<>>}] /\ y[r] = s
      /\ \A q \in Requests : q # r => y[q] = x[q] /\ u[q] = z[q]
  BY <1>3, <1>4 DEF Tables
<1> HIDE DEF y
<1>6. TablesOK(u, y)
  <2> SUFFICES ASSUME NEW q \in Requests
               PROVE  \/ u[q] = <<>> /\ y[q] = <<>>
                      \/ Len(u[q]) = Len(y[q]) + 1
    BY <1>2, <1>5 DEF TablesOK
  <2>1. CASE q = r
    BY <1>2, <1>5, <2>1
  <2>2. CASE q # r
    BY <1>5, <2>2 DEF TablesOK
  <2> QED
    BY <2>1, <2>2
<1>7. Remembered(l, y, v)
  <2>1. l \subseteq Hashes
    BY <1>1 DEF Remembered
  <2>2. ASSUME NEW q \in Requests PROVE ToSet(y[q]) \subseteq l
    <3>1. CASE q = r
      BY <1>5, <3>1
    <3>2. CASE q # r
      BY <1>5, <3>2 DEF Remembered
    <3> QED
      BY <3>1, <3>2
  <2>3. ASSUME DiskOn, v.t.cap = 0, NEW h \in l PROVE Present(v, h)
    <3>1. m.t.cap = 0
      BY <1>2, <2>3 DEF Keeps
    <3>2. CASE Present(m, h)
      BY <1>2, <2>1, <2>3, <3>1, <3>2 DEF Keeps
    <3>3. CASE h \in k
      BY <2>3, <3>1, <3>2, <3>3 DEF Remembered
    <3>4. CASE h \in ToSet(s)
      <4>1. PICK i \in 1 .. Len(s) : h = s[i]
        BY <1>1, <3>4
      <4>2. CASE i \in 1 .. n
        BY <2>3, <3>1, <3>2, <4>1, <4>2
      <4>3. CASE i \in n + 1 .. Len(s)
        BY <1>2, <4>1, <4>3 DEF Present
      <4> QED
        BY <1>1, <4>2, <4>3
    <3> QED
      BY <3>3, <3>4
  <2> QED
    BY <2>1, <2>2, <2>3 DEF Remembered
<1>8. Whole(v, u, y, l)
  BY <1>2, <1>6, <1>7 DEF Whole
<1> QED
  BY <1>4, <1>8 DEF bs, v, y

LEMMA Settles ==
  ASSUME NEW m \in GoodMems, Settle(m)
  PROVE  Memory' = m
<1>1. m = [p |-> m.p, t |-> m.t]
  BY GoodMemFacts, MemFacts
<1> QED
  BY <1>1 DEF Settle, Memory

(* What RunningKeepsBlocks says of a step.                                   *)
Undisturbed ==
  \A r \in Requests :
    table[r] # <<>> /\ table'[r] # <<>> =>
       \A i \in DOMAIN text[r] : /\ table'[r][i] = table[r][i]
                                 /\ pool'.bytes[table[r][i]] = pool.bytes[table[r][i]]

LEMMA TextInTable ==
  ASSUME NEW t, NEW x, TablesOK(t, x), NEW r \in Requests, NEW i \in DOMAIN x[r]
  PROVE  i \in DOMAIN t[r] /\ i # Len(t[r])
<1>1. t \in Tables /\ x[r] \in Seq(Hashes)
  <2>1. x[r] \in Texts \cup {<<>>}
    BY DEF TablesOK
  <2> QED
    BY <2>1, TextFacts, EmptySeq DEF TablesOK
<1>2. DOMAIN x[r] = 1 .. Len(x[r]) /\ Len(x[r]) \in Nat
  BY <1>1, SeqFacts
<1>3. i \in 1 .. Len(x[r]) /\ Len(x[r]) # 0
  BY <1>2
<1>4. x[r] # <<>>
  BY <1>1, <1>3, EmptySeq
<1>5. Len(t[r]) = Len(x[r]) + 1
  BY <1>4 DEF TablesOK
<1>6. DOMAIN t[r] = 1 .. Len(t[r])
  BY <1>1, TableFacts
<1> QED
  BY <1>2, <1>3, <1>5, <1>6

(* The blocks a request misses are there, when the scheduler finds room.     *)
LEMMA RoomForMisses ==
  ASSUME NEW m \in GoodMems, NEW hits \in Seq(Blocks), NEW s \in Seq(Hashes),
         Len(hits) <= Len(s), ~(Needed(m.p, s, hits) > Free(m))
  PROVE  Len(s) + 1 - Len(hits) \in 1 .. Free([m EXCEPT !.p = FoldLeft(Touched, @, hits)])
<1> DEFINE q == FoldLeft(Touched, m.p, hits)
           c == Cardinality({i \in DOMAIN hits : m.p.ref[hits[i]] = 0})
           u == [m EXCEPT !.p = FoldLeft(Touched, @, hits)]
<1>1. m.p \in Pools
  BY GoodMemFacts DEF Pools
<1>2. /\ Len(m.p.queue) \in Nat /\ Len(q.queue) \in Nat /\ c \in Nat
      /\ Len(m.p.queue) <= Len(q.queue) + c
  BY <1>1, TouchedRoom
<1>3. Free(u) = Len(q.queue)
  <2>1. u.p = q
    BY TouchedMem
  <2> QED
    BY <2>1 DEF Free
<1>4. ~(Len(s) + 1 - Len(hits) + c > Len(m.p.queue))
  BY DEF Needed, Free
<1>5. Len(s) \in Nat /\ Len(hits) \in Nat
  BY SeqFacts
<1> HIDE DEF c, q, u
<1>6. Len(s) + 1 - Len(hits) \in 1 .. Len(q.queue)
  BY <1>2, <1>4, <1>5
<1> QED
  BY <1>3, <1>6 DEF u

LEMMA ScheduleKeeps ==
  ASSUME IInv, NEW r \in Requests, NEW s \in Texts, Schedule(r, s)
  PROVE  IInv' /\ Undisturbed
<1> DEFINE m == Memory
           l == LongestHit(m, s)
           v == [l.m EXCEPT !.p = FoldLeft(Touched, @, l.hits)]
           e == Len(s) + 1 - Len(l.hits)
           t == [table EXCEPT ![r] = l.hits]
           bs == l.hits \o Coldest(v, e)
           n == Len(l.hits)
           w == Running(GetNew(v, e), bs, s, n)
<1>1. /\ m \in GoodMems /\ TablesOK(table, text) /\ CountsCover(table, m.p)
      /\ TwiceIsLent(table, m.p) /\ TailsAreOwn(table, m.p, Requests)
      /\ Remembered(known, text, m)
  BY DEF IInv, Whole
<1>2. table \in Tables /\ table[r] = <<>> /\ m.p = pool
  BY <1>1 DEF TablesOK, Schedule, Memory
<1>3. s \in Seq(Hashes) /\ IsInjective(s) /\ Len(s) \in Nat
  BY TextFacts
<1>4. HitsAre(m, s, l)
  BY <1>1, <1>3, HitsGood
<1>5. Place(r, s, l)
  BY DEF Schedule
<1> HIDE DEF m, l
<1>6. /\ l.m \in GoodMems /\ Loans(m, l.m) /\ Keeps(m, l.m)
      /\ l.hits \in Seq(Blocks) /\ Len(l.hits) \in 0 .. Len(s)
      /\ \A i \in 1 .. Len(l.hits) : DiskOn /\ m.t.cap = 0 => Present(l.m, s[i])
  BY <1>4 DEF HitsAre, Loans
<1>7. /\ CountsCover(table, l.m.p) /\ TwiceIsLent(table, l.m.p)
      /\ TailsAreOwn(table, l.m.p, Requests)
      /\ \A q \in Requests : \A i \in DOMAIN table[q] :
           l.m.p.bytes[table[q][i]] = m.p.bytes[table[q][i]]
  BY <1>1, <1>2, <1>6, LoansKeepTables
<1>8. Remembered(known, text, l.m)
  BY <1>1, <1>6, KeepsRemembered
<1>9. CASE Needed(l.m.p, s, l.hits) > Free(l.m)
  <2>1. Settle(l.m) /\ UNCHANGED <<text, table, known>>
    BY <1>5, <1>9 DEF Place
  <2>2. Memory' = l.m /\ pool' = l.m.p
    BY <1>6, <2>1, Settles DEF Settle
  <2>3. Whole(l.m, table, text, known)
    BY <1>1, <1>6, <1>7, <1>8 DEF Whole
  <2>4. IInv'
    BY <2>1, <2>2, <2>3 DEF IInv
  <2>5. Undisturbed
    <3> SUFFICES ASSUME NEW q \in Requests, NEW i \in DOMAIN text[q]
                 PROVE  table'[q][i] = table[q][i] /\ pool'.bytes[table[q][i]] = pool.bytes[table[q][i]]
      BY DEF Undisturbed
    <3>1. i \in DOMAIN table[q]
      BY <1>1, TextInTable
    <3> QED
      BY <1>2, <1>7, <2>1, <2>2, <3>1
  <2> QED
    BY <2>4, <2>5
<1>10. CASE ~(Needed(l.m.p, s, l.hits) > Free(l.m))
  <2>1. Runs(r, s, n, bs, GetNew(v, e))
    BY <1>5, <1>10 DEF Place
  <2>2. Len(l.hits) \in Nat /\ Len(l.hits) <= Len(s) /\ n \in 0 .. Len(s)
    BY <1>3, <1>6
  <2>3. e \in 1 .. Free(v)
    BY <1>3, <1>6, <1>10, <2>2, RoomForMisses
  <2>4. HeldFor(v, t, r)
    BY <1>1, <1>2, <1>3, <1>4, HitsHeld
  <2>5. t[r] = l.hits /\ t = [table EXCEPT ![r] = t[r]] /\ \A q \in Requests : q # r => t[q] = table[q]
    BY <1>2, <1>6 DEF Tables
  <2>6. v \in GoodMems /\ Keeps(l.m, v) /\ v.p.bytes = l.m.p.bytes
    BY <1>6, TouchedMem
  <2>7. Remembered(known, text, v)
    BY <1>8, <2>6, KeepsRemembered
  <2>8. \A i \in 1 .. n : DiskOn /\ v.t.cap = 0 => Present(v, s[i])
    <3> SUFFICES ASSUME NEW i \in 1 .. n, DiskOn, v.t.cap = 0 PROVE Present(v, s[i])
      OBVIOUS
    <3>1. l.m.t.cap = 0 /\ m.t.cap = 0
      BY <1>6, <2>6 DEF Keeps
    <3>2. s[i] \in Hashes
      <4>1. i \in 1 .. Len(s)
        BY <1>3, <2>2
      <4> QED
        BY <1>3, <4>1, SeqFacts
    <3> QED
      BY <1>6, <2>6, <3>1, <3>2 DEF Keeps
  <2> HIDE DEF v, t
  <2>9. e + n = Len(s) + 1 /\ Len(t[r]) + e = Len(s) + 1 /\ n = Len(t[r])
    BY <1>3, <2>2, <2>5
  <2>10. FillsOwn(v, t, r, s, n)
    BY <2>9 DEF FillsOwn
  <2> HIDE DEF e
  <2>11. bs = t[r] \o Coldest(v, e)
    BY <2>5
  <2> HIDE DEF bs, n
  <2>12. Whole(w, [table EXCEPT ![r] = bs], [text EXCEPT ![r] = s], known \cup ToSet(s))
    BY <1>1, <2>2, <2>3, <2>4, <2>5, <2>7, <2>8, <2>9, <2>10, <2>11, RunsStep
  <2>13. RunsTo(v, t, r, s, n, bs, [t EXCEPT ![r] = bs], w)
    BY <1>3, <2>2, <2>3, <2>4, <2>9, <2>10, <2>11, RunsGood
  <2>14. Settle(w)
    BY <2>1 DEF Runs, Running
  <2>15. w \in GoodMems
    BY <2>12 DEF Whole
  <2>16. Memory' = w /\ pool' = w.p
    BY <2>14, <2>15, Settles DEF Settle
  <2> HIDE DEF w
  <2>17. /\ table' = [table EXCEPT ![r] = bs] /\ text' = [text EXCEPT ![r] = s]
         /\ known' = known \cup ToSet(s)
    BY <2>1 DEF Runs
  <2>18. IInv'
    BY <2>12, <2>16, <2>17 DEF IInv
  <2>19. Undisturbed
    <3> SUFFICES ASSUME NEW q \in Requests, table[q] # <<>>, NEW i \in DOMAIN text[q]
                 PROVE  table'[q][i] = table[q][i] /\ pool'.bytes[table[q][i]] = pool.bytes[table[q][i]]
      BY DEF Undisturbed
    <3>1. i \in DOMAIN table[q] /\ q # r
      BY <1>1, <1>2, TextInTable
    <3>2. table'[q] = table[q] /\ t[q] = table[q]
      BY <1>2, <2>5, <2>17, <3>1 DEF Tables
    <3>3. w.p.bytes[t[q][i]] = v.p.bytes[t[q][i]]
      BY <2>13, <3>1, <3>2 DEF RunsTo
    <3> QED
      BY <1>2, <1>7, <2>6, <2>16, <3>1, <3>2, <3>3
  <2> QED
    BY <2>18, <2>19
<1> QED
  BY <1>9, <1>10

LEMMA ExtendKeeps ==
  ASSUME IInv, NEW r \in Requests, NEW h \in Hashes, Extend(r, h)
  PROVE  IInv' /\ Undisturbed
<1> DEFINE m == Memory
           a == text[r]
           s == Append(a, h)
           e == 1
           bs == table[r] \o Coldest(m, e)
           n == Len(s) - 1
           w == Running(GetNew(m, e), bs, s, n)
<1>1. /\ m \in GoodMems /\ TablesOK(table, text) /\ CountsCover(table, m.p)
      /\ TwiceIsLent(table, m.p) /\ TailsAreOwn(table, m.p, Requests)
      /\ Remembered(known, text, m)
  BY DEF IInv, Whole
<1>2. table \in Tables /\ m.p = pool
  BY <1>1 DEF TablesOK, Memory
<1>3. table[r] # <<>> /\ s \in Texts /\ Free(m) > 0 /\ Runs(r, s, n, bs, GetNew(m, e))
  BY DEF Extend
<1> HIDE DEF m
<1>4. /\ a \in Seq(Hashes) /\ Len(a) \in Nat /\ Len(table[r]) = Len(a) + 1
      /\ Len(s) = Len(a) + 1 /\ \A i \in 1 .. Len(a) : s[i] = a[i] /\ a[i] \in ToSet(a)
  <2>1. a \in Texts \cup {<<>>}
    BY <1>1 DEF TablesOK
  <2>2. a \in Seq(Hashes)
    BY <2>1, TextFacts, EmptySeq
  <2>3. Len(table[r]) = Len(a) + 1
    BY <1>1, <1>3 DEF TablesOK
  <2> HIDE DEF a
  <2>4. Len(s) = Len(a) + 1 /\ \A i \in 1 .. Len(a) : s[i] = a[i]
    BY <2>2, AppendProperties
  <2>5. Len(a) \in Nat /\ \A i \in 1 .. Len(a) : a[i] \in ToSet(a)
    BY <2>2, SeqFacts
  <2> QED
    BY <2>2, <2>3, <2>4, <2>5
<1> HIDE DEF s
<1>5. n = Len(a) /\ n \in 0 .. Len(s) /\ Len(table[r]) + e = Len(s) + 1
  BY <1>4
<1>6. FillsOwn(m, table, r, s, n)
  <2>1. OwnTail(table, m.p, r)
    BY <1>1, <1>3 DEF TailsAreOwn
  <2> QED
    BY <1>3, <1>4, <1>5, <2>1 DEF FillsOwn
<1>7. e \in 1 .. Free(m)
  BY <1>1, <1>3, GoodMemFacts, LenProperties DEF Free
<1>8. HeldFor(m, table, r)
  BY <1>1, <1>2 DEF HeldFor, TailsAreOwn
<1>9. table = [table EXCEPT ![r] = table[r]]
  BY <1>2 DEF Tables
<1>10. \A i \in 1 .. n : DiskOn /\ m.t.cap = 0 => Present(m, s[i])
  BY <1>1, <1>4, <1>5 DEF Remembered
<1> HIDE DEF n, e, a
<1>11. Whole(w, [table EXCEPT ![r] = bs], [text EXCEPT ![r] = s], known \cup ToSet(s))
  BY <1>1, <1>3, <1>5, <1>6, <1>7, <1>8, <1>9, <1>10, RunsStep
<1>12. RunsTo(m, table, r, s, n, bs, [table EXCEPT ![r] = bs], w)
  BY <1>3, <1>5, <1>6, <1>7, <1>8, RunsGood, TextFacts
<1>13. Settle(w) /\ w \in GoodMems
  BY <1>3, <1>11 DEF Runs, Running, Whole
<1>14. Memory' = w /\ pool' = w.p
  BY <1>13, Settles DEF Settle
<1> HIDE DEF w, bs
<1>15. /\ table' = [table EXCEPT ![r] = bs] /\ text' = [text EXCEPT ![r] = s]
       /\ known' = known \cup ToSet(s)
  BY <1>3 DEF Runs
<1>16. IInv'
  BY <1>11, <1>14, <1>15 DEF IInv
<1>17. Undisturbed
  <2> SUFFICES ASSUME NEW q \in Requests, NEW i \in DOMAIN text[q]
               PROVE  table'[q][i] = table[q][i] /\ pool'.bytes[table[q][i]] = pool.bytes[table[q][i]]
    BY DEF Undisturbed
  <2>1. i \in DOMAIN table[q] /\ i # Len(table[q])
    BY <1>1, TextInTable
  <2>2. w.p.bytes[table[q][i]] = m.p.bytes[table[q][i]]
    BY <1>12, <2>1 DEF RunsTo
  <2>3. table'[q][i] = table[q][i]
    <3>1. CASE q = r
      <4>1. i \in 1 .. Len(table[r])
        BY <1>2, <2>1, <3>1, TableFacts
      <4>2. bs[i] = table[r][i]
        BY <1>12, <4>1 DEF RunsTo
      <4> QED
        BY <1>2, <1>15, <3>1, <4>2 DEF Tables
    <3>2. CASE q # r
      BY <1>2, <1>15, <3>2 DEF Tables
    <3> QED
      BY <3>1, <3>2
  <2> QED
    BY <1>2, <1>14, <2>2, <2>3
<1> QED
  BY <1>16, <1>17

LEMMA FinishKeeps ==
  ASSUME IInv, NEW r \in Requests, Finish(r)
  PROVE  IInv' /\ Undisturbed
<1> DEFINE m == Memory
           a == table[r]
           b == Reverse(a)
           q == Freed(pool, b)
           t == [table EXCEPT ![r] = <<>>]
           x == [text EXCEPT ![r] = <<>>]
           w == [p |-> q, t |-> tiers]
<1>1. /\ m \in GoodMems /\ TablesOK(table, text) /\ CountsCover(table, m.p)
      /\ TwiceIsLent(table, m.p) /\ TailsAreOwn(table, m.p, Requests)
      /\ Remembered(known, text, m)
  BY DEF IInv, Whole
<1>2. table \in Tables /\ text \in [Requests -> Texts \cup {<<>>}] /\ m.p = pool /\ m.t = tiers
  BY <1>1 DEF TablesOK, Memory
<1>3. pool' = q /\ table' = t /\ text' = x /\ tiers' = tiers /\ known' = known
  BY DEF Finish
<1>4. a \in Seq(Blocks) /\ pool \in Pools /\ <<>> \in Seq(Blocks)
  BY <1>1, <1>2, GoodMemFacts, TableFacts, EmptySeq DEF Pools
<1> HIDE DEF m
<1>5. /\ b \in Seq(Blocks) /\ Len(b) = Len(a)
      /\ \A i \in 1 .. Len(a) : b[i] = a[(Len(a) - i) + 1]
      /\ \A c : Count(b, c) = Count(a, c)
  BY <1>4, CountReverse
<1>6. \A c \in Blocks : /\ UsesIn(table, c) \in Nat /\ UsesIn(t, c) \in Nat /\ Count(a, c) \in Nat
                        /\ UsesIn(t, c) = UsesIn(table, c) - Count(a, c)
                        /\ Count(a, c) <= UsesIn(table, c) /\ UsesIn(table, c) <= pool.ref[c]
                        /\ pool.ref[c] \in Nat
  <2> TAKE c \in Blocks
  <2>1. UsesMoved(table, t, a, <<>>, c)
    BY <1>2, <1>4, UsesChange
  <2>2. Count(<<>>, c) = 0
    BY CountEmpty
  <2>3. UsesIn(table, c) <= pool.ref[c] /\ pool.ref[c] \in Nat
    BY <1>1, <1>2, GoodMemFacts DEF CountsCover
  <2> HIDE DEF t, a
  <2> QED
    BY <2>1, <2>2, <2>3 DEF UsesMoved
<1>7. \A c \in Blocks : Count(b, c) <= pool.ref[c]
  <2> TAKE c \in Blocks
  <2>1. /\ UsesIn(table, c) \in Nat /\ Count(a, c) \in Nat /\ pool.ref[c] \in Nat
        /\ Count(a, c) <= UsesIn(table, c) /\ UsesIn(table, c) <= pool.ref[c]
    BY <1>6
  <2> QED
    BY <1>5, <2>1
<1>8. DOMAIN a = 1 .. Len(a) /\ DOMAIN b = 1 .. Len(a) /\ Len(a) \in Nat
      /\ (\A i \in 1 .. Len(a) : a[i] \in Blocks)
  BY <1>4, <1>5, SeqFacts
<1>9. \A i, j \in DOMAIN b : b[i] = b[j] /\ i # j => Count(b, b[i]) < pool.ref[b[i]]
  <2> SUFFICES ASSUME NEW i \in 1 .. Len(a), NEW j \in 1 .. Len(a), b[i] = b[j], i # j
               PROVE  Count(b, b[i]) < pool.ref[b[i]]
    BY <1>8
  <2> HIDE DEF a, b
  <2> DEFINE k == (Len(a) - i) + 1
             l == (Len(a) - j) + 1
  <2>1. k \in 1 .. Len(a) /\ l \in 1 .. Len(a) /\ k # l
    BY <1>8
  <2>2. b[i] = a[k] /\ b[j] = a[l]
    BY <1>5
  <2> HIDE DEF k, l
  <2>3. UsesIn(table, a[k]) < m.p.ref[a[k]]
    BY <1>1, <1>8, <2>1, <2>2 DEF TwiceIsLent, a
  <2>4. a[k] \in Blocks
    BY <1>8, <2>1
  <2> DEFINE c == a[k]
  <2>5. /\ UsesIn(table, c) < pool.ref[c] /\ Count(a, c) <= UsesIn(table, c)
        /\ Count(a, c) \in Nat /\ UsesIn(table, c) \in Nat /\ pool.ref[c] \in Nat
    BY <1>2, <1>6, <2>3, <2>4
  <2> HIDE DEF c
  <2>6. Count(a, c) < pool.ref[c]
    BY <2>5
  <2> QED
    BY <1>5, <2>2, <2>6 DEF c
<1>10. /\ q \in Pools /\ q.hash = pool.hash /\ q.map = pool.map /\ q.bytes = pool.bytes
       /\ \A c \in Blocks : q.ref[c] = pool.ref[c] - Count(b, c)
  BY <1>4, <1>5, <1>7, <1>9, FreedGood
<1> HIDE DEF q, b, w
<1>11. /\ w \in GoodMems /\ Memory' = w /\ w.p = q /\ w.t = tiers
  <2>1. m.t \in GoodTiers /\ Mapped(m.p)
    BY <1>1, GoodMemFacts
  <2>2. Mapped(q)
    BY <1>2, <1>10, <2>1 DEF Mapped
  <2>3. w \in GoodMems
    BY <1>2, <1>10, <2>1, <2>2 DEF GoodMems, Mems, Pools, w
  <2> QED
    BY <1>3, <2>3 DEF Memory, w
<1>12. /\ t \in Tables /\ t[r] = <<>> /\ x \in [Requests -> Texts \cup {<<>>}] /\ x[r] = <<>>
       /\ \A o \in Requests : o # r => t[o] = table[o] /\ x[o] = text[o]
  BY <1>2, <1>4 DEF Tables
<1> HIDE DEF t, x, a
<1>13. \A c \in Blocks : /\ UsesIn(t, c) <= q.ref[c]
                         /\ UsesIn(table, c) < pool.ref[c] => UsesIn(t, c) < q.ref[c]
  <2> TAKE c \in Blocks
  <2>1. /\ UsesIn(table, c) \in Nat /\ Count(a, c) \in Nat /\ pool.ref[c] \in Nat
        /\ UsesIn(t, c) = UsesIn(table, c) - Count(a, c) /\ UsesIn(table, c) <= pool.ref[c]
        /\ q.ref[c] = pool.ref[c] - Count(a, c)
    BY <1>5, <1>6, <1>10
  <2> QED
    BY <2>1
<1>14. CountsCover(t, w.p)
  BY <1>11, <1>13 DEF CountsCover
<1>15. \A i : i \notin DOMAIN <<>>
  OBVIOUS
<1>16. TwiceIsLent(t, w.p)
  <2> SUFFICES ASSUME NEW o \in Requests, NEW i \in DOMAIN t[o], NEW j \in DOMAIN t[o],
                      t[o][i] = t[o][j], i # j
               PROVE  UsesIn(t, t[o][i]) < w.p.ref[t[o][i]]
    BY DEF TwiceIsLent
  <2>1. t[o] = table[o]
    BY <1>12, <1>15
  <2>2. table[o][i] \in Blocks /\ UsesIn(table, table[o][i]) < m.p.ref[table[o][i]]
    BY <1>1, <1>2, <2>1, TableFacts DEF TwiceIsLent
  <2> QED
    BY <1>2, <1>11, <1>13, <2>1, <2>2
<1>17. TailsAreOwn(t, w.p, Requests)
  <2> SUFFICES ASSUME NEW o \in Requests, t[o] # <<>> PROVE OwnTail(t, w.p, o)
    BY DEF TailsAreOwn
  <2>1. t[o] = table[o]
    BY <1>12
  <2>2. OwnTail(table, m.p, o)
    BY <1>1, <2>1 DEF TailsAreOwn
  <2>3. w.p.hash[Last(t[o])] = NoHash
    BY <1>2, <1>10, <1>11, <2>1, <2>2 DEF OwnTail
  <2>4. ASSUME NEW k \in Requests, NEW i \in DOMAIN t[k], t[k][i] = Last(t[o])
        PROVE  k = o /\ i = Len(t[o])
    <3>1. t[k] = table[k]
      BY <1>12, <1>15, <2>4
    <3> QED
      BY <2>1, <2>2, <2>4, <3>1 DEF OwnTail
  <2> QED
    BY <2>3, <2>4 DEF OwnTail
<1>18. TablesOK(t, x)
  BY <1>1, <1>12 DEF TablesOK
<1>19. Remembered(known, x, w)
  <2>1. \A h \in Hashes : Present(m, h) => Present(w, h)
    BY <1>2, <1>10, <1>11 DEF Present
  <2>2. \A o \in Requests : ToSet(x[o]) \subseteq known
    <3>1. ToSet(<<>>) = {}
      BY DEF ToSet
    <3> QED
      BY <1>1, <1>12, <3>1 DEF Remembered
  <2> QED
    BY <1>1, <1>2, <1>11, <2>1, <2>2 DEF Remembered
<1>20. IInv'
  BY <1>3, <1>11, <1>14, <1>16, <1>17, <1>18, <1>19 DEF IInv, Whole
<1>21. Undisturbed
  BY <1>3, <1>10, <1>12 DEF Undisturbed
<1> QED
  BY <1>20, <1>21

(* Nothing is cached, and where no request has a block the tables say        *)
(* nothing.                                                                  *)
LEMMA EmptyTables ==
  ASSUME NEW m \in GoodMems, NEW k \in SUBSET Hashes,
         DiskOn /\ m.t.cap = 0 => \A h \in k : Present(m, h)
  PROVE  Whole(m, [r \in Requests |-> <<>>], [r \in Requests |-> <<>>], k)
<1> DEFINE t == [r \in Requests |-> <<>>]
<1>1. <<>> \in Seq(Blocks) /\ ToSet(<<>>) = {}
  BY EmptySeq DEF ToSet
<1>2. t \in Tables /\ t \in [Requests -> Texts \cup {<<>>}] /\ \A r \in Requests : t[r] = <<>>
  BY <1>1 DEF Tables
<1> HIDE DEF t
<1>3. CountsCover(t, m.p)
  <2> SUFFICES ASSUME NEW b \in Blocks PROVE UsesIn(t, b) <= m.p.ref[b]
    BY DEF CountsCover
  <2>1. UsesIn(t, b) = 0
    BY <1>1, <1>2, UsedWhere
  <2>2. m.p.ref[b] \in Nat
    BY GoodMemFacts
  <2> QED
    BY <2>1, <2>2
<1>4. TwiceIsLent(t, m.p)
  BY <1>2 DEF TwiceIsLent
<1>5. TailsAreOwn(t, m.p, Requests)
  BY <1>2 DEF TailsAreOwn
<1>6. TablesOK(t, t)
  BY <1>2 DEF TablesOK
<1>7. Remembered(k, t, m)
  BY <1>1, <1>2 DEF Remembered
<1> QED
  BY <1>3, <1>4, <1>5, <1>6, <1>7 DEF Whole, t

LEMMA FullPoolGood == FullPool \in PoolSet /\ Queued(FullPool) /\ Mapped(FullPool)
<1> DEFINE n == Cardinality(Blocks)
           s == [b \in Blocks |-> b]
<1>1. n \in Nat /\ Blocks = 1 .. n
  <2>1. n \in Nat
    BY FS_CardinalityType DEF CacheAssumption
  <2> QED
    BY <2>1 DEF CacheAssumption
<1>2. s \in Seq(Blocks) /\ IsInjective(s) /\ ToSet(s) = Blocks
  <2>1. s \in [1 .. n -> Blocks]
    BY <1>1
  <2>2. s \in Seq(Blocks)
    BY <1>1, <2>1
  <2>3. IsInjective(s) /\ ToSet(s) = Blocks
    BY DEF IsInjective, ToSet
  <2> QED
    BY <2>2, <2>3
<1>3. <<>> \in Seq(Blocks) /\ ToSet(<<>>) = {} /\ \A h \in Hashes : h # NoHash
  BY EmptySeq DEF ToSet, CacheAssumption
<1> HIDE DEF s, n
<1>4. /\ FullPool.queue = s /\ FullPool.ref = [b \in Blocks |-> 0]
      /\ FullPool.hash = [b \in Blocks |-> NoHash] /\ FullPool.map = [h \in Hashes |-> <<>>]
  BY DEF FullPool, s
<1>5. FullPool \in PoolSet
  BY <1>2, <1>3 DEF FullPool, PoolSet, s
<1>6. Queued(FullPool)
  BY <1>2, <1>4 DEF Queued
<1>7. Mapped(FullPool)
  BY <1>3, <1>4 DEF Mapped
<1> QED
  BY <1>5, <1>6, <1>7

(* Tiers of which only files are left.                                       *)
LEMMA FilesOnly ==
  ASSUME NEW t, t.cap \in DiskCaps, t.disk \in Seq(Entries), Filed(t)
  PROVE  LET u == [NoTiers(t.cap) EXCEPT !.disk = t.disk]
         IN  u \in GoodTiers /\ u.disk = t.disk /\ u.cap = t.cap /\ u.l2 = <<>>
<1> DEFINE u == [NoTiers(t.cap) EXCEPT !.disk = t.disk]
           e == [h \in {} |-> NoData]
<1>1. /\ u.l1 = e /\ u.slot = 0 /\ u.l2 = <<>> /\ u.used = 0 /\ u.disk = t.disk /\ u.cap = t.cap
      /\ u = [l1 |-> e, slot |-> 0, l2 |-> <<>>, used |-> 0, disk |-> t.disk, cap |-> t.cap]
  BY DEF NoTiers
<1>2. e = [h \in {} |-> h] /\ DOMAIN e = {}
  OBVIOUS
<1>3. e \in {[h \in D |-> h] : D \in SUBSET Hashes}
  BY <1>2
<1> HIDE DEF e, u
<1>4. u \in TierSet
  BY <1>1, <1>3, EmptySeq DEF TierSet
<1>5. Stocked(u)
  BY <1>1, ShelfEmpty, BytesEmpty, Limits DEF Stocked
<1>6. Slotted(u)
  BY <1>1, <1>2, FS_EmptySet DEF Slotted
<1>7. Filed(u)
  BY <1>1 DEF Filed
<1> QED
  BY <1>1, <1>4, <1>5, <1>6, <1>7 DEF GoodTiers, u

LEMMA InitIInv == Init => IInv
<1> SUFFICES ASSUME Init PROVE IInv
  OBVIOUS
<1>1. PICK cap \in DiskCaps : tiers = NoTiers(cap)
  BY DEF Init
<1>2. /\ pool = FullPool /\ known = {}
      /\ text = [r \in Requests |-> <<>>] /\ table = [r \in Requests |-> <<>>]
  BY DEF Init
<1>3. tiers \in GoodTiers
  <2> DEFINE t == NoTiers(cap)
  <2>1. t.cap = cap /\ t.disk = <<>> /\ t = [NoTiers(t.cap) EXCEPT !.disk = t.disk]
    BY DEF NoTiers
  <2> HIDE DEF t
  <2>2. t.disk \in Seq(Entries) /\ cap \in Nat
    BY <2>1, EmptySeq, Limits
  <2>3. Filed(t)
    BY <2>1, <2>2, ShelfEmpty, BytesEmpty DEF Filed
  <2>4. [NoTiers(t.cap) EXCEPT !.disk = t.disk] \in GoodTiers
    BY <2>1, <2>2, <2>3, FilesOnly
  <2> QED
    BY <1>1, <2>1, <2>4 DEF t
<1>4. Memory \in GoodMems
  BY <1>2, <1>3, FullPoolGood DEF Memory, GoodMems, Mems
<1> QED
  BY <1>2, <1>4, EmptyTables DEF IInv

(* The cache is reset when every block is free, so that no request runs.     *)
LEMMA ResetKeeps ==
  ASSUME IInv, Reset
  PROVE  IInv' /\ Undisturbed
<1> DEFINE m == Memory
           q == [pool EXCEPT !.map = FullPool.map, !.hash = FullPool.hash]
           w == [p |-> q, t |-> tiers]
<1>1. /\ m \in GoodMems /\ TablesOK(table, text) /\ CountsCover(table, m.p)
  BY DEF IInv, Whole
<1>2. table \in Tables /\ text \in [Requests -> Texts \cup {<<>>}] /\ m.p = pool /\ m.t = tiers
  BY <1>1 DEF TablesOK, Memory
<1>3. pool' = q /\ table' = table /\ text' = text /\ tiers' = tiers /\ known' = {}
      /\ Len(pool.queue) = Cardinality(Blocks)
  BY DEF Reset, Free, Memory
<1> HIDE DEF m
<1>4. pool \in PoolSet /\ Queued(pool) /\ tiers \in GoodTiers /\ pool.queue \in Seq(Blocks)
  BY <1>1, <1>2, GoodMemFacts
<1>5. ToSet(pool.queue) = Blocks
  <2> DEFINE z == pool.queue
  <2>1. z \in Seq(Blocks) /\ IsInjective(z) /\ Len(z) = Cardinality(Blocks)
    BY <1>3, <1>4 DEF Queued
  <2> HIDE DEF z
  <2>2. Cardinality(ToSet(z)) = Cardinality(Blocks) /\ ToSet(z) \in SUBSET Blocks
    BY <2>1, InjectiveLen, SeqFacts
  <2>3. IsFiniteSet(Blocks)
    BY DEF CacheAssumption
  <2>4. ToSet(z) = Blocks
    BY <2>2, <2>3, FS_Subset
  <2> QED
    BY <2>4 DEF z
<1>6. \A b \in Blocks : pool.ref[b] = 0 /\ UsesIn(table, b) = 0
  <2> TAKE b \in Blocks
  <2>1. pool.ref[b] = 0
    BY <1>4, <1>5 DEF Queued
  <2>2. UsesIn(table, b) <= 0 /\ UsesIn(table, b) \in Nat
    BY <1>1, <1>2, <2>1, PlacesFinite DEF CountsCover, UsesIn
  <2> QED
    BY <2>1, <2>2
<1>7. \A r \in Requests : table[r] = <<>> /\ text[r] = <<>>
  <2> TAKE r \in Requests
  <2>1. table[r] = <<>>
    <3> SUFFICES ASSUME table[r] # <<>> PROVE FALSE
      OBVIOUS
    <3>1. Len(table[r]) \in 1 .. Len(table[r])
      BY <1>2, TableFacts
    <3>2. table[r][Len(table[r])] \in Blocks /\ UsesIn(table, table[r][Len(table[r])]) # 0
      BY <1>2, <3>1, TableFacts
    <3> QED
      BY <1>6, <3>2
  <2>2. Len(table[r]) = 0
    BY <2>1
  <2>3. text[r] \in Seq(Hashes)
    BY <1>2, TextFacts, EmptySeq
  <2>4. Len(text[r]) \in Nat
    BY <2>3, SeqFacts
  <2>5. Len(table[r]) # Len(text[r]) + 1
    BY <2>2, <2>4
  <2> QED
    BY <1>1, <2>1, <2>5 DEF TablesOK
<1>8. table = [r \in Requests |-> <<>>] /\ text = [r \in Requests |-> <<>>]
  BY <1>2, <1>7 DEF Tables
<1>9. /\ FullPool.map = [h \in Hashes |-> <<>>] /\ FullPool.hash = [b \in Blocks |-> NoHash]
      /\ <<>> \in Seq(Blocks) /\ ToSet(<<>>) = {} /\ \A h \in Hashes : h # NoHash
  BY EmptySeq DEF FullPool, ToSet, CacheAssumption
<1>10. /\ q \in PoolSet /\ q.queue = pool.queue /\ q.ref = pool.ref
       /\ q.map = FullPool.map /\ q.hash = FullPool.hash
  <2>1. /\ FullPool.map \in [Hashes -> Seq(Blocks)]
        /\ FullPool.hash \in [Blocks -> Hashes \cup {NoHash}]
    BY <1>9
  <2> QED
    BY <1>4, <2>1 DEF PoolSet
<1> HIDE DEF q
<1>11. Queued(q) /\ Mapped(q)
  BY <1>4, <1>9, <1>10 DEF Queued, Mapped
<1>12. w \in GoodMems /\ Memory' = w
  BY <1>3, <1>4, <1>10, <1>11 DEF GoodMems, Mems, Memory
<1> HIDE DEF w
<1>13. IInv'
  <2>1. Whole(w, [r \in Requests |-> <<>>], [r \in Requests |-> <<>>], {})
    BY <1>12, EmptyTables
  <2> QED
    BY <1>3, <1>8, <1>12, <2>1 DEF IInv
<1>14. Undisturbed
  BY <1>7 DEF Undisturbed
<1> QED
  BY <1>13, <1>14

LEMMA RestartKeeps ==
  ASSUME IInv, Restart
  PROVE  IInv' /\ Undisturbed
<1> DEFINE u == [NoTiers(tiers.cap) EXCEPT !.disk = tiers.disk]
           w == [p |-> FullPool, t |-> u]
           t == [r \in Requests |-> <<>>]
<1>1. pool' = FullPool /\ tiers' = u /\ text' = t /\ table' = t /\ known' = Keys(tiers.disk)
  BY DEF Restart
<1>2. tiers \in GoodTiers
  <2>1. Memory \in GoodMems /\ Memory.t = tiers
    BY DEF IInv, Whole, Memory
  <2> QED
    BY <2>1, GoodMemFacts
<1>3. tiers.cap \in DiskCaps /\ Shelf(tiers.disk) /\ tiers.disk \in Seq(Entries) /\ Filed(tiers)
  BY <1>2, TierFacts DEF TierSet
<1>4. u \in GoodTiers /\ u.disk = tiers.disk
  BY <1>3, FilesOnly
<1> HIDE DEF u
<1>5. w \in GoodMems /\ Memory' = w
  BY <1>1, <1>4, FullPoolGood DEF GoodMems, Mems, Memory
<1>6. Keys(tiers.disk) \subseteq Hashes
  BY <1>3, ShelfFacts
<1>7. \A h \in Keys(tiers.disk) : Present(w, h)
  BY <1>4 DEF Present
<1> HIDE DEF w
<1>8. Whole(w, t, t, Keys(tiers.disk))
  BY <1>5, <1>6, <1>7, EmptyTables
<1>9. IInv'
  BY <1>1, <1>5, <1>8 DEF IInv
<1>10. Undisturbed
  BY <1>1 DEF Undisturbed
<1> QED
  BY <1>9, <1>10

LEMMA NextKeeps == IInv /\ [Next]_vars => IInv' /\ [Undisturbed]_vars
<1> SUFFICES ASSUME IInv, [Next]_vars PROVE IInv' /\ [Undisturbed]_vars
  OBVIOUS
<1>1. CASE \E r \in Requests, s \in Texts : Schedule(r, s)
  BY <1>1, ScheduleKeeps
<1>2. CASE \E r \in Requests, h \in Hashes : Extend(r, h)
  BY <1>2, ExtendKeeps
<1>3. CASE \E r \in Requests : Finish(r)
  BY <1>3, FinishKeeps
<1>4. CASE Reset
  BY <1>4, ResetKeeps
<1>5. CASE Restart
  BY <1>5, RestartKeeps
<1>6. CASE UNCHANGED vars
  BY <1>6 DEF vars, IInv, Memory
<1> QED
  BY <1>1, <1>2, <1>3, <1>4, <1>5, <1>6 DEF Next

-----------------------------------------------------------------------------
(* The theorems *)

LEMMA SpecIInv == Spec => []IInv
<1>1. IInv /\ [Next]_vars => IInv'
  BY NextKeeps
<1> QED
  BY InitIInv, <1>1, PTL DEF Spec

LEMMA IInvFacts ==
  ASSUME IInv
  PROVE  /\ pool \in PoolSet /\ tiers \in GoodTiers /\ Mapped(pool) /\ Queued(pool)
         /\ TablesOK(table, text) /\ CountsCover(table, pool) /\ Remembered(known, text, Memory)
<1>1. /\ Memory \in GoodMems /\ TablesOK(table, text) /\ CountsCover(table, Memory.p)
      /\ Remembered(known, text, Memory)
  BY DEF IInv, Whole
<1>2. Memory.p = pool /\ Memory.t = tiers
  BY DEF Memory
<1> QED
  BY <1>1, <1>2, GoodMemFacts

(* The pool, the tiers and the tables keep their shapes: no count of a block *)
(* goes below zero in free_blocks, and the byte counter of the prefix store  *)
(* is never negative.                                                        *)
THEOREM TypeCorrect == Spec => []TypeOK
<1>1. IInv => TypeOK
  <2> SUFFICES ASSUME IInv PROVE TypeOK
    OBVIOUS
  <2>1. pool \in PoolSet /\ tiers \in GoodTiers /\ TablesOK(table, text)
    BY IInvFacts
  <2>2. /\ pool.queue \in Seq(Blocks) /\ pool.ref \in [Blocks -> Nat]
        /\ pool.hash \in [Blocks -> Hashes \cup {NoHash}]
        /\ \A h \in Hashes : pool.map[h] \in Seq(Blocks)
        /\ pool.bytes \in [Blocks -> Hashes \cup {NoData}]
    BY <2>1 DEF PoolSet
  <2>3. EntrySeqs(tiers.l2) /\ EntrySeqs(tiers.disk)
    <3>1. \A s : Shelf(s) => EntrySeqs(s)
      <4> SUFFICES ASSUME NEW s, Shelf(s), NEW i \in DOMAIN s
                   PROVE  s[i] \in [key : Hashes, data : Hashes]
        BY DEF EntrySeqs
      <4>1. s[i] = Entry(s[i].key) /\ s[i].key \in Hashes
        BY ShelfFacts
      <4>2. \A h \in Hashes : Entry(h) \in [key : Hashes, data : Hashes]
        BY DEF Entry
      <4> QED
        BY <4>1, <4>2
    <3> QED
      BY <2>1, <3>1, TierFacts
  <2>4. /\ DOMAIN tiers.l1 \subseteq Hashes /\ \A h \in DOMAIN tiers.l1 : tiers.l1[h] \in Hashes
        /\ tiers.used \in Nat /\ tiers.slot \in Nat
    BY <2>1, TierFacts
  <2>5. text \in [Requests -> Texts \cup {<<>>}] /\ table \in [Requests -> Seq(Blocks)]
    BY <2>1 DEF TablesOK, Tables
  <2> QED
    BY <2>2, <2>3, <2>4, <2>5 DEF TypeOK
<1> QED
  BY <1>1, SpecIInv, PTL

(* The free queue has exactly the blocks whose count is 0, each of them      *)
(* once, and no request uses one of them: whatever promote_on_miss took in   *)
(* the middle of a lookup, free_blocks and get_new_blocks agree with the     *)
(* block tables.                                                             *)
THEOREM QueueIsUnused == Spec => []FreeIsUnused
<1>1. IInv => FreeIsUnused
  <2> SUFFICES ASSUME IInv PROVE FreeIsUnused
    OBVIOUS
  <2>1. Queued(pool) /\ CountsCover(table, pool)
    BY IInvFacts
  <2>2. \A b : Uses(b) = UsesIn(table, b)
    BY DEF Uses, UsesIn, Places
  <2> QED
    BY <2>1, <2>2 DEF FreeIsUnused, Queued, CountsCover, IsInjective
<1> QED
  BY <1>1, SpecIInv, PTL

(* A block that answers for a hash holds what was computed under it, through *)
(* any number of demotions, spills, reads and promotions.                    *)
THEOREM CacheAnswersTruly == Spec => []CachedHoldsHash
<1>1. IInv => CachedHoldsHash
  BY IInvFacts DEF CachedHoldsHash, Mapped
<1> QED
  BY <1>1, SpecIInv, PTL

(* The store, the pinned slots and the files each have an entry per hash and *)
(* stay within their limits, and the byte counter of the store is exact.     *)
THEOREM BooksAreKept == Spec => []TiersKeepBooks
<1>1. IInv => TiersKeepBooks
  <2> SUFFICES ASSUME IInv PROVE TiersKeepBooks
    OBVIOUS
  <2>1. tiers \in GoodTiers
    BY IInvFacts
  <2>2. Stocked(tiers) /\ Slotted(tiers) /\ Filed(tiers) /\ Shelf(tiers.l2) /\ Shelf(tiers.disk)
        /\ \A h \in DOMAIN tiers.l1 : tiers.l1[h] = h
    BY <2>1, TierFacts
  <2>3. \A s : Shelf(s) => /\ Cardinality(Keys(s)) = Len(s)
                           /\ \A i \in DOMAIN s : s[i].data = s[i].key
    <3> SUFFICES ASSUME NEW s, Shelf(s)
                 PROVE  /\ Cardinality(Keys(s)) = Len(s)
                        /\ \A i \in DOMAIN s : s[i].data = s[i].key
      OBVIOUS
    <3>1. \A h : Entry(h).data = h
      BY DEF Entry
    <3>2. \A i \in DOMAIN s : s[i] = Entry(s[i].key)
      BY ShelfFacts
    <3> QED
      BY <3>1, <3>2, ShelfCounts
  <2> QED
    BY <2>2, <2>3 DEF TiersKeepBooks, Stocked, Slotted, Filed
<1> QED
  BY <1>1, SpecIInv, PTL

(* With files that are never evicted, a hash that was cached is found again  *)
(* on the GPU, in the store or in a file, unless the store is too small for  *)
(* its entry.                                                                *)
THEOREM CachedIsRemembered == Spec => []NothingForgotten
<1>1. IInv => NothingForgotten
  <2>1. Memory.p = pool /\ Memory.t = tiers
    BY DEF Memory
  <2> QED
    BY <2>1, IInvFacts DEF NothingForgotten, Remembered, Present
<1> QED
  BY <1>1, SpecIInv, PTL

(* A request that runs keeps the blocks of its text and what they hold,      *)
(* whatever is evicted, promoted and allocated for the others.               *)
THEOREM RunningIsUndisturbed == Spec => RunningKeepsBlocks
<1>1. IInv /\ [Next]_vars => [Undisturbed]_vars
  BY NextKeeps
<1>2. Spec => [][Undisturbed]_vars
  BY <1>1, SpecIInv, PTL DEF Spec
<1> QED
  BY <1>2 DEF RunningKeepsBlocks, Undisturbed
=============================================================================
