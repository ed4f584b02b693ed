----------------------- MODULE EvictionPolicies_proofs -----------------------
(* Proofs about the eviction policies for any keys and any capacity: ARC     *)
(* stays within its capacity, and every policy does to the entries of the    *)
(* keys what KeyBag says.  IInv says of the four lists that none repeats a   *)
(* key, so that a key has as many entries as there are live lists it is in.  *)
EXTENDS EvictionPolicies, SequenceTheorems, TLAPS

Queues == {s \in Seq(Keys) : \A i, j \in DOMAIN s : s[i] = s[j] => i = j}

(* The entries of the keys in two lists *)
Entry(k, s) == IF k \in Tracked(s) THEN 1 ELSE 0
Bag(s, t) == [k \in Keys |-> Entry(k, s) + Entry(k, t)]

USE PolicyAssumption

-----------------------------------------------------------------------------
(* The operations of a list *)

LEMMA EmptyQueue == <<>> \in Queues /\ Tracked(<<>>) = {} /\ Len(<<>>) = 0
  BY DEF Queues, Tracked

LEMMA InTracked ==
    ASSUME NEW s, NEW k
    PROVE  In(k, s) <=> k \in Tracked(s)
  BY DEF In, Tracked

LEMMA TrackedKeys ==
    ASSUME NEW s \in Queues
    PROVE  Tracked(s) \subseteq Keys /\ Len(s) \in Nat /\ (Tracked(s) = {} <=> s = <<>>)
  BY DEF Queues, Tracked

LEMMA TailQueue ==
    ASSUME NEW s \in Queues, s # <<>>
    PROVE  /\ Tail(s) \in Queues
           /\ Head(s) \in Tracked(s) /\ Head(s) \in Keys
           /\ Tracked(Tail(s)) = Tracked(s) \ {Head(s)}
           /\ Len(Tail(s)) = Len(s) - 1 /\ Len(s) \in Nat \ {0}
  <1>1. /\ s \in Seq(Keys) /\ Tail(s) \in Seq(Keys) /\ Len(s) \in Nat \ {0}
        /\ Len(Tail(s)) = Len(s) - 1 /\ Head(s) = s[1]
        /\ \A i \in 1 .. Len(s) - 1 : Tail(s)[i] = s[i + 1]
        /\ DOMAIN s = 1 .. Len(s) /\ DOMAIN Tail(s) = 1 .. Len(s) - 1
    BY DEF Queues
  <1>2. \A i, j \in 1 .. Len(s) : s[i] = s[j] => i = j
    BY <1>1 DEF Queues
  <1>3. Tail(s) \in Queues
    <2>1. ASSUME NEW i \in 1 .. Len(s) - 1, NEW j \in 1 .. Len(s) - 1, Tail(s)[i] = Tail(s)[j]
          PROVE  i = j
      BY <2>1, <1>1, <1>2
    <2> QED BY <1>1, <2>1 DEF Queues
  <1>4. Tracked(Tail(s)) \subseteq Tracked(s) \ {Head(s)}
    BY <1>1, <1>2 DEF Tracked
  <1>5. ASSUME NEW i \in 1 .. Len(s), s[i] # Head(s)
        PROVE  s[i] \in Tracked(Tail(s))
    <2>1. i - 1 \in 1 .. Len(s) - 1 /\ Tail(s)[i - 1] = s[i]
      BY <1>1, <1>5
    <2> QED BY <2>1, <1>1 DEF Tracked
  <1>6. Head(s) \in Tracked(s) /\ Head(s) \in Keys
    BY <1>1 DEF Tracked
  <1>7. Tracked(s) \ {Head(s)} \subseteq Tracked(Tail(s))
    BY <1>1, <1>5 DEF Tracked
  <1> QED BY <1>1, <1>3, <1>4, <1>6, <1>7

LEMMA WithoutQueue ==
    ASSUME NEW s \in Queues, NEW k
    PROVE  /\ Without(s, k) \in Queues
           /\ Tracked(Without(s, k)) = Tracked(s) \ {k}
           /\ Len(Without(s, k)) = IF k \in Tracked(s) THEN Len(s) - 1 ELSE Len(s)
  <1>0. s \in Seq(Keys) /\ Len(s) \in Nat /\ DOMAIN s = 1 .. Len(s)
    BY DEF Queues
  <1>a. \A a, b \in 1 .. Len(s) : s[a] = s[b] => a = b
    BY <1>0 DEF Queues
  <1>1. CASE ~In(k, s)
    BY <1>1, InTracked DEF Without
  <1>2. CASE In(k, s)
    <2> DEFINE i == CHOOSE i \in DOMAIN s : s[i] = k
               w == [j \in 1 .. Len(s) - 1 |-> IF j < i THEN s[j] ELSE s[j + 1]]
    <2>1. i \in 1 .. Len(s) /\ s[i] = k
      BY <1>0, <1>2 DEF In
    <2>2. Without(s, k) = w
      BY <1>2 DEF Without
    <2>3. \A j \in 1 .. Len(s) - 1 : w[j] \in Keys
      BY <1>0, <2>1
    <2>4. w \in Seq(Keys) /\ Len(w) = Len(s) - 1 /\ DOMAIN w = 1 .. Len(s) - 1
      <3>1. Len(s) - 1 \in Nat
        BY <1>0, <2>1
      <3>2. w \in [1 .. Len(s) - 1 -> Keys]
        BY <2>3
      <3> QED BY <3>1, <3>2
    <2> HIDE DEF w
    <2>5. \A j \in 1 .. Len(s) - 1 : w[j] = IF j < i THEN s[j] ELSE s[j + 1]
      BY DEF w
    <2> HIDE DEF i
    <2>6. ASSUME NEW a \in 1 .. Len(s) - 1, NEW b \in 1 .. Len(s) - 1, w[a] = w[b]
          PROVE  a = b
      BY <2>6, <2>5, <2>1, <1>0, <1>a
    <2>7. \A j \in 1 .. Len(s) - 1 : w[j] \in Tracked(s) \ {k}
      <3> TAKE j \in 1 .. Len(s) - 1
      <3>1. CASE j < i
        BY <3>1, <2>5, <2>1, <1>0, <1>a DEF Tracked
      <3>2. CASE ~(j < i)
        <4>1. j + 1 \in 1 .. Len(s) /\ w[j] = s[j + 1] /\ j + 1 # i
          BY <3>2, <2>5, <2>1, <1>0
        <4> QED BY <4>1, <2>1, <1>0, <1>a DEF Tracked
      <3> QED BY <3>1, <3>2
    <2>8. ASSUME NEW a \in 1 .. Len(s), s[a] # k
          PROVE  s[a] \in Tracked(w)
      <3>1. CASE a < i
        BY <3>1, <2>1, <2>4, <2>5, <1>0 DEF Tracked
      <3>2. CASE a > i
        <4>1. a - 1 \in 1 .. Len(s) - 1 /\ w[a - 1] = s[a]
          BY <3>2, <2>1, <2>5, <1>0
        <4> QED BY <4>1, <2>4 DEF Tracked
      <3> QED BY <3>1, <3>2, <2>8, <2>1, <1>0
    <2>9. Tracked(w) = Tracked(s) \ {k}
      <3>1. Tracked(w) \subseteq Tracked(s) \ {k}
        BY <2>7, <2>4 DEF Tracked
      <3>2. Tracked(s) \ {k} \subseteq Tracked(w)
        BY <2>8, <1>0 DEF Tracked
      <3> QED BY <3>1, <3>2
    <2>10. w \in Queues
      BY <2>4, <2>6 DEF Queues
    <2>11. k \in Tracked(s)
      BY <1>2, InTracked
    <2> QED BY <2>2, <2>4, <2>9, <2>10, <2>11
  <1> QED BY <1>1, <1>2

LEMMA AppendQueue ==
    ASSUME NEW s \in Queues, NEW k \in Keys, k \notin Tracked(s)
    PROVE  /\ Append(s, k) \in Queues
           /\ Tracked(Append(s, k)) = Tracked(s) \cup {k}
           /\ Len(Append(s, k)) = Len(s) + 1
  <1> DEFINE a == Append(s, k)
  <1>1. /\ s \in Seq(Keys) /\ Len(s) \in Nat
        /\ a \in Seq(Keys) /\ Len(a) = Len(s) + 1 /\ a[Len(s) + 1] = k
        /\ \A i \in 1 .. Len(s) : a[i] = s[i]
        /\ \A i, j \in 1 .. Len(s) : s[i] = s[j] => i = j
        /\ DOMAIN a = 1 .. Len(s) + 1 /\ DOMAIN s = 1 .. Len(s)
    BY DEF Queues
  <1> HIDE DEF a
  <1>2. \A i \in 1 .. Len(s) : s[i] # k
    BY <1>1 DEF Tracked
  <1>3. ASSUME NEW i \in 1 .. Len(s) + 1, NEW j \in 1 .. Len(s) + 1, a[i] = a[j]
        PROVE  i = j
    BY <1>1, <1>2, <1>3
  <1>4. a \in Queues
    BY <1>1, <1>3 DEF Queues
  <1>5. Tracked(a) = Tracked(s) \cup {k}
    <2>1. \A i \in 1 .. Len(s) + 1 : a[i] \in Tracked(s) \cup {k}
      BY <1>1 DEF Tracked
    <2>2. k \in Tracked(a)
      BY <1>1 DEF Tracked
    <2>3. \A i \in 1 .. Len(s) : s[i] \in Tracked(a)
      BY <1>1 DEF Tracked
    <2> QED BY <2>1, <2>2, <2>3, <1>1 DEF Tracked
  <1> QED BY <1>1, <1>4, <1>5 DEF a

LEMMA WarmestQueue ==
    ASSUME NEW s \in Queues, NEW k \in Keys
    PROVE  /\ Warmest(s, k) \in Queues
           /\ Tracked(Warmest(s, k)) = Tracked(s) \cup {k}
           /\ Len(Warmest(s, k)) = IF k \in Tracked(s) THEN Len(s) ELSE Len(s) + 1
  <1> DEFINE w == Without(s, k)
  <1>1. w \in Queues /\ Tracked(w) = Tracked(s) \ {k}
        /\ Len(w) = IF k \in Tracked(s) THEN Len(s) - 1 ELSE Len(s)
    BY WithoutQueue
  <1>2. Warmest(s, k) = Append(w, k)
    BY DEF Warmest
  <1> HIDE DEF w
  <1>3. Append(w, k) \in Queues /\ Tracked(Append(w, k)) = Tracked(w) \cup {k}
        /\ Len(Append(w, k)) = Len(w) + 1
    BY <1>1, AppendQueue
  <1>4. Len(s) \in Nat
    BY TrackedKeys
  <1> QED BY <1>1, <1>2, <1>3, <1>4

LEMMA WithQueue ==
    ASSUME NEW s \in Queues, NEW k \in Keys
    PROVE  /\ With(s, k) \in Queues
           /\ Len(s) <= Len(With(s, k)) /\ Len(With(s, k)) <= Len(s) + 1
  <1>1. Len(s) \in Nat
    BY TrackedKeys
  <1> QED BY <1>1, InTracked, AppendQueue DEF With

LEMMA DropFirstQueue ==
    ASSUME NEW s \in Queues
    PROVE  /\ DropFirst(s) \in Queues /\ Len(s) \in Nat
           /\ Tracked(DropFirst(s)) \subseteq Tracked(s)
           /\ s = <<>> => DropFirst(s) = s /\ Len(s) = 0
           /\ s # <<>> => /\ Len(s) > 0 /\ Len(DropFirst(s)) = Len(s) - 1
                          /\ Head(s) \in Tracked(s)
                          /\ Tracked(DropFirst(s)) = Tracked(s) \ {Head(s)}
  BY TailQueue, EmptyQueue DEF DropFirst, Queues

-----------------------------------------------------------------------------
(* The four lists of ARC *)

Lists == [t1 : Queues, t2 : Queues, b1 : Queues, b2 : Queues]
SequencesOfKeys == [t1 : Seq(Keys), t2 : Seq(Keys), b1 : Seq(Keys), b2 : Seq(Keys)]
Sizes(q) == {Len(q.t1), Len(q.t2), Len(q.b1), Len(q.b2)} \subseteq Nat

Put(b, k, n) == [b EXCEPT ![k] = n]

(* b with at most one entry less *)
Lesser(b) == {b} \cup {Put(b, x, b[x] - 1) : x \in {x \in Keys : b[x] > 0}}

(* c is b once k is taken in, with one entry more or as many. *)
MoreOf(b, c, k) == \E n \in 1 .. 2 : n \in {b[k], b[k] + 1} /\ c = Put(b, k, n)

(* c is b, with at most one entry less, once k is taken in. *)
TakesIn(b, c, k) == \E d \in Lesser(b) : MoreOf(d, c, k)

(* r is q with at most one live entry taken out. *)
OneLess(q, r) == r \in Lists /\ Bag(r.t1, r.t2) \in Lesser(Bag(q.t1, q.t2))

LEMMA EntriesAreBag == Entries = Bag(once, often)
  BY InTracked DEF Entries, Bag, Entry

LEMMA EntriesAreBagNext == Entries' = Bag(once', often')
  BY InTracked DEF Entries, Bag, Entry

LEMMA EntryValue == \A k, s : Entry(k, s) \in {0, 1}
  BY DEF Entry

(* Two functions that agree off one key *)
LEMMA BagPut ==
    ASSUME NEW s, NEW t, NEW u, NEW v, NEW k \in Keys, NEW n,
           \A x \in Keys \ {k} : Bag(u, v)[x] = Bag(s, t)[x],
           Bag(u, v)[k] = n
    PROVE  Bag(u, v) = Put(Bag(s, t), k, n)
  <1> DEFINE b == Bag(s, t)
             c == Bag(u, v)
  <1>1. b = [x \in Keys |-> b[x]] /\ c = [x \in Keys |-> c[x]]
    BY DEF Bag
  <1>2. \A x \in Keys \ {k} : c[x] = b[x]
    OBVIOUS
  <1>3. c[k] = n
    OBVIOUS
  <1> HIDE DEF b, c
  <1>4. c = [b EXCEPT ![k] = n]
    BY ONLY <1>1, <1>2, <1>3, k \in Keys
  <1> QED BY <1>4 DEF Put, b, c

LEMMA BagAt ==
    ASSUME NEW s, NEW t, NEW k \in Keys
    PROVE  Bag(s, t)[k] = Entry(k, s) + Entry(k, t)
  BY DEF Bag

LEMMA LessFirst ==
    ASSUME NEW s, NEW t, NEW u, NEW x \in Keys, x \in Tracked(s), Tracked(u) = Tracked(s) \ {x}
    PROVE  Bag(s, t)[x] > 0 /\ Bag(u, t) = Put(Bag(s, t), x, Bag(s, t)[x] - 1)
  <1>1. Entry(x, s) = 1 /\ Entry(x, u) = 0
    BY DEF Entry
  <1>2. \A k \in Keys \ {x} : Entry(k, u) = Entry(k, s)
    BY DEF Entry
  <1>3. ASSUME NEW k \in Keys \ {x}
        PROVE  Bag(u, t)[k] = Bag(s, t)[k]
    <2>1. Bag(u, t)[k] = Entry(k, u) + Entry(k, t)
      BY BagAt
    <2>2. Bag(s, t)[k] = Entry(k, s) + Entry(k, t)
      BY BagAt
    <2> QED BY <1>2, <2>1, <2>2
  <1>4. Bag(s, t)[x] = 1 + Entry(x, t) /\ Bag(u, t)[x] = 0 + Entry(x, t)
    BY <1>1, BagAt
  <1>5. Bag(s, t)[x] > 0 /\ Bag(u, t)[x] = Bag(s, t)[x] - 1
    <2>1. CASE Entry(x, t) = 0
      BY <1>4, <2>1
    <2>2. CASE Entry(x, t) = 1
      BY <1>4, <2>2
    <2> QED BY <2>1, <2>2, EntryValue
  <1> QED BY <1>3, <1>5, BagPut

LEMMA LessSecond ==
    ASSUME NEW s, NEW t, NEW u, NEW x \in Keys, x \in Tracked(t), Tracked(u) = Tracked(t) \ {x}
    PROVE  Bag(s, t)[x] > 0 /\ Bag(s, u) = Put(Bag(s, t), x, Bag(s, t)[x] - 1)
  <1>1. Entry(x, t) = 1 /\ Entry(x, u) = 0
    BY DEF Entry
  <1>2. \A k \in Keys \ {x} : Entry(k, u) = Entry(k, t)
    BY DEF Entry
  <1>3. ASSUME NEW k \in Keys \ {x}
        PROVE  Bag(s, u)[k] = Bag(s, t)[k]
    <2>1. Bag(s, u)[k] = Entry(k, s) + Entry(k, u)
      BY BagAt
    <2>2. Bag(s, t)[k] = Entry(k, s) + Entry(k, t)
      BY BagAt
    <2> QED BY <1>2, <2>1, <2>2
  <1>4. Bag(s, t)[x] = Entry(x, s) + 1 /\ Bag(s, u)[x] = Entry(x, s) + 0
    BY <1>1, BagAt
  <1>5. Bag(s, t)[x] > 0 /\ Bag(s, u)[x] = Bag(s, t)[x] - 1
    <2>1. CASE Entry(x, s) = 0
      BY <1>4, <2>1
    <2>2. CASE Entry(x, s) = 1
      BY <1>4, <2>2
    <2> QED BY <2>1, <2>2, EntryValue
  <1> QED BY <1>3, <1>5, BagPut

LEMMA MoreFirst ==
    ASSUME NEW s, NEW t, NEW u, NEW k \in Keys, Tracked(u) = Tracked(s) \cup {k}
    PROVE  MoreOf(Bag(s, t), Bag(u, t), k)
  <1>1. Entry(k, u) = 1
    BY DEF Entry
  <1>2. \A x \in Keys \ {k} : Entry(x, u) = Entry(x, s)
    BY DEF Entry
  <1>3. ASSUME NEW x \in Keys \ {k}
        PROVE  Bag(u, t)[x] = Bag(s, t)[x]
    <2>1. Bag(u, t)[x] = Entry(x, u) + Entry(x, t)
      BY BagAt
    <2>2. Bag(s, t)[x] = Entry(x, s) + Entry(x, t)
      BY BagAt
    <2> QED BY <1>2, <2>1, <2>2
  <1>4. Bag(s, t)[k] = Entry(k, s) + Entry(k, t) /\ Bag(u, t)[k] = 1 + Entry(k, t)
    BY <1>1, BagAt
  <1>5. Bag(u, t)[k] \in 1 .. 2 /\ Bag(u, t)[k] \in {Bag(s, t)[k], Bag(s, t)[k] + 1}
    <2>1. Entry(k, s) \in {0, 1} /\ Entry(k, t) \in {0, 1}
      BY EntryValue
    <2> QED BY ONLY <1>4, <2>1
  <1>6. Bag(u, t) = Put(Bag(s, t), k, Bag(u, t)[k])
    BY <1>3, BagPut
  <1> QED BY <1>5, <1>6 DEF MoreOf

LEMMA MoreSecond ==
    ASSUME NEW s, NEW t, NEW u, NEW k \in Keys, Tracked(u) = Tracked(t) \cup {k}
    PROVE  MoreOf(Bag(s, t), Bag(s, u), k)
  <1>1. Entry(k, u) = 1
    BY DEF Entry
  <1>2. \A x \in Keys \ {k} : Entry(x, u) = Entry(x, t)
    BY DEF Entry
  <1>3. ASSUME NEW x \in Keys \ {k}
        PROVE  Bag(s, u)[x] = Bag(s, t)[x]
    <2>1. Bag(s, u)[x] = Entry(x, s) + Entry(x, u)
      BY BagAt
    <2>2. Bag(s, t)[x] = Entry(x, s) + Entry(x, t)
      BY BagAt
    <2> QED BY <1>2, <2>1, <2>2
  <1>4. Bag(s, t)[k] = Entry(k, s) + Entry(k, t) /\ Bag(s, u)[k] = Entry(k, s) + 1
    BY <1>1, BagAt
  <1>5. Bag(s, u)[k] \in 1 .. 2 /\ Bag(s, u)[k] \in {Bag(s, t)[k], Bag(s, t)[k] + 1}
    <2>1. Entry(k, s) \in {0, 1} /\ Entry(k, t) \in {0, 1}
      BY EntryValue
    <2> QED BY ONLY <1>4, <2>1
  <1>6. Bag(s, u) = Put(Bag(s, t), k, Bag(s, u)[k])
    BY <1>3, BagPut
  <1> QED BY <1>5, <1>6 DEF MoreOf

(* A key moved to the second list has one entry, one left out of both none. *)
LEMMA Moved ==
    ASSUME NEW s, NEW t, NEW u, NEW v, NEW k \in Keys,
           Tracked(u) = Tracked(s) \ {k}, Tracked(v) = Tracked(t) \cup {k}
    PROVE  Bag(u, v) = Put(Bag(s, t), k, 1)
  <1>1. Entry(k, u) = 0 /\ Entry(k, v) = 1
    BY DEF Entry
  <1>2. \A x \in Keys \ {k} : Entry(x, u) = Entry(x, s) /\ Entry(x, v) = Entry(x, t)
    BY DEF Entry
  <1>3. ASSUME NEW x \in Keys \ {k}
        PROVE  Bag(u, v)[x] = Bag(s, t)[x]
    <2>1. Bag(u, v)[x] = Entry(x, u) + Entry(x, v)
      BY BagAt
    <2>2. Bag(s, t)[x] = Entry(x, s) + Entry(x, t)
      BY BagAt
    <2> QED BY <1>2, <2>1, <2>2
  <1>4. Bag(u, v)[k] = 0 + 1
    BY <1>1, BagAt
  <1>5. Bag(u, v)[k] = 1
    BY <1>4
  <1> QED BY <1>3, <1>5, BagPut

LEMMA Dropped ==
    ASSUME NEW s, NEW t, NEW u, NEW v, NEW k \in Keys,
           Tracked(u) = Tracked(s) \ {k}, Tracked(v) = Tracked(t) \ {k}
    PROVE  Bag(u, v) = Put(Bag(s, t), k, 0)
  <1>1. Entry(k, u) = 0 /\ Entry(k, v) = 0
    BY DEF Entry
  <1>2. \A x \in Keys \ {k} : Entry(x, u) = Entry(x, s) /\ Entry(x, v) = Entry(x, t)
    BY DEF Entry
  <1>3. ASSUME NEW x \in Keys \ {k}
        PROVE  Bag(u, v)[x] = Bag(s, t)[x]
    <2>1. Bag(u, v)[x] = Entry(x, u) + Entry(x, v)
      BY BagAt
    <2>2. Bag(s, t)[x] = Entry(x, s) + Entry(x, t)
      BY BagAt
    <2> QED BY <1>2, <2>1, <2>2
  <1>4. Bag(u, v)[k] = 0 + 0
    BY <1>1, BagAt
  <1>5. Bag(u, v)[k] = 0
    BY <1>4
  <1> QED BY <1>3, <1>5, BagPut

(* One list alone, of LRU *)
LEMMA OneListBag ==
    ASSUME NEW s, NEW t, Tracked(t) = {}
    PROVE  Bag(s, t) = [k \in Keys |-> Entry(k, s)]
  <1>1. \A k : Entry(k, t) = 0 /\ Entry(k, s) \in {0, 1}
    BY EntryValue DEF Entry
  <1> QED BY ONLY <1>1 DEF Bag

LEMMA ListSizes ==
    ASSUME NEW q \in Lists
    PROVE  Sizes(q)
  BY TrackedKeys DEF Lists, Sizes

LEMMA ListsAreSequences ==
    ASSUME NEW q \in Lists
    PROVE  q \in SequencesOfKeys
  BY DEF Lists, Queues, SequencesOfKeys

LEMMA FromT1 ==
    ASSUME NEW q \in Lists, q.t1 # <<>>, NEW b \in Queues
    PROVE  OneLess(q, [q EXCEPT !.t1 = Tail(@), !.b1 = b])
  <1> DEFINE r == [q EXCEPT !.t1 = Tail(@), !.b1 = b]
             x == Head(q.t1)
  <1>1. q.t1 \in Queues /\ q.t2 \in Queues
    BY DEF Lists
  <1>2. r.t1 = Tail(q.t1) /\ r.t2 = q.t2
    BY DEF Lists
  <1>3. Tail(q.t1) \in Queues /\ Tracked(Tail(q.t1)) = Tracked(q.t1) \ {x}
        /\ x \in Tracked(q.t1) /\ x \in Keys
    BY <1>1, TailQueue
  <1>4. r \in Lists
    BY <1>3 DEF Lists
  <1> HIDE DEF r, x
  <1>5. Bag(q.t1, q.t2)[x] > 0 /\ Bag(r.t1, r.t2) = Put(Bag(q.t1, q.t2), x, Bag(q.t1, q.t2)[x] - 1)
    BY <1>2, <1>3, LessFirst
  <1>6. OneLess(q, r)
    BY <1>3, <1>4, <1>5 DEF OneLess, Lesser
  <1> QED BY <1>6 DEF r

LEMMA FromT2 ==
    ASSUME NEW q \in Lists, q.t2 # <<>>, NEW b \in Queues
    PROVE  OneLess(q, [q EXCEPT !.t2 = Tail(@), !.b2 = b])
  <1> DEFINE r == [q EXCEPT !.t2 = Tail(@), !.b2 = b]
             x == Head(q.t2)
  <1>1. q.t1 \in Queues /\ q.t2 \in Queues
    BY DEF Lists
  <1>2. r.t2 = Tail(q.t2) /\ r.t1 = q.t1
    BY DEF Lists
  <1>3. Tail(q.t2) \in Queues /\ Tracked(Tail(q.t2)) = Tracked(q.t2) \ {x}
        /\ x \in Tracked(q.t2) /\ x \in Keys
    BY <1>1, TailQueue
  <1>4. r \in Lists
    BY <1>3 DEF Lists
  <1> HIDE DEF r, x
  <1>5. Bag(q.t1, q.t2)[x] > 0 /\ Bag(r.t1, r.t2) = Put(Bag(q.t1, q.t2), x, Bag(q.t1, q.t2)[x] - 1)
    BY <1>2, <1>3, LessSecond
  <1>6. OneLess(q, r)
    BY <1>3, <1>4, <1>5 DEF OneLess, Lesser
  <1> QED BY <1>6 DEF r

(* _replace moves one key out of the live lists, unless T2 is empty and T1   *)
(* is within the split; no ghost is lost, and no more keys are remembered.   *)
LEMMA ReplacedLists ==
    ASSUME NEW q \in Lists, NEW k, NEW split \in Int
    PROVE  LET r == Replaced(q, k, split)
           IN  /\ OneLess(q, r)
               /\ Tracked(q.b1) \subseteq Tracked(r.b1) /\ Tracked(q.b2) \subseteq Tracked(r.b2)
               /\ Len(r.t1) + Len(r.b1) <= Len(q.t1) + Len(q.b1)
               /\ Total(r) <= Total(q)
               /\ \/ Len(r.t1) + Len(r.t2) = Len(q.t1) + Len(q.t2) - 1
                  \/ /\ r = q /\ Len(q.t2) = 0 /\ Len(q.t1) <= Larger(0, split)
                     /\ In(k, q.b2) => (Len(q.t1) = 0 \/ Len(q.t1) < split)
  <1> DEFINE r == Replaced(q, k, split)
             takes1 == q.t1 # <<>> /\ ((In(k, q.b2) /\ Len(q.t1) = split) \/ Len(q.t1) > split)
  <1>0. /\ q.t1 \in Queues /\ q.t2 \in Queues /\ q.b1 \in Queues /\ q.b2 \in Queues
        /\ Len(q.t1) \in Nat /\ Len(q.t2) \in Nat /\ Len(q.b1) \in Nat /\ Len(q.b2) \in Nat
    BY ListSizes DEF Lists, Sizes
  <1>1. CASE takes1
    <2> DEFINE b == Warmest(q.b1, Head(q.t1))
    <2>1. /\ Head(q.t1) \in Keys /\ Len(Tail(q.t1)) = Len(q.t1) - 1
      BY <1>0, <1>1, TailQueue
    <2>2. b \in Queues /\ Tracked(b) = Tracked(q.b1) \cup {Head(q.t1)}
          /\ Len(b) <= Len(q.b1) + 1 /\ Len(b) \in Nat
      <3>1. b \in Queues /\ Tracked(b) = Tracked(q.b1) \cup {Head(q.t1)}
            /\ Len(b) = IF Head(q.t1) \in Tracked(q.b1) THEN Len(q.b1) ELSE Len(q.b1) + 1
        BY <1>0, <2>1, WarmestQueue
      <3> QED BY <3>1, <1>0
    <2>3. r = [q EXCEPT !.t1 = Tail(@), !.b1 = b]
      BY <1>1 DEF Replaced
    <2> HIDE DEF b
    <2>4. OneLess(q, r)
      BY <1>1, <2>2, <2>3, FromT1
    <2>5. r.t1 = Tail(q.t1) /\ r.t2 = q.t2 /\ r.b1 = b /\ r.b2 = q.b2
      BY <2>3 DEF Lists
    <2> HIDE DEF r
    <2>6. /\ Len(r.t1) = Len(q.t1) - 1 /\ Len(r.t2) = Len(q.t2)
          /\ Len(r.b2) = Len(q.b2)
      BY <2>1, <2>5
    <2>7. /\ Len(r.t1) + Len(r.t2) = Len(q.t1) + Len(q.t2) - 1
          /\ Len(r.t1) + Len(r.b1) <= Len(q.t1) + Len(q.b1)
          /\ Total(r) <= Total(q)
      <3>1. q \in SequencesOfKeys
            /\ r \in SequencesOfKeys
        BY <2>4, ListsAreSequences DEF OneLess
      <3>2. Len(r.b1) <= Len(q.b1) + 1
        BY <2>2, <2>5
      <3> QED BY ONLY <3>1, <3>2, <2>6 DEF Total, SequencesOfKeys
    <2>8. Tracked(q.b1) \subseteq Tracked(r.b1) /\ Tracked(q.b2) \subseteq Tracked(r.b2)
      BY <2>2, <2>5
    <2> QED BY <2>4, <2>7, <2>8 DEF r
  <1>2. CASE ~takes1 /\ q.t2 # <<>>
    <2> DEFINE b == Warmest(q.b2, Head(q.t2))
    <2>1. /\ Head(q.t2) \in Keys /\ Len(Tail(q.t2)) = Len(q.t2) - 1
      BY <1>0, <1>2, TailQueue
    <2>2. b \in Queues /\ Tracked(b) = Tracked(q.b2) \cup {Head(q.t2)}
          /\ Len(b) <= Len(q.b2) + 1 /\ Len(b) \in Nat
      <3>1. b \in Queues /\ Tracked(b) = Tracked(q.b2) \cup {Head(q.t2)}
            /\ Len(b) = IF Head(q.t2) \in Tracked(q.b2) THEN Len(q.b2) ELSE Len(q.b2) + 1
        BY <1>0, <2>1, WarmestQueue
      <3> QED BY <3>1, <1>0
    <2>3. r = [q EXCEPT !.t2 = Tail(@), !.b2 = b]
      BY <1>2 DEF Replaced
    <2> HIDE DEF b
    <2>4. OneLess(q, r)
      BY <1>2, <2>2, <2>3, FromT2
    <2>5. r.t2 = Tail(q.t2) /\ r.t1 = q.t1 /\ r.b2 = b /\ r.b1 = q.b1
      BY <2>3 DEF Lists
    <2> HIDE DEF r
    <2>6. /\ Len(r.t1) = Len(q.t1) /\ Len(r.t2) = Len(q.t2) - 1
          /\ Len(r.b1) = Len(q.b1)
      BY <2>1, <2>5
    <2>7. /\ Len(r.t1) + Len(r.t2) = Len(q.t1) + Len(q.t2) - 1
          /\ Len(r.t1) + Len(r.b1) <= Len(q.t1) + Len(q.b1)
          /\ Total(r) <= Total(q)
      <3>1. q \in SequencesOfKeys
            /\ r \in SequencesOfKeys
        BY <2>4, ListsAreSequences DEF OneLess
      <3>2. Len(r.b2) <= Len(q.b2) + 1
        BY <2>2, <2>5
      <3> QED BY ONLY <3>1, <3>2, <2>6 DEF Total, SequencesOfKeys
    <2>8. Tracked(q.b1) \subseteq Tracked(r.b1) /\ Tracked(q.b2) \subseteq Tracked(r.b2)
      BY <2>2, <2>5
    <2> QED BY <2>4, <2>7, <2>8 DEF r
  <1>3. CASE ~takes1 /\ q.t2 = <<>>
    <2>1. r = q
      BY <1>3 DEF Replaced
    <2>2. Len(q.t2) = 0 /\ (q.t1 = <<>> => Len(q.t1) = 0)
      BY <1>3, EmptyQueue
    <2>3. OneLess(q, q)
      BY DEF OneLess, Lesser
    <2>4. Len(q.t1) <= Larger(0, split) /\ (In(k, q.b2) => Len(q.t1) = 0 \/ Len(q.t1) < split)
      BY <1>0, <1>3, <2>2 DEF Larger
    <2> HIDE DEF r
    <2> QED BY <2>1, <2>2, <2>3, <2>4, <1>0 DEF Total, r
  <1> QED BY <1>1, <1>2, <1>3

Fits(q) ==
    /\ Len(q.t1) + Len(q.t2) <= Capacity
    /\ Len(q.t1) + Len(q.b1) <= Capacity
    /\ Total(q) <= 2 * Capacity
HasRoom(q) ==
    /\ Len(q.t1) + Len(q.t2) < Capacity
    /\ Len(q.t1) + Len(q.b1) < Capacity
    /\ Total(q) < 2 * Capacity

LEMMA RoomForLists ==
    ASSUME NEW q \in Lists, Fits(q), NEW k, p \in 0 .. Capacity
    PROVE  OneLess(q, RoomFor(q, k)) /\ HasRoom(RoomFor(q, k))
  <1> DEFINE r == RoomFor(q, k)
  <1>0. /\ q.t1 \in Queues /\ q.t2 \in Queues /\ q.b1 \in Queues /\ q.b2 \in Queues
        /\ q \in SequencesOfKeys /\ p \in Int
    BY ListsAreSequences DEF Lists
  <1>1. CASE Len(q.t1) + Len(q.b1) = Capacity /\ Len(q.t1) < Capacity
    <2> DEFINE d == [q EXCEPT !.b1 = DropFirst(@)]
    <2>1. DropFirst(q.b1) \in Queues /\ q.b1 # <<>> /\ Len(DropFirst(q.b1)) = Len(q.b1) - 1
      <3>1. Len(q.b1) # 0
        BY <1>0, <1>1 DEF SequencesOfKeys
      <3> QED BY <3>1, <1>0, DropFirstQueue
    <2>2. d \in Lists /\ d.t1 = q.t1 /\ d.t2 = q.t2 /\ d.b2 = q.b2 /\ d.b1 = DropFirst(q.b1)
      BY <2>1 DEF Lists
    <2>3. r = Replaced(d, k, p)
      BY <1>1 DEF RoomFor
    <2> HIDE DEF d
    <2>4. /\ OneLess(d, r)
          /\ Len(r.t1) + Len(r.b1) <= Len(d.t1) + Len(d.b1)
          /\ Total(r) <= Total(d)
          /\ \/ Len(r.t1) + Len(r.t2) = Len(d.t1) + Len(d.t2) - 1
             \/ r = d /\ Len(d.t2) = 0
      BY <1>0, <2>2, <2>3, ReplacedLists
    <2> HIDE DEF r
    <2>5. OneLess(q, r)
      BY <2>2, <2>4 DEF OneLess
    <2>6. d \in SequencesOfKeys /\ r \in SequencesOfKeys
      BY <2>2, <2>4, ListsAreSequences DEF OneLess
    <2>7. /\ Len(d.t1) = Len(q.t1) /\ Len(d.t2) = Len(q.t2) /\ Len(d.b2) = Len(q.b2)
          /\ Len(d.b1) = Len(q.b1) - 1
      BY <2>1, <2>2
    <2>8. HasRoom(r)
      <3>1. Len(r.t1) + Len(r.t2) < Capacity
        BY ONLY PolicyAssumption, <1>0, <1>1, <2>4, <2>6, <2>7, Fits(q) DEF Fits, SequencesOfKeys
      <3>2. Len(r.t1) + Len(r.b1) < Capacity
        BY ONLY PolicyAssumption, <1>0, <1>1, <2>4, <2>6, <2>7 DEF SequencesOfKeys
      <3>3. Total(r) < 2 * Capacity
        BY ONLY PolicyAssumption, <1>0, <1>1, <2>4, <2>6, <2>7, Fits(q)
           DEF Fits, Total, SequencesOfKeys
      <3> QED BY <3>1, <3>2, <3>3 DEF HasRoom
    <2> QED BY <2>5, <2>8 DEF r
  <1>2. CASE Len(q.t1) + Len(q.b1) = Capacity /\ ~(Len(q.t1) < Capacity)
    <2>1. Len(q.t1) = Capacity /\ Len(q.b1) = 0 /\ Len(q.t2) = 0
      BY <1>0, <1>2 DEF SequencesOfKeys, Fits
    <2>2. q.t1 # <<>>
      BY <1>0, <2>1, EmptyQueue
    <2>3. r = [q EXCEPT !.t1 = Tail(@), !.b1 = q.b1]
      BY <1>2, <2>2 DEF RoomFor, DropFirst, Lists
    <2>4. Len(Tail(q.t1)) = Len(q.t1) - 1
      BY <1>0, <2>2, TailQueue
    <2> HIDE DEF r
    <2>5. OneLess(q, r)
      BY <1>0, <2>2, <2>3, FromT1
    <2>6. r.t1 = Tail(q.t1) /\ r.t2 = q.t2 /\ r.b1 = q.b1 /\ r.b2 = q.b2
      BY <2>3 DEF Lists
    <2>7. /\ Len(r.t1) = Len(q.t1) - 1 /\ Len(r.t2) = Len(q.t2)
          /\ Len(r.b1) = Len(q.b1) /\ Len(r.b2) = Len(q.b2)
      BY <2>4, <2>6
    <2>8. r \in SequencesOfKeys
      BY <2>5, ListsAreSequences DEF OneLess
    <2>9. HasRoom(r)
      BY ONLY PolicyAssumption, <1>0, <2>1, <2>7, <2>8, Fits(q)
         DEF Fits, HasRoom, Total, SequencesOfKeys
    <2> QED BY <2>5, <2>9 DEF r
  <1>3. CASE ~(Len(q.t1) + Len(q.b1) = Capacity) /\ Total(q) = 2 * Capacity
    <2> DEFINE d == [q EXCEPT !.b2 = DropFirst(@)]
    <2>1. DropFirst(q.b2) \in Queues /\ Len(DropFirst(q.b2)) = Len(q.b2) - 1
      <3>1. Len(q.b2) # 0
        BY ONLY PolicyAssumption, <1>0, <1>3, Fits(q) DEF SequencesOfKeys, Fits, Total
      <3> QED BY <3>1, <1>0, DropFirstQueue
    <2>2. d \in Lists /\ d.t1 = q.t1 /\ d.t2 = q.t2 /\ d.b1 = q.b1 /\ d.b2 = DropFirst(q.b2)
      BY <2>1 DEF Lists
    <2>3. r = Replaced(d, k, p)
      <3>1. Total(q) >= Capacity
        BY <1>3
      <3> QED BY <1>3, <3>1 DEF RoomFor
    <2> HIDE DEF d
    <2>4. /\ OneLess(d, r)
          /\ Len(r.t1) + Len(r.b1) <= Len(d.t1) + Len(d.b1)
          /\ Total(r) <= Total(d)
          /\ \/ Len(r.t1) + Len(r.t2) = Len(d.t1) + Len(d.t2) - 1
             \/ r = d /\ Len(d.t2) = 0
      BY <1>0, <2>2, <2>3, ReplacedLists
    <2> HIDE DEF r
    <2>5. OneLess(q, r)
      BY <2>2, <2>4 DEF OneLess
    <2>6. d \in SequencesOfKeys /\ r \in SequencesOfKeys
      BY <2>2, <2>4, ListsAreSequences DEF OneLess
    <2>7. /\ Len(d.t1) = Len(q.t1) /\ Len(d.t2) = Len(q.t2) /\ Len(d.b1) = Len(q.b1)
          /\ Len(d.b2) = Len(q.b2) - 1
      BY <2>1, <2>2
    <2>8. HasRoom(r)
      <3>1. Len(r.t1) + Len(r.t2) < Capacity
        BY ONLY PolicyAssumption, <1>0, <1>3, <2>4, <2>6, <2>7, Fits(q) DEF Fits, SequencesOfKeys
      <3>2. Len(r.t1) + Len(r.b1) < Capacity
        <4>1. Len(q.t1) + Len(q.b1) < Capacity
          BY ONLY PolicyAssumption, <1>0, <1>3, Fits(q) DEF Fits, SequencesOfKeys
        <4> QED BY ONLY PolicyAssumption, <1>0, <2>4, <2>6, <2>7, <4>1 DEF SequencesOfKeys
      <3>3. Total(r) < 2 * Capacity
        BY ONLY PolicyAssumption, <1>0, <1>3, <2>4, <2>6, <2>7, Fits(q)
           DEF Fits, Total, SequencesOfKeys
      <3> QED BY <3>1, <3>2, <3>3 DEF HasRoom
    <2> QED BY <2>5, <2>8 DEF r
  <1>4. CASE /\ ~(Len(q.t1) + Len(q.b1) = Capacity) /\ Total(q) # 2 * Capacity
             /\ Total(q) >= Capacity
    <2>1. r = Replaced(q, k, p)
      BY <1>4 DEF RoomFor
    <2>2. /\ OneLess(q, r)
          /\ Len(r.t1) + Len(r.b1) <= Len(q.t1) + Len(q.b1)
          /\ Total(r) <= Total(q)
          /\ \/ Len(r.t1) + Len(r.t2) = Len(q.t1) + Len(q.t2) - 1
             \/ r = q /\ Len(q.t2) = 0
      BY <1>0, <2>1, ReplacedLists
    <2> HIDE DEF r
    <2>3. r \in SequencesOfKeys
      BY <2>2, ListsAreSequences DEF OneLess
    <2>4. HasRoom(r)
      <3>1. Len(r.t1) + Len(r.t2) < Capacity
        BY ONLY PolicyAssumption, <1>0, <1>4, <2>2, <2>3, Fits(q) DEF Fits, SequencesOfKeys
      <3>2. Len(r.t1) + Len(r.b1) < Capacity
        <4>1. Len(q.t1) + Len(q.b1) < Capacity
          BY ONLY PolicyAssumption, <1>0, <1>4, Fits(q) DEF Fits, SequencesOfKeys
        <4> QED BY ONLY PolicyAssumption, <1>0, <2>2, <2>3, <4>1 DEF SequencesOfKeys
      <3>3. Total(r) < 2 * Capacity
        <4>1. Total(q) < 2 * Capacity
          <5>1. Total(q) <= 2 * Capacity /\ Total(q) # 2 * Capacity
            BY <1>4 DEF Fits
          <5>2. Total(q) \in Nat /\ 2 * Capacity \in Nat
            BY ONLY PolicyAssumption, <1>0 DEF Total, SequencesOfKeys
          <5> QED BY ONLY <5>1, <5>2
        <4>2. Total(r) <= Total(q)
          BY <2>2
        <4> QED BY ONLY PolicyAssumption, <1>0, <2>3, <4>1, <4>2 DEF Total, SequencesOfKeys
      <3> QED BY <3>1, <3>2, <3>3 DEF HasRoom
    <2> QED BY <2>2, <2>4 DEF r
  <1>5. CASE ~(Len(q.t1) + Len(q.b1) = Capacity) /\ ~(Total(q) >= Capacity)
    <2>1. r = q
      BY <1>5 DEF RoomFor
    <2>2. HasRoom(q)
      BY ONLY PolicyAssumption, <1>0, <1>5, Fits(q) DEF Fits, HasRoom, Total, SequencesOfKeys
    <2>3. OneLess(q, q)
      BY DEF OneLess, Lesser
    <2> QED BY <2>1, <2>2, <2>3
  <1> QED BY <1>1, <1>2, <1>3, <1>4, <1>5

LEMMA OneLessTakesIn ==
    ASSUME NEW q \in Lists, NEW r, OneLess(q, r), NEW c, NEW k, MoreOf(Bag(r.t1, r.t2), c, k)
    PROVE  TakesIn(Bag(q.t1, q.t2), c, k)
  BY DEF OneLess, TakesIn

LEMMA IntoT1 ==
    ASSUME NEW q \in Lists, NEW r, OneLess(q, r), HasRoom(r), NEW k \in Keys
    PROVE  LET n == [r EXCEPT !.t1 = Warmest(@, k)]
           IN  n \in Lists /\ Fits(n) /\ TakesIn(Bag(q.t1, q.t2), Bag(n.t1, n.t2), k)
  <1> DEFINE n == [r EXCEPT !.t1 = Warmest(@, k)]
             w == Warmest(r.t1, k)
  <1>0. r \in Lists /\ r \in SequencesOfKeys /\ r.t1 \in Queues
    BY ListsAreSequences DEF OneLess, Lists
  <1>1. w \in Queues /\ Tracked(w) = Tracked(r.t1) \cup {k}
        /\ (Len(w) = Len(r.t1) \/ Len(w) = Len(r.t1) + 1)
    BY <1>0, WarmestQueue
  <1>2. n \in Lists
    BY <1>0, <1>1 DEF Lists
  <1>3. n.t1 = w /\ n.t2 = r.t2 /\ n.b1 = r.b1 /\ n.b2 = r.b2
    BY <1>0 DEF Lists
  <1> HIDE DEF n, w
  <1>5. /\ Len(n.t1) = Len(r.t1) \/ Len(n.t1) = Len(r.t1) + 1
        /\ Len(n.t2) = Len(r.t2) /\ Len(n.b1) = Len(r.b1) /\ Len(n.b2) = Len(r.b2)
    BY <1>1, <1>3
  <1>6. n \in SequencesOfKeys
    BY <1>2, ListsAreSequences
  <1>7. Fits(n)
    BY ONLY PolicyAssumption, <1>0, <1>5, <1>6, HasRoom(r)
       DEF Fits, HasRoom, Total, SequencesOfKeys
  <1>8. TakesIn(Bag(q.t1, q.t2), Bag(n.t1, n.t2), k)
    <2>1. MoreOf(Bag(r.t1, r.t2), Bag(n.t1, n.t2), k)
      BY <1>1, <1>3, MoreFirst
    <2> QED BY <2>1, OneLessTakesIn
  <1> QED BY <1>2, <1>7, <1>8 DEF n

(* A hit on a ghost takes the key back into T2; the ghosts are one less. *)
LEMMA FromB1 ==
    ASSUME NEW q \in Lists, NEW r, OneLess(q, r), NEW k \in Keys,
           k \in Tracked(r.b1), Fits(r), Len(r.t1) + Len(r.t2) < Capacity
    PROVE  LET n == [r EXCEPT !.b1 = Without(@, k), !.t2 = Warmest(@, k)]
           IN  n \in Lists /\ Fits(n) /\ TakesIn(Bag(q.t1, q.t2), Bag(n.t1, n.t2), k)
  <1> DEFINE n == [r EXCEPT !.b1 = Without(@, k), !.t2 = Warmest(@, k)]
             w == Warmest(r.t2, k)
             b == Without(r.b1, k)
  <1>0. r \in Lists /\ r \in SequencesOfKeys /\ r.t2 \in Queues /\ r.b1 \in Queues
    BY ListsAreSequences DEF OneLess, Lists
  <1>1. w \in Queues /\ Tracked(w) = Tracked(r.t2) \cup {k}
        /\ (Len(w) = Len(r.t2) \/ Len(w) = Len(r.t2) + 1)
    BY <1>0, WarmestQueue
  <1>2. b \in Queues /\ Len(b) = Len(r.b1) - 1
    BY <1>0, WithoutQueue
  <1>3. n \in Lists
    BY <1>0, <1>1, <1>2 DEF Lists
  <1>4. n.t1 = r.t1 /\ n.t2 = w /\ n.b1 = b /\ n.b2 = r.b2
    BY <1>0 DEF Lists
  <1> HIDE DEF n, w, b
  <1>6. /\ Len(n.t2) = Len(r.t2) \/ Len(n.t2) = Len(r.t2) + 1
        /\ Len(n.t1) = Len(r.t1) /\ Len(n.b1) = Len(r.b1) - 1 /\ Len(n.b2) = Len(r.b2)
    BY <1>1, <1>2, <1>4
  <1>7. n \in SequencesOfKeys
    BY <1>3, ListsAreSequences
  <1>8. Fits(n)
    BY ONLY PolicyAssumption, <1>0, <1>6, <1>7, Fits(r), Len(r.t1) + Len(r.t2) < Capacity
       DEF Fits, Total, SequencesOfKeys
  <1>9. TakesIn(Bag(q.t1, q.t2), Bag(n.t1, n.t2), k)
    <2>1. MoreOf(Bag(r.t1, r.t2), Bag(n.t1, n.t2), k)
      BY <1>1, <1>4, MoreSecond
    <2> QED BY <2>1, OneLessTakesIn
  <1> QED BY <1>3, <1>8, <1>9 DEF n

LEMMA FromB2 ==
    ASSUME NEW q \in Lists, NEW r, OneLess(q, r), NEW k \in Keys,
           k \in Tracked(r.b2), Fits(r), Len(r.t1) + Len(r.t2) < Capacity
    PROVE  LET n == [r EXCEPT !.b2 = Without(@, k), !.t2 = Warmest(@, k)]
           IN  n \in Lists /\ Fits(n) /\ TakesIn(Bag(q.t1, q.t2), Bag(n.t1, n.t2), k)
  <1> DEFINE n == [r EXCEPT !.b2 = Without(@, k), !.t2 = Warmest(@, k)]
             w == Warmest(r.t2, k)
             b == Without(r.b2, k)
  <1>0. r \in Lists /\ r \in SequencesOfKeys /\ r.t2 \in Queues /\ r.b2 \in Queues
    BY ListsAreSequences DEF OneLess, Lists
  <1>1. w \in Queues /\ Tracked(w) = Tracked(r.t2) \cup {k}
        /\ (Len(w) = Len(r.t2) \/ Len(w) = Len(r.t2) + 1)
    BY <1>0, WarmestQueue
  <1>2. b \in Queues /\ Len(b) = Len(r.b2) - 1
    BY <1>0, WithoutQueue
  <1>3. n \in Lists
    BY <1>0, <1>1, <1>2 DEF Lists
  <1>4. n.t1 = r.t1 /\ n.t2 = w /\ n.b2 = b /\ n.b1 = r.b1
    BY <1>0 DEF Lists
  <1> HIDE DEF n, w, b
  <1>6. /\ Len(n.t2) = Len(r.t2) \/ Len(n.t2) = Len(r.t2) + 1
        /\ Len(n.t1) = Len(r.t1) /\ Len(n.b2) = Len(r.b2) - 1 /\ Len(n.b1) = Len(r.b1)
    BY <1>1, <1>2, <1>4
  <1>7. n \in SequencesOfKeys
    BY <1>3, ListsAreSequences
  <1>8. Fits(n)
    BY ONLY PolicyAssumption, <1>0, <1>6, <1>7, Fits(r), Len(r.t1) + Len(r.t2) < Capacity
       DEF Fits, Total, SequencesOfKeys
  <1>9. TakesIn(Bag(q.t1, q.t2), Bag(n.t1, n.t2), k)
    <2>1. MoreOf(Bag(r.t1, r.t2), Bag(n.t1, n.t2), k)
      BY <1>1, <1>4, MoreSecond
    <2> QED BY <2>1, OneLessTakesIn
  <1> QED BY <1>3, <1>8, <1>9 DEF n

-----------------------------------------------------------------------------
(* The invariant, and the calls *)

IInv ==
    /\ kind \in Kinds
    /\ once \in Queues /\ often \in Queues /\ ghost1 \in Queues /\ ghost2 \in Queues
    /\ kind = "lru" => often = <<>>
    /\ CapacityHolds

LEMMA NowLists ==
    ASSUME IInv
    PROVE  /\ Now \in Lists /\ Bag(Now.t1, Now.t2) = Entries
           /\ Now.t1 = once /\ Now.t2 = often /\ Now.b1 = ghost1 /\ Now.b2 = ghost2
           /\ kind = "arc" => Fits(Now) /\ p \in 0 .. Capacity
  BY EntriesAreBag DEF IInv, Now, Lists, Fits, Total, CapacityHolds, ArcWithinCapacity

LEMMA BecomesKeeps ==
    ASSUME NEW n \in Lists, Fits(n), Becomes(n),
           kind = "arc", kind \in Kinds, kind' = kind, p' \in 0 .. Capacity
    PROVE  IInv' /\ Entries' = Bag(n.t1, n.t2)
  BY EntriesAreBagNext DEF IInv, Lists, Becomes, Fits, Total, CapacityHolds, ArcWithinCapacity

LEMMA ArcAdmitStep ==
    ASSUME IInv, kind = "arc", kind' = kind, NEW k \in Keys, ArcAdmit(k)
    PROVE  IInv' /\ TakesIn(Entries, Entries', k)
  <1> DEFINE r == RoomFor(Now, k)
             n == [r EXCEPT !.t1 = Warmest(@, k)]
  <1>1. /\ Now \in Lists /\ Bag(Now.t1, Now.t2) = Entries
        /\ Fits(Now) /\ p \in 0 .. Capacity /\ kind \in Kinds
    BY NowLists DEF IInv
  <1>2. OneLess(Now, r) /\ HasRoom(r)
    BY <1>1, RoomForLists
  <1>3. Becomes(n) /\ p' = p
    BY DEF ArcAdmit
  <1> HIDE DEF r
  <1>4. n \in Lists /\ Fits(n) /\ TakesIn(Entries, Bag(n.t1, n.t2), k)
    BY <1>1, <1>2, IntoT1
  <1> HIDE DEF n
  <1> QED BY <1>1, <1>3, <1>4, BecomesKeeps

(* A replacement with a ghost of the key at hand leaves room for the key. *)
LEMMA HitLeavesRoom ==
    ASSUME NEW q \in Lists, Fits(q), NEW k, NEW split \in 0 .. Capacity,
           In(k, q.b1) \/ In(k, q.b2)
    PROVE  LET r == Replaced(q, k, split)
           IN  /\ OneLess(q, r) /\ Fits(r) /\ Len(r.t1) + Len(r.t2) < Capacity
               /\ Tracked(q.b1) \subseteq Tracked(r.b1) /\ Tracked(q.b2) \subseteq Tracked(r.b2)
  <1> DEFINE r == Replaced(q, k, split)
  <1>0. q \in SequencesOfKeys /\ split \in Int /\ q.b1 \in Queues
    BY ListsAreSequences DEF Lists
  <1>1. /\ OneLess(q, r)
        /\ Tracked(q.b1) \subseteq Tracked(r.b1) /\ Tracked(q.b2) \subseteq Tracked(r.b2)
        /\ Len(r.t1) + Len(r.b1) <= Len(q.t1) + Len(q.b1)
        /\ Total(r) <= Total(q)
        /\ \/ Len(r.t1) + Len(r.t2) = Len(q.t1) + Len(q.t2) - 1
           \/ /\ r = q /\ Len(q.t2) = 0 /\ Len(q.t1) <= Larger(0, split)
              /\ In(k, q.b2) => Len(q.t1) = 0 \/ Len(q.t1) < split
    BY <1>0, ReplacedLists
  <1> HIDE DEF r
  <1>2. r \in SequencesOfKeys
    BY <1>1, ListsAreSequences DEF OneLess
  <1>3. In(k, q.b1) => Len(q.b1) # 0
    BY <1>0, EmptyQueue, TrackedKeys, InTracked
  <1>4. Len(r.t1) + Len(r.t2) < Capacity
    <2>1. CASE Len(r.t1) + Len(r.t2) = Len(q.t1) + Len(q.t2) - 1
      BY ONLY PolicyAssumption, <1>0, <1>2, <2>1, Fits(q) DEF Fits, SequencesOfKeys
    <2>2. CASE r = q /\ Len(q.t2) = 0 /\ In(k, q.b2) /\ (Len(q.t1) = 0 \/ Len(q.t1) < split)
      BY ONLY PolicyAssumption, <1>0, <2>2, split \in 0 .. Capacity DEF SequencesOfKeys
    <2>3. CASE r = q /\ Len(q.t2) = 0 /\ In(k, q.b1)
      <3>1. Len(q.b1) # 0
        BY <1>3, <2>3
      <3>2. Len(q.t1) + Len(q.b1) <= Capacity
        BY DEF Fits
      <3> QED BY ONLY PolicyAssumption, <1>0, <2>3, <3>1, <3>2 DEF SequencesOfKeys
    <2> QED BY <1>1, <2>1, <2>2, <2>3
  <1>5. Fits(r)
    <2>1. Len(r.t1) + Len(r.t2) <= Capacity
      BY ONLY PolicyAssumption, <1>2, <1>4 DEF SequencesOfKeys
    <2>2. Len(r.t1) + Len(r.b1) <= Capacity
      <3>1. Len(r.t1) + Len(r.b1) <= Len(q.t1) + Len(q.b1) /\ Len(q.t1) + Len(q.b1) <= Capacity
        BY <1>1 DEF Fits
      <3> QED BY ONLY PolicyAssumption, <1>0, <1>2, <3>1 DEF SequencesOfKeys
    <2>3. Total(r) <= 2 * Capacity
      <3>1. Total(r) <= Total(q) /\ Total(q) <= 2 * Capacity
        BY <1>1 DEF Fits
      <3>2. Total(r) \in Nat /\ Total(q) \in Nat /\ 2 * Capacity \in Nat
        BY ONLY PolicyAssumption, <1>0, <1>2 DEF Total, SequencesOfKeys
      <3> QED BY ONLY <3>1, <3>2
    <2> QED BY <2>1, <2>2, <2>3 DEF Fits
  <1> QED BY <1>1, <1>4, <1>5 DEF r

LEMMA Steps ==
    ASSUME NEW a \in Nat, NEW b \in Nat
    PROVE  Larger(1, a \div Larger(b, 1)) \in Nat \ {0}
  <1>1. Larger(b, 1) \in Nat \ {0}
    BY DEF Larger
  <1>2. a \div Larger(b, 1) \in Nat
    BY <1>1
  <1> QED BY <1>2 DEF Larger

LEMMA HitGhost1Step ==
    ASSUME IInv, kind = "arc", kind' = kind, NEW k \in Keys, In(k, ghost1),
           HitGhost1(k)
    PROVE  IInv' /\ TakesIn(Entries, Entries', k)
  <1> DEFINE up == Larger(1, Len(ghost2) \div Larger(Len(ghost1), 1))
             split == Smaller(Capacity, p + up)
             r == Replaced(Now, k, split)
             n == [r EXCEPT !.b1 = Without(@, k), !.t2 = Warmest(@, k)]
  <1>1. /\ Now \in Lists /\ Bag(Now.t1, Now.t2) = Entries
        /\ Fits(Now) /\ p \in 0 .. Capacity /\ kind \in Kinds /\ Now.b1 = ghost1
        /\ Len(ghost1) \in Nat /\ Len(ghost2) \in Nat
    BY NowLists, TrackedKeys DEF IInv
  <1>2. split \in 0 .. Capacity
    <2>1. up \in Nat
      BY <1>1, Steps
    <2> HIDE DEF up
    <2> QED BY <1>1, <2>1 DEF Smaller
  <1>3. Becomes(n) /\ p' = split
    BY DEF HitGhost1
  <1> HIDE DEF split
  <1>4. /\ OneLess(Now, r) /\ Fits(r) /\ Len(r.t1) + Len(r.t2) < Capacity
        /\ Tracked(Now.b1) \subseteq Tracked(r.b1)
    BY <1>1, <1>2, HitLeavesRoom
  <1> HIDE DEF r
  <1>5. k \in Tracked(r.b1)
    BY <1>1, <1>4, InTracked
  <1>6. n \in Lists /\ Fits(n) /\ TakesIn(Entries, Bag(n.t1, n.t2), k)
    BY <1>1, <1>4, <1>5, FromB1
  <1> HIDE DEF n
  <1> QED BY <1>1, <1>2, <1>3, <1>6, BecomesKeeps

LEMMA HitGhost2Step ==
    ASSUME IInv, kind = "arc", kind' = kind, NEW k \in Keys, In(k, ghost2),
           HitGhost2(k)
    PROVE  IInv' /\ TakesIn(Entries, Entries', k)
  <1> DEFINE down == Larger(1, Len(ghost1) \div Larger(Len(ghost2), 1))
             split == Larger(0, p - down)
             r == Replaced(Now, k, split)
             n == [r EXCEPT !.b2 = Without(@, k), !.t2 = Warmest(@, k)]
  <1>1. /\ Now \in Lists /\ Bag(Now.t1, Now.t2) = Entries
        /\ Fits(Now) /\ p \in 0 .. Capacity /\ kind \in Kinds /\ Now.b2 = ghost2
        /\ Len(ghost1) \in Nat /\ Len(ghost2) \in Nat
    BY NowLists, TrackedKeys DEF IInv
  <1>2. split \in 0 .. Capacity
    <2>1. down \in Nat
      BY <1>1, Steps
    <2> HIDE DEF down
    <2> QED BY <1>1, <2>1 DEF Larger
  <1>3. Becomes(n) /\ p' = split
    BY DEF HitGhost2
  <1> HIDE DEF split
  <1>4. /\ OneLess(Now, r) /\ Fits(r) /\ Len(r.t1) + Len(r.t2) < Capacity
        /\ Tracked(Now.b2) \subseteq Tracked(r.b2)
    BY <1>1, <1>2, HitLeavesRoom
  <1> HIDE DEF r
  <1>5. k \in Tracked(r.b2)
    BY <1>1, <1>4, InTracked
  <1>6. n \in Lists /\ Fits(n) /\ TakesIn(Entries, Bag(n.t1, n.t2), k)
    BY <1>1, <1>4, <1>5, FromB2
  <1> HIDE DEF n
  <1> QED BY <1>1, <1>2, <1>3, <1>6, BecomesKeeps

(* A hit moves the key to the protected list, in 2Q and in ARC. *)
LEMMA HitStep ==
    ASSUME IInv, kind # "lru", kind' = kind, NEW k \in Keys, k \in Live,
           once' = Without(once, k), often' = Warmest(often, k),
           UNCHANGED <<ghost1, ghost2, p>>
    PROVE  IInv' /\ Entries' = Put(Entries, k, 1)
  <1>1. /\ once' \in Queues /\ Tracked(once') = Tracked(once) \ {k}
        /\ Len(once') = IF k \in Tracked(once) THEN Len(once) - 1 ELSE Len(once)
    BY WithoutQueue DEF IInv
  <1>2. /\ often' \in Queues /\ Tracked(often') = Tracked(often) \cup {k}
        /\ Len(often') = IF k \in Tracked(often) THEN Len(often) ELSE Len(often) + 1
    BY WarmestQueue DEF IInv
  <1>3. Entries' = Put(Entries, k, 1)
    BY <1>1, <1>2, Moved, EntriesAreBag, EntriesAreBagNext
  <1>4. CapacityHolds'
    <2> SUFFICES ASSUME kind = "arc"
                 PROVE  ArcWithinCapacity'
      BY DEF CapacityHolds
    <2>1. ArcWithinCapacity /\ Len(once) \in Nat /\ Len(often) \in Nat
          /\ Len(ghost1) \in Nat /\ Len(ghost2) \in Nat /\ Len(once') \in Nat
          /\ ghost1' = ghost1 /\ ghost2' = ghost2 /\ p' = p
      BY <1>1, TrackedKeys DEF IInv, CapacityHolds
    <2>2. k \in Tracked(once) \/ k \in Tracked(often)
      BY DEF Live
    <2>4. \/ Len(once') = Len(once) - 1 /\ Len(often') = Len(often) + 1
          \/ Len(once') = Len(once) - 1 /\ Len(often') = Len(often)
          \/ Len(once') = Len(once) /\ Len(often') = Len(often)
      BY <1>1, <1>2, <2>2
    <2> QED BY ONLY PolicyAssumption, <2>1, <2>4 DEF ArcWithinCapacity
  <1> QED BY <1>1, <1>2, <1>3, <1>4 DEF IInv

(* A victim was tracked, and loses one entry. *)
Victim ==
    \E k \in Keys : /\ Entries[k] > 0 /\ Entries' = Put(Entries, k, Entries[k] - 1)
                    /\ call' = <<"evict", k>>

LEMMA FirstVictim ==
    ASSUME once \in Queues, once # <<>>, once' = Tail(once), often' = often,
           call' = <<"evict", Head(once)>>
    PROVE  Victim
  <1> DEFINE k == Head(once)
  <1>1. k \in Tracked(once) /\ k \in Keys /\ Tracked(once') = Tracked(once) \ {k}
    BY TailQueue
  <1> HIDE DEF k
  <1>2. /\ Bag(once, often)[k] > 0
        /\ Bag(once', often) = Put(Bag(once, often), k, Bag(once, often)[k] - 1)
    BY ONLY <1>1, LessFirst
  <1> QED BY <1>1, <1>2, EntriesAreBag, EntriesAreBagNext DEF Victim, k

LEMMA SecondVictim ==
    ASSUME often \in Queues, often # <<>>, often' = Tail(often), once' = once,
           call' = <<"evict", Head(often)>>
    PROVE  Victim
  <1> DEFINE k == Head(often)
  <1>1. k \in Tracked(often) /\ k \in Keys /\ Tracked(often') = Tracked(often) \ {k}
    BY TailQueue
  <1> HIDE DEF k
  <1>2. /\ Bag(once, often)[k] > 0
        /\ Bag(once, often') = Put(Bag(once, often), k, Bag(once, often)[k] - 1)
    BY ONLY <1>1, LessSecond
  <1> QED BY <1>1, <1>2, EntriesAreBag, EntriesAreBagNext DEF Victim, k

LEMMA ArcEvictStep ==
    ASSUME IInv, kind = "arc", kind' = kind, ArcEvict
    PROVE  IInv' /\ Victim
  <1>0. /\ once \in Queues /\ often \in Queues /\ ghost1 \in Queues /\ ghost2 \in Queues
        /\ Len(once) \in Nat /\ Len(often) \in Nat /\ Len(ghost1) \in Nat /\ Len(ghost2) \in Nat
        /\ ArcWithinCapacity /\ kind \in Kinds /\ p' = p
    BY TrackedKeys DEF IInv, CapacityHolds, ArcEvict
  <1>1. CASE /\ once # <<>> /\ once' = Tail(once) /\ call' = <<"evict", Head(once)>>
             /\ ghost1' = With(ghost1, Head(once)) /\ UNCHANGED <<often, ghost2>>
    <2>1. /\ once' \in Queues /\ Head(once) \in Keys /\ Len(once') = Len(once) - 1
          /\ Len(once') \in Nat
      BY <1>0, <1>1, TailQueue, TrackedKeys
    <2>2. ghost1' \in Queues /\ Len(ghost1') <= Len(ghost1) + 1 /\ Len(ghost1') \in Nat
      BY <1>0, <1>1, <2>1, WithQueue, TrackedKeys
    <2>4. ArcWithinCapacity'
      <3>1. often' = often /\ ghost2' = ghost2
        BY <1>1
      <3> QED BY ONLY PolicyAssumption, <1>0, <2>1, <2>2, <3>1 DEF ArcWithinCapacity
    <2>5. IInv'
      BY <1>0, <1>1, <2>1, <2>2, <2>4 DEF IInv, CapacityHolds
    <2> QED BY <1>0, <1>1, <2>5, FirstVictim
  <1>2. CASE /\ often # <<>> /\ often' = Tail(often) /\ call' = <<"evict", Head(often)>>
             /\ ghost2' = With(ghost2, Head(often)) /\ UNCHANGED <<once, ghost1>>
    <2>1. /\ often' \in Queues /\ Head(often) \in Keys /\ Len(often') = Len(often) - 1
          /\ Len(often') \in Nat
      BY <1>0, <1>2, TailQueue, TrackedKeys
    <2>2. ghost2' \in Queues /\ Len(ghost2') <= Len(ghost2) + 1 /\ Len(ghost2') \in Nat
      BY <1>0, <1>2, <2>1, WithQueue, TrackedKeys
    <2>4. ArcWithinCapacity'
      <3>1. once' = once /\ ghost1' = ghost1
        BY <1>2
      <3> QED BY ONLY PolicyAssumption, <1>0, <2>1, <2>2, <3>1 DEF ArcWithinCapacity
    <2>5. IInv'
      BY <1>0, <1>2, <2>1, <2>2, <2>4 DEF IInv, CapacityHolds
    <2> QED BY <1>0, <1>2, <2>5, SecondVictim
  <1> QED BY <1>1, <1>2 DEF ArcEvict

LEMMA TouchStep ==
    ASSUME IInv, NEW k \in Keys, Touch(k)
    PROVE  /\ IInv'
           /\ \/ k \in Live /\ Entries' = Put(Entries, k, 1)
              \/ k \notin Live /\ kind # "arc" /\ Entries' = Entries
              \/ k \notin Live /\ kind = "arc" /\ TakesIn(Entries, Entries', k)
  <1>0. kind' = kind /\ k \in Keys /\ kind \in {"lru", "2q", "arc"}
        /\ once \in Queues /\ often \in Queues
    BY DEF Touch, IInv
  <1>1. CASE kind = "lru"
    <2>1. LruTouch(k)
      BY <1>1 DEF Touch
    <2>2. Warmest(once, k) \in Queues /\ Tracked(Warmest(once, k)) = Tracked(once) \cup {k}
      BY <1>0, WarmestQueue
    <2>3. once' \in Queues /\ Tracked(once') = Tracked(once) /\ often' = often
      BY <1>0, <2>1, <2>2, InTracked DEF LruTouch
    <2>4. IInv'
      BY <1>0, <1>1, <2>1, <2>3 DEF LruTouch, IInv, CapacityHolds
    <2>5. Entries' = Entries
      BY <2>3, EntriesAreBag, EntriesAreBagNext DEF Bag, Entry
    <2>6. k \in Live => Entries = Put(Entries, k, 1)
      <3>1. Tracked(often) = {}
        BY <1>1, EmptyQueue DEF IInv
      <3>2. Entries = [x \in Keys |-> Entry(x, once)]
        BY <3>1, OneListBag, EntriesAreBag
      <3>3. k \in Live => Entry(k, once) = 1
        BY <3>1 DEF Live, Entry
      <3> QED BY <3>2, <3>3 DEF Put
    <2> QED BY <1>1, <2>4, <2>5, <2>6
  <1>2. CASE kind = "2q"
    <2>1. TwoQueueTouch(k)
      BY <1>2 DEF Touch
    <2>2. CASE k \in Live
      <3>1. /\ once' = Without(once, k) /\ often' = Warmest(often, k)
            /\ UNCHANGED <<ghost1, ghost2, p>>
        BY <2>1, <2>2, InTracked DEF TwoQueueTouch, Live
      <3> QED BY <1>0, <1>2, <2>2, <3>1, HitStep
    <2>3. CASE k \notin Live
      <3>1. ~In(k, once) /\ ~In(k, often)
        BY <2>3, InTracked DEF Live
      <3>2. UNCHANGED queues
        BY <2>1, <3>1 DEF TwoQueueTouch, Without, queues
      <3>3. Entries' = Entries
        BY <3>2, EntriesAreBag, EntriesAreBagNext DEF queues
      <3>4. IInv'
        BY <1>0, <1>2, <3>2 DEF queues, IInv, CapacityHolds
      <3> QED BY <1>2, <2>3, <3>3, <3>4
    <2> QED BY <2>2, <2>3
  <1>3. CASE kind = "arc"
    <2>1. ArcTouch(k)
      BY <1>3 DEF Touch
    <2>2. CASE k \in Live
      <3>1. /\ once' = Without(once, k) /\ often' = Warmest(often, k)
            /\ UNCHANGED <<ghost1, ghost2, p>>
        BY <2>1, <2>2, InTracked DEF ArcTouch, Live
      <3> QED BY <1>0, <1>3, <2>2, <3>1, HitStep
    <2>3. CASE k \notin Live
      <3>1. \/ In(k, ghost1) /\ HitGhost1(k)
            \/ In(k, ghost2) /\ HitGhost2(k)
            \/ ArcAdmit(k)
        BY <2>1, <2>3, InTracked DEF ArcTouch, Live
      <3> QED BY <1>0, <1>3, <2>3, <3>1, HitGhost1Step, HitGhost2Step, ArcAdmitStep
    <2> QED BY <2>2, <2>3
  <1> QED BY <1>0, <1>1, <1>2, <1>3

(* b without loss, once k is taken in, with at most m entries *)
TakesMore(b, c, k, m) == \E n \in 1 .. m : n \in {b[k], b[k] + 1} /\ c = Put(b, k, n)

LEMMA AdmitStep ==
    ASSUME IInv, NEW k \in Keys, Admit(k)
    PROVE  /\ IInv'
           /\ \/ kind = "arc" /\ TakesIn(Entries, Entries', k)
              \/ kind # "arc" /\ TakesMore(Entries, Entries', k, IF kind = "lru" THEN 1 ELSE 2)
  <1>0. kind' = kind /\ once \in Queues
    BY DEF Admit, IInv
  <1>1. CASE kind = "arc"
    BY <1>0, <1>1, ArcAdmitStep DEF Admit
  <1>2. CASE kind # "arc"
    <2>1. PlainAdmit(k) /\ often' = often
      BY <1>2 DEF Admit, PlainAdmit
    <2>2. once' \in Queues /\ Tracked(once') = Tracked(once) \cup {k}
      BY <1>0, <2>1, WarmestQueue DEF PlainAdmit
    <2>3. IInv'
      BY <1>0, <1>2, <2>1, <2>2 DEF PlainAdmit, IInv, CapacityHolds
    <2>4. TakesMore(Entries, Entries', k, 2)
      <3>1. MoreOf(Bag(once, often), Bag(once', often'), k)
        BY <2>1, <2>2, MoreFirst
      <3> QED BY <3>1, EntriesAreBag, EntriesAreBagNext DEF MoreOf, TakesMore
    <2>5. CASE kind = "lru"
      <3>1. Tracked(often) = {}
        BY <2>5, EmptyQueue DEF IInv
      <3>2. Entries' = Put(Entries, k, 1) /\ Entries[k] \in {0, 1}
        <4>1. /\ Entries = [x \in Keys |-> Entry(x, once)]
              /\ Entries' = [x \in Keys |-> Entry(x, once')]
          BY <2>1, <3>1, OneListBag, EntriesAreBag, EntriesAreBagNext
        <4>2. Entry(k, once') = 1 /\ \A x \in Keys \ {k} : Entry(x, once') = Entry(x, once)
          BY <2>2 DEF Entry
        <4> QED BY <4>1, <4>2, EntryValue DEF Put
      <3>3. TakesMore(Entries, Entries', k, 1)
        BY <3>2 DEF TakesMore
      <3> QED BY <1>2, <2>3, <2>5, <3>3
    <2> QED BY <1>2, <2>3, <2>4, <2>5
  <1> QED BY <1>1, <1>2

LEMMA EvictStep ==
    ASSUME IInv, Evict
    PROVE  /\ IInv'
           /\ \/ Live = {} /\ Entries' = Entries /\ call' = <<"evict", NoKey>>
              \/ Victim
  <1>0. kind' = kind /\ once \in Queues /\ often \in Queues
    BY DEF Evict, IInv
  <1>1. CASE Live = {}
    <2>1. UNCHANGED queues /\ call' = <<"evict", NoKey>>
      BY <1>1 DEF Evict
    <2>2. Entries' = Entries
      BY <2>1, EntriesAreBag, EntriesAreBagNext DEF queues
    <2>3. IInv'
      BY <1>0, <2>1 DEF queues, IInv, CapacityHolds, ArcWithinCapacity
    <2> QED BY <1>1, <2>1, <2>2, <2>3
  <1>2. CASE Live # {} /\ kind = "arc"
    BY <1>0, <1>2, ArcEvictStep DEF Evict
  <1>3. CASE Live # {} /\ kind # "arc"
    <2>0. PlainEvict
      BY <1>3 DEF Evict
    <2>1. CASE once # <<>> /\ once' = Tail(once) /\ call' = <<"evict", Head(once)>>
               /\ UNCHANGED <<often, ghost1, ghost2, p>>
      <3>1. once' \in Queues
        BY <1>0, <2>1, TailQueue
      <3>2. Victim
        BY <1>0, <2>1, FirstVictim
      <3> QED BY <1>0, <1>3, <2>1, <3>1, <3>2 DEF IInv, CapacityHolds
    <2>2. CASE often # <<>> /\ often' = Tail(often) /\ call' = <<"evict", Head(often)>>
               /\ UNCHANGED <<once, ghost1, ghost2, p>>
      <3>1. often' \in Queues
        BY <1>0, <2>2, TailQueue
      <3>2. Victim
        BY <1>0, <2>2, SecondVictim
      <3>3. kind # "lru"
        BY <2>2 DEF IInv
      <3> QED BY <1>0, <1>3, <2>2, <3>1, <3>2, <3>3 DEF IInv, CapacityHolds
    <2> QED BY <2>0, <2>1, <2>2 DEF PlainEvict
  <1> QED BY <1>1, <1>2, <1>3

LEMMA RemoveStep ==
    ASSUME IInv, NEW k \in Keys, Remove(k)
    PROVE  IInv' /\ Entries' = Put(Entries, k, 0)
  <1>0. /\ once \in Queues /\ often \in Queues /\ ghost1 \in Queues /\ ghost2 \in Queues
        /\ Len(once) \in Nat /\ Len(often) \in Nat /\ Len(ghost1) \in Nat /\ Len(ghost2) \in Nat
    BY TrackedKeys DEF IInv
  <1>1. /\ once' = Without(once, k) /\ often' = Without(often, k)
        /\ ghost1' = Without(ghost1, k) /\ ghost2' = Without(ghost2, k)
        /\ kind' = kind /\ p' = p
    BY DEF Remove
  <1>2. /\ once' \in Queues /\ often' \in Queues /\ ghost1' \in Queues /\ ghost2' \in Queues
        /\ Tracked(once') = Tracked(once) \ {k} /\ Tracked(often') = Tracked(often) \ {k}
    BY <1>0, <1>1, WithoutQueue
  <1>3. /\ Len(once') <= Len(once) /\ Len(often') <= Len(often)
        /\ Len(ghost1') <= Len(ghost1) /\ Len(ghost2') <= Len(ghost2)
    <2>1. /\ Len(once') \in {Len(once), Len(once) - 1} /\ Len(often') \in {Len(often), Len(often) - 1}
          /\ Len(ghost1') \in {Len(ghost1), Len(ghost1) - 1}
          /\ Len(ghost2') \in {Len(ghost2), Len(ghost2) - 1}
      BY <1>0, <1>1, WithoutQueue
    <2> QED BY ONLY <1>0, <2>1
  <1>4. /\ Len(once') \in Nat /\ Len(often') \in Nat /\ Len(ghost1') \in Nat /\ Len(ghost2') \in Nat
    BY <1>2, TrackedKeys
  <1>5. Entries' = Put(Entries, k, 0)
    BY <1>2, Dropped, EntriesAreBag, EntriesAreBagNext
  <1>6. CapacityHolds'
    <2>1. CASE kind = "arc"
      <3>1. ArcWithinCapacity /\ p' = p
        BY <1>1, <2>1 DEF IInv, CapacityHolds
      <3> QED BY ONLY PolicyAssumption, <1>0, <1>3, <1>4, <3>1 DEF ArcWithinCapacity, CapacityHolds
    <2>2. CASE kind # "arc"
      BY <1>1, <2>2 DEF CapacityHolds
    <2> QED BY <2>1, <2>2
  <1>7. kind' = "lru" => often' = <<>>
    BY <1>1, <1>2, EmptyQueue, TrackedKeys DEF IInv
  <1> QED BY <1>1, <1>2, <1>5, <1>6, <1>7 DEF IInv

-----------------------------------------------------------------------------
(* The theorems *)

Most == IF kind = "lru" THEN 1 ELSE 2
Replaces == kind = "arc"
AbstractStep == [Abstract!Next]_<<Entries, call, Most, Replaces>>

LEMMA HeldAreLive ==
    /\ \A k \in Keys : k \in Live <=> Entries[k] > 0
    /\ Abstract!Held = {k \in Keys : Entries[k] > 0}
  <1>1. ASSUME NEW k \in Keys
        PROVE  k \in Live <=> Entries[k] > 0
    <2>1. Entries[k] = Entry(k, once) + Entry(k, often)
      BY EntriesAreBag, BagAt
    <2>2. k \in Live <=> Entry(k, once) = 1 \/ Entry(k, often) = 1
      BY DEF Entry, Live
    <2>3. Entry(k, once) \in {0, 1} /\ Entry(k, often) \in {0, 1}
      BY EntryValue
    <2> QED BY <2>1, <2>2, <2>3
  <1> QED BY <1>1 DEF Abstract!Held

LEMMA TakesInIsRecord ==
    ASSUME NEW k \in Keys, kind = "arc", TakesIn(Entries, Entries', k)
    PROVE  Abstract!Record(k)
  <1>1. Abstract!Kept = Lesser(Entries)
    <2>1. \A x \in Keys : Abstract!Drop(x) = Put(Entries, x, Entries[x] - 1)
      BY DEF Abstract!Drop, Put
    <2>2. Abstract!Kept = {Entries} \cup {Abstract!Drop(x) : x \in Abstract!Held}
      BY DEF Abstract!Kept
    <2>3. Abstract!Held = {x \in Keys : Entries[x] > 0}
      BY HeldAreLive
    <2> QED BY <2>1, <2>2, <2>3 DEF Lesser
  <1>2. PICK d \in Lesser(Entries) : MoreOf(d, Entries', k)
    BY DEF TakesIn
  <1>3. PICK n \in 1 .. 2 : n \in {d[k], d[k] + 1} /\ Entries' = [d EXCEPT ![k] = n]
    BY <1>2 DEF MoreOf, Put
  <1> QED BY <1>1, <1>3 DEF Abstract!Record

LEMMA TakesMoreIsRecord ==
    ASSUME NEW k \in Keys, kind # "arc", TakesMore(Entries, Entries', k, Most)
    PROVE  Abstract!Record(k)
  <1>1. Abstract!Kept = {Entries}
    BY DEF Abstract!Kept
  <1>2. PICK n \in 1 .. Most : n \in {Entries[k], Entries[k] + 1} /\ Entries' = [Entries EXCEPT ![k] = n]
    BY DEF TakesMore, Put
  <1> QED BY <1>1, <1>2 DEF Abstract!Record, Most

LEMMA InitIInv == Init => IInv /\ Abstract!Init
  <1> SUFFICES ASSUME Init PROVE IInv /\ Abstract!Init
    OBVIOUS
  <1>1. once \in Queues /\ often \in Queues /\ ghost1 \in Queues /\ ghost2 \in Queues
        /\ Tracked(once) = {} /\ Tracked(often) = {}
    BY EmptyQueue DEF Init
  <1>2. CapacityHolds
    BY EmptyQueue DEF Init, CapacityHolds, ArcWithinCapacity
  <1>3. Entries = [k \in Keys |-> 0]
    BY <1>1, EntriesAreBag DEF Bag, Entry
  <1> QED BY <1>1, <1>2, <1>3 DEF Init, IInv, Abstract!Init

LEMMA NextIInv == IInv /\ [Next]_vars => IInv' /\ AbstractStep
  <1> SUFFICES ASSUME IInv, [Next]_vars
               PROVE  IInv' /\ AbstractStep
    OBVIOUS
  <1>0. kind' = kind => Most' = Most /\ Replaces' = Replaces
    BY DEF Most, Replaces
  <1>1. ASSUME Evict
        PROVE  IInv' /\ Abstract!Next
    <2>1. kind' = kind
      BY <1>1 DEF Evict
    <2>2. CASE Live = {} /\ Entries' = Entries /\ call' = <<"evict", NoKey>>
      <3>1. Abstract!Held = {}
        BY <2>2, HeldAreLive
      <3> QED BY <1>1, <2>1, <2>2, <3>1, EvictStep
              DEF Abstract!Next, Abstract!Evict, Abstract!Does
    <2>3. CASE Victim
      <3>1. PICK k \in Keys : /\ Entries[k] > 0 /\ Entries' = Put(Entries, k, Entries[k] - 1)
                              /\ call' = <<"evict", k>>
        BY <2>3 DEF Victim
      <3>2. k \in Abstract!Held /\ Entries' = Abstract!Drop(k)
        BY <3>1, HeldAreLive DEF Abstract!Drop, Put
      <3>3. Abstract!Evict
        BY <2>1, <3>1, <3>2 DEF Abstract!Evict, Abstract!Does
      <3> QED BY <1>1, <3>3, EvictStep DEF Abstract!Next
    <2> QED BY <1>1, <2>2, <2>3, EvictStep
  <1>2. ASSUME NEW k \in Keys, Touch(k)
        PROVE  IInv' /\ Abstract!Next
    <2>1. IInv' /\ call' = <<"touch", k>> /\ kind' = kind
      BY <1>2, TouchStep DEF Touch
    <2>2. k \in Live <=> k \in Abstract!Held
      BY HeldAreLive
    <2>3. Abstract!Touch(k)
      <3>1. CASE k \in Live /\ Entries' = Put(Entries, k, 1)
        BY <2>1, <2>2, <3>1 DEF Abstract!Touch, Abstract!Does, Put
      <3>2. CASE k \notin Live /\ kind # "arc" /\ Entries' = Entries
        BY <2>1, <2>2, <3>2 DEF Abstract!Touch, Abstract!Does
      <3>3. CASE k \notin Live /\ kind = "arc" /\ TakesIn(Entries, Entries', k)
        BY <2>1, <2>2, <3>3, TakesInIsRecord DEF Abstract!Touch, Abstract!Does
      <3> QED BY <1>2, <3>1, <3>2, <3>3, TouchStep
    <2> QED BY <2>1, <2>3 DEF Abstract!Next
  <1>3. ASSUME NEW k \in Keys, Admit(k)
        PROVE  IInv' /\ Abstract!Next
    <2>1. IInv' /\ call' = <<"admit", k>> /\ kind' = kind
      BY <1>3, AdmitStep DEF Admit
    <2>2. Abstract!Record(k)
      BY <1>3, AdmitStep, TakesInIsRecord, TakesMoreIsRecord DEF Most
    <2> QED BY <2>1, <2>2 DEF Abstract!Next, Abstract!Admit, Abstract!Does
  <1>4. ASSUME NEW k \in Keys, Remove(k)
        PROVE  IInv' /\ Abstract!Next
    <2>1. IInv' /\ Entries' = Put(Entries, k, 0)
      BY <1>4, RemoveStep
    <2>2. Abstract!Remove(k)
      BY <1>4, <2>1 DEF Remove, Abstract!Remove, Abstract!Does, Put
    <2> QED BY <2>1, <2>2 DEF Abstract!Next
  <1>5. CASE UNCHANGED vars
    <2>1. IInv'
      BY <1>5 DEF vars, IInv, CapacityHolds, ArcWithinCapacity
    <2>2. Entries' = Entries
      BY <1>5, EntriesAreBag, EntriesAreBagNext DEF vars
    <2> QED BY <1>0, <1>5, <2>1, <2>2 DEF vars, AbstractStep
  <1> QED BY <1>1, <1>2, <1>3, <1>4, <1>5 DEF Next, AbstractStep

(* ARC tracks no more keys than its capacity, and its ghosts stay in bounds, *)
(* whatever the keys, the capacity and the order of the calls.               *)
THEOREM CapacityIsKept == Spec => []CapacityHolds
  <1>1. Init => IInv
    BY InitIInv
  <1>2. IInv /\ [Next]_vars => IInv'
    BY NextIInv
  <1>3. IInv => CapacityHolds
    BY DEF IInv
  <1> QED BY <1>1, <1>2, <1>3, PTL DEF Spec

(* Every call of every policy does to the entries of the keys what KeyBag    *)
(* says, whatever keys TierManager admits, touches and removes before.       *)
THEOREM PoliciesAreKeyBags == Spec => IsKeyBag
  <1>1. Init => IInv /\ Abstract!Init
    BY InitIInv
  <1>2. IInv /\ [Next]_vars => IInv' /\ [Abstract!Next]_<<Entries, call, Most, Replaces>>
    BY NextIInv DEF AbstractStep
  <1> QED BY <1>1, <1>2, PTL DEF Spec, IsKeyBag, Abstract!Spec, Most, Replaces
=============================================================================
