------------------------- MODULE TierManager_proofs -------------------------
(***************************************************************************)
(* Proofs about TierManager, for any keys, slots, caps and payloads: no    *)
(* slot of the slab is ever handed out twice, and a demoted page finds its *)
(* own bytes in the slot it points to (SlotInv); every page stays in reach *)
(* of the cap and of eviction, protected pages stay on the GPU, and pages  *)
(* with images leave it first (PageInv).                                   *)
(***************************************************************************)
EXTENDS TierManager, FoldFacts

(* A tier map, a slot map, a free list and slab contents that agree. *)
Sound(t, sl, fr, h) ==
  /\ t \in [Keys -> {"none", "gpu", "cpu"}]
  /\ sl \in [Keys -> Slots \cup {NoSlot}]
  /\ fr \in [Slots -> Nat]
  /\ h \in [Slots -> Keys \cup {NoSlot}]
  /\ \A s \in Slots : fr[s] <= 1
  /\ \A k \in Keys : sl[k] # NoSlot => fr[sl[k]] = 0
  /\ \A j, k \in Keys : sl[j] # NoSlot /\ sl[j] = sl[k] => j = k
  /\ \A k \in Keys : sl[k] # NoSlot => h[sl[k]] = k
  /\ \A k \in Keys : t[k] = "cpu" <=> sl[k] # NoSlot

JobShape == "given" \in DOMAIN job /\ job.given \subseteq PageKeys

(* The inductive invariant. *)
SlotInv == Sound(tier, slot, free, held) /\ policy \subseteq Keys /\ JobShape

-----------------------------------------------------------------------------
(* _forget_meta frees a slot once: it was allocated, and to one page only. *)
LEMMA FreedOnce ==
  ASSUME TierAssumption,
         NEW D, NEW t, NEW sl, NEW fr, NEW h, Sound(t, sl, fr, h)
  PROVE  /\ Freed(D, sl, fr) \in [Slots -> Nat]
         /\ \A s \in Slots :
              Freed(D, sl, fr)[s] = IF \E k \in Keys : k \in D /\ sl[k] = s
                                    THEN 1 ELSE fr[s]
<1> DEFINE Owners(s) == {k \in Keys : k \in D /\ sl[k] = s}
<1>1. ASSUME NEW s \in Slots
      PROVE  fr[s] + Cardinality(Owners(s)) =
               IF \E k \in Keys : k \in D /\ sl[k] = s THEN 1 ELSE fr[s]
  <2>1. CASE \E k \in Keys : k \in D /\ sl[k] = s
    <3>1. PICK k \in Keys : k \in D /\ sl[k] = s
      BY <2>1
    <3>2. s # NoSlot
      BY <1>1 DEF TierAssumption
    <3>3. Owners(s) = {k}
      BY <3>1, <3>2 DEF Sound
    <3>4. Cardinality(Owners(s)) = 1
      BY <3>3, FS_Singleton
    <3>5. fr[s] = 0
      BY <3>1, <3>2 DEF Sound
    <3> QED
      BY <2>1, <3>4, <3>5
  <2>2. CASE ~ \E k \in Keys : k \in D /\ sl[k] = s
    <3>1. Owners(s) = {}
      BY <2>2
    <3>2. Cardinality(Owners(s)) = 0
      BY <3>1, FS_EmptySet
    <3>3. fr[s] \in Nat
      BY <1>1 DEF Sound
    <3> QED
      BY <2>2, <3>2, <3>3
  <2> QED
    BY <2>1, <2>2
<1>2. Freed(D, sl, fr) = [s \in Slots |-> fr[s] + Cardinality(Owners(s))]
  BY DEF Freed
<1> HIDE DEF Owners
<1> QED
  BY <1>1, <1>2 DEF Sound

(* Dropping any pages, and freeing their slots, keeps the four in step. *)
LEMMA DropSound ==
  ASSUME TierAssumption,
         NEW D, NEW t, NEW sl, NEW fr, NEW h, Sound(t, sl, fr, h)
  PROVE  Sound([k \in Keys |-> IF k \in D THEN "none" ELSE t[k]],
               [k \in Keys |-> IF k \in D THEN NoSlot ELSE sl[k]],
               Freed(D, sl, fr), h)
<1> DEFINE fr2 == Freed(D, sl, fr)
<1>1. /\ fr2 \in [Slots -> Nat]
      /\ \A s \in Slots : fr2[s] = IF \E k \in Keys : k \in D /\ sl[k] = s
                                   THEN 1 ELSE fr[s]
  BY FreedOnce
<1> HIDE DEF fr2
<1>2. \A s \in Slots : fr2[s] <= 1
  BY <1>1 DEF Sound
<1>3. \A k \in Keys : k \notin D /\ sl[k] # NoSlot => fr2[sl[k]] = 0
  BY <1>1 DEF Sound
<1>4. Sound([k \in Keys |-> IF k \in D THEN "none" ELSE t[k]],
            [k \in Keys |-> IF k \in D THEN NoSlot ELSE sl[k]], fr2, h)
  BY <1>1, <1>2, <1>3 DEF Sound
<1> QED
  BY <1>4 DEF fr2

(* Giving a page without a slot one of the free slots, with its bytes. *)
LEMMA TakeSound ==
  ASSUME TierAssumption,
         NEW t, NEW sl, NEW fr, NEW h, Sound(t, sl, fr, h),
         NEW k \in Keys, NEW s \in Slots, fr[s] > 0
  PROVE  /\ Sound(t, sl, [fr EXCEPT ![s] = @ - 1], h)
         /\ Sound(t, sl, [fr EXCEPT ![s] = @ - 1], [h EXCEPT ![s] = k])
         /\ Sound([t EXCEPT ![k] = "cpu"], [sl EXCEPT ![k] = s],
                  [fr EXCEPT ![s] = @ - 1], [h EXCEPT ![s] = k])
<1>1. fr[s] = 1 /\ s # NoSlot
  BY DEF Sound, TierAssumption
<1>2. \A j \in Keys : sl[j] # s
  BY <1>1 DEF Sound
<1>3. /\ [fr EXCEPT ![s] = @ - 1] \in [Slots -> Nat]
      /\ \A x \in Slots : [fr EXCEPT ![s] = @ - 1][x] = IF x = s THEN 0 ELSE fr[x]
  BY <1>1 DEF Sound
<1> DEFINE fr2 == [fr EXCEPT ![s] = @ - 1]
<1> HIDE DEF fr2
<1>4. /\ fr2 \in [Slots -> Nat]
      /\ \A x \in Slots : fr2[x] = IF x = s THEN 0 ELSE fr[x]
  BY <1>3 DEF fr2
<1>5. Sound(t, sl, fr2, h)
  BY <1>1, <1>2, <1>4 DEF Sound
<1>6. Sound(t, sl, fr2, [h EXCEPT ![s] = k])
  BY <1>1, <1>2, <1>4 DEF Sound
<1>7. Sound([t EXCEPT ![k] = "cpu"], [sl EXCEPT ![k] = s], fr2, [h EXCEPT ![s] = k])
  BY <1>1, <1>2, <1>4 DEF Sound
<1> QED
  BY <1>5, <1>6, <1>7 DEF fr2

-----------------------------------------------------------------------------
(* The page maps of a step, as the record AfterRoom and its users build.   *)
SoundPages(st, h) ==
  /\ st = [tier |-> st.tier, slot |-> st.slot, tracked |-> st.tracked,
           policy |-> st.policy, free |-> st.free]
  /\ Sound(st.tier, st.slot, st.free, h)
  /\ st.policy \subseteq Keys

(* evict_terminal keeps the pages sound, and so does the retry of alloc(). *)
LEMMA EvictedSound ==
  ASSUME TierAssumption, SlotInv, NEW v \in policy
  PROVE  SoundPages(Evicted(v), held)
<1>1. v \in Keys
  BY DEF SlotInv
<1>2. /\ [k \in Keys |-> IF k \in {v} THEN "none" ELSE tier[k]] = [tier EXCEPT ![v] = "none"]
      /\ [k \in Keys |-> IF k \in {v} THEN NoSlot ELSE slot[k]] = [slot EXCEPT ![v] = NoSlot]
  BY <1>1 DEF SlotInv, Sound
<1>3. Sound([k \in Keys |-> IF k \in {v} THEN "none" ELSE tier[k]],
            [k \in Keys |-> IF k \in {v} THEN NoSlot ELSE slot[k]],
            Freed({v}, slot, free), held)
  BY DropSound DEF SlotInv
<1>4. Sound([tier EXCEPT ![v] = "none"], [slot EXCEPT ![v] = NoSlot],
            Freed({v}, slot, free), held)
  BY <1>2, <1>3
<1> QED
  BY <1>4 DEF SoundPages, Evicted, SlotInv

LEMMA RoomSound ==
  ASSUME TierAssumption, SlotInv, NEW st \in AfterRoom
  PROVE  SoundPages(st, held)
<1>1. CASE st = Now
  BY <1>1 DEF Now, SoundPages, SlotInv
<1>2. CASE \E v \in policy : st = Evicted(v)
  BY <1>2, EvictedSound
<1> QED
  BY <1>1, <1>2 DEF AfterRoom

(* A slot taken for nothing, or for a page that moves or is made anew. *)
LEMMA TakenSound ==
  ASSUME TierAssumption,
         NEW st, NEW h, SoundPages(st, h), NEW k \in Keys, NEW s \in Available(st)
  PROVE  /\ SoundPages(Taken(st, s), h)
         /\ SoundPages(Placed(st, k, s), [h EXCEPT ![s] = k])
         /\ SoundPages(NewBlock(st, k, s), [h EXCEPT ![s] = k])
<1> DEFINE fr2 == [st.free EXCEPT ![s] = @ - 1]
<1>1. s \in Slots /\ st.free[s] > 0
  BY DEF Available
<1>2. /\ Sound(st.tier, st.slot, fr2, h)
      /\ Sound(st.tier, st.slot, fr2, [h EXCEPT ![s] = k])
      /\ Sound([st.tier EXCEPT ![k] = "cpu"], [st.slot EXCEPT ![k] = s], fr2, [h EXCEPT ![s] = k])
  BY <1>1, TakeSound DEF SoundPages
<1> HIDE DEF fr2
<1>3. Taken(st, s) = [tier |-> st.tier, slot |-> st.slot, tracked |-> st.tracked,
                      policy |-> st.policy, free |-> fr2]
  BY DEF Taken, SoundPages, fr2
<1>4. SoundPages(Taken(st, s), h)
  BY <1>2, <1>3 DEF SoundPages
<1>5. SoundPages(Placed(st, k, s), [h EXCEPT ![s] = k])
  <2>1. CASE st.tier[k] = "none"
    <3>1. Placed(st, k, s) = [tier |-> st.tier, slot |-> st.slot, tracked |-> st.tracked,
                              policy |-> st.policy \cup {k}, free |-> fr2]
      BY <1>3, <2>1 DEF Placed
    <3> QED
      BY <1>2, <3>1 DEF SoundPages
  <2>2. CASE st.tier[k] # "none"
    <3>1. Placed(st, k, s) = [tier |-> [st.tier EXCEPT ![k] = "cpu"],
                              slot |-> [st.slot EXCEPT ![k] = s], tracked |-> st.tracked,
                              policy |-> st.policy \cup {k}, free |-> fr2]
      BY <1>3, <2>2 DEF Placed
    <3> QED
      BY <1>2, <3>1 DEF SoundPages
  <2> QED
    BY <2>1, <2>2
<1>6. SoundPages(NewBlock(st, k, s), [h EXCEPT ![s] = k])
  <2> DEFINE tr == IF k \in ToSet(st.tracked) THEN st.tracked ELSE Append(st.tracked, k)
  <2>1. NewBlock(st, k, s) =
          [tier |-> [st.tier EXCEPT ![k] = "cpu"], slot |-> [st.slot EXCEPT ![k] = s],
           tracked |-> tr, policy |-> st.policy \cup {k}, free |-> fr2]
    BY <1>3 DEF NewBlock
  <2> HIDE DEF tr
  <2> QED
    BY <1>2, <2>1 DEF SoundPages
<1> QED
  BY <1>4, <1>5, <1>6

-----------------------------------------------------------------------------
LEMMA InitSlotInv ==
  ASSUME TierAssumption, Init
  PROVE  SlotInv
BY DEF TierAssumption, Init, SlotInv, Sound, JobShape, NoJob

LEMMA NextSlotInv ==
  ASSUME TierAssumption, SlotInv, [Next]_vars
  PROVE  SlotInv'
<1>1. ASSUME NEW D, NEW tr, NEW sl, NEW t, Sound(t, sl, free, held),
             DropPages(D, tr, sl, t), UNCHANGED <<held, job>>
      PROVE  SlotInv'
  <2>1. Sound([k \in Keys |-> IF k \in D THEN "none" ELSE t[k]],
              [k \in Keys |-> IF k \in D THEN NoSlot ELSE sl[k]],
              Freed(D, sl, free), held)
    BY <1>1, DropSound
  <2>2. Sound(tier', slot', free', held')
    BY <1>1, <2>1 DEF DropPages
  <2>3. policy' \subseteq Keys /\ JobShape'
    BY <1>1 DEF DropPages, SlotInv, JobShape
  <2> QED
    BY <2>2, <2>3 DEF SlotInv
<1>2. ASSUME NEW st, Become(st), SoundPages(st, held'), JobShape'
      PROVE  SlotInv'
  BY <1>2 DEF Become, SoundPages, SlotInv
<1>3. ASSUME NEW k \in PageKeys, Admit(k)
      PROVE  SlotInv'
  <2>1. PICK D, tr : DropPages(D, tr, [slot EXCEPT ![k] = NoSlot], [tier EXCEPT ![k] = "gpu"])
    BY <1>3 DEF Admit
  <2>2. Sound([tier EXCEPT ![k] = "gpu"], [slot EXCEPT ![k] = NoSlot], free, held)
    BY DEF SlotInv, Sound, Keys
  <2> QED
    BY <1>1, <1>3, <2>1, <2>2 DEF Admit
<1>4. ASSUME NEW k \in Keys, Forget(k)
      PROVE  SlotInv'
  BY <1>1, <1>4 DEF Forget, SlotInv
<1>5. ASSUME NEW k \in Keys, Promote(k)
      PROVE  SlotInv'
  <2>1. /\ Freed({k}, slot, free) \in [Slots -> Nat]
        /\ \A s \in Slots : Freed({k}, slot, free)[s] =
             IF \E j \in Keys : j \in {k} /\ slot[j] = s THEN 1 ELSE free[s]
    BY FreedOnce DEF SlotInv
  <2>2. \A s \in Slots : free'[s] = IF slot[k] = s THEN 1 ELSE free[s]
    BY <1>5, <2>1 DEF Promote
  <2>4. /\ free' \in [Slots -> Nat] /\ held' = held
        /\ slot' = [slot EXCEPT ![k] = NoSlot] /\ tier' = [tier EXCEPT ![k] = "gpu"]
    BY <1>5, <2>1 DEF Promote
  <2>5. Sound(tier', slot', free', held')
    BY <2>2, <2>4 DEF SlotInv, Sound
  <2>3. policy' \subseteq Keys /\ JobShape'
    BY <1>5 DEF Promote, SlotInv, JobShape
  <2> QED
    BY <2>3, <2>5 DEF SlotInv
<1>6. ASSUME NEW k \in Keys, MarkActive(k)
      PROVE  SlotInv'
  BY <1>6 DEF MarkActive, stores, SlotInv, JobShape
<1>7. ASSUME NEW g \in Groups, RegisterMambaExcluded(g)
      PROVE  SlotInv'
  BY <1>7 DEF RegisterMambaExcluded, stores, SlotInv, JobShape
<1>8. ASSUME NEW given \in Payloads, NEW big \in Oversize, DemoteToThreshold(given, big)
      PROVE  SlotInv'
  BY <1>8 DEF DemoteToThreshold, stores, SlotInv, JobShape, TierAssumption
<1>9. CASE SkipCandidate
  BY <1>9 DEF SkipCandidate, Rest, stores, SlotInv, JobShape
<1>10. CASE DemoteCandidate
  <2> DEFINE k == Head(job.queue)
  <2>1. k \in Keys
    BY <1>10 DEF DemoteCandidate, SlotInv, JobShape, Keys
  <2>2. PICK st \in AfterRoom :
          IF Available(st) = {}
          THEN Become(st) /\ job' = NoJob /\ UNCHANGED held
          ELSE \E s \in Available(st) :
                 IF k \in job.big
                 THEN Become(Taken(st, s)) /\ job' = NoJob /\ UNCHANGED held
                 ELSE /\ Become(Placed(st, k, s))
                      /\ held' = [held EXCEPT ![s] = k]
                      /\ job' = [Rest EXCEPT !.left = @ - 1]
    BY <1>10 DEF DemoteCandidate
  <2> HIDE DEF k
  <2>3. SoundPages(st, held)
    BY RoomSound
  <2>4. JobShape'
    <3>1. /\ "given" \in DOMAIN Rest
          /\ Rest.given = job.given
      BY DEF SlotInv, JobShape, Rest
    <3>2. /\ "given" \in DOMAIN [Rest EXCEPT !.left = @ - 1]
          /\ [Rest EXCEPT !.left = @ - 1].given = job.given
      BY <3>1
    <3>3. job' = NoJob \/ job' = [Rest EXCEPT !.left = @ - 1]
      BY <2>2
    <3>4. CASE job' = NoJob
      BY <3>4 DEF JobShape, NoJob
    <3>5. CASE job' = [Rest EXCEPT !.left = @ - 1]
      BY <3>2, <3>5 DEF SlotInv, JobShape
    <3> QED
      BY <3>3, <3>4, <3>5
  <2>5. CASE Available(st) = {}
    BY <1>2, <2>2, <2>3, <2>4, <2>5
  <2>6. CASE Available(st) # {}
    <3>1. PICK s \in Available(st) :
            \/ Become(Taken(st, s)) /\ UNCHANGED held
            \/ Become(Placed(st, k, s)) /\ held' = [held EXCEPT ![s] = k]
      BY <2>2, <2>6
    <3>2. /\ SoundPages(Taken(st, s), held)
          /\ SoundPages(Placed(st, k, s), [held EXCEPT ![s] = k])
      BY <2>1, <2>3, TakenSound
    <3> QED
      BY <1>2, <2>4, <3>1, <3>2
  <2> QED
    BY <2>5, <2>6
<1>11. CASE DemoteEnds
  BY <1>11 DEF DemoteEnds, NoJob, stores, SlotInv, JobShape
<1>12. ASSUME NEW k \in ViewKeys, DemoteBlock(k)
       PROVE  SlotInv'
  <2>1. PICK st \in AfterRoom :
          IF Available(st) = {}
          THEN Become(st) /\ UNCHANGED held
          ELSE \E s \in Available(st) :
                 \/ Become(NewBlock(st, k, s)) /\ held' = [held EXCEPT ![s] = k]
                 \/ k \in CopyRaises /\ Become(Taken(st, s)) /\ UNCHANGED held
    BY <1>12 DEF DemoteBlock
  <2>2. SoundPages(st, held) /\ JobShape'
    BY <1>12, RoomSound DEF DemoteBlock, SlotInv, JobShape
  <2>3. CASE Available(st) = {}
    BY <1>2, <2>1, <2>2, <2>3
  <2>4. CASE Available(st) # {}
    <3>1. PICK s \in Available(st) :
            \/ Become(Taken(st, s)) /\ UNCHANGED held
            \/ Become(NewBlock(st, k, s)) /\ held' = [held EXCEPT ![s] = k]
      BY <2>1, <2>4
    <3>2. k \in Keys
      BY DEF Keys
    <3>3. /\ SoundPages(Taken(st, s), held)
          /\ SoundPages(NewBlock(st, k, s), [held EXCEPT ![s] = k])
      BY <2>2, <3>2, TakenSound
    <3> QED
      BY <1>2, <2>2, <3>1, <3>3
  <2> QED
    BY <2>3, <2>4
<1>13. CASE EvictTerminal
  <2>1. PICK v \in policy : Become(Evicted(v))
    BY <1>13 DEF EvictTerminal
  <2>2. SoundPages(Evicted(v), held') /\ JobShape'
    BY <1>13, EvictedSound DEF EvictTerminal, SlotInv, JobShape
  <2> QED
    BY <1>2, <2>1, <2>2
<1>14. CASE UNCHANGED vars
  BY <1>14 DEF vars, stores, SlotInv, JobShape
<1> QED
  BY <1>3, <1>4, <1>5, <1>6, <1>7, <1>8, <1>9, <1>10, <1>11, <1>12, <1>13, <1>14 DEF Next

(* The slot map, the free list and the slab stay in step through admit,    *)
(* demote, promote, evict and forget, whatever raises in between.          *)
THEOREM SlotInvHolds == Spec => []SlotInv
<1>1. Init => SlotInv
  BY TierAssumption, InitSlotInv
<1>2. SlotInv /\ [Next]_vars => SlotInv'
  BY TierAssumption, NextSlotInv
<1> QED
  BY <1>1, <1>2, PTL DEF Spec

(* _CpuSlab.alloc never hands out a slot that a page still has. *)
THEOREM SlotsAreOwnedOnce == Spec => []SlotsOwnedOnce
<1>1. SlotInv => SlotsOwnedOnce
  BY DEF SlotInv, Sound, SlotsOwnedOnce
<1> QED
  BY <1>1, SlotInvHolds, PTL

(* touch() and promote_block() return the bytes of the page asked for. *)
THEOREM DemotedBytesKept == Spec => []BytesArePages
<1>1. SlotInv => BytesArePages
  BY DEF SlotInv, Sound, BytesArePages
<1> QED
  BY <1>1, SlotInvHolds, PTL

(* A page has a slot exactly while it is in the CPU tier. *)
THEOREM DemotedHasSlot == Spec => []SlotIffDemoted
<1>1. SlotInv => SlotIffDemoted
  BY DEF SlotInv, Sound, SlotIffDemoted
<1> QED
  BY <1>1, SlotInvHolds, PTL

-----------------------------------------------------------------------------
(* The books: the order of _pages, the policy of the CPU tier, the admit   *)
(* order, and what a demotion walk has still to visit.                     *)

(* _pages in order and the policy, for pages with these tiers. *)
Filed(t, tr, po) ==
  /\ tr \in Seq(Keys) /\ IsInjective(tr)
  /\ ToSet(tr) = {k \in Keys : t[k] # "none"}
  /\ \A k \in Keys : t[k] = "cpu" => k \in po

Jobs == [on : BOOLEAN, queue : Seq(PageKeys), left : Nat,
         given : SUBSET PageKeys, big : SUBSET PageKeys]

Typed ==
  /\ admits \in Seq(PageKeys)
  /\ excluded \subseteq Groups
  /\ tick \in Nat /\ lastTick \in [Keys -> Nat]
  /\ job \in Jobs

(* A page that may be demoted is in the admit order. *)
Listed == \A k \in PageKeys : tier[k] # "none" /\ Group[k] \notin excluded => k \in ToSet(admits)

Unprotected(k) == Group[k] \notin excluded /\ k \notin Ring /\ ~IsActive(k)

Sorted(q) == \A i, j \in DOMAIN q : i < j /\ q[j] \in MmOrigin => q[i] \in MmOrigin

(* What the walk has still to visit: nothing protected, image pages first, *)
(* and every image page that it could demote.                              *)
Walk ==
  job.on =>
    /\ \A k \in ToSet(job.queue) : Unprotected(k)
    /\ VisionFirst => /\ Sorted(job.queue)
                      /\ \A m \in MmOrigin \cap job.given :
                           Eligible(m, {}) => m \in ToSet(job.queue)

PageInv == SlotInv /\ Filed(tier, tracked, policy) /\ Typed /\ Listed /\ Walk

LEMMA InToSet ==
  ASSUME NEW A, NEW s \in Seq(A)
  PROVE  /\ ToSet(s) \subseteq A
         /\ ToSet(s) = {s[i] : i \in 1 .. Len(s)}
         /\ DOMAIN s = 1 .. Len(s) /\ Len(s) \in Nat
         /\ \A i \in 1 .. Len(s) : s[i] \in A /\ s[i] \in ToSet(s)
<1>1. Len(s) \in Nat /\ s \in [1 .. Len(s) -> A] /\ DOMAIN s = 1 .. Len(s)
  BY LenProperties
<1> QED
  BY <1>1 DEF ToSet

LEMMA AppendToSet ==
  ASSUME NEW A, NEW s \in Seq(A), NEW x \in A
  PROVE  /\ Append(s, x) \in Seq(A)
         /\ ToSet(Append(s, x)) = ToSet(s) \cup {x}
         /\ x \notin ToSet(s) /\ IsInjective(s) => IsInjective(Append(s, x))
<1> DEFINE w == Append(s, x)
           n == Len(s)
<1>1. n \in Nat /\ DOMAIN s = 1 .. n
  BY LenProperties
<1>2. /\ w \in Seq(A) /\ Len(w) = n + 1 /\ w[n + 1] = x
      /\ \A i \in 1 .. n : w[i] = s[i]
  BY AppendProperties
<1>3. DOMAIN w = (1 .. n) \cup {n + 1}
  <2>1. DOMAIN w = 1 .. (n + 1)
    BY <1>2, LenProperties
  <2> QED
    BY <1>1, <2>1
<1> HIDE DEF w, n
<1>4. ToSet(w) = ToSet(s) \cup {x}
  BY <1>1, <1>2, <1>3 DEF ToSet
<1>5. ASSUME x \notin ToSet(s), IsInjective(s) PROVE IsInjective(w)
  <2>1. \A i \in 1 .. n : s[i] # x
    BY <1>1, <1>5 DEF ToSet
  <2>2. SUFFICES ASSUME NEW i \in DOMAIN w, NEW j \in DOMAIN w, w[i] = w[j]
                 PROVE  i = j
    BY DEF IsInjective
  <2> QED
    BY <1>1, <1>2, <1>3, <1>5, <2>1, <2>2 DEF IsInjective
<1> QED
  BY <1>2, <1>4, <1>5 DEF w

(* An entry stays where it is in _pages, a new one is the last. *)
LEMMA EnteredFiled ==
  ASSUME NEW t, NEW tr, NEW po, Filed(t, tr, po), NEW k \in Keys, NEW t2 \in [Keys -> {"none", "gpu", "cpu"}],
         \A j \in Keys \ {k} : t2[j] = t[j], t2[k] # "none",
         NEW po2, \A j \in Keys : t2[j] = "cpu" => j \in po2
  PROVE  Filed(t2, IF k \in ToSet(tr) THEN tr ELSE Append(tr, k), po2)
<1>1. {j \in Keys : t2[j] # "none"} = {j \in Keys : t[j] # "none"} \cup {k}
  OBVIOUS
<1>2. CASE k \in ToSet(tr)
  BY <1>1, <1>2 DEF Filed
<1>3. CASE k \notin ToSet(tr)
  <2>1. /\ Append(tr, k) \in Seq(Keys)
        /\ ToSet(Append(tr, k)) = ToSet(tr) \cup {k}
        /\ IsInjective(Append(tr, k))
    BY <1>3, AppendToSet DEF Filed
  <2> QED
    BY <1>1, <1>3, <2>1 DEF Filed
<1> QED
  BY <1>2, <1>3

(* Dropping pages takes them out of the order and of the policy. *)
LEMMA DropFiled ==
  ASSUME NEW t, NEW tr, NEW po, Filed(t, tr, po), NEW D
  PROVE  /\ Filed([k \in Keys |-> IF k \in D THEN "none" ELSE t[k]], Without(tr, D),
                  po \ {k \in D : t[k] = "cpu"})
         /\ Filed([k \in Keys |-> IF k \in D THEN "none" ELSE t[k]], Without(tr, D), po \ D)
         /\ ToSet(Without(tr, D)) = ToSet(tr) \ D
<1>1. tr \in Seq(Keys) /\ IsInjective(tr)
  BY DEF Filed
<1>2. /\ Without(tr, D) \in Seq(Keys)
      /\ ToSet(Without(tr, D)) = ToSet(tr) \cap (Keys \ D)
      /\ IsInjective(Without(tr, D))
  BY <1>1, KeptIs DEF Without
<1>3. ToSet(tr) \subseteq Keys
  BY <1>1, InToSet
<1> QED
  BY <1>2, <1>3 DEF Filed
-----------------------------------------------------------------------------
FiledPages(st) == Filed(st.tier, st.tracked, st.policy)

(* What evict_terminal() and the retry of alloc() leave of the pages: no   *)
(* page moves, but one may be gone.                                        *)
LEMMA RoomFiled ==
  ASSUME PageInv
  PROVE  /\ \A v \in policy : FiledPages(Evicted(v))
         /\ \A v \in policy, k \in Keys : Evicted(v).tier[k] \in {"none", tier[k]}
         /\ \A st \in AfterRoom : /\ FiledPages(st)
                                  /\ \A k \in Keys : st.tier[k] \in {"none", tier[k]}
<1>1. ASSUME NEW v \in policy
      PROVE  FiledPages(Evicted(v)) /\ \A k \in Keys : Evicted(v).tier[k] \in {"none", tier[k]}
  <2>1. v \in Keys /\ tier \in [Keys -> {"none", "gpu", "cpu"}]
    BY DEF PageInv, SlotInv, Sound
  <2>2. [k \in Keys |-> IF k \in {v} THEN "none" ELSE tier[k]] = [tier EXCEPT ![v] = "none"]
    BY <2>1
  <2>3. Filed([k \in Keys |-> IF k \in {v} THEN "none" ELSE tier[k]],
              Without(tracked, {v}), policy \ {v})
    BY DropFiled DEF PageInv
  <2>4. /\ Evicted(v).tier = [tier EXCEPT ![v] = "none"]
        /\ Evicted(v).tracked = Without(tracked, {v})
        /\ Evicted(v).policy = policy \ {v}
    BY DEF Evicted
  <2>5. FiledPages(Evicted(v))
    BY <2>2, <2>3, <2>4 DEF FiledPages
  <2> QED
    BY <2>1, <2>4, <2>5
<1>2. FiledPages(Now) /\ Now.tier = tier
  BY DEF Now, FiledPages, PageInv
<1> QED
  BY <1>1, <1>2 DEF AfterRoom

(* A slot taken for nothing, or for a page that moves or is made anew. *)
LEMMA TakenFiled ==
  ASSUME NEW st, NEW h, SoundPages(st, h), FiledPages(st), NEW k \in Keys, NEW s \in Available(st)
  PROVE  /\ FiledPages(Taken(st, s)) /\ Taken(st, s).tier = st.tier
         /\ FiledPages(Placed(st, k, s))
         /\ Placed(st, k, s).tier = IF st.tier[k] = "none" THEN st.tier
                                    ELSE [st.tier EXCEPT ![k] = "cpu"]
         /\ FiledPages(NewBlock(st, k, s))
         /\ NewBlock(st, k, s).tier = [st.tier EXCEPT ![k] = "cpu"]
<1> DEFINE tier2 == [st.tier EXCEPT ![k] = "cpu"]
<1>1. st.tier \in [Keys -> {"none", "gpu", "cpu"}] /\ Filed(st.tier, st.tracked, st.policy)
  BY DEF SoundPages, Sound, FiledPages
<1>2. /\ Taken(st, s).tier = st.tier
      /\ Taken(st, s).tracked = st.tracked
      /\ Taken(st, s).policy = st.policy
  <2>1. st = [tier |-> st.tier, slot |-> st.slot, tracked |-> st.tracked,
              policy |-> st.policy, free |-> st.free]
    BY DEF SoundPages
  <2> QED
    BY <2>1 DEF Taken
<1>3. FiledPages(Taken(st, s))
  BY <1>1, <1>2 DEF FiledPages
<1>4. /\ Placed(st, k, s).tier = IF st.tier[k] = "none" THEN st.tier ELSE tier2
      /\ Placed(st, k, s).tracked = st.tracked
      /\ Placed(st, k, s).policy = st.policy \cup {k}
  BY DEF Placed
<1>5. FiledPages(Placed(st, k, s))
  <2>1. CASE st.tier[k] = "none"
    <3>1. Filed(st.tier, st.tracked, st.policy \cup {k})
      BY <1>1 DEF Filed
    <3> QED
      BY <1>4, <2>1, <3>1 DEF FiledPages
  <2>2. CASE st.tier[k] # "none"
    <3>1. Filed(tier2, st.tracked, st.policy \cup {k})
      BY <1>1, <2>2 DEF Filed
    <3> QED
      BY <1>4, <2>2, <3>1 DEF FiledPages
  <2> QED
    BY <2>1, <2>2
<1>6. /\ NewBlock(st, k, s).tier = tier2
      /\ NewBlock(st, k, s).tracked = IF k \in ToSet(st.tracked) THEN st.tracked
                                      ELSE Append(st.tracked, k)
      /\ NewBlock(st, k, s).policy = st.policy \cup {k}
  BY DEF NewBlock
<1>7. Filed(tier2, IF k \in ToSet(st.tracked) THEN st.tracked ELSE Append(st.tracked, k),
            st.policy \cup {k})
  <2>1. /\ tier2 \in [Keys -> {"none", "gpu", "cpu"}]
        /\ \A j \in Keys \ {k} : tier2[j] = st.tier[j]
        /\ tier2[k] # "none"
    BY <1>1
  <2>2. \A j \in Keys : tier2[j] = "cpu" => j \in st.policy \cup {k}
    BY <1>1 DEF Filed
  <2> HIDE DEF tier2
  <2> QED
    BY <1>1, <2>1, <2>2, EnteredFiled
<1>8. FiledPages(NewBlock(st, k, s))
  BY <1>6, <1>7 DEF FiledPages
<1> QED
  BY <1>2, <1>3, <1>4, <1>5, <1>6, <1>8

-----------------------------------------------------------------------------
(* A step in which no page comes to be tracked keeps the admit order       *)
(* complete, if the order stays and no group is let in again.              *)
LEMMA StaysListed ==
  ASSUME PageInv, admits' = admits, excluded \subseteq excluded',
         \A k \in PageKeys : tier'[k] # "none" => tier[k] # "none"
  PROVE  Listed'
BY DEF PageInv, Listed

(* admit(): whatever the cap drops, the books agree again. *)
LEMMA AdmitBooks ==
  ASSUME TierAssumption, PageInv, NEW k \in PageKeys, Admit(k)
  PROVE  Filed(tier, tracked, policy)' /\ Typed' /\ Listed' /\ Walk'
<1> DEFINE tr     == Entered(k)
           sl     == [slot EXCEPT ![k] = NoSlot]
           extra  == IF Len(tr) > MaxTracked THEN Len(tr) - MaxTracked ELSE 0
           oldest == {tr[i] : i \in 1 .. extra}
           added  == IF Group[k] \in excluded THEN admits ELSE Append(admits, k)
           full   == Group[k] \notin excluded /\ Len(added) > 2 * Len(tr) + Slack
           live   == Kept(added, ToSet(tr))
           tier1  == [tier EXCEPT ![k] = "gpu"]
<1>1. k \in Keys /\ tier \in [Keys -> {"none", "gpu", "cpu"}] /\ Filed(tier, tracked, policy)
      /\ Typed /\ Listed
  BY DEF PageInv, SlotInv, Sound, Keys
<1>2. /\ ~job.on /\ UNCHANGED <<held, excluded, tick, job>>
      /\ DropPages(oldest, tr, sl, tier1)
      /\ admits' = IF extra > 0 THEN Without(live, oldest)
                   ELSE IF full THEN live ELSE added
  BY DEF Admit
<1>3. /\ tier1 \in [Keys -> {"none", "gpu", "cpu"}]
      /\ \A j \in Keys \ {k} : tier1[j] = tier[j]
      /\ tier1[k] # "none"
      /\ \A j \in Keys : tier1[j] = "cpu" => j \in policy
  BY <1>1 DEF Filed
<1>4. Filed(tier1, tr, policy)
  <2> HIDE DEF tier1
  <2> QED
    BY <1>1, <1>3, EnteredFiled DEF Entered
<1>5. added \in Seq(PageKeys) /\ ToSet(admits) \subseteq ToSet(added)
      /\ (Group[k] \notin excluded => k \in ToSet(added))
  BY <1>1, AppendToSet DEF Typed
<1> HIDE DEF tr, added, oldest, sl, extra, tier1, full
<1>6. /\ tier' = [j \in Keys |-> IF j \in oldest THEN "none" ELSE tier1[j]]
      /\ tracked' = Without(tr, oldest)
      /\ policy' = policy \ {j \in oldest : tier1[j] = "cpu"}
      /\ lastTick' = [j \in Keys |-> IF j \in oldest THEN 0 ELSE lastTick[j]]
  BY <1>2 DEF DropPages
<1>7. Filed(tier, tracked, policy)'
  BY <1>4, <1>6, DropFiled, ZenonT(30)
<1>8. live \in Seq(PageKeys) /\ ToSet(live) = ToSet(added) \cap ToSet(tr)
  BY <1>5, KeptIs
<1> HIDE DEF live
<1>9. Without(live, oldest) \in Seq(PageKeys)
      /\ ToSet(Without(live, oldest)) = ToSet(live) \cap (Keys \ oldest)
  BY <1>8, KeptIs DEF Without
<1>10. Typed'
  <2>1. admits' \in Seq(PageKeys)
    BY <1>2, <1>5, <1>8, <1>9
  <2>2. lastTick' \in [Keys -> Nat]
    BY <1>1, <1>6 DEF Typed
  <2> QED
    BY <1>1, <1>2, <2>1, <2>2 DEF Typed
<1>11. Listed'
  <2> SUFFICES ASSUME NEW j \in PageKeys, tier'[j] # "none", Group[j] \notin excluded'
               PROVE  j \in ToSet(admits')
    BY DEF Listed
  <2>1. j \in Keys /\ j \notin oldest /\ tier1[j] # "none"
    BY <1>6 DEF Keys
  <2>2. j \in ToSet(tr)
    BY <1>4, <2>1 DEF Filed
  <2>3. j \in ToSet(added)
    <3>1. CASE j = k
      BY <1>2, <1>5, <3>1
    <3>2. CASE j # k
      <4>1. tier[j] # "none"
        BY <1>3, <2>1, <3>2
      <4> QED
        BY <1>1, <1>2, <1>5, <4>1 DEF Listed
    <3> QED
      BY <3>1, <3>2
  <2> QED
    BY <1>2, <1>8, <1>9, <2>1, <2>2, <2>3
<1>12. Walk'
  BY <1>2 DEF Walk
<1> QED
  BY <1>7, <1>10, <1>11, <1>12

(* forget() and evict_terminal(). *)
LEMMA ForgetBooks ==
  ASSUME PageInv, NEW k \in Keys, Forget(k)
  PROVE  Filed(tier, tracked, policy)' /\ Typed' /\ Listed' /\ Walk'
<1>1. /\ tier' = [j \in Keys |-> IF j \in {k} THEN "none" ELSE tier[j]]
      /\ tracked' = Without(tracked, {k})
      /\ policy' = policy \ {j \in {k} : tier[j] = "cpu"}
      /\ lastTick' = [j \in Keys |-> IF j \in {k} THEN 0 ELSE lastTick[j]]
      /\ ~job.on /\ UNCHANGED <<held, admits, excluded, tick, job>>
  BY DEF Forget, DropPages
<1>2. Filed(tier, tracked, policy)'
  BY <1>1, DropFiled DEF PageInv
<1>3. Typed'
  BY <1>1 DEF PageInv, Typed
<1>4. \A j \in PageKeys : tier'[j] # "none" => tier[j] # "none"
  BY <1>1 DEF Keys
<1>5. Listed'
  BY <1>1, <1>4, StaysListed
<1> QED
  BY <1>1, <1>2, <1>3, <1>5 DEF Walk

LEMMA EvictBooks ==
  ASSUME PageInv, EvictTerminal
  PROVE  Filed(tier, tracked, policy)' /\ Typed' /\ Listed' /\ Walk'
<1>1. PICK v \in policy : Become(Evicted(v))
  BY DEF EvictTerminal
<1>2. ~job.on /\ UNCHANGED <<held, admits, excluded, tick, lastTick, job>>
  BY DEF EvictTerminal
<1>3. Filed(tier, tracked, policy)'
  BY <1>1, RoomFiled DEF FiledPages, Become
<1>4. \A j \in PageKeys : tier'[j] # "none" => tier[j] # "none"
  BY <1>1, RoomFiled DEF Become, Keys
<1>5. Listed'
  BY <1>2, <1>4, StaysListed
<1>6. Typed' /\ Walk'
  BY <1>2 DEF PageInv, Typed, Walk
<1> QED
  BY <1>3, <1>5, <1>6

LEMMA PromoteBooks ==
  ASSUME PageInv, NEW k \in Keys, Promote(k)
  PROVE  Filed(tier, tracked, policy)' /\ Typed' /\ Listed' /\ Walk'
<1>1. /\ tier[k] = "cpu" /\ tier' = [tier EXCEPT ![k] = "gpu"]
      /\ policy' = policy \ {k}
      /\ ~job.on /\ UNCHANGED <<held, tracked, admits, excluded, tick, lastTick, job>>
  BY DEF Promote
<1>2. tier \in [Keys -> {"none", "gpu", "cpu"}] /\ Filed(tier, tracked, policy)
  BY DEF PageInv, SlotInv, Sound
<1>3. Filed(tier', tracked, policy')
  BY <1>1, <1>2 DEF Filed
<1>4. \A j \in PageKeys : tier'[j] # "none" => tier[j] # "none"
  BY <1>1, <1>2 DEF Keys
<1>5. Listed'
  BY <1>1, <1>4, StaysListed
<1>6. Typed' /\ Walk'
  BY <1>1 DEF PageInv, Typed, Walk
<1> QED
  BY <1>1, <1>3, <1>5, <1>6
-----------------------------------------------------------------------------
(* The candidates of a walk: in the order the walk may visit them, with    *)
(* none left out.                                                          *)
LEMMA ConcatToSet ==
  ASSUME NEW A, NEW s \in Seq(A), NEW t \in Seq(A)
  PROVE  /\ s \o t \in Seq(A)
         /\ ToSet(s \o t) = ToSet(s) \cup ToSet(t)
         /\ ToSet(s) \subseteq MmOrigin /\ ToSet(t) \cap MmOrigin = {} => Sorted(s \o t)
<1> DEFINE w == s \o t
           m == Len(s)
           n == Len(t)
<1>1. m \in Nat /\ n \in Nat /\ DOMAIN s = 1 .. m /\ DOMAIN t = 1 .. n
  BY LenProperties
<1>2. /\ w \in Seq(A) /\ Len(w) = m + n
      /\ \A i \in 1 .. (m + n) : w[i] = IF i <= m THEN s[i] ELSE t[i - m]
  BY ConcatProperties
<1>3. DOMAIN w = 1 .. (m + n)
  BY <1>2, LenProperties
<1> HIDE DEF w, m, n
<1>4. ToSet(w) = ToSet(s) \cup ToSet(t)
  <2>1. \A i \in 1 .. (m + n) : w[i] \in ToSet(s) \cup ToSet(t)
    <3> TAKE i \in 1 .. (m + n)
    <3>1. CASE i <= m
      <4>1. i \in DOMAIN s /\ w[i] = s[i]
        BY <1>1, <1>2, <3>1
      <4>2. s[i] \in ToSet(s)
        BY <4>1 DEF ToSet
      <4> QED
        BY <4>1, <4>2
    <3>2. CASE ~(i <= m)
      <4>1. i - m \in DOMAIN t /\ w[i] = t[i - m]
        BY <1>1, <1>2, <3>2
      <4>2. t[i - m] \in ToSet(t)
        BY <4>1 DEF ToSet
      <4> QED
        BY <4>1, <4>2
    <3> QED
      BY <3>1, <3>2
  <2>2. \A i \in 1 .. m : i \in 1 .. (m + n) /\ w[i] = s[i]
    BY <1>1, <1>2
  <2>3. \A i \in 1 .. n : m + i \in 1 .. (m + n) /\ w[m + i] = t[i]
    BY <1>1, <1>2
  <2>4. /\ ToSet(w) = {w[i] : i \in 1 .. (m + n)}
        /\ ToSet(s) = {s[i] : i \in 1 .. m} /\ ToSet(t) = {t[i] : i \in 1 .. n}
    BY <1>1, <1>3 DEF ToSet
  <2>5. ToSet(w) \subseteq ToSet(s) \cup ToSet(t)
    BY <2>1, <2>4
  <2>6. ToSet(s) \subseteq ToSet(w)
    BY <2>2, <2>4
  <2>7. ToSet(t) \subseteq ToSet(w)
    BY <2>3, <2>4
  <2> QED
    BY <2>5, <2>6, <2>7
<1>5. ASSUME ToSet(s) \subseteq MmOrigin, ToSet(t) \cap MmOrigin = {}
      PROVE  Sorted(w)
  <2> SUFFICES ASSUME NEW i \in 1 .. (m + n), NEW j \in 1 .. (m + n), i < j, w[j] \in MmOrigin
               PROVE  w[i] \in MmOrigin
    BY <1>3 DEF Sorted
  <2>1. j <= m
    <3>1. ASSUME ~(j <= m) PROVE FALSE
      <4>1. j - m \in 1 .. n
        BY <1>1, <3>1
      <4>2. w[j] \in ToSet(t)
        BY <1>1, <1>2, <3>1, <4>1 DEF ToSet
      <4> QED
        BY <1>5, <4>2
    <3> QED
      BY <3>1
  <2>2. i \in 1 .. m
    BY <1>1, <2>1
  <2> QED
    BY <1>1, <1>2, <1>5, <2>2, SMTT(30) DEF ToSet
<1> QED
  BY <1>2, <1>4, <1>5 DEF w

LEMMA CandidatesAre ==
  ASSUME TierAssumption, PageInv
  PROVE  /\ Candidates({}) \in Seq(PageKeys)
         /\ \A k \in PageKeys : k \in ToSet(Candidates({})) <=> Eligible(k, {})
         /\ VisionFirst => Sorted(Candidates({}))
<1> DEFINE E == {k \in PageKeys : Eligible(k, {})}
           c == Kept(admits, E)
           mm == Kept(c, MmOrigin)
           rest == Kept(c, PageKeys \ MmOrigin)
<1>1. \A k \in E : k \in ToSet(admits)
  BY DEF PageInv, Listed, Eligible
<1>2. admits \in Seq(PageKeys)
  BY DEF PageInv, Typed
<1>3. Candidates({}) = IF VisionFirst THEN mm \o rest ELSE c
  BY DEF Candidates
<1> HIDE DEF E
<1>4. c \in Seq(PageKeys) /\ ToSet(c) = E
  <2>1. c \in Seq(PageKeys) /\ ToSet(c) = ToSet(admits) \cap E
    BY <1>2, KeptIs
  <2> QED
    BY <1>1, <2>1
<1> HIDE DEF c
<1>5. /\ mm \in Seq(PageKeys) /\ ToSet(mm) = E \cap MmOrigin
      /\ rest \in Seq(PageKeys) /\ ToSet(rest) = E \cap (PageKeys \ MmOrigin)
  BY <1>4, KeptIs
<1> HIDE DEF mm, rest
<1>6. /\ mm \o rest \in Seq(PageKeys)
      /\ ToSet(mm \o rest) = ToSet(mm) \cup ToSet(rest)
      /\ Sorted(mm \o rest)
  BY <1>5, ConcatToSet
<1>7. E \subseteq PageKeys
  BY DEF E
<1>8. ToSet(Candidates({})) = E /\ Candidates({}) \in Seq(PageKeys)
      /\ (VisionFirst => Sorted(Candidates({})))
  BY <1>3, <1>4, <1>5, <1>6, <1>7
<1> QED
  BY <1>8 DEF E

LEMMA WalkStarts ==
  ASSUME TierAssumption, PageInv, NEW given \in Payloads, NEW big \in Oversize,
         DemoteToThreshold(given, big)
  PROVE  Filed(tier, tracked, policy)' /\ Typed' /\ Listed' /\ Walk'
<1>1. /\ job' = [on |-> TRUE, queue |-> Candidates({}),
                 left |-> Cardinality(Tier0) - Capacity, given |-> given, big |-> big]
      /\ Cardinality(Tier0) > Capacity
      /\ UNCHANGED <<tier, slot, tracked, policy, free, held, admits, excluded, tick, lastTick>>
  BY DEF DemoteToThreshold, stores
<1>2. Filed(tier, tracked, policy)' /\ Listed'
  BY <1>1 DEF PageInv, Listed
<1>3. Typed'
  <2>1. Cardinality(Tier0) - Capacity \in Nat
    <3>1. IsFiniteSet(ToSet(tracked))
      BY InjectiveLen DEF PageInv, Filed
    <3>2. Tier0 \subseteq ToSet(tracked)
      BY DEF PageInv, Filed, Tier0
    <3>3. Cardinality(Tier0) \in Nat
      BY <3>1, <3>2, FS_Subset, FS_CardinalityType
    <3> QED
      BY <1>1, <3>3 DEF TierAssumption
  <2>2. given \in SUBSET PageKeys /\ big \in SUBSET PageKeys
    BY DEF TierAssumption
  <2>3. job' \in Jobs
    BY <1>1, <2>1, <2>2, CandidatesAre DEF Jobs
  <2> QED
    BY <1>1, <2>3 DEF PageInv, Typed
<1>4. job'.queue = Candidates({}) /\ Candidates({}) \in Seq(PageKeys) /\ job'.given \subseteq PageKeys
  BY <1>1, CandidatesAre DEF TierAssumption
<1>5. \A k : Unprotected(k)' <=> Unprotected(k)
  BY <1>1 DEF Unprotected, Ring, IsActive
<1>6. \A k : Eligible(k, {})' <=> Eligible(k, {})
  BY <1>1 DEF Eligible, Ring, IsActive
<1>7. \A k \in ToSet(Candidates({})) : Unprotected(k)
  <2>1. ToSet(Candidates({})) \subseteq PageKeys
    BY <1>4, InToSet
  <2>2. \A k \in PageKeys : Eligible(k, {}) => Unprotected(k)
    BY DEF Eligible, Unprotected
  <2> QED
    BY <2>1, <2>2, CandidatesAre
<1>8. Walk'
  <2>1. \A k \in ToSet(job'.queue) : Unprotected(k)'
    BY <1>4, <1>5, <1>7
  <2>2. VisionFirst => Sorted(job'.queue)
    BY <1>4, CandidatesAre
  <2>3. \A m \in MmOrigin \cap job'.given : Eligible(m, {})' => m \in ToSet(job'.queue)
    BY <1>4, <1>6, CandidatesAre
  <2> QED
    BY <2>1, <2>2, <2>3 DEF Walk
<1> QED
  BY <1>2, <1>3, <1>8
(* One candidate less. *)
LEMMA TailToSet ==
  ASSUME NEW A, NEW s \in Seq(A), s # <<>>
  PROVE  /\ Tail(s) \in Seq(A) /\ Head(s) \in A
         /\ ToSet(s) = ToSet(Tail(s)) \cup {Head(s)}
         /\ Sorted(s) => Sorted(Tail(s))
         /\ Sorted(s) => \A x \in ToSet(s) : x \in MmOrigin => Head(s) \in MmOrigin
<1> DEFINE w == Tail(s)
           n == Len(s)
<1>1. n \in Nat /\ n > 0 /\ DOMAIN s = 1 .. n
  BY LenProperties, EmptySeq
<1>2. /\ w \in Seq(A) /\ Len(w) = n - 1 /\ Head(s) \in A /\ Head(s) = s[1]
      /\ \A i \in 1 .. (n - 1) : w[i] = s[i + 1]
  BY HeadTailProperties
<1>3. DOMAIN w = 1 .. (n - 1)
  BY <1>2, LenProperties
<1> HIDE DEF w, n
<1>4. ToSet(w) = {w[i] : i \in 1 .. (n - 1)} /\ ToSet(s) = {s[i] : i \in 1 .. n}
  BY <1>1, <1>3 DEF ToSet
<1>5. ToSet(s) = ToSet(w) \cup {Head(s)}
  <2>1. \A i \in 1 .. n : i = 1 \/ (i - 1 \in 1 .. (n - 1) /\ s[i] = w[i - 1])
    BY <1>1, <1>2
  <2>2. \A i \in 1 .. (n - 1) : i + 1 \in 1 .. n /\ w[i] = s[i + 1]
    BY <1>1, <1>2
  <2>3. 1 \in 1 .. n
    BY <1>1
  <2>4. ToSet(s) \subseteq ToSet(w) \cup {Head(s)}
    BY <1>2, <1>4, <2>1
  <2>5. ToSet(w) \subseteq ToSet(s)
    BY <1>4, <2>2
  <2>6. Head(s) \in ToSet(s)
    BY <1>2, <1>4, <2>3
  <2> QED
    BY <2>4, <2>5, <2>6
<1>6. ASSUME Sorted(s) PROVE Sorted(w)
  <2> SUFFICES ASSUME NEW i \in 1 .. (n - 1), NEW j \in 1 .. (n - 1), i < j, w[j] \in MmOrigin
               PROVE  w[i] \in MmOrigin
    BY <1>3 DEF Sorted
  <2>1. i + 1 \in 1 .. n /\ j + 1 \in 1 .. n /\ i + 1 < j + 1
    BY <1>1
  <2>2. w[i] = s[i + 1] /\ w[j] = s[j + 1]
    BY <1>2
  <2> QED
    BY <1>1, <1>6, <2>1, <2>2 DEF Sorted
<1>7. ASSUME Sorted(s), NEW x \in ToSet(s), x \in MmOrigin PROVE Head(s) \in MmOrigin
  <2>1. PICK j \in 1 .. n : x = s[j]
    BY <1>4
  <2>2. 1 \in 1 .. n /\ (j = 1 \/ 1 < j)
    BY <1>1
  <2> QED
    BY <1>1, <1>2, <1>7, <2>1, <2>2 DEF Sorted
<1> QED
  BY <1>2, <1>5, <1>6, <1>7 DEF w

LEMMA WalkGoesOn ==
  ASSUME PageInv, job.on, job.queue # <<>>,
         job'.queue = Tail(job.queue), job'.given = job.given,
         UNCHANGED <<admits, excluded, tick, lastTick>>,
         \A j \in PageKeys : tier'[j] = "gpu" => tier[j] = "gpu",
         tier'[Head(job.queue)] # "gpu" \/ Head(job.queue) \notin job.given
  PROVE  Walk'
<1> DEFINE q == job.queue
<1>1. q \in Seq(PageKeys) /\ job.given \subseteq PageKeys
  BY DEF PageInv, Typed, Jobs
<1>2. /\ \A k \in ToSet(q) : Unprotected(k)
      /\ VisionFirst => /\ Sorted(q)
                        /\ \A m \in MmOrigin \cap job.given : Eligible(m, {}) => m \in ToSet(q)
  BY DEF PageInv, Walk
<1> HIDE DEF q
<1>3. /\ ToSet(q) = ToSet(Tail(q)) \cup {Head(q)}
      /\ Sorted(q) => Sorted(Tail(q))
  BY <1>1, TailToSet DEF q
<1>4. \A k : Unprotected(k)' <=> Unprotected(k)
  BY DEF Unprotected, Ring, IsActive
<1>5. \A m \in PageKeys : Eligible(m, {})' => Eligible(m, {})
  BY DEF Eligible, Ring, IsActive
<1>6. \A k \in ToSet(Tail(q)) : Unprotected(k)'
  BY <1>2, <1>3, <1>4
<1>7. ASSUME VisionFirst, NEW m \in MmOrigin \cap job.given, Eligible(m, {})'
      PROVE  m \in ToSet(Tail(q))
  <2>1. m \in ToSet(q)
    BY <1>1, <1>2, <1>5, <1>7
  <2>2. m # Head(q)
    BY <1>7 DEF q, Eligible
  <2> QED
    BY <1>3, <2>1, <2>2
<1> QED
  BY <1>2, <1>3, <1>6, <1>7 DEF Walk, q

LEMMA SkipBooks ==
  ASSUME PageInv, SkipCandidate
  PROVE  Filed(tier, tracked, policy)' /\ Typed' /\ Listed' /\ Walk'
<1>1. /\ job.on /\ job.queue # <<>> /\ job' = [job EXCEPT !.queue = Tail(@)]
      /\ tier[Head(job.queue)] # "gpu" \/ Head(job.queue) \notin job.given
      /\ UNCHANGED <<tier, slot, tracked, policy, free, held, admits, excluded, tick, lastTick>>
  BY DEF SkipCandidate, Rest, stores
<1>2. job \in Jobs /\ Tail(job.queue) \in Seq(PageKeys)
  BY <1>1, TailToSet DEF PageInv, Typed, Jobs
<1>3. job' \in Jobs /\ job'.queue = Tail(job.queue) /\ job'.given = job.given
  BY <1>1, <1>2 DEF Jobs
<1>4. Walk'
  BY <1>1, <1>3, WalkGoesOn
<1>5. Typed'
  BY <1>1, <1>3 DEF PageInv, Typed
<1> QED
  BY <1>1, <1>4, <1>5 DEF PageInv, Listed

LEMMA NoJobIs == NoJob \in Jobs /\ ~NoJob.on
<1>1. <<>> \in Seq(PageKeys)
  BY EmptySeq
<1> QED
  BY <1>1 DEF NoJob, Jobs

LEMMA DemoteBooks ==
  ASSUME PageInv, DemoteCandidate
  PROVE  Filed(tier, tracked, policy)' /\ Typed' /\ Listed' /\ Walk'
<1> DEFINE k == Head(job.queue)
<1>1. /\ job.on /\ job.left > 0 /\ job.queue # <<>> /\ tier[k] = "gpu" /\ k \in job.given
      /\ UNCHANGED <<admits, excluded, tick, lastTick>>
  BY DEF DemoteCandidate
<1>2. PICK st \in AfterRoom :
        IF Available(st) = {}
        THEN Become(st) /\ job' = NoJob /\ UNCHANGED held
        ELSE \E s \in Available(st) :
               IF k \in job.big
               THEN Become(Taken(st, s)) /\ job' = NoJob /\ UNCHANGED held
               ELSE /\ Become(Placed(st, k, s))
                    /\ held' = [held EXCEPT ![s] = k]
                    /\ job' = [Rest EXCEPT !.left = @ - 1]
  BY DEF DemoteCandidate
<1>3. k \in PageKeys /\ k \in Keys /\ job \in Jobs /\ job.left \in Nat
      /\ Tail(job.queue) \in Seq(PageKeys)
  BY <1>1, TailToSet DEF PageInv, Typed, Jobs, Keys
<1>4. FiledPages(st) /\ \A j \in Keys : st.tier[j] \in {"none", tier[j]}
  BY RoomFiled
<1>5. SoundPages(st, held) /\ st.tier \in [Keys -> {"none", "gpu", "cpu"}]
  <2>1. SoundPages(st, held)
    BY RoomSound, TierAssumption DEF PageInv
  <2> QED
    BY <2>1 DEF SoundPages, Sound
<1> HIDE DEF k
<1>6. /\ Filed(tier, tracked, policy)'
      /\ \A j \in Keys : tier'[j] # "none" => tier[j] # "none"
      /\ \/ job' = NoJob
         \/ /\ job' = [Rest EXCEPT !.left = @ - 1]
            /\ tier'[k] # "gpu"
            /\ \A j \in Keys : tier'[j] = "gpu" => tier[j] = "gpu"
  <2>1. CASE Available(st) = {}
    BY <1>2, <1>4, <2>1 DEF FiledPages, Become
  <2>2. CASE Available(st) # {}
    <3>1. PICK s \in Available(st) :
            \/ Become(Taken(st, s)) /\ job' = NoJob
            \/ Become(Placed(st, k, s)) /\ job' = [Rest EXCEPT !.left = @ - 1]
      BY <1>2, <2>2
    <3>2. /\ FiledPages(Taken(st, s)) /\ Taken(st, s).tier = st.tier
          /\ FiledPages(Placed(st, k, s))
          /\ Placed(st, k, s).tier = IF st.tier[k] = "none" THEN st.tier
                                     ELSE [st.tier EXCEPT ![k] = "cpu"]
      BY <1>3, <1>4, <1>5, TakenFiled
    <3>3. CASE Become(Taken(st, s)) /\ job' = NoJob
      BY <1>4, <3>2, <3>3 DEF FiledPages, Become
    <3>4. CASE Become(Placed(st, k, s)) /\ job' = [Rest EXCEPT !.left = @ - 1]
      <4>1. Filed(tier, tracked, policy)'
        BY <3>2, <3>4 DEF FiledPages, Become
      <4>2. tier' = IF st.tier[k] = "none" THEN st.tier ELSE [st.tier EXCEPT ![k] = "cpu"]
        BY <3>2, <3>4 DEF Become
      <4>3. tier'[k] # "gpu"
        BY <1>3, <1>5, <4>2
      <4>4. \A j \in Keys : tier'[j] # "none" => tier[j] # "none"
        BY <1>1, <1>3, <1>4, <1>5, <4>2 DEF k
      <4>5. \A j \in Keys : tier'[j] = "gpu" => tier[j] = "gpu"
        BY <1>3, <1>4, <1>5, <4>2
      <4> QED
        BY <3>4, <4>1, <4>3, <4>4, <4>5
    <3> QED
      BY <3>1, <3>3, <3>4
  <2> QED
    BY <2>1, <2>2
<1>7. Listed'
  BY <1>1, <1>6, StaysListed DEF Keys
<1>8. CASE job' = NoJob
  <2>1. Typed'
    BY <1>1, <1>8, NoJobIs DEF PageInv, Typed
  <2>2. Walk'
    BY <1>8, NoJobIs DEF Walk
  <2> QED
    BY <1>6, <1>7, <2>1, <2>2
<1>9. CASE job' # NoJob
  <2>1. /\ job' = [Rest EXCEPT !.left = @ - 1]
        /\ tier'[k] # "gpu"
        /\ \A j \in Keys : tier'[j] = "gpu" => tier[j] = "gpu"
    BY <1>6, <1>9
  <2>2. Rest \in Jobs /\ Rest.queue = Tail(job.queue) /\ Rest.given = job.given /\ Rest.left = job.left
    BY <1>3 DEF Rest, Jobs
  <2>3. job.left - 1 \in Nat
    BY <1>1, <1>3
  <2>4. job' \in Jobs /\ job'.queue = Tail(job.queue) /\ job'.given = job.given
    BY <2>1, <2>2, <2>3 DEF Jobs
  <2>5. Typed'
    BY <1>1, <2>4 DEF PageInv, Typed
  <2>6. Walk'
    BY <1>1, <2>1, <2>4, WalkGoesOn DEF Keys, k
  <2> QED
    BY <1>6, <1>7, <2>5, <2>6
<1> QED
  BY <1>8, <1>9

LEMMA BlockBooks ==
  ASSUME TierAssumption, PageInv, NEW k \in ViewKeys, DemoteBlock(k)
  PROVE  Filed(tier, tracked, policy)' /\ Typed' /\ Listed' /\ Walk'
<1>1. ~job.on /\ UNCHANGED <<admits, excluded, tick, lastTick, job>>
  BY DEF DemoteBlock
<1>2. PICK st \in AfterRoom :
        IF Available(st) = {}
        THEN Become(st)
        ELSE \E s \in Available(st) : Become(NewBlock(st, k, s)) \/ Become(Taken(st, s))
  BY DEF DemoteBlock
<1>3. k \in Keys /\ k \notin PageKeys
  BY DEF Keys, TierAssumption
<1>4. FiledPages(st) /\ \A j \in Keys : st.tier[j] \in {"none", tier[j]}
  BY RoomFiled
<1>5. SoundPages(st, held)
  BY RoomSound DEF PageInv
<1>6. /\ Filed(tier, tracked, policy)'
      /\ \A j \in PageKeys : tier'[j] # "none" => tier[j] # "none"
  <2>1. CASE Available(st) = {}
    BY <1>2, <1>4, <2>1 DEF FiledPages, Become, Keys
  <2>2. CASE Available(st) # {}
    <3>1. PICK s \in Available(st) : Become(NewBlock(st, k, s)) \/ Become(Taken(st, s))
      BY <1>2, <2>2
    <3>2. /\ FiledPages(Taken(st, s)) /\ Taken(st, s).tier = st.tier
          /\ FiledPages(NewBlock(st, k, s))
          /\ NewBlock(st, k, s).tier = [st.tier EXCEPT ![k] = "cpu"]
      BY <1>3, <1>4, <1>5, TakenFiled
    <3>3. /\ Filed(tier, tracked, policy)'
          /\ tier' = st.tier \/ tier' = [st.tier EXCEPT ![k] = "cpu"]
      BY <3>1, <3>2 DEF FiledPages, Become
    <3>4. st.tier \in [Keys -> {"none", "gpu", "cpu"}]
      BY <1>5 DEF SoundPages, Sound
    <3> QED
      BY <1>3, <1>4, <3>3, <3>4 DEF Keys
  <2> QED
    BY <2>1, <2>2
<1>7. Listed'
  BY <1>1, <1>6, StaysListed
<1> QED
  BY <1>1, <1>6, <1>7 DEF PageInv, Typed, Walk

-----------------------------------------------------------------------------
LEMMA InitPageInv == TierAssumption /\ Init => PageInv
<1> SUFFICES ASSUME TierAssumption, Init PROVE PageInv
  OBVIOUS
<1>1. <<>> \in Seq(Keys) /\ <<>> \in Seq(PageKeys) /\ ToSet(<<>>) = {} /\ DOMAIN <<>> = {}
  BY EmptySeq DEF ToSet
<1>2. SlotInv
  BY InitSlotInv
<1>3. Filed(tier, tracked, policy) /\ Listed
  BY <1>1 DEF Init, Filed, IsInjective, Listed, Keys
<1>4. Typed /\ Walk
  BY <1>1, NoJobIs DEF Init, Typed, Walk
<1> QED
  BY <1>2, <1>3, <1>4 DEF PageInv

LEMMA NextPageInv == TierAssumption /\ PageInv /\ [Next]_vars => PageInv'
<1> SUFFICES ASSUME TierAssumption, PageInv, [Next]_vars PROVE PageInv'
  OBVIOUS
<1>0. SlotInv'
  BY NextSlotInv DEF PageInv
<1> SUFFICES Filed(tier, tracked, policy)' /\ Typed' /\ Listed' /\ Walk'
  BY <1>0 DEF PageInv
<1>1. ASSUME NEW k \in PageKeys, Admit(k)
      PROVE  Filed(tier, tracked, policy)' /\ Typed' /\ Listed' /\ Walk'
  BY <1>1, AdmitBooks
<1>2. ASSUME NEW k \in Keys, Forget(k)
      PROVE  Filed(tier, tracked, policy)' /\ Typed' /\ Listed' /\ Walk'
  BY <1>2, ForgetBooks
<1>3. ASSUME NEW k \in Keys, Promote(k)
      PROVE  Filed(tier, tracked, policy)' /\ Typed' /\ Listed' /\ Walk'
  BY <1>3, PromoteBooks
<1>4. ASSUME NEW k \in Keys, MarkActive(k)
      PROVE  Filed(tier, tracked, policy)' /\ Typed' /\ Listed' /\ Walk'
  <2>1. /\ tick' = tick + 1 /\ lastTick' = [lastTick EXCEPT ![k] = tick + 1] /\ ~job.on
        /\ UNCHANGED <<tier, slot, tracked, policy, free, held, admits, excluded, job>>
    BY <1>4 DEF MarkActive, stores
  <2> QED
    BY <2>1 DEF PageInv, Typed, Listed, Walk
<1>5. ASSUME NEW g \in Groups, RegisterMambaExcluded(g)
      PROVE  Filed(tier, tracked, policy)' /\ Typed' /\ Listed' /\ Walk'
  <2>1. /\ excluded' = excluded \cup {g} /\ ~job.on
        /\ UNCHANGED <<tier, slot, tracked, policy, free, held, admits, tick, lastTick, job>>
    BY <1>5 DEF RegisterMambaExcluded, stores
  <2> QED
    BY <2>1 DEF PageInv, Typed, Listed, Walk
<1>6. ASSUME NEW given \in Payloads, NEW big \in Oversize, DemoteToThreshold(given, big)
      PROVE  Filed(tier, tracked, policy)' /\ Typed' /\ Listed' /\ Walk'
  BY <1>6, WalkStarts
<1>7. CASE SkipCandidate
  BY <1>7, SkipBooks
<1>8. CASE DemoteCandidate
  BY <1>8, DemoteBooks
<1>9. CASE DemoteEnds
  BY <1>9, NoJobIs DEF DemoteEnds, stores, PageInv, Typed, Listed, Walk
<1>10. ASSUME NEW k \in ViewKeys, DemoteBlock(k)
       PROVE  Filed(tier, tracked, policy)' /\ Typed' /\ Listed' /\ Walk'
  BY <1>10, BlockBooks
<1>11. CASE EvictTerminal
  BY <1>11, EvictBooks
<1>12. CASE UNCHANGED vars
  <2>1. \A k : (Unprotected(k)' <=> Unprotected(k)) /\ (Eligible(k, {})' <=> Eligible(k, {}))
    BY <1>12 DEF vars, stores, Unprotected, Eligible, Ring, IsActive
  <2> QED
    BY <1>12, <2>1 DEF vars, stores, PageInv, Typed, Listed, Walk
<1> QED
  BY <1>1, <1>2, <1>3, <1>4, <1>5, <1>6, <1>7, <1>8, <1>9, <1>10, <1>11, <1>12 DEF Next
(* The inductive invariant of the whole manager. *)
THEOREM PageInvHolds == Spec => []PageInv
<1>1. Init => PageInv
  BY TierAssumption, InitPageInv
<1>2. PageInv /\ [Next]_vars => PageInv'
  BY TierAssumption, NextPageInv
<1> QED
  BY <1>1, <1>2, PTL DEF Spec

(* The types, for any keys, slots, groups and payloads. *)
THEOREM TypesHold == Spec => []TypeOK
<1>1. PageInv => TypeOK
  BY DEF PageInv, SlotInv, Sound, Filed, Typed, Jobs, TypeOK
<1> QED
  BY <1>1, PageInvHolds, PTL

(* Every page that has an entry is in the order the cap goes through, and  *)
(* every page of the CPU tier is one evict_terminal() can take.            *)
THEOREM PagesStayReclaimable == Spec => []EveryPageReclaimable
<1>1. PageInv => EveryPageReclaimable
  <2> SUFFICES ASSUME PageInv PROVE EveryPageReclaimable
    OBVIOUS
  <2>1. Filed(tier, tracked, policy)
    BY DEF PageInv
  <2>2. Cardinality(ToSet(tracked)) = Len(tracked)
    BY <2>1, InjectiveLen DEF Filed
  <2> QED
    BY <2>1, <2>2 DEF Filed, EveryPageReclaimable
<1> QED
  BY <1>1, PageInvHolds, PTL

-----------------------------------------------------------------------------
(* The cap: so many of the oldest go that the rest are not too many. *)
LEMMA AdmitCaps ==
  ASSUME TierAssumption, PageInv, NEW k \in PageKeys, Admit(k)
  PROVE  /\ Len(tracked') <= MaxTracked
         /\ \A j \in Keys \ {k} : slot[j] # NoSlot /\ tier'[j] = "none" => free'[slot[j]] > 0
<1> DEFINE tr     == Entered(k)
           sl     == [slot EXCEPT ![k] = NoSlot]
           extra  == IF Len(tr) > MaxTracked THEN Len(tr) - MaxTracked ELSE 0
           oldest == {tr[i] : i \in 1 .. extra}
           tier1  == [tier EXCEPT ![k] = "gpu"]
<1>1. k \in Keys /\ Filed(tier, tracked, policy) /\ Sound(tier, slot, free, held)
  BY DEF PageInv, SlotInv, Keys
<1>2. Filed(tier1, tr, policy)
  <2>1. /\ tier1 \in [Keys -> {"none", "gpu", "cpu"}]
        /\ \A j \in Keys \ {k} : tier1[j] = tier[j]
        /\ tier1[k] # "none"
        /\ \A j \in Keys : tier1[j] = "cpu" => j \in policy
    BY <1>1 DEF Filed, Sound
  <2> HIDE DEF tier1
  <2> QED
    BY <1>1, <2>1, EnteredFiled DEF Entered
<1>3. DropPages(oldest, tr, sl, tier1)
  BY DEF Admit
<1>4. Sound(tier1, sl, free, held)
  BY <1>1 DEF Sound
<1>5. \A j \in Keys \ {k} : sl[j] = slot[j]
  BY <1>1 DEF Sound
<1>6. \A j \in Keys \ {k} : slot[j] # NoSlot => tier1[j] # "none" /\ slot[j] \in Slots
  BY <1>1 DEF Sound
<1> HIDE DEF tr, sl, tier1
<1>7. tr \in Seq(Keys) /\ Len(tr) \in Nat /\ DOMAIN tr = 1 .. Len(tr)
  BY <1>2, LenProperties DEF Filed
<1>8. /\ extra \in Nat /\ extra <= Len(tr) /\ Len(tr) - extra <= MaxTracked
      /\ MaxTracked \in Nat
  BY <1>7 DEF TierAssumption
<1> HIDE DEF extra
<1>9. Len(tracked') <= MaxTracked
  <2>1. oldest \subseteq ToSet(tr) /\ IsFiniteSet(oldest) /\ Cardinality(oldest) = extra
    <3>1. \A i \in 1 .. extra : i \in DOMAIN tr
      BY <1>7, <1>8
    <3>2. oldest \subseteq ToSet(tr)
      BY <3>1 DEF ToSet
    <3> DEFINE g == [i \in 1 .. extra |-> tr[i]]
    <3>3. g \in Bijection(1 .. extra, oldest)
      <4>1. \A i, j \in 1 .. extra : tr[i] = tr[j] => i = j
        BY <1>2, <3>1 DEF Filed, IsInjective
      <4> QED
        BY <4>1 DEF Bijection, Injection, Surjection, IsInjective
    <3>4. ExistsBijection(1 .. extra, oldest)
      BY <3>3 DEF ExistsBijection
    <3>5. IsFiniteSet(1 .. extra) /\ Cardinality(1 .. extra) = extra
      BY <1>8, FS_Interval
    <3> HIDE DEF oldest
    <3>6. IsFiniteSet(oldest) /\ Cardinality(oldest) = Cardinality(1 .. extra)
      BY <3>4, <3>5, FS_Bijection
    <3> QED
      BY <3>2, <3>5, <3>6
  <2> HIDE DEF oldest
  <2>2. tracked' = Without(tr, oldest)
    BY <1>3 DEF DropPages
  <2>3. /\ Without(tr, oldest) \in Seq(Keys) /\ IsInjective(Without(tr, oldest))
        /\ ToSet(Without(tr, oldest)) = ToSet(tr) \ oldest
    <3> DEFINE tier2 == [j \in Keys |-> IF j \in oldest THEN "none" ELSE tier1[j]]
    <3>1. /\ Filed(tier2, Without(tr, oldest), policy \ oldest)
          /\ ToSet(Without(tr, oldest)) = ToSet(tr) \ oldest
      BY <1>2, DropFiled
    <3> HIDE DEF tier2
    <3> QED
      BY <3>1 DEF Filed
  <2>4. IsFiniteSet(ToSet(tr)) /\ Cardinality(ToSet(tr)) = Len(tr)
    BY <1>2, InjectiveLen DEF Filed
  <2>5. Cardinality(ToSet(Without(tr, oldest))) = Len(Without(tr, oldest))
    BY <2>3, InjectiveLen
  <2>6. Cardinality(ToSet(tr) \ oldest) = Len(tr) - extra
    <3>1. ToSet(tr) \cap oldest = oldest
      BY <2>1
    <3>2. Cardinality(ToSet(tr) \ oldest)
            = Cardinality(ToSet(tr)) - Cardinality(ToSet(tr) \cap oldest)
      BY <2>1, <2>4, FS_Difference
    <3> QED
      BY <2>1, <2>4, <3>1, <3>2
  <2>7. Len(tracked') = Len(tr) - extra
    BY <2>2, <2>3, <2>5, <2>6
  <2> QED
    BY <1>7, <1>8, <2>7
<1>10. ASSUME NEW j \in Keys \ {k}, slot[j] # NoSlot, tier'[j] = "none"
       PROVE  free'[slot[j]] > 0
  <2>1. j \in oldest
    BY <1>3, <1>6, <1>10 DEF DropPages
  <2> HIDE DEF oldest
  <2>2. free' = Freed(oldest, sl, free)
    BY <1>3 DEF DropPages
  <2>3. slot[j] \in Slots /\ sl[j] = slot[j]
    BY <1>5, <1>6, <1>10
  <2>4. free'[slot[j]] = 1
    BY <1>4, <2>1, <2>2, <2>3, FreedOnce
  <2> QED
    BY <2>4
<1> QED
  BY <1>9, <1>10

(* After any admission the cap holds, and the slots of what it dropped can *)
(* be handed out again.                                                    *)
THEOREM CapIsKept == Spec => CapHolds
<1>1. PageInv /\ [Next]_vars =>
        [\A k \in PageKeys : Admit(k) =>
           /\ Len(tracked') <= MaxTracked
           /\ \A j \in Keys \ {k} : slot[j] # NoSlot /\ tier'[j] = "none"
                                     => free'[slot[j]] > 0]_vars
  BY TierAssumption, AdmitCaps
<1> QED
  BY <1>1, PageInvHolds, PTL DEF CapHolds, Spec

-----------------------------------------------------------------------------
(* Only the candidate of a walk leaves the GPU, which is the first of its  *)
(* queue.                                                                  *)
LEMMA OnlyTheHeadLeaves ==
  ASSUME TierAssumption, PageInv, [Next]_vars,
         NEW k \in PageKeys, tier[k] = "gpu", tier'[k] = "cpu"
  PROVE  job.on /\ job.queue # <<>> /\ k = Head(job.queue)
<1>0. k \in Keys /\ k \notin ViewKeys /\ tier \in [Keys -> {"none", "gpu", "cpu"}]
  BY DEF PageInv, SlotInv, Sound, Keys, TierAssumption
<1>1. ~ \E D, tr, sl : DropPages(D, tr, sl, tier)
  <2>1. \A D, tr, sl : DropPages(D, tr, sl, tier) => tier'[k] \in {"none", tier[k]}
    BY <1>0 DEF DropPages
  <2> QED
    BY <2>1
<1>2. ASSUME NEW j \in PageKeys, Admit(j) PROVE FALSE
  <2> DEFINE tier1 == [tier EXCEPT ![j] = "gpu"]
  <2>1. PICK D, tr, sl : DropPages(D, tr, sl, tier1)
    BY <1>2 DEF Admit
  <2>2. tier1[k] # "cpu"
    BY <1>0
  <2> HIDE DEF tier1
  <2>3. tier'[k] \in {"none", tier1[k]}
    BY <1>0, <2>1 DEF DropPages
  <2> QED
    BY <2>2, <2>3
<1>3. ASSUME NEW j \in Keys, Forget(j) PROVE FALSE
  BY <1>1, <1>3 DEF Forget
<1>4. ASSUME NEW j \in Keys, Promote(j) PROVE FALSE
  BY <1>0, <1>4 DEF Promote
<1>5. ASSUME NEW j \in Keys, MarkActive(j) PROVE FALSE
  BY <1>5 DEF MarkActive, stores
<1>6. ASSUME NEW g \in Groups, RegisterMambaExcluded(g) PROVE FALSE
  BY <1>6 DEF RegisterMambaExcluded, stores
<1>7. ASSUME NEW given \in Payloads, NEW big \in Oversize, DemoteToThreshold(given, big) PROVE FALSE
  BY <1>7 DEF DemoteToThreshold, stores
<1>8. ~SkipCandidate /\ ~DemoteEnds /\ ~UNCHANGED vars
  BY DEF SkipCandidate, DemoteEnds, vars, stores
<1>9. ~EvictTerminal
  <2>1. \A v \in policy : Become(Evicted(v)) => tier'[k] \in {"none", tier[k]}
    BY <1>0, RoomFiled DEF Become
  <2> QED
    BY <2>1 DEF EvictTerminal
<1>10. \A st \in AfterRoom : /\ FiledPages(st) /\ SoundPages(st, held)
                             /\ st.tier \in [Keys -> {"none", "gpu", "cpu"}]
                             /\ st.tier[k] \in {"none", "gpu"}
  <2>1. \A st \in AfterRoom : SoundPages(st, held)
    BY RoomSound DEF PageInv
  <2> QED
    BY <1>0, <2>1, RoomFiled DEF SoundPages, Sound
<1>11. ASSUME NEW j \in Keys, NEW st \in AfterRoom, j # k,
              \/ Become(st)
              \/ \E s \in Available(st) :
                   Become(Taken(st, s)) \/ Become(Placed(st, j, s)) \/ Become(NewBlock(st, j, s))
       PROVE  FALSE
  <2>1. tier' = st.tier \/ tier' = [st.tier EXCEPT ![j] = "cpu"]
    <3>1. CASE Become(st)
      BY <3>1 DEF Become
    <3>2. CASE ~Become(st)
      <4>1. PICK s \in Available(st) :
              Become(Taken(st, s)) \/ Become(Placed(st, j, s)) \/ Become(NewBlock(st, j, s))
        BY <1>11, <3>2
      <4>2. /\ Taken(st, s).tier = st.tier
            /\ Placed(st, j, s).tier = IF st.tier[j] = "none" THEN st.tier
                                       ELSE [st.tier EXCEPT ![j] = "cpu"]
            /\ NewBlock(st, j, s).tier = [st.tier EXCEPT ![j] = "cpu"]
        BY <1>10, TakenFiled
      <4> QED
        BY <4>1, <4>2 DEF Become
    <3> QED
      BY <3>1, <3>2
  <2> QED
    BY <1>0, <1>10, <1>11, <2>1
<1>12. ASSUME NEW j \in ViewKeys, DemoteBlock(j) PROVE FALSE
  <2>1. PICK st \in AfterRoom :
          \/ Become(st)
          \/ \E s \in Available(st) : Become(NewBlock(st, j, s)) \/ Become(Taken(st, s))
    BY <1>12 DEF DemoteBlock
  <2>2. j \in Keys /\ j # k
    BY <1>0 DEF Keys
  <2> QED
    BY <1>11, <2>1, <2>2
<1>13. CASE DemoteCandidate
  <2> DEFINE c == Head(job.queue)
  <2>1. job.on /\ job.queue # <<>> /\ c \in Keys
    BY <1>13, TailToSet DEF DemoteCandidate, PageInv, Typed, Jobs, Keys
  <2>2. PICK st \in AfterRoom :
          \/ Become(st)
          \/ \E s \in Available(st) : Become(Taken(st, s)) \/ Become(Placed(st, c, s))
    BY <1>13 DEF DemoteCandidate
  <2> HIDE DEF c
  <2>3. c = k
    BY <1>11, <2>1, <2>2
  <2> QED
    BY <2>1, <2>3 DEF c
<1> QED
  BY <1>2, <1>3, <1>4, <1>5, <1>6, <1>7, <1>8, <1>9, <1>12, <1>13 DEF Next

(* A page of an excluded group, of the hot ring or in its protection       *)
(* window stays, however long ago the walk picked its candidates.          *)
THEOREM ProtectedPagesStay == Spec => ProtectedStays
<1>1. ASSUME PageInv, [Next]_vars, NEW k \in PageKeys, tier[k] = "gpu", tier'[k] = "cpu"
      PROVE  Group[k] \notin excluded /\ k \notin Ring /\ ~IsActive(k)
  <2>1. job.on /\ job.queue # <<>> /\ k = Head(job.queue)
    BY <1>1, OnlyTheHeadLeaves, TierAssumption
  <2>2. k \in ToSet(job.queue)
    BY <1>1, <2>1, TailToSet DEF PageInv, Typed, Jobs
  <2> QED
    BY <1>1, <2>1, <2>2 DEF PageInv, Walk, Unprotected
<1>2. PageInv /\ [Next]_vars =>
        [\A k \in PageKeys : tier[k] = "gpu" /\ tier'[k] = "cpu" =>
           Group[k] \notin excluded /\ k \notin Ring /\ ~IsActive(k)]_vars
  BY <1>1
<1> QED
  BY <1>2, PageInvHolds, PTL DEF ProtectedStays, Spec

(* A text page leaves the GPU only when no image page could go instead.    *)
THEOREM ImagesDrainFirst == Spec => VisionDrainsFirst
<1>1. ASSUME PageInv, [Next]_vars, NEW k \in PageKeys \ MmOrigin, NEW m \in MmOrigin,
             tier[k] = "gpu", tier'[k] = "cpu", VisionFirst
      PROVE  m \notin job.given \/ ~Eligible(m, {})
  <2>1. job.on /\ job.queue # <<>> /\ k = Head(job.queue)
    BY <1>1, OnlyTheHeadLeaves, TierAssumption
  <2>2. /\ Sorted(job.queue) /\ job.queue \in Seq(PageKeys)
        /\ \A x \in MmOrigin \cap job.given : Eligible(x, {}) => x \in ToSet(job.queue)
    BY <1>1, <2>1 DEF PageInv, Walk, Typed, Jobs
  <2>3. \A x \in ToSet(job.queue) : x \in MmOrigin => Head(job.queue) \in MmOrigin
    BY <2>1, <2>2, TailToSet
  <2> QED
    BY <1>1, <2>1, <2>2, <2>3
<1>2. PageInv /\ [Next]_vars =>
        [\A k \in PageKeys \ MmOrigin, m \in MmOrigin :
           tier[k] = "gpu" /\ tier'[k] = "cpu" /\ VisionFirst =>
             m \notin job.given \/ ~Eligible(m, {})]_vars
  BY <1>1
<1> QED
  BY <1>2, PageInvHolds, PTL DEF VisionDrainsFirst, Spec
=============================================================================
