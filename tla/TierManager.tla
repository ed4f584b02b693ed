---------------------------- MODULE TierManager ----------------------------
(***************************************************************************)
(* The two-tier KV cache manager, sndr/cache/tier_manager.py: which pages  *)
(* live on the GPU and which in a slot of the pinned CPU slab.             *)
(*                                                                         *)
(* A key is tracked while it has an entry in _pages.  The eviction policy  *)
(* of the CPU tier is the set of keys it tracks and evict() takes any of   *)
(* them: so does LRU, the default and the policy of every shipped tier     *)
(* config; 2Q and ARC do too while a key is in one queue of theirs and no  *)
(* queue is full.  The policy of tier 0 is written and never read when     *)
(* there are two tiers, and left out.  The free list is a count per slot   *)
(* (a slot freed twice is there twice) and alloc() takes any of it.        *)
(* touch reads and reorders only: no action.                               *)
(***************************************************************************)
EXTENDS Naturals, Sequences, FiniteSets, SequencesExt, SeqFilter

CONSTANTS
  PageKeys,      \* (request, group, block): the keys admit() is called with
  ViewKeys,      \* (layer, block): the keys demote_block() makes
  Slots,         \* of the slab
  Group,         \* the KV group of each page key
  MmOrigin,      \* the page keys of a multimodal span
  Capacity,      \* low_water_pct of tier 0, in pages
  MaxTracked,    \* _max_tracked_pages
  Slack,         \* the 64 of the compaction test in admit()
  HotRing,       \* spec_decode_hot_ring
  ActiveTtl,     \* _active_ttl_ticks
  VisionFirst,   \* vision_demote_first
  NoSlot,
  Payloads,      \* the key sets a caller of demote_to_threshold has bytes of
  Oversize,      \* the key sets whose bytes may be larger than a slot
  CopyRaises,    \* the view keys whose copy from the GPU may raise
  MaxTicks,      \* bound: calls of mark_active
  MaxAdmits      \* bound: entries of _admit_order when admit() is called

Keys   == PageKeys \cup ViewKeys
Groups == {Group[k] : k \in PageKeys}

ASSUME TierAssumption ==
  /\ PageKeys \cap ViewKeys = {}
  /\ NoSlot \notin Slots
  /\ Capacity \in Nat /\ MaxTracked \in Nat \ {0} /\ Slack \in Nat
  /\ HotRing \in Nat /\ ActiveTtl \in Nat
  /\ MaxTicks \in Nat /\ MaxAdmits \in Nat
  /\ CopyRaises \subseteq ViewKeys
  /\ Payloads \subseteq SUBSET PageKeys /\ Oversize \subseteq SUBSET PageKeys

VARIABLES
  tier,       \* _PageMeta.tier_idx: "none" for a key that is not tracked
  slot,       \* _PageMeta.cpu_slot_idx
  tracked,    \* the keys of _pages in insertion order
  admits,     \* _admit_order
  policy,     \* the keys _policies[1] tracks
  free,       \* how often each slot is on the free list
  held,       \* the key whose bytes each slot holds
  excluded,   \* _mamba_excluded
  tick, lastTick,
  job         \* the candidates demote_to_threshold has still to visit

stores == <<tier, slot, tracked, policy, free>>
vars == <<stores, held, admits, excluded, tick, lastTick, job>>

NoJob == [on |-> FALSE, queue |-> <<>>, left |-> 0, given |-> {}, big |-> {}]

Init ==
  /\ tier = [k \in Keys |-> "none"]
  /\ slot = [k \in Keys |-> NoSlot]
  /\ tracked = <<>> /\ admits = <<>>
  /\ policy = {}
  /\ free = [s \in Slots |-> 1]
  /\ held = [s \in Slots |-> NoSlot]
  /\ excluded = {}
  /\ tick = 0 /\ lastTick = [k \in Keys |-> 0]
  /\ job = NoJob

Entered(k) == IF k \in ToSet(tracked) THEN tracked ELSE Append(tracked, k)
Without(seq, D) == Kept(seq, Keys \ D)

-----------------------------------------------------------------------------
(* Dropping pages: their slots go back to the free list. *)

Freed(D, sl, fr) ==
  [s \in Slots |-> fr[s] + Cardinality({k \in Keys : k \in D /\ sl[k] = s})]

DropPages_KeepsEntries(D, tr, sl, tier1) ==
  /\ tracked' = tr
  /\ tier' = [k \in Keys |-> IF k \in D THEN "none" ELSE tier1[k]]
  /\ slot' = [k \in Keys |-> IF k \in D THEN NoSlot ELSE sl[k]]
  /\ free' = Freed(D, sl, free)
  /\ policy' = policy \ {k \in D : tier1[k] = "cpu"}
  /\ lastTick' = [k \in Keys |-> IF k \in D THEN 0 ELSE lastTick[k]]

(* _forget_meta of every key of D, in a state with these pages. *)
DropPages(D, tr, sl, tier1) ==
  /\ tracked' = Without(tr, D)
  /\ tier' = [k \in Keys |-> IF k \in D THEN "none" ELSE tier1[k]]
  /\ slot' = [k \in Keys |-> IF k \in D THEN NoSlot ELSE sl[k]]
  /\ free' = Freed(D, sl, free)
  /\ policy' = policy \ {k \in D : tier1[k] = "cpu"}
  /\ lastTick' = [k \in Keys |-> IF k \in D THEN 0 ELSE lastTick[k]]

Evicted_KeepsEntry(v) ==
  [tier    |-> tier,
   slot    |-> slot,
   tracked |-> tracked,
   policy  |-> policy \ {v},
   free    |-> Freed({v}, slot, free)]

(* The pages after evict_terminal() drops v: only the policy of the last   *)
(* tier and the slab hear of it.                                           *)
Evicted(v) ==
  [tier    |-> [tier EXCEPT ![v] = "none"],
   slot    |-> [slot EXCEPT ![v] = NoSlot],
   tracked |-> Without(tracked, {v}),
   policy  |-> policy \ {v},
   free    |-> Freed({v}, slot, free)]

Now == [tier |-> tier, slot |-> slot, tracked |-> tracked, policy |-> policy,
        free |-> free]

Become(st) ==
  /\ tier' = st.tier /\ slot' = st.slot /\ tracked' = st.tracked
  /\ policy' = st.policy /\ free' = st.free

(* alloc(), and once more after evict_terminal() when the slab is full. *)
AfterRoom ==
  IF (\E s \in Slots : free[s] > 0) \/ policy = {}
  THEN {Now} ELSE {Evicted(v) : v \in policy}

Available_Any(st) == Slots
Available(st) == {s \in Slots : st.free[s] > 0}
Taken_Peeks(st, s) == st
Taken(st, s)  == [st EXCEPT !.free[s] = @ - 1]

-----------------------------------------------------------------------------
(* admit(): the cap drops the oldest entries, the one admitted possibly    *)
(* among them.                                                             *)
Admit(k) ==
  LET tr     == Entered(k)
      sl     == [slot EXCEPT ![k] = NoSlot]
      extra  == IF Len(tr) > MaxTracked THEN Len(tr) - MaxTracked ELSE 0
      oldest == {tr[i] : i \in 1 .. extra}
      added  == IF Group[k] \in excluded THEN admits ELSE Append(admits, k)
      full   == Group[k] \notin excluded /\ Len(added) > 2 * Len(tr) + Slack
      live   == Kept(added, ToSet(tr))
  IN  /\ ~job.on /\ Len(admits) < MaxAdmits
      /\ DropPages(oldest, tr, sl, [tier EXCEPT ![k] = "gpu"])
      /\ admits' = IF extra > 0 THEN Without(live, oldest)
                   ELSE IF full THEN live ELSE added
      /\ UNCHANGED <<held, excluded, tick, job>>

(* forget(): entries of _admit_order stay. *)
Forget(k) ==
  /\ ~job.on /\ tier[k] # "none"
  /\ DropPages({k}, tracked, slot, tier)
  /\ UNCHANGED <<held, admits, excluded, tick, job>>

Promote_KeepsSlot(k) ==
  /\ ~job.on /\ tier[k] = "cpu"
  /\ free' = Freed({k}, slot, free)
  /\ tier' = [tier EXCEPT ![k] = "gpu"]
  /\ policy' = policy \ {k}
  /\ UNCHANGED <<slot, held, tracked, admits, excluded, tick, lastTick, job>>

(* mark_promoted(), and promote_block() for a view key: back to tier 0. *)
Promote(k) ==
  /\ ~job.on /\ tier[k] = "cpu"
  /\ free' = Freed({k}, slot, free)
  /\ slot' = [slot EXCEPT ![k] = NoSlot]
  /\ tier' = [tier EXCEPT ![k] = "gpu"]
  /\ policy' = policy \ {k}
  /\ UNCHANGED <<held, tracked, admits, excluded, tick, lastTick, job>>

EvictTerminal ==
  /\ ~job.on
  /\ \E v \in policy : Become(Evicted(v))
  /\ UNCHANGED <<held, admits, excluded, tick, lastTick, job>>

RegisterMambaExcluded(g) ==
  /\ ~job.on /\ g \notin excluded
  /\ excluded' = excluded \cup {g}
  /\ UNCHANGED <<stores, held, admits, tick, lastTick, job>>

MarkActive(k) ==
  /\ ~job.on /\ ActiveTtl > 0 /\ tick < MaxTicks
  /\ tick' = tick + 1
  /\ lastTick' = [lastTick EXCEPT ![k] = tick + 1]
  /\ UNCHANGED <<stores, held, admits, excluded, job>>

IsActive(k) == lastTick[k] > 0 /\ tick - lastTick[k] < ActiveTtl

-----------------------------------------------------------------------------
(* Demote candidates: _demote_candidates.                                  *)

Ring == {admits[i] : i \in {j \in DOMAIN admits : j + HotRing > Len(admits)}}

Eligible_EvenHot(k, protected) ==
  tier[k] = "gpu" /\ Group[k] \notin excluded /\ k \notin protected /\ ~IsActive(k)
Eligible(k, protected) ==
  /\ tier[k] = "gpu"
  /\ Group[k] \notin excluded
  /\ k \notin Ring \cup protected
  /\ ~IsActive(k)

Candidates_AdmitOrder(protected) == Kept(admits, {k \in PageKeys : Eligible(k, protected)})
Candidates(protected) ==
  LET c == Kept(admits, {k \in PageKeys : Eligible(k, protected)})
  IN  IF VisionFirst
      THEN Kept(c, MmOrigin) \o Kept(c, PageKeys \ MmOrigin)
      ELSE c

Tier0 == {k \in Keys : tier[k] = "gpu" /\ (k \in ViewKeys \/ Group[k] \notin excluded)}

(* demote_to_threshold(payloads), one candidate per step; the payloads of  *)
(* "big" do not fit a slot, so that store() raises out of the loop.        *)
DemoteToThreshold(given, big) ==
  /\ ~job.on /\ Cardinality(Tier0) > Capacity
  /\ job' = [on |-> TRUE, queue |-> Candidates({}),
             left |-> Cardinality(Tier0) - Capacity, given |-> given, big |-> big]
  /\ UNCHANGED <<stores, held, admits, excluded, tick, lastTick>>

Rest == [job EXCEPT !.queue = Tail(@)]

SkipCandidate ==
  /\ job.on /\ job.left > 0 /\ job.queue # <<>>
  /\ tier[Head(job.queue)] # "gpu" \/ Head(job.queue) \notin job.given
  /\ job' = Rest
  /\ UNCHANGED <<stores, held, admits, excluded, tick, lastTick>>

(* The page moves; if evict_terminal() dropped this very page, its entry   *)
(* is gone and the slot has no owner.                                      *)
Placed(st, k, s) ==
  LET gone == st.tier[k] = "none"
  IN  [tier    |-> IF gone THEN st.tier ELSE [st.tier EXCEPT ![k] = "cpu"],
       slot    |-> IF gone THEN st.slot ELSE [st.slot EXCEPT ![k] = s],
       tracked |-> st.tracked,
       policy  |-> st.policy \cup {k},
       free    |-> Taken(st, s).free]

DemoteCandidate ==
  LET k == Head(job.queue)
  IN  /\ job.on /\ job.left > 0 /\ job.queue # <<>>
      /\ tier[k] = "gpu" /\ k \in job.given
      /\ \E st \in AfterRoom :
           IF Available(st) = {}
           THEN Become(st) /\ job' = NoJob /\ UNCHANGED held
           ELSE \E s \in Available(st) :
                  IF k \in job.big
                  THEN Become(Taken(st, s)) /\ job' = NoJob /\ UNCHANGED held
                  ELSE /\ Become(Placed(st, k, s))
                       /\ held' = [held EXCEPT ![s] = k]
                       /\ job' = [Rest EXCEPT !.left = @ - 1]
      /\ UNCHANGED <<admits, excluded, tick, lastTick>>

DemoteEnds ==
  /\ job.on /\ (job.left = 0 \/ job.queue = <<>>)
  /\ job' = NoJob
  /\ UNCHANGED <<stores, held, admits, excluded, tick, lastTick>>

NewBlock_NotAdmitted(st, k, s) ==
  [tier    |-> [st.tier EXCEPT ![k] = "cpu"],
   slot    |-> [st.slot EXCEPT ![k] = s],
   tracked |-> IF k \in ToSet(st.tracked) THEN st.tracked ELSE Append(st.tracked, k),
   policy  |-> st.policy,
   free    |-> Taken(st, s).free]

(* demote_block(layer, block): the entry of the key is made anew, whatever *)
(* slot the old one had; a copy that raises keeps the slot from everyone.  *)
NewBlock(st, k, s) ==
  [tier    |-> [st.tier EXCEPT ![k] = "cpu"],
   slot    |-> [st.slot EXCEPT ![k] = s],
   tracked |-> IF k \in ToSet(st.tracked) THEN st.tracked ELSE Append(st.tracked, k),
   policy  |-> st.policy \cup {k},
   free    |-> Taken(st, s).free]

DemoteBlock(k) ==
  /\ ~job.on
  /\ \E st \in AfterRoom :
       IF Available(st) = {}
       THEN Become(st) /\ UNCHANGED held
       ELSE \E s \in Available(st) :
              \/ Become(NewBlock(st, k, s)) /\ held' = [held EXCEPT ![s] = k]
              \/ k \in CopyRaises /\ Become(Taken(st, s)) /\ UNCHANGED held
  /\ UNCHANGED <<admits, excluded, tick, lastTick, job>>

Next ==
  \/ \E k \in PageKeys : Admit(k)
  \/ \E k \in Keys : Forget(k) \/ Promote(k) \/ MarkActive(k)
  \/ \E g \in Groups : RegisterMambaExcluded(g)
  \/ \E given \in Payloads, big \in Oversize : DemoteToThreshold(given, big)
  \/ SkipCandidate \/ DemoteCandidate \/ DemoteEnds
  \/ \E k \in ViewKeys : DemoteBlock(k)
  \/ EvictTerminal

Spec == Init /\ [][Next]_vars

-----------------------------------------------------------------------------
TypeOK ==
  /\ tier \in [Keys -> {"none", "gpu", "cpu"}]
  /\ slot \in [Keys -> Slots \cup {NoSlot}]
  /\ tracked \in Seq(Keys) /\ admits \in Seq(PageKeys)
  /\ policy \subseteq Keys
  /\ free \in [Slots -> Nat]
  /\ held \in [Slots -> Keys \cup {NoSlot}]
  /\ excluded \subseteq Groups
  /\ tick \in Nat /\ lastTick \in [Keys -> Nat]
  /\ job \in [on : BOOLEAN, queue : Seq(PageKeys), left : Nat,
              given : SUBSET PageKeys, big : SUBSET PageKeys]

(* No slot is handed out twice: it has at most one page, it is on the free *)
(* list at most once, and not while a page has it.                         *)
SlotsOwnedOnce ==
  /\ \A s \in Slots : free[s] <= 1
  /\ \A k \in Keys : slot[k] # NoSlot => free[slot[k]] = 0
  /\ \A j, k \in Keys : slot[j] # NoSlot /\ slot[j] = slot[k] => j = k

(* touch() and promote_block() give a demoted page its own bytes back: no  *)
(* later demotion overwrote the slot it still points to.                   *)
BytesArePages == \A k \in Keys : slot[k] # NoSlot => held[slot[k]] = k

(* A page has a slot exactly while it is in the CPU tier.                  *)
SlotIffDemoted == \A k \in Keys : tier[k] = "cpu" <=> slot[k] # NoSlot

(* The order of _pages and its entries agree, so that the cap can reach    *)
(* every page, and no CPU page is out of the reach of evict_terminal().    *)
EveryPageReclaimable ==
  /\ ToSet(tracked) = {k \in Keys : tier[k] # "none"}
  /\ Cardinality(ToSet(tracked)) = Len(tracked)
  /\ \A k \in Keys : tier[k] = "cpu" => k \in policy

(* After an admission the cap holds, and the slot of every other page that *)
(* it dropped to get there can be handed out again.                        *)
CapHolds ==
  [][\A k \in PageKeys : Admit(k) =>
       /\ Len(tracked') <= MaxTracked
       /\ \A j \in Keys \ {k} : slot[j] # NoSlot /\ tier'[j] = "none"
                                 => free'[slot[j]] > 0]_vars

(* No page that is protected when it moves is demoted by the threshold    *)
(* walk: of an excluded group, in the hot ring, or active.                 *)
ProtectedStays ==
  [][\A k \in PageKeys : tier[k] = "gpu" /\ tier'[k] = "cpu" =>
       Group[k] \notin excluded /\ k \notin Ring /\ ~IsActive(k)]_vars

(* vision_demote_first: a text page leaves the GPU only when no image page *)
(* whose bytes the caller has could have gone instead.                     *)
VisionDrainsFirst ==
  [][\A k \in PageKeys \ MmOrigin, m \in MmOrigin :
       tier[k] = "gpu" /\ tier'[k] = "cpu" /\ VisionFirst =>
         m \notin job.given \/ ~Eligible(m, {})]_vars
=============================================================================
