---------------------------- MODULE PrefixTiers ----------------------------
(* Where a block goes when the GPU prefix cache evicts it: the slots of      *)
(* pinned memory (L1), the prefix store in RAM (L2) and the disk tier, of    *)
(* prefix_store.py, _pn95_pinned_pool.py and _pn95_disk_tier.py.  Every call *)
(* runs to its end in the one thread that owns the block pool, so a call is  *)
(* an operator from tiers to tiers; PrefixCache composes them.               *)
(*                                                                           *)
(* What was copied is a value; compression and the pickle envelope are left  *)
(* out, so an entry has one size in every tier.                              *)
EXTENDS Integers, Sequences, FiniteSets, SequencesExt, SeqFilter

CONSTANTS
    Hashes,        \* the block hashes
    Size,          \* the bytes of the block with a hash, once compressed
    StoreCap,      \* _prefix_store_max_bytes
    PinnedBudget,  \* _budget_bytes of the pinned pool; 0 when it is off
    DiskOn,        \* GENESIS_PN95_DISK_TIER_ENABLE
    DiskCaps,      \* what _capacity_bytes of the disk tier may be; 0 never evicts
    NoData

ASSUME TiersAssumption ==
    /\ Size \in [Hashes -> Nat \ {0}]
    /\ {StoreCap, PinnedBudget} \cup DiskCaps \subseteq Nat
    /\ DiskOn \in BOOLEAN /\ NoData \notin Hashes

(* l2: the store from cold to warm, and used, its byte counter; l1: what the *)
(* pinned slots hold, and slot, their size, 0 before the first demote; disk: *)
(* the files in the order of their access times, and cap, their limit.       *)
NoTiers(cap) == [l1 |-> [h \in {} |-> NoData], slot |-> 0, l2 |-> <<>>, used |-> 0,
                 disk |-> <<>>, cap |-> cap]

Keys(s) == {s[i].key : i \in DOMAIN s}
Bytes(s) == FoldLeft(LAMBDA n, e : n + Size[e.key], 0, s)
Without(s, h) == Kept(s, [key : Hashes \ {h}, data : Hashes \cup {NoData}])
DataOf(s, h) == (CHOOSE e \in {s[i] : i \in DOMAIN s} : e.key = h).data

(* How many entries an eviction takes from the cold end of s: none more once *)
(* the rest of total is within room, all of them if it never is.             *)
Victims(s, total, room) ==
    CHOOSE k \in 0 .. Len(s) :
        /\ total - Bytes(SubSeq(s, 1, k)) <= room \/ k = Len(s)
        /\ \A j \in 0 .. k - 1 : total - Bytes(SubSeq(s, 1, j)) > room
Rest(s, k) == SubSeq(s, k + 1, Len(s))

(***************************************************************************)
(* The disk tier                                                           *)
(***************************************************************************)

(* disk_tier_set: the oldest files go until the new one fits, which is       *)
(* written even if it never does, in the place of one with its name.         *)
DiskSet(t, e) ==
    LET room == IF t.cap > Size[e.key] THEN t.cap - Size[e.key] ELSE 0
        k == IF t.cap = 0 THEN 0 ELSE Victims(t.disk, Bytes(t.disk), room)
    IN  [t EXCEPT !.disk = Append(Without(Rest(@, k), e.key), e)]

(* disk_tier_get: a file that is read is the newest. *)
DiskRead(d, h) == Append(Without(d, h), [key |-> h, data |-> DataOf(d, h)])

(***************************************************************************)
(* The pinned pool                                                         *)
(***************************************************************************)

(* get_pool: slots are sized by the first block demoted, and 25% more. *)
SlotFor(n) == (5 * n) \div 4
Slots(t) == IF PinnedBudget > t.slot THEN PinnedBudget \div t.slot ELSE 1

Evicted(l1, hs) == [h \in DOMAIN l1 \ hs |-> l1[h]]

(* put: a block larger than a slot, and a new one when none is free, is not  *)
(* taken; one that has a slot already is written over.                       *)
Pinned(t, h, data) ==
    LET u == IF t.slot = 0 THEN [t EXCEPT !.slot = SlotFor(Size[h])] ELSE t
        fits == /\ Size[h] <= u.slot
                /\ h \in DOMAIN u.l1 \/ Cardinality(DOMAIN u.l1) < Slots(u)
    IN  IF PinnedBudget = 0 THEN t
        ELSE IF ~fits THEN u
        ELSE [u EXCEPT !.l1 = [k \in DOMAIN @ \cup {h} |-> IF k = h THEN data ELSE @[k]]]

(***************************************************************************)
(* The prefix store                                                        *)
(***************************************************************************)

(* _prefix_store_evict_until_fit: the k coldest entries spill to the disk,   *)
(* and their pinned slots are freed.                                         *)
Spilled(t, k) ==
    LET gone == SubSeq(t.l2, 1, k)
    IN  [IF DiskOn THEN FoldLeft(DiskSet, t, gone) ELSE t
         EXCEPT !.l2 = Rest(@, k), !.used = @ - Bytes(gone), !.l1 = Evicted(@, Keys(gone))]
Fitted(t, need) == Spilled(t, Victims(t.l2, t.used, StoreCap - need))

Added(t, h, data) ==
    [t EXCEPT !.l2 = Append(@, [key |-> h, data |-> data]), !.used = @ + Size[h]]
(* A bug: the bytes of the entry that is replaced stay in the counter. *)
Removed_Uncounted(t, h) == [t EXCEPT !.l2 = Without(@, h)]

Removed(t, h) ==
    [t EXCEPT !.l2 = Without(@, h), !.used = IF h \in Keys(t.l2) THEN @ - Size[h] ELSE @]

(* demote_on_evict, of the block that holds data under h.  An entry that     *)
(* cannot fit is refused after the eviction that was to make room for it.    *)
Stored(t, h, data) == Added(Pinned(Removed(t, h), h, data), h, data)
Demoted(t, h, data) ==
    IF Size[h] > StoreCap THEN Fitted(t, Size[h]) ELSE Stored(Fitted(t, Size[h]), h, data)

(* The lookup of promote_on_miss: a pinned slot, else the store, else a file *)
(* that moves into the store if it fits there at all.                        *)
MovedUp(t, h, data) == IF Size[h] <= StoreCap THEN Added(t, h, data) ELSE t
Fetched(t, h) ==
    IF h \in DOMAIN t.l1 THEN [tiers |-> t, data |-> t.l1[h]]
    ELSE IF h \in Keys(t.l2) THEN [tiers |-> t, data |-> DataOf(t.l2, h)]
    ELSE IF ~DiskOn \/ h \notin Keys(t.disk) THEN [tiers |-> t, data |-> NoData]
    ELSE [tiers |-> MovedUp(Fitted([t EXCEPT !.disk = DiskRead(@, h)], Size[h]),
                            h, DataOf(t.disk, h)),
          data |-> DataOf(t.disk, h)]
=============================================================================
