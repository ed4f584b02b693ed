---------------------------- MODULE PrefixCache ----------------------------
(* The GPU prefix cache with the PN95 tiers behind it: block_pool.py and the *)
(* full-attention manager of single_type_kv_cache_manager.py, as the sites   *)
(* of pn95_tier_aware_cache.py rewrite them, over PrefixTiers.  An eviction  *)
(* demotes the block, a lookup that misses promotes it into a fresh block.   *)
(*                                                                           *)
(* A text is the hashes of its full blocks; the tokens after them fill one   *)
(* more block, the tail.  What a block or an entry holds is the hash it was  *)
(* computed under.  One KV group, no speculative decoding, no connector      *)
(* (evict_blocks), phase 5 off, site 13 retired as it ships.                 *)
EXTENDS PrefixTiers

CONSTANTS
    Requests,
    Texts,         \* the texts a request may have, with their prefixes
    Blocks,        \* 1 .. n; the null block is left out, it is never free
    MaxRestarts,   \* bound
    NoHash, NoBlock

(* The hash of a block covers the hash of the one before it, so that no text *)
(* has one twice.                                                            *)
ASSUME CacheAssumption ==
    /\ Texts \subseteq Seq(Hashes)
    /\ \A s \in Texts : IsInjective(s) /\ (Len(s) > 1 => Front(s) \in Texts)
    /\ IsFiniteSet(Requests) /\ IsFiniteSet(Blocks) /\ Blocks = 1 .. Cardinality(Blocks)
    /\ MaxRestarts \in Nat
    /\ NoHash \notin Hashes /\ NoBlock \notin Blocks

VARIABLES
    pool,      \* the block pool: queue, ref, hash, map, bytes
    tiers,
    text,      \* per request, the full blocks it has tokens for
    table,     \* req_to_blocks, <<>> while it waits
    known,     \* the hashes cached since the cache was reset
    restarts

vars == <<pool, tiers, text, table, known, restarts>>

FullPool ==
    [queue |-> [b \in Blocks |-> b],               \* free_block_queue, coldest first
     ref   |-> [b \in Blocks |-> 0],
     hash  |-> [b \in Blocks |-> NoHash],
     map   |-> [h \in Hashes |-> <<>>],            \* cached_block_hash_to_block
     bytes |-> [b \in Blocks |-> NoData]]          \* what the GPU holds

Init ==
    /\ pool = FullPool /\ \E cap \in DiskCaps : tiers = NoTiers(cap)
    /\ text = [r \in Requests |-> <<>>] /\ table = [r \in Requests |-> <<>>]
    /\ known = {} /\ restarts = 0

(***************************************************************************)
(* The block pool.  A memory m is a pool p and the tiers t behind it.      *)
(***************************************************************************)

Memory == [p |-> pool, t |-> tiers]
Free(m) == Len(m.p.queue)

(* insert and pop of BlockHashToBlockMap: the first block of a hash answers. *)
Insert(p, b, h) ==
    [p EXCEPT !.hash[b] = h,
              !.map[h] = IF b \in ToSet(@) THEN @ ELSE Append(@, b)]
Pop(p, b) == [p EXCEPT !.map[p.hash[b]] = Kept(@, Blocks \ {b})]

(* A bug: the evicted block still answers for its hash. *)
EvictCached_KeepsMap(m, b) ==
    LET h == m.p.hash[b]
    IN  IF h = NoHash THEN m
        ELSE [p |-> [m.p EXCEPT !.hash[b] = NoHash], t |-> Demoted(m.t, h, m.p.bytes[b])]

(* _maybe_evict_cached_block with site 7: demote, then forget the hash. *)
EvictCached(m, b) ==
    LET h == m.p.hash[b]
    IN  IF h = NoHash THEN m
        ELSE IF b \notin ToSet(m.p.map[h]) THEN m
        ELSE [p |-> [Pop(m.p, b) EXCEPT !.hash[b] = NoHash],
              t |-> Demoted(m.t, h, m.p.bytes[b])]

(* get_new_blocks, when n blocks are free: they are the first n of the queue. *)
Coldest(m, n) == SubSeq(m.p.queue, 1, n)
GetNew(m, n) ==
    [FoldLeft(EvictCached, [m EXCEPT !.p.queue = Rest(@, n)], Coldest(m, n))
     EXCEPT !.p.ref = [b \in Blocks |-> IF b \in ToSet(Coldest(m, n)) THEN @[b] + 1 ELSE @[b]]]

(* A bug: a hit on a free block leaves it among the eviction candidates. *)
Touched_StaysQueued(p, b) == [p EXCEPT !.ref[b] = @ + 1]

(* Where b is in a list. *)
At(s, b) == {i \in DOMAIN s : s[i] = b}

(* A bug: blocks go back to the queue while other requests share them. *)
Freed_Shared(p, bs) ==
    LET ref == [b \in Blocks |-> p.ref[b] - Cardinality(At(bs, b))]
    IN  [p EXCEPT !.ref = ref,
                  !.queue = @ \o Kept(bs, Blocks \ ToSet(p.queue))]

(* touch and free_blocks *)
Touched(p, b) ==
    [p EXCEPT !.queue = IF p.ref[b] = 0 THEN Kept(@, Blocks \ {b}) ELSE @,
              !.ref[b] = @ + 1]
Freed(p, bs) ==
    LET ref == [b \in Blocks |-> p.ref[b] - Cardinality(At(bs, b))]
    IN  [p EXCEPT !.ref = ref, !.queue = @ \o Kept(bs, {b \in Blocks : ref[b] = 0})]

(***************************************************************************)
(* The lookup                                                              *)
(***************************************************************************)

(* A block b taken for the hash h is given the bytes found, and answers for  *)
(* it; it is on loan from then on.                                           *)
Filled(m, b, h, data) == [m EXCEPT !.p = Insert([@ EXCEPT !.bytes[b] = data], b, h)]

(* A bug: the entry is taken out before a block is found for it. *)
Restored_TakesFirst(m, h, data) ==
    IF data = NoData \/ Free(m) = 0
    THEN [m |-> [m EXCEPT !.t = Removed(@, h)], block |-> NoBlock]
    ELSE [m |-> Filled(GetNew([m EXCEPT !.t = Removed(@, h)], 1), Head(Coldest(m, 1)), h, data),
          block |-> Head(Coldest(m, 1))]

(* promote_on_miss, of what was found under h in the tiers of m: a new block *)
(* takes it, and the entry leaves the store, but not its slot.               *)
Restored(m, h, data) ==
    IF data = NoData \/ Free(m) = 0 THEN [m |-> m, block |-> NoBlock]
    ELSE [m |-> [Filled(GetNew(m, 1), Head(Coldest(m, 1)), h, data) EXCEPT !.t = Removed(@, h)],
          block |-> Head(Coldest(m, 1))]
Promoted(m, h) ==
    LET f == Fetched(m.t, h) IN Restored([m EXCEPT !.t = f.tiers], h, f.data)

(* get_cached_block with site 8 *)
Looked(m, h) ==
    IF m.p.map[h] # <<>> THEN [m |-> m, block |-> Head(m.p.map[h])] ELSE Promoted(m, h)

(* find_longest_cache_hit: the blocks of the longest prefix found.  Nothing  *)
(* holds them until they are touched.                                        *)
Hit(acc, l) == IF l.block = NoBlock THEN [acc EXCEPT !.m = l.m, !.over = TRUE]
               ELSE [acc EXCEPT !.m = l.m, !.hits = Append(@, l.block)]
LongestHit(m, s) ==
    FoldLeft(LAMBDA acc, h : IF acc.over THEN acc ELSE Hit(acc, Looked(acc.m, h)),
             [m |-> m, hits |-> <<>>, over |-> FALSE], s)

(* get_num_blocks_to_allocate, for the full blocks of s and a tail *)
Needed(p, s, hits) ==
    Len(s) + 1 - Len(hits) + Cardinality({i \in DOMAIN hits : p.ref[hits[i]] = 0})

(* cache_full_blocks, of the blocks after the first n, once they are filled *)
CachedFull(p, bs, s, n) ==
    FoldLeft(LAMBDA q, i : Insert([q EXCEPT !.bytes[bs[i]] = s[i]], bs[i], s[i]),
             p, [i \in 1 .. Len(s) - n |-> n + i])

(***************************************************************************)
(* The calls of the scheduler                                              *)
(***************************************************************************)

Settle(m) == /\ pool' = m.p
             /\ tiers' = m.t

(* A request has the text s, whose full blocks after the first n are to be   *)
(* filled, in the blocks bs, the last of them the new tail.                  *)
Runs(r, s, n, bs, m) ==
    /\ Settle([m EXCEPT !.p = CachedFull([@ EXCEPT !.bytes[Last(bs)] = NoData], bs, s, n)])
    /\ table' = [table EXCEPT ![r] = bs]
    /\ text' = [text EXCEPT ![r] = s]
    /\ known' = known \cup ToSet(s)

(* When there is room a request that was looked up takes its hits and the    *)
(* blocks it misses (allocate_new_computed_blocks, allocate_new_blocks,      *)
(* cache_blocks), else it waits on and the hits are dropped.                 *)
Place(r, s, l) ==
    LET n == Len(s) + 1 - Len(l.hits)
        held == [l.m EXCEPT !.p = FoldLeft(Touched, @, l.hits)]
    IN  IF Needed(l.m.p, s, l.hits) > Free(l.m)
        THEN Settle(l.m) /\ UNCHANGED <<text, table, known>>
        ELSE Runs(r, s, Len(l.hits), l.hits \o Coldest(held, n), GetNew(held, n))

(* A waiting request is looked up and placed. *)
Schedule(r, s) ==
    /\ table[r] = <<>>
    /\ Place(r, s, LongestHit(Memory, s))
    /\ UNCHANGED restarts

(* A running request fills its tail with the block h of its text and starts  *)
(* another; without a free block it is preempted instead, which is Finish.   *)
Extend(r, h) ==
    LET s == Append(text[r], h)
    IN  /\ table[r] # <<>> /\ s \in Texts /\ Free(Memory) > 0
        /\ Runs(r, s, Len(s) - 1, table[r] \o Coldest(Memory, 1), GetNew(Memory, 1))
        /\ UNCHANGED restarts

(* A bug: the blocks of a request that is over can be freed again. *)
Finish_KeepsTable(r) ==
    /\ table[r] # <<>>
    /\ pool' = Freed(pool, Reverse(table[r]))
    /\ UNCHANGED <<table, text, tiers, known, restarts>>

(* free: a request is over, or preempted; its last blocks will go first. *)
Finish(r) ==
    /\ table[r] # <<>>
    /\ pool' = Freed(pool, Reverse(table[r]))
    /\ table' = [table EXCEPT ![r] = <<>>]
    /\ text' = [text EXCEPT ![r] = <<>>]
    /\ UNCHANGED <<tiers, known, restarts>>

(* reset_prefix_cache, which is refused while a block is in use.  The tiers  *)
(* are not told.                                                             *)
Reset ==
    /\ Free(Memory) = Cardinality(Blocks)
    /\ pool' = [pool EXCEPT !.map = FullPool.map, !.hash = FullPool.hash]
    /\ known' = {}
    /\ UNCHANGED <<tiers, text, table, restarts>>

(* The engine dies and is started again: only the files are left. *)
Restart ==
    /\ restarts < MaxRestarts
    /\ restarts' = restarts + 1
    /\ pool' = FullPool
    /\ tiers' = [NoTiers(tiers.cap) EXCEPT !.disk = tiers.disk]
    /\ text' = [r \in Requests |-> <<>>]
    /\ table' = [r \in Requests |-> <<>>]
    /\ known' = Keys(tiers.disk)

Next ==
    \/ \E r \in Requests, s \in Texts : Schedule(r, s)
    \/ \E r \in Requests, h \in Hashes : Extend(r, h)
    \/ \E r \in Requests : Finish(r)
    \/ Reset
    \/ Restart

Spec == Init /\ [][Next]_vars

(***************************************************************************)
(* Properties                                                              *)
(***************************************************************************)

EntrySeqs(s) == \A i \in DOMAIN s : s[i] \in [key : Hashes, data : Hashes]

(* The shapes of the pool and of the tiers; no reference count is negative   *)
(* and the byte counter of the store is a number of bytes.                   *)
TypeOK ==
    /\ pool.queue \in Seq(Blocks)
    /\ pool.ref \in [Blocks -> Nat]
    /\ pool.hash \in [Blocks -> Hashes \cup {NoHash}]
    /\ \A h \in Hashes : pool.map[h] \in Seq(Blocks)
    /\ pool.bytes \in [Blocks -> Hashes \cup {NoData}]
    /\ EntrySeqs(tiers.l2) /\ EntrySeqs(tiers.disk)
    /\ DOMAIN tiers.l1 \subseteq Hashes /\ \A h \in DOMAIN tiers.l1 : tiers.l1[h] \in Hashes
    /\ tiers.used \in Nat /\ tiers.slot \in Nat
    /\ text \in [Requests -> Texts \cup {<<>>}]
    /\ table \in [Requests -> Seq(Blocks)]

(* How often the requests use a block. *)
Uses(b) == Cardinality(UNION {{r} \X At(table[r], b) : r \in Requests})

(* A block is in the free queue, once, exactly when its count is 0, and its  *)
(* count covers the requests that use it: the queue, the counts and the      *)
(* block tables of touch, free_blocks, get_new_blocks and promote_on_miss.   *)
FreeIsUnused ==
    /\ \A i, j \in DOMAIN pool.queue : pool.queue[i] = pool.queue[j] => i = j
    /\ \A b \in Blocks : /\ b \in ToSet(pool.queue) <=> pool.ref[b] = 0
                         /\ Uses(b) <= pool.ref[b]

(* The map and the hashes of the blocks agree, and a block that answers for  *)
(* a hash holds what was computed under it, however often it was demoted,    *)
(* spilled and promoted on the way.                                          *)
CachedHoldsHash ==
    \A b \in Blocks, h \in Hashes :
        /\ b \in ToSet(pool.map[h]) <=> pool.hash[b] = h
        /\ pool.hash[b] = h => pool.bytes[b] = h

(* The tiers keep their books: an entry per hash in each, holding what was   *)
(* computed under it, the byte counter equal to what the store holds, and    *)
(* every tier within its limit (the disk but for one file that is larger).   *)
TiersKeepBooks ==
    /\ \A s \in {tiers.l2, tiers.disk} :
         /\ Cardinality(Keys(s)) = Len(s)
         /\ \A i \in DOMAIN s : s[i].data = s[i].key
    /\ \A h \in DOMAIN tiers.l1 : tiers.l1[h] = h /\ Size[h] <= tiers.slot
    /\ tiers.used = Bytes(tiers.l2) /\ tiers.used <= StoreCap
    /\ DOMAIN tiers.l1 # {} => Cardinality(DOMAIN tiers.l1) <= Slots(tiers)
    /\ tiers.cap > 0 => Bytes(tiers.disk) <= tiers.cap \/ Len(tiers.disk) = 1

(* While a request runs, the full blocks it has are not rewritten and keep   *)
(* their places: no eviction, promotion or allocation for another takes one. *)
RunningKeepsBlocks ==
    [][\A r \in Requests :
         table[r] # <<>> /\ table'[r] # <<>> =>
            \A i \in DOMAIN text[r] : /\ table'[r][i] = table[r][i]
                                      /\ pool'.bytes[table[r][i]] = pool.bytes[table[r][i]]]_vars

(* With a disk tier that never evicts, what was cached is on the GPU, in the *)
(* store or in a file until the cache is reset; only an entry larger than    *)
(* the whole store is lost when it is evicted.                               *)
NothingForgotten ==
    DiskOn /\ tiers.cap = 0 =>
        \A h \in known : \/ pool.map[h] # <<>>
                         \/ h \in Keys(tiers.l2) \cup Keys(tiers.disk)
                         \/ Size[h] > StoreCap

(* find_longest_cache_hit returns "the longest cache hit prefix of the       *)
(* blocks": block i of a running request holds block i of its text.          *)
TablesHoldTexts ==
    \A r \in Requests : \A i \in DOMAIN text[r] :
        pool.bytes[table[r][i]] = text[r][i]

(* Without requests every block is free again, which is what                 *)
(* reset_prefix_cache waits for: only "the null block is always marked as    *)
(* used".                                                                    *)
IdleIsFree == (\A r \in Requests : table[r] = <<>>) => Free(Memory) = Cardinality(Blocks)
=============================================================================
