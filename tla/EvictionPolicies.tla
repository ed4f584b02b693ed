-------------------------- MODULE EvictionPolicies --------------------------
(* The eviction policies of eviction_policies.py: LRU, 2Q and ARC.  A policy *)
(* runs under the lock of its TierManager, so a call is one step; its dicts  *)
(* are sequences of distinct keys in their order.  TierManager admits a key  *)
(* whether it is tracked or not.                                             *)
EXTENDS Integers, Sequences

CONSTANTS
    Keys,
    Kinds,      \* the policies a tier may be configured with
    Capacity,   \* of ARC
    NoKey

ASSUME PolicyAssumption ==
    /\ Kinds \subseteq {"lru", "2q", "arc"}
    /\ Capacity \in Nat \ {0}
    /\ NoKey \notin Keys

(* once and often: _data of LRU is once; 2Q has _a1 and _am; ARC has _t1 and *)
(* _t2, the ghosts _b1 and _b2 of the keys that left each, and p.            *)
VARIABLES
    kind,
    once, often, ghost1, ghost2, p,
    call        \* the last call, and its key or the victim it returned

queues == <<once, often, ghost1, ghost2, p>>
vars == <<kind, once, often, ghost1, ghost2, p, call>>

In(k, s) == \E i \in DOMAIN s : s[i] = k
Tracked(s) == {s[i] : i \in DOMAIN s}
Live == Tracked(once) \cup Tracked(often)

(* pop(key, None), d[key] = None, and move_to_end after it *)
Without(s, k) ==
    LET i == CHOOSE i \in DOMAIN s : s[i] = k
    IN  IF In(k, s) THEN [j \in 1 .. Len(s) - 1 |-> IF j < i THEN s[j] ELSE s[j + 1]] ELSE s
With(s, k) == IF In(k, s) THEN s ELSE Append(s, k)
Warmest(s, k) == Append(Without(s, k), k)

Larger(a, b) == IF a > b THEN a ELSE b
Smaller(a, b) == IF a < b THEN a ELSE b

Init ==
    /\ kind \in Kinds
    /\ once = <<>> /\ often = <<>> /\ ghost1 = <<>> /\ ghost2 = <<>>
    /\ p = 0 /\ call = <<"none", NoKey>>

(***************************************************************************)
(* LRU and 2Q                                                              *)
(***************************************************************************)

LruTouch(k) ==
    /\ once' = IF In(k, once) THEN Warmest(once, k) ELSE once
    /\ UNCHANGED <<often, ghost1, ghost2, p>>

(* A bug: a key that is hit again stays on probation too. *)
TwoQueueTouch_KeepsA1(k) ==
    /\ often' = IF In(k, once) \/ In(k, often) THEN Warmest(often, k) ELSE often
    /\ UNCHANGED <<once, ghost1, ghost2, p>>

TwoQueueTouch(k) ==
    /\ once' = Without(once, k)
    /\ often' = IF In(k, once) \/ In(k, often) THEN Warmest(often, k) ELSE often
    /\ UNCHANGED <<ghost1, ghost2, p>>

(* admit of LRU, and of 2Q, where new keys are on probation *)
PlainAdmit(k) ==
    /\ once' = Warmest(once, k)
    /\ UNCHANGED <<often, ghost1, ghost2, p>>

PlainEvict ==
    \/ /\ once # <<>>
       /\ once' = Tail(once) /\ call' = <<"evict", Head(once)>>
       /\ UNCHANGED <<often, ghost1, ghost2, p>>
    \/ /\ once = <<>> /\ often # <<>>
       /\ often' = Tail(often) /\ call' = <<"evict", Head(often)>>
       /\ UNCHANGED <<once, ghost1, ghost2, p>>

(***************************************************************************)
(* ARC                                                                     *)
(***************************************************************************)

Now == [t1 |-> once, t2 |-> often, b1 |-> ghost1, b2 |-> ghost2]
Becomes(q) ==
    /\ once' = q.t1 /\ often' = q.t2
    /\ ghost1' = q.b1 /\ ghost2' = q.b2

(* _replace(k): a key goes to the ghosts of its list. *)
Replaced(q, k, split) ==
    IF /\ q.t1 # <<>>
       /\ \/ In(k, q.b2) /\ Len(q.t1) = split
          \/ Len(q.t1) > split
    THEN [q EXCEPT !.t1 = Tail(@), !.b1 = Warmest(@, Head(q.t1))]
    ELSE IF q.t2 # <<>>
         THEN [q EXCEPT !.t2 = Tail(@), !.b2 = Warmest(@, Head(q.t2))]
         ELSE q

Total(q) == Len(q.t1) + Len(q.t2) + Len(q.b1) + Len(q.b2)
DropFirst(s) == IF s = <<>> THEN s ELSE Tail(s)

(* A bug: the four lists overflow by one before anything goes. *)
RoomFor_Late(q, k) ==
    IF Len(q.t1) + Len(q.b1) = Capacity
    THEN IF Len(q.t1) < Capacity
         THEN Replaced([q EXCEPT !.b1 = DropFirst(@)], k, p)
         ELSE [q EXCEPT !.t1 = DropFirst(@)]
    ELSE IF Total(q) > Capacity
         THEN Replaced(IF Total(q) = 2 * Capacity THEN [q EXCEPT !.b2 = DropFirst(@)] ELSE q,
                       k, p)
         ELSE q

(* admit, before the key enters T1: T1 and its ghosts fill the capacity, or  *)
(* the four lists do, or nothing has to go.                                  *)
RoomFor(q, k) ==
    IF Len(q.t1) + Len(q.b1) = Capacity
    THEN IF Len(q.t1) < Capacity
         THEN Replaced([q EXCEPT !.b1 = DropFirst(@)], k, p)
         ELSE [q EXCEPT !.t1 = DropFirst(@)]
    ELSE IF Total(q) >= Capacity
         THEN Replaced(IF Total(q) = 2 * Capacity THEN [q EXCEPT !.b2 = DropFirst(@)] ELSE q,
                       k, p)
         ELSE q

ArcAdmit(k) ==
    /\ LET q == RoomFor(Now, k) IN Becomes([q EXCEPT !.t1 = Warmest(@, k)])
    /\ UNCHANGED p

(* A hit on a ghost moves the split towards its list and takes the key back. *)
HitGhost1(k) ==
    LET up == Larger(1, Len(ghost2) \div Larger(Len(ghost1), 1))
        split == Smaller(Capacity, p + up)
        q == Replaced(Now, k, split)
    IN  /\ p' = split
        /\ Becomes([q EXCEPT !.b1 = Without(@, k), !.t2 = Warmest(@, k)])
HitGhost2(k) ==
    LET down == Larger(1, Len(ghost1) \div Larger(Len(ghost2), 1))
        split == Larger(0, p - down)
        q == Replaced(Now, k, split)
    IN  /\ p' = split
        /\ Becomes([q EXCEPT !.b2 = Without(@, k), !.t2 = Warmest(@, k)])

(* touch: a hit in T1 or T2, on a ghost, or a miss, which is admitted. *)
ArcTouch(k) ==
    \/ /\ In(k, once) \/ In(k, often)
       /\ once' = Without(once, k)
       /\ often' = Warmest(often, k)
       /\ UNCHANGED <<ghost1, ghost2, p>>
    \/ /\ ~In(k, once) /\ ~In(k, often)
       /\ \/ In(k, ghost1) /\ HitGhost1(k)
          \/ ~In(k, ghost1) /\ In(k, ghost2) /\ HitGhost2(k)
          \/ ~In(k, ghost1) /\ ~In(k, ghost2) /\ ArcAdmit(k)

ArcEvict ==
    /\ \/ /\ once # <<>>
          /\ Len(once) > p \/ often = <<>>
          /\ once' = Tail(once) /\ call' = <<"evict", Head(once)>>
          /\ ghost1' = With(ghost1, Head(once))
          /\ UNCHANGED <<often, ghost2>>
       \/ /\ ~(once # <<>> /\ (Len(once) > p \/ often = <<>>))
          /\ often # <<>>
          /\ often' = Tail(often) /\ call' = <<"evict", Head(often)>>
          /\ ghost2' = With(ghost2, Head(often))
          /\ UNCHANGED <<once, ghost1>>
    /\ UNCHANGED p

(***************************************************************************)
(* The calls                                                               *)
(***************************************************************************)

Touch(k) ==
    /\ CASE kind = "lru" -> LruTouch(k)
         [] kind = "2q"  -> TwoQueueTouch(k)
         [] kind = "arc" -> ArcTouch(k)
    /\ call' = <<"touch", k>>
    /\ UNCHANGED kind

Admit(k) ==
    /\ IF kind = "arc" THEN ArcAdmit(k) ELSE PlainAdmit(k)
    /\ call' = <<"admit", k>>
    /\ UNCHANGED kind

Evict ==
    /\ IF Live = {} THEN call' = <<"evict", NoKey>> /\ UNCHANGED queues
       ELSE IF kind = "arc" THEN ArcEvict ELSE PlainEvict
    /\ UNCHANGED kind

Remove(k) ==
    /\ once' = Without(once, k) /\ often' = Without(often, k)
    /\ ghost1' = Without(ghost1, k) /\ ghost2' = Without(ghost2, k)
    /\ call' = <<"remove", k>>
    /\ UNCHANGED <<kind, p>>

Next == Evict \/ \E k \in Keys : Touch(k) \/ Admit(k) \/ Remove(k)

Spec == Init /\ [][Next]_vars

(***************************************************************************)
(* Properties                                                              *)
(***************************************************************************)

(* "Capacity c bounds T1+T2": however touches, admissions, forced evictions  *)
(* and removals follow one another, ARC holds no more than its capacity, and *)
(* T1 with its ghosts and all four lists stay within c and 2c; p is a split  *)
(* of the capacity.  The tests of admit are equalities: one step past a      *)
(* bound and nothing would be evicted again.                                 *)
ArcWithinCapacity ==
    /\ Len(once) + Len(often) <= Capacity
    /\ Len(once) + Len(ghost1) <= Capacity
    /\ Len(once) + Len(often) + Len(ghost1) + Len(ghost2) <= 2 * Capacity
    /\ p \in 0 .. Capacity
CapacityHolds == kind = "arc" => ArcWithinCapacity

(* Whatever the calls before it, each call of each policy does to the        *)
(* entries of the keys what TierManager makes it for: a victim was tracked   *)
(* and loses one entry, None means that nothing is tracked, a removed key is *)
(* gone, a hit leaves one entry, and an entry is lost otherwise only when    *)
(* ARC replaces it, one at a time.                                           *)
Entries == [k \in Keys |-> (IF In(k, once) THEN 1 ELSE 0) + (IF In(k, often) THEN 1 ELSE 0)]
Abstract == INSTANCE KeyBag WITH
    tracked <- Entries, most <- (IF kind = "lru" THEN 1 ELSE 2), replaces <- (kind = "arc")
IsKeyBag == Abstract!Spec
=============================================================================
