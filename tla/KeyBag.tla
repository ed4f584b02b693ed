------------------------------- MODULE KeyBag -------------------------------
(* What an eviction policy does for the tier that owns the pages, after the  *)
(* methods of EvictionPolicy: it tracks keys, some of them twice; a touch    *)
(* makes a tracked key tracked once, an admission records the key, a victim  *)
(* is a tracked key and loses one entry, and a removed key is forgotten.  A  *)
(* policy that replaces on its own may drop an entry when it takes a key in. *)
EXTENDS Naturals

CONSTANTS Keys, NoKey

VARIABLES
    tracked,    \* the entries of each key
    call,       \* the last call, and its key or victim
    most,       \* entries a key may have
    replaces

Held == {k \in Keys : tracked[k] > 0}
Drop(k) == [tracked EXCEPT ![k] = @ - 1]
Kept == IF replaces THEN {tracked} \cup {Drop(k) : k \in Held} ELSE {tracked}

Init ==
    /\ tracked = [k \in Keys |-> 0] /\ call = <<"none", NoKey>>
    /\ most \in {1, 2} /\ replaces \in BOOLEAN

Does(op, k) == call' = <<op, k>> /\ UNCHANGED <<most, replaces>>

Record(k) ==
    \E t \in Kept, n \in 1 .. most :
        /\ n \in {t[k], t[k] + 1}
        /\ tracked' = [t EXCEPT ![k] = n]

(* A hit; a miss changes nothing, or is an admission where keys are replaced. *)
Touch(k) ==
    /\ \/ k \in Held /\ tracked' = [tracked EXCEPT ![k] = 1]
       \/ k \notin Held /\ ~replaces /\ UNCHANGED tracked
       \/ k \notin Held /\ replaces /\ Record(k)
    /\ Does("touch", k)

Admit(k) == Record(k) /\ Does("admit", k)

Evict ==
    \/ Held = {} /\ UNCHANGED tracked /\ Does("evict", NoKey)
    \/ \E k \in Held : tracked' = Drop(k) /\ Does("evict", k)

Remove(k) == tracked' = [tracked EXCEPT ![k] = 0] /\ Does("remove", k)

Next == Evict \/ \E k \in Keys : Touch(k) \/ Admit(k) \/ Remove(k)

Spec == Init /\ [][Next]_<<tracked, call, most, replaces>>
=============================================================================
