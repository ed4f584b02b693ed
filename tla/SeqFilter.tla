----------------------------- MODULE SeqFilter -----------------------------
(* The list comprehension [x for x in s if x in S], as a recursive function, *)
(* whose definition the provers can expand.  FoldFacts says what it keeps.   *)
EXTENDS Naturals, Sequences

Kept(s, S) ==
    LET kept[i \in 0 .. Len(s)] ==
            IF i = 0 THEN <<>>
            ELSE IF s[i] \in S THEN Append(kept[i - 1], s[i])
            ELSE kept[i - 1]
    IN  kept[Len(s)]
=============================================================================
