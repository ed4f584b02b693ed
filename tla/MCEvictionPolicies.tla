------------------------- MODULE MCEvictionPolicies -------------------------
(* Interchangeable keys, as many as ARC remembers.                           *)
EXTENDS EvictionPolicies, TLC

MCSymmetry == Permutations(Keys)
=============================================================================
