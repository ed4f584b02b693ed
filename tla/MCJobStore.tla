----------------------------- MODULE MCJobStore -----------------------------
(* Instances of JobStore for TLC: caps that two jobs exceed.   *)
EXTENDS JobStore
=============================================================================
