--------------------------- MODULE PatchTextCheck ---------------------------
(***************************************************************************)
(* Bounded check of the text algebra: every patcher of a set is called on  *)
(* every pristine text of a set, one call each, as far as its load, where  *)
(* TextPatcher states what the manifest fast path, the anchor scan,        *)
(* validate() and the dry run of a transaction must agree on.              *)
(***************************************************************************)
EXTENDS TextPatcher

Next == \E p \in Procs : (\E pt \in Patches : Begin(p, pt)) \/ Layer0(p)

Spec == PatcherInit /\ [][Next]_patcherVars
=============================================================================
