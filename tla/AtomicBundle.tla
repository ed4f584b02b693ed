---------------------------- MODULE AtomicBundle ----------------------------
(***************************************************************************)
(* What a bundle promises (sndr/kernel/multi_file.py:5-6, "either all      *)
(* succeed or none"; sndr/bundles/_common.py:10-11, a patch without a      *)
(* target is dropped): seen from outside a run, the target files change    *)
(* all at once, and then the marker of every patch that has a target is in *)
(* its file, or not at all.  A disturbed run promises nothing.             *)
(***************************************************************************)
CONSTANTS
  Files, Patches,
  Missing,           \* the content of a file that does not exist
  FileOf, MarkerOf,  \* target and marker of each patch
  Holds(_, _)        \* the content has the marker

VARIABLES
  content,    \* of each file
  outcome,    \* of the last run: none, applied, skipped or failed
  disturbed   \* an I/O error or a crash hit the last run

vars == <<content, outcome, disturbed>>

Complete(c) ==
  LET present == {pt \in Patches : c[FileOf[pt]] # Missing}
  IN  present # {} /\ \A pt \in present : Holds(c[FileOf[pt]], MarkerOf[pt])

Init ==
  /\ outcome = "none" /\ ~disturbed
  /\ content = [f \in Files |-> content[f]]

Begin == outcome' = "none" /\ ~disturbed' /\ UNCHANGED content

Succeed ==
  /\ ~disturbed /\ ~disturbed'
  /\ outcome = "none" /\ outcome' = "applied"
  /\ Complete(content')
  /\ \A f \in Files : (\A pt \in Patches : FileOf[pt] # f) => content'[f] = content[f]
  /\ content' = [f \in Files |-> content'[f]]

Refuse ==
  /\ ~disturbed /\ ~disturbed'
  /\ outcome = "none" /\ outcome' \in {"skipped", "failed"}
  /\ UNCHANGED content

Disturb == disturbed'

Next == Begin \/ Succeed \/ Refuse \/ Disturb

Spec == Init /\ [][Next]_vars
=============================================================================
