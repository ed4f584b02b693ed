---------------------------- MODULE MCPatchText ----------------------------
(***************************************************************************)
(* Bounded inputs for PatchTextCheck: all patchers of two sub-patches over *)
(* a few anchors and replacements, each under its own record for a name,   *)
(* and all short texts as the wheels of as many versions, each recorded in *)
(* the anchor manifest and the shortest ones unrecorded too.               *)
(***************************************************************************)
EXTENDS PatchTextCheck

MCAnchors == {<<"a">>, <<"b">>, <<"a", "b">>, <<"b", "a">>}
MCRepls   == {<<>>, <<"a">>, <<"c", "b">>, <<"c", "u">>}
MCTexts   == UNION {[1 .. n -> {"a", "b"}] : n \in 1 .. 4}
             \cup UNION {[1 .. n -> {"a", "b", "u"}] : n \in 1 .. 3}
MCSub     == [anchor : MCAnchors, repl : MCRepls, required : BOOLEAN,
              merged : {{}, {"u"}}, abort : {FALSE}]
MCPatches == {[file |-> "f", marker |-> "k", drift |-> {}, mapped |-> TRUE,
               subs |-> subs] : subs \in [1 .. 2 -> MCSub]}
MCPatch   == [pt \in MCPatches |-> pt]
MCPins    == [text : MCTexts, recorded : {TRUE}]
             \cup [text : UNION {[1 .. n -> {"a", "b"}] : n \in 1 .. 3}, recorded : {FALSE}]
MCWheel   == [v \in MCPins |-> [f \in {"f"} |-> v.text]]
MCManifestPins == {v \in MCPins : v.recorded}
MCNone    == {}

(* The hypothesis of the proofs about upstream-merged markers. *)
ASSUME MergedSurvive
=============================================================================
