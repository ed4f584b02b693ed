---------------------------- MODULE MCApplyLoop ----------------------------
(***************************************************************************)
(* Instances of ApplyLoop.  Three target files and four patches:           *)
(*   A on f, in the manifest; B on f, whose anchor A's replacement makes;  *)
(*   C on g, in the manifest; D on h.                                      *)
(* The wheel of v2 has B's fix merged upstream ("q" is its drift marker)   *)
(* and no g.                                                               *)
(***************************************************************************)
EXTENDS ApplyLoop

Edit(anchor, repl, required) ==
  [anchor |-> anchor, repl |-> repl, required |-> required, merged |-> {}, abort |-> FALSE]

MCPatch ==
  [A |-> [file |-> "f", marker |-> "mA", drift |-> {}, mapped |-> TRUE,
          subs |-> <<Edit(<<"x">>, <<"xa">>, TRUE)>>],
   B |-> [file |-> "f", marker |-> "mB", drift |-> {"q"}, mapped |-> FALSE,
          subs |-> <<Edit(<<"xa", "y">>, <<"xa", "yb">>, TRUE),
                     Edit(<<"n">>, <<"nb">>, FALSE)>>],
   C |-> [file |-> "g", marker |-> "mC", drift |-> {}, mapped |-> TRUE,
          subs |-> <<Edit(<<"z">>, <<"zc">>, TRUE), Edit(<<"w">>, <<"wc">>, FALSE)>>],
   D |-> [file |-> "h", marker |-> "mD", drift |-> {}, mapped |-> FALSE,
          subs |-> <<Edit(<<"v">>, <<"vd">>, TRUE)>>]]

MCABC      == {"A", "B", "C"}
MCABD      == {"A", "B", "D"}
MCFG       == {"f", "g"}
MCFH       == {"f", "h"}
MCPatchABC == [pt \in MCABC |-> MCPatch[pt]]
MCPatchABD == [pt \in MCABD |-> MCPatch[pt]]

MCWheel ==
  [v1 |-> [f |-> <<"x", "y">>, g |-> <<"z">>, h |-> <<"v">>],
   v2 |-> [f |-> <<"x", "q">>, g |-> NoFile, h |-> <<"v">>]]

MCWheelFG == [v \in {"v1", "v2"} |-> [f \in MCFG |-> MCWheel[v][f]]]
MCWheelFH == [v \in {"v1", "v2"} |-> [f \in MCFH |-> MCWheel[v][f]]]

MCPins     == {"v1", "v2"}
MCOnlyV1   == {"v1"}
MCReadOnly == {"h"}
MCNone     == {}

MCTwoFiles == <<"A", "B", "C">>
MCReversed == <<"B", "A", "D">>

Symmetric  == Permutations(Procs)

(* The hypotheses of the proofs about markers and whole files. *)
ASSUME MarkersSurvive
ASSUME ManifestsSpliceable
=============================================================================
