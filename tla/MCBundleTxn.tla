---------------------------- MODULE MCBundleTxn ----------------------------
(***************************************************************************)
(* Instances of BundleTxn: a bundle of A and B on f and of C on g.  What   *)
(* is installed decides how far it gets:                                   *)
(*   clean     everything applies                                          *)
(*   merged    C's drift marker is in g, next to its anchor                *)
(*   moved     C's anchor is gone                                          *)
(*   clash     A's optional edit takes away the anchor of B, which B's dry *)
(*             run, before A's write, still finds                          *)
(*   half      C was applied before                                        *)
(*   gone      g does not exist: C is dropped                              *)
(*   bare      neither file exists                                         *)
(***************************************************************************)
EXTENDS BundleTxn

Edit(anchor, repl) ==
  [anchor |-> anchor, repl |-> repl, required |-> TRUE, merged |-> {}, abort |-> FALSE]

MCPatch ==
  [A |-> [file |-> "f", marker |-> "mA", drift |-> {}, mapped |-> TRUE,
          subs |-> <<Edit(<<"x">>, <<"xa">>),
                    [Edit(<<"y", "t">>, <<"t">>) EXCEPT !.required = FALSE]>>],
   B |-> [file |-> "f", marker |-> "mB", drift |-> {}, mapped |-> TRUE,
          subs |-> <<Edit(<<"y">>, <<"yb">>)>>],
   C |-> [file |-> "g", marker |-> "mC", drift |-> {"q"}, mapped |-> FALSE,
          subs |-> <<Edit(<<"z">>, <<"zc">>)>>]]

MCFiles   == {"f", "g"}
MCPatches == {"A", "B", "C"}
MCBundle  == <<"A", "B", "C">>

F == [clean |-> <<"x", "y">>, merged |-> <<"x", "y">>, moved |-> <<"x", "y">>,
      clash |-> <<"x", "y", "t">>, half |-> <<"x", "y">>, gone |-> <<"x", "y">>,
      bare  |-> NoFile]
G == [clean |-> <<"z">>, merged |-> <<"z", "q">>, moved |-> <<"k">>, clash |-> <<"z">>,
      half  |-> <<"mC", "zc">>, gone |-> NoFile, bare |-> NoFile]

MCPins   == DOMAIN G
MCRaced  == {"clean"}
MCNone   == {}
MCWheel  == [v \in MCPins |-> [f |-> F[v], g |-> G[v]]]

(* The hypothesis of the proofs about markers. *)
ASSUME MarkersSurvive
=============================================================================
