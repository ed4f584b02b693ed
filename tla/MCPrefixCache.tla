--------------------------- MODULE MCPrefixCache ---------------------------
(* Two prompts that share their first block and one of their own.          *)
EXTENDS PrefixCache, TLC

MCSize      == "a" :> 1 @@ "b" :> 1 @@ "c" :> 2
MCTexts     == {<<"a">>, <<"a", "b">>, <<"c">>}
=============================================================================
