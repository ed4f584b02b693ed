--------------------------- MODULE MCTierManager ---------------------------
(* Small tiers: a text page, a page of an image span, a page of a group    *)
(* that may turn out to be Mamba state, and one block of a layer.          *)
EXTENDS TierManager, TLC

MCGroup    == [k \in {"text", "image", "state"} |->
                 IF k = "state" THEN "mamba" ELSE "attn"]
MCMm       == {"image"}
MCThree    == {"text", "image", "state"}
MCView     == {"block"}
MCNone     == {}
MCFull     == {{"text", "image", "state"}}
MCMayRaise == {{}, {"text"}}
MCSymmetry == Permutations(Slots)
=============================================================================
