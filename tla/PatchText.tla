----------------------------- MODULE PatchText -----------------------------
(***************************************************************************)
(* The text algebra of the patch kernel (sndr/kernel/text_patch.py,        *)
(* sndr/kernel/multi_file.py, wiring/anchor_manifest.py): what one patcher *)
(* makes of the content of its target file, without any I/O.               *)
(*                                                                         *)
(* A text is a sequence of tokens; an anchor is a nonempty sequence of     *)
(* tokens, a marker is one token.  A patcher is a record                   *)
(*   file, marker, drift   the target, the idempotency marker and the set  *)
(*                         of upstream drift markers (TextPatcher)         *)
(*   mapped                it has a patch_id the anchor manifest covers    *)
(*   subs                  the sequence of its sub-patches, each a record  *)
(*                         anchor, repl, required, merged (set of          *)
(*                         upstream-merged markers), abort                 *)
(*                         (on_upstream_merge = "abort_bundle")            *)
(***************************************************************************)
EXTENDS Integers, Sequences, FiniteSets, SequencesExt, Folds

Marked(text, m) == m \in ToSet(text)

(* Positions at which the anchor starts in the text. *)
Occurrences(anchor, text) ==
  { i \in 1 .. (Len(text) - Len(anchor) + 1) :
      SubSeq(text, i, i + Len(anchor) - 1) = anchor }

Has(anchor, text) == Occurrences(anchor, text) # {}

(* str.find *)
First(anchor, text) == Min(Occurrences(anchor, text))

(* str.count(anchor) = 1: str.count counts occurrences that do not overlap. *)
Once(anchor, text) ==
  /\ Has(anchor, text)
  /\ \A i \in Occurrences(anchor, text) :
        i < First(anchor, text) + Len(anchor)

(* str.replace(anchor, repl, 1) *)
Replaced(sub, text) ==
  ReplaceSubSeqAt(First(sub.anchor, text), sub.repl, sub.anchor, text)

-----------------------------------------------------------------------------
(* Layer 5: the anchor scan.                                               *)

SubVerdict(sub, text) ==
  LET merged == \E m \in sub.merged : Marked(text, m)
      found  == Has(sub.anchor, text)
  IN  CASE merged /\ sub.abort                    -> "sub_upstream_merged_abort_bundle"
        [] merged /\ ~sub.abort                   -> "pass"
        [] ~merged /\ ~found /\ sub.required      -> "required_anchor_missing"
        [] ~merged /\ ~found /\ ~sub.required     -> "pass"
        [] ~merged /\ found /\ ~Once(sub.anchor, text) -> "ambiguous_anchor"
        [] ~merged /\ Once(sub.anchor, text)      -> "apply"

(* One round of the loop; a verdict other than "ok" ends it. *)
TrySub(acc, sub) ==
  LET v == SubVerdict(sub, acc.text)
  IN  CASE acc.verdict # "ok" \/ v = "pass" -> acc
        [] acc.verdict = "ok" /\ v = "apply" ->
             [acc EXCEPT !.text = Replaced(sub, acc.text), !.applied = Append(@, sub)]
        [] acc.verdict = "ok" /\ v \notin {"pass", "apply"} ->
             [acc EXCEPT !.verdict = v]

Layer5(patch, content) ==
  LET scan == FoldLeft(TrySub, [verdict |-> "ok", text |-> content, applied |-> <<>>],
                       patch.subs)
  IN  IF scan.verdict = "ok" /\ scan.applied = <<>>
      THEN [scan EXCEPT !.verdict = "no_applicable_sub_patches"]
      ELSE scan

-----------------------------------------------------------------------------
(* Layer 4.5: splices at the byte offsets the anchor manifest recorded for *)
(* the pristine file.                                                      *)

(* The sub-patches the manifest has an entry for. *)
Recorded(patch, pristine) ==
  { i \in DOMAIN patch.subs : Once(patch.subs[i].anchor, pristine) }

ManifestAbstains_NoRequired(patch, pristine, content) ==
  ~patch.mapped \/ content # pristine \/ Recorded(patch, pristine) = {}

(* Gates G2 and G4 to G7; G1 and G3 concern the process, not the text. *)
ManifestAbstains(patch, pristine, content) ==
  \/ ~patch.mapped
  \/ content # pristine
  \/ \E i \in DOMAIN patch.subs \ Recorded(patch, pristine) : patch.subs[i].required
  \/ Recorded(patch, pristine) = {}

SplicedLast_Ascending(patch, pristine, S) ==
  LET Off(i) == First(patch.subs[i].anchor, pristine)
  IN  CHOOSE i \in S : \A j \in S : Off(i) > Off(j) \/ (Off(i) = Off(j) /\ j <= i)

(* Splices are made in reverse offset order, equal offsets in patch order: *)
(* the one of S that is made last.                                         *)
SplicedLast(patch, pristine, S) ==
  LET Off(i) == First(patch.subs[i].anchor, pristine)
  IN  CHOOSE i \in S : \A j \in S : Off(i) < Off(j) \/ (Off(i) = Off(j) /\ j <= i)

(* The replacement at the offsets its anchor has in the pristine text. *)
Splice(sub, pristine, text) ==
  LET at   == First(sub.anchor, pristine)
      rest == at + Len(sub.anchor)
  IN  SubSeq(text, 1, Min({at - 1, Len(text)})) \o sub.repl \o SubSeq(text, rest, Len(text))

ManifestText(patch, pristine) ==
  MapThenFoldSet(LAMBDA i, text : Splice(patch.subs[i], pristine, text), pristine,
                 LAMBDA i : i,
                 LAMBDA S : SplicedLast(patch, pristine, S),
                 Recorded(patch, pristine))

(* The sub-patches applied, in patch order. *)
Spliced(patch, pristine) ==
  LET Listed(acc, i) ==
        IF i \in Recorded(patch, pristine) THEN Append(acc, patch.subs[i]) ELSE acc
  IN  FoldLeft(Listed, <<>>, [i \in DOMAIN patch.subs |-> i])

Manifest(patch, pristine) ==
  [verdict |-> "ok",
   text    |-> ManifestText(patch, pristine),
   applied |-> Spliced(patch, pristine)]

-----------------------------------------------------------------------------
(* What the manifest takes for granted and does not check (build_file_entry *)
(* records, it does not validate).                                          *)

Span(sub, pristine) ==
  First(sub.anchor, pristine) .. First(sub.anchor, pristine) + Len(sub.anchor) - 1

(* The recorded anchors do not overlap, and no replacement feeds the anchor *)
(* of a later sub-patch or, being empty, glues one.                         *)
Independent(patch, pristine) ==
  /\ \A i, j \in Recorded(patch, pristine) :
       i # j => Span(patch.subs[i], pristine) \cap Span(patch.subs[j], pristine) = {}
  /\ \A i, j \in DOMAIN patch.subs :
       i < j => ToSet(patch.subs[j].anchor) \cap ToSet(patch.subs[i].repl) = {}
  /\ \A i \in DOMAIN patch.subs : patch.subs[i].repl # <<>>

(* What the manifest left out does not occur at all. *)
Unambiguous(patch, pristine) ==
  \A i \in DOMAIN patch.subs \ Recorded(patch, pristine) :
    ~Has(patch.subs[i].anchor, pristine)

NothingMerged(patch, text) ==
  \A i \in DOMAIN patch.subs : \A m \in patch.subs[i].merged : ~Marked(text, m)

(* No replacement holds what a later sub-patch takes for an upstream merge. *)
NothingFeigned(patch) ==
  \A i, j \in DOMAIN patch.subs :
    i < j => patch.subs[j].merged \cap ToSet(patch.subs[i].repl) = {}

Spliceable(patch, pristine) ==
  /\ Independent(patch, pristine)
  /\ Unambiguous(patch, pristine)
  /\ NothingMerged(patch, pristine)
  /\ NothingFeigned(patch)

-----------------------------------------------------------------------------
(* Layers 4.5 to 6: the text to write, or the reason not to.               *)

Rewrite(patch, pristine, content) ==
  IF ManifestAbstains(patch, pristine, content)
  THEN Layer5(patch, content)
  ELSE Manifest(patch, pristine)

(* Layer 6: the marker line goes on top unless the text starts with it. *)
Stamped(marker, text) ==
  IF text # <<>> /\ Head(text) = marker THEN text ELSE <<marker>> \o text

(* Layers 2 and 3: why the content needs no rewrite, or may not have one. *)
Precheck(patch, content) ==
  CASE Marked(content, patch.marker) -> "idempotent"
    [] ~Marked(content, patch.marker) /\ \E m \in patch.drift : Marked(content, m)
         -> "upstream_merged"
    [] ~Marked(content, patch.marker) /\ \A m \in patch.drift : ~Marked(content, m)
         -> "ok"

-----------------------------------------------------------------------------
(* MultiFilePatchTransaction._dry_run on one readable target: a sequential *)
(* preview that looks at anchors only.                                     *)

PreviewSub_Unchanged(acc, sub) ==
  [acc EXCEPT !.ok = @ /\ (sub.required => Once(sub.anchor, acc.text))]
PreviewSub(acc, sub) ==
  LET found == Has(sub.anchor, acc.text)
  IN  [ok   |-> acc.ok /\ (sub.required => Once(sub.anchor, acc.text)),
       text |-> IF acc.ok /\ found THEN Replaced(sub, acc.text) ELSE acc.text]

DryRunOk(patch, content) ==
  \/ Marked(content, patch.marker)
  \/ FoldLeft(PreviewSub, [ok |-> TRUE, text |-> content], patch.subs).ok
=============================================================================
