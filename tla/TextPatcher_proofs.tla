------------------------- MODULE TextPatcher_proofs -------------------------
(***************************************************************************)
(* Lemmas about the text algebra and about one step of a call of           *)
(* TextPatcher.apply(), for any patch, file, process and version: what     *)
(* the two rewriting paths make are texts, and keep the markers they may   *)
(* not lose; where the recorded anchors are independent they agree, and    *)
(* neither leaves out what is required; the dry run foretells the commit;  *)
(* each step keeps the types, and, of a call that nobody else's writes     *)
(* disturb, that the cache tells the truth and that what it writes was     *)
(* made of what the file holds.  ApplyLoop_proofs and BundleTxn_proofs     *)
(* build on them.                                                          *)
(***************************************************************************)
EXTENDS TextPatcher, FoldFacts, SequenceTheorems

(* The least of a nonempty set of naturals. *)
LEMMA MinIsIn ==
  ASSUME NEW S \in SUBSET Nat, S # {}
  PROVE  Min(S) \in S /\ \A k \in S : Min(S) <= k
<1>1. PICK k \in S : \A j \in S : k <= j
  <2> DEFINE R == {ss \in Nat \X Nat : ss[1] < ss[2]}
  <2>1. IsWellFoundedOn(R, Nat)
    BY NatLessThanWellFounded DEF OpToRel
  <2>2. \E x \in S : \A y \in S : ~(<<y, x>> \in R)
    BY <2>1, WFMin
  <2>3. PICK x \in S : \A y \in S : ~(y < x)
    BY <2>2
  <2> QED
    BY <2>3
<1> QED
  BY <1>1 DEF Min

(* A marker that is in both parts or not in what is cut out survives. *)
LEMMA ConcatMarked ==
  ASSUME NEW T, NEW s \in Seq(T), NEW t \in Seq(T), NEW m
  PROVE  /\ s \o t \in Seq(T)
         /\ Marked(s \o t, m) <=> (Marked(s, m) \/ Marked(t, m))
<1>1. /\ s \o t \in Seq(T) /\ Len(s \o t) = Len(s) + Len(t)
      /\ \A i \in 1 .. Len(s) + Len(t) : (s \o t)[i] =
                     IF i <= Len(s) THEN s[i] ELSE t[i - Len(s)]
  BY ConcatProperties
<1>2. ASSUME Marked(s, m) PROVE Marked(s \o t, m)
  <2>1. PICK i \in 1 .. Len(s) : s[i] = m
    BY <1>2 DEF Marked, ToSet
  <2>2. i \in 1 .. Len(s) + Len(t) /\ (s \o t)[i] = m
    BY <1>1, <2>1
  <2> QED
    BY <1>1, <2>2 DEF Marked, ToSet
<1>3. ASSUME Marked(t, m) PROVE Marked(s \o t, m)
  <2>1. PICK i \in 1 .. Len(t) : t[i] = m
    BY <1>3 DEF Marked, ToSet
  <2>2. Len(s) + i \in 1 .. Len(s) + Len(t) /\ ~(Len(s) + i <= Len(s)) /\ (Len(s) + i) - Len(s) = i
    BY <2>1
  <2>3. (s \o t)[Len(s) + i] = m
    BY <1>1, <2>1, <2>2
  <2> QED
    BY <1>1, <2>2, <2>3 DEF Marked, ToSet
<1>4. ASSUME Marked(s \o t, m) PROVE Marked(s, m) \/ Marked(t, m)
  <2>1. PICK i \in 1 .. Len(s) + Len(t) : (s \o t)[i] = m
    BY <1>1, <1>4 DEF Marked, ToSet
  <2>2. CASE i <= Len(s)
    BY <1>1, <2>1, <2>2 DEF Marked, ToSet
  <2>3. CASE ~(i <= Len(s))
    <3>1. i - Len(s) \in 1 .. Len(t) /\ t[i - Len(s)] = m
      BY <1>1, <2>1, <2>3
    <3> QED
      BY <3>1 DEF Marked, ToSet
  <2> QED
    BY <2>2, <2>3
<1> QED
  BY <1>1, <1>2, <1>3, <1>4

LEMMA SubSeqText ==
  ASSUME NEW T, NEW s \in Seq(T), NEW m \in Nat \ {0}, NEW n \in Int, n <= Len(s)
  PROVE  /\ SubSeq(s, m, n) \in Seq(T)
         /\ Len(SubSeq(s, m, n)) = IF m <= n THEN n - m + 1 ELSE 0
         /\ \A i \in 1 .. n - m + 1 : SubSeq(s, m, n)[i] = s[m + i - 1]
<1>1. \A i \in m .. n : s[i] \in T
  BY ElementOfSeq
<1> QED
  BY <1>1, SubSeqProperties

LEMMA FirstOccurs ==
  ASSUME NEW anchor, NEW t, Len(anchor) \in Nat, Len(t) \in Nat, Has(anchor, t)
  PROVE  First(anchor, t) \in Occurrences(anchor, t)
<1>1. Occurrences(anchor, t) \in SUBSET Nat
  BY DEF Occurrences
<1> QED
  BY <1>1, MinIsIn DEF Has, First

(* Replacing the first occurrence of an anchor keeps every marker that is  *)
(* not part of the anchor, or is part of the replacement too.              *)
LEMMA ReplacedText ==
  ASSUME NEW T, NEW t \in Seq(T), NEW sub, sub.anchor \in Seq(T), sub.repl \in Seq(T),
         Has(sub.anchor, t)
  PROVE  /\ Replaced(sub, t) \in Seq(T)
         /\ \A m : Marked(t, m) /\ Keeps(sub, m) => Marked(Replaced(sub, t), m)
<1> DEFINE a == sub.anchor
           i == First(a, t)
           pre == SubSeq(t, 1, i - 1)
           suf == SubSeq(t, i + Len(a), Len(t))
<1>1. Len(a) \in Nat /\ Len(t) \in Nat
  BY LenProperties
<1>2. /\ i \in 1 .. (Len(t) - Len(a) + 1)
      /\ SubSeq(t, i, i + Len(a) - 1) = a
  BY <1>1, FirstOccurs DEF Occurrences
<1> HIDE DEF i, a
<1>3. /\ pre \in Seq(T) /\ Len(pre) = i - 1
      /\ \A j \in 1 .. i - 1 : pre[j] = t[j]
  BY <1>1, <1>2, SubSeqText
<1>4. /\ suf \in Seq(T) /\ Len(suf) = Len(t) - (i + Len(a)) + 1
      /\ \A j \in 1 .. Len(t) - (i + Len(a)) + 1 : suf[j] = t[i + Len(a) + j - 1]
  BY <1>1, <1>2, SubSeqText
<1>5. Replaced(sub, t) = (pre \o sub.repl) \o suf
  BY DEF Replaced, ReplaceSubSeqAt, i, a
<1> HIDE DEF pre, suf
<1>6. pre \o sub.repl \in Seq(T)
  BY <1>3, ConcatMarked
<1>7. Replaced(sub, t) \in Seq(T)
  BY <1>4, <1>5, <1>6, ConcatMarked
<1>9. \A m : Marked(pre, m) => Marked(pre \o sub.repl, m)
  BY <1>3, ConcatMarked
<1>10. \A m : Marked(pre, m) \/ Marked(suf, m) => Marked(Replaced(sub, t), m)
  <2> DEFINE u == pre \o sub.repl
  <2> HIDE DEF u
  <2>1. \A m : Marked(u, m) \/ Marked(suf, m) => Marked(u \o suf, m)
    BY <1>4, <1>6, ConcatMarked DEF u
  <2> QED
    BY <1>5, <1>9, <2>1 DEF u
<1>11. \A m : Marked(sub.repl, m) => Marked(Replaced(sub, t), m)
  <2> DEFINE u == pre \o sub.repl
  <2>1. \A m : Marked(sub.repl, m) => Marked(u, m)
    BY <1>3, ConcatMarked
  <2> HIDE DEF u
  <2>2. \A m : Marked(u, m) => Marked(u \o suf, m)
    BY <1>4, <1>6, ConcatMarked DEF u
  <2> QED
    BY <1>5, <2>1, <2>2 DEF u
<1>8. ASSUME NEW m, Marked(t, m), Keeps(sub, m) PROVE Marked(Replaced(sub, t), m)
  <2>1. PICK j \in 1 .. Len(t) : t[j] = m
    BY <1>8 DEF Marked, ToSet
  <2>2. CASE j <= i - 1
    <3>1. Marked(pre, m)
      BY <1>2, <1>3, <2>1, <2>2 DEF Marked, ToSet
    <3> QED
      BY <1>10, <3>1
  <2>3. CASE i + Len(a) <= j
    <3>1. j - (i + Len(a)) + 1 \in 1 .. Len(t) - (i + Len(a)) + 1
      BY <1>1, <1>2, <2>1, <2>3
    <3>2. suf[j - (i + Len(a)) + 1] = m
      BY <1>1, <1>2, <1>4, <2>1, <3>1
    <3>3. Marked(suf, m)
      BY <1>4, <3>1, <3>2 DEF Marked, ToSet
    <3> QED
      BY <1>10, <3>3
  <2>4. CASE i <= j /\ j < i + Len(a)
    <3>1. /\ \A k \in 1 .. Len(a) : a[k] = t[i + k - 1]
      <4>1. \A k \in 1 .. (i + Len(a) - 1) - i + 1 : SubSeq(t, i, i + Len(a) - 1)[k] = t[i + k - 1]
        BY <1>1, <1>2, SubSeqText
      <4>2. (i + Len(a) - 1) - i + 1 = Len(a) /\ SubSeq(t, i, i + Len(a) - 1) = a
        BY <1>1, <1>2
      <4> HIDE DEF a
      <4> QED
        BY <4>1, <4>2
    <3>2. j - i + 1 \in 1 .. Len(a) /\ i + (j - i + 1) - 1 = j
      BY <1>1, <1>2, <2>4
    <3>3. a[j - i + 1] = m
      BY <2>1, <3>1, <3>2
    <3>4. a \in Seq(T)
      BY DEF a
    <3>5. Marked(a, m)
      BY <3>2, <3>3, <3>4, LenProperties DEF Marked, ToSet
    <3> QED
      BY <1>8, <1>11, <3>5 DEF Keeps, a
  <2> QED
    BY <1>1, <1>2, <2>1, <2>2, <2>3, <2>4
<1> QED
  BY <1>7, <1>8 DEF a

-----------------------------------------------------------------------------
(* Layer 5 as a chain of scans, one per sub-patch.                         *)

Verdicts == {"ok", "pass", "apply", "sub_upstream_merged_abort_bundle",
             "required_anchor_missing", "ambiguous_anchor"}
Scans == [verdict : Verdicts, text : Texts, applied : Seq(Subs)]

Unscanned(c) == [verdict |-> "ok", text |-> c, applied |-> <<>>]

LEMMA OnceHas ==
  ASSUME NEW a, NEW t, Once(a, t)
  PROVE  Has(a, t)
BY DEF Once

LEMMA TrySubText ==
  ASSUME TextAssumption, NEW acc \in Scans, NEW e \in Subs
  PROVE  /\ TrySub(acc, e) \in Scans
         /\ \A m : Marked(acc.text, m) /\ Keeps(e, m)
                     => Marked(TrySub(acc, e).text, m)
<1> DEFINE v == SubVerdict(e, acc.text)
<1>1. v \in Verdicts /\ (v = "apply" => Once(e.anchor, acc.text))
  <2> DEFINE merged == \E m \in e.merged : Marked(acc.text, m)
             found  == Has(e.anchor, acc.text)
             once   == Once(e.anchor, acc.text)
  <2>1. v = CASE merged /\ e.abort                -> "sub_upstream_merged_abort_bundle"
              [] merged /\ ~e.abort               -> "pass"
              [] ~merged /\ ~found /\ e.required  -> "required_anchor_missing"
              [] ~merged /\ ~found /\ ~e.required -> "pass"
              [] ~merged /\ found /\ ~once        -> "ambiguous_anchor"
              [] ~merged /\ once                  -> "apply"
    BY DEF SubVerdict
  <2>2. once => found
    BY OnceHas
  <2> HIDE DEF merged, found, once, v
  <2>3. v \in Verdicts /\ (v = "apply" => once)
    BY <2>1, <2>2 DEF Verdicts
  <2> QED
    BY <2>3 DEF once
<1> HIDE DEF v
<1>2. e.anchor \in Seq(Tokens) /\ e.repl \in Seq(Tokens) /\ acc.text \in Seq(Tokens)
  BY DEF TextAssumption, Texts, Scans
<1>3. CASE acc.verdict # "ok" \/ v = "pass"
  BY <1>3 DEF TrySub, v
<1>4. CASE acc.verdict = "ok" /\ v = "apply"
  <2>1. TrySub(acc, e) = [acc EXCEPT !.text = Replaced(e, acc.text), !.applied = Append(@, e)]
    BY <1>4 DEF TrySub, v
  <2>2. /\ Replaced(e, acc.text) \in Seq(Tokens)
        /\ \A m : Marked(acc.text, m) /\ Keeps(e, m) => Marked(Replaced(e, acc.text), m)
    BY <1>1, <1>2, <1>4, OnceHas, ReplacedText
  <2>3. Append(acc.applied, e) \in Seq(Subs)
    BY DEF Scans
  <2> QED
    BY <2>1, <2>2, <2>3 DEF Scans, Texts
<1>5. CASE acc.verdict = "ok" /\ v \notin {"pass", "apply"}
  BY <1>1, <1>5 DEF TrySub, v, Scans
<1> QED
  BY <1>3, <1>4, <1>5

LEMMA ScanChain ==
  ASSUME TextAssumption, NEW c \in Texts, NEW subs \in Seq(Subs)
  PROVE  \E h \in [0 .. Len(subs) -> Scans] :
           /\ h[0] = Unscanned(c)
           /\ \A k \in 1 .. Len(subs) : h[k] = TrySub(h[k - 1], subs[k])
           /\ h[Len(subs)] = FoldLeft(TrySub, Unscanned(c), subs)
<1> DEFINE n == Len(subs)
           base == Unscanned(c)
           S == 1 .. n
           ch == [s \in SUBSET S |-> Max(s)]
           f == [x \in S \X Scans |-> TrySub(x[2], subs[x[1]])]
           Def(g, s) == IF s = {} THEN base ELSE TrySub(g[s \ {Max(s)}], subs[Max(s)])
           iter == CHOOSE g : g = [s \in SUBSET S |-> Def(g, s)]
<1>1. n \in Nat /\ subs \in [S -> Subs] /\ DOMAIN subs = S /\ IsFiniteSet(S)
  BY LenProperties, FS_Interval
<1>2. base \in Scans
  <2>1. <<>> \in Seq(Subs)
    BY EmptySeq
  <2> QED
    BY <2>1 DEF Unscanned, Scans, Verdicts
<1>3. f \in [S \X Scans -> Scans]
  BY <1>1, TrySubText
<1>4. Chooses(ch, S) /\ \A s \in SUBSET S : s # {} => ch[s] = Max(s) /\ ch[s] \in s
  BY <1>1, MaxIsIn DEF Chooses
<1> HIDE DEF base, n
<1>5. PICK g : FoldsBy(g, Scans, base, S, ch, f)
  <2> HIDE DEF f, ch, S
  <2> QED
    BY <1>2, <1>3, <1>4, FoldByExists
<1>6. \A k \in S, a \in Scans : f[<<k, a>>] = TrySub(a, subs[k])
  OBVIOUS
<1> HIDE DEF f, ch
<1>7. \A s \in SUBSET S : g[s] = Def(g, s) /\ g[s] \in Scans
  <2>1. \A s \in SUBSET S : g[s] \in Scans
    BY <1>5 DEF FoldsBy
  <2>2. \A s \in SUBSET S : s # {} => g[s] = TrySub(g[s \ {Max(s)}], subs[Max(s)])
    BY <1>4, <1>5, <1>6, <2>1 DEF FoldsBy
  <2> QED
    BY <1>5, <2>1, <2>2 DEF FoldsBy
<1>8. g = [s \in SUBSET S |-> Def(g, s)]
  <2>1. g = [s \in SUBSET S |-> g[s]]
    BY <1>5 DEF FoldsBy
  <2> QED
    BY <1>7, <2>1
<1>9. iter = [s \in SUBSET S |-> Def(iter, s)]
  <2> HIDE DEF Def
  <2> QED
    BY <1>8
<1>10. FoldLeft(TrySub, base, subs) = iter[S]
  BY <1>1 DEF FoldLeft, MapThenFoldSet
<1>11. \A s \in SUBSET S : iter[s] = Def(iter, s)
  <2> HIDE DEF iter, Def
  <2> QED
    BY <1>9
<1> HIDE DEF iter
<1>12. \A s \in SUBSET S : iter[s] = g[s]
  <2>1. iter[{}] = base
    BY <1>11
  <2>2. \A s \in SUBSET S : s # {} /\ iter[s \ {ch[s]}] \in Scans
                             => iter[s] = f[<<ch[s], iter[s \ {ch[s]}]>>]
    <3> TAKE s \in SUBSET S
    <3> SUFFICES ASSUME s # {}, iter[s \ {ch[s]}] \in Scans
                 PROVE  iter[s] = f[<<ch[s], iter[s \ {ch[s]}]>>]
      OBVIOUS
    <3>1. ch[s] \in S /\ iter[s] = TrySub(iter[s \ {ch[s]}], subs[ch[s]])
      BY <1>4, <1>11
    <3> QED
      BY <1>6, <3>1
  <2>3. FollowsFold(iter, Scans, base, S, ch, f)
    BY <2>1, <2>2 DEF FollowsFold
  <2> HIDE DEF S
  <2> QED
    BY <1>4, <1>5, <2>3, FoldByIs
<1> DEFINE h == [k \in 0 .. n |-> g[1 .. k]]
<1>13. /\ \A k \in 1 .. n : 1 .. k # {} /\ 1 .. k \in SUBSET S
       /\ \A k \in 1 .. n : Max(1 .. k) = k /\ (1 .. k) \ {k} = 1 .. (k - 1)
       /\ 1 .. 0 = {}
  BY <1>1, MaxOfPrefix
<1>14. /\ h \in [0 .. n -> Scans]
       /\ h[0] = base
       /\ \A k \in 1 .. n : h[k] = TrySub(h[k - 1], subs[k])
       /\ h[n] = iter[S]
  <2>1. \A k \in 0 .. n : 1 .. k \in SUBSET S
    BY <1>1, <1>13
  <2>2. h \in [0 .. n -> Scans]
    BY <1>7, <2>1
  <2>3. h[0] = base
    <3>1. g[{}] = base
      BY <1>5 DEF FoldsBy
    <3>2. 0 \in 0 .. n
      BY <1>1
    <3>3. h[0] = g[1 .. 0]
      BY <3>2
    <3> QED
      BY <1>13, <3>1, <3>3
  <2>4. ASSUME NEW k \in 1 .. n PROVE h[k] = TrySub(h[k - 1], subs[k])
    <3>1. k - 1 \in 0 .. n /\ k \in 0 .. n
      BY <1>1
    <3>2. g[1 .. k] = TrySub(g[1 .. (k - 1)], subs[k])
      BY <1>7, <1>13
    <3> QED
      BY <3>1, <3>2
  <2>5. h[n] = iter[S]
    BY <1>1, <1>12
  <2> HIDE DEF h
  <2> QED
    BY <2>2, <2>3, <2>4, <2>5
<1> HIDE DEF h
<1> QED
  BY <1>10, <1>14 DEF n, base

(* What the scan makes of a text is a text; the markers it had stay, if    *)
(* every edit keeps them.                                                  *)
LEMMA Layer5Text ==
  ASSUME TextAssumption, NEW pt \in Patches, NEW c \in Texts
  PROVE  /\ Layer5(Patch[pt], c).text \in Texts
         /\ \A m : Marked(c, m) /\ (\A e \in Subs : Keeps(e, m))
                     => Marked(Layer5(Patch[pt], c).text, m)
<1> DEFINE subs == Patch[pt].subs
           n    == Len(subs)
           scan == FoldLeft(TrySub, Unscanned(c), subs)
<1>1. subs \in Seq(Subs) /\ n \in Nat
  BY LenProperties DEF TextAssumption
<1>2. PICK h \in [0 .. n -> Scans] :
             /\ h[0] = Unscanned(c)
             /\ \A k \in 1 .. n : h[k] = TrySub(h[k - 1], subs[k])
             /\ h[n] = scan
  BY <1>1, ScanChain
<1>3. scan \in Scans
  BY <1>1, <1>2
<1>4. ASSUME NEW m, Marked(c, m), \A e \in Subs : Keeps(e, m)
      PROVE  Marked(scan.text, m)
  <2> DEFINE R == {k \in 0 .. n : Marked(h[k].text, m)}
  <2>1. 0 \in R
    BY <1>1, <1>2, <1>4 DEF Unscanned
  <2>2. ASSUME NEW k \in 1 .. n, k - 1 \in R PROVE k \in R
    <3>1. subs[k] \in Subs
      BY <1>1, ElementOfSeq
    <3>2. k - 1 \in 0 .. n /\ h[k - 1] \in Scans /\ h[k] = TrySub(h[k - 1], subs[k])
      BY <1>1, <1>2
    <3> QED
      BY <1>4, <2>2, <3>1, <3>2, TrySubText
  <2> HIDE DEF R
  <2>3. 0 .. n \subseteq R
    BY <1>1, <2>1, <2>2, UpToInduction
  <2> QED
    BY <1>1, <1>2, <2>3 DEF R
<1>5. Layer5(Patch[pt], c).text = scan.text
  <2>1. Layer5(Patch[pt], c) = IF scan.verdict = "ok" /\ scan.applied = <<>>
                               THEN [scan EXCEPT !.verdict = "no_applicable_sub_patches"]
                               ELSE scan
    BY DEF Layer5, Unscanned
  <2> HIDE DEF scan
  <2> QED
    BY <1>3, <2>1 DEF Scans
<1> QED
  BY <1>3, <1>4, <1>5 DEF Scans

(* What the splices of the manifest make of the pristine text is a text. *)
LEMMA SpliceText ==
  ASSUME TextAssumption, NEW e \in Subs, NEW p \in Texts, Has(e.anchor, p), NEW t \in Texts
  PROVE  Splice(e, p, t) \in Texts
<1> DEFINE at   == First(e.anchor, p)
           rest == at + Len(e.anchor)
<1>1. /\ e.anchor \in Seq(Tokens) /\ e.repl \in Seq(Tokens)
      /\ p \in Seq(Tokens) /\ t \in Seq(Tokens)
      /\ Len(e.anchor) \in Nat /\ Len(p) \in Nat /\ Len(t) \in Nat
  BY LenProperties DEF TextAssumption, Texts
<1>2. at \in Nat \ {0} /\ rest \in Nat \ {0}
  BY <1>1, FirstOccurs DEF Occurrences
<1> HIDE DEF at, rest
<1> DEFINE ends == {at - 1, Len(t)}
           cut  == Min(ends)
<1>3. cut \in Nat /\ cut <= Len(t)
  <2>1. ends \in SUBSET Nat /\ ends # {} /\ Len(t) \in ends
    BY <1>1, <1>2
  <2> HIDE DEF ends
  <2> QED
    BY <2>1, MinIsIn
<1>7. Splice(e, p, t) = (SubSeq(t, 1, cut) \o e.repl) \o SubSeq(t, rest, Len(t))
  BY DEF Splice, at, rest
<1> HIDE DEF cut
<1>4. SubSeq(t, 1, cut) \in Seq(Tokens)
  BY <1>1, <1>3, SubSeqText
<1>6. SubSeq(t, rest, Len(t)) \in Seq(Tokens)
  BY <1>1, <1>2, SubSeqText
<1>5. SubSeq(t, 1, cut) \o e.repl \in Seq(Tokens)
  BY <1>1, <1>4, ConcatProperties
<1> QED
  BY <1>5, <1>6, <1>7, ConcatProperties DEF Texts

(* The splices go from the last offset to the first.                       *)
ManifestSteps(g, patch, p) ==
  /\ g \in [SUBSET Recorded(patch, p) -> Texts]
  /\ g[{}] = p
  /\ \A s \in SUBSET Recorded(patch, p) : s # {} =>
       LET m == SplicedLast(patch, p, s)
       IN  /\ m \in s
           /\ \A j \in s : First(patch.subs[m].anchor, p) <= First(patch.subs[j].anchor, p)
           /\ g[s] = Splice(patch.subs[m], p, g[s \ {m}])
  /\ ManifestText(patch, p) = g[Recorded(patch, p)]

LEMMA ManifestChain ==
  ASSUME TextAssumption, NEW pt \in Patches, NEW p \in Texts
  PROVE  \E g : ManifestSteps(g, Patch[pt], p)
<1> DEFINE subs == Patch[pt].subs
           S == Recorded(Patch[pt], p)
           ch == [s \in SUBSET S |-> SplicedLast(Patch[pt], p, s)]
           f == [x \in S \X Texts |-> Splice(subs[x[1]], p, x[2])]
           Def(g, s) == IF s = {} THEN p
                        ELSE Splice(subs[SplicedLast(Patch[pt], p, s)], p,
                                    g[s \ {SplicedLast(Patch[pt], p, s)}])
           iter == CHOOSE g : g = [s \in SUBSET S |-> Def(g, s)]
<1>1. /\ subs \in Seq(Subs) /\ Len(subs) \in Nat /\ DOMAIN subs = 1 .. Len(subs)
      /\ p \in Seq(Tokens) /\ Len(p) \in Nat
  BY LenProperties DEF TextAssumption, Texts
<1>2. /\ S \in SUBSET (1 .. Len(subs))
      /\ IsFiniteSet(S)
      /\ \A i \in S : subs[i] \in Subs /\ Has(subs[i].anchor, p)
  <2>1. S \in SUBSET (1 .. Len(subs)) /\ \A i \in S : Has(subs[i].anchor, p)
    BY <1>1, OnceHas DEF Recorded
  <2>2. IsFiniteSet(S)
    <3>1. IsFiniteSet(1 .. Len(subs))
      BY <1>1, FS_Interval
    <3> HIDE DEF S
    <3> QED
      BY <2>1, <3>1, FS_Subset
  <2> QED
    BY <1>1, <2>1, <2>2, ElementOfSeq
<1>3. \A i \in S : First(subs[i].anchor, p) \in Nat
  <2> TAKE i \in S
  <2>1. Len(subs[i].anchor) \in Nat
    BY <1>2, LenProperties DEF TextAssumption, Texts
  <2> QED
    BY <1>1, <1>2, <2>1, FirstOccurs DEF Occurrences
<1>4. \A s \in SUBSET S : s # {} =>
        /\ SplicedLast(Patch[pt], p, s) \in s
        /\ \A j \in s : First(subs[SplicedLast(Patch[pt], p, s)].anchor, p) <= First(subs[j].anchor, p)
  <2> SUFFICES ASSUME NEW s \in SUBSET S, s # {}
               PROVE  /\ SplicedLast(Patch[pt], p, s) \in s
                      /\ \A j \in s : First(subs[SplicedLast(Patch[pt], p, s)].anchor, p) <= First(subs[j].anchor, p)
    OBVIOUS
  <2> DEFINE Off(i) == First(subs[i].anchor, p)
             offs  == {Off(i) : i \in s}
             least == Min(offs)
             ties  == {i \in s : Off(i) = least}
  <2>1. offs \in SUBSET Nat /\ offs # {} /\ \A i \in s : Off(i) \in offs
    BY <1>3
  <2>8. least \in offs /\ \A k \in offs : least <= k
    <3> HIDE DEF offs
    <3> QED
      BY <2>1, MinIsIn
  <2>2. (\E i \in s : Off(i) = least) /\ \A i \in s : least <= Off(i)
    BY <2>1, <2>8
  <2>3. ties \in SUBSET (1 .. Len(subs)) /\ ties # {}
    BY <1>2, <2>2
  <2>4. Max(ties) \in ties /\ \A j \in ties : j <= Max(ties)
    BY <1>1, <2>3, MaxIsIn
  <2> HIDE DEF Off, least
  <2>5. \A j \in s : Off(Max(ties)) < Off(j) \/ (Off(Max(ties)) = Off(j) /\ j <= Max(ties))
    <3> TAKE j \in s
    <3>1. Off(j) \in Nat /\ least \in Nat /\ least <= Off(j) /\ Off(Max(ties)) = least
      BY <2>1, <2>2, <2>4, <2>8
    <3> QED
      BY <2>4, <3>1
  <2>6. \E i \in s : \A j \in s : Off(i) < Off(j) \/ (Off(i) = Off(j) /\ j <= i)
    BY <2>4, <2>5
  <2>7. SplicedLast(Patch[pt], p, s) =
          CHOOSE i \in s : \A j \in s : Off(i) < Off(j) \/ (Off(i) = Off(j) /\ j <= i)
    BY DEF SplicedLast, Off
  <2> DEFINE m == SplicedLast(Patch[pt], p, s)
  <2>9. m \in s /\ \A j \in s : Off(m) < Off(j) \/ (Off(m) = Off(j) /\ j <= m)
    BY <2>6, <2>7
  <2>10. \A j \in s : Off(j) \in Nat
    BY <1>3 DEF Off
  <2> HIDE DEF m
  <2>11. \A j \in s : Off(m) <= Off(j)
    BY <2>9, <2>10
  <2> QED
    BY <2>9, <2>11 DEF Off, m
<1>5. \A i \in S, t \in Texts : Splice(subs[i], p, t) \in Texts
  BY <1>2, SpliceText
<1> HIDE DEF S, subs
<1>6. /\ f \in [S \X Texts -> Texts]
      /\ \A i \in S, t \in Texts : f[<<i, t>>] = Splice(subs[i], p, t)
  BY <1>5
<1>7. Chooses(ch, S) /\ \A s \in SUBSET S : s # {} => ch[s] = SplicedLast(Patch[pt], p, s) /\ ch[s] \in s
  BY <1>2, <1>4 DEF Chooses
<1> HIDE DEF f, ch
<1>8. PICK g : FoldsBy(g, Texts, p, S, ch, f)
  BY <1>6, <1>7, FoldByExists
<1>9. \A s \in SUBSET S : g[s] = Def(g, s) /\ g[s] \in Texts
  <2>1. \A s \in SUBSET S : g[s] \in Texts
    BY <1>8 DEF FoldsBy
  <2>2. ASSUME NEW s \in SUBSET S, s # {} PROVE g[s] = Def(g, s)
    <3>1. ch[s] \in S /\ g[s \ {ch[s]}] \in Texts /\ g[s] = f[<<ch[s], g[s \ {ch[s]}]>>]
      BY <1>7, <1>8, <2>1, <2>2 DEF FoldsBy
    <3> QED
      BY <1>6, <1>7, <2>2, <3>1
  <2>3. g[{}] = Def(g, {})
    BY <1>8 DEF FoldsBy
  <2> QED
    BY <2>1, <2>2, <2>3
<1>10. g = [s \in SUBSET S |-> Def(g, s)]
  <2>1. g = [s \in SUBSET S |-> g[s]]
    BY <1>8 DEF FoldsBy
  <2> QED
    BY <1>9, <2>1
<1>11. iter = [s \in SUBSET S |-> Def(iter, s)]
  <2> HIDE DEF Def
  <2> QED
    BY <1>10
<1>12. ManifestText(Patch[pt], p) = iter[S]
  BY DEF ManifestText, MapThenFoldSet, S, subs
<1>13. \A s \in SUBSET S : iter[s] = Def(iter, s)
  <2> HIDE DEF iter, Def
  <2> QED
    BY <1>11
<1> HIDE DEF iter
<1>14. FollowsFold(iter, Texts, p, S, ch, f)
  <2>1. iter[{}] = p
    BY <1>13
  <2>2. ASSUME NEW s \in SUBSET S, s # {}, iter[s \ {ch[s]}] \in Texts
        PROVE  iter[s] = f[<<ch[s], iter[s \ {ch[s]}]>>]
    <3>1. ch[s] \in S /\ iter[s] = Splice(subs[ch[s]], p, iter[s \ {ch[s]}])
      BY <1>7, <1>13, <2>2
    <3> QED
      BY <1>6, <2>2, <3>1
  <2> QED
    BY <2>1, <2>2 DEF FollowsFold
<1>15. iter[S] = g[S]
  BY <1>7, <1>8, <1>14, FoldByIs
<1>16. g \in [SUBSET S -> Texts]
  BY <1>9, <1>10
<1>17. g[{}] = p /\ ManifestText(Patch[pt], p) = g[S]
  BY <1>9, <1>12, <1>15
<1>18. ASSUME NEW s \in SUBSET S, s # {}
       PROVE  g[s] = Splice(Patch[pt].subs[SplicedLast(Patch[pt], p, s)], p,
                            g[s \ {SplicedLast(Patch[pt], p, s)}])
  BY <1>9, <1>18 DEF subs
<1>19. ManifestSteps(g, Patch[pt], p)
  BY <1>4, <1>16, <1>17, <1>18 DEF ManifestSteps, S, subs
<1> QED
  BY <1>19

LEMMA ManifestIsText ==
  ASSUME TextAssumption, NEW pt \in Patches, NEW p \in Texts
  PROVE  ManifestText(Patch[pt], p) \in Texts
<1>1. PICK g : ManifestSteps(g, Patch[pt], p)
  BY ManifestChain
<1> QED
  BY <1>1 DEF ManifestSteps

(* What a patcher makes of the content of its file, and the marker line.   *)
LEMMA RewriteText ==
  ASSUME TextAssumption, ConfigAssumption, pin \in Pins, NEW pt \in Patches, NEW c \in Texts
  PROVE  /\ RewriteNow(pt, c).text \in Texts
         /\ MarkersSurvive => \A m \in Markers : Marked(c, m) => Marked(RewriteNow(pt, c).text, m)
<1> DEFINE pristine == Wheel[pin][File(pt)]
<1>1. CASE RewriteNow(pt, c) = Layer5(Patch[pt], c)
  BY <1>1, Layer5Text DEF MarkersSurvive
<1>2. CASE RewriteNow(pt, c) # Layer5(Patch[pt], c)
  <2>1. /\ pin \in ManifestPins
        /\ RewriteNow(pt, c) = Manifest(Patch[pt], pristine)
        /\ Patch[pt].mapped /\ c = pristine
    BY <1>2 DEF RewriteNow, Rewrite, ManifestAbstains
  <2>2. RewriteNow(pt, c).text = ManifestText(Patch[pt], pristine)
    BY <2>1 DEF Manifest
  <2>3. \A m \in Markers : MarkersSurvive => ~Marked(c, m)
    BY <2>1 DEF MarkersSurvive, TextAssumption
  <2> QED
    BY <2>1, <2>2, <2>3, ManifestIsText
<1> QED
  BY <1>1, <1>2

LEMMA StampedText ==
  ASSUME TextAssumption, NEW pt \in Patches, NEW t \in Texts
  PROVE  /\ Stamped(Marker(pt), t) \in Texts
         /\ Marked(Stamped(Marker(pt), t), Marker(pt))
         /\ \A m : Marked(t, m) => Marked(Stamped(Marker(pt), t), m)
<1> DEFINE mk == Marker(pt)
<1>1. mk \in Tokens /\ t \in Seq(Tokens)
  BY DEF Tokens, Marker, Texts
<1> HIDE DEF mk
<1>2. <<mk>> \in Seq(Tokens) /\ Marked(<<mk>>, mk)
  BY <1>1 DEF Marked, ToSet
<1>3. CASE t # <<>> /\ Head(t) = mk
  <2>1. Len(t) \in Nat \ {0} /\ t[1] = mk
    BY <1>1, <1>3, LenProperties
  <2>2. Marked(t, mk)
    BY <1>1, <2>1, LenProperties DEF Marked, ToSet
  <2> QED
    BY <1>3, <2>2 DEF Stamped, mk
<1>4. CASE ~(t # <<>> /\ Head(t) = mk)
  <2>1. Stamped(Marker(pt), t) = <<mk>> \o t
    BY <1>4 DEF Stamped, mk
  <2>2. /\ <<mk>> \o t \in Seq(Tokens)
        /\ \A m : Marked(<<mk>> \o t, m) <=> (Marked(<<mk>>, m) \/ Marked(t, m))
    BY <1>1, <1>2, ConcatMarked
  <2> QED
    BY <1>2, <2>1, <2>2 DEF Texts, mk
<1> QED
  BY <1>3, <1>4

(* What a write leaves in the file. *)
LEMMA OverlayText ==
  ASSUME PatcherTypeOK, NEW p \in Procs, NEW n \in 0 .. Len(text[p]),
         disk[File(call[p].patch)] \in Texts
  PROVE  /\ Overlay(p, n) \in Texts
         /\ n = Len(text[p]) /\ disk[File(call[p].patch)] = <<>> => Overlay(p, n) = text[p]
<1> DEFINE old == disk[File(call[p].patch)]
<1>1. text[p] \in Seq(Tokens) /\ Len(text[p]) \in Nat /\ old \in Seq(Tokens) /\ Len(old) \in Nat
  BY LenProperties DEF PatcherTypeOK, Texts
<1> DEFINE head == SubSeq(text[p], 1, n)
           tail == SubSeq(old, n + 1, Len(old))
<1>2. Overlay(p, n) = head \o tail
  BY DEF Overlay
<1> HIDE DEF old
<1>3. /\ head \in Seq(Tokens)
      /\ Len(head) = IF 1 <= n THEN n ELSE 0
      /\ \A i \in 1 .. n : head[i] = text[p][i]
  BY <1>1, SubSeqText
<1>4. /\ tail \in Seq(Tokens)
      /\ Len(tail) = IF n + 1 <= Len(old) THEN Len(old) - n ELSE 0
  BY <1>1, SubSeqText
<1> HIDE DEF head, tail
<1>5. head \o tail \in Seq(Tokens)
  BY <1>3, <1>4, ConcatProperties
<1>6. ASSUME n = Len(text[p]), old = <<>>
      PROVE  head \o tail = text[p]
  <2>1. Len(old) = 0 /\ Len(tail) = 0
    BY <1>4, <1>6
  <2>2. tail = <<>>
    BY <1>4, <2>1, EmptySeq
  <2>3. head = text[p]
    <3>1. Len(head) = Len(text[p]) /\ \A i \in 1 .. Len(head) : head[i] = text[p][i]
      BY <1>1, <1>3, <1>6
    <3> QED
      BY <1>1, <1>3, <3>1, SeqEqual
  <2> QED
    BY <1>3, <2>2, <2>3, ConcatEmptySeq
<1> QED
  BY <1>2, <1>5, <1>6 DEF Texts, old

-----------------------------------------------------------------------------
(* The type of the patcher's variables, step by step.                      *)

Calls  == [at : Points, patch : Patches, result : Results, orphan : BOOLEAN]
Caches == [loaded : BOOLEAN, files : Table]
Moved(p, pc, r) == [call EXCEPT ![p].at = pc, ![p].result = r]

(* A call that moves on, returns, or is entered anew. *)
LEMMA GotoType ==
  ASSUME call \in [Procs -> Calls], NEW p \in Procs, NEW pc \in Points
  PROVE  /\ Goto(p, pc) \in [Procs -> Calls]
         /\ \A q \in Procs \ {p} : Goto(p, pc)[q] = call[q]
         /\ Goto(p, pc)[p].at = pc
         /\ Goto(p, pc)[p].patch = call[p].patch
         /\ Goto(p, pc)[p].orphan = call[p].orphan
         /\ Goto(p, pc)[p].result = call[p].result
BY DEF Goto, Calls

LEMMA MovedType ==
  ASSUME call \in [Procs -> Calls], NEW p \in Procs, NEW pc \in Points, NEW r \in Results
  PROVE  /\ Moved(p, pc, r) \in [Procs -> Calls]
         /\ \A q \in Procs \ {p} : Moved(p, pc, r)[q] = call[q]
         /\ Moved(p, pc, r)[p].at = pc
         /\ Moved(p, pc, r)[p].patch = call[p].patch
         /\ Moved(p, pc, r)[p].orphan = call[p].orphan
         /\ Moved(p, pc, r)[p].result = r
BY DEF Moved, Calls

LEMMA IdleType ==
  ASSUME NEW pt \in Patches, NEW pc \in Points
  PROVE  /\ Idle(pt) \in Calls
         /\ Idle(pt).at = "idle" /\ Idle(pt).patch = pt /\ ~Idle(pt).orphan
         /\ [Idle(pt) EXCEPT !.at = pc] \in Calls
         /\ [Idle(pt) EXCEPT !.at = pc].at = pc
         /\ [Idle(pt) EXCEPT !.at = pc].patch = pt
         /\ ~[Idle(pt) EXCEPT !.at = pc].orphan
BY DEF Idle, Calls, Points, Results

(* Each patch has a target among the files. *)
LEMMA TargetType ==
  ASSUME ConfigAssumption, NEW pt \in Patches
  PROVE  File(pt) \in Files /\ Marker(pt) \in Markers
BY DEF ConfigAssumption, File, Marker, Markers

LEMMA EntryType ==
  ASSUME NEW e \in Entry, NEW f \in Files, NEW m \in Markers, NEW c,
         stamp \in [Files -> Nat]
  PROVE  /\ RecordedEntry(e, f, m, c) \in Entry
         /\ RecordedEntry(e, f, m, c).stamp = stamp[f]
         /\ Marked(c, m) =>
              \A k \in RecordedEntry(e, f, m, c).markers : Marked(c, k)
BY DEF RecordedEntry, Entry

LEMMA EnsureType ==
  ASSUME PatcherTypeOK, NEW p \in Procs
  PROVE  EnsureLoaded(p) \in Caches /\ EnsureLoaded(p).loaded
BY DEF PatcherTypeOK, EnsureLoaded, Loaded, EmptyTable, NoEntry, Table, Entry, Caches

LEMMA UnloadedType == Unloaded \in Caches /\ ~Unloaded.loaded /\ EmptyTable \in Table
BY DEF Unloaded, Caches, EmptyTable, NoEntry, Table, Entry

(* What a call that is past Layer 1 reads. *)
LEMMA ReadType ==
  ASSUME ConfigAssumption, PatcherTypeOK, NEW p \in Procs
  PROVE  /\ call[p].patch \in Patches
         /\ File(call[p].patch) \in Files /\ Marker(call[p].patch) \in Markers
         /\ disk[File(call[p].patch)] \in Texts \cup {NoFile}
         /\ call[p].at \in {"open", "write", "reread", "record"}
              => disk[File(call[p].patch)] \in Texts
<1>1. call[p].patch \in Patches
  BY DEF PatcherTypeOK
<1> QED
  BY <1>1, TargetType DEF PatcherTypeOK

(* The files after a write, or none. *)
Wrote(f, c) ==
  \/ f \in Files /\ disk[f] # NoFile /\ c \in Texts /\ PutFile(f, c)
  \/ UNCHANGED <<disk, stamp, clock>>

LEMMA WroteType ==
  ASSUME PatcherTypeOK, TextAssumption, NEW f, NEW c, Wrote(f, c), UNCHANGED pin
  PROVE  /\ disk' \in [Files -> Texts \cup {NoFile}]
         /\ stamp' \in [Files -> Nat]
         /\ clock' \in Nat
         /\ \A g \in Files : /\ disk'[g] = NoFile <=> disk[g] = NoFile
                             /\ disk'[g] = NoFile <=> Wheel[pin'][g] = NoFile
                             /\ g # f => disk'[g] = disk[g]
<1>1. CASE f \in Files /\ disk[f] # NoFile /\ c \in Texts /\ PutFile(f, c)
  <2>1. stamp' \in [Files -> Nat] /\ clock' \in Nat
    BY <1>1 DEF PutFile, PatcherTypeOK
  <2>2. disk' = [disk EXCEPT ![f] = c] /\ c # NoFile
    BY <1>1 DEF PutFile, TextAssumption
  <2> QED
    BY <1>1, <2>1, <2>2 DEF PatcherTypeOK
<1>2. CASE UNCHANGED <<disk, stamp, clock>>
  BY <1>2 DEF PatcherTypeOK
<1> QED
  BY <1>1, <1>2 DEF Wrote

LEMMA PutWrittenIs ==
  ASSUME ConfigAssumption, PatcherTypeOK, NEW p \in Procs, call[p].at = "write",
         NEW n \in 0 .. Len(text[p]), PutWritten(p, n)
  PROVE  /\ Overlay(p, n) \in Texts
         /\ Wrote(File(call[p].patch), Overlay(p, n))
         /\ ~call[p].orphan => PutFile(File(call[p].patch), Overlay(p, n))
<1>1. File(call[p].patch) \in Files /\ disk[File(call[p].patch)] \in Texts
  BY ReadType
<1>2. Overlay(p, n) \in Texts
  BY <1>1, OverlayText
<1>3. disk[File(call[p].patch)] # NoFile
  BY DEF PatcherTypeOK
<1> QED
  BY <1>1, <1>2, <1>3 DEF PutWritten, Wrote

(* A step of p that writes at most one file. *)
LEMMA MoveKeepsType ==
  ASSUME TextAssumption, ConfigAssumption, PatcherTypeOK, NEW p \in Procs,
         call' \in [Procs -> Calls],
         \A q \in Procs \ {p} : call'[q] = call[q],
         call'[p].at \in {"open", "write", "reread", "record"}
           => disk[File(call'[p].patch)] # NoFile,
         cache' \in [Procs -> Caches],
         text' \in [Procs -> Texts],
         NEW f, NEW c, Wrote(f, c),
         UNCHANGED pin, cacheFile' \in [pin : Pins, files : Table]
  PROVE  PatcherTypeOK'
<1>1. /\ disk' \in [Files -> Texts \cup {NoFile}]
      /\ stamp' \in [Files -> Nat]
      /\ clock' \in Nat
      /\ \A g \in Files : /\ disk'[g] = NoFile <=> disk[g] = NoFile
                          /\ disk'[g] = NoFile <=> Wheel[pin'][g] = NoFile
  BY WroteType
<1>2. \A q \in Procs : File(call'[q].patch) \in Files
  BY TargetType DEF Calls
<1>3. \A q \in Procs : call'[q].at \in {"open", "write", "reread", "record"}
                         => disk[File(call'[q].patch)] # NoFile
  BY DEF PatcherTypeOK
<1> QED
  BY <1>1, <1>2, <1>3 DEF PatcherTypeOK, Calls, Caches

LEMMA StepKeepsType ==
  ASSUME TextAssumption, ConfigAssumption, PatcherTypeOK, NEW p \in Procs, PatcherStep(p)
  PROVE  PatcherTypeOK'
<1> DEFINE pt == call[p].patch
           f  == File(pt)
<1>1. /\ pt \in Patches /\ f \in Files /\ Marker(pt) \in Markers
      /\ disk[f] \in Texts \cup {NoFile}
      /\ call[p].at \in {"open", "write", "reread", "record"}
           => disk[f] \in Texts /\ disk[f] # NoFile
  BY ReadType DEF PatcherTypeOK
<1>2. /\ call \in [Procs -> Calls] /\ cache \in [Procs -> Caches]
      /\ text \in [Procs -> Texts] /\ pin \in Pins
      /\ cacheFile \in [pin : Pins, files : Table]
  BY DEF PatcherTypeOK, Calls, Caches
<1>3. \A pc \in Points : /\ Goto(p, pc) \in [Procs -> Calls]
                         /\ \A q \in Procs \ {p} : Goto(p, pc)[q] = call[q]
                         /\ Goto(p, pc)[p].at = pc
                         /\ Goto(p, pc)[p].patch = pt
  BY <1>2, GotoType
<1>4. \A pc \in Points, r \in Results :
                         /\ Moved(p, pc, r) \in [Procs -> Calls]
                         /\ \A q \in Procs \ {p} : Moved(p, pc, r)[q] = call[q]
                         /\ Moved(p, pc, r)[p].at = pc
                         /\ Moved(p, pc, r)[p].patch = pt
  BY <1>2, MovedType
<1>5. \A r \in Results : Return(p, r) = Moved(p, "done", r)
  BY DEF Return, Moved
<1>6. \A g, c : UNCHANGED <<disk, stamp, clock>> => Wrote(g, c)
  BY DEF Wrote
<1> HIDE DEF pt, f
<1>7. CASE Layer0(p)
  <2>1. call' = Goto(p, "load") \/ call' = Moved(p, "done", "IDEMPOTENT")
    BY <1>5, <1>7 DEF Layer0, Results
  <2>2. cache' \in [Procs -> Caches]
    BY <1>2, <1>7, EnsureType DEF Layer0
  <2>3. UNCHANGED <<disk, stamp, clock, pin, cacheFile, text>>
    BY <1>7 DEF Layer0
  <2>4. /\ call' \in [Procs -> Calls] /\ \A q \in Procs \ {p} : call'[q] = call[q]
        /\ call'[p].at \notin {"open", "write", "reread", "record"}
    BY <1>3, <1>4, <2>1 DEF Points, Results
  <2> QED
    BY <1>2, <1>6, <2>2, <2>3, <2>4, MoveKeepsType
<1>8. CASE LoadSkips(p)
  <2>1. /\ call' = Moved(p, "done", "SKIPPED")
        /\ UNCHANGED <<disk, stamp, clock, pin, cacheFile, cache, text>>
    BY <1>5, <1>8 DEF LoadSkips, Results
  <2>2. /\ call' \in [Procs -> Calls] /\ \A q \in Procs \ {p} : call'[q] = call[q]
        /\ call'[p].at \notin {"open", "write", "reread", "record"}
    BY <1>4, <2>1 DEF Points, Results
  <2> QED
    BY <1>2, <1>6, <2>1, <2>2, MoveKeepsType
<1>9. CASE LoadFindsMarker(p)
  <2>1. /\ call' = Moved(p, "record", "IDEMPOTENT") /\ disk[f] # NoFile
        /\ text' = [text EXCEPT ![p] = disk[f]]
        /\ UNCHANGED <<disk, stamp, clock, pin, cacheFile, cache>>
    BY <1>9 DEF LoadFindsMarker, Moved, pt, f
  <2>2. /\ call' \in [Procs -> Calls] /\ \A q \in Procs \ {p} : call'[q] = call[q]
        /\ call'[p].patch = pt
    BY <1>4, <2>1 DEF Points, Results
  <2>3. text' \in [Procs -> Texts]
    BY <1>1, <1>2, <2>1
  <2> QED
    BY <1>2, <1>6, <2>1, <2>2, <2>3, MoveKeepsType DEF f
<1>10. CASE LoadRewrites(p)
  <2>1. /\ call' = Goto(p, "open") /\ disk[f] # NoFile
        /\ text' = [text EXCEPT ![p] = Stamped(Marker(pt), RewriteNow(pt, disk[f]).text)]
        /\ UNCHANGED <<disk, stamp, clock, pin, cacheFile, cache>>
    BY <1>10 DEF LoadRewrites, pt, f
  <2>2. /\ call' \in [Procs -> Calls] /\ \A q \in Procs \ {p} : call'[q] = call[q]
        /\ call'[p].patch = pt
    BY <1>3, <2>1 DEF Points
  <2>3. Stamped(Marker(pt), RewriteNow(pt, disk[f]).text) \in Texts
    BY <1>1, <1>2, <2>1, RewriteText, StampedText
  <2>4. text' \in [Procs -> Texts]
    BY <1>2, <2>1, <2>3
  <2> QED
    BY <1>2, <1>6, <2>1, <2>2, <2>4, MoveKeepsType DEF f
<1>11. CASE Truncate(p)
  <2>1. /\ call' = Goto(p, "write") /\ PutFile(f, <<>>) /\ call[p].at = "open"
        /\ UNCHANGED <<pin, cacheFile, cache, text>>
    BY <1>11 DEF Truncate, pt, f
  <2>2. /\ call' \in [Procs -> Calls] /\ \A q \in Procs \ {p} : call'[q] = call[q]
        /\ call'[p].patch = pt
    BY <1>3, <2>1 DEF Points
  <2>3. <<>> \in Texts /\ Wrote(f, <<>>)
    BY <1>1, <2>1, EmptySeq DEF Texts, Wrote
  <2> QED
    BY <1>1, <1>2, <2>1, <2>2, <2>3, MoveKeepsType DEF f
<1>12. CASE Write(p)
  <2>1. /\ call' = Goto(p, "reread") /\ PutWritten(p, Len(text[p])) /\ call[p].at = "write"
        /\ UNCHANGED <<pin, cacheFile, cache, text>>
    BY <1>12 DEF Write
  <2>2. /\ call' \in [Procs -> Calls] /\ \A q \in Procs \ {p} : call'[q] = call[q]
        /\ call'[p].patch = pt
    BY <1>3, <2>1 DEF Points
  <2>3. Len(text[p]) \in 0 .. Len(text[p])
    BY <1>2, LenProperties DEF Texts
  <2>4. Wrote(f, Overlay(p, Len(text[p])))
    BY <2>1, <2>3, PutWrittenIs DEF pt, f
  <2> QED
    BY <1>1, <1>2, <2>1, <2>2, <2>4, MoveKeepsType DEF f
<1>13. CASE Reread(p)
  <2>1. /\ call' = Moved(p, "record", "APPLIED") \/ call' = Moved(p, "done", "FAILED")
        /\ text' = [text EXCEPT ![p] = disk[f]] /\ call[p].at = "reread"
        /\ UNCHANGED <<disk, stamp, clock, pin, cacheFile, cache>>
    BY <1>5, <1>13 DEF Reread, Moved, pt, f, Results
  <2>2. /\ call' \in [Procs -> Calls] /\ \A q \in Procs \ {p} : call'[q] = call[q]
        /\ call'[p].patch = pt
    BY <1>4, <2>1 DEF Points, Results
  <2>3. text' \in [Procs -> Texts]
    BY <1>1, <1>2, <2>1
  <2> QED
    BY <1>1, <1>2, <1>6, <2>1, <2>2, <2>3, MoveKeepsType DEF f
<1>14. CASE Record(p)
  <2> DEFINE t == EnsureLoaded(p)
             e == RecordedEntry(t.files[f], f, Marker(pt), text[p])
  <2>1. t \in Caches
    BY EnsureType
  <2>2. e \in Entry
    BY <1>1, <2>1, EntryType DEF PatcherTypeOK, Caches, Table
  <2>3. /\ cache' = [cache EXCEPT ![p] = [t EXCEPT !.files[f] = e]]
        /\ call' = Goto(p, "done")
        /\ UNCHANGED <<disk, stamp, clock, pin, cacheFile, text>>
    BY <1>14 DEF Record, pt, f
  <2> HIDE DEF t, e
  <2>4. [t EXCEPT !.files[f] = e] \in Caches
    BY <2>1, <2>2 DEF Caches, Table
  <2>5. cache' \in [Procs -> Caches]
    BY <1>2, <2>3, <2>4
  <2>6. /\ call' \in [Procs -> Calls] /\ \A q \in Procs \ {p} : call'[q] = call[q]
        /\ call'[p].at \notin {"open", "write", "reread", "record"}
    BY <1>3, <2>3 DEF Points
  <2> QED
    BY <1>2, <1>6, <2>3, <2>5, <2>6, MoveKeepsType
<1> QED
  BY <1>7, <1>8, <1>9, <1>10, <1>11, <1>12, <1>13, <1>14 DEF PatcherStep

(* What a fault of a call does to the call and to its file. *)
LEMMA FaultIs ==
  ASSUME ConfigAssumption, PatcherTypeOK, NEW p \in Procs, PatcherFault(p)
  PROVE  /\ call[p].at \in {"load", "open", "reread", "write"}
         /\ \/ call[p].at = "load" /\ call' = Moved(p, "done", "SKIPPED")
            \/ call[p].at # "load" /\ call' = Moved(p, "done", "FAILED")
         /\ \E c : Wrote(File(call[p].patch), c)
         /\ call[p].at # "write" => UNCHANGED <<disk, stamp, clock>>
         /\ UNCHANGED <<pin, cacheFile, cache, text>>
<1>1. CASE OpenFails(p)
  <2>1. Wrote(File(call[p].patch), <<>>)
    BY <1>1 DEF OpenFails, Wrote
  <2> QED
    BY <1>1, <2>1 DEF OpenFails, Moved, Return
<1>2. CASE WriteFails(p)
  <2>1. PICK n \in 0 .. Len(text[p]) : PutWritten(p, n)
    BY <1>2 DEF WriteFails
  <2>2. Wrote(File(call[p].patch), Overlay(p, n))
    BY <1>2, <2>1, PutWrittenIs DEF WriteFails
  <2> QED
    BY <1>2, <2>2 DEF WriteFails, Moved, Return
<1> QED
  BY <1>1, <1>2 DEF PatcherFault

LEMMA FaultKeepsType ==
  ASSUME TextAssumption, ConfigAssumption, PatcherTypeOK, NEW p \in Procs, PatcherFault(p)
  PROVE  PatcherTypeOK'
<1>1. /\ call \in [Procs -> Calls] /\ cache \in [Procs -> Caches]
      /\ text \in [Procs -> Texts] /\ pin \in Pins
      /\ cacheFile \in [pin : Pins, files : Table]
  BY DEF PatcherTypeOK, Calls, Caches
<1>2. PICK c : Wrote(File(call[p].patch), c)
  BY FaultIs
<1>3. /\ call' = Moved(p, "done", "SKIPPED") \/ call' = Moved(p, "done", "FAILED")
      /\ UNCHANGED <<pin, cacheFile, cache, text>>
  BY FaultIs
<1>4. /\ call' \in [Procs -> Calls] /\ \A q \in Procs \ {p} : call'[q] = call[q]
      /\ call'[p].at \notin {"open", "write", "reread", "record"}
  BY <1>1, <1>3, MovedType, SMTT(30) DEF Points, Results
<1> QED
  BY <1>1, <1>2, <1>3, <1>4, MoveKeepsType

LEMMA BeginKeepsType ==
  ASSUME TextAssumption, ConfigAssumption, PatcherTypeOK, NEW p \in Procs,
         NEW pt \in Patches, Begin(p, pt)
  PROVE  PatcherTypeOK'
<1>1. /\ call \in [Procs -> Calls] /\ cache \in [Procs -> Caches]
      /\ text \in [Procs -> Texts] /\ pin \in Pins
      /\ cacheFile \in [pin : Pins, files : Table]
  BY DEF PatcherTypeOK, Calls, Caches
<1>2. /\ call' = [call EXCEPT ![p] = [Idle(pt) EXCEPT !.at = "layer0"]]
      /\ UNCHANGED <<disk, stamp, clock, pin, cacheFile, cache, text>>
  BY DEF Begin
<1>3. /\ call' \in [Procs -> Calls] /\ \A q \in Procs \ {p} : call'[q] = call[q]
      /\ call'[p].at \notin {"open", "write", "reread", "record"}
  <2> DEFINE e == [Idle(pt) EXCEPT !.at = "layer0"]
  <2>1. e \in Calls /\ e.at = "layer0"
    BY IdleType DEF Points
  <2> HIDE DEF e
  <2>2. call' = [call EXCEPT ![p] = e]
    BY <1>2 DEF e
  <2> QED
    BY <1>1, <2>1, <2>2
<1>4. Wrote(File(pt), <<>>)
  BY <1>2 DEF Wrote
<1> QED
  BY <1>1, <1>2, <1>3, <1>4, MoveKeepsType

(* The caller takes the result of a call, or dies. *)
LEMMA EndKeepsType ==
  ASSUME TextAssumption, ConfigAssumption, PatcherTypeOK, NEW p \in Procs,
         NEW pt \in Patches, call' = [call EXCEPT ![p] = Idle(pt)],
         text' = [text EXCEPT ![p] = <<>>],
         cache' = cache \/ cache' = [cache EXCEPT ![p] = Unloaded],
         NEW f, NEW c, Wrote(f, c), UNCHANGED <<pin, cacheFile>>
  PROVE  PatcherTypeOK'
<1>1. /\ call \in [Procs -> Calls] /\ cache \in [Procs -> Caches]
      /\ text \in [Procs -> Texts] /\ pin \in Pins
      /\ cacheFile \in [pin : Pins, files : Table]
  BY DEF PatcherTypeOK, Calls, Caches
<1>2. /\ call' \in [Procs -> Calls] /\ \A q \in Procs \ {p} : call'[q] = call[q]
      /\ call'[p].at \notin {"open", "write", "reread", "record"}
  <2>1. Idle(pt) \in Calls /\ Idle(pt).at = "idle"
    BY IdleType DEF Points
  <2> QED
    BY <1>1, <2>1
<1>3. cache' \in [Procs -> Caches] /\ text' \in [Procs -> Texts]
  BY <1>1, UnloadedType, EmptySeq DEF Texts
<1>4. cacheFile' \in [pin : Pins, files : Table]
  BY <1>1
<1> QED
  BY <1>2, <1>3, <1>4, MoveKeepsType

LEMMA InitPatcherType ==
  ASSUME TextAssumption, ConfigAssumption, PatcherInit
  PROVE  /\ PatcherTypeOK
         /\ \A p \in Procs : call[p].at = "idle" /\ ~cache[p].loaded /\ ~call[p].orphan
<1>1. PICK pt \in Patches : pt = CHOOSE x \in Patches : TRUE
  BY DEF ConfigAssumption
<1>2. call = [p \in Procs |-> Idle(pt)]
  BY <1>1 DEF PatcherInit
<1>3. call \in [Procs -> Calls] /\ \A p \in Procs : call[p].at = "idle" /\ ~call[p].orphan
  BY <1>2, IdleType DEF Points
<1>4. disk \in [Files -> Texts \cup {NoFile}] /\ pin \in Pins /\ disk = Wheel[pin]
  BY DEF PatcherInit, ConfigAssumption, TextAssumption
<1>5. /\ cache \in [Procs -> Caches] /\ \A p \in Procs : ~cache[p].loaded
      /\ cacheFile \in [pin : Pins, files : Table]
  BY <1>4, UnloadedType DEF PatcherInit
<1>6. text \in [Procs -> Texts]
  BY EmptySeq DEF PatcherInit, Texts
<1> QED
  BY <1>3, <1>4, <1>5, <1>6 DEF PatcherInit, PatcherTypeOK, WheelStamp, Calls, Caches

-----------------------------------------------------------------------------
(* What holds between the steps of calls that do not overlap.              *)

Alone(p) == \A q \in Procs \ {p} : call[q].at = "idle"

(* A table made under version v: no entry is newer than the clock, and the *)
(* markers recorded for a file of the wheel are the wheel's.               *)
TableOK(tb, v) ==
  \A f \in Files :
    /\ tb[f].stamp <= clock
    /\ tb[f].stamp = WheelStamp => \A m \in tb[f].markers : Marked(Wheel[v][f], m)

FilesOK ==
  /\ WheelStamp <= clock
  /\ \A f \in Files : /\ stamp[f] <= clock
                      /\ stamp[f] = WheelStamp => disk[f] = Wheel[pin][f]

TablesOK ==
  /\ \A p \in Procs : cache[p].loaded => TableOK(cache[p].files, pin)
  /\ TableOK(cacheFile.files, cacheFile.pin)

(* The text to write was made of what is in the file. *)
Fresh(p) ==
  LET pt == call[p].patch
      c  == disk[File(pt)]
  IN  /\ c # NoFile /\ Precheck(Patch[pt], c) = "ok"
      /\ RewriteNow(pt, c).verdict = "ok"
      /\ text[p] = Stamped(Marker(pt), RewriteNow(pt, c).text)

(* Where a call is, and what its file holds then. *)
CallOK(p) ==
  LET pt == call[p].patch
      c  == disk[File(pt)]
  IN  /\ ~call[p].orphan
      /\ call[p].at = "open" => Fresh(p)
      /\ call[p].at \in {"open", "write", "reread"} => Marked(text[p], Marker(pt))
      /\ call[p].at = "write" => c = <<>>
      /\ call[p].at = "reread" => c = text[p]
      /\ call[p].at = "record" =>
           c = text[p] /\ Marked(c, Marker(pt)) /\ call[p].result \in {"APPLIED", "IDEMPOTENT"}
      /\ call[p].at = "done" =>
           /\ call[p].result # "none"
           /\ call[p].result \in {"APPLIED", "IDEMPOTENT"} => Marked(c, Marker(pt))

CallsOK == \A p \in Procs : CallOK(p)

PatcherInv == FilesOK /\ TablesOK /\ CacheTruthful /\ CallsOK

(* A table whose entries are no newer than the clock is truthful about a   *)
(* file that just changed, and as truthful as it was about the others.     *)
LEMMA PutFileKeeps ==
  ASSUME PatcherTypeOK, FilesOK, NEW g \in Files, NEW c, PutFile(g, c)
  PROVE  /\ pin' = pin => FilesOK'
         /\ \A tb \in Table, v \in Pins : TableOK(tb, v) => TableOK(tb, v)'
         /\ \A tb \in Table, v \in Pins : TableOK(tb, v) /\ Truthful(tb) => Truthful(tb)'
<1>1. /\ clock' = clock + 1 /\ clock \in Nat /\ WheelStamp <= clock
      /\ stamp' = [stamp EXCEPT ![g] = clock + 1] /\ stamp \in [Files -> Nat]
      /\ disk' = [disk EXCEPT ![g] = c] /\ disk = [f \in Files |-> disk[f]]
  BY DEF PutFile, PatcherTypeOK, FilesOK
<1>2. \A f \in Files : f # g => disk'[f] = disk[f] /\ stamp'[f] = stamp[f]
  BY <1>1
<1>3. stamp'[g] = clock + 1
  BY <1>1
<1>4. \A f \in Files : stamp'[f] <= clock' /\ (stamp'[f] = WheelStamp => f # g)
  BY <1>1, <1>2, <1>3 DEF FilesOK, WheelStamp
<1>5. ASSUME pin' = pin PROVE FilesOK'
  BY <1>1, <1>2, <1>4, <1>5 DEF FilesOK, WheelStamp
<1>6. ASSUME NEW tb \in Table, NEW v \in Pins, TableOK(tb, v)
      PROVE  TableOK(tb, v)'
  BY <1>1, <1>6 DEF TableOK, Table, Entry
<1>7. ASSUME NEW tb \in Table, NEW v \in Pins, TableOK(tb, v), Truthful(tb)
      PROVE  Truthful(tb)'
  <2>1. tb[g].stamp # stamp'[g]
    BY <1>1, <1>3, <1>7 DEF TableOK, Table, Entry
  <2> QED
    BY <1>2, <1>7, <2>1 DEF Truthful
<1> QED
  BY <1>5, <1>6, <1>7

(* A step that changes at most one file by PutFile, and loads or records   *)
(* nothing, keeps the tables.                                              *)
LEMMA WriteKeepsTables ==
  ASSUME PatcherTypeOK, FilesOK, TablesOK, CacheTruthful, UNCHANGED <<pin, cacheFile>>,
         \/ \E g \in Files : \E c : PutFile(g, c)
         \/ UNCHANGED <<disk, stamp, clock>>,
         \A p \in Procs : cache'[p] = cache[p] \/ ~cache'[p].loaded
  PROVE  FilesOK' /\ TablesOK' /\ CacheTruthful'
<1>1. /\ FilesOK'
      /\ \A tb \in Table, v \in Pins : TableOK(tb, v) => TableOK(tb, v)'
      /\ \A tb \in Table, v \in Pins : TableOK(tb, v) /\ Truthful(tb) => Truthful(tb)'
  <2>1. CASE \E g \in Files : \E c : PutFile(g, c)
    BY <2>1, PutFileKeeps
  <2>2. CASE UNCHANGED <<disk, stamp, clock>>
    BY <2>2 DEF FilesOK, TableOK, Truthful
  <2> QED
    BY <2>1, <2>2
<1>2. /\ cacheFile.files \in Table /\ cacheFile.pin \in Pins /\ pin \in Pins
      /\ \A p \in Procs : cache[p].files \in Table
  BY DEF PatcherTypeOK
<1>3. TablesOK'
  BY <1>1, <1>2 DEF TablesOK
<1>4. CacheTruthful'
  BY <1>1, <1>2 DEF TablesOK, CacheTruthful, PinMatches
<1> QED
  BY <1>1, <1>3, <1>4

(* The table _ensure_loaded hands out. *)
LEMMA EnsureOK ==
  ASSUME PatcherTypeOK, TablesOK, CacheTruthful, NEW p \in Procs
  PROVE  /\ TableOK(EnsureLoaded(p).files, pin) /\ Truthful(EnsureLoaded(p).files)
         /\ TableOK(EmptyTable, pin) /\ Truthful(EmptyTable)
<1>1. TableOK(EmptyTable, pin) /\ Truthful(EmptyTable)
  BY DEF TableOK, Truthful, EmptyTable, NoEntry, WheelStamp, PatcherTypeOK
<1>2. CASE cache[p].loaded
  BY <1>1, <1>2 DEF EnsureLoaded, TablesOK, CacheTruthful
<1>3. CASE ~cache[p].loaded
  BY <1>1, <1>3 DEF EnsureLoaded, Loaded, TablesOK, CacheTruthful, PinMatches
<1> QED
  BY <1>2, <1>3

LEMMA PrecheckFindsMarker ==
  ASSUME NEW patch, NEW c, Precheck(patch, c) = "idempotent"
  PROVE  Marked(c, patch.marker)
BY DEF Precheck

(* A call that is not under way needs nothing of the files. *)
LEMMA IdleIsOK ==
  ASSUME NEW p, call[p].at \in {"idle", "layer0", "load"}, ~call[p].orphan
  PROVE  CallOK(p)
BY DEF CallOK

LEMMA AloneIsOK ==
  ASSUME CallsOK, NEW p \in Procs, Alone(p), CallOK(p)',
         \A q \in Procs \ {p} : call'[q] = call[q]
  PROVE  CallsOK'
<1>1. ASSUME NEW q \in Procs, q # p PROVE CallOK(q)'
  <2>1. call'[q].at = "idle" /\ ~call'[q].orphan
    BY <1>1 DEF CallsOK, CallOK, Alone
  <2> QED
    BY <2>1 DEF CallOK
<1> QED
  BY <1>1 DEF CallsOK

(* The call wrote, or is about to have written, to its file. *)
Writing(p) ==
  \/ call[p].at \in {"write", "reread"}
  \/ call[p].at \in {"record", "done"} /\ call[p].result = "APPLIED"

(* The marker is in the file, or in the text being written to it. *)
Holds(p, f, m) ==
  Marked(IF call[p].at = "write" /\ File(call[p].patch) = f THEN text[p] ELSE disk[f], m)

(* What a step of a call by p does. *)
StepOK(p) ==
  /\ \A q \in Procs \ {p} : call'[q] = call[q]
  /\ call'[p].patch = call[p].patch
  /\ CallOK(p)'
  /\ FilesOK' /\ TablesOK' /\ CacheTruthful'
  /\ Writing(p) => Writing(p)'
  /\ \A f \in Files : disk'[f] # disk[f] => f = File(call[p].patch) /\ Writing(p)'
  /\ ~(call'[p].at = "done" /\ call'[p].result = "FAILED")
  /\ MarkersSurvive => \A f \in Files, m \in Markers : Holds(p, f, m) => Holds(p, f, m)'

LEMMA Layer0OK ==
  ASSUME ConfigAssumption, PatcherTypeOK, PatcherInv, NEW p \in Procs, Layer0(p)
  PROVE  StepOK(p)
<1> DEFINE pt == call[p].patch
           f  == File(pt)
<1>1. f \in Files /\ call \in [Procs -> Calls] /\ call[p].at = "layer0" /\ ~call[p].orphan
  BY ReadType DEF PatcherTypeOK, Calls, Layer0, PatcherInv, CallsOK, CallOK
<1>2. UNCHANGED <<disk, stamp, clock, pin, cacheFile, text>>
  BY DEF Layer0
<1>3. /\ TableOK(EnsureLoaded(p).files, pin) /\ Truthful(EnsureLoaded(p).files)
  BY EnsureOK DEF PatcherInv
<1>4. /\ \A q \in Procs \ {p} : cache'[q] = cache[q]
      /\ cache'[p] = cache[p] \/ cache'[p] = EnsureLoaded(p)
  BY DEF Layer0, PatcherTypeOK
<1>5. FilesOK' /\ TablesOK' /\ CacheTruthful'
  BY <1>2, <1>3, <1>4
     DEF PatcherInv, FilesOK, TablesOK, TableOK, CacheTruthful, Truthful, PinMatches
<1>6. \/ call' = Goto(p, "load")
      \/ /\ call' = Moved(p, "done", "IDEMPOTENT") /\ disk[f] # NoFile
         /\ CacheHit(EnsureLoaded(p).files[f], f, Marker(pt))
  BY DEF Layer0, Return, Moved
<1>7. CASE call' = Goto(p, "load")
  <2>1. /\ \A q \in Procs \ {p} : call'[q] = call[q]
        /\ call'[p].at = "load" /\ call'[p].patch = pt /\ ~call'[p].orphan
    BY <1>1, <1>7, GotoType DEF Points
  <2> QED
    BY <1>1, <1>2, <1>5, <2>1, IdleIsOK DEF StepOK, Writing, Holds, CallOK
<1>8. CASE /\ call' = Moved(p, "done", "IDEMPOTENT") /\ disk[f] # NoFile
           /\ CacheHit(EnsureLoaded(p).files[f], f, Marker(pt))
  <2>1. /\ \A q \in Procs \ {p} : call'[q] = call[q]
        /\ call'[p].at = "done" /\ call'[p].patch = pt /\ ~call'[p].orphan
        /\ call'[p].result = "IDEMPOTENT"
    BY <1>1, <1>8, MovedType DEF Points, Results
  <2>2. Marked(disk[f], Marker(pt))
    BY <1>1, <1>3, <1>8 DEF CacheHit, Truthful
  <2>3. CallOK(p)'
    BY <1>2, <2>1, <2>2 DEF CallOK
  <2> QED
    BY <1>1, <1>2, <1>5, <2>1, <2>3 DEF StepOK, Writing, Holds
<1> QED
  BY <1>6, <1>7, <1>8

(* The layers that only look at the file. *)
LEMMA LoadOK ==
  ASSUME TextAssumption, ConfigAssumption, PatcherTypeOK, PatcherInv, NEW p \in Procs,
         LoadSkips(p) \/ LoadFindsMarker(p) \/ LoadRewrites(p)
  PROVE  StepOK(p)
<1> DEFINE pt == call[p].patch
           f  == File(pt)
<1>1. /\ pt \in Patches /\ f \in Files /\ Marker(pt) \in Markers
      /\ call \in [Procs -> Calls] /\ text \in [Procs -> Texts] /\ pin \in Pins
      /\ disk[f] \in Texts \cup {NoFile}
      /\ call[p].at = "load" /\ ~call[p].orphan
  BY ReadType DEF PatcherTypeOK, Calls, LoadSkips, LoadFindsMarker, LoadRewrites,
                  PatcherInv, CallsOK, CallOK
<1>2. UNCHANGED <<disk, stamp, clock, pin, cacheFile, cache>>
  BY DEF LoadSkips, LoadFindsMarker, LoadRewrites
<1>3. FilesOK' /\ TablesOK' /\ CacheTruthful'
  BY <1>2, WriteKeepsTables DEF PatcherInv
<1>4. CASE LoadSkips(p)
  <2>1. call' = Moved(p, "done", "SKIPPED")
    BY <1>4 DEF LoadSkips, Return, Moved
  <2>2. /\ \A q \in Procs \ {p} : call'[q] = call[q]
        /\ call'[p].at = "done" /\ call'[p].patch = pt /\ ~call'[p].orphan
        /\ call'[p].result = "SKIPPED"
    BY <1>1, <2>1, MovedType DEF Points, Results
  <2>3. CallOK(p)'
    BY <2>2 DEF CallOK
  <2> QED
    BY <1>1, <1>2, <1>3, <2>2, <2>3 DEF StepOK, Writing, Holds
<1>5. CASE LoadFindsMarker(p)
  <2>1. /\ call' = Moved(p, "record", "IDEMPOTENT")
        /\ text' = [text EXCEPT ![p] = disk[f]]
        /\ Precheck(Patch[pt], disk[f]) = "idempotent"
    BY <1>5 DEF LoadFindsMarker, Moved
  <2>2. /\ \A q \in Procs \ {p} : call'[q] = call[q]
        /\ call'[p].at = "record" /\ call'[p].patch = pt /\ ~call'[p].orphan
        /\ call'[p].result = "IDEMPOTENT"
    BY <1>1, <2>1, MovedType DEF Points, Results
  <2>3. Marked(disk[f], Marker(pt)) /\ text'[p] = disk[f]
    BY <1>1, <2>1, PrecheckFindsMarker DEF Marker
  <2>4. CallOK(p)'
    BY <1>2, <2>2, <2>3 DEF CallOK
  <2> QED
    BY <1>1, <1>2, <1>3, <2>2, <2>4 DEF StepOK, Writing, Holds
<1>6. CASE LoadRewrites(p)
  <2> DEFINE w == Stamped(Marker(pt), RewriteNow(pt, disk[f]).text)
  <2>1. /\ call' = Goto(p, "open") /\ disk[f] # NoFile
        /\ text' = [text EXCEPT ![p] = w]
        /\ Precheck(Patch[pt], disk[f]) = "ok" /\ RewriteNow(pt, disk[f]).verdict = "ok"
    BY <1>6 DEF LoadRewrites
  <2>2. /\ \A q \in Procs \ {p} : call'[q] = call[q]
        /\ call'[p].at = "open" /\ call'[p].patch = pt /\ ~call'[p].orphan
    BY <1>1, <2>1, GotoType DEF Points
  <2>3. text'[p] = w
    BY <1>1, <2>1
  <2>4. Marked(w, Marker(pt))
    <3>1. disk[f] \in Texts /\ pin \in Pins /\ pt \in Patches
      BY <1>1, <2>1 DEF PatcherTypeOK
    <3>2. RewriteNow(pt, disk[f]).text \in Texts
      BY <3>1, RewriteText
    <3> QED
      BY <3>1, <3>2, StampedText
  <2>5. RewriteNow(pt, disk[f])' = RewriteNow(pt, disk[f])
    BY <1>2, <2>2 DEF RewriteNow
  <2>6. Fresh(p)'
    BY <1>2, <2>1, <2>2, <2>3, <2>5 DEF Fresh
  <2>7. CallOK(p)'
    BY <2>2, <2>3, <2>4, <2>6 DEF CallOK
  <2> QED
    BY <1>1, <1>2, <1>3, <2>2, <2>7 DEF StepOK, Writing, Holds
<1> QED
  BY <1>4, <1>5, <1>6

(* The text of a fresh call has every marker the file has. *)
LEMMA FreshKeepsMarkers ==
  ASSUME TextAssumption, ConfigAssumption, PatcherTypeOK, NEW p \in Procs, Fresh(p),
         MarkersSurvive, NEW m \in Markers, Marked(disk[File(call[p].patch)], m)
  PROVE  Marked(text[p], m)
<1> DEFINE pt == call[p].patch
           c  == disk[File(pt)]
<1>1. pt \in Patches /\ c \in Texts /\ pin \in Pins
  BY ReadType DEF Fresh, PatcherTypeOK
<1>2. RewriteNow(pt, c).text \in Texts /\ Marked(RewriteNow(pt, c).text, m)
  BY <1>1, RewriteText
<1>3. text[p] = Stamped(Marker(pt), RewriteNow(pt, c).text)
  BY DEF Fresh
<1> QED
  BY <1>1, <1>2, <1>3, StampedText

LEMMA TruncateOK ==
  ASSUME TextAssumption, ConfigAssumption, PatcherTypeOK, PatcherInv, NEW p \in Procs, Truncate(p)
  PROVE  StepOK(p)
<1> DEFINE pt == call[p].patch
           f  == File(pt)
<1>1. /\ pt \in Patches /\ f \in Files /\ call \in [Procs -> Calls]
      /\ call[p].at = "open" /\ ~call[p].orphan /\ Fresh(p) /\ Marked(text[p], Marker(pt))
  BY ReadType DEF PatcherTypeOK, Calls, Truncate, PatcherInv, CallsOK, CallOK
<1>2. /\ PutFile(f, <<>>) /\ UNCHANGED <<pin, cacheFile, cache, text>>
      /\ call' = Goto(p, "write")
  BY DEF Truncate
<1>3. FilesOK' /\ TablesOK' /\ CacheTruthful'
  BY <1>1, <1>2, WriteKeepsTables DEF PatcherInv
<1>4. /\ \A q \in Procs \ {p} : call'[q] = call[q]
      /\ call'[p].at = "write" /\ call'[p].patch = pt /\ ~call'[p].orphan
  BY <1>1, <1>2, GotoType DEF Points
<1>5. disk'[f] = <<>> /\ \A g \in Files : g # f => disk'[g] = disk[g]
  BY <1>1, <1>2 DEF PutFile, PatcherTypeOK
<1>6. CallOK(p)'
  BY <1>1, <1>2, <1>4, <1>5 DEF CallOK
<1>7. ASSUME MarkersSurvive, NEW g \in Files, NEW m \in Markers, Holds(p, g, m)
      PROVE  Holds(p, g, m)'
  <2>1. CASE g = f
    BY <1>1, <1>2, <1>4, <1>7, <2>1, FreshKeepsMarkers DEF Holds
  <2>2. CASE g # f
    BY <1>1, <1>4, <1>5, <1>7, <2>2 DEF Holds
  <2> QED
    BY <2>1, <2>2
<1> QED
  BY <1>1, <1>3, <1>4, <1>5, <1>6, <1>7 DEF StepOK, Writing

LEMMA WriteOK ==
  ASSUME TextAssumption, ConfigAssumption, PatcherTypeOK, PatcherInv, NEW p \in Procs, Write(p)
  PROVE  StepOK(p)
<1> DEFINE pt == call[p].patch
           f  == File(pt)
<1>1. /\ pt \in Patches /\ f \in Files /\ call \in [Procs -> Calls] /\ text[p] \in Texts
      /\ disk[f] \in Texts
      /\ call[p].at = "write" /\ ~call[p].orphan /\ disk[f] = <<>> /\ Marked(text[p], Marker(pt))
  BY ReadType DEF PatcherTypeOK, Calls, Write, PatcherInv, CallsOK, CallOK
<1>2. /\ PutWritten(p, Len(text[p])) /\ UNCHANGED <<pin, cacheFile, cache, text>>
      /\ call' = Goto(p, "reread")
  BY DEF Write
<1>3. Len(text[p]) \in 0 .. Len(text[p])
  BY <1>1, LenProperties DEF Texts
<1>4. PutFile(f, text[p])
  <2>1. Overlay(p, Len(text[p])) = text[p]
    BY <1>1, <1>3, OverlayText
  <2> QED
    BY <1>1, <1>2, <1>3, <2>1, PutWrittenIs
<1>5. FilesOK' /\ TablesOK' /\ CacheTruthful'
  BY <1>1, <1>2, <1>4, WriteKeepsTables DEF PatcherInv
<1>6. /\ \A q \in Procs \ {p} : call'[q] = call[q]
      /\ call'[p].at = "reread" /\ call'[p].patch = pt /\ ~call'[p].orphan
  BY <1>1, <1>2, GotoType DEF Points
<1>7. disk'[f] = text[p] /\ \A g \in Files : g # f => disk'[g] = disk[g]
  BY <1>1, <1>4 DEF PutFile, PatcherTypeOK
<1>8. CallOK(p)'
  BY <1>1, <1>2, <1>6, <1>7 DEF CallOK
<1>9. ASSUME NEW g \in Files, NEW m \in Markers, Holds(p, g, m)
      PROVE  Holds(p, g, m)'
  BY <1>1, <1>6, <1>7, <1>9 DEF Holds
<1> QED
  BY <1>1, <1>5, <1>6, <1>7, <1>8, <1>9 DEF StepOK, Writing

LEMMA RereadOK ==
  ASSUME TextAssumption, ConfigAssumption, PatcherTypeOK, PatcherInv, NEW p \in Procs, Reread(p)
  PROVE  StepOK(p)
<1> DEFINE pt == call[p].patch
           f  == File(pt)
<1>1. /\ pt \in Patches /\ f \in Files /\ call \in [Procs -> Calls] /\ text \in [Procs -> Texts]
      /\ call[p].at = "reread" /\ ~call[p].orphan
      /\ disk[f] = text[p] /\ Marked(text[p], Marker(pt))
  BY ReadType DEF PatcherTypeOK, Calls, Reread, PatcherInv, CallsOK, CallOK
<1>2. /\ UNCHANGED <<disk, stamp, clock, pin, cacheFile, cache>>
      /\ text' = [text EXCEPT ![p] = disk[f]]
      /\ call' = Moved(p, "record", "APPLIED")
  BY <1>1 DEF Reread, Moved
<1>3. FilesOK' /\ TablesOK' /\ CacheTruthful'
  BY <1>2, WriteKeepsTables DEF PatcherInv
<1>4. /\ \A q \in Procs \ {p} : call'[q] = call[q]
      /\ call'[p].at = "record" /\ call'[p].patch = pt /\ ~call'[p].orphan
      /\ call'[p].result = "APPLIED"
  BY <1>1, <1>2, MovedType DEF Points, Results
<1>5. CallOK(p)'
  BY <1>1, <1>2, <1>4 DEF CallOK
<1> QED
  BY <1>1, <1>2, <1>3, <1>4, <1>5 DEF StepOK, Writing, Holds

LEMMA RecordOK ==
  ASSUME TextAssumption, ConfigAssumption, PatcherTypeOK, PatcherInv, NEW p \in Procs, Record(p)
  PROVE  StepOK(p)
<1> DEFINE pt == call[p].patch
           f  == File(pt)
           t == EnsureLoaded(p)
           e == RecordedEntry(t.files[f], f, Marker(pt), text[p])
<1>1. /\ pt \in Patches /\ f \in Files /\ Marker(pt) \in Markers
      /\ call \in [Procs -> Calls] /\ call[p].at = "record" /\ ~call[p].orphan
      /\ disk[f] = text[p] /\ Marked(text[p], Marker(pt))
      /\ call[p].result \in {"APPLIED", "IDEMPOTENT"}
  BY ReadType DEF PatcherTypeOK, Calls, Record, PatcherInv, CallsOK, CallOK
<1>2. /\ UNCHANGED <<disk, stamp, clock, pin, cacheFile, text>>
      /\ call' = Goto(p, "done")
      /\ cache' = [cache EXCEPT ![p] = [t EXCEPT !.files[f] = e]]
  BY DEF Record
<1>3. t \in Caches /\ t.loaded
  BY EnsureType
<1>4. TableOK(t.files, pin) /\ Truthful(t.files)
  BY EnsureOK DEF PatcherInv
<1>5. e \in Entry /\ e.stamp = stamp[f] /\ \A k \in e.markers : Marked(disk[f], k)
  BY <1>1, <1>3, EntryType DEF PatcherTypeOK, Caches, Table
<1>6. /\ \A q \in Procs \ {p} : call'[q] = call[q]
      /\ call'[p].at = "done" /\ call'[p].patch = pt /\ ~call'[p].orphan
      /\ call'[p].result = call[p].result
  BY <1>1, <1>2, GotoType DEF Points
<1>7. CallOK(p)'
  BY <1>1, <1>2, <1>6 DEF CallOK
<1> HIDE DEF t, e, f
<1>8. /\ cache'[p].loaded
      /\ cache'[p].files = [t.files EXCEPT ![f] = e]
      /\ \A q \in Procs \ {p} : cache'[q] = cache[q]
  BY <1>2, <1>3 DEF PatcherTypeOK, Caches
<1>9. TableOK([t.files EXCEPT ![f] = e], pin)
  BY <1>1, <1>3, <1>4, <1>5 DEF TableOK, PatcherInv, FilesOK, Table, Caches
<1>10. Truthful([t.files EXCEPT ![f] = e])
  BY <1>1, <1>3, <1>4, <1>5 DEF Truthful, Table, Caches
<1>11. ASSUME NEW q \in Procs, cache'[q].loaded
       PROVE  TableOK(cache'[q].files, pin) /\ Truthful(cache'[q].files)
  <2>1. CASE q = p
    BY <1>8, <1>9, <1>10, <2>1
  <2>2. CASE q # p
    BY <1>8, <1>11, <2>2 DEF PatcherInv, TablesOK, CacheTruthful
  <2> QED
    BY <2>1, <2>2
<1>12. \A q \in Procs : cache'[q].loaded =>
         TableOK(cache[q].files, pin)' /\ Truthful(cache[q].files)'
  BY <1>2, <1>11 DEF TableOK, Truthful
<1>13. FilesOK' /\ TableOK(cacheFile.files, cacheFile.pin)'
  BY <1>2 DEF PatcherInv, FilesOK, TablesOK, TableOK
<1>14. (PinMatches => Truthful(cacheFile.files))'
  BY <1>2 DEF PatcherInv, CacheTruthful, PinMatches, Truthful
<1>15. FilesOK' /\ TablesOK' /\ CacheTruthful'
  BY <1>12, <1>13, <1>14 DEF TablesOK, CacheTruthful
<1> QED
  BY <1>1, <1>2, <1>6, <1>7, <1>15 DEF StepOK, Writing, Holds, f

LEMMA PatcherStepOK ==
  ASSUME TextAssumption, ConfigAssumption, PatcherTypeOK, PatcherInv,
         NEW p \in Procs, PatcherStep(p)
  PROVE  StepOK(p)
BY Layer0OK, LoadOK, TruncateOK, WriteOK, RereadOK, RecordOK DEF PatcherStep

LEMMA StepKeepsInv ==
  ASSUME TextAssumption, ConfigAssumption, PatcherTypeOK, PatcherInv,
         NEW p \in Procs, Alone(p), PatcherStep(p)
  PROVE  PatcherInv'
BY PatcherStepOK, AloneIsOK DEF StepOK, PatcherInv

(* A fault may empty or cut the file short; the call has failed then. *)
LEMMA FaultKeepsInv ==
  ASSUME TextAssumption, ConfigAssumption, PatcherTypeOK, PatcherInv,
         NEW p \in Procs, Alone(p), PatcherFault(p)
  PROVE  /\ PatcherInv'
         /\ call'[p].at = "done" /\ call'[p].patch = call[p].patch
         /\ call'[p].result \in {"SKIPPED", "FAILED"}
         /\ call'[p].result = "SKIPPED" => call[p].at = "load"
         /\ \A q \in Procs \ {p} : call'[q] = call[q]
         /\ \A f \in Files : disk'[f] # disk[f] => f = File(call[p].patch) /\ Writing(p)
         /\ call[p].at # "write" => disk' = disk
<1>1. /\ call[p].at \in {"load", "open", "reread", "write"}
      /\ \/ call[p].at = "load" /\ call' = Moved(p, "done", "SKIPPED")
         \/ call[p].at # "load" /\ call' = Moved(p, "done", "FAILED")
      /\ call[p].at # "write" => UNCHANGED <<disk, stamp, clock>>
      /\ UNCHANGED <<pin, cacheFile, cache, text>>
  BY FaultIs
<1>2. PICK c : Wrote(File(call[p].patch), c)
  BY FaultIs
<1>3. call \in [Procs -> Calls] /\ ~call[p].orphan
  BY DEF PatcherTypeOK, Calls, PatcherInv, CallsOK, CallOK
<1>4. /\ call'[p].at = "done" /\ call'[p].patch = call[p].patch /\ ~call'[p].orphan
      /\ call'[p].result \in {"SKIPPED", "FAILED"}
      /\ call'[p].result = "SKIPPED" => call[p].at = "load"
      /\ \A q \in Procs \ {p} : call'[q] = call[q]
  BY <1>1, <1>3, MovedType, SMTT(30) DEF Points, Results
<1>5. FilesOK' /\ TablesOK' /\ CacheTruthful'
  BY <1>1, <1>2, WriteKeepsTables DEF Wrote, PatcherInv
<1>6. CallOK(p)'
  BY <1>4 DEF CallOK
<1>7. CallsOK'
  BY <1>4, <1>6, AloneIsOK DEF PatcherInv
<1>8. \A f \in Files : disk'[f] # disk[f] => f = File(call[p].patch) /\ Writing(p)
  BY <1>1, <1>2, WroteType DEF Writing
<1> QED
  BY <1>1, <1>4, <1>5, <1>7, <1>8 DEF PatcherInv

(* The caller starts a call, takes its result, or dies. *)
LEMMA TurnKeepsInv ==
  ASSUME TextAssumption, ConfigAssumption, PatcherTypeOK, PatcherInv, NEW p \in Procs, Alone(p),
         \A q \in Procs \ {p} : call'[q] = call[q],
         call'[p].at \in {"idle", "layer0"}, ~call'[p].orphan,
         \A q \in Procs : cache'[q] = cache[q] \/ ~cache'[q].loaded,
         NEW f, NEW c, Wrote(f, c), UNCHANGED <<pin, cacheFile>>
  PROVE  PatcherInv'
<1>1. FilesOK' /\ TablesOK' /\ CacheTruthful'
  BY WriteKeepsTables DEF Wrote, PatcherInv
<1>2. CallOK(p)'
  BY DEF CallOK
<1>3. CallsOK'
  BY <1>2, AloneIsOK DEF PatcherInv
<1> QED
  BY <1>1, <1>3 DEF PatcherInv

LEMMA InitPatcherInv ==
  ASSUME TextAssumption, ConfigAssumption, PatcherInit
  PROVE  PatcherInv
<1>1. /\ PatcherTypeOK
      /\ \A p \in Procs : call[p].at = "idle" /\ ~cache[p].loaded /\ ~call[p].orphan
  BY InitPatcherType
<1>2. CallsOK
  BY <1>1, IdleIsOK DEF CallsOK
<1>3. FilesOK
  BY DEF FilesOK, PatcherInit, WheelStamp
<1>4. TablesOK /\ CacheTruthful
  <2>1. cacheFile.files = EmptyTable /\ cacheFile.pin = pin
    BY DEF PatcherInit
  <2>2. TableOK(EmptyTable, pin) /\ Truthful(EmptyTable)
    BY DEF TableOK, Truthful, EmptyTable, NoEntry, PatcherInit, WheelStamp
  <2> QED
    BY <1>1, <2>1, <2>2 DEF TablesOK, CacheTruthful
<1> QED
  BY <1>2, <1>3, <1>4 DEF PatcherInv

(* What a step or a fault of a call by p leaves alone. *)
LEMMA StepFrame ==
  ASSUME PatcherTypeOK, NEW p \in Procs, PatcherStep(p) \/ PatcherFault(p)
  PROVE  /\ call[p].at # "idle" /\ call'[p].patch = call[p].patch
         /\ \A q \in Procs \ {p} : call'[q] = call[q] /\ cache'[q] = cache[q]
         /\ UNCHANGED <<pin, cacheFile>>
         /\ (call[p].at = "record" => call[p].result # "none") =>
              (call'[p].at \in {"record", "done"} => call'[p].result # "none")
<1>1. /\ call[p].at # "idle" /\ UNCHANGED <<pin, cacheFile>>
      /\ cache' = cache \/ (Layer0(p) \/ Record(p))
  BY DEF PatcherStep, PatcherFault, Layer0, LoadSkips, LoadFindsMarker, LoadRewrites, Truncate,
         Write, Reread, Record, OpenFails, WriteFails
<1>2. /\ \A q \in Procs \ {p} : call'[q] = call[q]
      /\ call'[p].patch = call[p].patch
  <2>1. \E pc, r : call' = Goto(p, pc) \/ call' = Return(p, r) \/ call' = Moved(p, pc, r)
    <3>1. CASE Layer0(p) \/ LoadSkips(p) \/ LoadFindsMarker(p) \/ LoadRewrites(p)
      BY <3>1 DEF Layer0, LoadSkips, LoadFindsMarker, LoadRewrites, Moved
    <3>2. CASE Truncate(p) \/ Write(p) \/ Reread(p) \/ Record(p)
      BY <3>2 DEF Truncate, Write, Reread, Record, Moved
    <3>3. CASE PatcherFault(p)
      BY <3>3 DEF PatcherFault, OpenFails, WriteFails
    <3> QED
      BY <3>1, <3>2, <3>3 DEF PatcherStep
  <2> QED
    BY <2>1 DEF Goto, Return, Moved, PatcherTypeOK
<1>3. \A q \in Procs \ {p} : cache'[q] = cache[q]
  BY <1>1 DEF Layer0, Record, PatcherTypeOK
<1>4. ASSUME call[p].at = "record" => call[p].result # "none",
             call'[p].at \in {"record", "done"}
      PROVE  call'[p].result # "none"
  <2>1. \/ call' = Goto(p, "done") /\ call[p].at = "record"
        \/ \E pc \in {"load", "open", "write", "reread"} : call' = Goto(p, pc)
        \/ \E pc, r : r # "none" /\ call' = Moved(p, pc, r)
    BY DEF PatcherStep, PatcherFault, Layer0, LoadSkips, LoadFindsMarker, LoadRewrites, Truncate,
           Write, Reread, Record, OpenFails, WriteFails, Moved, Return
  <2>2. call \in [Procs -> Calls]
    BY DEF PatcherTypeOK, Calls
  <2>3. CASE call' = Goto(p, "done") /\ call[p].at = "record"
    BY <1>4, <2>2, <2>3 DEF Goto, Calls
  <2>4. CASE \E pc \in {"load", "open", "write", "reread"} : call' = Goto(p, pc)
    BY <1>4, <2>2, <2>4 DEF Goto, Calls
  <2>5. CASE \E pc, r : r # "none" /\ call' = Moved(p, pc, r)
    BY <2>2, <2>5 DEF Moved, Calls
  <2> QED
    BY <2>1, <2>3, <2>4, <2>5
<1> QED
  BY <1>1, <1>2, <1>3, <1>4

-----------------------------------------------------------------------------
(* Cutting l tokens out of a text at position p and putting r there.       *)

Cut(t, p, l, r) == (SubSeq(t, 1, p - 1) \o r) \o SubSeq(t, p + l, Len(t))

IsCut(x, t, p, l, r) ==
  /\ Len(x) = Len(t) - l + Len(r)
  /\ \A k \in 1 .. p - 1 : x[k] = t[k]
  /\ \A k \in p .. p + Len(r) - 1 : x[k] = r[k - p + 1]
  /\ \A k \in p + Len(r) .. Len(t) - l + Len(r) : x[k] = t[k - Len(r) + l]

(* What is where in a text with a cut.                                     *)
LEMMA CutIs ==
  ASSUME NEW T, NEW t \in Seq(T), NEW r \in Seq(T),
         NEW p \in Nat \ {0}, NEW l \in Nat, p + l <= Len(t) + 1
  PROVE  Cut(t, p, l, r) \in Seq(T) /\ IsCut(Cut(t, p, l, r), t, p, l, r)
<1> DEFINE pre == SubSeq(t, 1, p - 1)
           suf == SubSeq(t, p + l, Len(t))
           head == pre \o r
<1>1. Len(t) \in Nat /\ Len(r) \in Nat
  BY LenProperties
<1>2. /\ pre \in Seq(T) /\ Len(pre) = p - 1
      /\ \A j \in 1 .. p - 1 : pre[j] = t[j]
  BY <1>1, SubSeqText
<1>3. /\ suf \in Seq(T) /\ Len(suf) = Len(t) - (p + l) + 1
      /\ \A j \in 1 .. Len(t) - (p + l) + 1 : suf[j] = t[p + l + j - 1]
  BY <1>1, SubSeqText
<1> HIDE DEF pre, suf
<1>4. /\ head \in Seq(T) /\ Len(head) = p - 1 + Len(r)
      /\ \A k \in 1 .. p - 1 + Len(r) : head[k] = IF k <= p - 1 THEN pre[k] ELSE r[k - (p - 1)]
  <2>1. /\ head \in Seq(T) /\ Len(head) = Len(pre) + Len(r)
        /\ \A k \in 1 .. Len(pre) + Len(r) : head[k] = IF k <= Len(pre) THEN pre[k] ELSE r[k - Len(pre)]
    BY <1>2, ConcatProperties
  <2> HIDE DEF head
  <2> QED
    BY <1>2, <2>1
<1> HIDE DEF head
<1> DEFINE full == head \o suf
<1>5. /\ full \in Seq(T) /\ Len(full) = Len(t) - l + Len(r)
      /\ \A k \in 1 .. Len(t) - l + Len(r) :
           full[k] = IF k <= p - 1 + Len(r) THEN head[k] ELSE suf[k - (p - 1 + Len(r))]
  <2>1. /\ full \in Seq(T) /\ Len(full) = Len(head) + Len(suf)
        /\ \A k \in 1 .. Len(head) + Len(suf) : full[k] = IF k <= Len(head) THEN head[k] ELSE suf[k - Len(head)]
    BY <1>3, <1>4, ConcatProperties
  <2>2. Len(head) + Len(suf) = Len(t) - l + Len(r)
    BY <1>1, <1>3, <1>4
  <2> HIDE DEF full
  <2> QED
    BY <1>4, <2>1, <2>2
<1>6. Cut(t, p, l, r) = full
  BY DEF Cut, full, head, pre, suf
<1> HIDE DEF full
<1>7. ASSUME NEW k \in 1 .. p - 1 PROVE full[k] = t[k]
  <2>1. k \in 1 .. p - 1 + Len(r) /\ k \in 1 .. Len(t) - l + Len(r) /\ k <= p - 1 + Len(r)
    BY <1>1
  <2> QED
    BY <1>2, <1>4, <1>5, <2>1
<1>8. ASSUME NEW k \in p .. p + Len(r) - 1 PROVE full[k] = r[k - p + 1]
  <2>1. k \in 1 .. p - 1 + Len(r) /\ k \in 1 .. Len(t) - l + Len(r)
        /\ k <= p - 1 + Len(r) /\ ~(k <= p - 1) /\ k - (p - 1) = k - p + 1
    BY <1>1
  <2>2. full[k] = head[k]
    BY <1>5, <2>1
  <2>3. head[k] = r[k - (p - 1)]
    BY <1>4, <2>1
  <2> QED
    BY <2>1, <2>2, <2>3
<1>9. ASSUME NEW k \in p + Len(r) .. Len(t) - l + Len(r)
      PROVE  full[k] = t[k - Len(r) + l]
  <2>1. /\ k \in 1 .. Len(t) - l + Len(r) /\ ~(k <= p - 1 + Len(r))
        /\ k - (p - 1 + Len(r)) \in 1 .. Len(t) - (p + l) + 1
        /\ p + l + (k - (p - 1 + Len(r))) - 1 = k - Len(r) + l
    BY <1>1
  <2> QED
    BY <1>3, <1>5, <2>1
<1> QED
  BY <1>5, <1>6, <1>7, <1>8, <1>9 DEF IsCut

(* Two cuts that do not meet may be made in either order. *)
LEMMA CutsCommute ==
  ASSUME NEW T, NEW t \in Seq(T), NEW r \in Seq(T), NEW s \in Seq(T),
         NEW p \in Nat \ {0}, NEW l \in Nat, NEW q \in Nat, NEW m \in Nat,
         p + l <= q, q + m <= Len(t) + 1
  PROVE  Cut(Cut(t, p, l, r), q - l + Len(r), m, s) = Cut(Cut(t, q, m, s), p, l, r)
<1> DEFINE a  == Cut(t, p, l, r)
           x  == q - l + Len(r)
           ab == Cut(a, x, m, s)
           b  == Cut(t, q, m, s)
           ba == Cut(b, p, l, r)
           n  == Len(t) - l + Len(r) - m + Len(s)
<1>1. /\ Len(t) \in Nat /\ Len(r) \in Nat /\ Len(s) \in Nat
      /\ p \in Nat /\ 1 <= p
  BY LenProperties
<1>2. a \in Seq(T) /\ IsCut(a, t, p, l, r)
  <2>1. p + l <= Len(t) + 1
    BY <1>1
  <2> QED
    BY <2>1, CutIs
<1>3. b \in Seq(T) /\ IsCut(b, t, q, m, s)
  <2>1. q \in Nat \ {0}
    BY <1>1
  <2> QED
    BY <2>1, CutIs
<1> HIDE DEF a, b
<1>4. ab \in Seq(T) /\ IsCut(ab, a, x, m, s) /\ Len(ab) = n
  <2>1. x \in Nat \ {0} /\ x + m <= Len(a) + 1
    <3>1. Len(a) = Len(t) - l + Len(r)
      BY <1>2 DEF IsCut
    <3>2. x \in Nat \ {0}
      BY <1>1
    <3>3. x + m <= Len(t) - l + Len(r) + 1
      BY <1>1
    <3> QED
      BY <3>1, <3>2, <3>3
  <2>2. ab \in Seq(T) /\ IsCut(ab, a, x, m, s)
    BY <1>2, <2>1, CutIs
  <2> QED
    BY <1>1, <1>2, <2>2 DEF IsCut
<1>5. ba \in Seq(T) /\ IsCut(ba, b, p, l, r) /\ Len(ba) = n
  <2>1. p + l <= Len(b) + 1
    BY <1>1, <1>3 DEF IsCut
  <2>2. ba \in Seq(T) /\ IsCut(ba, b, p, l, r)
    BY <1>3, <2>1, CutIs
  <2> QED
    BY <1>1, <1>3, <2>2 DEF IsCut
<1> HIDE DEF ab, ba
<1>8. /\ n \in Int /\ x \in Int
      /\ x = q - l + Len(r) /\ n = Len(t) - l + Len(r) - m + Len(s)
  BY <1>1
<1> HIDE DEF x, n
<1>9. Len(a) = Len(t) - l + Len(r) /\ Len(b) = Len(t) - m + Len(s)
  BY <1>2, <1>3 DEF IsCut
<1>6. ASSUME NEW k \in 1 .. n PROVE ab[k] = ba[k]
  <2>1. CASE k <= p - 1
    <3>1. k \in 1 .. p - 1 /\ k \in 1 .. q - 1 /\ k \in 1 .. x - 1
      BY <1>1, <1>8, <2>1
    <3>2. ab[k] = a[k] /\ a[k] = t[k] /\ b[k] = t[k] /\ ba[k] = b[k]
      BY <1>2, <1>3, <1>4, <1>5, <3>1 DEF IsCut
    <3> QED
      BY <3>2
  <2>2. CASE p <= k /\ k <= p + Len(r) - 1
    <3>1. k \in p .. p + Len(r) - 1 /\ k \in 1 .. x - 1
      BY <1>1, <1>8, <2>2
    <3>2. ab[k] = a[k] /\ a[k] = r[k - p + 1] /\ ba[k] = r[k - p + 1]
      BY <1>2, <1>4, <1>5, <3>1 DEF IsCut
    <3> QED
      BY <3>2
  <2>3. CASE p + Len(r) <= k /\ k <= x - 1
    <3> DEFINE j == k - Len(r) + l
    <3>1. /\ k \in 1 .. x - 1 /\ k \in p + Len(r) .. Len(t) - l + Len(r)
          /\ j \in 1 .. q - 1 /\ k \in p + Len(r) .. Len(b) - l + Len(r)
      BY <1>1, <1>8, <1>9, <2>3
    <3>2. ab[k] = a[k] /\ a[k] = t[j] /\ ba[k] = b[j]
      BY <1>2, <1>4, <1>5, <3>1 DEF IsCut
    <3>3. b[j] = t[j]
      BY <1>3, <3>1 DEF IsCut
    <3> QED
      BY <3>2, <3>3
  <2>4. CASE x <= k /\ k <= x + Len(s) - 1
    <3> DEFINE j == k - Len(r) + l
    <3>1. /\ k \in x .. x + Len(s) - 1 /\ k \in p + Len(r) .. Len(b) - l + Len(r)
          /\ j \in q .. q + Len(s) - 1 /\ j - q + 1 = k - x + 1
      BY <1>1, <1>8, <1>9, <2>4
    <3>2. ab[k] = s[k - x + 1] /\ ba[k] = b[j]
      BY <1>4, <1>5, <3>1 DEF IsCut
    <3>3. b[j] = s[j - q + 1]
      <4> HIDE DEF j
      <4> QED
        BY <1>3, <3>1 DEF IsCut
    <3> QED
      BY <3>1, <3>2, <3>3
  <2>5. CASE x + Len(s) <= k
    <3> DEFINE i == k - Len(s) + m
               j == k - Len(r) + l
    <3>1. /\ k \in x + Len(s) .. Len(a) - m + Len(s)
          /\ k \in p + Len(r) .. Len(b) - l + Len(r)
          /\ i \in p + Len(r) .. Len(t) - l + Len(r)
          /\ j \in q + Len(s) .. Len(t) - m + Len(s)
          /\ i - Len(r) + l = j - Len(s) + m
      BY <1>1, <1>8, <1>9, <2>5
    <3>2. ab[k] = a[i] /\ ba[k] = b[j]
      BY <1>4, <1>5, <3>1 DEF IsCut
    <3>3. a[i] = t[i - Len(r) + l] /\ b[j] = t[j - Len(s) + m]
      <4> HIDE DEF i, j
      <4> QED
        BY <1>2, <1>3, <3>1 DEF IsCut
    <3> QED
      BY <3>1, <3>2, <3>3
  <2>6. k \in Int
    OBVIOUS
  <2>7. /\ k <= p - 1 \/ p <= k
        /\ k <= p + Len(r) - 1 \/ p + Len(r) <= k
    BY <1>1, <2>6
  <2>8. /\ k <= x - 1 \/ x <= k
        /\ k <= x + Len(s) - 1 \/ x + Len(s) <= k
    BY <1>1, <1>8, <2>6
  <2> QED
    BY <2>1, <2>2, <2>3, <2>4, <2>5, <2>7, <2>8
<1>7. ab = ba
  BY <1>1, <1>4, <1>5, <1>6, <1>8, SeqEqual
<1> QED
  BY <1>7 DEF ab, ba, a, b, x

(* The scan's replacement and the manifest's splice are cuts. *)
LEMMA ReplacedIsCut ==
  ASSUME NEW sub, NEW t
  PROVE  Replaced(sub, t) = Cut(t, First(sub.anchor, t), Len(sub.anchor), sub.repl)
BY DEF Replaced, ReplaceSubSeqAt, Cut

LEMMA SpliceIsCut ==
  ASSUME NEW e, NEW p, NEW t, Len(t) \in Nat, First(e.anchor, p) \in Nat \ {0},
         First(e.anchor, p) - 1 <= Len(t)
  PROVE  Splice(e, p, t) = Cut(t, First(e.anchor, p), Len(e.anchor), e.repl)
<1> DEFINE at == First(e.anchor, p)
           ends == {at - 1, Len(t)}
<1>1. ends \in SUBSET Nat /\ ends # {} /\ at - 1 \in ends
  OBVIOUS
<1> HIDE DEF at
<1>2. Min(ends) = at - 1
  <2>1. Min(ends) \in ends /\ Min(ends) <= at - 1
    <3> HIDE DEF ends
    <3> QED
      BY <1>1, MinIsIn
  <2>2. at - 1 <= Len(t) /\ at \in Nat \ {0}
    BY DEF at
  <2> QED
    BY <2>1, <2>2
<1>3. Splice(e, p, t) = (SubSeq(t, 1, Min(ends)) \o e.repl) \o SubSeq(t, at + Len(e.anchor), Len(t))
  BY DEF Splice, at
<1> QED
  BY <1>2, <1>3 DEF Cut, at

-----------------------------------------------------------------------------
(* Where an anchor occurs.                                                 *)

(* An anchor occurs at k: its tokens stand there.                          *)
LEMMA OccursIs ==
  ASSUME NEW T, NEW a \in Seq(T), a # <<>>, NEW t \in Seq(T), NEW k
  PROVE  /\ Len(a) \in Nat \ {0}
         /\ k \in Occurrences(a, t) <=>
              /\ k \in 1 .. Len(t) - Len(a) + 1
              /\ \A j \in 1 .. Len(a) : t[k + j - 1] = a[j]
<1>1. Len(a) \in Nat \ {0} /\ Len(t) \in Nat
  BY LenProperties, EmptySeq
<1>2. ASSUME k \in 1 .. Len(t) - Len(a) + 1
      PROVE  SubSeq(t, k, k + Len(a) - 1) = a <=> \A j \in 1 .. Len(a) : t[k + j - 1] = a[j]
  <2> DEFINE u == SubSeq(t, k, k + Len(a) - 1)
  <2>1. k \in Nat \ {0} /\ k + Len(a) - 1 \in Int /\ k + Len(a) - 1 <= Len(t) /\ k <= k + Len(a) - 1
        /\ (k + Len(a) - 1) - k + 1 = Len(a)
    BY <1>1, <1>2
  <2>2. /\ u \in Seq(T) /\ Len(u) = (k + Len(a) - 1) - k + 1
        /\ \A j \in 1 .. (k + Len(a) - 1) - k + 1 : u[j] = t[k + j - 1]
    BY <2>1, SubSeqText
  <2> HIDE DEF u
  <2>3. /\ u \in Seq(T) /\ Len(u) = Len(a)
        /\ \A j \in 1 .. Len(a) : u[j] = t[k + j - 1]
    BY <2>1, <2>2
  <2>4. (\A j \in 1 .. Len(a) : u[j] = a[j]) => u = a
    BY <1>1, <2>3, SeqEqual
  <2> QED
    BY <2>3, <2>4 DEF u
<1> QED
  BY <1>1, <1>2 DEF Occurrences

(* X was made of c: the positions of free kept their tokens, their order   *)
(* and who stands next to whom; all else in X is foreign.                  *)
AlignedBy(f, free, foreign, c, X) ==
  /\ f \in [free -> 1 .. Len(X)]
  /\ \A q \in free : X[f[q]] = c[q]
  /\ \A q, r \in free : q < r => f[q] < f[r]
  /\ \A q \in free : q + 1 \in free => f[q + 1] = f[q] + 1
  /\ \A q, r \in free : f[r] = f[q] + 1 => r = q + 1
  /\ \A k \in 1 .. Len(X) : (\E q \in free : f[q] = k) \/ X[k] \in foreign

IsRun(q, n, free) == \A j \in 0 .. n : q + j \in free

MovesAsOne(f, q, n) == \A j \in 0 .. n : f[q + j] = f[q] + j

(* A run of free positions stays a run. *)
LEMMA RunMoves ==
  ASSUME NEW T, NEW X \in Seq(T), NEW c, NEW free \in SUBSET Nat, NEW foreign, NEW f,
         AlignedBy(f, free, foreign, c, X),
         NEW q \in Nat, NEW n \in Nat, IsRun(q, n, free)
  PROVE  MovesAsOne(f, q, n)
<1> DEFINE R == {j \in 0 .. n : f[q + j] = f[q] + j}
<1>5. \A r \in free : f[r] \in Nat
  BY LenProperties DEF AlignedBy
<1>1. /\ \A j \in 0 .. n : q + j \in free /\ f[q + j] \in Nat
      /\ 0 \in 0 .. n /\ q + 0 = q /\ q \in free /\ f[q] \in Nat
  <2>1. 0 \in 0 .. n /\ q + 0 = q
    OBVIOUS
  <2>2. q + 0 \in free
    BY <2>1 DEF IsRun
  <2> QED
    BY <1>5, <2>1, <2>2 DEF IsRun
<1>2. 0 \in R
  BY <1>1
<1>3. ASSUME NEW k \in 1 .. n, k - 1 \in R PROVE k \in R
  <2>1. k - 1 \in 0 .. n /\ k \in 0 .. n /\ q + (k - 1) \in free /\ q + k \in free
        /\ (q + (k - 1)) + 1 = q + k
    BY <1>1
  <2>2. f[q + k] = f[q + (k - 1)] + 1
    BY <2>1 DEF AlignedBy
  <2>3. f[q + (k - 1)] = f[q] + (k - 1) /\ f[q] \in Nat
    BY <1>1, <1>3
  <2> QED
    BY <2>1, <2>2, <2>3
<1> HIDE DEF R
<1>4. 0 .. n \subseteq R
  BY <1>2, <1>3, UpToInduction
<1> QED
  BY <1>4 DEF R, MovesAsOne

(* An occurrence in free positions is one in X, where it moved to.         *)
LEMMA OccurrenceMoves ==
  ASSUME NEW T, NEW c \in Seq(T), NEW X \in Seq(T),
         NEW free \in SUBSET (1 .. Len(c)), NEW foreign, NEW f,
         AlignedBy(f, free, foreign, c, X),
         NEW a \in Seq(T), a # <<>>, NEW q \in Occurrences(a, c),
         q .. q + Len(a) - 1 \subseteq free
  PROVE  f[q] \in Occurrences(a, X)
<1>1. /\ Len(a) \in Nat \ {0} /\ Len(c) \in Nat /\ Len(X) \in Nat
      /\ q \in 1 .. Len(c) - Len(a) + 1
      /\ \A j \in 1 .. Len(a) : c[q + j - 1] = a[j]
  BY OccursIs, LenProperties
<1> DEFINE n == Len(a) - 1
<1>2. q \in Nat /\ n \in Nat /\ free \in SUBSET Nat /\ \A j \in 0 .. n : q + j \in free
  <2>1. q \in Nat /\ n \in Nat /\ free \in SUBSET Nat
    BY <1>1
  <2>2. \A j \in 0 .. n : q + j \in q .. q + Len(a) - 1
    BY <1>1
  <2> QED
    BY <2>1, <2>2
<1> HIDE DEF n
<1>3. \A j \in 0 .. n : f[q + j] = f[q] + j
  <2>2. IsRun(q, n, free)
    BY <1>2 DEF IsRun
  <2>3. free \in SUBSET Nat /\ AlignedBy(f, free, foreign, c, X) /\ q \in Nat /\ n \in Nat
    BY <1>2
  <2>1. MovesAsOne(f, q, n)
    BY <2>2, <2>3, RunMoves
  <2> QED
    BY <2>1 DEF MovesAsOne
<1>4. \A j \in 0 .. n : q + j \in free /\ f[q + j] \in 1 .. Len(X) /\ X[f[q + j]] = c[q + j]
  BY <1>2 DEF AlignedBy
<1>7. f[q] \in Nat
  <2>1. q \in free
    BY <1>1
  <2> QED
    BY <1>1, <2>1 DEF AlignedBy
<1>5. ASSUME NEW j \in 1 .. Len(a) PROVE X[f[q] + j - 1] = a[j]
  <2>1. j - 1 \in 0 .. n
    BY <1>1 DEF n
  <2>2. f[q + (j - 1)] = f[q] + (j - 1) /\ X[f[q + (j - 1)]] = c[q + (j - 1)]
    BY <1>3, <1>4, <2>1
  <2>4. f[q] \in Nat
    BY <1>7
  <2>3. f[q] + (j - 1) = f[q] + j - 1 /\ q + (j - 1) = q + j - 1
    BY <1>2, <2>4
  <2> QED
    BY <1>1, <2>2, <2>3
<1>6. f[q] \in 1 .. Len(X) - Len(a) + 1
  <2>1. n \in 0 .. n /\ 0 \in 0 .. n /\ q + 0 = q
    BY <1>2
  <2>2. f[q + n] = f[q] + n /\ f[q + n] \in 1 .. Len(X) /\ f[q] \in 1 .. Len(X)
    BY <1>3, <1>4, <2>1
  <2> QED
    BY <1>1, <2>2 DEF n
<1> QED
  BY <1>5, <1>6, OccursIs

(* An anchor that has no foreign token occurs only where it did before. *)
LEMMA OccurrenceCame ==
  ASSUME NEW T, NEW c \in Seq(T), NEW X \in Seq(T),
         NEW free \in SUBSET (1 .. Len(c)), NEW foreign, NEW f,
         AlignedBy(f, free, foreign, c, X),
         NEW a \in Seq(T), a # <<>>, ToSet(a) \cap foreign = {},
         NEW k \in Occurrences(a, X)
  PROVE  \E q \in Occurrences(a, c) : q .. q + Len(a) - 1 \subseteq free /\ f[q] = k
<1>1. /\ Len(a) \in Nat \ {0} /\ Len(c) \in Nat /\ Len(X) \in Nat
      /\ k \in 1 .. Len(X) - Len(a) + 1
      /\ \A j \in 1 .. Len(a) : X[k + j - 1] = a[j]
  BY OccursIs, LenProperties
<1>2. ASSUME NEW j \in 1 .. Len(a) PROVE \E q \in free : f[q] = k + j - 1
  <2>1. k + j - 1 \in 1 .. Len(X) /\ X[k + j - 1] = a[j]
    BY <1>1
  <2>2. a[j] \in ToSet(a)
    BY <1>1 DEF ToSet
  <2> QED
    BY <2>1, <2>2 DEF AlignedBy
<1>3. PICK q \in free : f[q] = k
  <2>1. 1 \in 1 .. Len(a) /\ k + 1 - 1 = k
    BY <1>1
  <2> QED
    BY <1>2, <2>1
<1> DEFINE n == Len(a) - 1
           R == {j \in 0 .. n : q + j \in free /\ f[q + j] = k + j}
<1>4. n \in Nat /\ q \in Nat /\ k \in Nat
  BY <1>1
<1>5. 0 \in R
  BY <1>3, <1>4
<1>6. ASSUME NEW j \in 1 .. n, j - 1 \in R PROVE j \in R
  <2>1. j + 1 \in 1 .. Len(a) /\ k + (j + 1) - 1 = k + j
    BY <1>1, <1>4
  <2>2. PICK r \in free : f[r] = k + j
    BY <1>2, <2>1
  <2>3. q + (j - 1) \in free /\ f[q + (j - 1)] = k + (j - 1)
    BY <1>6
  <2>4. f[r] = f[q + (j - 1)] + 1
    BY <1>4, <2>2, <2>3
  <2>5. r = (q + (j - 1)) + 1
    BY <2>3, <2>4 DEF AlignedBy
  <2>6. r = q + j /\ j \in 0 .. n
    BY <1>4, <2>5
  <2> QED
    BY <2>2, <2>6
<1> HIDE DEF R
<1>7. 0 .. n \subseteq R
  BY <1>4, <1>5, <1>6, UpToInduction
<1>8. ASSUME NEW j \in 0 .. n PROVE q + j \in free /\ c[q + j] = a[j + 1]
  <2>1. q + j \in free /\ f[q + j] = k + j
    BY <1>7 DEF R
  <2>2. X[k + j] = c[q + j]
    BY <2>1 DEF AlignedBy
  <2>3. j + 1 \in 1 .. Len(a) /\ k + (j + 1) - 1 = k + j
    BY <1>1, <1>4
  <2> QED
    BY <1>1, <2>1, <2>2, <2>3
<1>9. q .. q + Len(a) - 1 \subseteq free
  <2> SUFFICES ASSUME NEW i \in q .. q + Len(a) - 1 PROVE i \in free
    OBVIOUS
  <2>1. i - q \in 0 .. n /\ q + (i - q) = i
    BY <1>1, <1>4
  <2> QED
    BY <1>8, <2>1
<1>10. q \in 1 .. Len(c) - Len(a) + 1
  <2>2. n \in 0 .. n
    BY <1>4
  <2>1. q + n \in 1 .. Len(c) /\ q \in 1 .. Len(c)
    BY <1>8, <2>2
  <2> QED
    BY <1>1, <2>1
<1>11. ASSUME NEW j \in 1 .. Len(a) PROVE c[q + j - 1] = a[j]
  <2>1. j - 1 \in 0 .. n /\ q + (j - 1) = q + j - 1 /\ (j - 1) + 1 = j
    BY <1>1, <1>4
  <2>2. c[q + (j - 1)] = a[(j - 1) + 1]
    BY <1>8, <2>1
  <2> QED
    BY <2>1, <2>2
<1>12. q \in Occurrences(a, c)
  BY <1>10, <1>11, OccursIs
<1> QED
  BY <1>3, <1>9, <1>12

(* The first occurrence, and that it is the only one str.count sees. *)
LEMMA FirstIs ==
  ASSUME NEW T, NEW a \in Seq(T), NEW t \in Seq(T), NEW o
  PROVE  /\ Has(a, t) => /\ First(a, t) \in Occurrences(a, t)
                         /\ \A q \in Occurrences(a, t) : First(a, t) <= q
         /\ o \in Occurrences(a, t) /\ (\A q \in Occurrences(a, t) : o <= q)
              => Has(a, t) /\ First(a, t) = o
<1>1. Occurrences(a, t) \in SUBSET Nat
  BY LenProperties DEF Occurrences
<1>2. Has(a, t) => /\ First(a, t) \in Occurrences(a, t)
                   /\ \A q \in Occurrences(a, t) : First(a, t) <= q
  BY <1>1, MinIsIn DEF Has, First
<1>3. ASSUME o \in Occurrences(a, t), \A q \in Occurrences(a, t) : o <= q
      PROVE  Has(a, t) /\ First(a, t) = o
  <2>1. Has(a, t)
    BY <1>3 DEF Has
  <2>2. o \in Nat /\ First(a, t) \in Nat /\ o <= First(a, t) /\ First(a, t) <= o
    BY <1>1, <1>2, <1>3, <2>1
  <2> QED
    BY <2>1, <2>2
<1> QED
  BY <1>2, <1>3

AnchorFree(a, c, free) == First(a, c) .. First(a, c) + Len(a) - 1 \subseteq free

(* An anchor whose one occurrence is free, and that has no foreign token,  *)
(* moves along and stays the only one.                                     *)
LEMMA AnchorMoves ==
  ASSUME NEW T, NEW c \in Seq(T), NEW X \in Seq(T),
         NEW free \in SUBSET (1 .. Len(c)), NEW foreign, NEW f,
         AlignedBy(f, free, foreign, c, X),
         NEW a \in Seq(T), a # <<>>, ToSet(a) \cap foreign = {}, Once(a, c), AnchorFree(a, c, free)
  PROVE  Once(a, X) /\ First(a, X) = f[First(a, c)]
<1> SUFFICES ASSUME First(a, c) .. First(a, c) + Len(a) - 1 \subseteq free
             PROVE  Once(a, X) /\ First(a, X) = f[First(a, c)]
  BY DEF AnchorFree
<1> DEFINE o == First(a, c)
           n == Len(a) - 1
<1>1. /\ o \in Occurrences(a, c) /\ Len(a) \in Nat \ {0}
      /\ \A q \in Occurrences(a, c) : o <= q /\ q < o + Len(a)
      /\ Occurrences(a, c) \in SUBSET Nat
  <2>1. Has(a, c)
    BY OnceHas
  <2>2. Occurrences(a, c) \in SUBSET Nat /\ Len(a) \in Nat \ {0}
    BY LenProperties, EmptySeq DEF Occurrences
  <2> QED
    BY <2>1, <2>2, FirstIs DEF Once
<1>2. f[o] \in Occurrences(a, X)
  BY <1>1, OccurrenceMoves
<1> HIDE DEF o
<1>3. MovesAsOne(f, o, n)
  <2>1. o \in Nat /\ n \in Nat /\ free \in SUBSET Nat
    BY <1>1
  <2>2. IsRun(o, n, free)
    <3>1. \A j \in 0 .. n : o + j \in o .. o + Len(a) - 1
      BY <1>1
    <3> QED
      BY <3>1 DEF IsRun, o
  <2> HIDE DEF n
  <2> QED
    BY <2>1, <2>2, RunMoves
<1>4. ASSUME NEW k \in Occurrences(a, X)
      PROVE  f[o] <= k /\ k < f[o] + Len(a)
  <2>1. PICK q \in Occurrences(a, c) : q .. q + Len(a) - 1 \subseteq free /\ f[q] = k
    BY OccurrenceCame
  <2>2. q - o \in 0 .. n /\ o + (q - o) = q
    BY <1>1, <2>1
  <2>3. f[q] = f[o] + (q - o)
    BY <1>3, <2>2 DEF MovesAsOne
  <2>4. f[o] \in Nat
    BY <1>2, LenProperties DEF Occurrences
  <2> QED
    BY <1>1, <2>1, <2>2, <2>3, <2>4
<1>5. Has(a, X) /\ First(a, X) = f[o]
  BY <1>2, <1>4, FirstIs
<1>6. Once(a, X)
  BY <1>4, <1>5 DEF Once
<1> QED
  BY <1>5, <1>6 DEF o

(* An anchor that does not occur, and has no foreign token, will not.      *)
LEMMA NoneMoves ==
  ASSUME NEW T, NEW c \in Seq(T), NEW X \in Seq(T),
         NEW free \in SUBSET (1 .. Len(c)), NEW foreign, NEW f,
         AlignedBy(f, free, foreign, c, X),
         NEW a \in Seq(T), a # <<>>, ToSet(a) \cap foreign = {}, ~Has(a, c)
  PROVE  ~Has(a, X)
<1> SUFFICES ASSUME NEW k \in Occurrences(a, X) PROVE FALSE
  BY DEF Has
<1>1. \E q \in Occurrences(a, c) : q .. q + Len(a) - 1 \subseteq free /\ f[q] = k
  BY OccurrenceCame
<1> QED
  BY <1>1 DEF Has

(* A token of X is one of c or foreign. *)
LEMMA AlignedTokens ==
  ASSUME NEW c, NEW free \in SUBSET DOMAIN c, NEW foreign, NEW f, NEW T, NEW X \in Seq(T),
         AlignedBy(f, free, foreign, c, X), NEW m, m \in ToSet(X)
  PROVE  m \in foreign \/ m \in ToSet(c)
<1>1. PICK k \in 1 .. Len(X) : X[k] = m
  BY LenProperties DEF ToSet
<1>2. CASE m \in foreign
  BY <1>2
<1>3. CASE m \notin foreign
  <2>1. PICK q \in free : f[q] = k
    BY <1>1, <1>3 DEF AlignedBy
  <2>2. c[q] = m
    BY <1>1, <2>1 DEF AlignedBy
  <2> QED
    BY <2>2 DEF ToSet
<1> QED
  BY <1>2, <1>3

(* To begin with every position is free and nothing foreign.               *)
LEMMA StartAligns ==
  ASSUME NEW T, NEW c \in Seq(T)
  PROVE  AlignedBy([q \in 1 .. Len(c) |-> q], 1 .. Len(c), {}, c, c)
<1>1. Len(c) \in Nat
  BY LenProperties
<1> QED
  BY <1>1 DEF AlignedBy

(* Replacing a run of free positions by r aligns what is left.             *)
CutMap(f, o, l, n, free) ==
  [q \in free \ (o .. o + l - 1) |-> IF q < o THEN f[q] ELSE f[q] + n - l]

FreeRun(o, l, free) == o \in Nat /\ l \in Nat \ {0} /\ o .. o + l - 1 \subseteq free

CutFits(f, o, l, r, free, foreign, c, X, T) ==
  /\ f[o] \in Nat \ {0} /\ f[o] + l <= Len(X) + 1
  /\ Cut(X, f[o], l, r) \in Seq(T)
  /\ AlignedBy(CutMap(f, o, l, Len(r), free), free \ (o .. o + l - 1),
               foreign \cup ToSet(r), c, Cut(X, f[o], l, r))

(* So the text goes on being aligned.                                      *)
LEMMA CutAligns ==
  ASSUME NEW T, NEW c \in Seq(T), NEW X \in Seq(T),
         NEW free \in SUBSET (1 .. Len(c)), NEW foreign, NEW f,
         AlignedBy(f, free, foreign, c, X),
         NEW o, NEW l, FreeRun(o, l, free),
         NEW r \in Seq(T), r # <<>>
  PROVE  CutFits(f, o, l, r, free, foreign, c, X, T)
<1> SUFFICES ASSUME o \in Nat, l \in Nat \ {0}, o .. o + l - 1 \subseteq free
             PROVE  CutFits(f, o, l, r, free, foreign, c, X, T)
  BY DEF FreeRun
<1> DEFINE n  == Len(r)
           p  == f[o]
           Y  == Cut(X, p, l, r)
           left == free \ (o .. o + l - 1)
           g  == CutMap(f, o, l, n, free)
           here == foreign \cup ToSet(r)
<1>1. /\ n \in Nat \ {0} /\ Len(X) \in Nat /\ Len(c) \in Nat
      /\ free \in SUBSET Nat /\ l \in Nat /\ 1 <= l /\ o \in Nat
  BY LenProperties, EmptySeq
<1>2. \A q \in free : f[q] \in Nat /\ 1 <= f[q] /\ f[q] <= Len(X)
  BY <1>1 DEF AlignedBy
<1>3. \A j \in 0 .. l - 1 : o + j \in free /\ f[o + j] = p + j
  <2>1. IsRun(o, l - 1, free)
    <3>1. \A j \in 0 .. l - 1 : o + j \in o .. o + l - 1
      BY <1>1
    <3> QED
      BY <3>1 DEF IsRun
  <2>2. l - 1 \in Nat
    BY <1>1
  <2>3. MovesAsOne(f, o, l - 1)
    BY <1>1, <2>1, <2>2, RunMoves
  <2> QED
    BY <2>1, <2>3 DEF IsRun, MovesAsOne
<1>4. o \in free /\ o + l - 1 \in free /\ p \in Nat /\ 1 <= p /\ p + l <= Len(X) + 1
      /\ f[o + l - 1] = p + l - 1
  <2>1. l - 1 \in 0 .. l - 1 /\ 0 \in 0 .. l - 1 /\ o + (l - 1) = o + l - 1 /\ o + 0 = o
    BY <1>1
  <2>2. o \in free /\ o + l - 1 \in free /\ f[o + l - 1] = p + (l - 1)
    BY <1>3, <2>1
  <2> QED
    BY <1>1, <1>2, <2>2
<1> HIDE DEF p, n
<1>5. Y \in Seq(T) /\ IsCut(Y, X, p, l, r) /\ Len(Y) = Len(X) - l + n
  <2>2. p \in Nat \ {0} /\ l \in Nat /\ p + l <= Len(X) + 1
    BY <1>1, <1>4
  <2>1. Y \in Seq(T) /\ IsCut(Y, X, p, l, r)
    BY <2>2, CutIs
  <2> QED
    BY <2>1 DEF IsCut, n
<1> HIDE DEF Y
<1>6. /\ \A q \in left : q < o \/ o + l <= q
      /\ left \subseteq free
      /\ \A q \in left : g[q] = IF q < o THEN f[q] ELSE f[q] + n - l
      /\ g = [q \in left |-> g[q]]
  BY <1>1 DEF CutMap
<1>7. \A q, s \in free : q < s => f[q] < f[s]
  BY DEF AlignedBy
(* Before the cut nothing moves, behind it everything moves by n - l. *)
<1>8. \A q \in left : q < o => f[q] < p /\ g[q] = f[q]
  BY <1>4, <1>6, <1>7 DEF p
<1>9. ASSUME NEW q \in left, o + l <= q
      PROVE  p + l <= f[q] /\ g[q] = f[q] + n - l /\ p + n <= g[q]
  <2>1. o + l - 1 < q /\ q \in free /\ ~(q < o)
    BY <1>1, <1>6, <1>9
  <2>2. p + l - 1 < f[q] /\ f[q] \in Nat
    BY <1>2, <1>4, <1>7, <2>1
  <2>3. g[q] = f[q] + n - l
    BY <1>6, <2>1
  <2> HIDE DEF g
  <2>4. p \in Int /\ l \in Int /\ n \in Int /\ f[q] \in Int
    BY <1>1, <1>4, <2>2
  <2>5. p + l <= f[q]
    BY <2>2, <2>4
  <2>6. p + n <= f[q] + n - l
    BY <2>4, <2>5
  <2> QED
    BY <2>3, <2>5, <2>6
<1> HIDE DEF left, g
<1>10. \A q \in left : q \in free /\ q \in Nat /\ f[q] \in Nat /\ 1 <= f[q] /\ f[q] <= Len(X)
  BY <1>1, <1>2, <1>6
<1>11. \A q \in left : g[q] \in 1 .. Len(Y)
  <2> TAKE q \in left
  <2>1. CASE q < o
    BY <1>1, <1>4, <1>5, <1>8, <1>10, <2>1
  <2>2. CASE o + l <= q
    <3>1. g[q] = f[q] + n - l /\ p + n <= g[q] /\ f[q] \in Nat /\ f[q] <= Len(X)
      BY <1>9, <1>10, <2>2
    <3>2. p + n <= f[q] + n - l
      BY <3>1
    <3>3. f[q] + n - l \in 1 .. Len(Y)
      BY <1>1, <1>4, <1>5, <3>1, <3>2
    <3> QED
      BY <3>1, <3>3
  <2> QED
    BY <1>6, <2>1, <2>2
<1>12. \A q \in left : Y[g[q]] = c[q]
  <2> TAKE q \in left
  <2>0. X[f[q]] = c[q]
    BY <1>10 DEF AlignedBy
  <2>1. CASE q < o
    <3>1. g[q] = f[q] /\ f[q] \in 1 .. p - 1
      BY <1>4, <1>8, <1>10, <2>1
    <3>2. Y[f[q]] = X[f[q]]
      BY <1>5, <3>1 DEF IsCut
    <3> QED
      BY <2>0, <3>1, <3>2
  <2>2. CASE o + l <= q
    <3> DEFINE k == f[q] + n - l
    <3>1. g[q] = k /\ k \in p + n .. Len(X) - l + n /\ k - n + l = f[q]
      BY <1>1, <1>4, <1>9, <1>10, <2>2
    <3>2. Y[k] = X[k - n + l]
      <4> HIDE DEF k
      <4> QED
        BY <1>5, <3>1 DEF IsCut, n
    <3> QED
      BY <2>0, <3>1, <3>2
  <2> QED
    BY <1>6, <2>1, <2>2
<1>13. ASSUME NEW q \in left, NEW s \in left, q < s PROVE g[q] < g[s]
  <2>1. f[q] < f[s]
    BY <1>7, <1>10, <1>13
  <2>2. CASE s < o
    BY <1>8, <1>10, <1>13, <2>1, <2>2
  <2>3. CASE q < o /\ o + l <= s
    <3>1. g[q] = f[q] /\ f[q] < p /\ f[q] \in Nat
      BY <1>8, <1>10, <2>3
    <3>2. p + n <= g[s] /\ g[s] \in Nat
      BY <1>9, <1>11, <2>3
    <3> QED
      BY <1>1, <1>4, <3>1, <3>2
  <2>4. CASE o + l <= q
    BY <1>1, <1>9, <1>10, <1>13, <2>1, <2>4
  <2> QED
    BY <1>6, <1>10, <1>13, <2>2, <2>3, <2>4
<1>14. ASSUME NEW q \in left, q + 1 \in left PROVE g[q + 1] = g[q] + 1
  <2>1. f[q + 1] = f[q] + 1
    BY <1>10, <1>14 DEF AlignedBy
  <2>2. CASE q + 1 < o
    BY <1>8, <1>10, <1>14, <2>1, <2>2
  <2>3. CASE o + l <= q
    <3>1. o + l <= q + 1
      BY <1>1, <1>10, <2>3
    <3> QED
      BY <1>1, <1>9, <1>10, <1>14, <2>1, <2>3, <3>1
  <2>4. ~(q < o /\ o + l <= q + 1)
    <3>1. q \in Int /\ o \in Int /\ l \in Int /\ 1 <= l
      BY <1>1, <1>10
    <3> QED
      BY <3>1
  <2>5. (q < o \/ o + l <= q) /\ (q + 1 < o \/ o + l <= q + 1)
    BY <1>6, <1>14
  <2> QED
    BY <2>2, <2>3, <2>4, <2>5
<1>15. ASSUME NEW q \in left, NEW s \in left, g[s] = g[q] + 1 PROVE s = q + 1
  <2>1. CASE q < o /\ s < o
    <3>1. f[s] = f[q] + 1
      BY <1>8, <1>15, <2>1
    <3> QED
      BY <1>10, <3>1 DEF AlignedBy
  <2>2. CASE o + l <= q /\ o + l <= s
    <3>1. f[s] = f[q] + 1
      <4>1. g[s] = f[s] + n - l /\ g[q] = f[q] + n - l
        BY <1>9, <2>2
      <4>2. f[s] \in Nat /\ f[q] \in Nat
        BY <1>10
      <4> QED
        BY <1>1, <1>15, <4>1, <4>2
    <3> QED
      BY <1>10, <3>1 DEF AlignedBy
  <2>3. CASE q < o /\ o + l <= s
    <3>1. g[q] < p /\ g[q] \in Nat
      BY <1>8, <1>10, <2>3
    <3>2. p + n <= g[s] /\ g[s] \in Nat
      BY <1>9, <1>11, <2>3
    <3> QED
      BY <1>1, <1>4, <1>15, <3>1, <3>2
  <2>4. CASE s < o /\ o + l <= q
    <3>1. g[s] < p /\ g[s] \in Nat
      BY <1>8, <1>10, <2>4
    <3>2. p + n <= g[q] /\ g[q] \in Nat
      BY <1>9, <1>11, <2>4
    <3> QED
      BY <1>1, <1>4, <1>15, <3>1, <3>2
  <2> QED
    BY <1>6, <2>1, <2>2, <2>3, <2>4
<1>16. ASSUME NEW k \in 1 .. Len(Y) PROVE (\E q \in left : g[q] = k) \/ Y[k] \in here
  <2>1. CASE k <= p - 1
    <3>1. k \in 1 .. Len(X) /\ k \in 1 .. p - 1
      BY <1>1, <1>4, <2>1
    <3>2. Y[k] = X[k]
      BY <1>5, <3>1 DEF IsCut
    <3>3. CASE X[k] \in foreign
      BY <3>2, <3>3
    <3>4. CASE X[k] \notin foreign
      <4>1. PICK q \in free : f[q] = k
        BY <3>1, <3>4 DEF AlignedBy
      <4>2. q < o
        <5>1. q \in Nat /\ ~(o < q) /\ q # o
          BY <1>1, <1>4, <1>7, <2>1, <4>1 DEF p
        <5> QED
          BY <5>1
      <4>3. q \in left
        BY <1>1, <4>1, <4>2 DEF left
      <4> QED
        BY <1>8, <4>1, <4>2, <4>3
    <3> QED
      BY <3>3, <3>4
  <2>2. CASE p <= k /\ k <= p + n - 1
    <3>1. k \in p .. p + n - 1 /\ k - p + 1 \in 1 .. n
      BY <1>1, <1>4, <2>2
    <3>2. Y[k] = r[k - p + 1]
      BY <1>5, <3>1 DEF IsCut, n
    <3>3. r[k - p + 1] \in ToSet(r)
      BY <3>1, LenProperties DEF ToSet, n
    <3> QED
      BY <3>2, <3>3
  <2>3. CASE p + n <= k
    <3> DEFINE j == k - n + l
    <3>1. k \in p + n .. Len(X) - l + n /\ j \in 1 .. Len(X) /\ p + l <= j /\ j + n - l = k
      BY <1>1, <1>4, <1>5, <2>3
    <3>2. Y[k] = X[j]
      BY <1>5, <3>1 DEF IsCut, n
    <3> HIDE DEF j
    <3>3. CASE X[j] \in foreign
      BY <3>2, <3>3
    <3>4. CASE X[j] \notin foreign
      <4>1. PICK q \in free : f[q] = j
        BY <3>1, <3>4 DEF AlignedBy
      <4>2. o + l <= q
        <5>2. f[q] \in Nat /\ p + l - 1 < f[q] /\ q \in Nat /\ o + l - 1 \in Nat
          <6>1. f[q] \in Nat /\ q \in Nat /\ p + l <= f[q]
            BY <1>1, <1>2, <3>1, <4>1
          <6>2. p \in Nat /\ l \in Nat /\ 1 <= l /\ o \in Nat
            BY <1>1, <1>4
          <6> QED
            BY <6>1, <6>2
        <5>3. q # o + l - 1
          <6>1. f[o + l - 1] = p + l - 1 /\ p \in Nat
            BY <1>4
          <6>2. f[q] # p + l - 1
            BY <1>1, <5>2, <6>1
          <6> QED
            BY <6>1, <6>2
        <5>4. q < o + l - 1 => f[q] < p + l - 1
          BY <1>4, <1>7, <4>1
        <5>1. q \in Nat /\ o + l - 1 \in Nat /\ q # o + l - 1 /\ ~(q < o + l - 1)
          BY <1>1, <1>4, <5>2, <5>3, <5>4
        <5> QED
          BY <1>1, <5>1
      <4>3. q \in left
        BY <1>1, <4>1, <4>2 DEF left
      <4>4. g[q] = k
        BY <1>9, <3>1, <4>1, <4>2, <4>3
      <4> QED
        BY <4>3, <4>4
    <3> QED
      BY <3>3, <3>4
  <2> QED
    BY <1>1, <1>4, <2>1, <2>2, <2>3
<1>17. g \in [left -> 1 .. Len(Y)]
  BY <1>6, <1>11
<1>18. AlignedBy(g, left, here, c, Y)
  <2> HIDE DEF here
  <2> QED
    BY <1>12, <1>13, <1>14, <1>15, <1>16, <1>17 DEF AlignedBy
<1> QED
  BY <1>4, <1>5, <1>18 DEF CutFits, g, left, Y, p, n

-----------------------------------------------------------------------------
(* Cuts planned at positions of one text c that do not meet.               *)
PlannedCuts(R, off, len, ins, c, T) ==
  /\ off \in [R -> Nat \ {0}] /\ len \in [R -> Nat \ {0}] /\ ins \in [R -> Seq(T) \ {<<>>}]
  /\ \A i \in R : off[i] + len[i] <= Len(c) + 1
  /\ \A i, j \in R : i # j => off[i] + len[i] <= off[j] \/ off[j] + len[j] <= off[i]

(* g[S] is c with the cuts of S made, the last position first. *)
CutBackwards(g, R, off, len, ins, c, T) ==
  /\ g \in [SUBSET R -> Seq(T)]
  /\ g[{}] = c
  /\ \A S \in SUBSET R : S # {} =>
       \E m \in S : /\ \A j \in S : off[m] <= off[j]
                    /\ off[m] - 1 <= Len(g[S \ {m}])
                         => g[S] = Cut(g[S \ {m}], off[m], len[m], ins[m])

Untouched(off, len, c, S) ==
  {q \in 1 .. Len(c) : \A i \in S : q \notin off[i] .. off[i] + len[i] - 1}

PutIn(ins, S) == UNION {ToSet(ins[i]) : i \in S}

(* The cuts of S may as well be followed by that of any other i, made where *)
(* its position of c has moved to.                                          *)
CutWell(g, R, off, len, ins, c, S, f) ==
  /\ AlignedBy(f, Untouched(off, len, c, S), PutIn(ins, S), c, g[S])
  /\ \A q \in 1 .. Len(c) : (\A i \in S : q < off[i]) => f[q] = q
  /\ \A i \in R \ S : g[S \cup {i}] = Cut(g[S], f[off[i]], len[i], ins[i])

(* The planned cuts are where the texts reach, and put tokens in.          *)
LEMMA PlannedIs ==
  ASSUME NEW T, NEW c \in Seq(T), NEW R, NEW off, NEW len, NEW ins,
         PlannedCuts(R, off, len, ins, c, T)
  PROVE  /\ Len(c) \in Nat
         /\ \A i \in R : /\ off[i] \in Nat /\ 1 <= off[i] /\ len[i] \in Nat /\ 1 <= len[i]
                         /\ ins[i] \in Seq(T) /\ ins[i] # <<>>
                         /\ off[i] + len[i] <= Len(c) + 1
                         /\ off[i] \in off[i] .. off[i] + len[i] - 1
         /\ \A S \in SUBSET R : \A i \in R \ S :
              off[i] .. off[i] + len[i] - 1 \subseteq Untouched(off, len, c, S)
<1>1. Len(c) \in Nat
  BY LenProperties
<1>2. \A i \in R : /\ off[i] \in Nat /\ 1 <= off[i] /\ len[i] \in Nat /\ 1 <= len[i]
                   /\ ins[i] \in Seq(T) /\ ins[i] # <<>>
                   /\ off[i] + len[i] <= Len(c) + 1
  BY DEF PlannedCuts
<1>3. \A i \in R : off[i] \in off[i] .. off[i] + len[i] - 1
  BY <1>2
<1>4. ASSUME NEW S \in SUBSET R, NEW i \in R \ S, NEW q \in off[i] .. off[i] + len[i] - 1
      PROVE  q \in Untouched(off, len, c, S)
  <2>1. q \in 1 .. Len(c)
    BY <1>1, <1>2
  <2>2. ASSUME NEW j \in S PROVE q \notin off[j] .. off[j] + len[j] - 1
    <3>1. i # j /\ j \in R /\ i \in R
      OBVIOUS
    <3>2. off[i] + len[i] <= off[j] \/ off[j] + len[j] <= off[i]
      BY <3>1 DEF PlannedCuts
    <3>3. /\ off[i] \in Nat /\ len[i] \in Nat /\ off[j] \in Nat /\ len[j] \in Nat
          /\ q \in Nat /\ off[i] <= q /\ q < off[i] + len[i]
      BY <1>2, <3>1
    <3> QED
      BY <3>2, <3>3
  <2> QED
    BY <2>1, <2>2 DEF Untouched
<1> QED
  BY <1>1, <1>2, <1>3, <1>4

(* The step: of the cuts of S, that of m was the last. *)
LEMMA CutsGoOn ==
  ASSUME NEW T, NEW c \in Seq(T), NEW R, NEW off, NEW len, NEW ins, NEW g,
         PlannedCuts(R, off, len, ins, c, T), CutBackwards(g, R, off, len, ins, c, T),
         NEW S \in SUBSET R, NEW m \in S, \A j \in S : off[m] <= off[j],
         NEW f, CutWell(g, R, off, len, ins, c, S \ {m}, f)
  PROVE  CutWell(g, R, off, len, ins, c, S,
                 CutMap(f, off[m], len[m], Len(ins[m]), Untouched(off, len, c, S \ {m})))
<1> DEFINE P    == S \ {m}
           free == Untouched(off, len, c, P)
           put  == PutIn(ins, P)
           X    == g[P]
           Y    == g[S]
           n    == Len(ins[m])
           h    == CutMap(f, off[m], len[m], n, free)
<1>1. /\ Len(c) \in Nat
      /\ \A i \in R : /\ off[i] \in Nat /\ 1 <= off[i] /\ len[i] \in Nat /\ 1 <= len[i]
                      /\ ins[i] \in Seq(T) /\ ins[i] # <<>>
                      /\ off[i] + len[i] <= Len(c) + 1
                      /\ off[i] \in off[i] .. off[i] + len[i] - 1
      /\ \A i \in R \ P : off[i] .. off[i] + len[i] - 1 \subseteq free
      /\ \A i \in R \ S : off[i] .. off[i] + len[i] - 1 \subseteq Untouched(off, len, c, S)
  BY PlannedIs
<1>2. /\ m \in R /\ m \in R \ P /\ P \in SUBSET R /\ P \cup {m} = S
      /\ off[m] \in Nat /\ 1 <= off[m] /\ len[m] \in Nat \ {0}
      /\ ins[m] \in Seq(T) /\ ins[m] # <<>>
  BY <1>1
<1>3. X \in Seq(T) /\ Y \in Seq(T) /\ Len(X) \in Nat /\ n \in Nat /\ free \in SUBSET (1 .. Len(c))
  BY <1>2, LenProperties DEF CutBackwards, Untouched
<1>4. AlignedBy(f, free, put, c, X)
  BY DEF CutWell
<1>5. \A j \in P : off[m] + len[m] <= off[j]
  <2> TAKE j \in P
  <2>1. j # m /\ j \in R /\ j \in S
    OBVIOUS
  <2>2. off[m] + len[m] <= off[j] \/ off[j] + len[j] <= off[m]
    BY <1>2, <2>1 DEF PlannedCuts
  <2>3. off[m] <= off[j] /\ off[j] \in Nat /\ len[j] \in Nat /\ 1 <= len[j]
    BY <1>1, <2>1
  <2> QED
    BY <1>2, <2>2, <2>3
<1>6. /\ f[off[m]] = off[m]
      /\ f[off[m] + len[m] - 1] = off[m] + len[m] - 1
      /\ off[m] \in free /\ off[m] + len[m] - 1 \in free
  <2>1. /\ off[m] \in 1 .. Len(c) /\ off[m] + len[m] - 1 \in 1 .. Len(c)
        /\ off[m] + len[m] - 1 \in off[m] .. off[m] + len[m] - 1
        /\ off[m] \in off[m] .. off[m] + len[m] - 1
    BY <1>1, <1>2
  <2>2. \A j \in P : off[m] < off[j] /\ off[m] + len[m] - 1 < off[j]
    <3> TAKE j \in P
    <3>1. off[j] \in Nat /\ off[m] + len[m] <= off[j]
      BY <1>1, <1>5
    <3> QED
      BY <1>2, <3>1
  <2>3. \A q \in 1 .. Len(c) : (\A i \in P : q < off[i]) => f[q] = q
    BY DEF CutWell
  <2> QED
    BY <1>1, <1>2, <2>1, <2>2, <2>3
<1>7. Y = Cut(X, off[m], len[m], ins[m])
  <2>1. g[P \cup {m}] = Cut(X, f[off[m]], len[m], ins[m])
    BY <1>2 DEF CutWell
  <2> QED
    BY <1>2, <1>6, <2>1
<1>8. /\ off[m] + len[m] <= Len(X) + 1
      /\ AlignedBy(h, free \ (off[m] .. off[m] + len[m] - 1), put \cup ToSet(ins[m]), c, Y)
  <2>1. off[m] .. off[m] + len[m] - 1 \subseteq free
    BY <1>1, <1>2
  <2> DEFINE o == off[m]
             l == len[m]
             r == ins[m]
  <2>2. /\ FreeRun(o, l, free)
        /\ r \in Seq(T) /\ r # <<>> /\ f[o] = o /\ n = Len(r)
        /\ Y = Cut(X, o, l, r)
    BY <1>2, <1>6, <1>7, <2>1 DEF FreeRun
  <2> HIDE DEF o, l, r, n, X, Y, free, put
  <2>5. CutFits(f, o, l, r, free, put, c, X, T)
    BY <1>3, <1>4, <2>2, CutAligns
  <2>3. /\ f[o] + l <= Len(X) + 1
        /\ AlignedBy(CutMap(f, o, l, Len(r), free), free \ (o .. o + l - 1),
                     put \cup ToSet(r), c, Cut(X, f[o], l, r))
    BY <2>5 DEF CutFits
  <2>4. /\ o + l <= Len(X) + 1
        /\ AlignedBy(CutMap(f, o, l, n, free), free \ (o .. o + l - 1), put \cup ToSet(r), c, Y)
    BY <2>2, <2>3
  <2> QED
    BY <2>4 DEF o, l, r
<1>9. /\ free \ (off[m] .. off[m] + len[m] - 1) = Untouched(off, len, c, S)
      /\ put \cup ToSet(ins[m]) = PutIn(ins, S)
  BY <1>2 DEF Untouched, PutIn
<1>10. /\ \A q \in free \ (off[m] .. off[m] + len[m] - 1) :
            h[q] = IF q < off[m] THEN f[q] ELSE f[q] + n - len[m]
  BY DEF CutMap
<1>11. ASSUME NEW q \in 1 .. Len(c), \A i \in S : q < off[i] PROVE h[q] = q
  <2>1. q < off[m] /\ \A i \in P : q < off[i]
    BY <1>11
  <2>2. q \in free
    <3>1. \A i \in P : q \notin off[i] .. off[i] + len[i] - 1
      <4> TAKE i \in P
      <4>1. off[i] \in Nat /\ len[i] \in Nat /\ q < off[i]
        BY <1>1, <2>1
      <4> QED
        BY <4>1
    <3> QED
      BY <3>1 DEF Untouched
  <2>3. q \notin off[m] .. off[m] + len[m] - 1
    BY <1>2, <2>1
  <2>4. h[q] = f[q]
    BY <1>10, <2>1, <2>2, <2>3
  <2>5. f[q] = q
    BY <2>1 DEF CutWell
  <2> QED
    BY <2>4, <2>5
<1> HIDE DEF h
<1>12. ASSUME NEW i \in R \ S
       PROVE  g[S \cup {i}] = Cut(Y, h[off[i]], len[i], ins[i])
  <2> DEFINE Q == S \cup {i}
             W == P \cup {i}
             Z == g[W]
             u == ins[i]
  <2>6. i \in R \ P /\ i # m /\ Q \in SUBSET R /\ Q # {} /\ W \in SUBSET R /\ Q \ {m} = W /\ Q \ {i} = S
    OBVIOUS
  <2>7. u \in Seq(T) /\ off[i] \in Nat /\ 1 <= off[i] /\ len[i] \in Nat \ {0}
    BY <1>1
  <2>8. off[i] \in free /\ off[i] \in Untouched(off, len, c, S)
    <3>1. /\ off[i] \in off[i] .. off[i] + len[i] - 1
          /\ off[i] .. off[i] + len[i] - 1 \subseteq free
          /\ off[i] .. off[i] + len[i] - 1 \subseteq Untouched(off, len, c, S)
      BY <1>1, <2>6
    <3> QED
      BY <3>1
  <2>1. /\ i \in R \ P /\ Q \in SUBSET R /\ Q # {} /\ W \in SUBSET R /\ Q \ {m} = W /\ Q \ {i} = S
        /\ u \in Seq(T) /\ off[i] \in Nat /\ 1 <= off[i] /\ len[i] \in Nat \ {0} /\ i # m
        /\ off[i] \in free /\ off[i] \in Untouched(off, len, c, S)
    BY <2>6, <2>7, <2>8
  <2>2. PICK k \in Q : /\ \A j \in Q : off[k] <= off[j]
                       /\ off[k] - 1 <= Len(g[Q \ {k}])
                            => g[Q] = Cut(g[Q \ {k}], off[k], len[k], ins[k])
    BY <2>1 DEF CutBackwards
  <2>3. CASE k = i
    <3>1. \A j \in S : off[i] < off[j]
      <4> TAKE j \in S
      <4>1. off[i] <= off[j] /\ i # j /\ j \in R /\ off[j] \in Nat /\ len[j] \in Nat /\ 1 <= len[j]
        BY <1>1, <2>2, <2>3
      <4>2. off[i] + len[i] <= off[j] \/ off[j] + len[j] <= off[i]
        BY <2>1, <4>1 DEF PlannedCuts
      <4> QED
        BY <2>1, <4>1, <4>2
    <3>2. off[i] \in 1 .. Len(c)
      BY <2>1, <1>3
    <3>3. h[off[i]] = off[i]
      BY <1>11, <3>1, <3>2
    <3>4. h[off[i]] \in 1 .. Len(Y)
      BY <1>8, <1>9, <2>1 DEF AlignedBy
    <3>5. off[k] - 1 <= Len(g[Q \ {k}])
      <4>1. Len(Y) \in Nat /\ g[Q \ {k}] = Y
        BY <1>3, <2>1, <2>3, LenProperties
      <4>2. off[i] <= Len(Y)
        BY <3>3, <3>4
      <4> HIDE DEF Y
      <4> QED
        BY <2>1, <2>3, <4>1, <4>2
    <3> QED
      BY <2>1, <2>2, <2>3, <3>3, <3>5
  <2>4. CASE k # i
    <3>1. k = m
      <4>1. k \in S /\ k \in R /\ off[k] <= off[m] /\ off[m] <= off[k] /\ off[k] \in Nat
            /\ len[k] \in Nat /\ 1 <= len[k]
        BY <1>1, <1>2, <2>2, <2>4
      <4>2. k # m => off[k] + len[k] <= off[m] \/ off[m] + len[m] <= off[k]
        BY <1>2, <4>1 DEF PlannedCuts
      <4> QED
        BY <1>2, <4>1, <4>2
    <3>2. off[m] + len[m] <= off[i]
      <4>1. off[m] <= off[i]
        BY <2>2, <3>1
      <4>2. off[m] + len[m] <= off[i] \/ off[i] + len[i] <= off[m]
        BY <1>2, <2>1 DEF PlannedCuts
      <4> QED
        BY <1>2, <2>1, <4>1, <4>2
    <3> DEFINE x == f[off[i]]
               p == off[m]
               l == len[m]
               r == ins[m]
    <3>3. /\ x \in Nat \ {0} /\ x + len[i] <= Len(X) + 1 /\ Z = Cut(X, x, len[i], u)
      <4>1. off[i] .. off[i] + len[i] - 1 \subseteq free
        BY <1>1, <2>1
      <4>2. u # <<>>
        BY <1>1
      <4>3. f[off[i]] \in Nat \ {0} /\ f[off[i]] + len[i] <= Len(X) + 1
        <5> DEFINE o == off[i]
                   w == len[i]
        <5>1. FreeRun(o, w, free)
          BY <2>1, <4>1 DEF FreeRun
        <5> HIDE DEF o, w, X, free, put, u
        <5>2. CutFits(f, o, w, u, free, put, c, X, T)
          BY <1>3, <1>4, <2>1, <4>2, <5>1, CutAligns
        <5> QED
          BY <5>2 DEF o, w, CutFits
      <4>4. Z = Cut(X, f[off[i]], len[i], u)
        BY <2>1 DEF CutWell
      <4> QED
        BY <4>3, <4>4
    <3>4. p + l <= x
      <4>1. off[m] + len[m] - 1 < off[i]
        BY <1>2, <2>1, <3>2
      <4>2. f[off[m] + len[m] - 1] < f[off[i]]
        BY <1>4, <1>6, <2>1, <4>1 DEF AlignedBy
      <4>3. off[m] + len[m] - 1 < x
        BY <1>6, <4>2
      <4> HIDE DEF x
      <4> QED
        BY <1>2, <3>3, <4>3
    <3>5. h[off[i]] = x - l + n
      <4>1. off[i] \in free \ (off[m] .. off[m] + len[m] - 1) /\ ~(off[i] < off[m])
        BY <1>2, <1>9, <2>1, <3>2
      <4>2. h[off[i]] = x + n - l
        BY <1>10, <4>1 DEF h
      <4> HIDE DEF x, n, l
      <4> QED
        BY <1>2, <1>3, <3>3, <4>2 DEF l
    <3> HIDE DEF x, X, u
    <3>6. off[m] - 1 <= Len(Z)
      <4>1. IsCut(Z, X, x, len[i], u)
        BY <1>3, <2>1, <3>3, CutIs
      <4>2. Len(Z) = Len(X) - len[i] + Len(u) /\ Len(u) \in Nat
        BY <2>1, <4>1, LenProperties DEF IsCut
      <4> DEFINE w == len[i]
      <4>3. /\ p \in Nat /\ l \in Nat /\ 1 <= l /\ x \in Nat /\ w \in Nat
            /\ p + l <= x /\ x + w <= Len(X) + 1 /\ Len(X) \in Nat
        BY <1>2, <1>3, <2>1, <3>3, <3>4, LenProperties
      <4>4. Len(Z) = Len(X) - w + Len(u) /\ Len(u) \in Nat
        BY <4>2
      <4> HIDE DEF Z, p, l, w
      <4>5. p - 1 <= Len(Z)
        BY <4>3, <4>4
      <4> QED
        BY <4>5 DEF p
    <3>7. g[Q] = Cut(Z, p, l, r)
      BY <2>1, <2>2, <3>1, <3>6
    <3>8. Cut(Cut(X, p, l, r), x - l + Len(r), len[i], u) = Cut(Cut(X, x, len[i], u), p, l, r)
      <4>1. /\ p \in Nat \ {0} /\ l \in Nat /\ x \in Nat /\ len[i] \in Nat
            /\ p + l <= x /\ x + len[i] <= Len(X) + 1 /\ r \in Seq(T)
        BY <1>2, <2>1, <3>3, <3>4
      <4> DEFINE w == len[i]
      <4>3. X \in Seq(T) /\ u \in Seq(T)
        BY <1>3, <2>1
      <4>4. /\ p \in Nat \ {0} /\ l \in Nat /\ x \in Nat /\ w \in Nat
            /\ p + l <= x /\ x + w <= Len(X) + 1 /\ r \in Seq(T)
        BY <4>1
      <4> HIDE DEF p, l, r, w
      <4>2. Cut(Cut(X, p, l, r), x - l + Len(r), w, u) = Cut(Cut(X, x, w, u), p, l, r)
        BY <4>3, <4>4, CutsCommute, SMTT(30)
      <4> QED
        BY <4>2 DEF w
    <3>9. Cut(X, p, l, r) = Y /\ x - l + Len(r) = h[off[i]] /\ Cut(X, x, len[i], u) = Z
      BY <1>7, <3>3, <3>5
    <3> HIDE DEF Y, Z, p, l, r
    <3>10. Cut(Y, h[off[i]], len[i], u) = Cut(Z, p, l, r)
      BY <3>8, <3>9
    <3> QED
      BY <3>7, <3>10 DEF u
  <2> QED
    BY <2>3, <2>4
<1> QED
  BY <1>8, <1>9, <1>11, <1>12 DEF CutWell, h

(* So it is for every S. *)
LEMMA CutsAreFree ==
  ASSUME NEW T, NEW c \in Seq(T), NEW R, IsFiniteSet(R), NEW off, NEW len, NEW ins, NEW g,
         PlannedCuts(R, off, len, ins, c, T), CutBackwards(g, R, off, len, ins, c, T)
  PROVE  \A S \in SUBSET R : \E f : CutWell(g, R, off, len, ins, c, S, f)
<1> DEFINE K == {k \in Nat : \A S \in SUBSET R : Cardinality(S) = k
                               => \E f : CutWell(g, R, off, len, ins, c, S, f)}
<1>1. \A S \in SUBSET R : /\ Cardinality(S) \in Nat
                          /\ Cardinality(S) = 0 <=> S = {}
                          /\ \A x \in S : Cardinality(S \ {x}) = Cardinality(S) - 1
  BY FS_Subset, FS_CardinalityType, FS_EmptySet, FS_RemoveElement
<1>2. CutWell(g, R, off, len, ins, c, {}, [q \in 1 .. Len(c) |-> q])
  <2> DEFINE f == [q \in 1 .. Len(c) |-> q]
  <2>1. /\ Untouched(off, len, c, {}) = 1 .. Len(c) /\ PutIn(ins, {}) = {} /\ g[{}] = c
    BY DEF Untouched, PutIn, CutBackwards
  <2>2. AlignedBy(f, 1 .. Len(c), {}, c, c)
    BY StartAligns
  <2>3. ASSUME NEW i \in R
        PROVE  g[{} \cup {i}] = Cut(g[{}], f[off[i]], len[i], ins[i])
    <3>1. /\ Len(c) \in Nat /\ off[i] \in Nat /\ 1 <= off[i] /\ len[i] \in Nat /\ 1 <= len[i]
          /\ off[i] + len[i] <= Len(c) + 1
      BY PlannedIs
    <3>2. off[i] \in 1 .. Len(c) /\ off[i] - 1 <= Len(c)
      BY <3>1
    <3>3. f[off[i]] = off[i]
      BY <3>2
    <3>4. {} \cup {i} = {i} /\ {i} \in SUBSET R /\ {i} \ {i} = {} /\ {i} # {}
      OBVIOUS
    <3>5. off[i] - 1 <= Len(g[{}]) => g[{i}] = Cut(g[{}], off[i], len[i], ins[i])
      BY <3>4 DEF CutBackwards
    <3> QED
      BY <2>1, <3>2, <3>3, <3>4, <3>5
  <2>4. \A q \in 1 .. Len(c) : f[q] = q
    OBVIOUS
  <2> HIDE DEF f
  <2>5. CutWell(g, R, off, len, ins, c, {}, f)
    BY <2>1, <2>2, <2>3, <2>4 DEF CutWell
  <2> QED
    BY <2>5 DEF f
<1>3. 0 \in K
  BY <1>1, <1>2
<1>4. ASSUME NEW k \in Nat, k \in K PROVE k + 1 \in K
  <2> SUFFICES ASSUME NEW S \in SUBSET R, Cardinality(S) = k + 1
               PROVE  \E f : CutWell(g, R, off, len, ins, c, S, f)
    OBVIOUS
  <2>1. S # {}
    BY <1>1
  <2>2. PICK m \in S : \A j \in S : off[m] <= off[j]
    BY <2>1 DEF CutBackwards
  <2>3. S \ {m} \in SUBSET R /\ Cardinality(S \ {m}) = k
    BY <1>1, <2>2
  <2>4. PICK f : CutWell(g, R, off, len, ins, c, S \ {m}, f)
    BY <1>4, <2>3
  <2> QED
    BY <2>2, <2>4, CutsGoOn
<1> HIDE DEF K
<1>5. Nat \subseteq K
  BY <1>3, <1>4, NatSetInduction
<1> QED
  BY <1>1, <1>5 DEF K

-----------------------------------------------------------------------------
(* What the manifest records of a patcher: planned cuts, and the splices    *)
(* make them backwards.                                                     *)
Offsets(patch, c) == [i \in Recorded(patch, c) |-> First(patch.subs[i].anchor, c)]
Lengths(patch, c) == [i \in Recorded(patch, c) |-> Len(patch.subs[i].anchor)]
Inserts(patch, c) == [i \in Recorded(patch, c) |-> patch.subs[i].repl]

(* The recorded sub-patches, and the anchors they have.                    *)
LEMMA RecordedIs ==
  ASSUME TextAssumption, NEW pt \in Patches, NEW c \in Texts
  PROVE  /\ Patch[pt].subs \in Seq(Subs) /\ Len(Patch[pt].subs) \in Nat
         /\ DOMAIN Patch[pt].subs = 1 .. Len(Patch[pt].subs)
         /\ c \in Seq(Tokens) /\ Len(c) \in Nat
         /\ Recorded(Patch[pt], c) \in SUBSET (1 .. Len(Patch[pt].subs))
         /\ IsFiniteSet(Recorded(Patch[pt], c))
         /\ \A i \in 1 .. Len(Patch[pt].subs) :
              LET e == Patch[pt].subs[i]
              IN  /\ e \in Subs
                  /\ e.anchor \in Seq(Tokens) /\ e.anchor # <<>> /\ Len(e.anchor) \in Nat \ {0}
                  /\ e.repl \in Seq(Tokens)
         /\ \A i \in Recorded(Patch[pt], c) :
              LET e == Patch[pt].subs[i]
              IN  /\ Once(e.anchor, c) /\ First(e.anchor, c) \in Nat \ {0}
                  /\ First(e.anchor, c) + Len(e.anchor) <= Len(c) + 1
<1> DEFINE subs == Patch[pt].subs
           R == Recorded(Patch[pt], c)
<1>1. /\ subs \in Seq(Subs) /\ Len(subs) \in Nat /\ DOMAIN subs = 1 .. Len(subs)
      /\ c \in Seq(Tokens) /\ Len(c) \in Nat
  BY LenProperties DEF TextAssumption, Texts
<1>2. R \in SUBSET (1 .. Len(subs)) /\ \A i \in R : Once(subs[i].anchor, c)
  BY <1>1 DEF Recorded
<1>3. IsFiniteSet(R)
  <2>1. IsFiniteSet(1 .. Len(subs))
    BY <1>1, FS_Interval
  <2> HIDE DEF R
  <2> QED
    BY <1>2, <2>1, FS_Subset
<1>4. ASSUME NEW i \in 1 .. Len(subs)
      PROVE  /\ subs[i] \in Subs
             /\ subs[i].anchor \in Seq(Tokens) /\ subs[i].anchor # <<>>
             /\ Len(subs[i].anchor) \in Nat \ {0}
             /\ subs[i].repl \in Seq(Tokens)
  <2>1. subs[i] \in Subs
    BY <1>1, ElementOfSeq
  <2> QED
    BY <2>1, LenProperties, EmptySeq DEF TextAssumption, Texts
<1>5. ASSUME NEW i \in R
      PROVE  /\ First(subs[i].anchor, c) \in Nat \ {0}
             /\ First(subs[i].anchor, c) + Len(subs[i].anchor) <= Len(c) + 1
  <2>1. /\ Has(subs[i].anchor, c) /\ subs[i].anchor \in Seq(Tokens)
        /\ Len(subs[i].anchor) \in Nat \ {0}
    BY <1>2, <1>4, OnceHas
  <2>2. First(subs[i].anchor, c) \in Occurrences(subs[i].anchor, c)
    BY <1>1, <2>1, FirstIs
  <2>3. First(subs[i].anchor, c) \in 1 .. (Len(c) - Len(subs[i].anchor) + 1)
    BY <2>2 DEF Occurrences
  <2> DEFINE o == First(subs[i].anchor, c)
             w == Len(subs[i].anchor)
  <2> HIDE DEF o, w
  <2>4. o \in 1 .. (Len(c) - w + 1) /\ w \in Nat
    BY <2>1, <2>3 DEF o, w
  <2>5. o \in Nat \ {0} /\ o + w <= Len(c) + 1
    BY <1>1, <2>4
  <2> QED
    BY <2>5 DEF o, w
<1> QED
  BY <1>1, <1>2, <1>3, <1>4, <1>5

(* The manifest makes its splices as cuts, the last offset first.          *)
LEMMA SplicesAreCuts ==
  ASSUME TextAssumption, NEW pt \in Patches, NEW c \in Texts, Independent(Patch[pt], c),
         NEW g, ManifestSteps(g, Patch[pt], c)
  PROVE  LET R == Recorded(Patch[pt], c)
             off == Offsets(Patch[pt], c)
             len == Lengths(Patch[pt], c)
             ins == Inserts(Patch[pt], c)
         IN  PlannedCuts(R, off, len, ins, c, Tokens) /\ CutBackwards(g, R, off, len, ins, c, Tokens)
<1> DEFINE subs == Patch[pt].subs
           R == Recorded(Patch[pt], c)
           off == Offsets(Patch[pt], c)
           len == Lengths(Patch[pt], c)
           ins == Inserts(Patch[pt], c)
<1>1. /\ c \in Seq(Tokens) /\ Len(c) \in Nat
      /\ \A i \in R : /\ subs[i].anchor \in Seq(Tokens) /\ Len(subs[i].anchor) \in Nat \ {0}
                      /\ subs[i].repl \in Seq(Tokens) /\ subs[i].repl # <<>>
                      /\ First(subs[i].anchor, c) \in Nat \ {0}
                      /\ First(subs[i].anchor, c) + Len(subs[i].anchor) <= Len(c) + 1
  BY RecordedIs DEF Independent
<1>2. /\ \A i \in R : /\ off[i] = First(subs[i].anchor, c) /\ len[i] = Len(subs[i].anchor)
                      /\ ins[i] = subs[i].repl
      /\ off \in [R -> Nat \ {0}] /\ len \in [R -> Nat \ {0}] /\ ins \in [R -> Seq(Tokens) \ {<<>>}]
  BY <1>1 DEF Offsets, Lengths, Inserts
<1> HIDE DEF R, off, len, ins
<1>3. ASSUME NEW i \in R, NEW j \in R, i # j
      PROVE  off[i] + len[i] <= off[j] \/ off[j] + len[j] <= off[i]
  <2>1. (off[i] .. off[i] + len[i] - 1) \cap (off[j] .. off[j] + len[j] - 1) = {}
    BY <1>2, <1>3 DEF Independent, Span, R
  <2>2. /\ off[i] \in Nat /\ off[j] \in Nat /\ len[i] \in Nat /\ len[j] \in Nat
        /\ 1 <= len[i] /\ 1 <= len[j]
    BY <1>2
  <2>3. off[i] \notin off[j] .. off[j] + len[j] - 1 /\ off[j] \notin off[i] .. off[i] + len[i] - 1
    <3>1. off[i] \in off[i] .. off[i] + len[i] - 1 /\ off[j] \in off[j] .. off[j] + len[j] - 1
      BY <2>2
    <3> QED
      BY <2>1, <3>1, Zenon
  <2> QED
    BY <2>2, <2>3
<1>4. PlannedCuts(R, off, len, ins, c, Tokens)
  BY <1>1, <1>2, <1>3 DEF PlannedCuts
<1>5. g \in [SUBSET R -> Seq(Tokens)] /\ g[{}] = c
  BY DEF ManifestSteps, Texts, R
<1>6. ASSUME NEW s \in SUBSET R, s # {}
      PROVE  \E m \in s : /\ \A j \in s : off[m] <= off[j]
                          /\ off[m] - 1 <= Len(g[s \ {m}])
                               => g[s] = Cut(g[s \ {m}], off[m], len[m], ins[m])
  <2> DEFINE m == SplicedLast(Patch[pt], c, s)
             t == g[s \ {m}]
  <2>1. /\ m \in s
        /\ \A j \in s : First(subs[m].anchor, c) <= First(subs[j].anchor, c)
        /\ g[s] = Splice(subs[m], c, t)
    BY <1>6 DEF ManifestSteps, R
  <2> HIDE DEF m
  <2>2. m \in R /\ Len(t) \in Nat
    BY <1>5, <2>1, LenProperties
  <2>3. ASSUME off[m] - 1 <= Len(t)
        PROVE  g[s] = Cut(t, off[m], len[m], ins[m])
    <3> DEFINE e == subs[m]
    <3>1. First(e.anchor, c) \in Nat \ {0} /\ First(e.anchor, c) - 1 <= Len(t)
      BY <1>1, <1>2, <2>2, <2>3
    <3> HIDE DEF e, t
    <3>2. Splice(e, c, t) = Cut(t, First(e.anchor, c), Len(e.anchor), e.repl)
      BY <2>2, <3>1, SpliceIsCut
    <3> QED
      BY <1>2, <2>1, <2>2, <3>2 DEF e
  <2>4. \A j \in s : off[m] <= off[j]
    BY <1>2, <2>1
  <2> QED
    BY <2>1, <2>3, <2>4
<1>7. CutBackwards(g, R, off, len, ins, c, Tokens)
  BY <1>5, <1>6 DEF CutBackwards
<1> QED
  BY <1>4, <1>7 DEF R, off, len, ins

(* The list of the sub-patches applied, one sub-patch at a time. *)
ListedSoFar(l, subs, R) ==
  /\ l \in [0 .. Len(subs) -> Seq(Subs)]
  /\ l[0] = <<>>
  /\ \A k \in 1 .. Len(subs) : l[k] = IF k \in R THEN Append(l[k - 1], subs[k]) ELSE l[k - 1]

(* The fold that lists them is such a list.                                *)
LEMMA SplicedChain ==
  ASSUME TextAssumption, NEW pt \in Patches, NEW c \in Texts
  PROVE  \E l : /\ ListedSoFar(l, Patch[pt].subs, Recorded(Patch[pt], c))
                /\ l[Len(Patch[pt].subs)] = Spliced(Patch[pt], c)
<1> DEFINE subs == Patch[pt].subs
           R == Recorded(Patch[pt], c)
           n == Len(subs)
           A == Seq(Subs)
           Listed(acc, i) == IF i \in R THEN Append(acc, subs[i]) ELSE acc
           f == [x \in (1 .. n) \X A |-> Listed(x[2], x[1])]
           ids == [i \in DOMAIN subs |-> i]
           Def(g, t) == IF t = {} THEN <<>> ELSE Listed(g[t \ {Max(t)}], ids[Max(t)])
           iter == CHOOSE g : g = [t \in SUBSET DOMAIN ids |-> Def(g, t)]
<1>1. /\ n \in Nat /\ DOMAIN subs = 1 .. n /\ subs \in [1 .. n -> Subs]
      /\ \A i \in 1 .. n : subs[i] \in Subs
  BY RecordedIs, LenProperties
<1>2. DOMAIN ids = 1 .. n /\ \A k \in 1 .. n : ids[k] = k
  BY <1>1
<1>3. /\ <<>> \in A
      /\ \A k \in 1 .. n, a \in A : Listed(a, k) \in A
  BY <1>1, EmptySeq, AppendProperties
<1>4. Spliced(Patch[pt], c) = iter[DOMAIN ids]
  BY DEF Spliced, FoldLeft, MapThenFoldSet
<1>5. f \in [(1 .. n) \X A -> A] /\ \A k \in 1 .. n, a \in A : f[<<k, a>>] = Listed(a, k)
  BY <1>3
<1> HIDE DEF f, n, ids, R, subs, A
<1>6. PICK g : FoldsUp(g, A, <<>>, n, f)
  BY <1>1, <1>3, <1>5, FoldUpExists
<1>7. \A t \in SUBSET (1 .. n) : t # {} => Max(t) \in 1 .. n
  BY <1>1, MaxIsIn
<1>8. \A t \in SUBSET (1 .. n) : g[t] = Def(g, t)
  <2>1. \A t \in SUBSET (1 .. n) : t # {} => g[t \ {Max(t)}] \in A
    BY <1>6, <1>7 DEF FoldsUp
  <2>2. ASSUME NEW t \in SUBSET (1 .. n), t # {} PROVE g[t] = Def(g, t)
    <3> DEFINE k == Max(t)
               a == g[t \ {k}]
    <3>1. k \in 1 .. n /\ a \in A /\ g[t] = f[<<k, a>>]
      BY <1>6, <1>7, <2>1, <2>2 DEF FoldsUp
    <3>2. f[<<k, a>>] = Listed(a, k) /\ ids[k] = k
      <4> HIDE DEF k, a, Listed
      <4> QED
        BY <1>2, <1>5, <3>1
    <3> HIDE DEF Listed
    <3> QED
      BY <2>2, <3>1, <3>2
  <2>3. g[{}] = <<>>
    BY <1>6 DEF FoldsUp
  <2> QED
    BY <2>2, <2>3
<1>9. g = [t \in SUBSET DOMAIN ids |-> Def(g, t)]
  <2>1. g = [t \in SUBSET (1 .. n) |-> g[t]]
    BY <1>6 DEF FoldsUp
  <2> QED
    BY <1>2, <1>8, <2>1
<1>10. iter = [t \in SUBSET DOMAIN ids |-> Def(iter, t)]
  <2> HIDE DEF Def
  <2> QED
    BY <1>9
<1>11. \A t \in SUBSET (1 .. n) : iter[t] = Def(iter, t)
  <2> HIDE DEF iter, Def
  <2> QED
    BY <1>2, <1>10
<1> HIDE DEF iter
<1>12. FollowsUp(iter, A, <<>>, n, f)
  <2>1. ASSUME NEW t \in SUBSET (1 .. n), t # {}, iter[t \ {Max(t)}] \in A
        PROVE  iter[t] = f[<<Max(t), iter[t \ {Max(t)}]>>]
    <3> DEFINE k == Max(t)
               a == iter[t \ {k}]
    <3>1. k \in 1 .. n /\ a \in A /\ iter[t] = Listed(a, ids[k])
      <4> HIDE DEF Listed
      <4> QED
        BY <1>7, <1>11, <2>1
    <3>2. f[<<k, a>>] = Listed(a, k) /\ ids[k] = k
      <4> HIDE DEF k, a, Listed
      <4> QED
        BY <1>2, <1>5, <3>1
    <3> HIDE DEF Listed
    <3> QED
      BY <3>1, <3>2
  <2>2. iter[{}] = <<>>
    BY <1>11
  <2> QED
    BY <2>1, <2>2 DEF FollowsUp
<1>13. PICK l : ChainOf(l, A, <<>>, n, f) /\ l[n] = iter[1 .. n]
  <2>1. ChainTo(A, <<>>, n, f, iter[1 .. n])
    BY <1>1, <1>3, <1>5, <1>12, FoldUpIsChain
  <2> QED
    BY <2>1 DEF ChainTo
<1>14. ListedSoFar(l, subs, R)
  <2>1. \A k \in 1 .. n : k - 1 \in 0 .. n
    BY <1>1
  <2> QED
    BY <1>5, <1>13, <2>1 DEF ChainOf, ListedSoFar, n, A
<1>15. l[n] = Spliced(Patch[pt], c)
  BY <1>2, <1>4, <1>13
<1> QED
  BY <1>14, <1>15 DEF subs, R, n

-----------------------------------------------------------------------------

(* What the k-th sub-patch finds in the text that the recorded ones before  *)
(* it have made, and leaves there.                                          *)
StandsAt(patch, c, g, k) ==
  LET R == Recorded(patch, c)
      S == R \cap (1 .. (k - 1))
      e == patch.subs[k]
  IN  /\ g[S] \in Seq(Tokens)
      /\ \A m \in e.merged : ~Marked(g[S], m)
      /\ k \in R => Once(e.anchor, g[S]) /\ g[S \cup {k}] = Replaced(e, g[S])
      /\ k \notin R => ~Has(e.anchor, g[S])

(* Where the entries are spliceable each sub-patch is found as planned.    *)
LEMMA ScanStands ==
  ASSUME TextAssumption, NEW pt \in Patches, NEW c \in Texts, Spliceable(Patch[pt], c),
         NEW g, ManifestSteps(g, Patch[pt], c),
         NEW k \in 1 .. Len(Patch[pt].subs)
  PROVE  StandsAt(Patch[pt], c, g, k)
<1> DEFINE subs == Patch[pt].subs
           n == Len(subs)
           R == Recorded(Patch[pt], c)
           S == R \cap (1 .. (k - 1))
           e == subs[k]
           off == Offsets(Patch[pt], c)
           len == Lengths(Patch[pt], c)
           ins == Inserts(Patch[pt], c)
           free == Untouched(off, len, c, S)
           put  == PutIn(ins, S)
           X == g[S]
<1>1. /\ n \in Nat /\ DOMAIN subs = 1 .. n /\ R \in SUBSET (1 .. n) /\ IsFiniteSet(R)
      /\ c \in Seq(Tokens) /\ Len(c) \in Nat /\ k \in Nat
      /\ e \in Subs /\ e.anchor \in Seq(Tokens) /\ e.anchor # <<>> /\ Len(e.anchor) \in Nat \ {0}
      /\ e.repl \in Seq(Tokens)
  BY RecordedIs
<1>2. S \in SUBSET R /\ k \notin S /\ \A i \in S : i \in R /\ i \in 1 .. n /\ i < k
  BY <1>1
<1>3. /\ Independent(Patch[pt], c) /\ Unambiguous(Patch[pt], c)
      /\ NothingMerged(Patch[pt], c) /\ NothingFeigned(Patch[pt])
  BY DEF Spliceable
<1>4. PlannedCuts(R, off, len, ins, c, Tokens) /\ CutBackwards(g, R, off, len, ins, c, Tokens)
  BY <1>3, SplicesAreCuts
<1>5. \A i \in R : off[i] = First(subs[i].anchor, c) /\ len[i] = Len(subs[i].anchor) /\ ins[i] = subs[i].repl
  BY DEF Offsets, Lengths, Inserts
<1>6. X \in Seq(Tokens)
  BY <1>2 DEF ManifestSteps, Texts
<1>7. /\ free \in SUBSET (1 .. Len(c)) /\ free \in SUBSET DOMAIN c
      /\ \A t \in put : \E i \in S : t \in ToSet(subs[i].repl)
  BY <1>1, <1>2, <1>5, LenProperties DEF Untouched, PutIn
<1> HIDE DEF off, len, ins
<1>8. PICK f : CutWell(g, R, off, len, ins, c, S, f)
  <2> HIDE DEF R, S
  <2> QED
    BY <1>1, <1>2, <1>4, CutsAreFree
<1>9. /\ AlignedBy(f, free, put, c, X)
      /\ \A i \in R \ S : g[S \cup {i}] = Cut(X, f[off[i]], len[i], ins[i])
  BY <1>8 DEF CutWell
<1>10. k \in R => off[k] .. off[k] + len[k] - 1 \subseteq free
  <2> SUFFICES ASSUME k \in R PROVE off[k] .. off[k] + len[k] - 1 \subseteq free
    OBVIOUS
  <2>1. S \in SUBSET R /\ k \in R \ S
    BY <1>2
  <2> HIDE DEF R, S
  <2> QED
    BY <1>1, <1>4, <2>1, PlannedIs
<1> HIDE DEF free, put, S, X
<1>11. ToSet(e.anchor) \cap put = {}
  <2>1. \A i \in S : ToSet(e.anchor) \cap ToSet(subs[i].repl) = {}
    BY <1>1, <1>2, <1>3 DEF Independent
  <2> QED
    BY <1>7, <2>1
<1>12. ASSUME NEW m \in e.merged PROVE ~Marked(X, m)
  <2> SUFFICES ASSUME m \in ToSet(X) PROVE FALSE
    BY DEF Marked
  <2>1. m \in put \/ m \in ToSet(c)
    BY <1>6, <1>7, <1>9, AlignedTokens
  <2>2. m \notin ToSet(c)
    BY <1>1, <1>3 DEF NothingMerged, Marked
  <2>3. m \notin put
    <3>1. \A i \in S : e.merged \cap ToSet(subs[i].repl) = {}
      BY <1>1, <1>2, <1>3 DEF NothingFeigned
    <3> QED
      BY <1>7, <3>1
  <2> QED
    BY <2>1, <2>2, <2>3
<1>13. ASSUME k \in R
       PROVE  Once(e.anchor, X) /\ g[S \cup {k}] = Replaced(e, X)
  <2> DEFINE a == e.anchor
  <2>1. Once(a, c) /\ First(a, c) .. First(a, c) + Len(a) - 1 \subseteq free
    BY <1>5, <1>10, <1>13 DEF Recorded, R
  <2> HIDE DEF a
  <2>2. Once(a, X) /\ First(a, X) = f[First(a, c)]
    <3>1. /\ a \in Seq(Tokens) /\ a # <<>> /\ ToSet(a) \cap put = {}
          /\ AlignedBy(f, free, put, c, X) /\ c \in Seq(Tokens) /\ X \in Seq(Tokens)
          /\ free \in SUBSET (1 .. Len(c)) /\ Once(a, c) /\ AnchorFree(a, c, free)
      BY <1>1, <1>6, <1>7, <1>9, <1>11, <2>1 DEF a, AnchorFree
    <3> QED
      BY <3>1, AnchorMoves
  <2>3. g[S \cup {k}] = Cut(X, f[off[k]], len[k], ins[k])
    BY <1>2, <1>9, <1>13
  <2>4. Replaced(e, X) = Cut(X, First(a, X), Len(a), e.repl)
    BY ReplacedIsCut DEF a
  <2> QED
    BY <1>5, <1>13, <2>2, <2>3, <2>4 DEF a
<1>14. ASSUME k \notin R
       PROVE  ~Has(e.anchor, X)
  <2> DEFINE a == e.anchor
  <2>1. ~Has(a, c)
    BY <1>1, <1>3, <1>14 DEF Unambiguous, R
  <2>2. /\ a \in Seq(Tokens) /\ a # <<>> /\ ToSet(a) \cap put = {}
        /\ AlignedBy(f, free, put, c, X) /\ c \in Seq(Tokens) /\ X \in Seq(Tokens)
        /\ free \in SUBSET (1 .. Len(c))
    BY <1>1, <1>6, <1>7, <1>9, <1>11
  <2> HIDE DEF a
  <2>3. ~Has(a, X)
    BY <2>1, <2>2, NoneMoves
  <2> QED
    BY <2>3 DEF a
<1> QED
  BY <1>6, <1>12, <1>13, <1>14 DEF StandsAt, S, X

-----------------------------------------------------------------------------
(* After k sub-patches the scan is where the manifest would be with the     *)
(* entries of these.                                                        *)
ScanOf(g, l, R, k) == [verdict |-> "ok", text |-> g[R \cap (1 .. k)], applied |-> l[k]]

FollowsAt(patch, g, l, R, k) ==
  TrySub(ScanOf(g, l, R, k - 1), patch.subs[k]) = ScanOf(g, l, R, k)

(* One round of the scan does what the entry of the sub-patch would.       *)
LEMMA ScanFollows ==
  ASSUME TextAssumption, NEW pt \in Patches, NEW c \in Texts, Spliceable(Patch[pt], c),
         \A i \in DOMAIN Patch[pt].subs \ Recorded(Patch[pt], c) : ~Patch[pt].subs[i].required,
         NEW g, ManifestSteps(g, Patch[pt], c),
         NEW l, ListedSoFar(l, Patch[pt].subs, Recorded(Patch[pt], c)),
         NEW k \in 1 .. Len(Patch[pt].subs)
  PROVE  FollowsAt(Patch[pt], g, l, Recorded(Patch[pt], c), k)
<1> DEFINE subs == Patch[pt].subs
           n == Len(subs)
           R == Recorded(Patch[pt], c)
           S == R \cap (1 .. (k - 1))
           e == subs[k]
           X == g[S]
           acc == ScanOf(g, l, R, k - 1)
           v == SubVerdict(e, X)
<1>1. n \in Nat /\ DOMAIN subs = 1 .. n /\ R \in SUBSET (1 .. n)
  BY RecordedIs
<1>2. /\ \A m \in e.merged : ~Marked(X, m)
      /\ k \in R => Once(e.anchor, X) /\ g[S \cup {k}] = Replaced(e, X)
      /\ k \notin R => ~Has(e.anchor, X)
  <2>1. StandsAt(Patch[pt], c, g, k)
    BY ScanStands
  <2> QED
    BY <2>1 DEF StandsAt
<1>9. acc = [verdict |-> "ok", text |-> X, applied |-> l[k - 1]]
  <2> HIDE DEF R
  <2> QED
    BY DEF ScanOf
<1>3. acc.verdict = "ok" /\ acc.text = X /\ acc.applied = l[k - 1]
  <2> HIDE DEF X, acc
  <2> QED
    BY <1>9
<1>4. TrySub(acc, e) = CASE acc.verdict # "ok" \/ v = "pass" -> acc
                         [] acc.verdict = "ok" /\ v = "apply" ->
                              [acc EXCEPT !.text = Replaced(e, acc.text), !.applied = Append(@, e)]
                         [] acc.verdict = "ok" /\ v \notin {"pass", "apply"} ->
                              [acc EXCEPT !.verdict = v]
  BY <1>3 DEF TrySub
<1> DEFINE merged == \E m \in e.merged : Marked(X, m)
           found  == Has(e.anchor, X)
           once   == Once(e.anchor, X)
<1>5. v = CASE merged /\ e.abort                -> "sub_upstream_merged_abort_bundle"
            [] merged /\ ~e.abort               -> "pass"
            [] ~merged /\ ~found /\ e.required  -> "required_anchor_missing"
            [] ~merged /\ ~found /\ ~e.required -> "pass"
            [] ~merged /\ found /\ ~once        -> "ambiguous_anchor"
            [] ~merged /\ once                  -> "apply"
  BY DEF SubVerdict
<1>6. ~merged /\ (once => found)
  BY <1>2, OnceHas
<1>7. CASE k \in R
  <2>1. once /\ Replaced(e, X) = g[S \cup {k}]
    BY <1>2, <1>7
  <2>2. R \cap (1 .. k) = S \cup {k} /\ l[k] = Append(l[k - 1], e)
    <3>1. R \cap (1 .. k) = S \cup {k}
      BY <1>1, <1>7
    <3> HIDE DEF R, S
    <3>2. l[k] = IF k \in R THEN Append(l[k - 1], e) ELSE l[k - 1]
      BY DEF ListedSoFar, R
    <3> HIDE DEF e
    <3> QED
      BY <1>7, <3>1, <3>2
  <2> HIDE DEF merged, found, once, v
  <2>3. v = "apply"
    BY <1>5, <1>6, <2>1
  <2>4. TrySub(acc, e) = [acc EXCEPT !.text = Replaced(e, acc.text), !.applied = Append(@, e)]
    BY <1>3, <1>4, <2>3
  <2>5. [acc EXCEPT !.text = Replaced(e, acc.text), !.applied = Append(@, e)]
          = [verdict |-> "ok", text |-> Replaced(e, X), applied |-> Append(l[k - 1], e)]
    <3> DEFINE u == Replaced(e, acc.text)
               w == Append(acc.applied, e)
    <3>1. u = Replaced(e, X) /\ w = Append(l[k - 1], e)
      <4> HIDE DEF acc, X, e
      <4> QED
        BY <1>3
    <3>2. [acc EXCEPT !.text = u, !.applied = w] = [verdict |-> "ok", text |-> u, applied |-> w]
      <4> DEFINE y == l[k - 1]
      <4>1. acc = [verdict |-> "ok", text |-> X, applied |-> y]
        BY <1>9
      <4> HIDE DEF acc, e, u, w, X, y
      <4> DEFINE b == [acc EXCEPT !.text = u]
      <4>2. b = [verdict |-> "ok", text |-> u, applied |-> y]
        BY <4>1
      <4>3. [acc EXCEPT !.text = u, !.applied = w] = [b EXCEPT !.applied = w]
        OBVIOUS
      <4> HIDE DEF b
      <4>4. [b EXCEPT !.applied = w] = [verdict |-> "ok", text |-> u, applied |-> w]
        BY <4>2
      <4> QED
        BY <4>3, <4>4
    <3> HIDE DEF acc, X, e
    <3> QED
      BY <3>1, <3>2
  <2>6. ScanOf(g, l, R, k) = [verdict |-> "ok", text |-> Replaced(e, X), applied |-> Append(l[k - 1], e)]
    <3> HIDE DEF S, e, X, R
    <3> QED
      BY <2>1, <2>2 DEF ScanOf, once
  <2>7. TrySub(acc, e) = ScanOf(g, l, R, k)
    BY <2>4, <2>5, <2>6
  <2> QED
    BY <2>7 DEF FollowsAt
<1>8. CASE k \notin R
  <2>1. ~found /\ ~e.required
    BY <1>1, <1>2, <1>8
  <2>2. R \cap (1 .. k) = S /\ l[k] = l[k - 1]
    BY <1>1, <1>8 DEF ListedSoFar
  <2> HIDE DEF merged, found, once, v
  <2>3. v = "pass"
    BY <1>5, <1>6, <2>1
  <2>4. TrySub(acc, e) = acc
    BY <1>3, <1>4, <2>3
  <2>5. ScanOf(g, l, R, k) = [verdict |-> "ok", text |-> X, applied |-> l[k - 1]]
    <3> HIDE DEF S, R
    <3> QED
      BY <2>2 DEF ScanOf
  <2>6. TrySub(acc, e) = ScanOf(g, l, R, k)
    BY <1>9, <2>4, <2>5
  <2> QED
    BY <2>6 DEF FollowsAt
<1> QED
  BY <1>7, <1>8 DEF FollowsAt

(* Where the manifest does not abstain it agrees with the scan. *)
LEMMA ManifestIsScan ==
  ASSUME TextAssumption, NEW pt \in Patches, NEW c \in Texts, Spliceable(Patch[pt], c),
         ~ManifestAbstains(Patch[pt], c, c)
  PROVE  Manifest(Patch[pt], c) = Layer5(Patch[pt], c)
<1> DEFINE subs == Patch[pt].subs
           n == Len(subs)
           R == Recorded(Patch[pt], c)
           scan == FoldLeft(TrySub, Unscanned(c), subs)
<1>1. n \in Nat /\ DOMAIN subs = 1 .. n /\ R \in SUBSET (1 .. n) /\ subs \in Seq(Subs)
  BY RecordedIs
<1>2. /\ R # {}
      /\ \A i \in DOMAIN subs \ R : ~subs[i].required
  BY DEF ManifestAbstains
<1>3. PICK g : ManifestSteps(g, Patch[pt], c)
  BY ManifestChain
<1>4. PICK l : ListedSoFar(l, subs, R) /\ l[n] = Spliced(Patch[pt], c)
  BY SplicedChain
<1>5. PICK h : /\ h[0] = Unscanned(c)
               /\ \A k \in 1 .. n : h[k] = TrySub(h[k - 1], subs[k])
               /\ h[n] = scan
  BY <1>1, ScanChain
<1> DEFINE K == {k \in 0 .. n : h[k] = ScanOf(g, l, R, k)}
           L == {k \in 0 .. n : l[k] # <<>> \/ R \cap (1 .. k) = {}}
<1>6. 0 \in K /\ 0 \in L
  <2>1. R \cap (1 .. 0) = {} /\ 0 \in 0 .. n
    BY <1>1
  <2>2. g[{}] = c /\ l[0] = <<>>
    BY <1>3, <1>4 DEF ManifestSteps, ListedSoFar
  <2> QED
    BY <1>5, <2>1, <2>2 DEF Unscanned, ScanOf
<1>7. ASSUME NEW k \in 1 .. n, k - 1 \in K PROVE k \in K
  <2>1. h[k] = TrySub(ScanOf(g, l, R, k - 1), subs[k])
    BY <1>5, <1>7
  <2>3. FollowsAt(Patch[pt], g, l, R, k)
    BY <1>2, <1>3, <1>4, ScanFollows
  <2>2. TrySub(ScanOf(g, l, R, k - 1), subs[k]) = ScanOf(g, l, R, k)
    BY <2>3 DEF FollowsAt
  <2> QED
    BY <1>1, <2>1, <2>2
<1>8. ASSUME NEW k \in 1 .. n, k - 1 \in L PROVE k \in L
  <2>1. k \in 0 .. n /\ k - 1 \in 0 .. n
    BY <1>1
  <2>2. CASE k \in R
    <3>1. l[k] = Append(l[k - 1], subs[k]) /\ l[k - 1] \in Seq(Subs) /\ subs[k] \in Subs
      BY <1>1, <1>4, <2>1, <2>2, ElementOfSeq DEF ListedSoFar
    <3>2. Len(l[k]) = Len(l[k - 1]) + 1 /\ Len(l[k - 1]) \in Nat
      BY <3>1, AppendProperties, LenProperties
    <3>3. Len(<<>>) = 0
      BY EmptySeq
    <3> QED
      BY <2>1, <3>2, <3>3
  <2>3. CASE k \notin R
    <3>1. l[k] = l[k - 1] /\ R \cap (1 .. k) = R \cap (1 .. (k - 1))
      BY <1>1, <1>4, <2>3 DEF ListedSoFar
    <3> QED
      BY <1>8, <2>1, <3>1
  <2> QED
    BY <2>2, <2>3
<1> HIDE DEF K, L
<1>9. n \in K /\ n \in L
  <2>1. n \in Nat /\ n \in 0 .. n
    BY <1>1
  <2> HIDE DEF n
  <2>2. 0 .. n \subseteq K
    BY <1>6, <1>7, <2>1, UpToInduction
  <2>3. 0 .. n \subseteq L
    BY <1>6, <1>8, <2>1, UpToInduction
  <2> QED
    BY <2>1, <2>2, <2>3
<1>10. R \cap (1 .. n) = R
  BY <1>1
<1>11. scan = Manifest(Patch[pt], c) /\ l[n] # <<>>
  <2>1. g[R] = ManifestText(Patch[pt], c)
    BY <1>3 DEF ManifestSteps
  <2>2. scan = ScanOf(g, l, R, n) /\ (l[n] # <<>> \/ R \cap (1 .. n) = {})
    BY <1>5, <1>9 DEF K, L
  <2> HIDE DEF scan, R
  <2> QED
    BY <1>2, <1>4, <1>10, <2>1, <2>2 DEF ScanOf, Manifest
<1>12. Layer5(Patch[pt], c) = IF scan.verdict = "ok" /\ scan.applied = <<>>
                              THEN [scan EXCEPT !.verdict = "no_applicable_sub_patches"]
                              ELSE scan
  BY DEF Layer5, Unscanned
<1>13. scan.applied # <<>>
  <2> HIDE DEF scan
  <2> QED
    BY <1>4, <1>11 DEF Manifest
<1> QED
  BY <1>11, <1>12, <1>13

(* Where the recorded anchors are independent of each other, the splices   *)
(* at precomputed offsets (anchor_manifest.py, Layer 4.5) write the text    *)
(* and report the sub-patches the anchor scan of Layer 5 would: the content *)
(* a call is about to load is a text, which is all the state has to give.   *)
THEOREM ManifestScanAgree == PatcherTypeOK => ManifestMatchesScan
<1> SUFFICES ASSUME PatcherTypeOK, NEW p \in Procs, Loading(p),
                    Spliceable(Patch[call[p].patch], disk[File(call[p].patch)])
             PROVE  RewriteNow(call[p].patch, disk[File(call[p].patch)])
                      = Layer5(Patch[call[p].patch], disk[File(call[p].patch)])
  BY DEF ManifestMatchesScan
<1> DEFINE pt == call[p].patch
           c  == disk[File(pt)]
           pristine == Wheel[pin][File(pt)]
<1>1. pt \in Patches
  BY DEF PatcherTypeOK
<1>2. c \in Texts
  <2>1. File(pt) \in Files
    BY <1>1, ConfigAssumption DEF File
  <2> QED
    BY <2>1 DEF PatcherTypeOK, Loading
<1> HIDE DEF pt, c, pristine
<1>3. Spliceable(Patch[pt], c)
  BY DEF pt, c
<1>4. RewriteNow(pt, c) = Layer5(Patch[pt], c)
  <2>1. CASE RewriteNow(pt, c) # Layer5(Patch[pt], c)
    <3>1. /\ RewriteNow(pt, c) = Manifest(Patch[pt], pristine)
          /\ ~ManifestAbstains(Patch[pt], pristine, c)
      BY <2>1 DEF RewriteNow, Rewrite, pristine
    <3>2. c = pristine
      BY <3>1 DEF ManifestAbstains
    <3>3. Manifest(Patch[pt], c) = Layer5(Patch[pt], c)
      BY <1>1, <1>2, <1>3, <3>1, <3>2, TextAssumption, ManifestIsScan
    <3> QED
      BY <3>1, <3>2, <3>3
  <2> QED
    BY <2>1
<1> QED
  BY <1>4 DEF pt, c

-----------------------------------------------------------------------------
(* What one round of the scan does, and when.                              *)
MergedIn(e, t) == \E m \in e.merged : Marked(t, m)

(* When a sub-patch is applied, passed over or ends the scan.              *)
LEMMA SubVerdictIs ==
  ASSUME NEW e, NEW t
  PROVE  /\ SubVerdict(e, t) \in Verdicts \ {"ok"}
         /\ SubVerdict(e, t) = "apply" <=> ~MergedIn(e, t) /\ Once(e.anchor, t)
         /\ SubVerdict(e, t) = "pass" /\ e.required => MergedIn(e, t)
<1> DEFINE merged == MergedIn(e, t)
           found  == Has(e.anchor, t)
           once   == Once(e.anchor, t)
           v      == SubVerdict(e, t)
<1>1. v = CASE merged /\ e.abort                -> "sub_upstream_merged_abort_bundle"
            [] merged /\ ~e.abort               -> "pass"
            [] ~merged /\ ~found /\ e.required  -> "required_anchor_missing"
            [] ~merged /\ ~found /\ ~e.required -> "pass"
            [] ~merged /\ found /\ ~once        -> "ambiguous_anchor"
            [] ~merged /\ once                  -> "apply"
  BY DEF SubVerdict, MergedIn
<1>2. once => found
  BY OnceHas
<1> HIDE DEF merged, found, once, v
<1>3. v \in Verdicts \ {"ok"}
  BY <1>1, <1>2 DEF Verdicts
<1>4. v = "apply" <=> ~merged /\ once
  BY <1>1, <1>2
<1>5. v = "pass" /\ e.required => merged
  BY <1>1, <1>2
<1> QED
  BY <1>3, <1>4, <1>5 DEF merged, once, v

(* What such a round leaves.                                               *)
LEMMA TrySubIs ==
  ASSUME NEW acc \in Scans, NEW e
  PROVE  /\ TrySub(acc, e).verdict = "ok" =>
              /\ acc.verdict = "ok"
              /\ SubVerdict(e, acc.text) \in {"pass", "apply"}
         /\ acc.verdict = "ok" /\ SubVerdict(e, acc.text) = "pass" => TrySub(acc, e) = acc
         /\ acc.verdict = "ok" /\ SubVerdict(e, acc.text) = "apply" =>
              /\ TrySub(acc, e).verdict = "ok"
              /\ TrySub(acc, e).text = Replaced(e, acc.text)
              /\ TrySub(acc, e).applied = Append(acc.applied, e)
<1> DEFINE v == SubVerdict(e, acc.text)
<1>1. v \in Verdicts \ {"ok"}
  BY SubVerdictIs
<1>2. TrySub(acc, e) = CASE acc.verdict # "ok" \/ v = "pass" -> acc
                         [] acc.verdict = "ok" /\ v = "apply" ->
                              [acc EXCEPT !.text = Replaced(e, acc.text), !.applied = Append(@, e)]
                         [] acc.verdict = "ok" /\ v \notin {"pass", "apply"} ->
                              [acc EXCEPT !.verdict = v]
  BY DEF TrySub
<1> HIDE DEF v
<1>3. CASE acc.verdict # "ok"
  BY <1>2, <1>3 DEF v
<1>4. CASE acc.verdict = "ok" /\ v = "pass"
  BY <1>2, <1>4 DEF v
<1>5. CASE acc.verdict = "ok" /\ v = "apply"
  <2>1. TrySub(acc, e) = [acc EXCEPT !.text = Replaced(e, acc.text), !.applied = Append(@, e)]
    BY <1>2, <1>5
  <2> DEFINE u == Replaced(e, acc.text)
             w == Append(acc.applied, e)
             r == TrySub(acc, e)
  <2>2. r = [acc EXCEPT !.text = u, !.applied = w]
    BY <2>1
  <2> HIDE DEF u, w, r
  <2>3. r.verdict = "ok" /\ r.text = u /\ r.applied = w
    BY <1>5, <2>2 DEF Scans
  <2> QED
    BY <1>5, <2>3 DEF u, w, r, v
<1>6. CASE acc.verdict = "ok" /\ v \notin {"pass", "apply"}
  <2>1. TrySub(acc, e) = [acc EXCEPT !.verdict = v]
    BY <1>2, <1>6
  <2>2. TrySub(acc, e).verdict # "ok"
    BY <1>1, <2>1 DEF Scans
  <2> QED
    BY <1>6, <2>2 DEF v
<1> QED
  BY <1>3, <1>4, <1>5, <1>6

(* The scan as a chain, with what Layer 5 makes of its end. *)
ScanSteps(h, subs, c) ==
  /\ h \in [0 .. Len(subs) -> Scans]
  /\ h[0] = Unscanned(c)
  /\ \A k \in 1 .. Len(subs) : h[k] = TrySub(h[k - 1], subs[k])

(* A verdict other than "ok" stays.                                        *)
LEMMA ScanSteady ==
  ASSUME TextAssumption, NEW pt \in Patches, NEW c \in Texts
  PROVE  \E h : /\ ScanSteps(h, Patch[pt].subs, c)
                /\ LET scan == h[Len(Patch[pt].subs)]
                   IN  Layer5(Patch[pt], c) =
                         IF scan.verdict = "ok" /\ scan.applied = <<>>
                         THEN [scan EXCEPT !.verdict = "no_applicable_sub_patches"]
                         ELSE scan
<1> DEFINE subs == Patch[pt].subs
<1>1. subs \in Seq(Subs)
  BY DEF TextAssumption
<1>2. PICK h \in [0 .. Len(subs) -> Scans] :
         /\ h[0] = Unscanned(c)
         /\ \A k \in 1 .. Len(subs) : h[k] = TrySub(h[k - 1], subs[k])
         /\ h[Len(subs)] = FoldLeft(TrySub, Unscanned(c), subs)
  BY <1>1, ScanChain
<1>3. ScanSteps(h, subs, c)
  BY <1>2 DEF ScanSteps
<1> DEFINE scan == FoldLeft(TrySub, Unscanned(c), subs)
<1>4. Layer5(Patch[pt], c) = IF scan.verdict = "ok" /\ scan.applied = <<>>
                             THEN [scan EXCEPT !.verdict = "no_applicable_sub_patches"]
                             ELSE scan
  BY DEF Layer5, Unscanned
<1> QED
  BY <1>2, <1>3, <1>4

(* A round keeps the texts, and the merged markers none erases.            *)
LEMMA ScanStep ==
  ASSUME TextAssumption, NEW pt \in Patches, NEW c \in Texts,
         NEW h, ScanSteps(h, Patch[pt].subs, c), NEW k \in 1 .. Len(Patch[pt].subs)
  PROVE  /\ k - 1 \in 0 .. Len(Patch[pt].subs) /\ k \in 0 .. Len(Patch[pt].subs)
         /\ h[k - 1] \in Scans /\ h[k] \in Scans /\ Patch[pt].subs[k] \in Subs
         /\ h[k] = TrySub(h[k - 1], Patch[pt].subs[k])
         /\ MergedSurvive => \A d \in Subs : \A m \in d.merged :
              Marked(h[k - 1].text, m) => Marked(h[k].text, m)
<1> DEFINE subs == Patch[pt].subs
           e == subs[k]
<1>1. subs \in Seq(Subs) /\ Len(subs) \in Nat
  BY LenProperties DEF TextAssumption
<1>2. k - 1 \in 0 .. Len(subs) /\ k \in 0 .. Len(subs) /\ e \in Subs
  BY <1>1, ElementOfSeq
<1>3. h[k - 1] \in Scans /\ h[k] \in Scans /\ h[k] = TrySub(h[k - 1], e)
  BY <1>2 DEF ScanSteps
<1>4. \A m : Marked(h[k - 1].text, m) /\ Keeps(e, m) => Marked(TrySub(h[k - 1], e).text, m)
  <2> DEFINE a == h[k - 1]
  <2> HIDE DEF a, e
  <2>1. \A m : Marked(a.text, m) /\ Keeps(e, m) => Marked(TrySub(a, e).text, m)
    BY <1>2, <1>3, TrySubText DEF a
  <2> QED
    BY <2>1 DEF a
<1>5. MergedSurvive => \A d \in Subs : \A m \in d.merged : Keeps(e, m)
  BY <1>2 DEF MergedSurvive
<1> QED
  BY <1>2, <1>3, <1>4, <1>5

(* What is in a list and what is put at its end.                           *)
LEMMA AppendedSet ==
  ASSUME NEW A, NEW s \in Seq(A), NEW x \in A
  PROVE  ToSet(Append(s, x)) = ToSet(s) \cup {x}
<1>1. /\ Len(s) \in Nat
      /\ Append(s, x) \in Seq(A) /\ Len(Append(s, x)) = Len(s) + 1
      /\ \A i \in 1 .. Len(s) : Append(s, x)[i] = s[i]
      /\ Append(s, x)[Len(s) + 1] = x
  BY AppendProperties, LenProperties
<1>2. /\ DOMAIN s = 1 .. Len(s) /\ DOMAIN Append(s, x) = 1 .. Len(s) + 1
      /\ 1 .. Len(s) + 1 = (1 .. Len(s)) \cup {Len(s) + 1}
  BY <1>1, LenProperties
<1> DEFINE t == Append(s, x)
<1> HIDE DEF t
<1> QED
  BY <1>1, <1>2 DEF ToSet, t

(* Every required sub-patch the scan has come past is in. *)
LEMMA ScanHasRequired ==
  ASSUME TextAssumption, MergedSurvive, NEW pt \in Patches, NEW c \in Texts,
         NEW h, ScanSteps(h, Patch[pt].subs, c), h[Len(Patch[pt].subs)].verdict = "ok",
         NEW i \in 1 .. Len(Patch[pt].subs), Patch[pt].subs[i].required
  PROVE  LET scan == h[Len(Patch[pt].subs)]
             e    == Patch[pt].subs[i]
         IN  e \in ToSet(scan.applied) \/ MergedIn(e, scan.text)
<1> DEFINE subs == Patch[pt].subs
           n == Len(subs)
           e == subs[i]
           K == {k \in 0 .. n : i <= k /\ h[k].verdict = "ok"
                                  => e \in ToSet(h[k].applied) \/ MergedIn(e, h[k].text)}
<1>1. n \in Nat /\ e \in Subs /\ i \in Nat /\ 1 <= i
  BY ScanStep, LenProperties DEF TextAssumption
<1>2. 0 \in K
  BY <1>1
<1>3. ASSUME NEW k \in 1 .. n, k - 1 \in K PROVE k \in K
  <2> DEFINE a == h[k - 1]
             d == subs[k]
             b == h[k]
  <2>1. /\ a \in Scans /\ b \in Scans /\ d \in Subs /\ b = TrySub(a, d) /\ k \in 0 .. n
        /\ \A m \in e.merged : Marked(a.text, m) => Marked(b.text, m)
    BY <1>1, ScanStep
  <2> SUFFICES ASSUME i <= k, b.verdict = "ok"
               PROVE  e \in ToSet(b.applied) \/ MergedIn(e, b.text)
    BY <2>1
  <2>2. i <= k - 1 /\ a.verdict = "ok" => e \in ToSet(a.applied) \/ MergedIn(e, a.text)
    BY <1>3
  <2>3. i = k => d = e
    OBVIOUS
  <2> HIDE DEF a, b, d, e
  <2>4. a.verdict = "ok" /\ SubVerdict(d, a.text) \in {"pass", "apply"}
    BY <2>1, TrySubIs
  <2>5. MergedIn(e, a.text) => MergedIn(e, b.text)
    BY <2>1 DEF MergedIn
  <2>6. CASE SubVerdict(d, a.text) = "pass"
    <3>1. b = a
      BY <2>1, <2>4, <2>6, TrySubIs
    <3>2. CASE i <= k - 1
      BY <2>2, <2>4, <3>1, <3>2
    <3>3. CASE i = k
      <4>1. e.required
        BY DEF e
      <4> QED
        BY <2>3, <2>6, <3>1, <3>3, <4>1, SubVerdictIs
    <3> QED
      BY <1>1, <3>2, <3>3
  <2>7. CASE SubVerdict(d, a.text) = "apply"
    <3>1. b.applied = Append(a.applied, d) /\ a.applied \in Seq(Subs)
      BY <2>1, <2>4, <2>7, TrySubIs DEF Scans
    <3>2. ToSet(b.applied) = ToSet(a.applied) \cup {d}
      BY <2>1, <3>1, AppendedSet
    <3>3. CASE i <= k - 1
      BY <2>2, <2>4, <2>5, <3>2, <3>3
    <3>4. CASE i = k
      BY <2>3, <3>2, <3>4
    <3> QED
      BY <1>1, <3>3, <3>4
  <2> QED
    BY <2>4, <2>6, <2>7
<1> HIDE DEF K
<1>4. n \in K
  <2>1. n \in Nat /\ n \in 0 .. n
    BY <1>1
  <2> HIDE DEF n
  <2>2. 0 .. n \subseteq K
    BY <1>2, <1>3, <2>1, UpToInduction
  <2> QED
    BY <2>1, <2>2
<1> QED
  BY <1>1, <1>4 DEF K

-----------------------------------------------------------------------------
(* Layer 5 accepts a content exactly when the scan went through.           *)
LEMMA Layer5Is ==
  ASSUME TextAssumption, NEW pt \in Patches, NEW c \in Texts
  PROVE  \E h : /\ ScanSteps(h, Patch[pt].subs, c)
                /\ LET scan == h[Len(Patch[pt].subs)]
                   IN  /\ scan \in Scans
                       /\ Layer5(Patch[pt], c).text = scan.text
                       /\ Layer5(Patch[pt], c).verdict = "ok"
                            <=> scan.verdict = "ok" /\ scan.applied # <<>>
                       /\ Layer5(Patch[pt], c).verdict = "ok" => Layer5(Patch[pt], c) = scan
                       /\ Layer5(Patch[pt], c).verdict # "idempotent"
<1>1. PICK h : /\ ScanSteps(h, Patch[pt].subs, c)
               /\ LET scan == h[Len(Patch[pt].subs)]
                  IN  Layer5(Patch[pt], c) =
                         IF scan.verdict = "ok" /\ scan.applied = <<>>
                         THEN [scan EXCEPT !.verdict = "no_applicable_sub_patches"]
                         ELSE scan
  BY ScanSteady
<1> DEFINE scan == h[Len(Patch[pt].subs)]
           x    == Layer5(Patch[pt], c)
<1>2. scan \in Scans
  <2>1. Len(Patch[pt].subs) \in 0 .. Len(Patch[pt].subs)
    BY LenProperties DEF TextAssumption
  <2> QED
    BY <1>1, <2>1 DEF ScanSteps
<1>3. x = IF scan.verdict = "ok" /\ scan.applied = <<>>
          THEN [scan EXCEPT !.verdict = "no_applicable_sub_patches"]
          ELSE scan
  BY <1>1
<1> HIDE DEF x, scan
<1>4. /\ x.text = scan.text /\ (x.verdict = "ok" <=> scan.verdict = "ok" /\ scan.applied # <<>>)
      /\ x.verdict = "ok" => x = scan
      /\ x.verdict # "idempotent"
  BY <1>2, <1>3 DEF Scans, Verdicts
<1> QED
  BY <1>1, <1>2, <1>4 DEF x, scan

(* The manifest has spliced in every sub-patch it has an entry for. *)
LEMMA SplicedHasRecorded ==
  ASSUME TextAssumption, NEW pt \in Patches, NEW c \in Texts,
         NEW i \in Recorded(Patch[pt], c)
  PROVE  Patch[pt].subs[i] \in ToSet(Spliced(Patch[pt], c))
<1> DEFINE subs == Patch[pt].subs
           n == Len(subs)
           R == Recorded(Patch[pt], c)
           e == subs[i]
<1>1. n \in Nat /\ R \in SUBSET (1 .. n) /\ i \in 1 .. n /\ \A k \in 1 .. n : subs[k] \in Subs
  BY RecordedIs
<1>2. PICK l : ListedSoFar(l, subs, R) /\ l[n] = Spliced(Patch[pt], c)
  BY SplicedChain
<1> DEFINE K == {k \in 0 .. n : i <= k => e \in ToSet(l[k])}
<1>3. 0 \in K
  BY <1>1
<1>4. ASSUME NEW k \in 1 .. n, k - 1 \in K PROVE k \in K
  <2>1. k \in 0 .. n /\ k - 1 \in 0 .. n /\ l[k - 1] \in Seq(Subs) /\ subs[k] \in Subs
    BY <1>1, <1>2 DEF ListedSoFar
  <2>2. l[k] = IF k \in R THEN Append(l[k - 1], subs[k]) ELSE l[k - 1]
    BY <1>2 DEF ListedSoFar
  <2>3. ToSet(Append(l[k - 1], subs[k])) = ToSet(l[k - 1]) \cup {subs[k]}
    BY <2>1, AppendedSet
  <2>4. i <= k - 1 => e \in ToSet(l[k - 1])
    BY <1>4
  <2>5. CASE i = k
    BY <2>1, <2>2, <2>3, <2>5
  <2>6. CASE i <= k - 1
    BY <2>1, <2>2, <2>3, <2>4, <2>6
  <2> QED
    BY <1>1, <2>1, <2>5, <2>6
<1> HIDE DEF K
<1>5. n \in K
  <2>1. n \in Nat /\ n \in 0 .. n
    BY <1>1
  <2> HIDE DEF n
  <2>2. 0 .. n \subseteq K
    BY <1>3, <1>4, <2>1, UpToInduction
  <2> QED
    BY <2>1, <2>2
<1> QED
  BY <1>1, <1>2, <1>5 DEF K

(* A call past the checks of Layer 1 has a text at hand.                   *)
LEMMA LoadedText ==
  ASSUME PatcherTypeOK, NEW p \in Procs, Loading(p)
  PROVE  call[p].patch \in Patches /\ disk[File(call[p].patch)] \in Texts
<1>1. call[p].patch \in Patches
  BY DEF PatcherTypeOK
<1>2. File(call[p].patch) \in Files
  BY <1>1, ConfigAssumption DEF File
<1> QED
  BY <1>1, <1>2 DEF PatcherTypeOK, Loading

(* While no sub-patch erases a token by which another knows an upstream     *)
(* merge, whatever path writes the text, every required sub-patch is in it  *)
(* or has such a token stand for it.                                        *)
THEOREM NoRequiredLeftOut == MergedSurvive => (PatcherTypeOK => RequiredAllOrNothing)
<1> SUFFICES ASSUME MergedSurvive, PatcherTypeOK, NEW p \in Procs, Loading(p),
                    RewriteNow(call[p].patch, disk[File(call[p].patch)]).verdict = "ok",
                    NEW e \in ToSet(Patch[call[p].patch].subs), e.required
             PROVE  LET written == RewriteNow(call[p].patch, disk[File(call[p].patch)])
                    IN  \/ e \in ToSet(written.applied)
                        \/ \E m \in e.merged : Marked(written.text, m)
  BY DEF RequiredAllOrNothing
<1> DEFINE pt == call[p].patch
           c  == disk[File(pt)]
           subs == Patch[pt].subs
           n == Len(subs)
           written == RewriteNow(pt, c)
           pristine == Wheel[pin][File(pt)]
<1>1. pt \in Patches /\ c \in Texts
  BY LoadedText
<1>2. PICK i \in 1 .. n : e = subs[i]
  <2>1. DOMAIN subs = 1 .. n
    BY <1>1, RecordedIs, TextAssumption
  <2> QED
    BY <2>1 DEF ToSet
<1>3. CASE written = Layer5(Patch[pt], c)
  <2>1. PICK h : /\ ScanSteps(h, subs, c)
                 /\ h[n].verdict = "ok" /\ written = h[n]
    <3> HIDE DEF pt, c
    <3>1. PICK h : /\ ScanSteps(h, Patch[pt].subs, c)
                   /\ LET scan == h[Len(Patch[pt].subs)]
                      IN  /\ scan \in Scans
                          /\ Layer5(Patch[pt], c).text = scan.text
                          /\ Layer5(Patch[pt], c).verdict = "ok"
                               <=> scan.verdict = "ok" /\ scan.applied # <<>>
                          /\ Layer5(Patch[pt], c).verdict = "ok" => Layer5(Patch[pt], c) = scan
                          /\ Layer5(Patch[pt], c).verdict # "idempotent"
      BY <1>1, Layer5Is, TextAssumption
    <3>2. written.verdict = "ok"
      BY DEF pt, c
    <3> HIDE DEF written
    <3> QED
      BY <1>3, <3>1, <3>2
  <2>2. e \in ToSet(h[n].applied) \/ MergedIn(e, h[n].text)
    <3> HIDE DEF pt, c
    <3> QED
      BY <1>1, <1>2, <2>1, ScanHasRequired, TextAssumption
  <2> QED
    BY <2>1, <2>2 DEF MergedIn
<1>4. CASE written # Layer5(Patch[pt], c)
  <2> HIDE DEF pt, c, pristine
  <2>1. /\ written = Manifest(Patch[pt], pristine)
        /\ ~ManifestAbstains(Patch[pt], pristine, c)
    BY <1>4 DEF RewriteNow, Rewrite, pristine
  <2>2. c = pristine /\ \A k \in DOMAIN subs \ Recorded(Patch[pt], c) : ~subs[k].required
    BY <2>1 DEF ManifestAbstains
  <2>3. DOMAIN subs = 1 .. n
    BY <1>1, RecordedIs, TextAssumption
  <2>4. i \in Recorded(Patch[pt], c)
    BY <1>2, <2>2, <2>3
  <2>5. subs[i] \in ToSet(Spliced(Patch[pt], c))
    BY <1>1, <2>4, SplicedHasRecorded, TextAssumption
  <2>6. written.applied = Spliced(Patch[pt], c)
    BY <2>1, <2>2 DEF Manifest
  <2> HIDE DEF written
  <2>7. e \in ToSet(written.applied)
    BY <1>2, <2>5, <2>6
  <2> QED
    BY <2>7 DEF written, pt, c
<1> QED
  BY <1>3, <1>4

-----------------------------------------------------------------------------
(* The dry run as a chain of previews, next to that of the scan.           *)
Previews == [ok : BOOLEAN, text : Texts]
Unpreviewed(c) == [ok |-> TRUE, text |-> c]

PreviewSteps(q, subs, c) ==
  /\ q \in [0 .. Len(subs) -> Previews]
  /\ q[0] = Unpreviewed(c)
  /\ \A k \in 1 .. Len(subs) : q[k] = PreviewSub(q[k - 1], subs[k])

(* What a preview of one sub-patch leaves.                                 *)
LEMMA PreviewIs ==
  ASSUME TextAssumption, NEW acc \in Previews, NEW e \in Subs
  PROVE  /\ PreviewSub(acc, e) \in Previews
         /\ PreviewSub(acc, e).ok <=> acc.ok /\ (e.required => Once(e.anchor, acc.text))
         /\ acc.ok /\ Once(e.anchor, acc.text) => PreviewSub(acc, e).text = Replaced(e, acc.text)
<1> DEFINE x == acc.ok /\ (e.required => Once(e.anchor, acc.text))
           u == IF acc.ok /\ Has(e.anchor, acc.text) THEN Replaced(e, acc.text) ELSE acc.text
<1>1. PreviewSub(acc, e) = [ok |-> x, text |-> u]
  BY DEF PreviewSub
<1>2. u \in Texts
  <2>1. CASE Has(e.anchor, acc.text)
    <3>1. e.anchor \in Seq(Tokens) /\ e.repl \in Seq(Tokens) /\ acc.text \in Seq(Tokens)
      BY DEF TextAssumption, Texts, Previews
    <3>2. Replaced(e, acc.text) \in Seq(Tokens)
      BY <2>1, <3>1, ReplacedText
    <3> QED
      BY <3>2 DEF Texts, Previews
  <2>2. CASE ~Has(e.anchor, acc.text)
    BY <2>2 DEF Previews
  <2> QED
    BY <2>1, <2>2
<1>3. x \in BOOLEAN
  OBVIOUS
<1>4. acc.ok /\ Once(e.anchor, acc.text) => u = Replaced(e, acc.text)
  BY OnceHas
<1> DEFINE y == PreviewSub(acc, e)
<1>5. y = [ok |-> x, text |-> u]
  BY <1>1
<1> HIDE DEF x, u, y
<1>6. y \in Previews /\ y.ok = x /\ y.text = u
  BY <1>2, <1>3, <1>5 DEF Previews
<1> QED
  BY <1>4, <1>6 DEF x, y

(* The fold of the dry run is such a chain.                                *)
LEMMA PreviewChain ==
  ASSUME TextAssumption, NEW pt \in Patches, NEW c \in Texts
  PROVE  \E q : /\ PreviewSteps(q, Patch[pt].subs, c)
                /\ q[Len(Patch[pt].subs)] = FoldLeft(PreviewSub, Unpreviewed(c), Patch[pt].subs)
<1> DEFINE subs == Patch[pt].subs
           n == Len(subs)
           base == Unpreviewed(c)
           f == [x \in (1 .. n) \X Previews |-> PreviewSub(x[2], subs[x[1]])]
           Def(g, t) == IF t = {} THEN base ELSE PreviewSub(g[t \ {Max(t)}], subs[Max(t)])
           iter == CHOOSE g : g = [t \in SUBSET DOMAIN subs |-> Def(g, t)]
<1>1. n \in Nat /\ DOMAIN subs = 1 .. n /\ \A i \in 1 .. n : subs[i] \in Subs
  BY RecordedIs
<1>2. base \in Previews
  BY DEF Unpreviewed, Previews
<1>3. \A k \in 1 .. n, a \in Previews : PreviewSub(a, subs[k]) \in Previews
  BY <1>1, PreviewIs
<1>4. FoldLeft(PreviewSub, base, subs) = iter[DOMAIN subs]
  BY DEF FoldLeft, MapThenFoldSet
<1>5. /\ f \in [(1 .. n) \X Previews -> Previews]
      /\ \A k \in 1 .. n, a \in Previews : f[<<k, a>>] = PreviewSub(a, subs[k])
  BY <1>3
<1> HIDE DEF f, n, subs, base
<1>6. PICK g : FoldsUp(g, Previews, base, n, f)
  BY <1>1, <1>2, <1>5, FoldUpExists
<1>7. \A t \in SUBSET (1 .. n) : t # {} => Max(t) \in 1 .. n
  BY <1>1, MaxIsIn
<1>8. \A t \in SUBSET (1 .. n) : g[t] = Def(g, t)
  <2>1. \A t \in SUBSET (1 .. n) : t # {} => g[t \ {Max(t)}] \in Previews
    BY <1>6, <1>7 DEF FoldsUp
  <2> QED
    BY <1>5, <1>6, <1>7, <2>1 DEF FoldsUp
<1>9. g = [t \in SUBSET DOMAIN subs |-> Def(g, t)]
  <2>1. g = [t \in SUBSET (1 .. n) |-> g[t]]
    BY <1>6 DEF FoldsUp
  <2> QED
    BY <1>1, <1>8, <2>1
<1>10. iter = [t \in SUBSET DOMAIN subs |-> Def(iter, t)]
  <2> HIDE DEF Def
  <2> QED
    BY <1>9
<1>11. \A t \in SUBSET (1 .. n) : iter[t] = Def(iter, t)
  <2> HIDE DEF iter, Def
  <2> QED
    BY <1>1, <1>10
<1> HIDE DEF iter
<1>12. FollowsUp(iter, Previews, base, n, f)
  BY <1>5, <1>7, <1>11 DEF FollowsUp
<1>13. PICK q : ChainOf(q, Previews, base, n, f) /\ q[n] = iter[1 .. n]
  <2>1. ChainTo(Previews, base, n, f, iter[1 .. n])
    BY <1>1, <1>2, <1>5, <1>12, FoldUpIsChain
  <2> QED
    BY <2>1 DEF ChainTo
<1>14. PreviewSteps(q, subs, c)
  <2>1. \A k \in 1 .. n : k - 1 \in 0 .. n
    BY <1>1
  <2> QED
    BY <1>5, <1>13, <2>1 DEF ChainOf, PreviewSteps, n, base
<1>15. q[n] = FoldLeft(PreviewSub, base, subs)
  BY <1>1, <1>4, <1>13
<1> QED
  BY <1>14, <1>15 DEF subs, n, base

(* A merged marker the scan has met is in what it ends with. *)
LEMMA MergedStays ==
  ASSUME TextAssumption, MergedSurvive, NEW pt \in Patches, NEW c \in Texts,
         NEW h, ScanSteps(h, Patch[pt].subs, c),
         NEW j \in 0 .. Len(Patch[pt].subs), NEW d \in Subs, MergedIn(d, h[j].text)
  PROVE  MergedIn(d, h[Len(Patch[pt].subs)].text)
<1> DEFINE n == Len(Patch[pt].subs)
           K == {k \in 0 .. n : j <= k => MergedIn(d, h[k].text)}
<1>1. n \in Nat /\ j \in Nat /\ j <= n
  BY LenProperties DEF TextAssumption
<1>2. 0 \in K
  <2>1. j <= 0 => j = 0
    BY <1>1
  <2> QED
    BY <1>1, <2>1
<1>3. ASSUME NEW k \in 1 .. n, k - 1 \in K PROVE k \in K
  <2>1. k \in 0 .. n /\ \A m \in d.merged : Marked(h[k - 1].text, m) => Marked(h[k].text, m)
    BY ScanStep
  <2>2. CASE j = k
    BY <2>1, <2>2
  <2>3. CASE j <= k - 1
    BY <1>3, <2>1, <2>3 DEF MergedIn
  <2>4. j <= k => j = k \/ j <= k - 1
    BY <1>1, <2>1
  <2> QED
    BY <2>1, <2>2, <2>3, <2>4
<1> HIDE DEF K
<1>4. n \in K
  <2>1. n \in Nat /\ n \in 0 .. n
    BY <1>1
  <2> HIDE DEF n
  <2>2. 0 .. n \subseteq K
    BY <1>2, <1>3, <2>1, UpToInduction
  <2> QED
    BY <2>1, <2>2
<1> QED
  BY <1>1, <1>4 DEF K

(* The two chains go together as long as both are well. *)
LEMMA PreviewFollowsScan ==
  ASSUME TextAssumption, MergedSurvive, NEW pt \in Patches, NEW c \in Texts,
         NEW h, ScanSteps(h, Patch[pt].subs, c), NEW q, PreviewSteps(q, Patch[pt].subs, c),
         \A e \in ToSet(Patch[pt].subs) : e.required,
         NothingMerged(Patch[pt], h[Len(Patch[pt].subs)].text)
  PROVE  q[Len(Patch[pt].subs)].ok <=> h[Len(Patch[pt].subs)].verdict = "ok"
<1> DEFINE subs == Patch[pt].subs
           n == Len(subs)
           K == {k \in 0 .. n : /\ q[k].ok <=> h[k].verdict = "ok"
                                /\ q[k].ok => q[k].text = h[k].text}
<1>1. n \in Nat /\ DOMAIN subs = 1 .. n /\ \A k \in 1 .. n : subs[k].required
  <2>1. n \in Nat /\ DOMAIN subs = 1 .. n
    BY RecordedIs
  <2> QED
    BY <2>1 DEF ToSet
<1>2. 0 \in K
  BY <1>1 DEF ScanSteps, PreviewSteps, Unscanned, Unpreviewed
<1>3. ASSUME NEW k \in 1 .. n, k - 1 \in K PROVE k \in K
  <2> DEFINE a == h[k - 1]
             b == h[k]
             x == q[k - 1]
             y == q[k]
             e == subs[k]
  <2>1. a \in Scans /\ b \in Scans /\ e \in Subs /\ b = TrySub(a, e) /\ k \in 0 .. n /\ k - 1 \in 0 .. n
    BY ScanStep
  <2>2. x \in Previews /\ y = PreviewSub(x, e)
    BY <2>1 DEF PreviewSteps
  <2>3. ~MergedIn(e, a.text)
    <3>1. ~MergedIn(e, h[n].text)
      BY <1>1 DEF NothingMerged, MergedIn
    <3> QED
      BY <2>1, <3>1, MergedStays
  <2>4. e.required
    BY <1>1
  <2>5. (x.ok <=> a.verdict = "ok") /\ (x.ok => x.text = a.text)
    BY <1>3
  <2> HIDE DEF a, b, x, y, e
  <2>6. y.ok <=> x.ok /\ Once(e.anchor, x.text)
    BY <2>1, <2>2, <2>4, PreviewIs
  <2>7. CASE x.ok /\ Once(e.anchor, x.text)
    <3>1. SubVerdict(e, a.text) = "apply"
      BY <2>3, <2>5, <2>7, SubVerdictIs
    <3>2. b.verdict = "ok" /\ b.text = Replaced(e, a.text)
      BY <2>1, <2>5, <2>7, <3>1, TrySubIs
    <3>3. y.text = Replaced(e, x.text)
      BY <2>1, <2>2, <2>7, PreviewIs
    <3>4. y.ok /\ y.text = b.text
      BY <2>5, <2>6, <2>7, <3>2, <3>3
    <3> QED
      BY <2>1, <3>2, <3>4 DEF y, b
  <2>8. CASE ~(x.ok /\ Once(e.anchor, x.text))
    <3>1. ~y.ok
      BY <2>6, <2>8
    <3>2. b.verdict # "ok"
      <4> SUFFICES ASSUME b.verdict = "ok" PROVE FALSE
        OBVIOUS
      <4>1. a.verdict = "ok" /\ SubVerdict(e, a.text) \in {"pass", "apply"}
        BY <2>1, TrySubIs
      <4>2. ~Once(e.anchor, a.text)
        BY <2>5, <2>8, <4>1
      <4> QED
        BY <2>3, <2>4, <4>1, <4>2, SubVerdictIs
    <3> QED
      BY <2>1, <3>1, <3>2 DEF y, b
  <2> QED
    BY <2>7, <2>8
<1> HIDE DEF K
<1>4. n \in K
  <2>1. n \in Nat /\ n \in 0 .. n
    BY <1>1
  <2> HIDE DEF n
  <2>2. 0 .. n \subseteq K
    BY <1>2, <1>3, <2>1, UpToInduction
  <2> QED
    BY <2>1, <2>2
<1> QED
  BY <1>4 DEF K

(* Whichever path a safe commit takes, it decides as the anchor scan.       *)
LEMMA SafeCommitScans ==
  ASSUME TextAssumption, NEW pt \in Patches, NEW c \in Texts, SplicesSafely(pt, c)
  PROVE  RewriteNow(pt, c) = Layer5(Patch[pt], c)
<1> DEFINE pristine == Wheel[pin][File(pt)]
<1> SUFFICES ASSUME RewriteNow(pt, c) # Layer5(Patch[pt], c) PROVE FALSE
  OBVIOUS
<1>1. /\ RewriteNow(pt, c) = Manifest(Patch[pt], pristine)
      /\ ~ManifestAbstains(Patch[pt], pristine, c)
      /\ ~NoPatchCache /\ pin \in ManifestPins
  BY DEF RewriteNow, Rewrite
<1> HIDE DEF pristine
<1>2. c = pristine
  BY <1>1 DEF ManifestAbstains
<1>3. Spliceable(Patch[pt], c)
  BY <1>1 DEF SplicesSafely
<1>4. Manifest(Patch[pt], c) = Layer5(Patch[pt], c)
  BY <1>1, <1>2, <1>3, ManifestIsScan
<1> QED
  BY <1>1, <1>2, <1>4

(* The dry run of a transaction admits a writable target exactly when the   *)
(* commit would not skip it, though the one looks at anchors only and the   *)
(* other at merged markers first, and splices where a manifest tells it to: *)
(* where all sub-patches are required, nothing was merged upstream and the  *)
(* manifest, if one is used, has independent anchors.                       *)
THEOREM DryRunIsRight == MergedSurvive => (PatcherTypeOK => DryRunPredictsCommit)
<1> SUFFICES ASSUME MergedSurvive, PatcherTypeOK, NEW p \in Procs, Loading(p),
                    File(call[p].patch) \notin ReadOnly,
                    SplicesSafely(call[p].patch, disk[File(call[p].patch)]),
                    Patch[call[p].patch].subs # <<>>,
                    \A e \in ToSet(Patch[call[p].patch].subs) : e.required,
                    Precheck(Patch[call[p].patch], disk[File(call[p].patch)]) # "upstream_merged",
                    NothingMerged(Patch[call[p].patch],
                                  Layer5(Patch[call[p].patch], disk[File(call[p].patch)]).text)
             PROVE  DryRunOk(Patch[call[p].patch], disk[File(call[p].patch)])
                      <=> CommitGoesOn(call[p].patch, disk[File(call[p].patch)])
  BY DEF DryRunPredictsCommit
<1> DEFINE pt == call[p].patch
           c  == disk[File(pt)]
           patch == Patch[pt]
           subs == patch.subs
           n == Len(subs)
<1>1. pt \in Patches /\ c \in Texts
  BY LoadedText
<1>2. /\ subs # <<>> /\ \A e \in ToSet(subs) : e.required
      /\ Precheck(patch, c) # "upstream_merged"
      /\ NothingMerged(patch, Layer5(patch, c).text)
      /\ File(pt) \notin ReadOnly /\ SplicesSafely(pt, c)
  OBVIOUS
<1> HIDE DEF pt, c
<1>3. subs \in Seq(Subs) /\ n \in Nat /\ DOMAIN subs = 1 .. n /\ 1 \in 1 .. n
  <2>1. subs \in Seq(Subs) /\ n \in Nat /\ DOMAIN subs = 1 .. n
    BY <1>1, RecordedIs, TextAssumption
  <2>2. n # 0
    BY <1>2, <2>1, EmptySeq
  <2> QED
    BY <2>1, <2>2
<1>4. CASE Marked(c, patch.marker)
  <2>1. CommitGoesOn(pt, c)
    BY <1>4 DEF CommitGoesOn, Precheck
  <2>2. DryRunOk(patch, c)
    BY <1>4 DEF DryRunOk
  <2> QED
    BY <2>1, <2>2 DEF pt, c
<1>5. CASE ~Marked(c, patch.marker)
  <2>1. PICK h : /\ ScanSteps(h, subs, c)
                 /\ LET scan == h[n]
                    IN  /\ scan \in Scans
                        /\ Layer5(patch, c).text = scan.text
                        /\ Layer5(patch, c).verdict = "ok"
                             <=> scan.verdict = "ok" /\ scan.applied # <<>>
                        /\ Layer5(patch, c).verdict = "ok" => Layer5(patch, c) = scan
                        /\ Layer5(patch, c).verdict # "idempotent"
    BY <1>1, Layer5Is, TextAssumption
  <2>2. PICK q : PreviewSteps(q, subs, c) /\ q[n] = FoldLeft(PreviewSub, Unpreviewed(c), subs)
    BY <1>1, PreviewChain, TextAssumption
  <2>3. NothingMerged(patch, h[n].text)
    BY <1>2, <2>1
  <2>4. q[n].ok <=> h[n].verdict = "ok"
    BY <1>1, <1>2, <2>1, <2>2, <2>3, PreviewFollowsScan, TextAssumption
  <2>5. h[n].verdict = "ok" => h[n].applied # <<>>
    <3> SUFFICES ASSUME h[n].verdict = "ok" PROVE h[n].applied # <<>>
      OBVIOUS
    <3>1. subs[1] \in ToSet(subs)
      BY <1>3 DEF ToSet
    <3>2. subs[1] \in ToSet(h[n].applied) \/ MergedIn(subs[1], h[n].text)
      BY <1>1, <1>2, <1>3, <2>1, <3>1, ScanHasRequired, TextAssumption
    <3>3. ~MergedIn(subs[1], h[n].text)
      BY <1>3, <2>3 DEF NothingMerged, MergedIn
    <3>4. ToSet(<<>>) = {}
      BY DEF ToSet
    <3> QED
      BY <3>2, <3>3, <3>4
  <2>6. CommitGoesOn(pt, c) <=> Layer5(patch, c).verdict = "ok"
    <3>1. Precheck(patch, c) = "ok"
      <4>1. CASE \E m \in patch.drift : Marked(c, m)
        <5>1. Precheck(patch, c) = "upstream_merged"
          BY <1>5, <4>1 DEF Precheck
        <5> QED
          BY <1>2, <5>1
      <4>2. CASE \A m \in patch.drift : ~Marked(c, m)
        BY <1>5, <4>2 DEF Precheck
      <4> QED
        BY <4>1, <4>2
    <3>2. RewriteNow(pt, c) = Layer5(patch, c)
      BY <1>1, <1>2, SafeCommitScans, TextAssumption
    <3> QED
      BY <1>2, <3>1, <3>2 DEF CommitGoesOn
  <2>7. DryRunOk(patch, c) <=> q[n].ok
    BY <1>5, <2>2 DEF DryRunOk, Unpreviewed
  <2>8. DryRunOk(patch, c) <=> CommitGoesOn(pt, c)
    BY <2>1, <2>4, <2>5, <2>6, <2>7
  <2> QED
    BY <2>8 DEF pt, c
<1> QED
  BY <1>4, <1>5
=============================================================================
