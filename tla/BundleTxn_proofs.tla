-------------------------- MODULE BundleTxn_proofs --------------------------
(***************************************************************************)
(* Proofs about BundleTxn, for any bundle, files, processes and bounds:    *)
(* the types; and, as long as no two processes run the bundle at once,     *)
(* that a run that was skipped or rolled back leaves the files as they     *)
(* were, that no original but the one given up is lost, that "applied"     *)
(* means every patch with a target, and that without faults the bundle is  *)
(* the atomic bundle.                                                      *)
(***************************************************************************)
EXTENDS BundleTxn, TextPatcher_proofs

Indices == 1 .. Len(Bundle)

Txns == [at : Stages, i : 1 .. Len(Bundle) + 1, last : 0 .. Len(Bundle),
         outcome : Outcomes, run : Nat]

TxnTypes ==
  /\ txn \in [Procs -> Txns]
  /\ patchers \in [Procs -> Seq(Patches)]
  /\ \A p \in Procs : Len(patchers[p]) <= Len(Bundle)
  /\ snap \in [Procs -> Seq(Texts)]
  /\ changed \in [Procs -> SUBSET Indices]
  /\ spoilt \in [Procs -> SUBSET Files]
  /\ aid \in [Files -> Texts \cup {NoFile}]
  /\ base \in [Procs -> [Files -> Texts \cup {NoFile}]]
  /\ faulty \in [Procs -> [io : BOOLEAN, aid : BOOLEAN]]
  /\ runs \in Nat /\ faults \in Nat

(* The patchers of p's run. *)
Steps(p) == 1 .. Len(patchers[p])

(* What a stage has behind it. *)
StageOK(p) ==
  LET at == txn[p].at
      i  == txn[p].i
  IN  /\ at \in {"dryrun", "snapshot", "commit"} => i \in Steps(p)
      /\ at \notin {"down", "compose", "done"} => ToSet(patchers[p]) = Present
      /\ at \in {"compose", "dryrun"} => Len(snap[p]) = 0
      /\ at = "snapshot" => Len(snap[p]) = i - 1
      /\ at \in {"commit", "detect", "restore"} => Len(snap[p]) = Len(patchers[p])
      /\ at \in {"compose", "dryrun", "snapshot", "commit"} => changed[p] = {}
      /\ at \in {"detect", "restore"} =>
           txn[p].last \in 0 .. Len(patchers[p]) /\ changed[p] \subseteq Steps(p)
      /\ at # "commit" => call[p].at = "idle"
      /\ at = "commit" /\ call[p].at # "idle" => call[p].patch = patchers[p][i]
      /\ call[p].at \in {"record", "done"} => call[p].result # "none"

TypeInv == PatcherTypeOK /\ TxnTypes /\ \A p \in Procs : StageOK(p)

(* Runs are numbered; only the last one can be under way. *)
OneRun ==
  /\ \A p, q \in Running : p = q
  /\ \A p \in Procs : /\ txn[p].run <= runs
                      /\ p \in Running => txn[p].run = runs
                      /\ txn[p].run = 0 => txn[p].at = "down"
                      /\ txn[p].outcome # "none" => txn[p].at = "done"
                      /\ txn[p].at = "done" => txn[p].outcome # "none"
  /\ \A p, q \in Procs : txn[p].run = txn[q].run /\ txn[p].run # 0 => p = q

Differ(p, f) == disk[f] # base[p][f]

(* The original of f is in its rollback aid, or an error kept it from there. *)
Aided(p, f) == faulty[p].io /\ (faulty[p].aid \/ aid[f] = base[p][f])

(* What a run did to the files so far: a file differs from the original    *)
(* where a committed patcher, or the one under way, wrote it.              *)
BeforeWrites(p) ==
  txn[p].at \in {"compose", "dryrun", "snapshot"} => disk = base[p] /\ spoilt[p] = {}

SnapshotsOK(p) ==
  /\ txn[p].at = "snapshot" => \A j \in 1 .. txn[p].i - 1 : snap[p][j] = base[p][Target(p, j)]
  /\ txn[p].at \in {"commit", "detect", "restore"} =>
       \A j \in Steps(p) : snap[p][j] = base[p][Target(p, j)]

CommitOK(p) ==
  txn[p].at = "commit" =>
    /\ spoilt[p] = {}
    /\ call[p].at = "done" /\ call[p].result = "FAILED" => faulty[p].io
    /\ \A f \in Files : Differ(p, f) =>
         \/ \E j \in 1 .. txn[p].i - 1 : Target(p, j) = f
         \/ /\ f = Target(p, txn[p].i) /\ call[p].at # "idle"
            /\ Writing(p) \/ (call[p].at = "done" /\ call[p].result = "FAILED")

DetectOK(p) ==
  txn[p].at = "detect" =>
    /\ ~faulty[p].io => spoilt[p] = {}
    /\ \A f \in Files : Differ(p, f) =>
         f \in spoilt[p] \/ \E j \in 1 .. txn[p].last : Target(p, j) = f
    /\ \A j \in Steps(p) : j < txn[p].i /\ j <= txn[p].last /\ Differ(p, Target(p, j)) =>
         j \in changed[p] \/ Aided(p, Target(p, j))

RestoreOK(p) ==
  txn[p].at = "restore" =>
    /\ ~faulty[p].io => spoilt[p] = {}
    /\ \A f \in Files : Differ(p, f) =>
         GivenUp(p, f) \/ (\E k \in changed[p] : Target(p, k) = f) \/ Aided(p, f)

EndOK(p) ==
  /\ txn[p].outcome = "skipped" => disk = base[p]
  /\ txn[p].outcome = "failed" =>
       /\ ~faulty[p].io => disk = base[p]
       /\ \A f \in Files : Differ(p, f) => GivenUp(p, f) \/ Aided(p, f)

RunOK(p) ==
  txn[p].run = runs =>
    BeforeWrites(p) /\ SnapshotsOK(p) /\ CommitOK(p) /\ DetectOK(p) /\ RestoreOK(p) /\ EndOK(p)

TxnInv == TypeInv /\ OneRun /\ PatcherInv /\ \A p \in Procs : RunOK(p)

(* Every patch that has a target has its marker there. *)
AllMarked ==
  Present # {} /\ \A pt \in Present : Marked(disk[File(pt)], Marker(pt))

(* The patchers a run went through have their markers in the files. *)
GoneThrough(p) ==
  txn[p].run = runs =>
    /\ txn[p].at = "commit" /\ ~(call[p].at = "done" /\ call[p].result \in {"SKIPPED", "FAILED"}) =>
         \A j \in 1 .. txn[p].i - 1 : Holds(p, Target(p, j), Marker(patchers[p][j]))
    /\ txn[p].outcome = "applied" => AllMarked

AppliedInv == \A p \in Procs : GoneThrough(p)

-----------------------------------------------------------------------------
(* The steps of a run.                                                     *)

LEMMA BundleIs ==
  /\ Len(Bundle) \in Nat \ {0}
  /\ Indices \subseteq 1 .. Len(Bundle) + 1
  /\ Bundle \in Seq(Patches) /\ ToSet(Bundle) \subseteq Patches
<1>1. Bundle \in Seq(Patches) /\ Bundle # <<>>
  BY BundleAssumption
<1>2. Len(Bundle) \in Nat /\ Len(Bundle) # 0 /\ \A i \in 1 .. Len(Bundle) : Bundle[i] \in Patches
  BY <1>1, EmptySeq, LenProperties, ElementOfSeq
<1>3. ToSet(Bundle) \subseteq Patches
  BY <1>1, <1>2, LenProperties DEF ToSet
<1> QED
  BY <1>1, <1>2, <1>3 DEF Indices

(* What a patcher of a run is, as far as types go. *)
LEMMA StepIs ==
  ASSUME TxnTypes, NEW p \in Procs
  PROVE  /\ patchers[p] \in Seq(Patches) /\ Len(patchers[p]) \in Nat
         /\ Steps(p) \subseteq Indices /\ Steps(p) \subseteq Nat
         /\ \A j \in Steps(p) : /\ patchers[p][j] \in Patches /\ Target(p, j) \in Files
                                /\ Marker(patchers[p][j]) \in Markers
<1>1. patchers[p] \in Seq(Patches) /\ Len(patchers[p]) <= Len(Bundle)
  BY DEF TxnTypes
<1>2. Len(patchers[p]) \in Nat /\ \A j \in Steps(p) : patchers[p][j] \in Patches
  BY <1>1, LenProperties, ElementOfSeq DEF Steps
<1>3. Steps(p) \subseteq Indices /\ Steps(p) \subseteq Nat
  BY <1>1, <1>2, BundleIs DEF Steps, Indices
<1> QED
  BY <1>1, <1>2, <1>3, ConfigAssumption, TargetType DEF Target

(* And once the run is composed: its target exists. *)
LEMMA ComposedIs ==
  ASSUME TxnTypes, NEW p \in Procs, ToSet(patchers[p]) = Present
  PROVE  \A j \in Steps(p) : patchers[p][j] \in Present /\ disk[Target(p, j)] # NoFile
<1>1. \A j \in Steps(p) : patchers[p][j] \in ToSet(patchers[p])
  BY StepIs, LenProperties DEF ToSet, Steps
<1> QED
  BY <1>1 DEF Present, Target

(* Files neither appear nor vanish. *)
LEMMA PresentStays ==
  ASSUME PatcherTypeOK, PatcherTypeOK', pin' = pin
  PROVE  Present' = Present
<1>1. \A f \in Files : disk'[f] = NoFile <=> disk[f] = NoFile
  BY DEF PatcherTypeOK
<1>2. \A pt \in ToSet(Bundle) : File(pt) \in Files
  BY BundleIs, TargetType, ConfigAssumption
<1> QED
  BY <1>1, <1>2 DEF Present

(* Where a run goes next. *)
LEMMA MovesAre ==
  ASSUME txn \in [Procs -> Txns], NEW p \in Procs
  PROVE  /\ \A s \in Stages :
              /\ To(p, s) \in [Procs -> Txns]
              /\ \A q \in Procs \ {p} : To(p, s)[q] = txn[q]
              /\ To(p, s)[p].at = s /\ To(p, s)[p].i = 1
              /\ To(p, s)[p].last = txn[p].last
              /\ To(p, s)[p].outcome = txn[p].outcome /\ To(p, s)[p].run = txn[p].run
         /\ \A r \in Outcomes :
              /\ End(p, r) \in [Procs -> Txns]
              /\ \A q \in Procs \ {p} : End(p, r)[q] = txn[q]
              /\ End(p, r)[p].at = "done" /\ End(p, r)[p].outcome = r
              /\ End(p, r)[p].run = txn[p].run /\ End(p, r)[p].last = txn[p].last
         /\ txn[p].i \in Indices =>
              /\ Step(p) \in [Procs -> Txns]
              /\ \A q \in Procs \ {p} : Step(p)[q] = txn[q]
              /\ Step(p)[p].at = txn[p].at /\ Step(p)[p].i = txn[p].i + 1
              /\ Step(p)[p].last = txn[p].last
              /\ Step(p)[p].outcome = txn[p].outcome /\ Step(p)[p].run = txn[p].run
<1>1. Len(Bundle) \in Nat \ {0}
  BY BundleIs
<1>2. ASSUME NEW s \in Stages
      PROVE   /\ To(p, s) \in [Procs -> Txns]
              /\ \A q \in Procs \ {p} : To(p, s)[q] = txn[q]
              /\ To(p, s)[p].at = s /\ To(p, s)[p].i = 1
              /\ To(p, s)[p].last = txn[p].last
              /\ To(p, s)[p].outcome = txn[p].outcome /\ To(p, s)[p].run = txn[p].run
  <2> DEFINE e == [txn[p] EXCEPT !.at = s, !.i = 1]
  <2>1. 1 \in 1 .. Len(Bundle) + 1
    BY <1>1
  <2>2. /\ e \in Txns /\ e.at = s /\ e.i = 1 /\ e.last = txn[p].last
        /\ e.outcome = txn[p].outcome /\ e.run = txn[p].run
    BY <2>1 DEF Txns
  <2>3. To(p, s) = [txn EXCEPT ![p] = e]
    BY DEF To
  <2> HIDE DEF e
  <2> QED
    BY <2>2, <2>3
<1>3. ASSUME NEW r \in Outcomes
      PROVE   /\ End(p, r) \in [Procs -> Txns]
              /\ \A q \in Procs \ {p} : End(p, r)[q] = txn[q]
              /\ End(p, r)[p].at = "done" /\ End(p, r)[p].outcome = r
              /\ End(p, r)[p].run = txn[p].run /\ End(p, r)[p].last = txn[p].last
  <2> DEFINE e == [txn[p] EXCEPT !.at = "done", !.outcome = r]
  <2>1. /\ e \in Txns /\ e.at = "done" /\ e.outcome = r /\ e.run = txn[p].run
        /\ e.last = txn[p].last
    BY DEF Txns, Stages
  <2>2. End(p, r) = [txn EXCEPT ![p] = e]
    BY DEF End
  <2> HIDE DEF e
  <2> QED
    BY <2>1, <2>2
<1>4. ASSUME txn[p].i \in Indices
      PROVE   /\ Step(p) \in [Procs -> Txns]
              /\ \A q \in Procs \ {p} : Step(p)[q] = txn[q]
              /\ Step(p)[p].at = txn[p].at /\ Step(p)[p].i = txn[p].i + 1
              /\ Step(p)[p].last = txn[p].last
              /\ Step(p)[p].outcome = txn[p].outcome /\ Step(p)[p].run = txn[p].run
  <2> DEFINE e == [txn[p] EXCEPT !.i = txn[p].i + 1]
  <2>1. txn[p].i + 1 \in 1 .. Len(Bundle) + 1
    BY <1>1, <1>4 DEF Indices
  <2>2. /\ e \in Txns /\ e.at = txn[p].at /\ e.i = txn[p].i + 1 /\ e.last = txn[p].last
        /\ e.outcome = txn[p].outcome /\ e.run = txn[p].run
    BY <2>1 DEF Txns
  <2>3. Step(p) = [txn EXCEPT ![p] = e]
    BY DEF Step
  <2> HIDE DEF e
  <2> QED
    BY <2>2, <2>3
<1> QED
  BY <1>2, <1>3, <1>4

(* Each step of a run changes p's part of the state only. *)
LEMMA StageKeepsType ==
  ASSUME TypeInv, NEW p \in Procs, PatcherTypeOK', TxnTypes', pin' = pin,
         \A q \in Procs \ {p} : /\ txn'[q] = txn[q] /\ snap'[q] = snap[q]
                                /\ patchers'[q] = patchers[q] /\ changed'[q] = changed[q]
                                /\ call'[q].at = call[q].at /\ call'[q].patch = call[q].patch
                                /\ call'[q].result = call[q].result,
         Present' = Present => StageOK(p)'
  PROVE  TypeInv'
<1>1. Present' = Present
  BY PresentStays DEF TypeInv
<1>2. ASSUME NEW q \in Procs, q # p
      PROVE  StageOK(q)'
  <2>1. /\ StageOK(q) /\ txn'[q] = txn[q] /\ snap'[q] = snap[q]
        /\ patchers'[q] = patchers[q] /\ changed'[q] = changed[q]
        /\ call'[q].at = call[q].at /\ call'[q].patch = call[q].patch
        /\ call'[q].result = call[q].result
    BY <1>2 DEF TypeInv
  <2> QED
    BY ONLY <1>1, <2>1 DEF StageOK, Steps
<1> QED
  BY <1>1, <1>2 DEF TypeInv

(* A step that leaves the files and the calls alone. *)
LEMMA QuietKeepsType ==
  ASSUME TypeInv, NEW p \in Procs, TxnTypes', UNCHANGED patcherVars,
         \A q \in Procs \ {p} : /\ txn'[q] = txn[q] /\ snap'[q] = snap[q]
                                /\ patchers'[q] = patchers[q] /\ changed'[q] = changed[q],
         Present' = Present => StageOK(p)'
  PROVE  TypeInv'
<1>1. PatcherTypeOK' /\ pin' = pin /\ UNCHANGED call
  BY DEF patcherVars, TypeInv, PatcherTypeOK
<1> QED
  BY <1>1, StageKeepsType

(* What an I/O error leaves in the history. *)
LEMMA FaultedIs ==
  ASSUME TxnTypes, NEW p \in Procs, Faulted(p)
  PROVE  /\ faulty' \in [Procs -> [io : BOOLEAN, aid : BOOLEAN]] /\ faults' \in Nat
         /\ faulty'[p].io /\ faulty'[p].aid = faulty[p].aid
         /\ \A q \in Procs \ {p} : faulty'[q] = faulty[q]
<1> DEFINE e == [faulty[p] EXCEPT !.io = TRUE]
<1>1. /\ e \in [io : BOOLEAN, aid : BOOLEAN] /\ e.io /\ e.aid = faulty[p].aid
      /\ faulty \in [Procs -> [io : BOOLEAN, aid : BOOLEAN]]
  BY DEF TxnTypes
<1>2. faulty' = [faulty EXCEPT ![p] = e] /\ faults' = faults + 1
  BY DEF Faulted
<1> HIDE DEF e
<1> QED
  BY <1>1, <1>2 DEF TxnTypes

LEMMA InitTypeInv ==
  ASSUME Init
  PROVE  TypeInv
<1>1. PatcherTypeOK /\ \A p \in Procs : call[p].at = "idle"
  BY InitPatcherType, TextAssumption, ConfigAssumption DEF Init
<1>2. 1 \in 1 .. Len(Bundle) + 1 /\ 0 \in 0 .. Len(Bundle)
  BY BundleIs
<1>3. txn \in [Procs -> Txns] /\ \A p \in Procs : txn[p].at = "down"
  BY <1>2 DEF Init, Txns, Stages, Outcomes
<1>4. /\ snap \in [Procs -> Seq(Texts)] /\ patchers \in [Procs -> Seq(Patches)]
      /\ \A p \in Procs : Len(patchers[p]) <= Len(Bundle)
  BY EmptySeq, BundleIs DEF Init
<1>5. TxnTypes
  BY <1>1, <1>3, <1>4 DEF Init, TxnTypes, Sane, PatcherTypeOK
<1> QED
  BY <1>1, <1>3, <1>5 DEF TypeInv, StageOK

LEMMA LookKeepsType ==
  ASSUME TypeInv, NEW p \in Procs,
         \/ Run(p) \/ GatedOut(p) \/ Compose(p) \/ DryRun(p) \/ Snapshot(p) \/ Detect(p)
         \/ RolledBack(p) \/ ComposeFails(p) \/ ReadFails(p)
  PROVE  TypeInv'
<1> DEFINE i == txn[p].i
           n == Len(patchers[p])
<1>1. /\ txn \in [Procs -> Txns] /\ txn[p] \in Txns /\ StageOK(p) /\ TxnTypes /\ PatcherTypeOK
      /\ i \in 1 .. Len(Bundle) + 1
      /\ Len(Bundle) \in Nat \ {0} /\ n \in Nat /\ Steps(p) \subseteq Indices
  BY BundleIs, StepIs DEF TypeInv, TxnTypes, Txns
<1>3. CASE Run(p)
  <2> DEFINE e == [at |-> "compose", i |-> 1, last |-> 0, outcome |-> "none", run |-> runs + 1]
  <2>1. 1 \in 1 .. Len(Bundle) + 1 /\ 0 \in 0 .. Len(Bundle)
    BY <1>1
  <2>2. e \in Txns /\ e.at = "compose" /\ e.i = 1
    BY <1>1, <2>1 DEF Txns, Stages, Outcomes, TxnTypes
  <2> HIDE DEF e
  <2>3. txn' = [txn EXCEPT ![p] = e]
    BY <1>3 DEF Run, e
  <2>4. /\ txn' \in [Procs -> Txns] /\ txn'[p].at = "compose" /\ Len(<<>>) = 0
        /\ snap'[p] = <<>> /\ changed'[p] = {} /\ patchers'[p] = <<>>
        /\ \A q \in Procs \ {p} : /\ txn'[q] = txn[q] /\ snap'[q] = snap[q]
                                   /\ patchers'[q] = patchers[q] /\ changed'[q] = changed[q]
    BY <1>1, <1>3, <2>2, <2>3, EmptySeq DEF Run, TxnTypes
  <2>5. snap' \in [Procs -> Seq(Texts)] /\ patchers' \in [Procs -> Seq(Patches)]
    BY <1>1, <1>3, EmptySeq DEF Run, TxnTypes
  <2>6. ASSUME NEW q \in Procs PROVE Len(patchers'[q]) <= Len(Bundle)
    <3>1. CASE q = p
      BY <1>1, <2>4, <3>1
    <3>2. CASE q # p
      BY <1>1, <2>4, <3>2 DEF TxnTypes
    <3> QED
      BY <3>1, <3>2
  <2>7. TxnTypes'
    BY <1>1, <1>3, <2>4, <2>5, <2>6 DEF Run, TxnTypes, Sane, PatcherTypeOK
  <2>8. StageOK(p)'
    <3>1. call'[p].at = "idle" /\ Len(snap'[p]) = 0
      BY <1>1, <1>3, <2>4 DEF Run, StageOK, patcherVars
    <3> QED
      BY ONLY <2>4, <3>1 DEF StageOK
  <2>9. UNCHANGED patcherVars
    BY <1>3 DEF Run
  <2> QED
    BY ONLY TypeInv, p \in Procs, <2>4, <2>7, <2>8, <2>9, QuietKeepsType
<1>8. CASE Compose(p)
  <2> DEFINE there == {pt \in Patches : disk[File(pt)] # NoFile}
             found == Kept(Bundle, there)
  <2>1. /\ txn[p].at = "compose" /\ UNCHANGED <<patcherVars, snap, changed>>
        /\ patchers' = [patchers EXCEPT ![p] = found]
        /\ \/ found = <<>> /\ txn' = End(p, "skipped")
           \/ found # <<>> /\ txn' = To(p, "dryrun")
    BY <1>8 DEF Compose
  <2>2. found \in Seq(Patches) /\ Len(found) <= Len(Bundle) /\ ToSet(found) = ToSet(Bundle) \cap there
    BY BundleIs, KeptIs
  <2>3. ToSet(found) = Present
    BY <2>2, BundleIs DEF Present
  <2> HIDE DEF found
  <2>4. /\ patchers' \in [Procs -> Seq(Patches)] /\ patchers'[p] = found
        /\ \A q \in Procs \ {p} : patchers'[q] = patchers[q]
    BY <1>1, <2>1, <2>2 DEF TxnTypes
  <2>5. \A q \in Procs : Len(patchers'[q]) <= Len(Bundle)
    BY <1>1, <2>2, <2>4 DEF TxnTypes
  <2>6. txn' \in [Procs -> Txns] /\ \A q \in Procs \ {p} : txn'[q] = txn[q]
    BY <1>1, <2>1, MovesAre DEF Stages, Outcomes
  <2>7. TxnTypes'
    BY <1>1, <1>8, <2>4, <2>5, <2>6 DEF Compose, TxnTypes
  <2>8. ASSUME Present' = Present PROVE StageOK(p)'
    <3>1. /\ Len(snap'[p]) = 0 /\ changed'[p] = {} /\ call'[p].at = "idle"
      BY <1>1, <2>1 DEF StageOK, patcherVars
    <3>2. CASE txn' = End(p, "skipped")
      BY <1>1, <3>1, <3>2, MovesAre DEF StageOK, Outcomes
    <3>3. CASE found # <<>> /\ txn' = To(p, "dryrun")
      <4>1. txn'[p].at = "dryrun" /\ txn'[p].i = 1
        BY <1>1, <3>3, MovesAre DEF Stages
      <4>2. Len(found) \in Nat /\ Len(found) # 0
        BY <2>2, <3>3, EmptySeq, LenProperties
      <4>3. txn'[p].i \in Steps(p)' /\ ToSet(patchers'[p]) = Present'
        BY <2>3, <2>4, <2>8, <4>1, <4>2 DEF Steps
      <4> QED
        BY ONLY <3>1, <4>1, <4>3 DEF StageOK
    <3> QED
      BY <2>1, <3>2, <3>3
  <2> QED
    BY <2>1, <2>4, <2>6, <2>7, <2>8, QuietKeepsType
<1>4. CASE DryRun(p)
  <2>1. i \in Steps(p) /\ i \in Indices /\ txn[p].at = "dryrun"
        /\ UNCHANGED <<patcherVars, patchers, snap, changed>>
    BY <1>1, <1>4 DEF DryRun, StageOK
  <2>2. \/ txn' = End(p, "skipped")
        \/ i = n /\ txn' = To(p, "snapshot")
        \/ i # n /\ txn' = Step(p)
    BY <1>4 DEF DryRun
  <2>3. txn' \in [Procs -> Txns] /\ \A q \in Procs \ {p} : txn'[q] = txn[q]
    BY <1>1, <2>1, <2>2, MovesAre DEF Stages, Outcomes
  <2>4. TxnTypes'
    BY <1>1, <1>4, <2>3 DEF DryRun, TxnTypes
  <2>5. ASSUME Present' = Present PROVE StageOK(p)'
    <3>0. /\ Len(snap'[p]) = 0 /\ changed'[p] = {} /\ call'[p].at = "idle"
          /\ ToSet(patchers'[p]) = Present' /\ Steps(p)' = Steps(p)
      BY <1>1, <2>1, <2>5 DEF StageOK, patcherVars, Steps
    <3>1. CASE txn' = End(p, "skipped")
      BY <1>1, <3>0, <3>1, MovesAre DEF StageOK, Outcomes
    <3>2. CASE i = n /\ txn' = To(p, "snapshot")
      <4>1. txn'[p].at = "snapshot" /\ txn'[p].i = 1 /\ 1 \in Steps(p)
        BY <1>1, <2>1, <3>2, MovesAre DEF Stages, Steps
      <4> QED
        BY ONLY <3>0, <4>1 DEF StageOK
    <3>3. CASE i # n /\ txn' = Step(p)
      <4>1. txn'[p].at = "dryrun" /\ txn'[p].i = i + 1 /\ i + 1 \in Steps(p)
        BY <1>1, <2>1, <3>3, MovesAre DEF Steps
      <4> QED
        BY ONLY <3>0, <4>1 DEF StageOK
    <3> QED
      BY <2>2, <3>1, <3>2, <3>3
  <2> QED
    BY <2>1, <2>3, <2>4, <2>5, QuietKeepsType
<1>5. CASE Snapshot(p)
  <2>1. /\ i \in Steps(p) /\ i \in Indices /\ txn[p].at = "snapshot"
        /\ UNCHANGED <<patcherVars, patchers, changed>>
        /\ snap' = [snap EXCEPT ![p] = Append(snap[p], disk[Target(p, i)])]
        /\ \/ i = n /\ txn' = To(p, "commit")
           \/ i # n /\ txn' = Step(p)
    BY <1>1, <1>5 DEF Snapshot, StageOK
  <2>2. disk[Target(p, i)] \in Texts /\ snap[p] \in Seq(Texts) /\ Len(snap[p]) = i - 1
    <3>1. ToSet(patchers[p]) = Present /\ Len(snap[p]) = i - 1
      BY <1>1, <2>1 DEF StageOK
    <3>2. Target(p, i) \in Files /\ disk[Target(p, i)] # NoFile
      BY <1>1, <2>1, <3>1, StepIs, ComposedIs
    <3> QED
      BY <1>1, <3>1, <3>2 DEF TxnTypes, PatcherTypeOK
  <2>3. Append(snap[p], disk[Target(p, i)]) \in Seq(Texts) /\ Len(Append(snap[p], disk[Target(p, i)])) = i
    BY <1>1, <2>1, <2>2, AppendProperties
  <2>4. /\ snap' \in [Procs -> Seq(Texts)] /\ Len(snap'[p]) = i
        /\ \A q \in Procs \ {p} : snap'[q] = snap[q]
    BY <1>1, <2>1, <2>3 DEF TxnTypes
  <2>5. txn' \in [Procs -> Txns] /\ \A q \in Procs \ {p} : txn'[q] = txn[q]
    BY <1>1, <2>1, MovesAre DEF Stages, Outcomes
  <2>6. TxnTypes'
    BY <1>1, <1>5, <2>4, <2>5 DEF Snapshot, TxnTypes
  <2>7. ASSUME Present' = Present PROVE StageOK(p)'
    <3>0. /\ changed'[p] = {} /\ call'[p].at = "idle" /\ Len(snap'[p]) = i
          /\ ToSet(patchers'[p]) = Present' /\ Steps(p)' = Steps(p) /\ patchers' = patchers
      BY <1>1, <2>1, <2>4, <2>7 DEF StageOK, patcherVars, Steps
    <3>1. CASE i = n /\ txn' = To(p, "commit")
      <4>1. txn'[p].at = "commit" /\ txn'[p].i = 1 /\ 1 \in Steps(p) /\ Len(snap'[p]) = Len(patchers'[p])
        BY <1>1, <2>1, <3>0, <3>1, MovesAre DEF Stages, Steps
      <4> QED
        BY ONLY <3>0, <4>1 DEF StageOK
    <3>2. CASE i # n /\ txn' = Step(p)
      <4>1. txn'[p].at = "snapshot" /\ txn'[p].i = i + 1 /\ i + 1 \in Steps(p) /\ i = txn'[p].i - 1
        BY <1>1, <2>1, <3>2, MovesAre DEF Steps
      <4> QED
        BY ONLY <3>0, <4>1 DEF StageOK
    <3> QED
      BY <2>1, <3>1, <3>2
  <2> QED
    BY <2>1, <2>4, <2>5, <2>6, <2>7, QuietKeepsType
<1>6. CASE Detect(p)
  <2>0. txn[p].last \in 0 .. n /\ changed[p] \subseteq Steps(p)
    BY <1>1, <1>6 DEF Detect, StageOK
  <2>1. /\ txn[p].at = "detect" /\ UNCHANGED <<patcherVars, patchers, snap>>
        /\ \/ /\ i \in Steps(p) /\ txn' = Step(p)
              /\ \/ changed' = [changed EXCEPT ![p] = changed[p] \cup {i}]
                 \/ changed' = [changed EXCEPT ![p] = changed[p]]
           \/ txn' = To(p, "restore") /\ UNCHANGED changed
    BY <1>1, <1>6, <2>0 DEF Detect, Txns, Steps
  <2>2. /\ txn' \in [Procs -> Txns] /\ \A q \in Procs \ {p} : txn'[q] = txn[q]
        /\ txn'[p].at \in {"detect", "restore"} /\ txn'[p].last = txn[p].last
    BY <1>1, <2>1, MovesAre DEF Stages, Outcomes
  <2>3. /\ changed' \in [Procs -> SUBSET Indices] /\ changed'[p] \subseteq Steps(p)
        /\ \A q \in Procs \ {p} : changed'[q] = changed[q]
    <3>1. i \in Steps(p) => changed[p] \cup {i} \in SUBSET Indices /\ changed[p] \cup {i} \subseteq Steps(p)
      BY <1>1, <2>0
    <3> QED
      BY <1>1, <2>0, <2>1, <3>1 DEF TxnTypes
  <2>4. TxnTypes'
    BY <1>1, <1>6, <2>2, <2>3 DEF Detect, TxnTypes
  <2>5. ASSUME Present' = Present PROVE StageOK(p)'
    <3>1. /\ call'[p].at = "idle" /\ ToSet(patchers'[p]) = Present' /\ Steps(p)' = Steps(p)
          /\ Len(snap'[p]) = Len(patchers'[p]) /\ txn'[p].last \in 0 .. Len(patchers'[p])
      BY <1>1, <2>0, <2>1, <2>2, <2>5 DEF StageOK, patcherVars, Steps
    <3> QED
      BY ONLY <2>2, <2>3, <3>1 DEF StageOK
  <2> QED
    BY <2>1, <2>2, <2>3, <2>4, <2>5, QuietKeepsType
<1>7. CASE RolledBack(p) \/ ReadFails(p) \/ ComposeFails(p) \/ GatedOut(p)
  <2>1. /\ txn[p].at # "commit" /\ UNCHANGED <<patcherVars, patchers, snap, changed>>
        /\ txn' = End(p, "failed") \/ txn' = End(p, "skipped")
    BY <1>7 DEF RolledBack, ReadFails, ComposeFails, GatedOut
  <2>2. /\ txn' \in [Procs -> Txns] /\ txn'[p].at = "done"
        /\ \A q \in Procs \ {p} : txn'[q] = txn[q]
    BY <1>1, <2>1, MovesAre DEF Outcomes
  <2>3. faulty' \in [Procs -> [io : BOOLEAN, aid : BOOLEAN]] /\ faults' \in Nat
    BY <1>1, <1>7, FaultedIs DEF RolledBack, ReadFails, ComposeFails, GatedOut, TxnTypes
  <2>4. TxnTypes'
    BY <1>1, <1>7, <2>2, <2>3 DEF RolledBack, ReadFails, ComposeFails, GatedOut, TxnTypes
  <2>5. StageOK(p)'
    BY <1>1, <2>1, <2>2 DEF StageOK, patcherVars
  <2> QED
    BY <2>1, <2>2, <2>4, <2>5, QuietKeepsType
<1> QED
  BY <1>3, <1>4, <1>5, <1>6, <1>7, <1>8

(* A file replaced by rename: the calls stay where they are. *)
LEMMA ReplaceIs ==
  ASSUME PatcherTypeOK, NEW f \in Files, NEW c \in Texts, disk[f] # NoFile, Replace(f, c),
         UNCHANGED <<pin, cacheFile, cache, text>>
  PROVE  /\ PatcherTypeOK' /\ PutFile(f, c)
         /\ disk'[f] = c /\ \A g \in Files : g # f => disk'[g] = disk[g]
         /\ \A q \in Procs : /\ call'[q].at = call[q].at /\ call'[q].patch = call[q].patch
                             /\ call'[q].result = call[q].result
                             /\ call[q].at = "idle" => call'[q] = call[q]
<1>1. PutFile(f, c)
  BY DEF Replace
<1>2. /\ disk' \in [Files -> Texts \cup {NoFile}]
      /\ stamp' \in [Files -> Nat]
      /\ clock' \in Nat
      /\ \A g \in Files : /\ disk'[g] = NoFile <=> disk[g] = NoFile
                          /\ disk'[g] = NoFile <=> Wheel[pin'][g] = NoFile
                          /\ g # f => disk'[g] = disk[g]
  BY <1>1, WroteType, TextAssumption DEF Wrote
<1>3. ASSUME NEW q \in Procs
      PROVE  /\ call'[q] \in Calls
             /\ call'[q].at = call[q].at /\ call'[q].patch = call[q].patch
             /\ call'[q].result = call[q].result
             /\ call[q].at = "idle" => call'[q] = call[q]
  BY DEF Replace, PatcherTypeOK, Calls
<1>4. call' \in [Procs -> Calls]
  BY <1>3 DEF Replace
<1>5. \A q \in Procs : File(call'[q].patch) \in Files
  BY <1>3, TargetType, ConfigAssumption DEF Calls
<1>6. PatcherTypeOK'
  BY <1>2, <1>3, <1>4, <1>5 DEF PatcherTypeOK, Calls
<1>7. disk'[f] = c
  BY <1>1 DEF PutFile, PatcherTypeOK
<1> QED
  BY <1>1, <1>2, <1>3, <1>6, <1>7

(* What the least file to restore is. *)
LEMMA LeastChanged ==
  ASSUME TypeInv, NEW p \in Procs, txn[p].at = "restore", changed[p] # {}
  PROVE  /\ Min(changed[p]) \in Steps(p) /\ Min(changed[p]) \in changed[p]
         /\ Target(p, Min(changed[p])) \in Files /\ disk[Target(p, Min(changed[p]))] # NoFile
         /\ snap[p][Min(changed[p])] \in Texts
<1>1. /\ changed[p] \subseteq Steps(p) /\ TxnTypes /\ snap[p] \in Seq(Texts)
      /\ Len(snap[p]) = Len(patchers[p]) /\ ToSet(patchers[p]) = Present
  BY DEF TypeInv, TxnTypes, StageOK
<1>2. Steps(p) \subseteq Nat
  BY <1>1, StepIs
<1>3. Min(changed[p]) \in changed[p]
  BY <1>1, <1>2, MinIsIn
<1>4. Min(changed[p]) \in 1 .. Len(snap[p])
  BY <1>1, <1>3 DEF Steps
<1> QED
  BY <1>1, <1>3, <1>4, StepIs, ComposedIs, ElementOfSeq

(* The rollback aid, written or not. *)
LEMMA AidIs ==
  ASSUME TxnTypes, NEW p \in Procs, NEW i \in Steps(p), snap[p][i] \in Texts, LeaveAid(p, i)
  PROVE  /\ aid' \in [Files -> Texts \cup {NoFile}]
         /\ faulty' \in [Procs -> [io : BOOLEAN, aid : BOOLEAN]] /\ faults' \in Nat
         /\ faulty'[p].io
         /\ \A q \in Procs \ {p} : faulty'[q] = faulty[q]
         /\ \/ /\ aid'[Target(p, i)] = snap[p][i] /\ faulty'[p].aid = faulty[p].aid
               /\ \A f \in Files : f # Target(p, i) => aid'[f] = aid[f]
            \/ aid' = aid /\ faulty'[p].aid
<1>1. Target(p, i) \in Files
  BY StepIs
<1>2. CASE aid' = [aid EXCEPT ![Target(p, i)] = snap[p][i]] /\ Faulted(p)
  BY <1>1, <1>2, FaultedIs DEF TxnTypes
<1>3. CASE /\ faults' = faults + 2
           /\ faulty' = [faulty EXCEPT ![p] = [io |-> TRUE, aid |-> TRUE]]
           /\ UNCHANGED aid
  BY <1>3 DEF TxnTypes
<1> QED
  BY <1>2, <1>3 DEF LeaveAid

(* The process dies: its call is cut short, wherever it was. *)
LEMMA CrashIs ==
  ASSUME PatcherTypeOK, NEW p \in Procs, Crash(p)
  PROVE  /\ \E c : Wrote(File(call[p].patch), c)
         /\ call[p].at # "write" => UNCHANGED <<disk, stamp, clock>>
         /\ call' = [call EXCEPT ![p] = Idle(call[p].patch)]
         /\ text' = [text EXCEPT ![p] = <<>>]
         /\ cache' = [cache EXCEPT ![p] = Unloaded]
         /\ UNCHANGED <<pin, cacheFile>>
<1>1. \E c : Wrote(File(call[p].patch), c)
  <2>1. CASE call[p].at = "write"
    <3>1. PICK n \in 0 .. Len(text[p]) : PutWritten(p, n)
      BY <2>1 DEF Crash
    <3> QED
      BY <2>1, <3>1, PutWrittenIs, ConfigAssumption
  <2>2. CASE call[p].at # "write"
    BY <2>2 DEF Crash, Wrote
  <2> QED
    BY <2>1, <2>2
<1> QED
  BY <1>1 DEF Crash

LEMMA AbortKeepsType ==
  ASSUME TypeInv, NEW p \in Procs, Restore(p) \/ DetectFails(p) \/ RestoreFails(p) \/ Crash(p)
  PROVE  TypeInv'
<1> DEFINE i == txn[p].i
           least == Min(changed[p])
<1>1. /\ txn \in [Procs -> Txns] /\ txn[p] \in Txns /\ StageOK(p) /\ TxnTypes /\ PatcherTypeOK
      /\ i \in 1 .. Len(Bundle) + 1
      /\ Len(Bundle) \in Nat \ {0} /\ Steps(p) \subseteq Indices /\ Len(patchers[p]) \in Nat
  BY BundleIs, StepIs DEF TypeInv, TxnTypes, Txns
<1>2. /\ changed[p] \in SUBSET Indices /\ changed[p] \ {least} \in SUBSET Indices
      /\ txn[p].at \in {"detect", "restore"} =>
           /\ changed[p] \subseteq Steps(p) /\ changed[p] \ {least} \subseteq Steps(p)
           /\ txn[p].last \in 0 .. Len(patchers[p]) /\ ToSet(patchers[p]) = Present
           /\ Len(snap[p]) = Len(patchers[p]) /\ call[p].at = "idle"
  BY <1>1 DEF TxnTypes, StageOK
<1>3. CASE Restore(p)
  <2>1. /\ txn[p].at = "restore" /\ changed[p] # {}
        /\ Replace(Target(p, least), snap[p][least])
        /\ UNCHANGED <<pin, cacheFile, cache, text>>
        /\ UNCHANGED <<txn, patchers, snap, aid, runs, faults, base, spoilt, faulty>>
        /\ changed' = [changed EXCEPT ![p] = changed[p] \ {least}]
    BY <1>3 DEF Restore
  <2>2. /\ PatcherTypeOK'
        /\ \A q \in Procs : /\ call'[q].at = call[q].at /\ call'[q].patch = call[q].patch
                            /\ call'[q].result = call[q].result
    BY <1>1, <2>1, LeastChanged, ReplaceIs
  <2>3. /\ changed' \in [Procs -> SUBSET Indices] /\ changed'[p] \subseteq Steps(p)
        /\ \A q \in Procs \ {p} : changed'[q] = changed[q]
    BY <1>1, <1>2, <2>1 DEF TxnTypes
  <2>4. TxnTypes'
    BY <1>1, <2>1, <2>3 DEF TxnTypes
  <2>5. ASSUME Present' = Present PROVE StageOK(p)'
    <3>1. /\ call'[p].at = "idle" /\ ToSet(patchers'[p]) = Present' /\ Steps(p)' = Steps(p)
          /\ Len(snap'[p]) = Len(patchers'[p]) /\ txn'[p].last \in 0 .. Len(patchers'[p])
          /\ txn'[p].at = "restore"
      BY <1>2, <2>1, <2>2, <2>5 DEF Steps
    <3> QED
      BY ONLY <2>3, <3>1 DEF StageOK
  <2> QED
    BY <2>1, <2>2, <2>3, <2>4, <2>5, StageKeepsType
<1>4. CASE DetectFails(p)
  <2>1. /\ txn[p].at = "detect" /\ i \in Steps(p) /\ LeaveAid(p, i) /\ txn' = Step(p)
        /\ UNCHANGED <<patcherVars, patchers, snap, changed, runs, base, spoilt>>
    BY <1>1, <1>2, <1>4 DEF DetectFails, Txns, Steps
  <2>2. snap[p][i] \in Texts
    <3>1. i \in 1 .. Len(snap[p]) /\ snap[p] \in Seq(Texts)
      BY <1>1, <1>2, <2>1 DEF TxnTypes, Steps
    <3> QED
      BY <3>1, ElementOfSeq
  <2>3. /\ txn' \in [Procs -> Txns] /\ \A q \in Procs \ {p} : txn'[q] = txn[q]
        /\ txn'[p].at = "detect" /\ txn'[p].last = txn[p].last
    BY <1>1, <2>1, MovesAre
  <2>4. TxnTypes'
    BY <1>1, <2>1, <2>2, <2>3, AidIs DEF TxnTypes
  <2>5. ASSUME Present' = Present PROVE StageOK(p)'
    <3>1. /\ call'[p].at = "idle" /\ ToSet(patchers'[p]) = Present' /\ Steps(p)' = Steps(p)
          /\ Len(snap'[p]) = Len(patchers'[p]) /\ txn'[p].last \in 0 .. Len(patchers'[p])
          /\ changed'[p] \subseteq Steps(p)
      BY <1>2, <2>1, <2>3, <2>5 DEF Steps, patcherVars
    <3> QED
      BY ONLY <2>3, <3>1 DEF StageOK
  <2> QED
    BY <2>1, <2>3, <2>4, <2>5, QuietKeepsType
<1>5. CASE RestoreFails(p)
  <2>1. /\ txn[p].at = "restore" /\ changed[p] # {} /\ LeaveAid(p, least)
        /\ changed' = [changed EXCEPT ![p] = changed[p] \ {least}]
        /\ UNCHANGED <<patcherVars, txn, patchers, snap, runs, base, spoilt>>
    BY <1>5 DEF RestoreFails
  <2>2. /\ changed' \in [Procs -> SUBSET Indices] /\ changed'[p] \subseteq Steps(p)
        /\ \A q \in Procs \ {p} : changed'[q] = changed[q]
    BY <1>1, <1>2, <2>1 DEF TxnTypes
  <2>3. TxnTypes'
    BY <1>1, <2>1, <2>2, LeastChanged, AidIs DEF TxnTypes
  <2>4. ASSUME Present' = Present PROVE StageOK(p)'
    <3>1. /\ call'[p].at = "idle" /\ ToSet(patchers'[p]) = Present' /\ Steps(p)' = Steps(p)
          /\ Len(snap'[p]) = Len(patchers'[p]) /\ txn'[p].last \in 0 .. Len(patchers'[p])
          /\ txn'[p].at = "restore"
      BY <1>2, <2>1, <2>4 DEF Steps, patcherVars
    <3> QED
      BY ONLY <2>2, <3>1 DEF StageOK
  <2> QED
    BY <2>1, <2>2, <2>3, <2>4, QuietKeepsType
<1>6. CASE Crash(p)
  <2>1. /\ \E c : Wrote(File(call[p].patch), c)
        /\ call' = [call EXCEPT ![p] = Idle(call[p].patch)]
        /\ text' = [text EXCEPT ![p] = <<>>]
        /\ cache' = [cache EXCEPT ![p] = Unloaded]
        /\ UNCHANGED <<pin, cacheFile>>
    BY <1>1, <1>6, CrashIs
  <2>2. PatcherTypeOK' /\ call[p].patch \in Patches
    BY <1>1, <2>1, ReadType, EndKeepsType, ConfigAssumption, TextAssumption
  <2>3. /\ call'[p].at = "idle" /\ \A q \in Procs \ {p} : call'[q] = call[q]
    BY <1>1, <2>1 DEF PatcherTypeOK, Idle
  <2>4. /\ txn' \in [Procs -> Txns] /\ txn'[p].at = "down"
        /\ \A q \in Procs \ {p} : txn'[q] = txn[q]
    <3> DEFINE e == [End(p, "none")[p] EXCEPT !.at = "down"]
    <3>1. End(p, "none") \in [Procs -> Txns] /\ \A q \in Procs \ {p} : End(p, "none")[q] = txn[q]
      BY <1>1, MovesAre DEF Outcomes
    <3>2. e \in Txns /\ e.at = "down"
      BY <3>1 DEF Txns, Stages
    <3>3. txn' = [End(p, "none") EXCEPT ![p] = e]
      BY <1>6 DEF Crash
    <3> HIDE DEF e
    <3> QED
      BY <3>1, <3>2, <3>3
  <2>5. /\ snap' \in [Procs -> Seq(Texts)] /\ \A q \in Procs \ {p} : snap'[q] = snap[q]
        /\ changed' \in [Procs -> SUBSET Indices] /\ spoilt' \in [Procs -> SUBSET Files]
        /\ \A q \in Procs \ {p} : changed'[q] = changed[q]
    BY <1>1, <1>6, EmptySeq DEF Crash, TxnTypes
  <2>6. /\ patchers' \in [Procs -> Seq(Patches)] /\ patchers'[p] = <<>> /\ Len(<<>>) = 0
        /\ \A q \in Procs \ {p} : patchers'[q] = patchers[q]
    BY <1>1, <1>6, EmptySeq DEF Crash, TxnTypes
  <2>7. \A q \in Procs : Len(patchers'[q]) <= Len(Bundle)
    BY <1>1, <2>6 DEF TxnTypes
  <2>8. TxnTypes'
    BY <1>1, <1>6, <2>4, <2>5, <2>6, <2>7 DEF Crash, TxnTypes
  <2>9. StageOK(p)'
    BY <2>3, <2>4 DEF StageOK
  <2> QED
    BY <2>1, <2>2, <2>3, <2>4, <2>5, <2>6, <2>8, <2>9, StageKeepsType
<1> QED
  BY <1>3, <1>4, <1>5, <1>6

(* A call starts. *)
LEMMA CommitIs ==
  ASSUME TypeInv, NEW p \in Procs, Commit(p)
  PROVE  /\ txn[p].at = "commit" /\ txn[p].i \in Steps(p) /\ patchers[p][txn[p].i] \in Patches
         /\ PatcherTypeOK' /\ call[p].at = "idle"
         /\ call'[p].at = "layer0" /\ call'[p].patch = patchers[p][txn[p].i] /\ ~call'[p].orphan
         /\ \A q \in Procs \ {p} : call'[q] = call[q]
         /\ UNCHANGED <<disk, stamp, clock, pin, cacheFile, cache, text>> /\ UNCHANGED txnVars
<1> DEFINE pt == patchers[p][txn[p].i]
           e  == [Idle(pt) EXCEPT !.at = "layer0"]
<1>1. txn[p].at = "commit" /\ Begin(p, pt) /\ UNCHANGED txnVars
  BY DEF Commit
<1>2. txn[p].i \in Steps(p) /\ pt \in Patches
  BY <1>1, StepIs DEF TypeInv, StageOK
<1>3. PatcherTypeOK'
  BY <1>1, <1>2, BeginKeepsType, TextAssumption, ConfigAssumption DEF TypeInv
<1>4. e.at = "layer0" /\ e.patch = pt /\ ~e.orphan
  BY <1>2, IdleType DEF Points
<1>5. call' = [call EXCEPT ![p] = e] /\ call \in [Procs -> Calls]
  BY <1>1 DEF Begin, TypeInv, PatcherTypeOK, Calls
<1> HIDE DEF e
<1>6. /\ call'[p].at = "layer0" /\ call'[p].patch = pt /\ ~call'[p].orphan
      /\ \A q \in Procs \ {p} : call'[q] = call[q]
  BY <1>4, <1>5
<1> QED
  BY <1>1, <1>2, <1>3, <1>6 DEF Begin

(* The result of a call is taken. *)
LEMMA CollectIs ==
  ASSUME TypeInv, NEW p \in Procs, Collect(p)
  PROVE  /\ txn[p].at = "commit" /\ txn[p].i \in Steps(p) /\ txn[p].i \in Indices
         /\ call[p].at = "done"
         /\ call[p].patch = patchers[p][txn[p].i] /\ call[p].result # "none"
         /\ call'[p].at = "idle" /\ ~call'[p].orphan
         /\ \A q \in Procs \ {p} : call'[q] = call[q] /\ txn'[q] = txn[q]
         /\ UNCHANGED <<disk, stamp, clock, pin, cacheFile, cache>>
         /\ UNCHANGED <<patchers, snap, changed, aid, runs, faults, base, faulty>>
         /\ spoilt' \in [Procs -> SUBSET Files] /\ txn' \in [Procs -> Txns]
         /\ spoilt'[p] = IF call[p].result = "FAILED" THEN {Target(p, txn[p].i)} ELSE {}
         /\ txn'[p].run = txn[p].run
         /\ \/ /\ call[p].result \in {"APPLIED", "IDEMPOTENT"} /\ txn[p].i = Len(patchers[p])
               /\ txn' = End(p, "applied")
            \/ /\ call[p].result \in {"APPLIED", "IDEMPOTENT"} /\ txn[p].i # Len(patchers[p])
               /\ txn' = Step(p)
            \/ /\ call[p].result \notin {"APPLIED", "IDEMPOTENT"}
               /\ txn'[p].at = "detect" /\ txn'[p].i = 1 /\ txn'[p].last = txn[p].i - 1
               /\ txn'[p].outcome = txn[p].outcome
               /\ call[p].result \in {"SKIPPED", "FAILED"}
<1> DEFINE i == txn[p].i
           r == call[p].result
           d == [To(p, "detect") EXCEPT ![p].last = i - 1]
<1>1. /\ txn \in [Procs -> Txns] /\ txn[p].at = "commit" /\ i \in Steps(p) /\ i \in Indices
      /\ call[p].at = "done" /\ call[p].patch = patchers[p][i] /\ r # "none"
      /\ Len(Bundle) \in Nat \ {0} /\ Target(p, i) \in Files
  BY BundleIs, StepIs DEF Collect, TypeInv, TxnTypes, StageOK
<1>2. call' = [call EXCEPT ![p] = Idle(patchers[p][i])] /\ call \in [Procs -> Calls]
  BY DEF Collect, TypeInv, PatcherTypeOK, Calls
<1>3. call'[p].at = "idle" /\ ~call'[p].orphan /\ \A q \in Procs \ {p} : call'[q] = call[q]
  BY <1>2 DEF Idle
<1>4. /\ spoilt' \in [Procs -> SUBSET Files]
      /\ spoilt'[p] = IF r = "FAILED" THEN {Target(p, i)} ELSE {}
  <2>1. spoilt \in [Procs -> SUBSET Files] /\ {Target(p, i)} \in SUBSET Files
    BY <1>1 DEF TypeInv, TxnTypes
  <2>2. spoilt' = [spoilt EXCEPT ![p] = IF r = "FAILED" THEN {Target(p, i)} ELSE {}]
    BY DEF Collect
  <2> QED
    BY <2>1, <2>2
<1>5. /\ d \in [Procs -> Txns] /\ \A q \in Procs \ {p} : d[q] = txn[q]
      /\ d[p].at = "detect" /\ d[p].i = 1 /\ d[p].last = i - 1
      /\ d[p].run = txn[p].run /\ d[p].outcome = txn[p].outcome
  <2> DEFINE t == To(p, "detect")
             e == [t[p] EXCEPT !.last = i - 1]
  <2>1. /\ t \in [Procs -> Txns] /\ \A q \in Procs \ {p} : t[q] = txn[q]
        /\ t[p].at = "detect" /\ t[p].i = 1 /\ t[p].run = txn[p].run
        /\ t[p].outcome = txn[p].outcome
    BY <1>1, MovesAre DEF Stages
  <2>2. i - 1 \in 0 .. Len(Bundle)
    BY <1>1 DEF Indices
  <2> HIDE DEF t
  <2>3. /\ e \in Txns /\ e.at = "detect" /\ e.i = 1 /\ e.last = i - 1
        /\ e.run = txn[p].run /\ e.outcome = txn[p].outcome
    BY <2>1, <2>2 DEF Txns
  <2>4. d = [t EXCEPT ![p] = e]
    BY DEF t
  <2> HIDE DEF e, d
  <2> QED
    BY <2>1, <2>3, <2>4
<1>6. \/ /\ r \in {"APPLIED", "IDEMPOTENT"} /\ i = Len(patchers[p]) /\ txn' = End(p, "applied")
      \/ /\ r \in {"APPLIED", "IDEMPOTENT"} /\ i # Len(patchers[p]) /\ txn' = Step(p)
      \/ /\ r \notin {"APPLIED", "IDEMPOTENT"} /\ r \in {"SKIPPED", "FAILED"} /\ txn' = d
  <2> HIDE DEF d
  <2>1. \/ /\ r \in {"APPLIED", "IDEMPOTENT"}
           /\ txn' = IF i = Len(patchers[p]) THEN End(p, "applied") ELSE Step(p)
        \/ /\ r \in {"SKIPPED", "FAILED"} /\ txn' = d
    BY <1>1 DEF Collect, TypeInv, PatcherTypeOK, Results, d
  <2> QED
    BY <2>1
<1> HIDE DEF d
<1>7. /\ txn' \in [Procs -> Txns] /\ \A q \in Procs \ {p} : txn'[q] = txn[q]
      /\ txn'[p].run = txn[p].run
  BY <1>1, <1>5, <1>6, MovesAre DEF Outcomes
<1>8. /\ UNCHANGED <<disk, stamp, clock, pin, cacheFile, cache>>
      /\ UNCHANGED <<patchers, snap, changed, aid, runs, faults, base, faulty>>
  BY DEF Collect
<1> QED
  BY <1>1, <1>3, <1>4, <1>5, <1>6, <1>7, <1>8

LEMMA CallKeepsType ==
  ASSUME TypeInv, NEW p \in Procs, Commit(p) \/ Patching(p) \/ Collect(p) \/ PatchFault(p)
  PROVE  TypeInv'
<1>1. StageOK(p) /\ TxnTypes /\ PatcherTypeOK
  BY DEF TypeInv
<1>0. txn[p].at = "commit" => /\ txn[p].i \in Steps(p) /\ ToSet(patchers[p]) = Present
                              /\ Len(snap[p]) = Len(patchers[p]) /\ changed[p] = {}
                              /\ Len(patchers[p]) \in Nat
  BY <1>1, StepIs DEF StageOK
<1>2. CASE Commit(p)
  <2>1. /\ txn[p].at = "commit" /\ PatcherTypeOK'
        /\ call'[p].at = "layer0" /\ call'[p].patch = patchers[p][txn[p].i]
        /\ \A q \in Procs \ {p} : call'[q] = call[q]
        /\ UNCHANGED <<disk, pin>> /\ UNCHANGED txnVars
    BY <1>2, CommitIs
  <2>2. TxnTypes'
    BY <1>1, <2>1 DEF txnVars, TxnTypes
  <2>3. ASSUME Present' = Present PROVE StageOK(p)'
    BY <1>0, <2>1, <2>3 DEF StageOK, txnVars, Steps
  <2> QED
    BY <2>1, <2>2, <2>3, StageKeepsType DEF txnVars
<1>3. CASE Patching(p) \/ PatchFault(p)
  <2>1. /\ PatcherStep(p) \/ PatcherFault(p)
        /\ UNCHANGED <<txn, patchers, snap, changed, aid, runs, base, spoilt>>
    BY <1>3 DEF Patching, PatchFault, txnVars
  <2>2. PatcherTypeOK'
    BY <1>1, <2>1, StepKeepsType, FaultKeepsType, ConfigAssumption, TextAssumption
  <2>3. /\ call[p].at # "idle" /\ call'[p].patch = call[p].patch /\ pin' = pin
        /\ \A q \in Procs \ {p} : call'[q] = call[q]
        /\ call'[p].at \in {"record", "done"} => call'[p].result # "none"
    BY <1>1, <2>1, StepFrame DEF StageOK
  <2>4. faulty' \in [Procs -> [io : BOOLEAN, aid : BOOLEAN]] /\ faults' \in Nat
    BY <1>1, <1>3, FaultedIs DEF Patching, PatchFault, TxnTypes, txnVars
  <2>5. TxnTypes'
    BY <1>1, <2>1, <2>4 DEF TxnTypes
  <2>6. txn[p].at = "commit" /\ call[p].patch = patchers[p][txn[p].i]
    BY <1>1, <2>3 DEF StageOK
  <2>7. ASSUME Present' = Present PROVE StageOK(p)'
    BY <1>0, <2>1, <2>3, <2>6, <2>7 DEF StageOK, Steps
  <2> QED
    BY <2>1, <2>2, <2>3, <2>5, <2>7, StageKeepsType
<1>4. CASE Collect(p)
  <2> DEFINE i == txn[p].i
  <2>1. /\ txn[p].at = "commit" /\ i \in Steps(p) /\ i \in Indices
        /\ call'[p].at = "idle"
        /\ \A q \in Procs \ {p} : call'[q] = call[q] /\ txn'[q] = txn[q]
        /\ UNCHANGED <<disk, stamp, clock, pin, cacheFile, cache>>
        /\ UNCHANGED <<patchers, snap, changed, aid, runs, faults, base, faulty>>
        /\ spoilt' \in [Procs -> SUBSET Files] /\ txn' \in [Procs -> Txns]
    BY <1>4, CollectIs
  <2>2. PatcherTypeOK'
    <3>1. /\ call' = [call EXCEPT ![p] = Idle(patchers[p][i])] /\ text' = [text EXCEPT ![p] = <<>>]
          /\ patchers[p][i] \in Patches
      BY <1>1, <1>4, <2>1, StepIs DEF Collect
    <3>2. Wrote(File(patchers[p][i]), <<>>)
      BY <2>1 DEF Wrote
    <3> QED
      BY <1>1, <2>1, <3>1, <3>2, EndKeepsType, ConfigAssumption, TextAssumption
  <2>3. TxnTypes'
    BY <1>1, <2>1 DEF TxnTypes
  <2>4. \/ txn'[p].at = "done"
        \/ txn'[p].at = "detect" /\ txn'[p].last \in 0 .. Len(patchers[p])
        \/ txn'[p].at = "commit" /\ txn'[p].i \in Steps(p)
    <3>1. CASE txn' = End(p, "applied")
      BY <1>1, <3>1, MovesAre DEF TxnTypes, Outcomes
    <3>2. CASE txn' = Step(p) /\ i # Len(patchers[p])
      <4>1. i + 1 \in Steps(p)
        BY <1>0, <2>1, <3>2 DEF Steps
      <4> QED
        BY <1>1, <2>1, <3>2, <4>1, MovesAre DEF TxnTypes
    <3>3. CASE txn'[p].at = "detect" /\ txn'[p].last = i - 1
      BY <1>0, <2>1, <3>3 DEF Steps
    <3> QED
      BY <1>4, <3>1, <3>2, <3>3, CollectIs
  <2>5. ASSUME Present' = Present PROVE StageOK(p)'
    BY <1>0, <2>1, <2>4, <2>5 DEF StageOK, Steps
  <2> QED
    BY <2>1, <2>2, <2>3, <2>5, StageKeepsType
<1> QED
  BY <1>2, <1>3, <1>4

LEMMA NextTypeInv ==
  ASSUME TypeInv, [Next]_vars
  PROVE  TypeInv'
<1>1. CASE UNCHANGED vars
  <2>1. PatcherTypeOK' /\ TxnTypes'
    BY <1>1 DEF vars, patcherVars, txnVars, TypeInv, TxnTypes, PatcherTypeOK
  <2>2. Present' = Present
    BY <1>1 DEF vars, patcherVars, Present
  <2>3. \A p \in Procs : StageOK(p)'
    BY <1>1, <2>2 DEF vars, patcherVars, txnVars, TypeInv, StageOK, Steps
  <2> QED
    BY <2>1, <2>3 DEF TypeInv
<1>2. ASSUME NEW p \in Procs, Run(p) \/ TxnStep(p) \/ TxnFault(p)
      PROVE  TypeInv'
  BY <1>2, LookKeepsType, AbortKeepsType, CallKeepsType DEF TxnStep, TxnFault
<1> QED
  BY <1>1, <1>2 DEF Next

LEMMA TypeParts == TypeOK <=> PatcherTypeOK /\ TxnTypes
BY DEF TypeOK, TxnTypes, Txns, Indices

(* Every variable keeps its type, whatever processes run the bundle; an    *)
(* index names a patcher of the bundle and files do not vanish.            *)
THEOREM BundleTypesHold == Spec => []TypeOK
<1>1. Init => TypeInv
  BY InitTypeInv
<1>2. TypeInv /\ [Next]_vars => TypeInv'
  BY NextTypeInv
<1>3. TypeInv => TypeOK
  BY TypeParts DEF TypeInv
<1> QED
  BY <1>1, <1>2, <1>3, PTL DEF Spec

(* Of a writable target whose sub-patches are all required and, where the   *)
(* manifest lists it, do not touch each other's anchors, what the dry run   *)
(* says is what the commit that is about to load it will do: in any run of  *)
(* any bundle, as long as no sub-patch erases a token by which another      *)
(* knows an upstream merge, and nothing was merged in that text.            *)
THEOREM BundleDryRunIsRight == MergedSurvive => (Spec => []DryRunPredictsCommit)
<1> SUFFICES ASSUME MergedSurvive
             PROVE  Spec => []DryRunPredictsCommit
  OBVIOUS
<1>1. TypeOK => DryRunPredictsCommit
  BY DryRunIsRight DEF TypeOK
<1> QED
  BY <1>1, BundleTypesHold, PTL

-----------------------------------------------------------------------------
(* One run at a time.                                                      *)

LEMMA RunsAlone ==
  ASSUME TypeInv, OneRun, NEW p \in Procs, txn[p].at \notin {"down", "done"}
  PROVE  /\ Running = {p} /\ Alone(p)
         /\ txn[p].run = runs /\ runs # 0 /\ txn[p].outcome = "none"
         /\ \A q \in Procs \ {p} : txn[q].run # runs /\ txn[q].at \in {"down", "done"}
<1>1. p \in Running
  BY DEF Running
<1>2. Running = {p}
  BY <1>1 DEF OneRun, Running
<1>3. txn[p].run = runs /\ runs # 0 /\ txn[p].outcome = "none"
  BY <1>1 DEF OneRun
<1>4. \A q \in Procs \ {p} : txn[q].run # runs /\ txn[q].at \in {"down", "done"}
  BY <1>1, <1>2, <1>3 DEF OneRun, Running
<1>5. Alone(p)
  BY <1>4 DEF Alone, TypeInv, StageOK
<1> QED
  BY <1>2, <1>3, <1>4, <1>5

(* A step of the process that runs the bundle. *)
LEMMA RunnerKeepsInv ==
  ASSUME TypeInv, TypeInv', OneRun, PatcherInv',
         NEW p \in Procs, txn[p].at \notin {"down", "done"}, runs' = runs,
         \A q \in Procs \ {p} : txn'[q] = txn[q],
         txn'[p].run = txn[p].run, txn'[p].at # "down",
         txn'[p].outcome = "none" <=> txn'[p].at # "done",
         RunOK(p)'
  PROVE  TxnInv'
<1>1. /\ txn[p].run = runs /\ runs # 0 /\ Running = {p}
      /\ \A q \in Procs \ {p} : txn[q].run # runs /\ txn[q].at \in {"down", "done"}
  BY RunsAlone
<1>2. Running' \subseteq {p}
  BY <1>1 DEF Running
<1>3. runs \in Nat
  BY DEF TypeInv, TxnTypes
<1>4. OneRun'
  BY <1>1, <1>2, <1>3 DEF OneRun
<1>5. \A q \in Procs : RunOK(q)'
  BY <1>1 DEF RunOK
<1> QED
  BY <1>4, <1>5 DEF TxnInv

(* What is known of a run stays so while nothing it speaks of changes. *)
LEMMA RunUnmoved ==
  ASSUME NEW q, RunOK(q), UNCHANGED <<disk, aid, runs, base, faulty>>,
         txn'[q] = txn[q], call'[q] = call[q], snap'[q] = snap[q],
         patchers'[q] = patchers[q], changed'[q] = changed[q], spoilt'[q] = spoilt[q]
  PROVE  RunOK(q)'
<1>1. /\ \A j : Target(q, j)' = Target(q, j)
      /\ \A f : Differ(q, f)' <=> Differ(q, f)
      /\ \A f : Aided(q, f)' <=> Aided(q, f)
      /\ Steps(q)' = Steps(q) /\ Writing(q)' = Writing(q)
  BY DEF Target, Differ, Aided, Steps, Writing
<1>2. \A f : GivenUp(q, f)' <=> GivenUp(q, f)
  BY <1>1 DEF GivenUp
<1>3. /\ BeforeWrites(q) => BeforeWrites(q)'
      /\ SnapshotsOK(q) => SnapshotsOK(q)'
      /\ EndOK(q) => EndOK(q)'
  BY <1>1, <1>2 DEF BeforeWrites, SnapshotsOK, EndOK
<1>4. CommitOK(q) => CommitOK(q)'
  BY <1>1 DEF CommitOK
<1>5. DetectOK(q) => DetectOK(q)'
  BY <1>1 DEF DetectOK
<1>6. RestoreOK(q) => RestoreOK(q)'
  BY <1>1, <1>2 DEF RestoreOK
<1> QED
  BY <1>3, <1>4, <1>5, <1>6 DEF RunOK

(* The files and the calls as the patchers left them. *)
LEMMA QuietKeepsPatcher ==
  ASSUME PatcherInv, UNCHANGED patcherVars
  PROVE  PatcherInv'
BY DEF patcherVars, PatcherInv, FilesOK, TablesOK, TableOK, CacheTruthful, Truthful, PinMatches,
       CallsOK, CallOK, Fresh, RewriteNow

LEMMA InitTxnInv ==
  ASSUME Init
  PROVE  TxnInv
<1>1. TypeInv /\ PatcherInv
  BY InitTypeInv, InitPatcherInv, TextAssumption, ConfigAssumption DEF Init
<1>2. \A p \in Procs : txn[p].at = "down" /\ txn[p].run = 0 /\ txn[p].outcome = "none"
  BY DEF Init
<1>3. OneRun
  BY <1>2 DEF OneRun, Running, Init
<1>4. \A p \in Procs : RunOK(p)
  BY <1>2 DEF RunOK, BeforeWrites, SnapshotsOK, CommitOK, DetectOK, RestoreOK, EndOK
<1> QED
  BY <1>1, <1>3, <1>4 DEF TxnInv

LEMMA RunStarts ==
  ASSUME TxnInv, TypeInv', Exclusive, NEW p \in Procs, Run(p)
  PROVE  TxnInv'
<1>1. /\ Running = {} /\ runs' = runs + 1 /\ runs \in Nat
      /\ txn'[p].at = "compose" /\ txn'[p].run = runs + 1 /\ txn'[p].outcome = "none"
      /\ \A q \in Procs \ {p} : txn'[q] = txn[q]
      /\ base'[p] = disk /\ spoilt'[p] = {} /\ UNCHANGED patcherVars
  BY DEF Run, TxnInv, TypeInv, TxnTypes
<1>2. Running' = {p}
  <2>1. p \in Running'
    BY <1>1 DEF Running
  <2>2. \A q \in Procs \ {p} : q \in Running' => q \in Running
    BY <1>1 DEF Running
  <2>3. Running' \subseteq Procs
    BY DEF Running
  <2>4. Running = {}
    BY <1>1
  <2>5. \A q \in Running' : q = p
    BY <2>2, <2>3, <2>4
  <2> QED
    BY <2>1, <2>5
<1>3. \A q \in Procs \ {p} : txn'[q].run # runs'
  <2>1. \A q \in Procs : txn[q] \in Txns
    BY DEF TxnInv, TypeInv, TxnTypes
  <2>2. \A q \in Procs : txn[q].run \in Nat
    BY <2>1 DEF Txns
  <2>3. \A q \in Procs : txn[q].run <= runs
    BY DEF TxnInv, OneRun
  <2> QED
    BY <1>1, <2>2, <2>3
<1>4. OneRun'
  <2>1. \A q, q2 \in Running' : q = q2
    BY <1>2
  <2>2. ASSUME NEW q \in Procs
        PROVE  (/\ txn[q].run <= runs
                /\ q \in Running => txn[q].run = runs
                /\ txn[q].run = 0 => txn[q].at = "down"
                /\ txn[q].outcome # "none" => txn[q].at = "done"
                /\ txn[q].at = "done" => txn[q].outcome # "none")'
    <3>1. CASE q = p
      BY <1>1, <3>1
    <3>2. CASE q # p
      <4>1. txn[q].run \in Nat /\ txn'[q] = txn[q] /\ q \notin Running'
        BY <1>1, <1>2, <3>2 DEF TxnInv, TypeInv, TxnTypes, Txns
      <4> QED
        BY <1>1, <4>1 DEF TxnInv, OneRun
    <3> QED
      BY <3>1, <3>2
  <2>3. \A q, q2 \in Procs : txn'[q].run = txn'[q2].run /\ txn'[q].run # 0 => q = q2
    BY <1>1, <1>3 DEF TxnInv, OneRun
  <2> QED
    BY <2>1, <2>2, <2>3 DEF OneRun
<1>5. RunOK(p)'
  BY <1>1 DEF RunOK, BeforeWrites, SnapshotsOK, CommitOK, DetectOK, RestoreOK, EndOK, patcherVars
<1>6. \A q \in Procs : RunOK(q)'
  BY <1>3, <1>5 DEF RunOK
<1>7. PatcherInv'
  BY <1>1, QuietKeepsPatcher DEF TxnInv
<1> QED
  BY <1>4, <1>6, <1>7 DEF TxnInv

(* Before the first write. *)
LEMMA LookKeepsInv ==
  ASSUME TxnInv, TypeInv', NEW p \in Procs,
         \/ GatedOut(p) \/ Compose(p) \/ ComposeFails(p) \/ DryRun(p) \/ Snapshot(p) \/ ReadFails(p)
  PROVE  TxnInv'
<1> DEFINE i == txn[p].i
<1>1. /\ TypeInv /\ OneRun /\ PatcherInv /\ TxnTypes /\ txn \in [Procs -> Txns] /\ StageOK(p)
      /\ txn[p].at \in {"compose", "dryrun", "snapshot"}
      /\ UNCHANGED patcherVars /\ UNCHANGED <<runs, base, spoilt>>
      /\ Len(patchers[p]) \in Nat /\ Steps(p) \subseteq Indices
  BY StepIs DEF TxnInv, TypeInv, TxnTypes, GatedOut, Compose, ComposeFails, DryRun, Snapshot, ReadFails
<1>2. /\ disk = base[p] /\ spoilt[p] = {} /\ SnapshotsOK(p)
      /\ txn[p].run = runs /\ txn[p].outcome = "none"
  BY <1>1, RunsAlone DEF TxnInv, RunOK, BeforeWrites
<1>3. PatcherInv'
  BY <1>1, QuietKeepsPatcher
<1>4. UNCHANGED disk
  BY <1>1 DEF patcherVars
<1>5. CASE txn' = End(p, "skipped") \/ txn' = End(p, "failed")
  <2>1. /\ txn'[p].at = "done" /\ txn'[p].outcome \in {"skipped", "failed"} /\ txn'[p].run = runs
        /\ \A q \in Procs \ {p} : txn'[q] = txn[q]
    BY <1>1, <1>2, <1>5, MovesAre DEF Outcomes
  <2>2. EndOK(p)'
    BY <1>1, <1>2, <1>4 DEF EndOK, Differ
  <2>3. RunOK(p)'
    BY <2>1, <2>2 DEF RunOK, BeforeWrites, SnapshotsOK, CommitOK, DetectOK, RestoreOK
  <2> QED
    BY <1>1, <1>2, <1>3, <2>1, <2>3, RunnerKeepsInv
<1>6. CASE /\ Compose(p) \/ DryRun(p)
           /\ txn' # End(p, "skipped")
  <2>1. \/ txn' = To(p, "dryrun") \/ txn' = To(p, "snapshot")
        \/ txn' = Step(p) /\ txn[p].at = "dryrun" /\ i \in Indices
    BY <1>1, <1>6 DEF Compose, DryRun, StageOK
  <2>2. /\ \/ txn'[p].at = "snapshot" /\ txn'[p].i = 1
           \/ txn'[p].at = "dryrun"
        /\ txn'[p].outcome = "none" /\ txn'[p].run = runs
        /\ \A q \in Procs \ {p} : txn'[q] = txn[q]
    BY <1>1, <1>2, <2>1, MovesAre DEF Stages
  <2>3. BeforeWrites(p)'
    BY <1>1, <1>2, <1>4 DEF BeforeWrites
  <2>4. RunOK(p)'
    BY <2>2, <2>3 DEF RunOK, SnapshotsOK, CommitOK, DetectOK, RestoreOK, EndOK
  <2> QED
    BY <1>1, <1>2, <1>3, <2>2, <2>4, RunnerKeepsInv
<1>7. CASE Snapshot(p)
  <2>1. /\ txn[p].at = "snapshot" /\ snap' = [snap EXCEPT ![p] = Append(snap[p], disk[Target(p, i)])]
        /\ \/ i = Len(patchers[p]) /\ txn' = To(p, "commit")
           \/ i # Len(patchers[p]) /\ txn' = Step(p)
        /\ UNCHANGED patchers /\ i \in Steps(p) /\ ToSet(patchers[p]) = Present
    BY <1>1, <1>7 DEF Snapshot, StageOK
  <2>2. /\ snap[p] \in Seq(Texts) /\ Len(snap[p]) = i - 1 /\ disk[Target(p, i)] \in Texts
        /\ snap \in [Procs -> Seq(Texts)] /\ call[p].at = "idle" /\ i \in Nat \ {0}
    <3>1. disk[Target(p, i)] # NoFile /\ Target(p, i) \in Files
      BY <1>1, <2>1, StepIs, ComposedIs
    <3> QED
      BY <1>1, <2>1, <3>1 DEF StageOK, TypeInv, TxnTypes, PatcherTypeOK, Steps
  <2>3. \A j \in 1 .. i : snap'[p][j] = base[p][Target(p, j)]
    <3>1. snap'[p] = Append(snap[p], disk[Target(p, i)])
      BY <2>1, <2>2
    <3>2. /\ Append(snap[p], disk[Target(p, i)])[i] = disk[Target(p, i)]
          /\ \A j \in 1 .. i - 1 : Append(snap[p], disk[Target(p, i)])[j] = snap[p][j]
      BY <2>2, AppendProperties
    <3>3. \A j \in 1 .. i : j = i \/ j \in 1 .. i - 1
      BY <2>2
    <3> QED
      BY <1>2, <2>1, <3>1, <3>2, <3>3 DEF SnapshotsOK
  <2>4. /\ \/ txn'[p].at = "commit" /\ i = Len(patchers[p])
           \/ txn'[p].at = "snapshot" /\ txn'[p].i = i + 1
        /\ txn'[p].outcome = "none" /\ txn'[p].run = runs
        /\ \A q \in Procs \ {p} : txn'[q] = txn[q]
    <3>1. i \in Indices
      BY <1>1, <2>1
    <3> QED
      BY <1>1, <1>2, <2>1, <3>1, MovesAre DEF Stages
  <2>5. SnapshotsOK(p)'
    <3>1. \A j \in 1 .. i : snap'[p][j] = base'[p][Target(p, j)']
      BY <1>1, <2>1, <2>3 DEF Target
    <3>2. (i + 1) - 1 = i /\ Steps(p)' = 1 .. Len(patchers[p])
      BY <2>1, <2>2 DEF Steps
    <3> QED
      BY <2>4, <3>1, <3>2 DEF SnapshotsOK
  <2>6. CommitOK(p)'
    BY <1>1, <1>2, <1>4, <2>2 DEF CommitOK, Differ, patcherVars
  <2>7. BeforeWrites(p)'
    BY <1>1, <1>2, <1>4 DEF BeforeWrites
  <2>8. RunOK(p)'
    BY <2>4, <2>5, <2>6, <2>7 DEF RunOK, DetectOK, RestoreOK, EndOK
  <2> QED
    BY <1>1, <1>2, <1>3, <2>4, <2>8, RunnerKeepsInv
<1> QED
  BY <1>5, <1>6, <1>7 DEF ReadFails, GatedOut, ComposeFails, Compose

(* What a run that is writing knows of the files. *)
LEMMA RunnerIs ==
  ASSUME TxnInv, NEW p \in Procs, txn[p].at \notin {"down", "done"}
  PROVE  /\ TypeInv /\ OneRun /\ PatcherInv /\ PatcherTypeOK /\ StageOK(p)
         /\ txn \in [Procs -> Txns] /\ TxnTypes
         /\ changed \in [Procs -> SUBSET Indices] /\ txn[p].i \in 1 .. Len(Bundle) + 1
         /\ base[p] \in [Files -> Texts \cup {NoFile}]
         /\ Alone(p) /\ txn[p].run = runs /\ txn[p].outcome = "none"
         /\ SnapshotsOK(p) /\ CommitOK(p) /\ DetectOK(p) /\ RestoreOK(p)
         /\ Len(Bundle) \in Nat \ {0} /\ Len(patchers[p]) \in Nat
         /\ Steps(p) \subseteq Indices /\ Steps(p) \subseteq Nat
         /\ \A j \in Steps(p) : Target(p, j) \in Files
<1>1. /\ TypeInv /\ OneRun /\ PatcherInv /\ PatcherTypeOK /\ StageOK(p) /\ TxnTypes /\ RunOK(p)
      /\ txn[p] \in Txns
  BY DEF TxnInv, TypeInv, TxnTypes
<1>2. Alone(p) /\ txn[p].run = runs /\ txn[p].outcome = "none"
  BY <1>1, RunsAlone
<1> QED
  BY <1>1, <1>2, BundleIs, StepIs DEF TxnTypes, Txns, RunOK

LEMMA CommitKeepsInv ==
  ASSUME TxnInv, TypeInv', NEW p \in Procs, Commit(p)
  PROVE  TxnInv'
<1>1. /\ txn[p].at = "commit" /\ call[p].at = "idle"
      /\ call'[p].at = "layer0" /\ ~call'[p].orphan
      /\ \A q \in Procs \ {p} : call'[q] = call[q]
      /\ UNCHANGED <<disk, stamp, clock, pin, cacheFile, cache, text>> /\ UNCHANGED txnVars
  BY CommitIs DEF TxnInv
<1>2. /\ TypeInv /\ OneRun /\ PatcherInv /\ PatcherTypeOK
      /\ Alone(p) /\ txn[p].run = runs /\ txn[p].outcome = "none"
      /\ SnapshotsOK(p) /\ CommitOK(p)
  BY <1>1, RunnerIs
<1>3. PatcherInv'
  <2>1. Wrote(File(call[p].patch), <<>>)
    BY <1>1 DEF Wrote
  <2> QED
    BY <1>1, <1>2, <2>1, TurnKeepsInv, TextAssumption, ConfigAssumption
<1>4. UNCHANGED <<txn, patchers, snap, base, spoilt, faulty>>
  BY <1>1 DEF txnVars
<1>5. SnapshotsOK(p)'
  BY <1>2, <1>4 DEF SnapshotsOK, Steps, Target
<1>6. CommitOK(p)'
  BY <1>1, <1>2, <1>4 DEF CommitOK, Differ, Target
<1>7. RunOK(p)'
  BY <1>1, <1>2, <1>4, <1>5, <1>6 DEF RunOK, BeforeWrites, DetectOK, RestoreOK, EndOK
<1> QED
  BY <1>1, <1>2, <1>3, <1>4, <1>7, RunnerKeepsInv DEF txnVars

LEMMA PatchingKeepsInv ==
  ASSUME TxnInv, TypeInv', NEW p \in Procs, Patching(p)
  PROVE  TxnInv'
<1>1. PatcherStep(p) /\ UNCHANGED txnVars /\ call[p].at # "idle"
  BY StepFrame DEF Patching, TxnInv, TypeInv
<1>2. txn[p].at = "commit"
  BY <1>1 DEF TxnInv, TypeInv, StageOK
<1>3. /\ TypeInv /\ OneRun /\ PatcherInv /\ PatcherTypeOK
      /\ Alone(p) /\ txn[p].run = runs /\ txn[p].outcome = "none"
      /\ SnapshotsOK(p) /\ CommitOK(p) /\ call[p].patch = patchers[p][txn[p].i]
  BY <1>1, <1>2, RunnerIs DEF StageOK
<1>4. StepOK(p)
  BY <1>1, <1>3, PatcherStepOK, TextAssumption, ConfigAssumption
<1>5. PatcherInv'
  BY <1>1, <1>3, StepKeepsInv, TextAssumption, ConfigAssumption
<1>6. call[p].at # "done"
  BY <1>1 DEF PatcherStep, Layer0, LoadSkips, LoadFindsMarker, LoadRewrites, Truncate, Write,
              Reread, Record
<1>9. UNCHANGED <<txn, patchers, snap, base, spoilt, faulty>>
  BY <1>1 DEF txnVars
<1>7. CommitOK(p)'
  <2>1. ASSUME NEW f \in Files, disk'[f] # base[p][f], ~ \E j \in 1 .. txn[p].i - 1 : Target(p, j) = f
        PROVE  f = Target(p, txn[p].i) /\ call'[p].at # "idle" /\ Writing(p)'
    <3>1. CASE disk'[f] = disk[f]
      BY <1>2, <1>3, <1>4, <1>6, <2>1, <3>1 DEF CommitOK, Differ, StepOK, Writing
    <3>2. CASE disk'[f] # disk[f]
      BY <1>3, <1>4, <3>2 DEF StepOK, Writing, Target
    <3> QED
      BY <3>1, <3>2
  <2>2. \A j : Target(p, j)' = Target(p, j)
    BY <1>9 DEF Target
  <2>3. spoilt'[p] = {} /\ ~(call'[p].at = "done" /\ call'[p].result = "FAILED")
    BY <1>2, <1>3, <1>4, <1>9 DEF CommitOK, StepOK
  <2> QED
    BY <1>9, <2>1, <2>2, <2>3 DEF CommitOK, Differ
<1>10. SnapshotsOK(p)'
  BY <1>3, <1>9 DEF SnapshotsOK, Steps, Target
<1>8. RunOK(p)'
  BY <1>2, <1>3, <1>7, <1>9, <1>10 DEF RunOK, BeforeWrites, DetectOK, RestoreOK, EndOK
<1> QED
  BY <1>1, <1>2, <1>3, <1>5, <1>8, RunnerKeepsInv DEF txnVars

LEMMA PatchFaultKeepsInv ==
  ASSUME TxnInv, TypeInv', NEW p \in Procs, PatchFault(p)
  PROVE  TxnInv'
<1>1. /\ PatcherFault(p) /\ Faulted(p) /\ call[p].at # "idle"
      /\ UNCHANGED <<txn, patchers, snap, changed, aid, runs, base, spoilt>>
  BY StepFrame DEF PatchFault, TxnInv, TypeInv
<1>2. txn[p].at = "commit" /\ faulty'[p].io
  BY <1>1, FaultedIs DEF TxnInv, TypeInv, StageOK, TxnTypes
<1>3. /\ TypeInv /\ OneRun /\ PatcherInv /\ PatcherTypeOK
      /\ Alone(p) /\ txn[p].run = runs /\ txn[p].outcome = "none"
      /\ SnapshotsOK(p) /\ CommitOK(p) /\ call[p].patch = patchers[p][txn[p].i]
  BY <1>1, <1>2, RunnerIs DEF StageOK
<1>4. /\ PatcherInv'
      /\ call'[p].at = "done" /\ call'[p].result \in {"SKIPPED", "FAILED"}
      /\ call'[p].result = "SKIPPED" => call[p].at = "load"
      /\ \A f \in Files : disk'[f] # disk[f] => f = File(call[p].patch) /\ Writing(p)
  BY <1>1, <1>3, FaultKeepsInv, TextAssumption, ConfigAssumption
<1>5. call[p].at \in {"load", "open", "reread", "write"}
  BY <1>1, <1>3, FaultIs, ConfigAssumption
<1>6. CommitOK(p)'
  <2>1. ASSUME NEW f \in Files, disk'[f] # base[p][f], ~ \E j \in 1 .. txn[p].i - 1 : Target(p, j) = f
        PROVE  f = Target(p, txn[p].i) /\ call'[p].result = "FAILED"
    <3>1. f = Target(p, txn[p].i) /\ Writing(p)
      <4>1. CASE disk'[f] = disk[f]
        BY <1>2, <1>3, <1>5, <2>1, <4>1 DEF CommitOK, Differ
      <4>2. CASE disk'[f] # disk[f]
        BY <1>3, <1>4, <4>2 DEF Target
      <4> QED
        BY <4>1, <4>2
    <3> QED
      BY <1>4, <3>1 DEF Writing
  <2>2. \A j : Target(p, j)' = Target(p, j)
    BY <1>1 DEF Target
  <2>3. spoilt'[p] = {}
    BY <1>1, <1>2, <1>3 DEF CommitOK
  <2> QED
    BY <1>1, <1>2, <1>4, <2>1, <2>2, <2>3 DEF CommitOK, Differ
<1>8. SnapshotsOK(p)'
  BY <1>1, <1>3 DEF SnapshotsOK, Steps, Target
<1>7. RunOK(p)'
  BY <1>1, <1>2, <1>3, <1>6, <1>8 DEF RunOK, BeforeWrites, DetectOK, RestoreOK, EndOK
<1> QED
  BY <1>1, <1>2, <1>3, <1>4, <1>7, RunnerKeepsInv

LEMMA CollectKeepsInv ==
  ASSUME TxnInv, TypeInv', NEW p \in Procs, Collect(p)
  PROVE  TxnInv'
<1> DEFINE i == txn[p].i
           r == call[p].result
<1>1. /\ txn[p].at = "commit" /\ i \in Steps(p) /\ i \in Indices /\ call[p].at = "done"
      /\ call'[p].at = "idle" /\ ~call'[p].orphan /\ r # "none"
      /\ \A q \in Procs \ {p} : call'[q] = call[q] /\ txn'[q] = txn[q]
      /\ UNCHANGED <<disk, stamp, clock, pin, cacheFile, cache>>
      /\ UNCHANGED <<patchers, snap, changed, aid, runs, faults, base, faulty>>
      /\ spoilt'[p] = IF r = "FAILED" THEN {Target(p, i)} ELSE {}
      /\ txn'[p].run = txn[p].run
  BY CollectIs DEF TxnInv
<1>2. /\ TypeInv /\ OneRun /\ PatcherInv /\ PatcherTypeOK /\ txn \in [Procs -> Txns]
      /\ Alone(p) /\ txn[p].run = runs /\ txn[p].outcome = "none"
      /\ SnapshotsOK(p) /\ CommitOK(p) /\ i \in Nat
  BY <1>1, RunnerIs
<1>3. PatcherInv'
  <2>1. Wrote(File(call[p].patch), <<>>)
    BY <1>1 DEF Wrote
  <2> QED
    BY <1>1, <1>2, <2>1, TurnKeepsInv, TextAssumption, ConfigAssumption
<1>4. /\ \A f \in Files : Differ(p, f) =>
           \/ \E j \in 1 .. i - 1 : Target(p, j) = f
           \/ f = Target(p, i) /\ r \in {"APPLIED", "FAILED"}
      /\ r = "FAILED" => faulty[p].io
      /\ spoilt[p] = {}
  BY <1>1, <1>2 DEF CommitOK, Writing
<1>8. /\ \A j : Target(p, j)' = Target(p, j)
      /\ \A f \in Files : Differ(p, f)' <=> Differ(p, f)
      /\ Steps(p)' = Steps(p) /\ UNCHANGED <<snap, base, faulty, aid>>
  BY <1>1 DEF Target, Differ, Steps
<1>5. CASE txn' = End(p, "applied")
  <2>1. txn'[p].at = "done" /\ txn'[p].outcome = "applied"
    BY <1>2, <1>5, MovesAre DEF Outcomes
  <2>2. RunOK(p)'
    BY <2>1 DEF RunOK, BeforeWrites, SnapshotsOK, CommitOK, DetectOK, RestoreOK, EndOK
  <2> QED
    BY <1>1, <1>2, <1>3, <2>1, <2>2, RunnerKeepsInv
<1>6. CASE r \in {"APPLIED", "IDEMPOTENT"} /\ txn' = Step(p)
  <2>1. txn'[p].at = "commit" /\ txn'[p].i = i + 1 /\ txn'[p].outcome = "none"
    BY <1>1, <1>2, <1>6, MovesAre
  <2>2. i \in 1 .. (i + 1) - 1 /\ \A j \in 1 .. i - 1 : j \in 1 .. (i + 1) - 1
    BY <1>1, <1>2 DEF Steps
  <2>3. \A f \in Files : Differ(p, f) => \E j \in 1 .. (i + 1) - 1 : Target(p, j) = f
    BY <1>4, <1>6, <2>2
  <2>4. CommitOK(p)'
    BY <1>1, <1>6, <1>8, <2>1, <2>3 DEF CommitOK
  <2>5. SnapshotsOK(p)'
    BY <1>1, <1>2, <1>8, <2>1 DEF SnapshotsOK
  <2>6. RunOK(p)'
    BY <2>1, <2>4, <2>5 DEF RunOK, BeforeWrites, DetectOK, RestoreOK, EndOK
  <2> QED
    BY <1>1, <1>2, <1>3, <2>1, <2>6, RunnerKeepsInv
<1>7. CASE /\ r \in {"SKIPPED", "FAILED"}
           /\ txn'[p].at = "detect" /\ txn'[p].i = 1 /\ txn'[p].last = i - 1
           /\ txn'[p].outcome = txn[p].outcome
  <2>1. \A f \in Files : Differ(p, f) =>
          f \in spoilt'[p] \/ \E j \in 1 .. i - 1 : Target(p, j) = f
    BY <1>1, <1>4, <1>7
  <2>2. ~faulty[p].io => spoilt'[p] = {}
    BY <1>1, <1>4
  <2>3. \A j \in Steps(p) : ~(j < 1)
    BY DEF Steps
  <2>4. DetectOK(p)'
    BY <1>7, <1>8, <2>1, <2>2, <2>3 DEF DetectOK
  <2>5. SnapshotsOK(p)'
    BY <1>1, <1>2, <1>7, <1>8 DEF SnapshotsOK
  <2>6. RunOK(p)'
    BY <1>2, <1>7, <2>4, <2>5 DEF RunOK, BeforeWrites, CommitOK, RestoreOK, EndOK
  <2> QED
    BY <1>1, <1>2, <1>3, <1>7, <2>6, RunnerKeepsInv
<1> QED
  BY <1>5, <1>6, <1>7, CollectIs DEF TxnInv

LEMMA DetectKeepsInv ==
  ASSUME TxnInv, TypeInv', NEW p \in Procs, Detect(p) \/ DetectFails(p)
  PROVE  TxnInv'
<1> DEFINE i == txn[p].i
           last == txn[p].last
<1>1. /\ txn[p].at = "detect" /\ UNCHANGED <<patcherVars, patchers, snap, runs, base, spoilt>>
  BY DEF Detect, DetectFails
<1>2. /\ TypeInv /\ OneRun /\ PatcherInv /\ StageOK(p) /\ txn \in [Procs -> Txns] /\ TxnTypes
      /\ txn[p].run = runs /\ txn[p].outcome = "none" /\ i \in Nat \ {0}
      /\ SnapshotsOK(p) /\ DetectOK(p) /\ Len(patchers[p]) \in Nat
      /\ changed \in [Procs -> SUBSET Indices] /\ base[p] \in [Files -> Texts \cup {NoFile}]
      /\ Steps(p) \subseteq Indices /\ \A j \in Steps(p) : Target(p, j) \in Files
      /\ changed[p] \subseteq Steps(p)
  <2>1. /\ TypeInv /\ OneRun /\ PatcherInv /\ StageOK(p) /\ txn \in [Procs -> Txns] /\ TxnTypes
        /\ txn[p].run = runs /\ txn[p].outcome = "none" /\ i \in 1 .. Len(Bundle) + 1
        /\ SnapshotsOK(p) /\ DetectOK(p) /\ Len(patchers[p]) \in Nat
        /\ changed \in [Procs -> SUBSET Indices] /\ base[p] \in [Files -> Texts \cup {NoFile}]
        /\ Steps(p) \subseteq Indices /\ \A j \in Steps(p) : Target(p, j) \in Files
    BY <1>1, RunnerIs
  <2>2. changed[p] \subseteq Steps(p)
    BY <1>1, <2>1 DEF StageOK
  <2>3. i \in Nat \ {0}
    BY <2>1, RunnerIs, <1>1
  <2> QED
    BY <2>1, <2>2, <2>3
<1>9. last \in 0 .. Len(patchers[p]) /\ Len(snap[p]) = Len(patchers[p])
  BY <1>1, <1>2 DEF StageOK
<1>10. i <= last => i \in Steps(p) /\ i \in Indices
  BY <1>2, <1>9 DEF Steps
<1>3. PatcherInv' /\ UNCHANGED disk
  BY <1>1, <1>2, QuietKeepsPatcher DEF patcherVars
<1>11. /\ \A j : Target(p, j)' = Target(p, j)
       /\ \A f \in Files : Differ(p, f)' <=> Differ(p, f)
       /\ Steps(p)' = Steps(p)
  BY <1>1, <1>3 DEF Target, Differ, Steps
<1>12. SnapshotsOK(p)'
  <2>1. SnapshotsOK(p) /\ txn[p].at = "detect" /\ UNCHANGED <<snap, base>>
    BY <1>1, <1>2
  <2> QED
    <3>1. \A j \in Steps(p)' : snap'[p][j] = base'[p][Target(p, j)']
      BY <1>11, <2>1 DEF SnapshotsOK
    <3>2. txn'[p].at # "snapshot"
      BY <1>1, <1>2, <1>10, MovesAre DEF Detect, DetectFails, Stages
    <3> QED
      BY <3>1, <3>2 DEF SnapshotsOK
<1>4. CASE Detect(p) /\ i <= last
  <2>1. /\ txn' = Step(p) /\ UNCHANGED <<aid, faulty>> /\ i \in Steps(p) /\ i \in Indices
        /\ changed' = [changed EXCEPT ![p] = IF disk[Target(p, i)] # snap[p][i]
                                             THEN changed[p] \cup {i} ELSE changed[p]]
    BY <1>4, <1>10 DEF Detect
  <2>2. /\ txn'[p].at = "detect" /\ txn'[p].i = i + 1 /\ txn'[p].last = last
        /\ txn'[p].outcome = "none" /\ txn'[p].run = runs
        /\ \A q \in Procs \ {p} : txn'[q] = txn[q]
    BY <1>1, <1>2, <2>1, MovesAre
  <2>3. /\ changed[p] \subseteq changed'[p]
        /\ Differ(p, Target(p, i)) => i \in changed'[p]
    BY <1>1, <1>2, <2>1 DEF Differ, SnapshotsOK
  <2>4. \A j \in Steps(p) : j < i + 1 /\ j <= last /\ Differ(p, Target(p, j)) =>
          j \in changed'[p] \/ Aided(p, Target(p, j))
    <3>1. \A j \in Steps(p) : j < i + 1 => j < i \/ j = i
      BY <1>2 DEF Steps
    <3> QED
      BY <1>1, <1>2, <2>3, <3>1 DEF DetectOK
  <2>5. DetectOK(p)'
    <3>1. \A f : Aided(p, f)' <=> Aided(p, f)
      BY <1>1, <2>1 DEF Aided
    <3> QED
      BY <1>1, <1>2, <1>11, <2>1, <2>2, <2>4, <3>1 DEF DetectOK
  <2>6. RunOK(p)'
    BY <1>12, <2>2, <2>5 DEF RunOK, BeforeWrites, CommitOK, RestoreOK, EndOK
  <2> QED
    BY <1>1, <1>2, <1>3, <2>2, <2>6, RunnerKeepsInv
<1>5. CASE Detect(p) /\ ~(i <= last)
  <2>1. txn' = To(p, "restore") /\ UNCHANGED <<aid, faulty, changed>>
    BY <1>5 DEF Detect
  <2>2. /\ txn'[p].at = "restore" /\ txn'[p].outcome = "none" /\ txn'[p].run = runs
        /\ txn'[p].last = last /\ \A q \in Procs \ {p} : txn'[q] = txn[q]
    BY <1>1, <1>2, <2>1, MovesAre DEF Stages
  <2>3. \A j \in 1 .. last : Differ(p, Target(p, j)) => j \in changed[p] \/ Aided(p, Target(p, j))
    <3>1. \A j \in 1 .. last : j \in Steps(p) /\ j < i /\ j <= last
      BY <1>2, <1>5, <1>9 DEF Steps
    <3> QED
      BY <1>1, <1>2, <3>1 DEF DetectOK
  <2>4. \A f \in Files : Differ(p, f) =>
          \/ f \in spoilt[p] /\ \A j \in 1 .. last : Target(p, j) # f
          \/ (\E k \in changed[p] : Target(p, k) = f) \/ Aided(p, f)
    BY <1>1, <1>2, <2>3 DEF DetectOK
  <2>5. RestoreOK(p)'
    <3>1. \A f : Aided(p, f)' <=> Aided(p, f)
      BY <1>1, <2>1 DEF Aided
    <3> QED
      BY <1>1, <1>2, <1>11, <2>1, <2>2, <2>4, <3>1 DEF DetectOK, RestoreOK, GivenUp
  <2>6. RunOK(p)'
    BY <1>12, <2>2, <2>5 DEF RunOK, BeforeWrites, CommitOK, DetectOK, EndOK
  <2> QED
    BY <1>1, <1>2, <1>3, <2>2, <2>6, RunnerKeepsInv
<1>6. CASE DetectFails(p)
  <2>1. /\ i <= last /\ txn' = Step(p) /\ LeaveAid(p, i) /\ UNCHANGED changed
        /\ i \in Steps(p) /\ i \in Indices
    BY <1>6, <1>10 DEF DetectFails
  <2>2. snap[p][i] \in Texts /\ snap[p][i] = base[p][Target(p, i)]
    <3>1. i \in 1 .. Len(snap[p]) /\ snap[p] \in Seq(Texts)
      BY <1>2, <1>9, <2>1 DEF TxnTypes, Steps
    <3> QED
      BY <1>1, <1>2, <2>1, <3>1, ElementOfSeq DEF SnapshotsOK
  <2>3. /\ txn'[p].at = "detect" /\ txn'[p].i = i + 1 /\ txn'[p].last = last
        /\ txn'[p].outcome = "none" /\ txn'[p].run = runs
        /\ \A q \in Procs \ {p} : txn'[q] = txn[q]
    BY <1>1, <1>2, <2>1, MovesAre
  <2>4. /\ faulty'[p].io
        /\ \/ /\ aid'[Target(p, i)] = base[p][Target(p, i)] /\ faulty'[p].aid = faulty[p].aid
              /\ \A f \in Files : f # Target(p, i) => aid'[f] = aid[f]
           \/ aid' = aid /\ faulty'[p].aid
    BY <1>2, <2>1, <2>2, AidIs
  <2>5. /\ \A f \in Files : Aided(p, f) => faulty'[p].aid \/ aid'[f] = base[p][f]
        /\ faulty'[p].aid \/ aid'[Target(p, i)] = base[p][Target(p, i)]
    BY <2>4 DEF Aided
  <2>6. \A j \in Steps(p) : j < i + 1 /\ j <= last /\ Differ(p, Target(p, j)) =>
          j \in changed[p] \/ faulty'[p].aid \/ aid'[Target(p, j)] = base[p][Target(p, j)]
    <3>1. \A j \in Steps(p) : j < i + 1 => j < i \/ j = i
      BY <1>2 DEF Steps
    <3> QED
      BY <1>1, <1>2, <2>5, <3>1 DEF DetectOK
  <2>7. DetectOK(p)'
    <3>1. /\ spoilt' = spoilt /\ base' = base /\ changed' = changed /\ faulty'[p].io
      BY <1>1, <2>1, <2>4
    <3>2. \A f \in Files : Differ(p, f) => f \in spoilt[p] \/ \E j \in 1 .. last : Target(p, j) = f
      BY <1>1, <1>2 DEF DetectOK
    <3>3. \A j \in Steps(p) : j < i + 1 /\ j <= last /\ Differ(p, Target(p, j)) =>
            j \in changed'[p] \/ Aided(p, Target(p, j))'
      BY <1>11, <2>6, <3>1 DEF Aided
    <3>4. \A j \in Steps(p)' : j < txn'[p].i /\ j <= txn'[p].last /\ Differ(p, Target(p, j))' =>
            j \in changed'[p] \/ Aided(p, Target(p, j))'
      BY <1>2, <1>11, <2>3, <3>3
    <3> QED
      BY <1>11, <2>3, <3>1, <3>2, <3>4 DEF DetectOK
  <2>8. RunOK(p)'
    BY <1>12, <2>3, <2>7 DEF RunOK, BeforeWrites, CommitOK, RestoreOK, EndOK
  <2> QED
    BY <1>1, <1>2, <1>3, <2>3, <2>8, RunnerKeepsInv
<1> QED
  BY <1>4, <1>5, <1>6

LEMMA RestoreKeepsInv ==
  ASSUME TxnInv, TypeInv', NEW p \in Procs, Restore(p) \/ RestoreFails(p) \/ RolledBack(p)
  PROVE  TxnInv'
<1> DEFINE least == Min(changed[p])
           f == Target(p, least)
<1>1. /\ txn[p].at = "restore" /\ UNCHANGED <<patchers, snap, runs, base, spoilt>>
  BY DEF Restore, RestoreFails, RolledBack
<1>2. /\ TypeInv /\ OneRun /\ PatcherInv /\ StageOK(p) /\ txn \in [Procs -> Txns] /\ TxnTypes
      /\ PatcherTypeOK /\ txn[p].run = runs /\ txn[p].outcome = "none"
      /\ SnapshotsOK(p) /\ RestoreOK(p) /\ Alone(p) /\ call[p].at = "idle"
      /\ changed \in [Procs -> SUBSET Indices] /\ base[p] \in [Files -> Texts \cup {NoFile}]
  BY <1>1, RunnerIs DEF StageOK, TypeInv, TxnTypes
<1>3. changed[p] # {} => /\ least \in Steps(p) /\ least \in changed[p]
                         /\ f \in Files /\ disk[f] # NoFile
                         /\ snap[p][least] \in Texts /\ snap[p][least] = base[p][f]
  BY <1>1, <1>2, LeastChanged DEF SnapshotsOK
<1>7. /\ \A j : Target(p, j)' = Target(p, j)
      /\ Steps(p)' = Steps(p)
  BY <1>1 DEF Target, Steps
<1>8. txn'[p].at = "restore" /\ txn'[p].last = txn[p].last =>
        SnapshotsOK(p)' /\ \A g : GivenUp(p, g) => GivenUp(p, g)'
  BY <1>1, <1>2, <1>7 DEF SnapshotsOK, GivenUp
<1> HIDE DEF least, f
<1>4. CASE Restore(p)
  <2>1. /\ changed[p] # {} /\ Replace(f, base[p][f]) /\ changed'[p] = changed[p] \ {least}
        /\ UNCHANGED <<pin, cacheFile, cache, text>>
        /\ UNCHANGED <<txn, snap, aid, runs, faults, base, spoilt, faulty>>
    BY <1>2, <1>3, <1>4 DEF Restore, least, f
  <2>2. /\ PutFile(f, base[p][f]) /\ disk'[f] = base[p][f]
        /\ \A g \in Files : g # f => disk'[g] = disk[g]
        /\ \A q \in Procs : call[q].at = "idle" => call'[q] = call[q]
    BY <1>2, <1>3, <2>1, ReplaceIs
  <2>3. FilesOK' /\ TablesOK' /\ CacheTruthful'
    BY <1>2, <1>3, <2>1, <2>2, WriteKeepsTables DEF PatcherInv
  <2>4. CallsOK'
    <3>1. \A q \in Procs : call'[q].at = "idle" /\ ~call'[q].orphan
      BY <1>2, <2>2 DEF Alone, PatcherInv, CallsOK, CallOK
    <3> QED
      BY <3>1 DEF CallsOK, CallOK
  <2>5. RestoreOK(p)'
    <3>1. ASSUME NEW g \in Files, Differ(p, g)'
          PROVE  GivenUp(p, g)' \/ (\E k \in changed'[p] : Target(p, k)' = g) \/ Aided(p, g)'
      <4>1. g # f /\ Differ(p, g)
        BY <1>1, <2>2, <3>1 DEF Differ
      <4>2. GivenUp(p, g) \/ (\E k \in changed[p] : Target(p, k) = g) \/ Aided(p, g)
        BY <1>1, <1>2, <4>1 DEF RestoreOK
      <4>3. Aided(p, g) => Aided(p, g)'
        BY <2>1 DEF Aided
      <4>4. ASSUME NEW k \in changed[p], Target(p, k) = g PROVE k \in changed'[p]
        BY <2>1, <4>1, <4>4 DEF f
      <4> QED
        BY <1>1, <1>7, <1>8, <2>1, <4>2, <4>3, <4>4
    <3> QED
      BY <1>1, <1>2, <2>1, <3>1 DEF RestoreOK
  <2>6. RunOK(p)'
    BY <1>1, <1>2, <1>8, <2>1, <2>5 DEF RunOK, BeforeWrites, CommitOK, DetectOK, EndOK
  <2>7. PatcherInv'
    BY <2>3, <2>4 DEF PatcherInv
  <2> QED
    BY <1>1, <1>2, <2>1, <2>6, <2>7, RunnerKeepsInv
<1>5. CASE RestoreFails(p)
  <2>1. /\ changed[p] # {} /\ LeaveAid(p, least) /\ changed'[p] = changed[p] \ {least}
        /\ UNCHANGED <<patcherVars, txn>>
    BY <1>2, <1>5 DEF RestoreFails, least
  <2>2. /\ faulty'[p].io
        /\ \/ /\ aid'[f] = base[p][f] /\ faulty'[p].aid = faulty[p].aid
              /\ \A g \in Files : g # f => aid'[g] = aid[g]
           \/ aid' = aid /\ faulty'[p].aid
    BY <1>2, <1>3, <2>1, AidIs DEF f
  <2>3. /\ \A g \in Files : Aided(p, g) => faulty'[p].aid \/ aid'[g] = base[p][g]
        /\ faulty'[p].aid \/ aid'[f] = base[p][f]
    BY <2>2 DEF Aided
  <2>4. \A g \in Files : Aided(p, g) \/ g = f => Aided(p, g)'
    <3>1. base' = base /\ faulty'[p].io
      BY <1>1, <2>2
    <3> QED
      BY <2>3, <3>1 DEF Aided
  <2>5. PatcherInv' /\ UNCHANGED disk
    BY <1>2, <2>1, QuietKeepsPatcher DEF patcherVars
  <2>6. RestoreOK(p)'
    <3>1. ASSUME NEW g \in Files, Differ(p, g)'
          PROVE  GivenUp(p, g)' \/ (\E k \in changed'[p] : Target(p, k)' = g) \/ Aided(p, g)'
      <4>1. Differ(p, g)
        BY <1>1, <2>5, <3>1 DEF Differ
      <4>2. GivenUp(p, g) \/ (\E k \in changed[p] : Target(p, k) = g) \/ Aided(p, g)
        BY <1>1, <1>2, <4>1 DEF RestoreOK
      <4>3. ASSUME NEW k \in changed[p], Target(p, k) = g, g # f PROVE k \in changed'[p]
        BY <2>1, <4>3 DEF f
      <4>4. CASE GivenUp(p, g)
        BY <1>1, <1>8, <2>1, <4>4
      <4>5. CASE Aided(p, g) \/ g = f
        BY <2>4, <4>5
      <4>6. CASE g # f /\ \E k \in changed[p] : Target(p, k) = g
        BY <1>7, <4>3, <4>6
      <4> QED
        BY <4>2, <4>4, <4>5, <4>6
    <3> QED
      BY <1>1, <2>1, <2>2, <3>1 DEF RestoreOK
  <2>7. RunOK(p)'
    BY <1>1, <1>2, <1>8, <2>1, <2>6 DEF RunOK, BeforeWrites, CommitOK, DetectOK, EndOK
  <2> QED
    BY <1>1, <1>2, <2>1, <2>5, <2>7, RunnerKeepsInv
<1>6. CASE RolledBack(p)
  <2>1. /\ changed[p] = {} /\ txn' = End(p, "failed") /\ UNCHANGED <<patcherVars, aid, faulty>>
    BY <1>6 DEF RolledBack
  <2>2. /\ txn'[p].at = "done" /\ txn'[p].outcome = "failed" /\ txn'[p].run = runs
        /\ txn'[p].last = txn[p].last
        /\ \A q \in Procs \ {p} : txn'[q] = txn[q]
    BY <1>2, <2>1, MovesAre DEF Outcomes
  <2>3. ~faulty[p].io => disk = base[p]
    <3>1. ~faulty[p].io => \A g \in Files : disk[g] = base[p][g]
      BY <1>1, <1>2, <2>1 DEF RestoreOK, Differ, Aided, GivenUp
    <3>2. disk \in [Files -> Texts \cup {NoFile}]
      BY <1>2 DEF PatcherTypeOK
    <3> QED
      BY <1>2, <3>1, <3>2
  <2>4. PatcherInv' /\ UNCHANGED disk
    BY <1>2, <2>1, QuietKeepsPatcher DEF patcherVars
  <2>5. EndOK(p)'
    <3>1. \A g \in Files : Differ(p, g) => GivenUp(p, g) \/ Aided(p, g)
      BY <1>1, <1>2, <2>1 DEF RestoreOK
    <3>2. \A g : /\ Differ(p, g)' <=> Differ(p, g)
                 /\ GivenUp(p, g) => GivenUp(p, g)'
                 /\ Aided(p, g) => Aided(p, g)'
      BY <1>1, <1>7, <2>1, <2>2, <2>4 DEF Differ, GivenUp, Aided
    <3> QED
      BY <1>1, <2>1, <2>2, <2>3, <2>4, <3>1, <3>2 DEF EndOK
  <2>6. RunOK(p)'
    BY <2>2, <2>5
       DEF RunOK, BeforeWrites, SnapshotsOK, CommitOK, DetectOK, RestoreOK
  <2> QED
    BY <1>1, <1>2, <2>2, <2>4, <2>6, RunnerKeepsInv
<1> QED
  BY <1>4, <1>5, <1>6

LEMMA CrashKeepsInv ==
  ASSUME TxnInv, TypeInv', NEW p \in Procs, Crash(p)
  PROVE  TxnInv'
<1>1. /\ TypeInv /\ OneRun /\ PatcherInv /\ TxnTypes /\ PatcherTypeOK /\ StageOK(p)
      /\ \A q \in Procs : RunOK(q)
      /\ txn \in [Procs -> Txns] /\ call[p].patch \in Patches
  BY DEF TxnInv, TypeInv, TxnTypes, PatcherTypeOK
<1>2. /\ \E c : Wrote(File(call[p].patch), c)
      /\ call[p].at # "write" => UNCHANGED <<disk, stamp, clock>>
      /\ call' = [call EXCEPT ![p] = Idle(call[p].patch)]
      /\ text' = [text EXCEPT ![p] = <<>>]
      /\ cache' = [cache EXCEPT ![p] = Unloaded]
      /\ UNCHANGED <<pin, cacheFile>>
  BY <1>1, CrashIs
<1>3. /\ call'[p].at = "idle" /\ ~call'[p].orphan
      /\ \A q \in Procs \ {p} : call'[q] = call[q] /\ cache'[q] = cache[q]
      /\ ~cache'[p].loaded
  BY <1>1, <1>2 DEF PatcherTypeOK, Idle, Unloaded
<1>4. /\ txn'[p].at = "down" /\ txn'[p].outcome = "none" /\ txn'[p].run = txn[p].run
      /\ \A q \in Procs \ {p} : txn'[q] = txn[q]
  <2> DEFINE t == End(p, "none")
             e == [t[p] EXCEPT !.at = "down"]
  <2>1. /\ t \in [Procs -> Txns] /\ \A q \in Procs \ {p} : t[q] = txn[q]
        /\ t[p].outcome = "none" /\ t[p].run = txn[p].run
    BY <1>1, MovesAre DEF Outcomes
  <2> HIDE DEF t
  <2>2. e.at = "down" /\ e.outcome = "none" /\ e.run = txn[p].run
    BY <2>1 DEF Txns
  <2>3. txn' = [t EXCEPT ![p] = e]
    BY DEF Crash, t
  <2> HIDE DEF e
  <2> QED
    BY <2>1, <2>2, <2>3
<1>5. /\ txn[p].at # "down"
      /\ UNCHANGED <<aid, runs, base, faulty>>
      /\ \A q \in Procs \ {p} : /\ patchers'[q] = patchers[q] /\ snap'[q] = snap[q]
                               /\ changed'[q] = changed[q] /\ spoilt'[q] = spoilt[q]
  BY <1>1 DEF Crash, TxnTypes
<1>6. Running' \subseteq Running
  BY <1>4 DEF Running
<1>7. OneRun'
  <2>1. \A q, q2 \in Running' : q = q2
    BY <1>1, <1>6 DEF OneRun
  <2>2. \A q, q2 \in Procs : txn'[q].run = txn'[q2].run /\ txn'[q].run # 0 => q = q2
    BY <1>1, <1>4 DEF OneRun
  <2>3. ASSUME NEW q \in Procs
        PROVE  (/\ txn[q].run <= runs
                /\ q \in Running => txn[q].run = runs
                /\ txn[q].run = 0 => txn[q].at = "down"
                /\ txn[q].outcome # "none" => txn[q].at = "done"
                /\ txn[q].at = "done" => txn[q].outcome # "none")'
    BY <1>1, <1>4, <1>5, <1>6 DEF OneRun
  <2> QED
    BY <2>1, <2>2, <2>3 DEF OneRun
<1>8. RunOK(p)'
  BY <1>4 DEF RunOK, BeforeWrites, SnapshotsOK, CommitOK, DetectOK, RestoreOK, EndOK
<1>9. ASSUME NEW q \in Procs, q # p
      PROVE  RunOK(q)'
  <2>1. CASE txn[p].at = "done"
    <3>1. UNCHANGED disk
      BY <1>1, <1>2, <2>1 DEF StageOK
    <3>2. /\ txn'[q] = txn[q] /\ call'[q] = call[q] /\ snap'[q] = snap[q]
          /\ patchers'[q] = patchers[q] /\ changed'[q] = changed[q] /\ spoilt'[q] = spoilt[q]
          /\ UNCHANGED <<aid, runs, base, faulty>>
      BY <1>3, <1>4, <1>5, <1>9
    <3>3. RunOK(q)
      BY <1>1
    <3> QED
      BY ONLY <3>1, <3>2, <3>3, RunUnmoved
  <2>2. CASE txn[p].at # "done"
    <3>1. txn[q].run # runs
      BY <1>1, <1>5, <1>9, <2>2, RunsAlone
    <3> QED
      BY <1>4, <1>5, <1>9, <3>1 DEF RunOK
  <2> QED
    BY <2>1, <2>2
<1>10. PatcherInv'
  <2>1. FilesOK' /\ TablesOK' /\ CacheTruthful'
    BY <1>1, <1>2, <1>3, WriteKeepsTables DEF Wrote, PatcherInv
  <2>2. CASE txn[p].at = "done"
    <3>1. UNCHANGED <<disk, pin>> /\ \A q \in Procs : q # p => call'[q] = call[q] /\ text'[q] = text[q]
      BY <1>1, <1>2, <1>3, <2>2 DEF StageOK, PatcherTypeOK
    <3>2. ASSUME NEW q \in Procs PROVE CallOK(q)'
      <4>1. CASE q = p
        BY <1>3, <4>1 DEF CallOK
      <4>2. CASE q # p
        BY <1>1, <3>1, <4>2 DEF PatcherInv, CallsOK, CallOK, Fresh, RewriteNow
      <4> QED
        BY <4>1, <4>2
    <3> QED
      BY <2>1, <3>2 DEF PatcherInv, CallsOK
  <2>3. CASE txn[p].at # "done"
    <3>1. Alone(p)
      BY <1>1, <1>5, <2>3, RunsAlone
    <3>2. CallOK(p)'
      BY <1>3 DEF CallOK
    <3> QED
      BY <1>1, <1>3, <2>1, <3>1, <3>2, AloneIsOK DEF PatcherInv
  <2> QED
    BY <2>2, <2>3
<1> QED
  BY <1>7, <1>8, <1>9, <1>10 DEF TxnInv

LEMMA NextTxnInv ==
  ASSUME Exclusive, TxnInv, [Next]_vars
  PROVE  TxnInv'
<1>1. TypeInv'
  BY NextTypeInv DEF TxnInv
<1>2. CASE UNCHANGED vars
  <2>1. UNCHANGED patcherVars /\ UNCHANGED txnVars
    BY <1>2 DEF vars
  <2>2. PatcherInv' /\ UNCHANGED <<disk, call>>
    BY <2>1, QuietKeepsPatcher DEF TxnInv, patcherVars
  <2>3. OneRun'
    BY <2>1 DEF TxnInv, OneRun, Running, txnVars
  <2>4. ASSUME NEW q \in Procs PROVE RunOK(q)'
    <3>1. RunOK(q)
      BY DEF TxnInv
    <3>2. UNCHANGED <<disk, call, aid, runs, base, faulty, txn, snap, patchers, changed, spoilt>>
      BY <2>1, <2>2 DEF txnVars
    <3> QED
      BY <3>1, <3>2, RunUnmoved
  <2> QED
    BY <1>1, <2>2, <2>3, <2>4 DEF TxnInv
<1>3. ASSUME NEW p \in Procs, Run(p) \/ TxnStep(p) \/ TxnFault(p)
      PROVE  TxnInv'
  <2>1. CASE Run(p)
    BY <1>1, <2>1, RunStarts
  <2>2. CASE TxnStep(p)
    BY <1>1, <2>2, LookKeepsInv, CommitKeepsInv, PatchingKeepsInv, CollectKeepsInv,
       DetectKeepsInv, RestoreKeepsInv DEF TxnStep
  <2>3. CASE TxnFault(p)
    BY <1>1, <2>3, LookKeepsInv, PatchFaultKeepsInv, DetectKeepsInv, RestoreKeepsInv,
       CrashKeepsInv DEF TxnFault
  <2> QED
    BY <1>3, <2>1, <2>2, <2>3
<1> QED
  BY <1>2, <1>3 DEF Next

(* From here on no two processes run the bundle at once.                   *)

(* The marker cache of the processes that run a bundle vouches for no      *)
(* patch its file does not have, whatever is rolled back or dies.          *)
THEOREM BundleCacheIsTruthful == Exclusive => (Spec => []CacheTruthful)
<1> SUFFICES ASSUME Exclusive
             PROVE  Spec => []CacheTruthful
  OBVIOUS
<1>1. Init => TxnInv
  BY InitTxnInv
<1>2. TxnInv /\ [Next]_vars => TxnInv'
  BY NextTxnInv
<1>3. TxnInv => CacheTruthful
  BY DEF TxnInv, PatcherInv
<1> QED
  BY <1>1, <1>2, <1>3, PTL DEF Spec

(* A run that was skipped changed no file. *)
THEOREM SkippedChangesNothing == Exclusive => (Spec => []SkippedUntouched)
<1> SUFFICES ASSUME Exclusive
             PROVE  Spec => []SkippedUntouched
  OBVIOUS
<1>1. Init => TxnInv
  BY InitTxnInv
<1>2. TxnInv /\ [Next]_vars => TxnInv'
  BY NextTxnInv
<1>3. TxnInv => SkippedUntouched
  BY DEF TxnInv, RunOK, EndOK, SkippedUntouched, Ended
<1> QED
  BY <1>1, <1>2, <1>3, PTL DEF Spec

(* A failed run that met no I/O error put every file back as it was. *)
THEOREM RollbackIsExact == Exclusive => (Spec => []RollbackRestores)
<1> SUFFICES ASSUME Exclusive
             PROVE  Spec => []RollbackRestores
  OBVIOUS
<1>1. Init => TxnInv
  BY InitTxnInv
<1>2. TxnInv /\ [Next]_vars => TxnInv'
  BY NextTxnInv
<1>3. TxnInv => RollbackRestores
  BY DEF TxnInv, RunOK, EndOK, RollbackRestores, Ended
<1> QED
  BY <1>1, <1>2, <1>3, PTL DEF Spec

(* And one that met some: every file holds what it held before the run, or *)
(* its original is in the rollback aid, unless an aid could not be written *)
(* or the file is that of the patcher that failed, which nothing puts back.*)
THEOREM OriginalsAreKept == Exclusive => (Spec => []OriginalNotLost)
<1> SUFFICES ASSUME Exclusive
             PROVE  Spec => []OriginalNotLost
  OBVIOUS
<1>1. Init => TxnInv
  BY InitTxnInv
<1>2. TxnInv /\ [Next]_vars => TxnInv'
  BY NextTxnInv
<1>3. TxnInv => OriginalNotLost
  BY DEF TxnInv, RunOK, EndOK, OriginalNotLost, Ended, Differ, Aided, Safe
<1> QED
  BY <1>1, <1>2, <1>3, PTL DEF Spec

-----------------------------------------------------------------------------
(* While no edit erases a marker.                                          *)

(* Where a step of the process that runs the bundle takes it. *)
LEMMA StepGoes ==
  ASSUME TxnInv, NEW p \in Procs, TxnStep(p) \/ TxnFault(p), ~Crash(p)
  PROVE  /\ txn[p].at \notin {"down", "done"} /\ txn[p].run = runs /\ runs' = runs
         /\ txn'[p].run = txn[p].run /\ base' = base
         /\ \A q \in Procs \ {p} : txn'[q] = txn[q]
         /\ txn'[p].at # "down"
         /\ ~Collect(p) => txn'[p].outcome # "applied"
         /\ txn'[p].at = "commit" =>
              Commit(p) \/ Patching(p) \/ PatchFault(p) \/ Collect(p) \/ txn'[p].i = 1
<1>1. txn \in [Procs -> Txns] /\ TypeInv /\ OneRun /\ PatcherTypeOK /\ StageOK(p)
  BY DEF TxnInv, TypeInv, TxnTypes
<1>2. txn[p].at \notin {"down", "done"} => txn[p].run = runs /\ txn[p].outcome = "none"
  BY <1>1, RunsAlone
<1>11. Steps(p) \subseteq Indices
  BY <1>1, StepIs DEF TypeInv
<1>3. CASE DryRun(p)
  <2>1. txn[p].i \in Indices
    BY <1>1, <1>3, <1>11 DEF DryRun, StageOK
  <2>2. /\ txn' = End(p, "skipped") \/ txn' = To(p, "snapshot") \/ txn' = Step(p)
        /\ txn[p].at = "dryrun" /\ UNCHANGED <<runs, base>>
    BY <1>3 DEF DryRun
  <2> QED
    BY <1>1, <1>2, <2>1, <2>2, MovesAre DEF Stages, Outcomes
<1>4. CASE Snapshot(p)
  <2>1. txn[p].i \in Indices
    BY <1>1, <1>4, <1>11 DEF Snapshot, StageOK
  <2>2. /\ txn' = To(p, "commit") \/ txn' = Step(p)
        /\ txn[p].at = "snapshot" /\ UNCHANGED <<runs, base>>
    BY <1>4 DEF Snapshot
  <2> QED
    BY <1>1, <1>2, <2>1, <2>2, MovesAre DEF Stages, Outcomes
<1>5. CASE Commit(p)
  BY <1>2, <1>5 DEF Commit, txnVars
<1>6. CASE Patching(p) \/ PatchFault(p)
  <2>1. call[p].at # "idle" /\ UNCHANGED <<txn, runs, base>>
    BY <1>1, <1>6, StepFrame DEF Patching, PatchFault, txnVars
  <2> QED
    BY <1>1, <1>2, <1>6, <2>1 DEF StageOK
<1>7. CASE Collect(p)
  <2>1. /\ txn[p].at = "commit" /\ txn'[p].run = txn[p].run /\ UNCHANGED <<runs, base>>
        /\ \A q \in Procs \ {p} : txn'[q] = txn[q]
        /\ txn' = End(p, "applied") \/ txn' = Step(p) \/ txn'[p].at = "detect"
        /\ txn[p].i \in Indices
    BY <1>1, <1>7, CollectIs
  <2>2. txn'[p].at # "down"
    BY <1>1, <2>1, MovesAre DEF Outcomes
  <2> QED
    BY <1>2, <1>7, <2>1, <2>2
<1>8. CASE Detect(p) \/ DetectFails(p)
  <2>1. txn[p].i \in 1 .. Len(Bundle) + 1 /\ txn[p].last \in 0 .. Len(Bundle) /\ Len(Bundle) \in Nat
    BY <1>1, BundleIs DEF Txns
  <2>2. /\ txn' = To(p, "restore") \/ (txn' = Step(p) /\ txn[p].i <= txn[p].last)
        /\ txn[p].at = "detect" /\ UNCHANGED <<runs, base>>
    BY <1>8 DEF Detect, DetectFails
  <2>3. txn[p].i <= txn[p].last => txn[p].i \in Indices
    BY <2>1 DEF Indices
  <2> QED
    BY <1>1, <1>2, <2>2, <2>3, MovesAre DEF Stages, Outcomes
<1>9. CASE Restore(p) \/ RestoreFails(p)
  BY <1>2, <1>9 DEF Restore, RestoreFails
<1>10. CASE RolledBack(p) \/ ReadFails(p) \/ GatedOut(p) \/ ComposeFails(p)
  <2>1. /\ txn' = End(p, "failed") \/ txn' = End(p, "skipped")
        /\ txn[p].at \in {"restore", "compose", "dryrun", "snapshot"} /\ UNCHANGED <<runs, base>>
    BY <1>10 DEF RolledBack, ReadFails, GatedOut, ComposeFails
  <2> QED
    BY <1>1, <1>2, <2>1, MovesAre DEF Outcomes
<1>12. CASE Compose(p)
  <2>1. /\ txn' = End(p, "skipped") \/ txn' = To(p, "dryrun")
        /\ txn[p].at = "compose" /\ UNCHANGED <<runs, base>>
    BY <1>12 DEF Compose
  <2> QED
    BY <1>1, <1>2, <2>1, MovesAre DEF Stages, Outcomes
<1> QED
  BY <1>3, <1>4, <1>5, <1>6, <1>7, <1>8, <1>9, <1>10, <1>12 DEF TxnStep, TxnFault

(* When the last patcher has gone through, all of them have. *)
LEMMA AppliedIs ==
  ASSUME MarkersSurvive, TxnInv, AppliedInv, NEW p \in Procs, Collect(p)
  PROVE  /\ GoneThrough(p)'
         /\ txn'[p].outcome = "applied" =>
              /\ AllMarked
              /\ \A f \in Files : Differ(p, f) => \E pt \in ToSet(Bundle) : File(pt) = f
<1> DEFINE i == txn[p].i
           r == call[p].result
<1>1. /\ txn[p].at = "commit" /\ i \in Steps(p) /\ i \in Indices
      /\ call[p].at = "done" /\ call[p].patch = patchers[p][i]
      /\ call'[p].at = "idle" /\ UNCHANGED <<disk, runs, patchers>>
      /\ txn'[p].run = txn[p].run
      /\ \/ r \in {"APPLIED", "IDEMPOTENT"} /\ i = Len(patchers[p]) /\ txn' = End(p, "applied")
         \/ r \in {"APPLIED", "IDEMPOTENT"} /\ i # Len(patchers[p]) /\ txn' = Step(p)
         \/ txn'[p].at = "detect" /\ txn'[p].outcome = txn[p].outcome
  BY CollectIs DEF TxnInv
<1>2. /\ TypeInv /\ PatcherInv /\ StageOK(p) /\ txn \in [Procs -> Txns] /\ CommitOK(p)
      /\ txn[p].run = runs /\ txn[p].outcome = "none" /\ i \in Nat \ {0}
      /\ ToSet(patchers[p]) = Present
  BY <1>1, RunnerIs DEF StageOK, Steps
<1>3. r \in {"APPLIED", "IDEMPOTENT"} =>
        \A j \in 1 .. i : Marked(disk[Target(p, j)], Marker(patchers[p][j]))
  <2>1. ASSUME r \in {"APPLIED", "IDEMPOTENT"}
        PROVE  /\ \A j \in 1 .. i - 1 : Marked(disk[Target(p, j)], Marker(patchers[p][j]))
               /\ Marked(disk[Target(p, i)], Marker(patchers[p][i]))
    BY <1>1, <1>2, <2>1 DEF AppliedInv, GoneThrough, Holds, PatcherInv, CallsOK, CallOK, Target
  <2>2. \A j \in 1 .. i : j = i \/ j \in 1 .. i - 1
    BY <1>2
  <2> QED
    BY <2>1, <2>2
<1>4. CASE txn'[p].at = "detect" /\ txn'[p].outcome = txn[p].outcome
  BY <1>2, <1>4 DEF GoneThrough
<1>5. CASE r \in {"APPLIED", "IDEMPOTENT"} /\ i # Len(patchers[p]) /\ txn' = Step(p)
  <2>1. txn'[p].at = "commit" /\ txn'[p].i = i + 1 /\ txn'[p].outcome = "none"
    BY <1>1, <1>2, <1>5, MovesAre
  <2>2. \A j \in 1 .. (i + 1) - 1 : j \in 1 .. i
    BY <1>2
  <2> QED
    BY <1>1, <1>3, <1>5, <2>1, <2>2 DEF GoneThrough, Holds, Target
<1>6. CASE r \in {"APPLIED", "IDEMPOTENT"} /\ i = Len(patchers[p]) /\ txn' = End(p, "applied")
  <2>1. txn'[p].at = "done" /\ txn'[p].outcome = "applied"
    BY <1>2, <1>6, MovesAre DEF Outcomes
  <2>2. \A j \in Steps(p) : Marked(disk[Target(p, j)], Marker(patchers[p][j]))
    BY <1>3, <1>6 DEF Steps
  <2>3. Present = {patchers[p][j] : j \in Steps(p)}
    BY <1>2 DEF ToSet, Steps
  <2>4. AllMarked
    BY <1>1, <2>2, <2>3 DEF AllMarked, Target
  <2>5. \A f \in Files : Differ(p, f) => \E j \in Steps(p) : Target(p, j) = f
    BY <1>1, <1>2, <1>6 DEF CommitOK, Steps
  <2>6. \A f \in Files : Differ(p, f) => \E pt \in ToSet(Bundle) : File(pt) = f
    BY <2>3, <2>5 DEF Target, Present
  <2>7. AllMarked'
    BY <1>1, <2>4 DEF AllMarked, Present
  <2> QED
    BY <2>1, <2>4, <2>6, <2>7 DEF GoneThrough
<1> QED
  BY <1>1, <1>4, <1>5, <1>6

LEMMA NextAppliedInv ==
  ASSUME Exclusive, MarkersSurvive, TxnInv, AppliedInv, [Next]_vars
  PROVE  AppliedInv'
<1>0. TypeInv /\ OneRun /\ TxnTypes /\ PatcherTypeOK /\ PatcherInv /\ txn \in [Procs -> Txns]
      /\ \A q \in Procs : StageOK(q) /\ GoneThrough(q)
  BY DEF TxnInv, TypeInv, TxnTypes, AppliedInv
<1>1. CASE UNCHANGED vars
  BY <1>0, <1>1
     DEF vars, patcherVars, txnVars, AppliedInv, GoneThrough, Holds, AllMarked, Present, Target
<1>2. ASSUME NEW p \in Procs, Run(p)
      PROVE  AppliedInv'
  <2>1. /\ runs' = runs + 1 /\ runs \in Nat
        /\ txn'[p].at = "compose" /\ txn'[p].outcome = "none"
        /\ \A q \in Procs \ {p} : txn'[q] = txn[q]
    BY <1>0, <1>2 DEF Run, TxnTypes
  <2>2. \A q \in Procs \ {p} : txn'[q].run # runs'
    BY <1>0, <2>1 DEF OneRun, Txns
  <2> QED
    BY <2>1, <2>2 DEF AppliedInv, GoneThrough
<1>3. ASSUME NEW p \in Procs, TxnStep(p) \/ TxnFault(p), ~Crash(p)
      PROVE  AppliedInv'
  <2>1. /\ txn[p].at \notin {"down", "done"} /\ runs' = runs /\ txn'[p].run = runs
        /\ \A q \in Procs \ {p} : txn'[q] = txn[q]
        /\ ~Collect(p) => txn'[p].outcome # "applied"
        /\ txn'[p].at = "commit" =>
              Commit(p) \/ Patching(p) \/ PatchFault(p) \/ Collect(p) \/ txn'[p].i = 1
    BY <1>3, StepGoes
  <2>2. \A q \in Procs \ {p} : txn[q].run # runs
    BY <1>0, <2>1, RunsAlone
  <2>3. GoneThrough(p)'
    <3>1. CASE txn'[p].at # "commit" /\ ~Collect(p)
      BY <2>1, <3>1 DEF GoneThrough
    <3>2. CASE txn'[p].i = 1 /\ ~Collect(p)
      BY <2>1, <3>2 DEF GoneThrough
    <3>3. CASE Collect(p)
      BY <3>3, AppliedIs
    <3>4. CASE Commit(p)
      <4>1. /\ call[p].at = "idle" /\ call'[p].at = "layer0"
            /\ UNCHANGED <<disk, txn, patchers, runs>>
        BY <1>0, <3>4, CommitIs DEF txnVars
      <4>2. \A f, m : Holds(p, f, m) => Holds(p, f, m)'
        BY <4>1 DEF Holds
      <4>3. GoneThrough(p)
        BY <1>0
      <4>4. ~Collect(p)
        BY <4>1 DEF Collect
      <4>5. \A j : /\ Target(p, j)' = Target(p, j)
                  /\ Marker(patchers'[p][j]) = Marker(patchers[p][j])
        BY <4>1 DEF Target
      <4>6. txn'[p].at = "commit" =>
              \A j \in 1 .. txn'[p].i - 1 :
                (Holds(p, Target(p, j), Marker(patchers[p][j])))'
        <5>1. txn[p].at = "commit" =>
                \A j \in 1 .. txn[p].i - 1 : Holds(p, Target(p, j), Marker(patchers[p][j]))
          BY <2>1, <4>1, <4>3 DEF GoneThrough
        <5>2. \A j : (Holds(p, Target(p, j), Marker(patchers[p][j])))' <=>
                      Marked(IF call'[p].at = "write" /\ File(call'[p].patch) = Target(p, j)
                             THEN text'[p] ELSE disk'[Target(p, j)], Marker(patchers[p][j]))
          BY <4>5 DEF Holds
        <5> QED
          BY <4>1, <5>1, <5>2 DEF Holds
      <4> QED
        BY <2>1, <4>4, <4>6 DEF GoneThrough
    <3>5. CASE Patching(p)
      <4>1. PatcherStep(p) /\ UNCHANGED <<txn, patchers, runs>>
        BY <3>5 DEF Patching, txnVars
      <4>2. \A f \in Files, m \in Markers : Holds(p, f, m) => Holds(p, f, m)'
        BY <1>0, <4>1, PatcherStepOK, TextAssumption, ConfigAssumption DEF StepOK
      <4>3. call[p].at # "done"
        BY <4>1 DEF PatcherStep, Layer0, LoadSkips, LoadFindsMarker, LoadRewrites, Truncate, Write,
                    Reread, Record
      <4>4. txn'[p].at = "commit" => txn[p].i \in Steps(p) /\ Len(patchers[p]) \in Nat
        BY <1>0, <4>1, StepIs DEF StageOK
      <4>5. txn'[p].at = "commit" =>
              \A j \in 1 .. txn[p].i - 1 : Target(p, j) \in Files /\ Marker(patchers[p][j]) \in Markers
        BY <1>0, <4>4, StepIs DEF Steps
      <4>6. ~Collect(p)
        BY <4>3 DEF Collect
      <4> QED
        BY <1>0, <2>1, <4>1, <4>2, <4>3, <4>5, <4>6 DEF GoneThrough, Holds, Target
    <3>6. CASE PatchFault(p)
      <4>1. call'[p].at = "done" /\ call'[p].result \in {"SKIPPED", "FAILED"}
        <5>1. PatcherFault(p) /\ Alone(p)
          BY <1>0, <2>1, <3>6, RunsAlone DEF PatchFault
        <5> QED
          BY <1>0, <5>1, FaultKeepsInv, ConfigAssumption, TextAssumption
      <4>2. call[p].at # "done"
        BY <3>6, <1>0, FaultIs, ConfigAssumption DEF PatchFault
      <4>3. ~Collect(p)
        BY <4>2 DEF Collect
      <4> QED
        BY <2>1, <4>1, <4>3 DEF GoneThrough
    <3> QED
      BY <2>1, <3>1, <3>2, <3>3, <3>4, <3>5, <3>6
  <2> QED
    BY <2>1, <2>2, <2>3 DEF AppliedInv, GoneThrough
<1>4. ASSUME NEW p \in Procs, Crash(p)
      PROVE  AppliedInv'
  <2>1. /\ txn'[p].at = "down" /\ txn'[p].outcome = "none" /\ runs' = runs
        /\ \A q \in Procs \ {p} : txn'[q] = txn[q]
    <3> DEFINE t == End(p, "none")
               e == [t[p] EXCEPT !.at = "down"]
    <3>1. /\ t \in [Procs -> Txns] /\ \A q \in Procs \ {p} : t[q] = txn[q]
          /\ t[p].outcome = "none"
      BY <1>0, MovesAre DEF Outcomes
    <3> HIDE DEF t
    <3>2. e.at = "down" /\ e.outcome = "none"
      BY <3>1 DEF Txns
    <3>3. txn' = [t EXCEPT ![p] = e] /\ runs' = runs
      BY <1>4 DEF Crash, t
    <3> HIDE DEF e
    <3> QED
      BY <3>1, <3>2, <3>3
  <2>2. GoneThrough(p)'
    BY <2>1 DEF GoneThrough
  <2>3. ASSUME NEW q \in Procs, q # p
        PROVE  GoneThrough(q)'
    <3>1. CASE txn[p].at = "done"
      <4>1. /\ UNCHANGED disk /\ call'[q] = call[q] /\ txn'[q] = txn[q] /\ text'[q] = text[q]
            /\ patchers'[q] = patchers[q]
        <5>1. patchers'[q] = patchers[q]
          BY <1>0, <1>4, <2>3 DEF Crash, TxnTypes
        <5> QED
          BY <1>0, <1>4, <2>1, <2>3, <3>1, <5>1, CrashIs DEF StageOK, PatcherTypeOK
      <4>2. GoneThrough(q)
        BY <1>0
      <4> QED
        BY <2>1, <4>1, <4>2 DEF GoneThrough, Holds, AllMarked, Present, Target
    <3>2. CASE txn[p].at # "done"
      <4>1. txn[q].run # runs
        BY <1>0, <1>4, <2>3, <3>2, RunsAlone DEF Crash
      <4> QED
        BY <2>1, <2>3, <4>1 DEF GoneThrough
    <3> QED
      BY <3>1, <3>2
  <2> QED
    BY <2>2, <2>3 DEF AppliedInv
<1> QED
  BY <1>1, <1>2, <1>3, <1>4 DEF Next

(* A bundle reported "applied" has in place the marker of every patch that *)
(* has a target, and there is one, whatever its patchers found and however *)
(* many runs and faults came before.                                       *)
THEOREM AppliedIsComplete == Exclusive /\ MarkersSurvive => (Spec => []AppliedMeansAll)
<1> SUFFICES ASSUME Exclusive, MarkersSurvive
             PROVE  Spec => []AppliedMeansAll
  OBVIOUS
<1>1. Init => TxnInv
  BY InitTxnInv
<1>2. TxnInv /\ [Next]_vars => TxnInv'
  BY NextTxnInv
<1>3. Init => AppliedInv
  BY DEF Init, AppliedInv, GoneThrough
<1>4. TxnInv /\ AppliedInv /\ [Next]_vars => AppliedInv'
  BY NextAppliedInv
<1>5. AppliedInv => AppliedMeansAll
  BY DEF AppliedInv, GoneThrough, AllMarked, AppliedMeansAll, Ended
<1> QED
  BY <1>1, <1>2, <1>3, <1>4, <1>5, PTL DEF Spec

-----------------------------------------------------------------------------
(* But for the runs an error or a crash hit, it is the atomic bundle.      *)

(* The last run is some process's. *)
RunKnown == runs # 0 => \E p \in Procs : txn[p].run = runs

LEMMA CrashedRun ==
  ASSUME TypeInv, NEW p \in Procs, Crash(p)
  PROVE  /\ txn[p].at # "down" /\ txn'[p].at = "down" /\ txn'[p].run = txn[p].run
         /\ \A q \in Procs \ {p} : txn'[q] = txn[q]
         /\ UNCHANGED <<runs, base, faulty>>
<1>1. txn \in [Procs -> Txns]
  BY DEF TypeInv, TxnTypes
<1> QED
  BY <1>1 DEF Crash, End, Txns

LEMMA NextRunKnown ==
  ASSUME TxnInv, RunKnown, [Next]_vars
  PROVE  RunKnown'
<1>1. TypeInv
  BY DEF TxnInv
<1>2. CASE UNCHANGED vars
  BY <1>2 DEF vars, txnVars, RunKnown
<1>3. ASSUME NEW p \in Procs, Run(p)
      PROVE  RunKnown'
  BY <1>1, <1>3 DEF Run, RunKnown, TypeInv, TxnTypes
<1>4. ASSUME NEW p \in Procs, TxnStep(p) \/ TxnFault(p)
      PROVE  RunKnown'
  <2>1. runs' = runs /\ \A q \in Procs : txn'[q].run = txn[q].run
    <3>1. CASE Crash(p)
      BY <1>1, <3>1, CrashedRun
    <3>2. CASE ~Crash(p)
      BY <1>4, <3>2, StepGoes
    <3> QED
      BY <3>1, <3>2
  <2> QED
    BY <2>1 DEF RunKnown
<1> QED
  BY <1>2, <1>3, <1>4 DEF Next

(* What is seen while p runs the bundle, and what once it has ended. *)
LEMMA Seen ==
  ASSUME OneRun, NEW p \in Procs, txn[p].run = runs, runs # 0
  PROVE  /\ Disturbed <=> faulty[p].io \/ txn[p].at = "down"
         /\ p \in Running => Visible = base[p] /\ Outcome = "none"
         /\ p \notin Running /\ Running = {} => Visible = disk /\ Outcome = txn[p].outcome
<1>1. ASSUME p \in Running
      PROVE  Visible = base[p] /\ Outcome = "none"
  <2>1. Running = {p}
    BY <1>1 DEF OneRun, Running
  <2> QED
    BY <2>1 DEF Visible, Outcome
<1>2. Latest = p
  <2>1. \A q \in Procs : txn[q].run = runs => q = p
    BY DEF OneRun
  <2> QED
    BY <2>1 DEF Latest
<1> QED
  BY <1>1, <1>2 DEF Visible, Outcome, Disturbed

LEMMA SeenNext ==
  ASSUME OneRun', NEW p \in Procs, txn'[p].run = runs', runs' # 0
  PROVE  /\ Disturbed' <=> faulty'[p].io \/ txn'[p].at = "down"
         /\ p \in Running' => Visible' = base'[p] /\ Outcome' = "none"
         /\ p \notin Running' /\ Running' = {} => Visible' = disk' /\ Outcome' = txn'[p].outcome
<1>1. ASSUME p \in Running'
      PROVE  Visible' = base'[p] /\ Outcome' = "none"
  <2>1. Running' = {p}
    BY <1>1 DEF OneRun, Running
  <2> QED
    BY <2>1 DEF Visible, Outcome
<1>2. Latest' = p
  <2>1. \A q \in Procs : txn'[q].run = runs' => q = p
    BY DEF OneRun
  <2> QED
    BY <2>1 DEF Latest
<1> QED
  BY <1>1, <1>2 DEF Visible, Outcome, Disturbed

(* A crash: of the process of the last run it disturbs it, of another one  *)
(* nobody sees anything.                                                   *)
LEMMA CrashIsAtomic ==
  ASSUME TxnInv, TxnInv', RunKnown, NEW p \in Procs, Crash(p)
  PROVE  [Promise!Next]_(Promise!vars)
<1>1. /\ TypeInv /\ OneRun /\ OneRun' /\ PatcherTypeOK
  BY DEF TxnInv, TypeInv
<1>2. /\ txn[p].at # "down" /\ txn'[p].at = "down" /\ txn'[p].run = txn[p].run
      /\ \A q \in Procs \ {p} : txn'[q] = txn[q]
      /\ runs' = runs /\ base' = base /\ faulty' = faulty
  BY <1>1, CrashedRun
<1>3. runs # 0
  BY <1>1, <1>2 DEF OneRun, TypeInv, TxnTypes, Txns
<1>4. CASE txn[p].run = runs
  <2>1. Disturbed'
    BY <1>1, <1>2, <1>3, <1>4, SeenNext
  <2> QED
    BY <2>1 DEF Promise!Next, Promise!Disturb
<1>5. CASE txn[p].run # runs
  <2>1. p \notin Running /\ p \notin Running'
    BY <1>1, <1>2, <1>5 DEF OneRun, Running
  <2>2. Running' = Running
    BY <1>2, <2>1 DEF Running
  <2>3. disk' = disk
    <3>1. call[p].at = "idle"
      BY <1>1, <2>1 DEF Running, TypeInv, StageOK
    <3> QED
      BY <1>1, <3>1, CrashIs
  <2>4. PICK q \in Procs : txn[q].run = runs
    BY <1>3 DEF RunKnown
  <2>5. q # p /\ txn'[q] = txn[q]
    BY <1>2, <1>5, <2>4
  <2>6. Disturbed' = Disturbed
    BY <1>1, <1>2, <1>3, <2>4, <2>5, Seen, SeenNext DEF Disturbed
  <2>7. CASE q \in Running
    BY <1>1, <1>2, <1>3, <2>2, <2>4, <2>5, <2>6, <2>7, Seen, SeenNext DEF Promise!vars
  <2>8. CASE q \notin Running
    <3>1. Running = {}
      BY <1>1, <2>4, <2>8, <1>3 DEF OneRun, Running
    <3> QED
      BY <1>1, <1>2, <1>3, <2>2, <2>3, <2>4, <2>5, <2>6, <2>8, <3>1, Seen, SeenNext DEF Promise!vars
  <2> QED
    BY <2>7, <2>8
<1> QED
  BY <1>4, <1>5

(* A step after which the run has met no I/O error found none before it. *)
LEMMA CalmStep ==
  ASSUME TxnTypes, NEW p \in Procs, TxnStep(p) \/ TxnFault(p), ~Crash(p), ~faulty'[p].io
  PROVE  ~faulty[p].io
<1>1. CASE TxnStep(p)
  BY <1>1 DEF TxnStep, GatedOut, Compose, DryRun, Snapshot, Commit, Patching, Collect, Detect, Restore,
              RolledBack, txnVars
<1>2. CASE Faulted(p)
  BY <1>2, FaultedIs
<1>3. CASE \E i : LeaveAid(p, i)
  BY <1>3, <1>2 DEF LeaveAid, TxnTypes
<1> QED
  BY <1>1, <1>2, <1>3 DEF TxnFault, ComposeFails, PatchFault, ReadFails, DetectFails, RestoreFails

(* Every step is a step of the atomic bundle, or none of its business. *)
LEMMA StepIsAtomic ==
  ASSUME Exclusive, MarkersSurvive, TxnInv, TxnInv', AppliedInv, RunKnown, [Next]_vars
  PROVE  [Promise!Next]_(Promise!vars)
<1>0. /\ TypeInv /\ OneRun /\ OneRun' /\ PatcherTypeOK /\ PatcherTypeOK' /\ TxnTypes
  BY DEF TxnInv, TypeInv
<1>1. CASE UNCHANGED vars
  BY <1>1 DEF vars, patcherVars, txnVars, Promise!vars, Visible, Outcome, Running, Disturbed, Latest
<1>2. ASSUME NEW p \in Procs, Run(p)
      PROVE  Promise!Begin
  <2>1. /\ Running = {} /\ runs' = runs + 1 /\ runs \in Nat /\ disk' = disk
        /\ txn'[p].at = "compose" /\ txn'[p].run = runs'
        /\ base'[p] = disk /\ faulty'[p] = Sane
    BY <1>0, <1>2 DEF Run, TxnTypes, patcherVars
  <2>2. p \in Running' /\ runs' # 0 /\ ~faulty'[p].io
    BY <2>1 DEF Running, Sane
  <2>3. Visible' = base'[p] /\ Outcome' = "none" /\ ~Disturbed'
    BY <1>0, <2>1, <2>2, SeenNext
  <2>4. Visible = disk
    BY <2>1 DEF Visible
  <2> QED
    BY <2>1, <2>3, <2>4 DEF Promise!Begin
<1>3. ASSUME NEW p \in Procs, TxnStep(p) \/ TxnFault(p), ~Crash(p)
      PROVE  [Promise!Next]_(Promise!vars)
  <2>2. /\ txn[p].at \notin {"down", "done"} /\ txn[p].run = runs /\ runs' = runs
        /\ txn'[p].run = runs' /\ base' = base /\ txn'[p].at # "down"
        /\ \A q \in Procs \ {p} : txn'[q] = txn[q]
        /\ ~Collect(p) => txn'[p].outcome # "applied"
    BY <1>3, StepGoes
  <2>3. runs # 0 /\ Running = {p} /\ p \in Running
    BY <1>0, <2>2, RunsAlone
  <2>4. /\ Visible = base[p] /\ Outcome = "none"
        /\ Disturbed <=> faulty[p].io
        /\ Disturbed' <=> faulty'[p].io
    BY <1>0, <2>2, <2>3, Seen, SeenNext
  <2>1. CASE faulty'[p].io
    BY <2>1, <2>4 DEF Promise!Next, Promise!Disturb
  <2>5. CASE ~faulty'[p].io /\ txn'[p].at # "done"
    <3>1. p \in Running'
      BY <2>2, <2>5 DEF Running
    <3>2. Visible' = base'[p] /\ Outcome' = "none"
      BY <1>0, <2>2, <2>3, <3>1, SeenNext
    <3>3. ~faulty[p].io
      BY <1>0, <1>3, <2>5, CalmStep
    <3>4. Disturbed' = Disturbed
      BY <2>4, <2>5, <3>3 DEF Disturbed
    <3> QED
      BY <2>2, <2>4, <3>2, <3>4 DEF Promise!vars
  <2>6. CASE ~faulty'[p].io /\ txn'[p].at = "done"
    <3>1. Running' = {}
      <4>1. \A q \in Procs : q # p => txn'[q].at \in {"down", "done"}
        BY <1>0, <2>2, RunsAlone
      <4> QED
        BY <2>6, <4>1 DEF Running
    <3>2. Visible' = disk' /\ Outcome' = txn'[p].outcome
      BY <1>0, <2>2, <2>3, <3>1, SeenNext
    <3>3. txn'[p].outcome \in {"applied", "skipped", "failed"}
      BY <1>0, <2>6 DEF OneRun, TxnInv, TypeInv, TxnTypes, Txns, Outcomes
    <3>6. ~Disturbed /\ ~Disturbed'
      BY <1>0, <1>3, <2>4, <2>6, CalmStep
    <3>4. CASE txn'[p].outcome = "applied"
      <4>1. Collect(p) /\ disk' = disk
        BY <2>2, <3>4, CollectIs, <1>0
      <4>2. /\ AllMarked
            /\ \A f \in Files : Differ(p, f) => \E pt \in ToSet(Bundle) : File(pt) = f
        BY <3>4, <4>1, AppliedIs
      <4>3. \A pt \in ToSet(Bundle) : pt \in Patches
        BY BundleAssumption DEF ToSet
      <4>4. Promise!Complete(disk)
        BY <4>2, <4>3 DEF AllMarked, Present, Promise!Complete
      <4>5. \A f \in Files : (\A pt \in ToSet(Bundle) : File(pt) # f) => disk[f] = base[p][f]
        BY <4>2 DEF Differ
      <4>6. disk = [f \in Files |-> disk[f]]
        BY <1>0 DEF PatcherTypeOK
      <4>7. Promise!Succeed
        BY <2>4, <3>2, <3>4, <3>6, <4>1, <4>3, <4>4, <4>5, <4>6 DEF Promise!Succeed
      <4> QED
        BY <4>7 DEF Promise!Next
    <3>5. CASE txn'[p].outcome \in {"skipped", "failed"}
      <4>2. disk' = base'[p]
        BY <2>2, <2>6, <3>5 DEF TxnInv, RunOK, EndOK
      <4>3. Promise!Refuse
        BY <2>2, <2>4, <3>2, <3>5, <3>6, <4>2 DEF Promise!Refuse
      <4> QED
        BY <4>3 DEF Promise!Next
    <3> QED
      BY <3>3, <3>4, <3>5
  <2> QED
    BY <2>1, <2>5, <2>6
<1> QED
  BY <1>0, <1>1, <1>2, <1>3, CrashIsAtomic DEF Next, Promise!Next

(* "either all succeed or none" (multi_file.py:5-6), of the patches that   *)
(* have a target: with one process at a time, a run that no I/O error hits *)
(* and that does not die changes all of their files or none, at once for   *)
(* who looks between runs, whatever the runs before it left behind.        *)
THEOREM BundleIsAtomic == Exclusive /\ MarkersSurvive => (Spec => IsAtomic)
<1> SUFFICES ASSUME Exclusive, MarkersSurvive
             PROVE  Spec => IsAtomic
  OBVIOUS
<1>1. Init => TxnInv
  BY InitTxnInv
<1>2. TxnInv /\ [Next]_vars => TxnInv'
  BY NextTxnInv
<1>3. Init => AppliedInv
  BY DEF Init, AppliedInv, GoneThrough
<1>4. TxnInv /\ AppliedInv /\ [Next]_vars => AppliedInv'
  BY NextAppliedInv
<1>5. Init => RunKnown
  BY DEF Init, RunKnown
<1>6. TxnInv /\ RunKnown /\ [Next]_vars => RunKnown'
  BY NextRunKnown
<1>7. Init => Promise!Init
  <2> SUFFICES ASSUME Init
               PROVE  Promise!Init
    OBVIOUS
  <2>1. Running = {} /\ runs = 0 /\ PatcherTypeOK
    BY InitTxnInv DEF Init, Running, TxnInv, TypeInv
  <2>2. disk = [f \in Files |-> disk[f]]
    BY <2>1 DEF PatcherTypeOK
  <2> QED
    BY <2>1, <2>2 DEF Promise!Init, Visible, Outcome, Disturbed
<1>8. TxnInv /\ TxnInv' /\ AppliedInv /\ RunKnown /\ [Next]_vars
        => [Promise!Next]_(Promise!vars)
  BY StepIsAtomic
<1> QED
  BY <1>1, <1>2, <1>3, <1>4, <1>5, <1>6, <1>7, <1>8, PTL DEF Spec, IsAtomic, Promise!Spec
=============================================================================
