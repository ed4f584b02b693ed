----------------------------- MODULE BundleTxn -----------------------------
(***************************************************************************)
(* MultiFilePatchTransaction.apply_or_skip() (sndr/kernel/multi_file.py),  *)
(* run by run_bundle() (sndr/bundles/_common.py) at every boot: compose    *)
(* the patchers whose targets exist, dry-run them, snapshot every target   *)
(* in memory, apply them in order, and on the first one that does not go   *)
(* through put the snapshots back.                                         *)
(*                                                                         *)
(* Each file is looked at, snapshotted, patched, compared and restored in  *)
(* a step of its own.  base, spoilt and faulty are history variables.      *)
(***************************************************************************)
EXTENDS TextPatcher, SeqFilter

CONSTANTS
  Bundle,      \* the patches of the bundle, in the order of its factories
  Exclusive,   \* no two processes run the bundle at once
  MaxRuns,     \* bound: runs of the bundle
  MaxFaults    \* bound: I/O errors and crashes

ASSUME BundleAssumption == Bundle \in Seq(Patches) \ {<<>>}
ASSUME BoundAssumption == MaxRuns \in Nat /\ MaxFaults \in Nat

VARIABLES
  txn,       \* of each process: where it is, at which patcher, the outcome
  patchers,  \* the patchers of the run: those whose target exists
  snap,      \* snapshots, one per patcher so far
  changed,   \* applied_indices: patchers whose file is to be restored
  aid,       \* content of each file's .genesis_rollback, or NoFile
  runs, faults,
  base,      \* the files when the run began
  spoilt,    \* the file of the patcher that failed in this run, if one did
  faulty     \* an I/O error hit this run; an aid could not be written

txnVars == <<txn, patchers, snap, changed, aid, runs, faults, base, spoilt, faulty>>
vars == <<patcherVars, txnVars>>

Stages   == {"down", "compose", "dryrun", "snapshot", "commit", "detect", "restore", "done"}
Outcomes == {"none", "applied", "skipped", "failed"}

Sane == [io |-> FALSE, aid |-> FALSE]

Init ==
  /\ PatcherInit
  /\ txn = [p \in Procs |-> [at |-> "down", i |-> 1, last |-> 0,
                          outcome |-> "none", run |-> 0]]
  /\ patchers = [p \in Procs |-> <<>>]
  /\ snap = [p \in Procs |-> <<>>]
  /\ changed = [p \in Procs |-> {}]
  /\ aid = [f \in Files |-> NoFile]
  /\ runs = 0 /\ faults = 0
  /\ base = [p \in Procs |-> disk]
  /\ spoilt = [p \in Procs |-> {}]
  /\ faulty = [p \in Procs |-> Sane]

Running == {p \in Procs : txn[p].at \notin {"down", "done"}}
Target(p, i) == File(patchers[p][i])

To(p, stage)     == [txn EXCEPT ![p].at = stage, ![p].i = 1]
Step_Back(p)     == [txn EXCEPT ![p].i = @ - 1]
Step(p)          == [txn EXCEPT ![p].i = @ + 1]
End(p, outcome)  == [txn EXCEPT ![p].at = "done", ![p].outcome = outcome]

-----------------------------------------------------------------------------
(* run_bundle() is called. *)
Run(p) ==
  /\ txn[p].at \in {"down", "done"} /\ runs < MaxRuns
  /\ Exclusive => Running = {}
  /\ txn' = [txn EXCEPT ![p] = [at |-> "compose", i |-> 1, last |-> 0,
                                 outcome |-> "none", run |-> runs + 1]]
  /\ patchers' = [patchers EXCEPT ![p] = <<>>]
  /\ snap' = [snap EXCEPT ![p] = <<>>]
  /\ changed' = [changed EXCEPT ![p] = {}]
  /\ base' = [base EXCEPT ![p] = disk]
  /\ spoilt' = [spoilt EXCEPT ![p] = {}]
  /\ faulty' = [faulty EXCEPT ![p] = Sane]
  /\ runs' = runs + 1
  /\ UNCHANGED <<patcherVars, aid, faults>>

(* The bundle's flag is off, or its tier is not installed. *)
GatedOut(p) ==
  /\ txn[p].at = "compose"
  /\ txn' = End(p, "skipped")
  /\ UNCHANGED <<patcherVars, patchers, snap, changed, aid, runs, faults, base, spoilt, faulty>>

(* A factory returns None for a target that does not exist: its patch is   *)
(* dropped, the siblings go on.                                            *)
Compose(p) ==
  LET found == Kept(Bundle, {pt \in Patches : disk[File(pt)] # NoFile})
  IN  /\ txn[p].at = "compose"
      /\ patchers' = [patchers EXCEPT ![p] = found]
      /\ txn' = IF found = <<>> THEN End(p, "skipped") ELSE To(p, "dryrun")
      /\ UNCHANGED <<patcherVars, snap, changed, aid, runs, faults, base, spoilt, faulty>>

(* Phase 1: one target after another. *)
DryRun(p) ==
  LET i == txn[p].i
      c == disk[Target(p, i)]
  IN  /\ txn[p].at = "dryrun"
      /\ txn' = CASE c = NoFile \/ ~DryRunOk(Patch[patchers[p][i]], c) -> End(p, "skipped")
                  [] OTHER -> IF i = Len(patchers[p]) THEN To(p, "snapshot") ELSE Step(p)
      /\ UNCHANGED <<patcherVars, patchers, snap, changed, aid, runs, faults, base, spoilt, faulty>>

(* Phase 2a. *)
Snapshot(p) ==
  LET i == txn[p].i
  IN  /\ txn[p].at = "snapshot"
      /\ snap' = [snap EXCEPT ![p] = Append(@, disk[Target(p, i)])]
      /\ txn' = IF i = Len(patchers[p]) THEN To(p, "commit") ELSE Step(p)
      /\ UNCHANGED <<patcherVars, patchers, changed, aid, runs, faults, base, spoilt, faulty>>

(* Phase 2b: patcher.apply(). *)
Commit(p) ==
  /\ txn[p].at = "commit"
  /\ Begin(p, patchers[p][txn[p].i])
  /\ UNCHANGED txnVars

Patching(p) == PatcherStep(p) /\ UNCHANGED txnVars

Collect(p) ==
  LET i == txn[p].i
      r == call[p].result
  IN  /\ txn[p].at = "commit" /\ call[p].at = "done"
      /\ call' = [call EXCEPT ![p] = Idle(patchers[p][i])]
      /\ text' = [text EXCEPT ![p] = <<>>]
      /\ spoilt' = [spoilt EXCEPT ![p] = IF r = "FAILED" THEN {Target(p, i)} ELSE {}]
      /\ txn' = CASE r \in {"APPLIED", "IDEMPOTENT"} ->
                       IF i = Len(patchers[p]) THEN End(p, "applied") ELSE Step(p)
                  [] r \in {"SKIPPED", "FAILED"} ->
                       [To(p, "detect") EXCEPT ![p].last = i - 1]
      /\ UNCHANGED <<disk, stamp, clock, pin, cacheFile, cache>>
      /\ UNCHANGED <<patchers, snap, changed, aid, runs, faults, base, faulty>>

(* _rollback_and_fail: the committed files that differ from their snapshot. *)
Detect(p) ==
  LET i == txn[p].i
  IN  /\ txn[p].at = "detect"
      /\ IF i <= txn[p].last
         THEN /\ changed' = [changed EXCEPT ![p] =
                               IF disk[Target(p, i)] # snap[p][i] THEN @ \cup {i} ELSE @]
              /\ txn' = Step(p)
         ELSE txn' = To(p, "restore") /\ UNCHANGED changed
      /\ UNCHANGED <<patcherVars, patchers, snap, aid, runs, faults, base, spoilt, faulty>>

Replace_NoRename(f, c) == UNCHANGED <<disk, stamp, clock, call>>
Replace_KeepsStamp(f, c) ==
  disk' = [disk EXCEPT ![f] = c] /\ UNCHANGED <<stamp, clock, call>>

(* A temporary file renamed over f: who is writing f writes to a ghost. *)
Replace(f, c) ==
  /\ PutFile(f, c)
  /\ call' = [q \in Procs |->
                IF call[q].at = "write" /\ File(call[q].patch) = f
                THEN [call[q] EXCEPT !.orphan = TRUE] ELSE call[q]]

Restore(p) ==
  LET i == Min(changed[p])
  IN  /\ txn[p].at = "restore" /\ changed[p] # {}
      /\ Replace(Target(p, i), snap[p][i])
      /\ changed' = [changed EXCEPT ![p] = @ \ {i}]
      /\ UNCHANGED <<pin, cacheFile, cache, text>>
      /\ UNCHANGED <<txn, patchers, snap, aid, runs, faults, base, spoilt, faulty>>

RolledBack(p) ==
  /\ txn[p].at = "restore" /\ changed[p] = {}
  /\ txn' = End(p, "failed")
  /\ UNCHANGED <<patcherVars, patchers, snap, changed, aid, runs, faults, base, spoilt, faulty>>

-----------------------------------------------------------------------------
(* I/O errors.  Each hits one system call. *)
Faulted(p) ==
  /\ IoFaults /\ faults < MaxFaults
  /\ faults' = faults + 1
  /\ faulty' = [faulty EXCEPT ![p].io = TRUE]

PatchFault(p) ==
  /\ Faulted(p)
  /\ PatcherFault(p)
  /\ UNCHANGED <<txn, patchers, snap, changed, aid, runs, base, spoilt>>

(* A factory raises. *)
ComposeFails(p) ==
  /\ Faulted(p)
  /\ txn[p].at = "compose"
  /\ txn' = End(p, "failed")
  /\ UNCHANGED <<patcherVars, patchers, snap, changed, aid, runs, base, spoilt>>

ReadFails_AnyTime(p) ==
  /\ Faulted(p)
  /\ txn[p].at \in {"dryrun", "snapshot", "commit"}
  /\ txn' = End(p, "skipped")
  /\ UNCHANGED <<patcherVars, patchers, snap, changed, aid, runs, base, spoilt>>

(* A target that cannot be read before anything was written. *)
ReadFails(p) ==
  /\ Faulted(p)
  /\ txn[p].at \in {"dryrun", "snapshot"}
  /\ txn' = End(p, "skipped")
  /\ UNCHANGED <<patcherVars, patchers, snap, changed, aid, runs, base, spoilt>>

LeaveAid_Current(p, i) ==
  /\ aid' = [aid EXCEPT ![Target(p, i)] = disk[Target(p, i)]]
  /\ Faulted(p)

(* _write_rollback_aid, whose own failure is swallowed. *)
LeaveAid(p, i) ==
  \/ /\ aid' = [aid EXCEPT ![Target(p, i)] = snap[p][i]]
     /\ Faulted(p)
  \/ /\ faults + 1 < MaxFaults /\ IoFaults
     /\ faults' = faults + 2
     /\ faulty' = [faulty EXCEPT ![p] = [io |-> TRUE, aid |-> TRUE]]
     /\ UNCHANGED aid

DetectFails(p) ==
  /\ txn[p].at = "detect" /\ txn[p].i <= txn[p].last
  /\ LeaveAid(p, txn[p].i)
  /\ txn' = Step(p)
  /\ UNCHANGED <<patcherVars, patchers, snap, changed, runs, base, spoilt>>

RestoreFails(p) ==
  /\ txn[p].at = "restore" /\ changed[p] # {}
  /\ LeaveAid(p, Min(changed[p]))
  /\ changed' = [changed EXCEPT ![p] = @ \ {Min(@)}]
  /\ UNCHANGED <<patcherVars, txn, patchers, snap, runs, base, spoilt>>

(* The process dies: snapshots, cache and the rest of a write are lost. *)
Crash(p) ==
  /\ txn[p].at # "down" /\ faults < MaxFaults
  /\ faults' = faults + 1
  /\ txn' = [End(p, "none") EXCEPT ![p].at = "down"]
  /\ call' = [call EXCEPT ![p] = Idle(call[p].patch)]
  /\ cache' = [cache EXCEPT ![p] = Unloaded]
  /\ text' = [text EXCEPT ![p] = <<>>]
  /\ IF call[p].at = "write"
     THEN \E n \in 0 .. Len(text[p]) : PutWritten(p, n)
     ELSE UNCHANGED <<disk, stamp, clock>>
  /\ patchers' = [patchers EXCEPT ![p] = <<>>]
  /\ snap' = [snap EXCEPT ![p] = <<>>]
  /\ changed' = [changed EXCEPT ![p] = {}]
  /\ spoilt' = [spoilt EXCEPT ![p] = {}]
  /\ UNCHANGED <<pin, cacheFile, aid, runs, base, faulty>>

TxnStep(p) ==
  \/ GatedOut(p) \/ Compose(p)
  \/ DryRun(p) \/ Snapshot(p) \/ Commit(p) \/ Patching(p) \/ Collect(p)
  \/ Detect(p) \/ Restore(p) \/ RolledBack(p)

TxnFault(p) ==
  \/ ComposeFails(p) \/ PatchFault(p) \/ ReadFails(p) \/ DetectFails(p) \/ RestoreFails(p) \/ Crash(p)

Next == \E p \in Procs : Run(p) \/ TxnStep(p) \/ TxnFault(p)

Spec == Init /\ [][Next]_vars

-----------------------------------------------------------------------------
TypeOK ==
  /\ PatcherTypeOK
  /\ txn \in [Procs -> [at : Stages, i : 1 .. Len(Bundle) + 1, last : 0 .. Len(Bundle),
                        outcome : Outcomes, run : Nat]]
  /\ patchers \in [Procs -> Seq(Patches)]
  /\ \A p \in Procs : Len(patchers[p]) <= Len(Bundle)
  /\ snap \in [Procs -> Seq(Texts)]
  /\ changed \in [Procs -> SUBSET (1 .. Len(Bundle))]
  /\ spoilt \in [Procs -> SUBSET Files]
  /\ aid \in [Files -> Texts \cup {NoFile}]
  /\ base \in [Procs -> [Files -> Texts \cup {NoFile}]]
  /\ faulty \in [Procs -> [io : BOOLEAN, aid : BOOLEAN]]
  /\ runs \in Nat /\ faults \in Nat

(* The patches of the bundle that have a target. *)
Present == {pt \in ToSet(Bundle) : disk[File(pt)] # NoFile}

(* p's run is the last one, and it ended with this outcome. *)
Ended(p, outcome) == Running = {} /\ txn[p].run = runs /\ txn[p].outcome = outcome

(* A bundle reported "applied" has in place the marker of every patch      *)
(* whose target exists, and there is one: only the patches whose factory   *)
(* returned None are left out (_common.py:90-99).                          *)
AppliedMeansAll ==
  \A p \in Procs : Ended(p, "applied") =>
    Present # {} /\ \A pt \in Present : Marked(disk[File(pt)], Marker(pt))

(* A run that was skipped changed no file: the dry run and the snapshots   *)
(* come before any write (multi_file.py:136).                              *)
SkippedUntouched == \A p \in Procs : Ended(p, "skipped") => disk = base[p]

(* "all previously-modified files are restored byte-for-byte"              *)
(* (multi_file.py:115-118): after a failed run that met no I/O error every *)
(* file is what it was before the run.                                     *)
RollbackRestores ==
  \A p \in Procs : Ended(p, "failed") /\ ~faulty[p].io => disk = base[p]

(* The original of f is in the file, or next to it in .genesis_rollback. *)
Safe(p, f) == base[p][f] \in {disk[f], aid[f]}

(* The file only the patcher that failed has written: a patcher that fails *)
(* is not among those committed, whose files are put back.                 *)
GivenUp(p, f) == f \in spoilt[p] /\ \A i \in 1 .. txn[p].last : Target(p, i) # f

(* When a restore fails, the original is in the .genesis_rollback next to  *)
(* the file, unless writing that failed too (multi_file.py:120-122): a     *)
(* rollback loses the original of no file but the one given up.            *)
OriginalNotLost ==
  \A p \in Procs, f \in Files :
    Ended(p, "failed") /\ ~faulty[p].aid => Safe(p, f) \/ GivenUp(p, f)

-----------------------------------------------------------------------------
(* "so the operator never has to reconstruct the original file by hand"    *)
(* (multi_file.py:185-187).  Violated: the file given up was truncated     *)
(* when its write failed, and its snapshot is dropped with the run.        *)
OriginalNeverLost ==
  \A p \in Procs, f \in Files : Ended(p, "failed") /\ ~faulty[p].aid => Safe(p, f)

-----------------------------------------------------------------------------
(* Seen from outside a run, the files are those before it until it ends.   *)
Latest  == CHOOSE p \in Procs : txn[p].run = runs
Visible == IF Running = {} THEN disk ELSE base[CHOOSE p \in Running : TRUE]
Outcome == IF Running # {} \/ runs = 0 THEN "none" ELSE txn[Latest].outcome

(* An I/O error hit the last run, or it was cut short by a crash. *)
Disturbed == runs # 0 /\ (faulty[Latest].io \/ txn[Latest].at = "down")

Promise == INSTANCE AtomicBundle WITH
  Patches   <- ToSet(Bundle),
  Missing   <- NoFile,
  FileOf    <- [pt \in Patches |-> File(pt)],
  MarkerOf  <- [pt \in Patches |-> Marker(pt)],
  Holds     <- Marked,
  content   <- Visible,
  outcome   <- Outcome,
  disturbed <- Disturbed

(* A bundle run by one process at a time is the atomic bundle, rollbacks   *)
(* and dropped patches included: only a run that an I/O error hit or that  *)
(* died may leave part of it, and the next run is atomic again.            *)
IsAtomic == Promise!Spec
=============================================================================
