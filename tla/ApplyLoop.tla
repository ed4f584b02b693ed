----------------------------- MODULE ApplyLoop -----------------------------
(***************************************************************************)
(* The boot-time apply loop, sndr/apply/orchestrator.py run(apply=True):   *)
(* each process that loads the plugin applies every enabled patch in order *)
(* through TextPatcher.apply(), then persists the marker cache once.       *)
(*                                                                         *)
(* Around it, what the program does not control: a process dies anywhere,  *)
(* an operator copies a pristine file back, a wheel of another version is  *)
(* installed.  settled, whole and torn are history variables.              *)
(***************************************************************************)
EXTENDS TextPatcher

CONSTANTS
  Order,        \* the enabled patches, in apply order
  ViaSpecs,     \* processes with SNDR_APPLY_VIA_SPECS set
  Exclusive,    \* no two processes are ever in the loop at once
  MaxBoots,     \* bound: runs of the loop
  MaxOps        \* bound: I/O errors, crashes, restores and installs

ASSUME OrderAssumption == Order \in Seq(Patches)
ASSUME BoundAssumption == MaxBoots \in Nat /\ MaxOps \in Nat

VARIABLES
  phase,     \* of each process: down, boot (in the loop) or up
  next,      \* index in Order of the patch at hand
  report,    \* stats.results: the outcome of each patch in this run
  boots, ops,
  settled,   \* "boot": this run was undisturbed so far; "yes": one ended so,
             \* and nothing was written since
  torn       \* files a write was cut short in

loopVars == <<phase, next, report, boots, ops, settled, torn>>
vars == <<patcherVars, loopVars>>

NoReport == [pt \in Patches |-> "none"]

Init ==
  /\ PatcherInit
  /\ phase = [p \in Procs |-> "down"]
  /\ next = [p \in Procs |-> 1]
  /\ report = [p \in Procs |-> NoReport]
  /\ boots = 0 /\ ops = 0
  /\ settled = "no"
  /\ torn = {}

Booting == {p \in Procs : phase[p] = "boot"}

-----------------------------------------------------------------------------
(* A process loads the plugin, or has it triggered again while up. *)
Start(p) ==
  /\ phase[p] # "boot" /\ boots < MaxBoots
  /\ Exclusive => Booting = {}
  /\ phase' = [phase EXCEPT ![p] = "boot"]
  /\ next' = [next EXCEPT ![p] = 1]
  /\ report' = [report EXCEPT ![p] = NoReport]
  /\ boots' = boots + 1
  /\ settled' = CASE Booting # {} -> "no"
                  [] Booting = {} /\ settled = "yes" -> "yes"
                  [] Booting = {} /\ settled # "yes" -> "boot"
  /\ UNCHANGED <<patcherVars, ops, torn>>

(* patch_fn() of the next patch. *)
ApplyNext(p) ==
  /\ phase[p] = "boot" /\ next[p] <= Len(Order)
  /\ Begin(p, Order[next[p]])
  /\ UNCHANGED loopVars

(* Layers 0 to 7 of the patch at hand. *)
Patching(p) ==
  /\ PatcherStep(p)
  /\ settled' = IF settled = "yes" /\ call[p].at = "open" THEN "boot" ELSE settled
  /\ UNCHANGED <<phase, next, report, boots, ops, torn>>

Fault(p) ==
  /\ ops < MaxOps
  /\ PatcherFault(p)
  /\ torn' = IF call[p].at = "write" THEN torn \cup {File(call[p].patch)} ELSE torn
  /\ settled' = "no"
  /\ ops' = ops + 1
  /\ UNCHANGED <<phase, next, report, boots>>

Collect_DropsSkipped(p) ==
  LET pt == call[p].patch
  IN  /\ phase[p] = "boot" /\ call[p].at = "done"
      /\ report' = IF call[p].result = "SKIPPED" THEN report
                   ELSE [report EXCEPT ![p][pt] = call[p].result]
      /\ next' = [next EXCEPT ![p] = @ + 1]
      /\ call' = [call EXCEPT ![p] = Idle(pt)]
      /\ text' = [text EXCEPT ![p] = <<>>]
      /\ UNCHANGED <<disk, stamp, clock, pin, cacheFile, cache>>
      /\ UNCHANGED <<phase, boots, ops, settled, torn>>

(* stats.results.append(result) *)
Collect(p) ==
  LET pt == call[p].patch
  IN  /\ phase[p] = "boot" /\ call[p].at = "done"
      /\ report' = [report EXCEPT ![p][pt] = call[p].result]
      /\ next' = [next EXCEPT ![p] = @ + 1]
      /\ call' = [call EXCEPT ![p] = Idle(pt)]
      /\ text' = [text EXCEPT ![p] = <<>>]
      /\ UNCHANGED <<disk, stamp, clock, pin, cacheFile, cache>>
      /\ UNCHANGED <<phase, boots, ops, settled, torn>>

(* The end of run(): flush_file_cache, except that the spec-driven loop     *)
(* returns before it.  _save_cache_atomic swallows its errors; writers at   *)
(* the same time share one temporary file and may leave an unreadable one.  *)
Flush(p) ==
  LET t == EnsureLoaded(p)
  IN  /\ cache' = [cache EXCEPT ![p] = t]
      /\ \/ cacheFile' = [pin |-> pin, files |-> t.files]
         \/ IoFaults /\ UNCHANGED cacheFile
         \/ Booting # {p} /\ cacheFile' = [pin |-> pin, files |-> EmptyTable]

Finish(p) ==
  /\ phase[p] = "boot" /\ call[p].at = "idle" /\ next[p] > Len(Order)
  /\ IF p \in ViaSpecs THEN UNCHANGED <<cache, cacheFile>> ELSE Flush(p)
  /\ phase' = [phase EXCEPT ![p] = "up"]
  /\ settled' = IF settled = "boot" THEN "yes" ELSE settled
  /\ UNCHANGED <<disk, stamp, clock, pin, call, text>>
  /\ UNCHANGED <<next, report, boots, ops, torn>>

-----------------------------------------------------------------------------
(* A process dies; a write in progress gets n of its tokens to the file. *)
Crash(p) ==
  /\ phase[p] # "down" /\ ops < MaxOps
  /\ phase' = [phase EXCEPT ![p] = "down"]
  /\ call' = [call EXCEPT ![p] = Idle(call[p].patch)]
  /\ cache' = [cache EXCEPT ![p] = Unloaded]
  /\ text' = [text EXCEPT ![p] = <<>>]
  /\ next' = [next EXCEPT ![p] = 1]
  /\ report' = [report EXCEPT ![p] = NoReport]
  /\ IF call[p].at = "write"
     THEN /\ \E n \in 0 .. Len(text[p]) : PutWritten(p, n)
          /\ torn' = torn \cup {File(call[p].patch)}
     ELSE UNCHANGED <<disk, stamp, clock, torn>>
  /\ settled' = IF settled = "boot" THEN "no" ELSE settled
  /\ ops' = ops + 1
  /\ UNCHANGED <<pin, cacheFile, boots>>

(* An operator copies the wheel's file back, keeping its mtime or not. *)
Restore(f) ==
  /\ Booting = {} /\ ops < MaxOps /\ disk[f] # NoFile
  /\ disk' = [disk EXCEPT ![f] = Wheel[pin][f]]
  /\ \/ stamp' = [stamp EXCEPT ![f] = WheelStamp] /\ UNCHANGED clock
     \/ stamp' = [stamp EXCEPT ![f] = clock + 1] /\ clock' = clock + 1
  /\ torn' = torn \ {f}
  /\ settled' = "no"
  /\ ops' = ops + 1
  /\ UNCHANGED <<pin, cacheFile, cache, call, text, phase, next, report, boots>>

(* A container of another (or the same) version starts from its image; the *)
(* cache directory is a volume that outlives it.                           *)
Install(v) ==
  /\ \A p \in Procs : phase[p] = "down"
  /\ ops < MaxOps
  /\ pin' = v
  /\ disk' = Wheel[v]
  /\ stamp' = [f \in Files |-> WheelStamp]
  /\ torn' = {}
  /\ settled' = "no"
  /\ ops' = ops + 1
  /\ UNCHANGED <<clock, cacheFile, cache, call, text, phase, next, report, boots>>

ProcStep(p) ==
  \/ ApplyNext(p) \/ Patching(p) \/ Fault(p) \/ Collect(p) \/ Finish(p)

Next ==
  \/ \E p \in Procs : Start(p) \/ ProcStep(p) \/ Crash(p)
  \/ \E f \in Files : Restore(f)
  \/ \E v \in Pins : Install(v)

Spec == Init /\ [][Next]_vars

(* A process in the loop keeps running: the loop is straight-line code with *)
(* no wait in it.  Nothing makes a process start, die or be restarted.      *)
FairSpec == Spec /\ \A p \in Procs : WF_vars(ProcStep(p))

-----------------------------------------------------------------------------
TypeOK ==
  /\ PatcherTypeOK
  /\ phase \in [Procs -> {"down", "boot", "up"}]
  /\ next \in [Procs -> Nat \ {0}]
  /\ report \in [Procs -> [Patches -> Results]]
  /\ boots \in Nat /\ ops \in Nat
  /\ settled \in {"no", "boot", "yes"}
  /\ torn \subseteq Files

(* Marked, or p is between the truncation and the end of its own write. *)
Standing(p, f, m) ==
  Marked(disk[f], m) \/ (call[p].at = "write" /\ File(call[p].patch) = f)

(* What the boot summary says: during the run, a patch reported APPLIED or *)
(* IDEMPOTENT is in its file, unless a later write to that file failed.    *)
ReportsHold ==
  \A p \in Booting : \A pt \in Patches :
    report[p][pt] \in {"APPLIED", "IDEMPOTENT"} /\ File(pt) \notin torn
      => Standing(p, File(pt), Marker(pt))

(* What the anchor scan makes of f, whose content is c, for the patch pt;  *)
(* a patch of another file and one it skips change nothing.                *)
PutOn(f, c, pt) ==
  LET scan == Layer5(Patch[pt], c)
  IN  IF File(pt) = f /\ Precheck(Patch[pt], c) = "ok" /\ scan.verdict = "ok"
      THEN Stamped(Marker(pt), scan.text) ELSE c

(* And for the patches of s, one after another. *)
PatchedBy(s, f) ==
  LET Put(c, pt) == PutOn(f, c, pt) IN FoldLeft(Put, Wheel[pin][f], s)

Selections ==
  UNION {{s \in [1 .. n -> ToSet(Order)] : IsInjective(s)} : n \in 0 .. Len(Order)}

WholeTexts(f) ==
  IF Wheel[pin][f] = NoFile THEN {NoFile} ELSE {PatchedBy(s, f) : s \in Selections}

Quiet(f) ==
  \A p \in Procs : ~(call[p].at = "write" /\ File(call[p].patch) = f)

(* Whatever boots, crashes, restores and installs did, by whatever path    *)
(* (cache, manifest, scan): a file no write was cut short in is the        *)
(* wheel's with some of the patches applied by the scan, each once.  The   *)
(* order is the loop's unless an error left out a patch for a later boot.  *)
FilesWhole == \A f \in Files \ torn : Quiet(f) => disk[f] \in WholeTexts(f)

(* plugin.py:20 "Idempotent - vLLM may re-trigger registration": after one *)
(* undisturbed run of the loop, running it again writes to no file.  True  *)
(* of an order in which no patch comes before one it builds on.            *)
RebootIsNoop ==
  [][settled = "yes" /\ ops' = ops => UNCHANGED <<disk, stamp>>]_vars

(* The patch p is about to write was overtaken: a patch after it in the     *)
(* order has its marker in the same file.                                  *)
CatchesUp(p) ==
  /\ call[p].at = "open"
  /\ \E i, j \in DOMAIN Order :
       /\ i < j /\ call[p].patch = Order[i] /\ File(Order[j]) = File(Order[i])
       /\ Marked(disk[File(Order[i])], Marker(Order[j]))

(* Whatever the order ("6 known order violations", orchestrator.py:715-719, *)
(* with the topological sort off by default): what a rerun still writes is *)
(* a patch that a later one of its file overtook, and nothing else.        *)
RerunsOnlyCatchUp ==
  [][settled = "yes" /\ ops' = ops /\ ~UNCHANGED <<disk, stamp>>
       => \E p \in Booting : CatchesUp(p)]_vars

(* Every run of the loop ends, with every patch of the order reported on.  *)
BootEnds ==
  \A p \in Procs :
    phase[p] = "boot" ~>
      \/ phase[p] = "down"
      \/ phase[p] = "up" /\ \A pt \in ToSet(Order) : report[p][pt] # "none"
=============================================================================
