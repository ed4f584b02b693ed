-------------------------- MODULE ApplyLoop_proofs --------------------------
(***************************************************************************)
(* Proofs about ApplyLoop, for any processes, files, patches and versions: *)
(* the types; and, as long as no two processes are in the loop at once,    *)
(* that the marker cache never vouches for a patch its file does not have, *)
(* that no text is written over a content it was not made of, that what a  *)
(* run reports is in the files, that a file no write was cut short in is   *)
(* the wheel's with some of the patches applied by the scan, and that      *)
(* running the loop again after an undisturbed run writes nothing.         *)
(*                                                                         *)
(* What a call of TextPatcher.apply() does is in TextPatcher_proofs; here  *)
(* is who may be in a call, and what the other actions do to the files.    *)
(***************************************************************************)
EXTENDS ApplyLoop, TextPatcher_proofs

(* Only a process in the loop is in a call, and one that is down has no    *)
(* cache in memory.                                                        *)
Lodged ==
  \A p \in Procs : /\ phase[p] # "boot" => call[p].at = "idle"
                   /\ phase[p] = "down" => ~cache[p].loaded

LoopTypes ==
  /\ phase \in [Procs -> {"down", "boot", "up"}]
  /\ next \in [Procs -> Nat \ {0}]
  /\ report \in [Procs -> [Patches -> Results]]
  /\ boots \in Nat /\ ops \in Nat
  /\ settled \in {"no", "boot", "yes"}
  /\ torn \subseteq Files

TypeInv == PatcherTypeOK /\ LoopTypes /\ Lodged

LEMMA TypeParts == TypeOK <=> PatcherTypeOK /\ LoopTypes
BY DEF TypeOK, LoopTypes

(* A step of p that leaves the other processes alone. *)
LEMMA StaysLodged ==
  ASSUME TypeInv, NEW p \in Procs, LoopTypes',
         \A q \in Procs \ {p} : phase'[q] = phase[q] /\ call'[q] = call[q] /\ cache'[q] = cache[q],
         phase'[p] # "boot" => call'[p].at = "idle",
         phase'[p] = "down" => ~cache'[p].loaded
  PROVE  Lodged'
BY DEF Lodged, TypeInv

(* What the file system holds after a crash. *)
LEMMA CrashIs ==
  ASSUME ConfigAssumption, PatcherTypeOK, NEW p \in Procs, Crash(p)
  PROVE  /\ \E c : Wrote(File(call[p].patch), c)
         /\ call' = [call EXCEPT ![p] = Idle(call[p].patch)]
         /\ text' = [text EXCEPT ![p] = <<>>]
         /\ cache' = [cache EXCEPT ![p] = Unloaded]
         /\ phase' = [phase EXCEPT ![p] = "down"]
         /\ UNCHANGED <<pin, cacheFile>>
<1>1. \E c : Wrote(File(call[p].patch), c)
  <2>1. CASE call[p].at = "write"
    <3>1. PICK n \in 0 .. Len(text[p]) : PutWritten(p, n)
      BY <2>1 DEF Crash
    <3> QED
      BY <2>1, <3>1, PutWrittenIs
  <2>2. CASE call[p].at # "write"
    BY <2>2 DEF Crash, Wrote
  <2> QED
    BY <2>1, <2>2
<1> QED
  BY <1>1 DEF Crash

-----------------------------------------------------------------------------
(* Type correctness.                                                       *)

LEMMA InitTypeInv ==
  ASSUME ConfigAssumption, TextAssumption, Init
  PROVE  TypeInv
<1>1. PatcherTypeOK /\ \A p \in Procs : call[p].at = "idle" /\ ~cache[p].loaded
  BY InitPatcherType DEF Init
<1>2. LoopTypes
  BY DEF Init, LoopTypes, NoReport, Results
<1> QED
  BY <1>1, <1>2 DEF TypeInv, Lodged

LEMMA NextTypeInv ==
  ASSUME ConfigAssumption, TextAssumption, OrderAssumption, TypeInv, [Next]_vars
  PROVE  TypeInv'
<1>0. PatcherTypeOK /\ LoopTypes /\ Lodged
  BY DEF TypeInv
<1>1. ASSUME NEW p \in Procs, Start(p)
      PROVE  TypeInv'
  <2>1. PatcherTypeOK'
    BY <1>0, <1>1 DEF Start, patcherVars, PatcherTypeOK
  <2>2. LoopTypes'
    BY <1>0, <1>1 DEF Start, LoopTypes, NoReport, Results
  <2>3. Lodged'
    <3>1. /\ phase' = [phase EXCEPT ![p] = "boot"] /\ UNCHANGED <<call, cache>>
      BY <1>1 DEF Start, patcherVars
    <3> QED
      BY <1>0, <2>2, <3>1, StaysLodged DEF LoopTypes
  <2> QED
    BY <2>1, <2>2, <2>3 DEF TypeInv
<1>2. ASSUME NEW p \in Procs, ApplyNext(p)
      PROVE  TypeInv'
  <2>1. Order[next[p]] \in Patches
    BY <1>0, <1>2 DEF ApplyNext, OrderAssumption, LoopTypes
  <2>2. PatcherTypeOK'
    BY <1>0, <1>2, <2>1, BeginKeepsType DEF ApplyNext
  <2>3. LoopTypes'
    BY <1>0, <1>2 DEF ApplyNext, loopVars, LoopTypes
  <2>4. Lodged'
    <3>1. /\ phase[p] = "boot" /\ UNCHANGED <<phase, cache>>
          /\ \A q \in Procs \ {p} : call'[q] = call[q]
      BY <1>0, <1>2 DEF ApplyNext, Begin, loopVars, PatcherTypeOK
    <3> QED
      BY <2>3, <3>1, StaysLodged
  <2> QED
    BY <2>2, <2>3, <2>4 DEF TypeInv
<1>3. ASSUME NEW p \in Procs, PatcherStep(p) \/ PatcherFault(p), LoopTypes', UNCHANGED phase
      PROVE  TypeInv'
  <2>1. PatcherTypeOK'
    BY <1>0, <1>3, StepKeepsType, FaultKeepsType
  <2>2. /\ call[p].at # "idle"
        /\ \A q \in Procs \ {p} : call'[q] = call[q] /\ cache'[q] = cache[q]
    BY <1>0, <1>3, StepFrame
  <2>3. Lodged'
    BY <1>0, <1>3, <2>2, StaysLodged DEF Lodged
  <2> QED
    BY <1>3, <2>1, <2>3 DEF TypeInv
<1>4. ASSUME NEW p \in Procs, Patching(p)
      PROVE  TypeInv'
  BY <1>0, <1>3, <1>4 DEF Patching, loopVars, LoopTypes
<1>5. ASSUME NEW p \in Procs, Fault(p)
      PROVE  TypeInv'
  <2>1. torn' \subseteq Files
    BY <1>0, <1>5, ReadType DEF Fault, LoopTypes
  <2>2. PatcherFault(p) /\ LoopTypes' /\ UNCHANGED phase
    BY <1>0, <1>5, <2>1 DEF Fault, LoopTypes
  <2> QED
    BY <1>3, <2>2
<1>6. ASSUME NEW p \in Procs, Collect(p)
      PROVE  TypeInv'
  <2>1. /\ call' = [call EXCEPT ![p] = Idle(call[p].patch)]
        /\ text' = [text EXCEPT ![p] = <<>>]
        /\ UNCHANGED <<disk, stamp, clock, pin, cacheFile, cache, phase>>
    BY <1>6 DEF Collect
  <2>2. PatcherTypeOK'
    <3>1. Wrote(File(call[p].patch), <<>>) /\ call[p].patch \in Patches
      BY <1>0, <2>1 DEF Wrote, PatcherTypeOK
    <3> QED
      BY <1>0, <2>1, <3>1, EndKeepsType
  <2>3. LoopTypes'
    <3>1. call[p].result \in Results
      BY <1>0 DEF PatcherTypeOK
    <3>2. report' \in [Procs -> [Patches -> Results]]
      BY <1>0, <1>6, <3>1 DEF Collect, LoopTypes
    <3>3. next' \in [Procs -> Nat \ {0}]
      BY <1>0, <1>6 DEF Collect, LoopTypes
    <3> QED
      BY <1>0, <1>6, <3>2, <3>3 DEF Collect, LoopTypes
  <2>4. /\ \A q \in Procs \ {p} : call'[q] = call[q]
        /\ call'[p].at = "idle"
    BY <1>0, <2>1 DEF PatcherTypeOK, Idle
  <2>5. Lodged'
    BY <1>0, <2>1, <2>3, <2>4, StaysLodged DEF Lodged
  <2> QED
    BY <2>2, <2>3, <2>5 DEF TypeInv
<1>7. ASSUME NEW p \in Procs, Finish(p)
      PROVE  TypeInv'
  <2>1. EnsureLoaded(p) \in Caches /\ EmptyTable \in Table
    BY <1>0, EnsureType, UnloadedType
  <2>2. \/ UNCHANGED <<cache, cacheFile>>
        \/ /\ cache' = [cache EXCEPT ![p] = EnsureLoaded(p)]
           /\ \/ cacheFile' = [pin |-> pin, files |-> EnsureLoaded(p).files]
              \/ UNCHANGED cacheFile
              \/ cacheFile' = [pin |-> pin, files |-> EmptyTable]
    BY <1>7 DEF Finish, Flush
  <2>3. cache' \in [Procs -> Caches] /\ cacheFile' \in [pin : Pins, files : Table]
    <3>1. /\ cache \in [Procs -> Caches] /\ cacheFile \in [pin : Pins, files : Table]
          /\ EnsureLoaded(p).files \in Table /\ pin \in Pins
      BY <1>0, <2>1 DEF PatcherTypeOK, Caches
    <3>2. cache' \in [Procs -> Caches]
      BY <2>1, <2>2, <3>1
    <3>3. cacheFile' \in [pin : Pins, files : Table]
      BY <2>1, <2>2, <3>1
    <3> QED
      BY <3>2, <3>3
  <2>4. /\ phase[p] = "boot" /\ call[p].at = "idle"
        /\ phase' = [phase EXCEPT ![p] = "up"]
        /\ UNCHANGED <<disk, stamp, clock, pin, call, text>>
    BY <1>7 DEF Finish
  <2>5. PatcherTypeOK'
    BY <1>0, <2>3, <2>4 DEF PatcherTypeOK, Caches
  <2>6. LoopTypes'
    BY <1>0, <1>7 DEF Finish, LoopTypes
  <2>7. \A q \in Procs \ {p} : cache'[q] = cache[q]
    BY <1>0, <2>2 DEF PatcherTypeOK
  <2>8. Lodged'
    BY <1>0, <2>4, <2>6, <2>7, StaysLodged DEF LoopTypes
  <2> QED
    BY <2>5, <2>6, <2>8 DEF TypeInv
<1>8. ASSUME NEW p \in Procs, Crash(p)
      PROVE  TypeInv'
  <2>1. /\ \E c : Wrote(File(call[p].patch), c)
        /\ call' = [call EXCEPT ![p] = Idle(call[p].patch)]
        /\ text' = [text EXCEPT ![p] = <<>>]
        /\ cache' = [cache EXCEPT ![p] = Unloaded]
        /\ phase' = [phase EXCEPT ![p] = "down"]
        /\ UNCHANGED <<pin, cacheFile>>
    BY <1>0, <1>8, CrashIs
  <2>2. File(call[p].patch) \in Files /\ call[p].patch \in Patches
    BY <1>0, ReadType
  <2>3. PatcherTypeOK'
    BY <1>0, <2>1, <2>2, EndKeepsType
  <2>4. LoopTypes'
    <3>1. torn' = torn \/ torn' = torn \cup {File(call[p].patch)}
      BY <1>8 DEF Crash
    <3>2. torn' \subseteq Files
      BY <1>0, <2>2, <3>1 DEF LoopTypes
    <3> QED
      BY <1>0, <1>8, <3>2 DEF Crash, LoopTypes, NoReport, Results
  <2>5. /\ \A q \in Procs \ {p} : call'[q] = call[q] /\ cache'[q] = cache[q]
        /\ call'[p].at = "idle" /\ ~cache'[p].loaded
    BY <1>0, <2>1 DEF PatcherTypeOK, Idle, Unloaded
  <2>6. Lodged'
    BY <1>0, <2>1, <2>4, <2>5, StaysLodged DEF LoopTypes
  <2> QED
    BY <2>3, <2>4, <2>6 DEF TypeInv
<1>9. ASSUME NEW f \in Files, Restore(f)
      PROVE  TypeInv'
  <2>1. /\ disk' = [disk EXCEPT ![f] = Wheel[pin][f]] /\ disk[f] # NoFile
        /\ UNCHANGED <<pin, cacheFile, cache, call, text, phase>>
    BY <1>9 DEF Restore
  <2>2. stamp' \in [Files -> Nat] /\ clock' \in Nat
    <3>1. WheelStamp \in Nat /\ clock + 1 \in Nat
      BY <1>0 DEF PatcherTypeOK, WheelStamp
    <3>2. \/ stamp' = [stamp EXCEPT ![f] = WheelStamp] /\ UNCHANGED clock
          \/ stamp' = [stamp EXCEPT ![f] = clock + 1] /\ clock' = clock + 1
      BY <1>9 DEF Restore
    <3>3. stamp \in [Files -> Nat] /\ clock \in Nat
      BY <1>0 DEF PatcherTypeOK
    <3> QED
      BY <3>1, <3>2, <3>3
  <2>3. /\ Wheel[pin][f] \in Texts /\ Wheel[pin][f] # NoFile
        /\ disk' \in [Files -> Texts \cup {NoFile}]
        /\ \A g \in Files : disk'[g] = NoFile <=> disk[g] = NoFile
    BY <1>0, <2>1 DEF PatcherTypeOK, TextAssumption
  <2>4. \A p \in Procs : File(call[p].patch) \in Files
    BY <1>0, ReadType
  <2>5. PatcherTypeOK'
    BY <1>0, <2>1, <2>2, <2>3, <2>4 DEF PatcherTypeOK
  <2>6. LoopTypes' /\ Lodged'
    BY <1>0, <1>9 DEF Restore, LoopTypes, Lodged
  <2> QED
    BY <2>5, <2>6 DEF TypeInv
<1>10. ASSUME NEW v \in Pins, Install(v)
       PROVE  TypeInv'
  <2>1. /\ pin' = v /\ disk' = Wheel[v] /\ stamp' = [f \in Files |-> WheelStamp]
        /\ \A p \in Procs : call[p].at = "idle"
        /\ UNCHANGED <<clock, cacheFile, cache, call, text, phase>>
    BY <1>0, <1>10 DEF Install, Lodged
  <2>2. Wheel[v] \in [Files -> Texts \cup {NoFile}]
    BY DEF ConfigAssumption, TextAssumption
  <2>3. PatcherTypeOK'
    BY <1>0, <2>1, <2>2 DEF PatcherTypeOK, WheelStamp
  <2>4. LoopTypes' /\ Lodged'
    BY <1>0, <1>10 DEF Install, LoopTypes, Lodged
  <2> QED
    BY <2>3, <2>4 DEF TypeInv
<1>11. CASE UNCHANGED vars
  BY <1>0, <1>11
     DEF vars, patcherVars, loopVars, TypeInv, LoopTypes, PatcherTypeOK, Lodged
<1> QED
  BY <1>1, <1>2, <1>4, <1>5, <1>6, <1>7, <1>8, <1>9, <1>10, <1>11 DEF Next, ProcStep

(* Every variable of the loop keeps its type, and files appear and vanish  *)
(* only with an install.                                                   *)
THEOREM TypesHold == Spec => []TypeOK
<1>1. Init => TypeInv
  BY ConfigAssumption, TextAssumption, InitTypeInv
<1>2. TypeInv /\ [Next]_vars => TypeInv'
  BY ConfigAssumption, TextAssumption, OrderAssumption, NextTypeInv
<1>3. TypeInv => TypeOK
  BY TypeParts DEF TypeInv
<1> QED
  BY <1>1, <1>2, <1>3, PTL DEF Spec

(* Whatever content a call of the loop is about to load, the manifest fast  *)
(* path and the anchor scan make the same of it where the recorded anchors  *)
(* are independent: whoever else runs, and whatever crashes or fails.       *)
THEOREM LoopManifestsMatch == Spec => []ManifestMatchesScan
<1>1. TypeOK => ManifestMatchesScan
  BY ManifestScanAgree DEF TypeOK
<1> QED
  BY <1>1, TypesHold, PTL

(* And no required sub-patch is left out of what the loop is about to       *)
(* write, as long as no sub-patch erases a token by which another knows an  *)
(* upstream merge.                                                          *)
THEOREM LoopLeavesNoneOut == MergedSurvive => (Spec => []RequiredAllOrNothing)
<1> SUFFICES ASSUME MergedSurvive
             PROVE  Spec => []RequiredAllOrNothing
  OBVIOUS
<1>1. TypeOK => RequiredAllOrNothing
  BY NoRequiredLeftOut DEF TypeOK
<1> QED
  BY <1>1, TypesHold, PTL

-----------------------------------------------------------------------------
(* One process in the loop at a time.                                      *)

OneLoop == \A p, q \in Booting : p = q

LoopInv == TypeInv /\ OneLoop /\ PatcherInv

LEMMA InLoopAlone ==
  ASSUME TypeInv, OneLoop, NEW p \in Procs, phase[p] = "boot" \/ call[p].at # "idle"
  PROVE  /\ phase[p] = "boot" /\ Booting = {p} /\ Alone(p)
         /\ \A q \in Procs \ {p} : phase[q] # "boot"
BY DEF OneLoop, TypeInv, Lodged, Booting, Alone

LEMMA OneLoopStays ==
  ASSUME OneLoop, \A p \in Procs : phase'[p] = "boot" => phase[p] = "boot"
  PROVE  OneLoop'
BY DEF OneLoop, Booting

LEMMA InitLoopInv ==
  ASSUME ConfigAssumption, TextAssumption, Init
  PROVE  LoopInv
<1>1. TypeInv
  BY InitTypeInv
<1>2. PatcherInv
  BY InitPatcherInv DEF Init
<1>3. OneLoop
  BY DEF Init, OneLoop, Booting
<1> QED
  BY <1>1, <1>2, <1>3 DEF LoopInv

(* The caches in memory and on disk after a flush. *)
LEMMA FlushKeepsInv ==
  ASSUME LoopInv, TypeInv', NEW p \in Procs, Finish(p)
  PROVE  PatcherInv'
<1>1. UNCHANGED <<disk, stamp, clock, pin, call, text>>
  BY DEF Finish
<1>2. /\ \A q \in Procs : cache'[q] = cache[q] \/ cache'[q] = EnsureLoaded(p)
      /\ \/ cacheFile' = cacheFile
         \/ cacheFile' = [pin |-> pin, files |-> EnsureLoaded(p).files]
         \/ cacheFile' = [pin |-> pin, files |-> EmptyTable]
  BY DEF Finish, Flush, LoopInv, TypeInv, PatcherTypeOK
<1>3. /\ TableOK(EnsureLoaded(p).files, pin) /\ Truthful(EnsureLoaded(p).files)
      /\ TableOK(EmptyTable, pin) /\ Truthful(EmptyTable)
  BY EnsureOK DEF LoopInv, TypeInv, PatcherInv
<1>4. \A q \in Procs : cache'[q].loaded =>
        TableOK(cache'[q].files, pin) /\ Truthful(cache'[q].files)
  BY <1>2, <1>3 DEF LoopInv, PatcherInv, TablesOK, CacheTruthful
<1>5. /\ TableOK(cacheFile'.files, cacheFile'.pin)
      /\ cacheFile'.pin = pin => Truthful(cacheFile'.files)
  BY <1>2, <1>3 DEF LoopInv, PatcherInv, TablesOK, CacheTruthful, PinMatches
<1>6. FilesOK' /\ TablesOK' /\ CacheTruthful'
  BY <1>1, <1>4, <1>5
     DEF LoopInv, PatcherInv, FilesOK, TablesOK, TableOK, CacheTruthful, Truthful, PinMatches
<1>7. CallsOK'
  BY <1>1 DEF LoopInv, PatcherInv, CallsOK, CallOK, Fresh, RewriteNow
<1> QED
  BY <1>6, <1>7 DEF PatcherInv

LEMMA RestoreKeepsInv ==
  ASSUME TextAssumption, LoopInv, NEW f \in Files, Restore(f)
  PROVE  PatcherInv'
<1>0. PatcherTypeOK /\ PatcherInv
  BY DEF LoopInv, TypeInv
<1>1. /\ disk' = [disk EXCEPT ![f] = Wheel[pin][f]]
      /\ UNCHANGED <<pin, cacheFile, cache, call, text>>
      /\ \A p \in Procs : call[p].at = "idle"
  BY DEF Restore, LoopInv, TypeInv, Lodged, Booting
<1>2. CallsOK'
  BY <1>0, <1>1, IdleIsOK DEF CallsOK, CallOK, PatcherInv
<1>3. CASE stamp' = [stamp EXCEPT ![f] = clock + 1] /\ clock' = clock + 1
  <2>1. PutFile(f, Wheel[pin][f])
    BY <1>1, <1>3 DEF PutFile
  <2>2. FilesOK' /\ TablesOK' /\ CacheTruthful'
    BY <1>0, <1>1, <2>1, WriteKeepsTables DEF PatcherInv
  <2> QED
    BY <1>2, <2>2 DEF PatcherInv
<1>4. CASE stamp' = [stamp EXCEPT ![f] = WheelStamp] /\ UNCHANGED clock
  <2>1. /\ \A g \in Files : g # f => disk'[g] = disk[g] /\ stamp'[g] = stamp[g]
        /\ disk'[f] = Wheel[pin][f] /\ stamp'[f] = WheelStamp
    BY <1>0, <1>1, <1>4 DEF PatcherTypeOK
  <2>2. FilesOK'
    BY <1>0, <1>1, <1>4, <2>1 DEF PatcherInv, FilesOK
  <2>3. TablesOK'
    BY <1>0, <1>1, <1>4 DEF PatcherInv, TablesOK, TableOK
  <2>4. ASSUME NEW tb, TableOK(tb, pin), Truthful(tb)
        PROVE  Truthful(tb)'
    BY <2>1, <2>4 DEF TableOK, Truthful
  <2>5. CacheTruthful'
    BY <1>0, <1>1, <2>4 DEF PatcherInv, TablesOK, CacheTruthful, PinMatches
  <2> QED
    BY <1>2, <2>2, <2>3, <2>5 DEF PatcherInv
<1> QED
  BY <1>3, <1>4 DEF Restore

LEMMA InstallKeepsInv ==
  ASSUME LoopInv, NEW v \in Pins, Install(v)
  PROVE  PatcherInv'
<1>0. PatcherTypeOK /\ PatcherInv
  BY DEF LoopInv, TypeInv
<1>1. /\ pin' = v /\ disk' = Wheel[v] /\ stamp' = [f \in Files |-> WheelStamp]
      /\ UNCHANGED <<clock, cacheFile, cache, call, text>>
      /\ \A p \in Procs : call[p].at = "idle" /\ ~cache[p].loaded
  BY DEF Install, LoopInv, TypeInv, Lodged
<1>2. CallsOK'
  BY <1>0, <1>1, IdleIsOK DEF CallsOK, CallOK, PatcherInv
<1>3. FilesOK' /\ TablesOK'
  BY <1>0, <1>1 DEF PatcherInv, FilesOK, TablesOK, TableOK
<1>4. CacheTruthful'
  BY <1>0, <1>1 DEF PatcherInv, TablesOK, TableOK, CacheTruthful, Truthful, PinMatches
<1> QED
  BY <1>2, <1>3, <1>4 DEF PatcherInv

LEMMA NextLoopInv ==
  ASSUME ConfigAssumption, TextAssumption, OrderAssumption, Exclusive, LoopInv, [Next]_vars
  PROVE  LoopInv'
<1>0. TypeInv' /\ TypeInv /\ OneLoop /\ PatcherInv /\ PatcherTypeOK
  BY NextTypeInv DEF LoopInv, TypeInv
<1>1. ASSUME NEW p \in Procs, Start(p)
      PROVE  LoopInv'
  <2>1. /\ Booting = {} /\ phase' = [phase EXCEPT ![p] = "boot"]
        /\ UNCHANGED <<disk, stamp, clock, pin, cacheFile, cache, call, text>>
    BY <1>1 DEF Start, patcherVars
  <2>2. OneLoop'
    BY <1>0, <2>1 DEF OneLoop, Booting, TypeInv, LoopTypes
  <2>3. PatcherInv'
    BY <1>0, <2>1 DEF PatcherInv, FilesOK, TablesOK, TableOK, CacheTruthful, Truthful, PinMatches,
                      CallsOK, CallOK, Fresh, RewriteNow
  <2> QED
    BY <1>0, <2>2, <2>3 DEF LoopInv
<1>2. ASSUME NEW p \in Procs, ApplyNext(p)
      PROVE  LoopInv'
  <2>1. Order[next[p]] \in Patches
    BY <1>0, <1>2 DEF ApplyNext, OrderAssumption, TypeInv, LoopTypes
  <2>2. /\ call' = [call EXCEPT ![p] = [Idle(Order[next[p]]) EXCEPT !.at = "layer0"]]
        /\ UNCHANGED <<disk, stamp, clock, pin, cacheFile, cache, text>>
        /\ phase[p] = "boot" /\ UNCHANGED phase
    BY <1>2 DEF ApplyNext, Begin, loopVars
  <2>3. /\ \A q \in Procs \ {p} : call'[q] = call[q]
        /\ call'[p].at = "layer0" /\ ~call'[p].orphan
    <3> DEFINE e == [Idle(Order[next[p]]) EXCEPT !.at = "layer0"]
    <3>1. e.at = "layer0" /\ ~e.orphan
      BY DEF Idle
    <3> HIDE DEF e
    <3>2. call' = [call EXCEPT ![p] = e]
      BY <2>2 DEF e
    <3> QED
      BY <1>0, <3>1, <3>2 DEF PatcherTypeOK
  <2>4. Wrote(File(call[p].patch), <<>>) /\ Alone(p)
    BY <1>0, <2>2, InLoopAlone DEF Wrote
  <2>5. PatcherInv'
    BY <1>0, <2>2, <2>3, <2>4, TurnKeepsInv
  <2> QED
    BY <1>0, <2>2, <2>5, OneLoopStays DEF LoopInv
<1>3. ASSUME NEW p \in Procs, PatcherStep(p) \/ PatcherFault(p), UNCHANGED phase
      PROVE  LoopInv'
  <2>1. Alone(p)
    BY <1>0, <1>3, StepFrame, InLoopAlone
  <2>2. PatcherInv'
    BY <1>0, <1>3, <2>1, StepKeepsInv, FaultKeepsInv
  <2> QED
    BY <1>0, <1>3, <2>2, OneLoopStays DEF LoopInv
<1>4. ASSUME NEW p \in Procs, Patching(p)
      PROVE  LoopInv'
  BY <1>3, <1>4 DEF Patching, loopVars
<1>5. ASSUME NEW p \in Procs, Fault(p)
      PROVE  LoopInv'
  BY <1>3, <1>5 DEF Fault
<1>6. ASSUME NEW p \in Procs, Collect(p)
      PROVE  LoopInv'
  <2>1. /\ phase[p] = "boot" /\ call' = [call EXCEPT ![p] = Idle(call[p].patch)]
        /\ UNCHANGED <<disk, stamp, clock, pin, cacheFile, cache, phase>>
    BY <1>6 DEF Collect
  <2>2. /\ \A q \in Procs \ {p} : call'[q] = call[q]
        /\ call'[p].at = "idle" /\ ~call'[p].orphan
    BY <1>0, <2>1 DEF PatcherTypeOK, Idle
  <2>3. Wrote(File(call[p].patch), <<>>) /\ Alone(p)
    BY <1>0, <2>1, InLoopAlone DEF Wrote
  <2>4. PatcherInv'
    BY <1>0, <2>1, <2>2, <2>3, TurnKeepsInv
  <2> QED
    BY <1>0, <2>1, <2>4, OneLoopStays DEF LoopInv
<1>7. ASSUME NEW p \in Procs, Finish(p)
      PROVE  LoopInv'
  <2>1. \A q \in Procs : phase'[q] = "boot" => phase[q] = "boot"
    BY <1>0, <1>7 DEF Finish, TypeInv, LoopTypes
  <2> QED
    BY <1>0, <1>7, <2>1, FlushKeepsInv, OneLoopStays DEF LoopInv
<1>8. ASSUME NEW p \in Procs, Crash(p)
      PROVE  LoopInv'
  <2>1. /\ \E c : Wrote(File(call[p].patch), c)
        /\ call' = [call EXCEPT ![p] = Idle(call[p].patch)]
        /\ cache' = [cache EXCEPT ![p] = Unloaded]
        /\ phase' = [phase EXCEPT ![p] = "down"]
        /\ UNCHANGED <<pin, cacheFile>>
    BY <1>0, <1>8, CrashIs
  <2>2. /\ \A q \in Procs \ {p} : call'[q] = call[q]
        /\ call'[p].at = "idle" /\ ~call'[p].orphan
        /\ \A q \in Procs : cache'[q] = cache[q] \/ ~cache'[q].loaded
        /\ \A q \in Procs : phase'[q] = "boot" => phase[q] = "boot"
    BY <1>0, <2>1 DEF PatcherTypeOK, Idle, Unloaded, TypeInv, LoopTypes
  <2>3. CASE call[p].at # "idle"
    <3>1. Alone(p)
      BY <1>0, <2>3, InLoopAlone
    <3>2. PatcherInv'
      BY <1>0, <2>1, <2>2, <3>1, TurnKeepsInv
    <3> QED
      BY <1>0, <2>2, <3>2, OneLoopStays DEF LoopInv
  <2>4. CASE call[p].at = "idle"
    <3>1. UNCHANGED <<disk, stamp, clock>> /\ text' = [text EXCEPT ![p] = <<>>]
      BY <1>8, <2>4 DEF Crash
    <3>2. FilesOK' /\ TablesOK' /\ CacheTruthful'
      BY <1>0, <2>1, <2>2, <3>1, WriteKeepsTables DEF PatcherInv
    <3>3. ASSUME NEW q \in Procs PROVE CallOK(q)'
      <4>1. CASE q = p
        BY <2>2, <4>1 DEF CallOK
      <4>2. CASE q # p
        <5>1. text'[q] = text[q] /\ call'[q] = call[q]
          BY <1>0, <2>2, <3>1, <4>2 DEF PatcherTypeOK
        <5> QED
          BY <1>0, <2>1, <3>1, <5>1, ZenonT(30) DEF PatcherInv, CallsOK, CallOK, Fresh, RewriteNow
      <4> QED
        BY <4>1, <4>2
    <3> QED
      BY <1>0, <2>2, <3>2, <3>3, OneLoopStays DEF LoopInv, PatcherInv, CallsOK
  <2> QED
    BY <2>3, <2>4
<1>9. ASSUME NEW f \in Files, Restore(f)
      PROVE  LoopInv'
  BY <1>0, <1>9, RestoreKeepsInv, OneLoopStays DEF LoopInv, Restore
<1>10. ASSUME NEW v \in Pins, Install(v)
       PROVE  LoopInv'
  BY <1>0, <1>10, InstallKeepsInv, OneLoopStays DEF LoopInv, Install
<1>11. CASE UNCHANGED vars
  <2>1. UNCHANGED <<disk, stamp, clock, pin, cacheFile, cache, call, text, phase>>
    BY <1>11 DEF vars, patcherVars, loopVars
  <2>2. PatcherInv'
    BY <1>0, <2>1 DEF PatcherInv, FilesOK, TablesOK, TableOK, CacheTruthful, Truthful, PinMatches,
                      CallsOK, CallOK, Fresh, RewriteNow
  <2> QED
    BY <1>0, <2>1, <2>2, OneLoopStays DEF LoopInv
<1> QED
  BY <1>1, <1>2, <1>4, <1>5, <1>6, <1>7, <1>8, <1>9, <1>10, <1>11 DEF Next, ProcStep

(* While no two processes are in the loop at once, the cache (in memory and *)
(* persisted) never makes Layer 0 report a patch its file does not have:    *)
(* whatever crashes, failing writes, restored files and new wheels do.      *)
THEOREM CacheIsTruthful == Exclusive => (Spec => []CacheTruthful)
<1> SUFFICES ASSUME Exclusive
             PROVE  Spec => []CacheTruthful
  OBVIOUS
<1>1. Init => LoopInv
  BY ConfigAssumption, TextAssumption, InitLoopInv
<1>2. LoopInv /\ [Next]_vars => LoopInv'
  BY ConfigAssumption, TextAssumption, OrderAssumption, NextLoopInv
<1>3. LoopInv => CacheTruthful
  BY DEF LoopInv, PatcherInv
<1> QED
  BY <1>1, <1>2, <1>3, PTL DEF Spec

-----------------------------------------------------------------------------
(* What a run reports is in the files.                                     *)

(* Reported, and in the file or in the text being written to it. *)
ReportsKept ==
  \A p \in Booting : \A pt \in Patches :
    report[p][pt] \in {"APPLIED", "IDEMPOTENT"} /\ File(pt) \notin torn
      => Holds(p, File(pt), Marker(pt))

LEMMA NextReportsKept ==
  ASSUME ConfigAssumption, TextAssumption, OrderAssumption, Exclusive, MarkersSurvive,
         LoopInv, ReportsKept, [Next]_vars
  PROVE  ReportsKept'
<1>0. TypeInv /\ OneLoop /\ PatcherInv /\ PatcherTypeOK /\ LoopTypes
  BY DEF LoopInv, TypeInv
<1>1. ASSUME NEW p \in Procs, Start(p)
      PROVE  ReportsKept'
  <2>1. /\ Booting = {} /\ phase' = [phase EXCEPT ![p] = "boot"]
        /\ report' = [report EXCEPT ![p] = NoReport]
    BY <1>1 DEF Start
  <2>2. Booting' = {p} /\ report'[p] = NoReport
    BY <1>0, <2>1 DEF Booting, LoopTypes
  <2> QED
    BY <2>2 DEF ReportsKept, NoReport
<1>2. ASSUME NEW p \in Procs, ApplyNext(p)
      PROVE  ReportsKept'
  <2>1. /\ phase[p] = "boot" /\ UNCHANGED <<disk, text, phase, report, torn>>
        /\ call[p].at = "idle"
        /\ call' = [call EXCEPT ![p] = [Idle(Order[next[p]]) EXCEPT !.at = "layer0"]]
    BY <1>2 DEF ApplyNext, Begin, loopVars
  <2>2. call'[p].at = "layer0"
    <3> DEFINE e == [Idle(Order[next[p]]) EXCEPT !.at = "layer0"]
    <3>1. e.at = "layer0"
      BY DEF Idle
    <3> HIDE DEF e
    <3>2. call' = [call EXCEPT ![p] = e]
      BY <2>1 DEF e
    <3> QED
      BY <1>0, <3>1, <3>2 DEF PatcherTypeOK
  <2>3. Booting' = {p} /\ Booting = {p}
    BY <1>0, <2>1, InLoopAlone DEF Booting
  <2> QED
    BY <2>1, <2>2, <2>3 DEF ReportsKept, Holds
<1>3. ASSUME NEW p \in Procs, Patching(p)
      PROVE  ReportsKept'
  <2>1. PatcherStep(p) /\ UNCHANGED <<phase, report, torn>>
    BY <1>3 DEF Patching, loopVars
  <2>2. call[p].at # "idle"
    BY <1>0, <2>1, StepFrame
  <2>3. Booting' = {p} /\ Booting = {p}
    BY <1>0, <2>1, <2>2, InLoopAlone DEF Booting
  <2>4. \A f \in Files, m \in Markers : Holds(p, f, m) => Holds(p, f, m)'
    BY <1>0, <2>1, PatcherStepOK DEF StepOK
  <2>5. \A pt \in Patches : File(pt) \in Files /\ Marker(pt) \in Markers
    BY TargetType
  <2> QED
    BY <2>1, <2>3, <2>4, <2>5 DEF ReportsKept, Holds
<1>4. ASSUME NEW p \in Procs, Fault(p)
      PROVE  ReportsKept'
  <2>1. /\ PatcherFault(p) /\ UNCHANGED <<phase, report>>
        /\ torn' = IF call[p].at = "write" THEN torn \cup {File(call[p].patch)} ELSE torn
    BY <1>4 DEF Fault
  <2>2. Alone(p) /\ Booting' = {p} /\ Booting = {p}
    BY <1>0, <2>1, StepFrame, InLoopAlone DEF Booting
  <2>3. /\ call'[p].at = "done"
        /\ \A f \in Files : disk'[f] # disk[f] => f = File(call[p].patch)
        /\ call[p].at # "write" => disk' = disk
    BY <1>0, <2>1, <2>2, FaultKeepsInv
  <2>4. \A f \in Files, m \in Markers : Holds(p, f, m) /\ f \notin torn' => Holds(p, f, m)'
    BY <2>1, <2>3 DEF Holds
  <2>5. torn \subseteq torn'
    BY <2>1
  <2>6. \A pt \in Patches : File(pt) \in Files /\ Marker(pt) \in Markers
    BY TargetType
  <2> QED
    BY <2>1, <2>2, <2>4, <2>5, <2>6 DEF ReportsKept, Holds
<1>5. ASSUME NEW p \in Procs, Collect(p)
      PROVE  ReportsKept'
  <2> DEFINE cur == call[p].patch
  <2>1. /\ phase[p] = "boot" /\ call[p].at = "done"
        /\ call' = [call EXCEPT ![p] = Idle(cur)]
        /\ report' = [report EXCEPT ![p][cur] = call[p].result]
        /\ UNCHANGED <<disk, phase, torn>>
    BY <1>5 DEF Collect
  <2>2. Booting' = {p} /\ Booting = {p}
    BY <1>0, <2>1, InLoopAlone DEF Booting
  <2>3. call[p].result \in {"APPLIED", "IDEMPOTENT"} => Marked(disk[File(cur)], Marker(cur))
    BY <1>0, <2>1 DEF PatcherInv, CallsOK, CallOK
  <2>4. /\ call'[p].at = "idle" /\ cur \in Patches
        /\ report'[p][cur] = call[p].result
        /\ \A pt \in Patches : pt # cur => report'[p][pt] = report[p][pt]
    BY <1>0, <2>1 DEF PatcherTypeOK, Idle, LoopTypes
  <2> QED
    BY <2>1, <2>2, <2>3, <2>4 DEF ReportsKept, Holds
<1>6. ASSUME NEW p \in Procs, Finish(p) \/ Crash(p)
      PROVE  ReportsKept'
  <2>1. CASE phase[p] = "boot"
    <3>1. Booting = {p}
      BY <1>0, <2>1, InLoopAlone
    <3>2. Booting' = {}
      BY <1>0, <1>6, <3>1 DEF Finish, Crash, Booting, LoopTypes
    <3> QED
      BY <3>2 DEF ReportsKept
  <2>2. CASE phase[p] # "boot"
    <3>1. Crash(p) /\ call[p].at = "idle"
      BY <1>0, <1>6, <2>2 DEF Finish, TypeInv, Lodged
    <3>2. /\ phase' = [phase EXCEPT ![p] = "down"]
          /\ call' = [call EXCEPT ![p] = Idle(call[p].patch)]
          /\ text' = [text EXCEPT ![p] = <<>>]
          /\ report' = [report EXCEPT ![p] = NoReport]
          /\ UNCHANGED <<disk, torn>>
      BY <3>1 DEF Crash
    <3>3. \A q \in Procs : q # p => /\ call'[q] = call[q] /\ text'[q] = text[q]
                                    /\ report'[q] = report[q] /\ phase'[q] = phase[q]
      BY <1>0, <3>2 DEF PatcherTypeOK, LoopTypes
    <3>4. Booting' = Booting /\ p \notin Booting
      BY <1>0, <2>2, <3>2, <3>3 DEF Booting, LoopTypes
    <3> QED
      BY <3>2, <3>3, <3>4 DEF ReportsKept, Holds, Booting
  <2> QED
    BY <2>1, <2>2
<1>7. ASSUME NEW f \in Files, Restore(f)
      PROVE  ReportsKept'
  <2>1. Booting' = {}
    BY <1>7 DEF Restore, Booting
  <2> QED
    BY <2>1 DEF ReportsKept
<1>8. ASSUME NEW v \in Pins, Install(v)
      PROVE  ReportsKept'
  <2>1. Booting' = {}
    BY <1>8 DEF Install, Booting
  <2> QED
    BY <2>1 DEF ReportsKept
<1>9. CASE UNCHANGED vars
  BY <1>9 DEF vars, patcherVars, loopVars, ReportsKept, Holds, Booting
<1> QED
  BY <1>1, <1>2, <1>3, <1>4, <1>5, <1>6, <1>7, <1>8, <1>9 DEF Next, ProcStep

(* And while no edit erases a marker, what the boot summary says is true   *)
(* during the run: a patch reported APPLIED or IDEMPOTENT is in its file,  *)
(* unless a later write to that file was cut short.                        *)
THEOREM ReportsAreTrue == Exclusive /\ MarkersSurvive => (Spec => []ReportsHold)
<1> SUFFICES ASSUME Exclusive, MarkersSurvive
             PROVE  Spec => []ReportsHold
  OBVIOUS
<1>1. Init => LoopInv
  BY ConfigAssumption, TextAssumption, InitLoopInv
<1>2. LoopInv /\ [Next]_vars => LoopInv'
  BY ConfigAssumption, TextAssumption, OrderAssumption, NextLoopInv
<1>3. Init => ReportsKept
  BY DEF Init, ReportsKept, Booting
<1>4. LoopInv /\ ReportsKept /\ [Next]_vars => ReportsKept'
  BY ConfigAssumption, TextAssumption, OrderAssumption, NextReportsKept
<1>5. ReportsKept => ReportsHold
  BY DEF ReportsKept, ReportsHold, Holds, Standing
<1> QED
  BY <1>1, <1>2, <1>3, <1>4, <1>5, PTL DEF Spec

-----------------------------------------------------------------------------
(* Patches put one after another on a file that started as w.              *)
PutInTurn(w, f, s) ==
  LET Put(c, pt) == PutOn(f, c, pt)
  IN  FoldLeft(Put, w, s)

(* PatchedBy is that, from the wheel of the version installed.             *)
LEMMA PatchedByIs ==
  ASSUME NEW s, NEW f
  PROVE  PatchedBy(s, f) = PutInTurn(Wheel[pin][f], f, s)
BY DEF PatchedBy, PutInTurn

(* A patch makes a text of a text.                                         *)
LEMMA PutOnText ==
  ASSUME TextAssumption, NEW f, NEW c \in Texts, NEW pt \in Patches
  PROVE  PutOn(f, c, pt) \in Texts
<1>1. Layer5(Patch[pt], c).text \in Texts
  BY Layer5Text
<1>2. Stamped(Marker(pt), Layer5(Patch[pt], c).text) \in Texts
  BY <1>1, StampedText
<1> QED
  BY <1>2 DEF PutOn

TurnSteps(h, w, f, s) ==
  /\ h \in [0 .. Len(s) -> Texts]
  /\ h[0] = w
  /\ \A k \in 1 .. Len(s) : h[k] = PutOn(f, h[k - 1], s[k])

(* The fold goes through a chain of texts.                                 *)
LEMMA TurnChain ==
  ASSUME TextAssumption, NEW w \in Texts, NEW f, NEW s \in Seq(Patches)
  PROVE  \E h : TurnSteps(h, w, f, s) /\ h[Len(s)] = PutInTurn(w, f, s)
<1> DEFINE n == Len(s)
           F == [x \in (1 .. n) \X Texts |-> PutOn(f, x[2], s[x[1]])]
           Def(g, t) == IF t = {} THEN w ELSE PutOn(f, g[t \ {Max(t)}], s[Max(t)])
           iter == CHOOSE g : g = [t \in SUBSET DOMAIN s |-> Def(g, t)]
<1>1. n \in Nat /\ DOMAIN s = 1 .. n /\ \A i \in 1 .. n : s[i] \in Patches
  BY LenProperties
<1>3. \A k \in 1 .. n, a \in Texts : PutOn(f, a, s[k]) \in Texts
  BY <1>1, PutOnText
<1>4. PutInTurn(w, f, s) = iter[DOMAIN s]
  BY DEF PutInTurn, FoldLeft, MapThenFoldSet
<1>5. /\ F \in [(1 .. n) \X Texts -> Texts]
      /\ \A k \in 1 .. n, a \in Texts : F[<<k, a>>] = PutOn(f, a, s[k])
  BY <1>3
<1> HIDE DEF F, n
<1>6. PICK g : FoldsUp(g, Texts, w, n, F)
  BY <1>1, <1>5, FoldUpExists
<1>7. \A t \in SUBSET (1 .. n) : t # {} => Max(t) \in 1 .. n
  BY <1>1, MaxIsIn
<1>8. \A t \in SUBSET (1 .. n) : g[t] = Def(g, t)
  <2>1. \A t \in SUBSET (1 .. n) : t # {} => g[t \ {Max(t)}] \in Texts
    BY <1>6, <1>7 DEF FoldsUp
  <2> QED
    BY <1>5, <1>6, <1>7, <2>1 DEF FoldsUp
<1>9. g = [t \in SUBSET DOMAIN s |-> Def(g, t)]
  <2>1. g = [t \in SUBSET (1 .. n) |-> g[t]]
    BY <1>6 DEF FoldsUp
  <2> QED
    BY <1>1, <1>8, <2>1
<1>10. iter = [t \in SUBSET DOMAIN s |-> Def(iter, t)]
  <2> HIDE DEF Def
  <2> QED
    BY <1>9
<1>11. \A t \in SUBSET (1 .. n) : iter[t] = Def(iter, t)
  <2> HIDE DEF iter, Def
  <2> QED
    BY <1>1, <1>10
<1> HIDE DEF iter
<1>12. FollowsUp(iter, Texts, w, n, F)
  BY <1>5, <1>7, <1>11 DEF FollowsUp
<1>13. PICK h : ChainOf(h, Texts, w, n, F) /\ h[n] = iter[1 .. n]
  <2>1. ChainTo(Texts, w, n, F, iter[1 .. n])
    BY <1>1, <1>5, <1>12, FoldUpIsChain
  <2> QED
    BY <2>1 DEF ChainTo
<1>14. TurnSteps(h, w, f, s)
  <2>1. \A k \in 1 .. n : k - 1 \in 0 .. n
    BY <1>1
  <2> QED
    BY <1>5, <1>13, <2>1 DEF ChainOf, TurnSteps, n
<1>15. h[n] = PutInTurn(w, f, s)
  BY <1>1, <1>4, <1>13
<1> QED
  BY <1>14, <1>15 DEF n

(* One more patch at the end of the list is put on last.                   *)
LEMMA TurnsGrow ==
  ASSUME TextAssumption, NEW w \in Texts, NEW f, NEW s \in Seq(Patches), NEW pt \in Patches
  PROVE  /\ PutInTurn(w, f, s) \in Texts
         /\ PutInTurn(w, f, <<>>) = w
         /\ PutInTurn(w, f, Append(s, pt)) = PutOn(f, PutInTurn(w, f, s), pt)
<1> DEFINE u == Append(s, pt)
           n == Len(s)
<1>1. /\ n \in Nat /\ u \in Seq(Patches) /\ Len(u) = n + 1
      /\ \A i \in 1 .. n : u[i] = s[i]
      /\ u[n + 1] = pt
  BY LenProperties, AppendProperties
<1>2. PICK h : TurnSteps(h, w, f, s) /\ h[n] = PutInTurn(w, f, s)
  BY TurnChain
<1> HIDE DEF u, n
<1>3. PICK g : TurnSteps(g, w, f, u) /\ g[n + 1] = PutInTurn(w, f, u)
  <2>1. u \in Seq(Patches) /\ Len(u) = n + 1
    BY <1>1
  <2>2. \E g : TurnSteps(g, w, f, u) /\ g[Len(u)] = PutInTurn(w, f, u)
    BY <2>1, TurnChain
  <2> QED
    BY <2>1, <2>2
<1>4. PutInTurn(w, f, <<>>) = w
  <2>1. <<>> \in Seq(Patches) /\ Len(<<>>) = 0
    OBVIOUS
  <2>2. PICK e : TurnSteps(e, w, f, <<>>) /\ e[Len(<<>>)] = PutInTurn(w, f, <<>>)
    BY <2>1, TurnChain
  <2> QED
    BY <2>1, <2>2 DEF TurnSteps
<1>5. /\ h \in [0 .. n -> Texts] /\ h[0] = w
      /\ \A k \in 1 .. n : h[k] = PutOn(f, h[k - 1], s[k])
  BY <1>2 DEF TurnSteps, n
<1>6. /\ g[0] = w
      /\ \A k \in 1 .. n + 1 : g[k] = PutOn(f, g[k - 1], u[k])
  BY <1>1, <1>3 DEF TurnSteps
<1> DEFINE K == {k \in 0 .. n : g[k] = h[k]}
<1>7. 0 \in K
  BY <1>1, <1>5, <1>6
<1>8. ASSUME NEW k \in 1 .. n, k - 1 \in K PROVE k \in K
  <2>1. k \in 1 .. n + 1 /\ k \in 0 .. n
    BY <1>1
  <2> QED
    BY <1>1, <1>5, <1>6, <1>8, <2>1
<1>9. 0 .. n \subseteq K
  <2> HIDE DEF K
  <2> QED
    BY <1>1, <1>7, <1>8, UpToInduction
<1>10. g[n] = h[n]
  <2>1. n \in 0 .. n
    BY <1>1
  <2> QED
    BY <1>9, <2>1
<1>11. g[n + 1] = PutOn(f, g[n], pt)
  <2>1. n + 1 \in 1 .. n + 1 /\ (n + 1) - 1 = n
    BY <1>1
  <2> QED
    BY <1>1, <1>6, <2>1
<1>12. h[n] \in Texts
  BY <1>1, <1>5
<1> QED
  BY <1>2, <1>3, <1>4, <1>10, <1>11, <1>12 DEF u

-----------------------------------------------------------------------------
(* t is what the patches of some list make of w, each listed once, and has *)
(* the markers of all of them.                                             *)
Lists(s, t) ==
  /\ s \in Seq(Patches) /\ IsInjective(s)
  /\ \A pt \in ToSet(s) : pt \in ToSet(Order) /\ Marked(t, Marker(pt))

Made(w, f, t) == \E s : Lists(s, t) /\ PutInTurn(w, f, s) = t

(* The wheel itself is made, of no patch.                                  *)
LEMMA MadeOfNothing ==
  ASSUME TextAssumption, NEW w \in Texts, NEW f
  PROVE  Made(w, f, w)
<1>1. <<>> \in Seq(Patches) /\ IsInjective(<<>>) /\ ToSet(<<>>) = {}
  BY DEF IsInjective, ToSet
<1>2. PutInTurn(w, f, <<>>) = w
  <2>1. PICK h : TurnSteps(h, w, f, <<>>) /\ h[Len(<<>>)] = PutInTurn(w, f, <<>>)
    BY <1>1, TurnChain
  <2> QED
    BY <2>1 DEF TurnSteps
<1> QED
  BY <1>1, <1>2 DEF Made, Lists

(* A patch whose marker is not there yet may be listed.                    *)
LEMMA ListGrows ==
  ASSUME NEW s, NEW t, Lists(s, t), NEW pt \in Patches, pt \in ToSet(Order), ~Marked(t, Marker(pt)),
         NEW u, \A m \in Markers : Marked(t, m) => Marked(u, m), Marked(u, Marker(pt))
  PROVE  Lists(Append(s, pt), u)
<1> DEFINE x == Append(s, pt)
           n == Len(s)
<1>1. /\ n \in Nat /\ x \in Seq(Patches) /\ Len(x) = n + 1 /\ s \in [1 .. n -> Patches]
      /\ DOMAIN s = 1 .. n /\ DOMAIN x = 1 .. n + 1
      /\ \A i \in 1 .. n : x[i] = s[i]
      /\ x[n + 1] = pt
  BY LenProperties, AppendProperties DEF Lists
<1>2. ToSet(s) = {s[i] : i \in 1 .. n} /\ ToSet(x) = {x[i] : i \in 1 .. n + 1}
  BY <1>1 DEF ToSet
<1>3. pt \notin ToSet(s)
  BY DEF Lists
<1> HIDE DEF x, n
<1>4. \A i \in 1 .. n + 1 : i \in 1 .. n \/ i = n + 1
  BY <1>1
<1>5. \A q \in ToSet(x) : q \in ToSet(s) \/ q = pt
  BY <1>1, <1>2, <1>4
<1>6. IsInjective(x)
  <2>1. \A i, j \in 1 .. n : s[i] = s[j] => i = j
    BY <1>1 DEF Lists, IsInjective
  <2>2. \A i \in 1 .. n : s[i] # pt
    BY <1>2, <1>3
  <2> QED
    BY <1>1, <1>4, <2>1, <2>2 DEF IsInjective
<1>7. ToSet(s) \subseteq Patches
  BY <1>1, <1>2
<1>8. \A q \in ToSet(s) : Marker(q) \in Markers
  BY <1>7 DEF Markers
<1>9. \A q \in ToSet(x) : q \in ToSet(Order) /\ Marked(u, Marker(q))
  BY <1>5, <1>8 DEF Lists
<1> QED
  BY <1>1, <1>6, <1>9 DEF Lists, x

(* Such a text is one of those that may be in the file. *)
LEMMA MadeIsWhole ==
  ASSUME OrderAssumption, NEW f \in Files, NEW t, Wheel[pin][f] # NoFile,
         Made(Wheel[pin][f], f, t)
  PROVE  t \in WholeTexts(f)
<1>1. PICK s : Lists(s, t) /\ PutInTurn(Wheel[pin][f], f, s) = t
  BY DEF Made
<1>2. PatchedBy(s, f) = t
  BY <1>1, PatchedByIs
<1> DEFINE n == Len(s)
           m == Len(Order)
<1>3. n \in Nat /\ s \in [1 .. n -> Patches] /\ DOMAIN s = 1 .. n /\ s \in Seq(Patches)
  BY <1>1, LenProperties DEF Lists
<1>4. m \in Nat /\ Order \in [1 .. m -> Patches] /\ DOMAIN Order = 1 .. m
  BY LenProperties DEF OrderAssumption
<1>5. s \in [1 .. n -> ToSet(Order)]
  <2>1. \A i \in 1 .. n : s[i] \in ToSet(s)
    BY <1>3 DEF ToSet
  <2> QED
    BY <1>1, <1>3, <2>1 DEF Lists
<1>6. IsFiniteSet(ToSet(Order)) /\ Cardinality(ToSet(Order)) <= m
  <2>1. Order \in Surjection(1 .. m, ToSet(Order))
    BY <1>4 DEF Surjection, ToSet
  <2>2. IsFiniteSet(1 .. m) /\ Cardinality(1 .. m) = m
    <3>1. m \in Nat
      BY <1>4
    <3> HIDE DEF m
    <3> QED
      BY <3>1, FS_Interval
  <2> QED
    BY <2>1, <2>2, FS_Surjection
<1>7. IsFiniteSet(ToSet(s)) /\ Cardinality(ToSet(s)) = n
  BY <1>1, <1>3, InjectiveLen DEF Lists
<1>8. Cardinality(ToSet(s)) <= Cardinality(ToSet(Order))
  <2>1. ToSet(s) \in SUBSET ToSet(Order)
    BY <1>1 DEF Lists
  <2> QED
    BY <1>6, <2>1, FS_Subset
<1>9. n \in 0 .. m
  <2>1. Cardinality(ToSet(Order)) \in Nat
    BY <1>6, FS_CardinalityType
  <2> HIDE DEF n, m
  <2> QED
    BY <1>3, <1>4, <1>6, <1>7, <1>8, <2>1
<1>10. s \in Selections
  <2>1. s \in {x \in [1 .. n -> ToSet(Order)] : IsInjective(x)}
    BY <1>1, <1>5 DEF Lists
  <2> HIDE DEF n
  <2> QED
    BY <1>9, <2>1 DEF Selections
<1> QED
  BY <1>2, <1>10 DEF WholeTexts

-----------------------------------------------------------------------------
(* Whatever path computes it, the text is the scan's. *)
LEMMA RewriteIsScan ==
  ASSUME ConfigAssumption, TextAssumption, ManifestsSpliceable, pin \in Pins,
         NEW pt \in Patches, NEW c \in Texts
  PROVE  RewriteNow(pt, c) = Layer5(Patch[pt], c)
<1> DEFINE pristine == Wheel[pin][File(pt)]
<1>1. CASE RewriteNow(pt, c) # Layer5(Patch[pt], c)
  <2>1. /\ pin \in ManifestPins
        /\ ~ManifestAbstains(Patch[pt], pristine, c)
        /\ RewriteNow(pt, c) = Manifest(Patch[pt], pristine)
    BY <1>1 DEF RewriteNow, Rewrite
  <2>2. c = pristine
    BY <2>1 DEF ManifestAbstains
  <2>3. pristine # NoFile
    BY <2>2 DEF TextAssumption
  <2>4. Spliceable(Patch[pt], c) /\ ~ManifestAbstains(Patch[pt], c, c)
    BY <2>1, <2>2, <2>3 DEF ManifestsSpliceable
  <2>5. Manifest(Patch[pt], c) = Layer5(Patch[pt], c)
    BY <2>4, ManifestIsScan
  <2> QED
    BY <2>1, <2>2, <2>5
<1> QED
  BY <1>1

(* So what a call has made of a made text is made too. *)
LEMMA MadeGrows ==
  ASSUME ConfigAssumption, TextAssumption, PatcherTypeOK, MarkersSurvive, ManifestsSpliceable,
         NEW p \in Procs, Fresh(p), call[p].patch \in ToSet(Order),
         NEW f, f = File(call[p].patch), Made(Wheel[pin][f], f, disk[f])
  PROVE  Made(Wheel[pin][f], f, text[p])
<1> DEFINE pt == call[p].patch
           c  == disk[f]
           w  == Wheel[pin][f]
<1>1. pt \in Patches /\ c \in Texts /\ pin \in Pins /\ w \in Texts /\ f \in Files
  <2>1. pt \in Patches /\ pin \in Pins /\ f \in Files /\ disk \in [Files -> Texts \cup {NoFile}]
    BY ReadType DEF PatcherTypeOK
  <2>2. c # NoFile /\ w # NoFile
    BY <2>1 DEF Fresh, PatcherTypeOK
  <2> QED
    BY <2>1, <2>2 DEF TextAssumption
<1>2. PICK s : Lists(s, c) /\ PutInTurn(w, f, s) = c
  BY DEF Made
<1>3. /\ Precheck(Patch[pt], c) = "ok"
      /\ RewriteNow(pt, c) = Layer5(Patch[pt], c)
      /\ Layer5(Patch[pt], c).verdict = "ok"
      /\ text[p] = Stamped(Marker(pt), Layer5(Patch[pt], c).text)
  <2>1. RewriteNow(pt, c) = Layer5(Patch[pt], c)
    BY <1>1, RewriteIsScan
  <2> QED
    BY <2>1 DEF Fresh
<1>4. text[p] = PutOn(f, c, pt)
  BY <1>3 DEF PutOn
<1>5. ~Marked(c, Marker(pt))
  BY <1>3, PrecheckFindsMarker DEF Precheck, Marker
<1>6. Marked(text[p], Marker(pt))
  <2>1. Layer5(Patch[pt], c).text \in Texts
    BY <1>1, Layer5Text
  <2> QED
    BY <1>1, <1>3, <2>1, StampedText
<1>7. \A m \in Markers : Marked(c, m) => Marked(text[p], m)
  BY FreshKeepsMarkers
<1>8. Lists(Append(s, pt), text[p])
  <2> HIDE DEF pt, c
  <2> QED
    BY <1>1, <1>2, <1>5, <1>6, <1>7, ListGrows DEF pt
<1>9. PutInTurn(w, f, Append(s, pt)) = text[p]
  <2>1. s \in Seq(Patches)
    BY <1>2 DEF Lists
  <2> HIDE DEF pt, c, w
  <2>2. PutInTurn(w, f, Append(s, pt)) = PutOn(f, PutInTurn(w, f, s), pt)
    BY <1>1, <2>1, TurnsGrow
  <2> QED
    BY <1>2, <1>4, <2>2
<1> QED
  BY <1>8, <1>9 DEF Made

-----------------------------------------------------------------------------
(* The files no write was cut short in, and what is being written to them. *)
Ordered == \A p \in Procs : call[p].at # "idle" => call[p].patch \in ToSet(Order)

FilesMade ==
  \A f \in Files \ torn : Quiet(f) /\ disk[f] # NoFile => Made(Wheel[pin][f], f, disk[f])

WritesMade ==
  \A p \in Procs :
    LET f == File(call[p].patch)
    IN  call[p].at = "write" /\ f \notin torn => Made(Wheel[pin][f], f, text[p])

WholeInv == Ordered /\ FilesMade /\ WritesMade

(* This is all that is claimed of the files.                               *)
LEMMA InvIsWhole ==
  ASSUME OrderAssumption, PatcherTypeOK, WholeInv
  PROVE  FilesWhole
<1> SUFFICES ASSUME NEW f \in Files \ torn, Quiet(f)
             PROVE  disk[f] \in WholeTexts(f)
  BY DEF FilesWhole
<1>1. disk[f] = NoFile <=> Wheel[pin][f] = NoFile
  BY DEF PatcherTypeOK
<1>2. CASE disk[f] = NoFile
  BY <1>1, <1>2 DEF WholeTexts
<1>3. CASE disk[f] # NoFile
  <2>1. Made(Wheel[pin][f], f, disk[f])
    BY <1>3 DEF WholeInv, FilesMade
  <2> QED
    BY <1>1, <1>3, <2>1, MadeIsWhole
<1> QED
  BY <1>2, <1>3

(* A step after which nobody writes but who did before, and that changes   *)
(* no file that is not torn then.                                          *)
LEMMA QuietStepKeepsWhole ==
  ASSUME WholeInv, UNCHANGED pin, torn \subseteq torn',
         \A q \in Procs : call'[q].at # "idle" => call'[q].patch \in ToSet(Order),
         \A q \in Procs : call'[q].at = "write" =>
            call[q].at = "write" /\ call'[q].patch = call[q].patch /\ text'[q] = text[q],
         \A q \in Procs : call[q].at = "write" =>
            (call'[q].at = "write" /\ call'[q].patch = call[q].patch)
            \/ File(call[q].patch) \in torn',
         \A f \in Files \ torn' : disk'[f] = disk[f]
  PROVE  WholeInv'
<1>1. Ordered'
  BY DEF Ordered
<1>2. FilesMade'
  BY DEF WholeInv, FilesMade, Quiet
<1>3. WritesMade'
  BY DEF WholeInv, WritesMade
<1> QED
  BY <1>1, <1>2, <1>3 DEF WholeInv

(* The files a container starts with are made.                             *)
LEMMA InitWhole ==
  ASSUME ConfigAssumption, TextAssumption, Init
  PROVE  WholeInv
<1>1. /\ disk = Wheel[pin] /\ pin \in Pins
      /\ \A p \in Procs : call[p].at = "idle"
  BY InitPatcherType DEF Init, PatcherInit
<1>2. \A f \in Files : disk[f] # NoFile => Made(Wheel[pin][f], f, disk[f])
  BY <1>1, MadeOfNothing DEF TextAssumption
<1> QED
  BY <1>1, <1>2 DEF WholeInv, Ordered, FilesMade, WritesMade

(* A step of the call of the one process in the loop. *)
LEMMA StepKeepsWhole ==
  ASSUME ConfigAssumption, TextAssumption, MarkersSurvive, ManifestsSpliceable,
         PatcherTypeOK, PatcherInv, WholeInv,
         NEW p \in Procs, Alone(p), PatcherStep(p), UNCHANGED torn
  PROVE  WholeInv'
<1> DEFINE pt == call[p].patch
           f  == File(pt)
<1>1. /\ call[p].at # "idle" /\ call'[p].patch = pt /\ UNCHANGED pin
      /\ \A q \in Procs \ {p} : call'[q] = call[q] /\ call[q].at = "idle"
      /\ f \in Files /\ pt \in Patches /\ call \in [Procs -> Calls]
  BY StepFrame, ReadType DEF Alone, PatcherTypeOK, Calls
<1>2. Ordered'
  BY <1>1 DEF WholeInv, Ordered
<1>3. CASE ~Truncate(p) /\ ~Write(p)
  <2>1. /\ UNCHANGED disk
        /\ \/ \E pc \in {"load", "open", "record", "done"} : call' = Goto(p, pc)
           \/ \E pc \in {"record", "done"} : \E r : call' = Moved(p, pc, r)
        /\ call[p].at # "write"
    BY <1>3 DEF PatcherStep, Layer0, LoadSkips, LoadFindsMarker, LoadRewrites, Reread, Record,
                Return, Moved
  <2>2. call'[p].at # "write"
    BY <1>1, <2>1 DEF Goto, Moved, Calls
  <2> QED
    BY <1>1, <1>2, <2>1, <2>2, QuietStepKeepsWhole DEF Ordered
<1>4. CASE Truncate(p)
  <2>1. /\ call[p].at = "open" /\ Fresh(p)
        /\ disk' = [disk EXCEPT ![f] = <<>>] /\ UNCHANGED text
        /\ call' = Goto(p, "write")
    BY <1>4 DEF Truncate, PutFile, PatcherInv, CallsOK, CallOK
  <2>2. call'[p].at = "write"
    BY <1>1, <2>1 DEF Goto, Calls
  <2>3. /\ \A g \in Files : g # f => disk'[g] = disk[g]
        /\ \A g \in Files : Quiet(g)
        /\ ~Quiet(f)'
    BY <1>1, <2>1, <2>2 DEF Quiet, PatcherTypeOK
  <2>4. FilesMade'
    BY <1>1, <2>3 DEF WholeInv, FilesMade
  <2>5. f \notin torn => Made(Wheel[pin][f], f, text[p])
    <3>1. pt \in ToSet(Order)
      BY <1>1 DEF WholeInv, Ordered
    <3>2. disk[f] # NoFile
      BY <2>1 DEF Fresh
    <3>3. f \notin torn => Made(Wheel[pin][f], f, disk[f])
      BY <1>1, <2>3, <3>2 DEF WholeInv, FilesMade
    <3> QED
      BY <2>1, <3>1, <3>3, MadeGrows
  <2>6. WritesMade'
    BY <1>1, <2>1, <2>2, <2>5 DEF WritesMade
  <2> QED
    BY <1>2, <2>4, <2>6 DEF WholeInv
<1>5. CASE Write(p)
  <2>1. /\ call[p].at = "write" /\ ~call[p].orphan /\ disk[f] = <<>>
        /\ PutWritten(p, Len(text[p])) /\ call' = Goto(p, "reread")
    BY <1>5 DEF Write, PatcherInv, CallsOK, CallOK
  <2>2. Overlay(p, Len(text[p])) = text[p]
    <3>1. Len(text[p]) \in 0 .. Len(text[p])
      <4>1. Len(text[p]) \in Nat
        BY LenProperties DEF PatcherTypeOK, Texts
      <4> QED
        BY <4>1
    <3>2. disk[f] \in Texts
      BY <2>1 DEF Texts
    <3> QED
      BY <2>1, <3>1, <3>2, OverlayText
  <2>3. disk' = [disk EXCEPT ![f] = text[p]]
    BY <2>1, <2>2 DEF PutWritten, PutFile
  <2>4. call'[p].at # "write"
    BY <1>1, <2>1 DEF Goto, Calls
  <2>5. /\ disk'[f] = text[p]
        /\ \A g \in Files : g # f => disk'[g] = disk[g] /\ Quiet(g)
    BY <1>1, <2>3 DEF Quiet, PatcherTypeOK
  <2>6. f \notin torn => Made(Wheel[pin][f], f, text[p])
    BY <2>1 DEF WholeInv, WritesMade
  <2>7. FilesMade'
    BY <1>1, <2>5, <2>6 DEF WholeInv, FilesMade
  <2>8. WritesMade'
    BY <1>1, <2>4 DEF WritesMade
  <2> QED
    BY <1>2, <2>7, <2>8 DEF WholeInv
<1> QED
  BY <1>3, <1>4, <1>5

(* Every action of the loop and around it keeps the files so.              *)
LEMMA NextWhole ==
  ASSUME ConfigAssumption, TextAssumption, OrderAssumption, Exclusive, MarkersSurvive,
         ManifestsSpliceable, LoopInv, WholeInv, [Next]_vars
  PROVE  WholeInv'
<1>0. TypeInv /\ OneLoop /\ PatcherInv /\ PatcherTypeOK /\ LoopTypes /\ Lodged
  BY DEF LoopInv, TypeInv
<1>1. ASSUME NEW p \in Procs, Start(p)
      PROVE  WholeInv'
  <2>1. UNCHANGED <<disk, pin, call, text, torn>>
    BY <1>1 DEF Start, patcherVars
  <2> QED
    BY <2>1, QuietStepKeepsWhole DEF WholeInv, Ordered
<1>2. ASSUME NEW p \in Procs, ApplyNext(p)
      PROVE  WholeInv'
  <2>1. /\ call[p].at = "idle"
        /\ call' = [call EXCEPT ![p] = [Idle(Order[next[p]]) EXCEPT !.at = "layer0"]]
        /\ UNCHANGED <<disk, pin, text, torn>>
    BY <1>2 DEF ApplyNext, Begin, loopVars
  <2>2. /\ \A q \in Procs \ {p} : call'[q] = call[q]
        /\ call'[p].at = "layer0" /\ call'[p].patch = Order[next[p]]
    <3> DEFINE e == [Idle(Order[next[p]]) EXCEPT !.at = "layer0"]
    <3>1. e.at = "layer0" /\ e.patch = Order[next[p]]
      BY DEF Idle
    <3> HIDE DEF e
    <3>2. call' = [call EXCEPT ![p] = e]
      BY <2>1 DEF e
    <3> QED
      BY <1>0, <3>1, <3>2 DEF PatcherTypeOK
  <2>3. Order[next[p]] \in ToSet(Order)
    <3>1. next[p] \in DOMAIN Order
      BY <1>0, <1>2, LenProperties DEF ApplyNext, OrderAssumption, LoopTypes
    <3> QED
      BY <3>1 DEF ToSet
  <2> QED
    BY <2>1, <2>2, <2>3, QuietStepKeepsWhole DEF WholeInv, Ordered
<1>3. ASSUME NEW p \in Procs, Patching(p)
      PROVE  WholeInv'
  <2>1. PatcherStep(p) /\ UNCHANGED torn
    BY <1>3 DEF Patching, loopVars
  <2>2. Alone(p)
    BY <1>0, <2>1, StepFrame, InLoopAlone
  <2> QED
    BY <1>0, <2>1, <2>2, StepKeepsWhole
<1>4. ASSUME NEW p \in Procs, Fault(p)
      PROVE  WholeInv'
  <2>1. /\ PatcherFault(p)
        /\ torn' = IF call[p].at = "write" THEN torn \cup {File(call[p].patch)} ELSE torn
    BY <1>4 DEF Fault
  <2>2. Alone(p) /\ call[p].at # "idle" /\ UNCHANGED pin
    BY <1>0, <2>1, StepFrame, InLoopAlone
  <2>3. /\ call'[p].at = "done" /\ call'[p].patch = call[p].patch
        /\ \A q \in Procs \ {p} : call'[q] = call[q]
        /\ \A f \in Files : disk'[f] # disk[f] => f = File(call[p].patch)
        /\ call[p].at # "write" => disk' = disk
    BY <1>0, <2>1, <2>2, FaultKeepsInv
  <2>4. \A f \in Files \ torn' : disk'[f] = disk[f]
    BY <2>1, <2>3
  <2>5. \A q \in Procs \ {p} : call[q].at = "idle"
    BY <2>2 DEF Alone
  <2> QED
    BY <2>1, <2>2, <2>3, <2>4, <2>5, QuietStepKeepsWhole DEF WholeInv, Ordered
<1>5. ASSUME NEW p \in Procs, Collect(p)
      PROVE  WholeInv'
  <2>1. /\ call[p].at = "done"
        /\ call' = [call EXCEPT ![p] = Idle(call[p].patch)]
        /\ text' = [text EXCEPT ![p] = <<>>]
        /\ UNCHANGED <<disk, pin, torn>>
    BY <1>5 DEF Collect
  <2>2. /\ \A q \in Procs \ {p} : call'[q] = call[q] /\ text'[q] = text[q]
        /\ call'[p].at = "idle"
    BY <1>0, <2>1 DEF PatcherTypeOK, Idle
  <2> QED
    BY <2>1, <2>2, QuietStepKeepsWhole DEF WholeInv, Ordered
<1>6. ASSUME NEW p \in Procs, Finish(p)
      PROVE  WholeInv'
  <2>1. UNCHANGED <<disk, pin, call, text, torn>>
    BY <1>6 DEF Finish
  <2> QED
    BY <2>1, QuietStepKeepsWhole DEF WholeInv, Ordered
<1>7. ASSUME NEW p \in Procs, Crash(p)
      PROVE  WholeInv'
  <2>1. /\ \E c : Wrote(File(call[p].patch), c)
        /\ call' = [call EXCEPT ![p] = Idle(call[p].patch)]
        /\ text' = [text EXCEPT ![p] = <<>>]
        /\ UNCHANGED pin
    BY <1>0, <1>7, CrashIs
  <2>2. /\ \A q \in Procs \ {p} : call'[q] = call[q] /\ text'[q] = text[q]
        /\ call'[p].at = "idle"
    BY <1>0, <2>1 DEF PatcherTypeOK, Idle
  <2>3. /\ torn \subseteq torn'
        /\ call[p].at = "write" => File(call[p].patch) \in torn'
        /\ call[p].at # "write" => UNCHANGED disk
    BY <1>7 DEF Crash
  <2>4. \A f \in Files : f # File(call[p].patch) => disk'[f] = disk[f]
    BY <1>0, <2>1 DEF Wrote, PutFile, PatcherTypeOK
  <2>5. \A f \in Files \ torn' : disk'[f] = disk[f]
    BY <2>3, <2>4
  <2> QED
    BY <2>1, <2>2, <2>3, <2>5, QuietStepKeepsWhole DEF WholeInv, Ordered
<1>8. ASSUME NEW f \in Files, Restore(f)
      PROVE  WholeInv'
  <2>1. /\ disk[f] # NoFile /\ disk' = [disk EXCEPT ![f] = Wheel[pin][f]]
        /\ torn' = torn \ {f}
        /\ UNCHANGED <<pin, call>>
        /\ \A p \in Procs : call[p].at = "idle"
    BY <1>0, <1>8 DEF Restore, Lodged, Booting
  <2>2. Wheel[pin][f] \in Texts
    BY <1>0, <2>1 DEF PatcherTypeOK, TextAssumption
  <2>3. Made(Wheel[pin][f], f, Wheel[pin][f])
    BY <2>2, MadeOfNothing
  <2>4. /\ disk'[f] = Wheel[pin][f]
        /\ \A g \in Files : g # f => disk'[g] = disk[g]
    BY <1>0, <2>1 DEF PatcherTypeOK
  <2>5. FilesMade'
    BY <2>1, <2>3, <2>4 DEF WholeInv, FilesMade, Quiet
  <2> QED
    BY <2>1, <2>5 DEF WholeInv, Ordered, WritesMade
<1>9. ASSUME NEW v \in Pins, Install(v)
      PROVE  WholeInv'
  <2>1. /\ pin' = v /\ disk' = Wheel[v] /\ UNCHANGED call
        /\ \A p \in Procs : call[p].at = "idle"
    BY <1>0, <1>9 DEF Install, Lodged
  <2>2. \A f \in Files : Wheel[v][f] # NoFile => Made(Wheel[v][f], f, Wheel[v][f])
    BY MadeOfNothing DEF TextAssumption
  <2> QED
    BY <2>1, <2>2 DEF WholeInv, Ordered, FilesMade, WritesMade
<1>10. CASE UNCHANGED vars
  <2>1. UNCHANGED <<disk, pin, call, text, torn>>
    BY <1>10 DEF vars, patcherVars, loopVars
  <2> QED
    BY <2>1, QuietStepKeepsWhole DEF WholeInv, Ordered
<1> QED
  BY <1>1, <1>2, <1>3, <1>4, <1>5, <1>6, <1>7, <1>8, <1>9, <1>10 DEF Next, ProcStep

(* While no two processes are in the loop at once, no edit erases a marker  *)
(* and the manifests are safe for their patchers, the file system is what   *)
(* the anchor scan alone would have made: a file no write was cut short in  *)
(* is the wheel's with some of the patches applied, each once, whatever     *)
(* path (cache, manifest, scan) each boot took and whatever crashes,        *)
(* failing writes, restored files and new wheels came between.              *)
THEOREM FilesAreWhole ==
  Exclusive /\ MarkersSurvive /\ ManifestsSpliceable => (Spec => []FilesWhole)
<1> SUFFICES ASSUME Exclusive, MarkersSurvive, ManifestsSpliceable
             PROVE  Spec => []FilesWhole
  OBVIOUS
<1>1. Init => LoopInv /\ WholeInv
  BY ConfigAssumption, TextAssumption, InitLoopInv, InitWhole
<1>2. LoopInv /\ WholeInv /\ [Next]_vars => (LoopInv /\ WholeInv)'
  BY ConfigAssumption, TextAssumption, OrderAssumption, NextLoopInv, NextWhole
<1>3. LoopInv /\ WholeInv => FilesWhole
  BY OrderAssumption, InvIsWhole DEF LoopInv, TypeInv
<1> QED
  BY <1>1, <1>2, <1>3, PTL DEF Spec

-----------------------------------------------------------------------------
(* A second run of the loop.                                               *)

(* A content that pt leaves as it is. *)
Declines(pt, c) ==
  \/ c = NoFile \/ File(pt) \in ReadOnly
  \/ Precheck(Patch[pt], c) # "ok" \/ RewriteNow(pt, c).verdict # "ok"

(* A patch after the i-th one has its marker in the content c of the file. *)
Overtaken(i, c) ==
  \E k \in DOMAIN Order :
    i < k /\ File(Order[k]) = File(Order[i]) /\ Marked(c, Marker(Order[k]))

Rests(i, c) == Declines(Order[i], c) \/ Overtaken(i, c)

(* What f holds, or is about to hold when p has written. *)
Seen(p, f) == IF call[p].at = "write" /\ File(call[p].patch) = f THEN text[p] ELSE disk[f]

(* A process works on the patch at hand, and one that has made its mind up  *)
(* not to write has its reason in the file.                                 *)
AtHand(p) ==
  /\ call[p].at # "idle" => /\ next[p] \in DOMAIN Order
                            /\ call[p].patch = Order[next[p]]
  /\ call[p].at = "open" => File(call[p].patch) \notin ReadOnly
  /\ call[p].at = "done" /\ call[p].result \notin {"APPLIED", "IDEMPOTENT"}
       => \/ settled = "no"
          \/ Declines(call[p].patch, disk[File(call[p].patch)])

(* In an undisturbed run each patch gone through leaves what its file holds *)
(* as it is, or was overtaken.                                              *)
GoneBy ==
  settled = "boot" => \A p \in Booting : \A i \in DOMAIN Order :
    i < next[p] => Rests(i, Seen(p, File(Order[i])))

(* After it all of them do, and nobody writes. *)
AllRest ==
  settled = "yes" =>
    /\ \A i \in DOMAIN Order : Rests(i, disk[File(Order[i])])
    /\ \A p \in Procs : call[p].at # "write"

RebootInv == (\A p \in Procs : AtHand(p)) /\ GoneBy /\ AllRest

LEMMA MarkedDeclines ==
  ASSUME NEW pt \in Patches, NEW c, Marked(c, Marker(pt))
  PROVE  Declines(pt, c)
<1>1. Marked(c, Patch[pt].marker)
  BY DEF Marker
<1>2. Precheck(Patch[pt], c) = "idempotent"
  BY <1>1 DEF Precheck
<1> QED
  BY <1>2 DEF Declines

(* The load of a patch that declines leaves it at that. *)
LEMMA LoadDeclines ==
  ASSUME NEW p \in Procs, LoadSkips(p)
  PROVE  Declines(call[p].patch, disk[File(call[p].patch)])
BY DEF LoadSkips, Declines

(* Each step of the call at hand. *)
LEMMA StepKeepsReboot ==
  ASSUME ConfigAssumption, TextAssumption, OrderAssumption,
         PatcherTypeOK, PatcherInv, RebootInv,
         NEW p \in Procs, Alone(p), Booting = {p}, Patching(p)
  PROVE  /\ RebootInv'
         /\ settled = "yes" => UNCHANGED <<disk, stamp>> \/ CatchesUp(p)
<1> DEFINE pt == call[p].patch
           f  == File(pt)
<1>1. /\ call[p].at # "idle" /\ call'[p].patch = pt
      /\ \A q \in Procs \ {p} : call'[q] = call[q] /\ call[q].at = "idle"
      /\ f \in Files /\ pt \in Patches /\ call \in [Procs -> Calls] /\ CallOK(p)
  BY StepFrame, ReadType DEF Patching, Alone, PatcherTypeOK, Calls, PatcherInv, CallsOK
<1>2. /\ Booting' = {p} /\ next' = next /\ pin' = pin
      /\ settled' = IF settled = "yes" /\ call[p].at = "open" THEN "boot" ELSE settled
      /\ next[p] \in DOMAIN Order /\ pt = Order[next[p]]
      /\ call[p].at = "open" => f \notin ReadOnly
  <2>1. pin' = pin
    BY DEF Patching, PatcherStep, Layer0, LoadSkips, LoadFindsMarker, LoadRewrites, Truncate,
           Write, Reread, Record
  <2> QED
    BY <1>1, <2>1 DEF Patching, Booting, RebootInv, AtHand
<1>9. \A i \in DOMAIN Order : Order[i] \in Patches /\ File(Order[i]) \in Files
  <2>1. \A i \in 1 .. Len(Order) : Order[i] \in Patches
    BY LenProperties, ElementOfSeq DEF OrderAssumption
  <2>2. DOMAIN Order = 1 .. Len(Order)
    BY LenProperties DEF OrderAssumption
  <2> QED
    BY <2>1, <2>2, TargetType
<1>3. ASSUME call'[p].at = "open" => f \notin ReadOnly,
             call'[p].at = "done" /\ call'[p].result \notin {"APPLIED", "IDEMPOTENT"}
               => settled = "no" \/ Declines(pt, disk'[f])
      PROVE  \A q \in Procs : AtHand(q)'
  BY <1>1, <1>2, <1>3 DEF AtHand, Declines, RewriteNow
<1>4. CASE ~Truncate(p) /\ ~Write(p)
  <2>1. /\ UNCHANGED <<disk, stamp>>
        /\ \/ LoadSkips(p)
           \/ LoadRewrites(p) /\ call' = Goto(p, "open")
           \/ call[p].at = "layer0" /\ call' = Goto(p, "load")
           \/ call[p].at = "record" /\ call' = Goto(p, "done")
           \/ \E pc \in {"record", "done"} : \E r \in {"APPLIED", "IDEMPOTENT"} : call' = Moved(p, pc, r)
        /\ call[p].at # "write"
    <3>1. Reread(p) => call' = Moved(p, "record", "APPLIED")
      BY <1>1 DEF Reread, CallOK, Moved
    <3> QED
      BY <1>4, <3>1 DEF Patching, PatcherStep, Layer0, LoadSkips, LoadFindsMarker, LoadRewrites,
                        Reread, Record, Return, Moved
  <2>2. /\ call'[p].at # "write"
        /\ call'[p].at = "open" => LoadRewrites(p)
        /\ call'[p].at = "done" /\ call'[p].result \notin {"APPLIED", "IDEMPOTENT"} => LoadSkips(p)
    <3>1. CASE LoadSkips(p)
      BY <1>1, <3>1 DEF LoadSkips, Return, Calls
    <3>2. CASE call' = Goto(p, "open") /\ LoadRewrites(p)
      BY <1>1, <3>2 DEF Goto, Calls
    <3>3. CASE call' = Goto(p, "load")
      BY <1>1, <3>3 DEF Goto, Calls
    <3>4. CASE call[p].at = "record" /\ call' = Goto(p, "done")
      BY <1>1, <3>4 DEF Goto, Calls, CallOK
    <3>5. CASE \E pc \in {"record", "done"} : \E r \in {"APPLIED", "IDEMPOTENT"} : call' = Moved(p, pc, r)
      BY <1>1, <3>5 DEF Moved, Calls
    <3> QED
      BY <2>1, <3>1, <3>2, <3>3, <3>4, <3>5
  <2>3. \A q \in Procs : AtHand(q)'
    <3>1. LoadRewrites(p) => f \notin ReadOnly
      BY DEF LoadRewrites
    <3>2. LoadSkips(p) => Declines(pt, disk'[f])
      BY <2>1, LoadDeclines
    <3> QED
      BY <1>3, <2>2, <3>1, <3>2
  <2>4. \A i \in DOMAIN Order : Rests(i, disk[File(Order[i])]) => Rests(i, disk[File(Order[i])])'
    BY <1>2, <2>1 DEF Rests, Declines, RewriteNow, Overtaken
  <2>5. settled' = settled
    <3>1. call[p].at # "open"
      BY <1>4 DEF Patching, PatcherStep, Layer0, LoadSkips, LoadFindsMarker, LoadRewrites, Reread, Record
    <3> QED
      BY <1>2, <3>1
  <2>6. GoneBy' /\ AllRest'
    BY <1>1, <1>2, <2>1, <2>2, <2>4, <2>5 DEF RebootInv, GoneBy, AllRest, Seen
  <2> QED
    BY <2>1, <2>3, <2>6 DEF RebootInv
<1>5. CASE Truncate(p)
  <2>1. /\ call[p].at = "open" /\ Fresh(p) /\ Marked(text[p], Marker(pt))
        /\ disk' = [disk EXCEPT ![f] = <<>>] /\ UNCHANGED text
        /\ call' = Goto(p, "write")
    BY <1>1, <1>5 DEF Truncate, PutFile, CallOK
  <2>2. call'[p].at = "write"
    BY <1>1, <2>1 DEF Goto, Calls
  <2>3. settled' # "yes" /\ (settled' = "boot" => settled \in {"boot", "yes"})
    BY <1>2, <2>1
  <2>4. \A g \in Files : g # f => disk'[g] = disk[g]
    BY <2>1 DEF PatcherTypeOK
  <2>5. ASSUME settled' = "boot", NEW i \in DOMAIN Order, i < next[p]
        PROVE  Rests(i, Seen(p, File(Order[i])))'
    <3>1. File(Order[i]) \in Files
      BY <1>9
    <3>2. Rests(i, disk[File(Order[i])])
      BY <2>1, <2>3, <2>5 DEF RebootInv, GoneBy, AllRest, Seen
    <3>3. CASE File(Order[i]) = f
      <4>1. Seen(p, File(Order[i]))' = text[p]
        BY <1>1, <2>1, <2>2, <3>3 DEF Seen
      <4>2. Overtaken(i, text[p])
        BY <1>2, <2>1, <2>5, <3>3 DEF Overtaken
      <4> QED
        BY <4>1, <4>2 DEF Rests, Overtaken
    <3>4. CASE File(Order[i]) # f
      <4>1. Seen(p, File(Order[i]))' = disk[File(Order[i])]
        BY <1>1, <2>4, <3>1, <3>4 DEF Seen
      <4> QED
        BY <1>2, <3>2, <4>1 DEF Rests, Declines, RewriteNow, Overtaken
    <3> QED
      BY <3>3, <3>4
  <2>6. GoneBy'
    BY <1>2, <2>5 DEF GoneBy
  <2>7. \A q \in Procs : AtHand(q)'
    BY <1>3, <2>2
  <2>8. settled = "yes" => CatchesUp(p)
    <3>1. ~Declines(pt, disk[f])
      BY <1>2, <2>1 DEF Fresh, Declines
    <3>2. settled = "yes" => Overtaken(next[p], disk[f])
      BY <1>2, <3>1 DEF RebootInv, AllRest, Rests
    <3> QED
      BY <1>2, <2>1, <3>2 DEF CatchesUp, Overtaken
  <2> QED
    BY <2>3, <2>6, <2>7, <2>8 DEF RebootInv, AllRest
<1>6. CASE Write(p)
  <2>1. /\ call[p].at = "write" /\ ~call[p].orphan /\ disk[f] = <<>>
        /\ PutWritten(p, Len(text[p])) /\ call' = Goto(p, "reread")
    BY <1>1, <1>6 DEF Write, CallOK
  <2>2. Overlay(p, Len(text[p])) = text[p]
    <3>1. Len(text[p]) \in 0 .. Len(text[p])
      <4>1. Len(text[p]) \in Nat
        BY LenProperties DEF PatcherTypeOK, Texts
      <4> QED
        BY <4>1
    <3>2. disk[f] \in Texts
      BY <2>1 DEF Texts
    <3> QED
      BY <2>1, <3>1, <3>2, OverlayText
  <2>3. disk' = [disk EXCEPT ![f] = text[p]]
    BY <2>1, <2>2 DEF PutWritten, PutFile
  <2>4. call'[p].at = "reread"
    BY <1>1, <2>1 DEF Goto, Calls
  <2>5. /\ disk'[f] = text[p]
        /\ \A g \in Files : g # f => disk'[g] = disk[g]
    BY <1>1, <2>3 DEF PatcherTypeOK
  <2>6. settled # "yes" /\ settled' = settled
    BY <1>2, <2>1 DEF RebootInv, AllRest
  <2>7. \A g \in Files : Seen(p, g)' = Seen(p, g)
    BY <1>1, <2>1, <2>4, <2>5 DEF Seen
  <2>8. \A i \in DOMAIN Order : File(Order[i]) \in Files
    BY <1>9
  <2>9. GoneBy'
    BY <1>2, <2>6, <2>7, <2>8 DEF RebootInv, GoneBy, Rests, Declines, RewriteNow, Overtaken
  <2>10. \A q \in Procs : AtHand(q)'
    BY <1>3, <2>4
  <2> QED
    BY <1>2, <2>6, <2>9, <2>10 DEF RebootInv, AllRest
<1> QED
  BY <1>4, <1>5, <1>6

(* A process that is not at work keeps its reasons. *)
LEMMA StaysAtHand ==
  ASSUME NEW q \in Procs, AtHand(q),
         call'[q].at = "idle" \/ (call'[q] = call[q] /\ next'[q] = next[q]),
         settled' = "no" \/ (settled' = settled /\ disk' = disk /\ pin' = pin)
  PROVE  AtHand(q)'
BY DEF AtHand, Declines, RewriteNow

(* While file and version stay, so does what leaves it as it is. *)
LEMMA RestsStay ==
  ASSUME disk' = disk, pin' = pin, NEW i \in DOMAIN Order, Rests(i, disk[File(Order[i])])
  PROVE  Rests(i, disk[File(Order[i])])'
BY DEF Rests, Declines, RewriteNow, Overtaken

LEMMA InitReboot ==
  ASSUME ConfigAssumption, TextAssumption, Init
  PROVE  RebootInv
<1>1. settled = "no" /\ \A p \in Procs : call[p].at = "idle"
  BY InitPatcherType DEF Init, PatcherInit
<1> QED
  BY <1>1 DEF RebootInv, AtHand, GoneBy, AllRest

(* Every action of the loop and around it. *)
LEMMA NextReboot ==
  ASSUME ConfigAssumption, TextAssumption, OrderAssumption, Exclusive,
         LoopInv, RebootInv, [Next]_vars
  PROVE  /\ RebootInv'
         /\ settled = "yes" /\ ops' = ops /\ ~UNCHANGED <<disk, stamp>>
              => \E p \in Booting : CatchesUp(p)
<1>0. /\ TypeInv /\ OneLoop /\ PatcherInv /\ PatcherTypeOK /\ LoopTypes /\ Lodged
      /\ DOMAIN Order = 1 .. Len(Order) /\ Len(Order) \in Nat
      /\ \A i \in DOMAIN Order : Order[i] \in Patches
  <2>1. /\ TypeInv /\ OneLoop /\ PatcherInv /\ PatcherTypeOK /\ LoopTypes /\ Lodged
    BY DEF LoopInv, TypeInv
  <2>2. DOMAIN Order = 1 .. Len(Order) /\ Len(Order) \in Nat
    BY LenProperties DEF OrderAssumption
  <2>3. \A i \in 1 .. Len(Order) : Order[i] \in Patches
    BY ElementOfSeq DEF OrderAssumption
  <2> QED
    BY <2>1, <2>2, <2>3
<1>1. ASSUME NEW p \in Procs, Start(p)
      PROVE  RebootInv' /\ UNCHANGED <<disk, stamp>>
  <2>1. /\ UNCHANGED <<disk, stamp, pin, call, text>> /\ Booting = {}
        /\ next' = [next EXCEPT ![p] = 1]
        /\ phase' = [phase EXCEPT ![p] = "boot"]
        /\ settled = "yes" => settled' = "yes"
        /\ settled # "yes" => settled' = "boot"
    BY <1>1 DEF Start, patcherVars
  <2>2. \A q \in Procs : call[q].at = "idle"
    BY <1>0, <2>1 DEF Lodged, Booting
  <2>3. \A q \in Procs : AtHand(q)'
    BY <2>1, <2>2 DEF AtHand
  <2>4. Booting' = {p} /\ next'[p] = 1
    BY <1>0, <2>1 DEF Booting, LoopTypes
  <2>5. GoneBy'
    BY <1>0, <2>4 DEF GoneBy
  <2>6. AllRest'
    BY <1>0, <2>1, RestsStay DEF AllRest, RebootInv
  <2> QED
    BY <2>1, <2>3, <2>5, <2>6 DEF RebootInv
<1>2. ASSUME NEW p \in Procs, ApplyNext(p)
      PROVE  RebootInv' /\ UNCHANGED <<disk, stamp>>
  <2>1. /\ call[p].at = "idle" /\ phase[p] = "boot" /\ next[p] <= Len(Order)
        /\ call' = [call EXCEPT ![p] = [Idle(Order[next[p]]) EXCEPT !.at = "layer0"]]
        /\ UNCHANGED <<disk, stamp, pin, text, next, settled, phase>>
    BY <1>2 DEF ApplyNext, Begin, loopVars
  <2>2. /\ \A q \in Procs \ {p} : call'[q] = call[q]
        /\ call'[p].at = "layer0" /\ call'[p].patch = Order[next[p]]
    <3> DEFINE e == [Idle(Order[next[p]]) EXCEPT !.at = "layer0"]
    <3>1. e.at = "layer0" /\ e.patch = Order[next[p]]
      BY DEF Idle
    <3> HIDE DEF e
    <3>2. call' = [call EXCEPT ![p] = e]
      BY <2>1 DEF e
    <3> QED
      BY <1>0, <3>1, <3>2 DEF PatcherTypeOK
  <2>3. next[p] \in DOMAIN Order
    BY <1>0, <2>1 DEF LoopTypes
  <2>4. AtHand(p)'
    BY <2>1, <2>2, <2>3 DEF AtHand
  <2>5. \A q \in Procs : AtHand(q)'
    BY <2>1, <2>2, <2>4, StaysAtHand DEF RebootInv
  <2>6. Booting = {p} /\ Booting' = {p}
    BY <1>0, <2>1, InLoopAlone DEF Booting
  <2>7. GoneBy'
    <3>1. ASSUME settled = "boot", NEW i \in DOMAIN Order, i < next[p]
          PROVE  Rests(i, disk[File(Order[i])])'
      <4>1. Rests(i, disk[File(Order[i])])
        BY <2>1, <2>6, <3>1 DEF RebootInv, GoneBy, Seen
      <4> QED
        BY <2>1, <4>1, RestsStay
    <3> QED
      BY <2>1, <2>2, <2>6, <3>1 DEF GoneBy, Seen
  <2>8. AllRest'
    BY <2>1, <2>2, RestsStay DEF AllRest, RebootInv
  <2> QED
    BY <2>1, <2>5, <2>7, <2>8 DEF RebootInv
<1>3. ASSUME NEW p \in Procs, Patching(p)
      PROVE  RebootInv' /\ (settled = "yes" => UNCHANGED <<disk, stamp>> \/ CatchesUp(p)) /\ p \in Booting
  <2>1. PatcherStep(p)
    BY <1>3 DEF Patching
  <2>2. Alone(p) /\ Booting = {p}
    BY <1>0, <2>1, StepFrame, InLoopAlone
  <2> QED
    BY <1>0, <1>3, <2>2, StepKeepsReboot
<1>4. ASSUME NEW p \in Procs, Fault(p)
      PROVE  RebootInv' /\ ops' # ops
  <2>1. PatcherFault(p) /\ settled' = "no" /\ UNCHANGED next /\ ops' # ops
    BY <1>0, <1>4 DEF Fault, LoopTypes
  <2>2. Alone(p) /\ call[p].at # "idle"
    BY <1>0, <2>1, StepFrame, InLoopAlone
  <2>3. /\ call'[p].patch = call[p].patch
        /\ \A q \in Procs \ {p} : call'[q] = call[q]
    BY <1>0, <2>1, StepFrame
  <2>4. \A q \in Procs \ {p} : AtHand(q)'
    BY <2>1, <2>3, StaysAtHand DEF RebootInv
  <2>5. call'[p].at # "open"
    BY <1>0, <2>1, <2>2, FaultKeepsInv
  <2>6. AtHand(p)'
    BY <2>1, <2>2, <2>3, <2>5 DEF AtHand, RebootInv
  <2> QED
    BY <2>1, <2>4, <2>6 DEF RebootInv, GoneBy, AllRest
<1>5. ASSUME NEW p \in Procs, Collect(p)
      PROVE  RebootInv' /\ UNCHANGED <<disk, stamp>>
  <2>1. /\ call[p].at = "done" /\ phase[p] = "boot"
        /\ call' = [call EXCEPT ![p] = Idle(call[p].patch)]
        /\ next' = [next EXCEPT ![p] = @ + 1]
        /\ UNCHANGED <<disk, stamp, pin, settled, phase>>
    BY <1>5 DEF Collect
  <2>2. /\ \A q \in Procs \ {p} : call'[q] = call[q] /\ next'[q] = next[q]
        /\ call'[p].at = "idle" /\ next'[p] = next[p] + 1 /\ next[p] \in Nat
    BY <1>0, <2>1 DEF PatcherTypeOK, LoopTypes, Idle
  <2>3. Booting = {p} /\ Booting' = {p}
    BY <1>0, <2>1, InLoopAlone DEF Booting
  <2>4. \A q \in Procs : AtHand(q)'
    BY <2>1, <2>2, StaysAtHand DEF RebootInv
  <2>5. \A f : Seen(p, f) = disk[f] /\ Seen(p, f)' = disk[f]
    BY <2>1, <2>2 DEF Seen
  <2>6. settled = "boot" => Declines(Order[next[p]], disk[File(Order[next[p]])])
    <3>1. /\ next[p] \in DOMAIN Order /\ call[p].patch = Order[next[p]]
          /\ call[p].result \notin {"APPLIED", "IDEMPOTENT"}
               => settled = "no" \/ Declines(call[p].patch, disk[File(call[p].patch)])
      BY <2>1 DEF RebootInv, AtHand
    <3>2. call[p].result \in {"APPLIED", "IDEMPOTENT"}
            => Marked(disk[File(call[p].patch)], Marker(call[p].patch))
      BY <1>0, <2>1 DEF PatcherInv, CallsOK, CallOK
    <3> QED
      BY <1>0, <3>1, <3>2, MarkedDeclines
  <2>7. GoneBy'
    <3>1. ASSUME settled = "boot", NEW i \in DOMAIN Order, i < next[p] + 1
          PROVE  Rests(i, disk[File(Order[i])])'
      <4>1. i < next[p] \/ i = next[p]
        BY <1>0, <2>2, <3>1
      <4>2. Rests(i, disk[File(Order[i])])
        BY <2>3, <2>5, <2>6, <3>1, <4>1 DEF RebootInv, GoneBy, Rests
      <4> QED
        BY <2>1, <4>2, RestsStay
    <3> QED
      BY <2>1, <2>2, <2>3, <2>5, <3>1 DEF GoneBy, Seen
  <2>8. AllRest'
    BY <2>1, <2>2, RestsStay DEF AllRest, RebootInv
  <2> QED
    BY <2>1, <2>4, <2>7, <2>8 DEF RebootInv
<1>6. ASSUME NEW p \in Procs, Finish(p)
      PROVE  RebootInv' /\ UNCHANGED <<disk, stamp>>
  <2>1. /\ phase[p] = "boot" /\ call[p].at = "idle" /\ next[p] > Len(Order)
        /\ settled' = IF settled = "boot" THEN "yes" ELSE settled
        /\ UNCHANGED <<disk, stamp, pin, call, text, next>>
    BY <1>6 DEF Finish
  <2>2. Booting = {p} /\ \A q \in Procs : call[q].at = "idle"
    BY <1>0, <2>1, InLoopAlone DEF Alone
  <2>3. \A q \in Procs : AtHand(q)'
    BY <2>1, <2>2 DEF AtHand
  <2>4. settled = "boot" => \A i \in DOMAIN Order : Rests(i, disk[File(Order[i])])
    <3>1. \A f : Seen(p, f) = disk[f]
      BY <2>1 DEF Seen
    <3>2. \A i \in DOMAIN Order : i < next[p]
      BY <1>0, <2>1 DEF LoopTypes
    <3> QED
      BY <2>2, <3>1, <3>2 DEF RebootInv, GoneBy
  <2>5. AllRest'
    BY <2>1, <2>2, <2>4, RestsStay DEF AllRest, RebootInv
  <2>6. GoneBy'
    BY <2>1 DEF GoneBy
  <2> QED
    BY <2>1, <2>3, <2>5, <2>6 DEF RebootInv
<1>7. ASSUME NEW p \in Procs, Crash(p)
      PROVE  RebootInv' /\ ops' # ops
  <2>1. /\ call' = [call EXCEPT ![p] = Idle(call[p].patch)]
        /\ next' = [next EXCEPT ![p] = 1]
        /\ settled' = IF settled = "boot" THEN "no" ELSE settled
        /\ call[p].at # "write" => UNCHANGED disk
        /\ pin' = pin /\ ops' # ops
    BY <1>0, <1>7 DEF Crash, LoopTypes
  <2>2. /\ \A q \in Procs \ {p} : call'[q] = call[q] /\ next'[q] = next[q]
        /\ call'[p].at = "idle"
    BY <1>0, <2>1 DEF PatcherTypeOK, LoopTypes, Idle
  <2>3. settled' = "no" \/ (settled = "yes" /\ settled' = "yes" /\ UNCHANGED disk)
    BY <1>0, <2>1 DEF LoopTypes, RebootInv, AllRest
  <2>4. \A q \in Procs : AtHand(q)'
    BY <2>1, <2>2, <2>3, StaysAtHand DEF RebootInv
  <2>5. GoneBy'
    BY <2>3 DEF GoneBy
  <2>6. AllRest'
    BY <2>1, <2>2, <2>3, RestsStay DEF AllRest, RebootInv
  <2> QED
    BY <2>1, <2>4, <2>5, <2>6 DEF RebootInv
<1>8. ASSUME (\E f \in Files : Restore(f)) \/ (\E v \in Pins : Install(v))
      PROVE  RebootInv' /\ ops' # ops
  <2>1. settled' = "no" /\ UNCHANGED call /\ ops' # ops /\ \A q \in Procs : call[q].at = "idle"
    BY <1>0, <1>8 DEF Restore, Install, Lodged, Booting, LoopTypes
  <2> QED
    BY <2>1 DEF RebootInv, AtHand, GoneBy, AllRest
<1>9. CASE UNCHANGED vars
  BY <1>9 DEF vars, patcherVars, loopVars, RebootInv, AtHand, GoneBy, AllRest, Seen, Rests,
              Declines, RewriteNow, Overtaken, Booting
<1> QED
  BY <1>1, <1>2, <1>3, <1>4, <1>5, <1>6, <1>7, <1>8, <1>9 DEF Next, ProcStep, vars, patcherVars

(* While no two processes are in the loop at once, and whatever the order  *)
(* of the patches: of two undisturbed runs of the loop the second writes   *)
(* only what a later patch of the same file overtook in the first.         *)
THEOREM RerunsCatchUpOnly == Exclusive => (Spec => RerunsOnlyCatchUp)
<1> SUFFICES ASSUME Exclusive
             PROVE  Spec => RerunsOnlyCatchUp
  OBVIOUS
<1>1. Init => LoopInv /\ RebootInv
  BY ConfigAssumption, TextAssumption, InitLoopInv, InitReboot
<1>2. LoopInv /\ RebootInv /\ [Next]_vars => (LoopInv /\ RebootInv)'
  BY ConfigAssumption, TextAssumption, OrderAssumption, NextLoopInv, NextReboot
<1>3. LoopInv /\ RebootInv /\ [Next]_vars
        => [settled = "yes" /\ ops' = ops /\ ~UNCHANGED <<disk, stamp>>
              => \E p \in Booting : CatchesUp(p)]_vars
  BY ConfigAssumption, TextAssumption, OrderAssumption, NextReboot
<1> QED
  BY <1>1, <1>2, <1>3, PTL DEF Spec, RerunsOnlyCatchUp
=============================================================================
