---------------------------- MODULE TextPatcher ----------------------------
(***************************************************************************)
(* TextPatcher.apply() of sndr/kernel/text_patch.py as a subroutine that   *)
(* several processes run over the same files, with the persistent marker   *)
(* cache of sndr/engines/vllm/wiring/file_cache.py.                        *)
(*                                                                         *)
(* A call stops between the system calls of the code, so that the steps of *)
(* other processes, a crash or an I/O error fall in between:               *)
(*   layer0 -> load -> open -> write -> reread -> record -> done           *)
(* The caller (ApplyLoop, BundleTxn) starts a call with Begin and consumes *)
(* its result.                                                             *)
(*                                                                         *)
(* stamp abstracts (st_mtime_ns, st_size): every write to a file gives it  *)
(* a stamp no file had before, except that the files of an installed wheel *)
(* all carry WheelStamp, whatever the wheel.                               *)
(***************************************************************************)
EXTENDS PatchText

CONSTANTS
  Procs,          \* processes that patch the files
  Files,          \* target files
  Patches,        \* names of the patchers
  Patch,          \* the patcher of each name: see PatchText
  Pins,           \* versions (vllm, genesis) that may be installed
  Wheel,          \* the pristine content of each file, per pin
  ManifestPins,   \* the pins an anchor manifest was built for
  ReadOnly,       \* files on a read-only mount
  NoFile,         \* the content of a file that does not exist
  NoPatchCache,   \* GENESIS_NO_PATCH_CACHE is set
  IoFaults        \* whether opens, writes and reads may fail

WheelStamp == 1

ASSUME ConfigAssumption ==
  /\ Patches # {} /\ Pins # {}
  /\ ManifestPins \subseteq Pins
  /\ ReadOnly \subseteq Files
  /\ DOMAIN Patch = Patches
  /\ \A pt \in Patches : Patch[pt].file \in Files
  /\ \A v \in Pins : Wheel[v] = [f \in Files |-> Wheel[v][f]]

(* What anchors, replacements, markers and the files of a wheel are made of. *)
Subs    == UNION {ToSet(Patch[pt].subs) : pt \in Patches}
Tokens  == {Patch[pt].marker : pt \in Patches}
           \cup UNION {ToSet(e.anchor) \cup ToSet(e.repl) : e \in Subs}
           \cup UNION {ToSet(c) : c \in {Wheel[v][f] : v \in Pins, f \in Files} \ {NoFile}}
Texts   == Seq(Tokens)

ASSUME TextAssumption ==
  /\ NoFile \notin Texts
  /\ \A v \in Pins, f \in Files : Wheel[v][f] \in Texts \cup {NoFile}
  /\ \A pt \in Patches : Patch[pt].subs \in Seq(Subs)
  /\ \A e \in Subs : e.anchor \in Texts \ {<<>>} /\ e.repl \in Texts

VARIABLES
  disk,        \* content of each file
  stamp,       \* its (mtime, size)
  clock,       \* the last stamp given out
  pin,         \* the version installed
  cacheFile,   \* files_md5.json: pin and an entry for each file
  cache,       \* _CACHE of each process
  call,        \* where each process is in apply()
  text         \* the content it holds: to write, or just read

patcherVars == <<disk, stamp, clock, pin, cacheFile, cache, call, text>>

File(pt)   == Patch[pt].file
Marker(pt) == Patch[pt].marker
Markers    == {Marker(pt) : pt \in Patches}

(* What keeps one patch from erasing the marker of another: an edit that   *)
(* anchors on a marker puts it back, and the files a manifest was built    *)
(* from hold no marker.                                                    *)
Keeps(e, m) == Marked(e.anchor, m) => Marked(e.repl, m)
MarkersSurvive ==
  /\ \A e \in Subs, m \in Markers : Keeps(e, m)
  /\ \A v \in ManifestPins, pt \in Patches :
       LET pristine == Wheel[v][File(pt)]
       IN  Patch[pt].mapped /\ pristine # NoFile
             => \A m \in Markers : ~Marked(pristine, m)

(* The same of the markers by which a sub-patch knows an upstream merge. *)
MergedSurvive == \A e, d \in Subs : \A m \in d.merged : Keeps(e, m)

(* The manifests were built from files whose patchers they are safe for.   *)
ManifestsSpliceable ==
  \A v \in ManifestPins, pt \in Patches :
    LET pristine == Wheel[v][File(pt)]
    IN  pristine # NoFile /\ ~ManifestAbstains(Patch[pt], pristine, pristine)
          => Spliceable(Patch[pt], pristine)

Results == {"none", "APPLIED", "IDEMPOTENT", "SKIPPED", "FAILED"}
Points  == {"idle", "layer0", "load", "open", "write", "reread", "record", "done"}

(* A file without an entry and an entry without markers are the same thing *)
(* to every reader of the cache.                                           *)
NoEntry    == [stamp |-> 0, markers |-> {}]
EmptyTable == [f \in Files |-> NoEntry]
Unloaded   == [loaded |-> FALSE, files |-> EmptyTable]

Idle(pt) == [at |-> "idle", patch |-> pt, result |-> "none", orphan |-> FALSE]

PatcherInit ==
  /\ pin \in Pins
  /\ disk = Wheel[pin]
  /\ stamp = [f \in Files |-> WheelStamp]
  /\ clock = WheelStamp
  /\ cacheFile = [pin |-> pin, files |-> EmptyTable]
  /\ cache = [p \in Procs |-> Unloaded]
  /\ call = [p \in Procs |-> Idle(CHOOSE pt \in Patches : TRUE)]
  /\ text = [p \in Procs |-> <<>>]

-----------------------------------------------------------------------------
(* file_cache.py                                                           *)

PinMatches == cacheFile.pin = pin

(* _load_cache_from_disk: nothing of another pin is used. *)
Loaded == [loaded |-> TRUE,
           files  |-> IF PinMatches THEN cacheFile.files ELSE EmptyTable]

(* _ensure_loaded *)
EnsureLoaded(p) == IF cache[p].loaded THEN cache[p] ELSE Loaded

CacheHit_AnyStamp(entry, f, m) == m \in entry.markers

(* is_marker_cached_present, for a file that exists. *)
CacheHit(entry, f, m) == entry.stamp = stamp[f] /\ m \in entry.markers

(* record_apply_result: the stamp is the file's now, the markers are those *)
(* recorded before and still in the content at hand, and m.                *)
Recorded_NoPrune(entry, f, m, content) ==
  [stamp |-> stamp[f], markers |-> entry.markers \cup {m}]
Recorded_ByFile(entry, f, m, content) ==
  [stamp |-> stamp[f], markers |-> entry.markers \cup {f}]
RecordedEntry(entry, f, m, content) ==
  [stamp   |-> stamp[f],
   markers |-> IF Marked(content, m)
               THEN {k \in entry.markers \cup {m} : Marked(content, k)}
               ELSE entry.markers \cup {m}]

-----------------------------------------------------------------------------
(* text_patch.py                                                           *)

Return(p, r) == [call EXCEPT ![p].at = "done", ![p].result = r]
Goto(p, pc)  == [call EXCEPT ![p].at = pc]

(* The caller enters apply(). *)
Begin(p, pt) ==
  /\ call[p].at = "idle"
  /\ call' = [call EXCEPT ![p] = [Idle(pt) EXCEPT !.at = "layer0"]]
  /\ UNCHANGED <<disk, stamp, clock, pin, cacheFile, cache, text>>

(* Layer 0: one stat and the cache, loaded on first use. *)
Layer0(p) ==
  /\ call[p].at = "layer0"
  /\ LET pt    == call[p].patch
         f     == File(pt)
         asked == ~NoPatchCache /\ disk[f] # NoFile
     IN  /\ cache' = IF asked THEN [cache EXCEPT ![p] = EnsureLoaded(p)] ELSE cache
         /\ call' = IF asked /\ CacheHit(EnsureLoaded(p).files[f], f, Marker(pt))
                    THEN Return(p, "IDEMPOTENT")
                    ELSE Goto(p, "load")
  /\ UNCHANGED <<disk, stamp, clock, pin, cacheFile, text>>

(* Gates G1 and G3 of the manifest; the others are in Rewrite. *)
RewriteNow(pt, content) ==
  IF ~NoPatchCache /\ pin \in ManifestPins
  THEN Rewrite(Patch[pt], Wheel[pin][File(pt)], content)
  ELSE Layer5(Patch[pt], content)

(* Layers 1 to 6: one read decides; the text to write is computed from it. *)
LoadSkips(p) ==
  LET pt == call[p].patch
      c  == disk[File(pt)]
  IN  /\ call[p].at = "load"
      /\ \/ c = NoFile
         \/ c # NoFile /\ Precheck(Patch[pt], c) = "upstream_merged"
         \/ /\ c # NoFile /\ Precheck(Patch[pt], c) = "ok"
            /\ File(pt) \in ReadOnly \/ RewriteNow(pt, c).verdict # "ok"
      /\ call' = Return(p, "SKIPPED")
      /\ UNCHANGED <<disk, stamp, clock, pin, cacheFile, cache, text>>

LoadFindsMarker(p) ==
  LET pt == call[p].patch
      c  == disk[File(pt)]
  IN  /\ call[p].at = "load"
      /\ c # NoFile
      /\ Precheck(Patch[pt], c) = "idempotent"
      /\ text' = [text EXCEPT ![p] = c]
      /\ call' = [call EXCEPT ![p].at = "record", ![p].result = "IDEMPOTENT"]
      /\ UNCHANGED <<disk, stamp, clock, pin, cacheFile, cache>>

LoadRewrites_Unstamped(p) ==
  LET pt == call[p].patch
      c  == disk[File(pt)]
  IN  /\ call[p].at = "load"
      /\ c # NoFile
      /\ Precheck(Patch[pt], c) = "ok"
      /\ File(pt) \notin ReadOnly
      /\ RewriteNow(pt, c).verdict = "ok"
      /\ text' = [text EXCEPT ![p] = RewriteNow(pt, c).text]
      /\ call' = Goto(p, "open")
      /\ UNCHANGED <<disk, stamp, clock, pin, cacheFile, cache>>
LoadRewrites_CachedRead(p) ==
  LET pt == call[p].patch
      c  == Wheel[pin][File(pt)]
  IN  /\ call[p].at = "load"
      /\ c # NoFile
      /\ Precheck(Patch[pt], c) = "ok"
      /\ File(pt) \notin ReadOnly
      /\ RewriteNow(pt, c).verdict = "ok"
      /\ text' = [text EXCEPT ![p] = Stamped(Marker(pt), RewriteNow(pt, c).text)]
      /\ call' = Goto(p, "open")
      /\ UNCHANGED <<disk, stamp, clock, pin, cacheFile, cache>>
LoadRewrites(p) ==
  LET pt == call[p].patch
      c  == disk[File(pt)]
  IN  /\ call[p].at = "load"
      /\ c # NoFile
      /\ Precheck(Patch[pt], c) = "ok"
      /\ File(pt) \notin ReadOnly
      /\ RewriteNow(pt, c).verdict = "ok"
      /\ text' = [text EXCEPT ![p] = Stamped(Marker(pt), RewriteNow(pt, c).text)]
      /\ call' = Goto(p, "open")
      /\ UNCHANGED <<disk, stamp, clock, pin, cacheFile, cache>>

(* The content of f becomes c, with a stamp of its own. *)
PutFile(f, c) ==
  /\ disk'  = [disk EXCEPT ![f] = c]
  /\ stamp' = [stamp EXCEPT ![f] = clock + 1]
  /\ clock' = clock + 1

(* Layer 7, open(target, "w"): the file is empty from here on. *)
Truncate(p) ==
  /\ call[p].at = "open"
  /\ PutFile(File(call[p].patch), <<>>)
  /\ call' = Goto(p, "write")
  /\ UNCHANGED <<pin, cacheFile, cache, text>>

(* What n tokens of the text, written at offset 0, leave in the file: the  *)
(* tail of a longer text another process wrote meanwhile stays.            *)
Overlay(p, n) ==
  LET old == disk[File(call[p].patch)]
  IN  SubSeq(text[p], 1, n) \o SubSeq(old, n + 1, Len(old))

(* An open file that was replaced by rename takes the write with it. *)
PutWritten(p, n) ==
  IF call[p].orphan
  THEN UNCHANGED <<disk, stamp, clock>>
  ELSE PutFile(File(call[p].patch), Overlay(p, n))

Write(p) ==
  /\ call[p].at = "write"
  /\ PutWritten(p, Len(text[p]))
  /\ call' = Goto(p, "reread")
  /\ UNCHANGED <<pin, cacheFile, cache, text>>

(* The read-back must show the marker. *)
Reread(p) ==
  LET pt == call[p].patch
      c  == disk[File(pt)]
  IN  /\ call[p].at = "reread"
      /\ text' = [text EXCEPT ![p] = c]
      /\ call' = IF Marked(c, Marker(pt))
                 THEN [call EXCEPT ![p].at = "record", ![p].result = "APPLIED"]
                 ELSE Return(p, "FAILED")
      /\ UNCHANGED <<disk, stamp, clock, pin, cacheFile, cache>>

(* record_apply_result: it stats the file again, after the read. *)
Record(p) ==
  LET pt == call[p].patch
      f  == File(pt)
      t  == EnsureLoaded(p)
  IN  /\ call[p].at = "record"
      /\ cache' = [cache EXCEPT ![p] =
                     [t EXCEPT !.files[f] = RecordedEntry(@, f, Marker(pt), text[p])]]
      /\ call' = Goto(p, "done")
      /\ UNCHANGED <<disk, stamp, clock, pin, cacheFile, text>>

(* An open fails: read_error skips the patch, write_error and reread_error *)
(* fail it.                                                                *)
OpenFails(p) ==
  /\ IoFaults
  /\ \/ call[p].at = "load" /\ call' = Return(p, "SKIPPED")
     \/ call[p].at \in {"open", "reread"} /\ call' = Return(p, "FAILED")
  /\ UNCHANGED <<disk, stamp, clock, pin, cacheFile, cache, text>>

(* write_error after n tokens. *)
WriteFails(p) ==
  /\ IoFaults
  /\ call[p].at = "write"
  /\ \E n \in 0 .. Len(text[p]) : PutWritten(p, n)
  /\ call' = Return(p, "FAILED")
  /\ UNCHANGED <<pin, cacheFile, cache, text>>

PatcherStep(p) ==
  \/ Layer0(p)
  \/ LoadSkips(p) \/ LoadFindsMarker(p) \/ LoadRewrites(p)
  \/ Truncate(p) \/ Write(p) \/ Reread(p) \/ Record(p)

PatcherFault(p) == OpenFails(p) \/ WriteFails(p)

-----------------------------------------------------------------------------
Entry == [stamp : Nat, markers : SUBSET Markers]
Table == [Files -> Entry]

(* Only an install makes a file appear or disappear, and a call that is    *)
(* past Layer 1 has a file.                                                *)
PatcherTypeOK ==
  /\ disk \in [Files -> Texts \cup {NoFile}]
  /\ stamp \in [Files -> Nat]
  /\ clock \in Nat
  /\ pin \in Pins
  /\ cacheFile \in [pin : Pins, files : Table]
  /\ cache \in [Procs -> [loaded : BOOLEAN, files : Table]]
  /\ call \in [Procs -> [at : Points, patch : Patches, result : Results,
                         orphan : BOOLEAN]]
  /\ text \in [Procs -> Texts]
  /\ \A f \in Files : disk[f] = NoFile <=> Wheel[pin][f] = NoFile
  /\ \A p \in Procs : call[p].at \in {"open", "write", "reread", "record"}
                         => disk[File(call[p].patch)] # NoFile

(* An entry that Layer 0 would believe now: its stamp is the file's. *)
Truthful(table) ==
  \A f \in Files :
    disk[f] # NoFile /\ table[f].stamp = stamp[f]
      => \A m \in table[f].markers : Marked(disk[f], m)

(* "P2.2 is pure optimization, never a hazard" (file_cache.py:16-17): no   *)
(* process holds, and no file persists for the version installed, an entry *)
(* that would make Layer 0 answer IDEMPOTENT for a patch the file has not. *)
CacheTruthful ==
  /\ \A p \in Procs : cache[p].loaded => Truthful(cache[p].files)
  /\ PinMatches => Truthful(cacheFile.files)

-----------------------------------------------------------------------------
(* The ways the kernel has to rewrite a text, or to say what a rewrite      *)
(* would do, are independent pieces of code; on the content a call is about *)
(* to load they must tell one story.                                        *)

Loading(p) == call[p].at = "load" /\ disk[File(call[p].patch)] # NoFile

(* Where the recorded anchors are independent of each other, the splices at *)
(* precomputed offsets, made backwards, write the same text and report the  *)
(* same sub-patches as the anchor scan ("ground truth", text_patch.py:427). *)
ManifestMatchesScan ==
  \A p \in Procs :
    LET pt == call[p].patch
        c  == disk[File(pt)]
    IN  Loading(p) /\ Spliceable(Patch[pt], c)
          => RewriteNow(pt, c) = Layer5(Patch[pt], c)

(* Whatever path writes the text, no required sub-patch is left out: it was *)
(* spliced in, or an upstream-merged marker stands for it (text_patch.py:222, *)
(* 582).                                                                    *)
RequiredAllOrNothing ==
  \A p \in Procs :
    LET pt      == call[p].patch
        written == RewriteNow(pt, disk[File(pt)])
    IN  Loading(p) /\ written.verdict = "ok"
          => \A e \in ToSet(Patch[pt].subs) :
               e.required => \/ e \in ToSet(written.applied)
                             \/ \E m \in e.merged : Marked(written.text, m)

(* The commit of pt on content c goes on to write, or finds it done.        *)
CommitGoesOn(pt, c) ==
  \/ Precheck(Patch[pt], c) = "idempotent"
  \/ /\ Precheck(Patch[pt], c) = "ok"
     /\ File(pt) \notin ReadOnly
     /\ RewriteNow(pt, c).verdict = "ok"

(* The commit takes the splices of the manifest on trust only where they    *)
(* are independent of each other.                                           *)
SplicesSafely(pt, c) ==
  NoPatchCache \/ pin \notin ManifestPins \/ Spliceable(Patch[pt], c)

(* The dry run of a transaction (multi_file.py:61-106) admits a target      *)
(* exactly when the commit, on the same content and on whatever path it     *)
(* takes, would not skip it.  Where they do differ is left out by name:     *)
(* optional sub-patches, a read-only target, a drift or upstream-merged     *)
(* marker, and a manifest used on a text whose anchors hang together.       *)
DryRunPredictsCommit ==
  \A p \in Procs :
    LET pt    == call[p].patch
        patch == Patch[pt]
        c     == disk[File(pt)]
    IN  /\ Loading(p) /\ File(pt) \notin ReadOnly /\ SplicesSafely(pt, c)
        /\ patch.subs # <<>> /\ \A e \in ToSet(patch.subs) : e.required
        /\ Precheck(patch, c) # "upstream_merged"
        /\ NothingMerged(patch, Layer5(patch, c).text)
        => (DryRunOk(patch, c) <=> CommitGoesOn(pt, c))
=============================================================================
