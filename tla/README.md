# SNDR core engine: TLA+ models, model checks and proofs

This directory models the parts of `sndr_core_engine` that keep state and can
go wrong over several steps: the boot-time patching of an installed vLLM
(`src/sndr/kernel`, `src/sndr/apply`, `src/sndr/engines/vllm/wiring`,
`src/sndr/bundles`), the tiered KV cache (`src/sndr/cache`) with the prefix
cache of the patched vLLM in front of it, and the jobs and events of the product
API (`src/sndr/product_api`).  TLC checks small instances of every module; TLAPS
proves the invariants that matter most for every value of the constants.

## 1. The system

When vLLM starts, each of its processes (engine and every worker rank) loads
the plugin, `plugin.register()`, which runs `apply.orchestrator.run()`.  That
runs the *bundles* first (transactions over several files), then every patch of
the registry in order.  A patch is a `TextPatcher`: it edits a Python file of
the installed wheel, in place, once.  A *marker* line at the head of the file
says that a patch is in; a persistent *marker cache* keyed by
`(mtime, size, versions)` saves reading the file; an *anchor manifest* built
for a version allows splicing at recorded offsets instead of searching.  At the
end of the loop the cache is written to disk.

While vLLM serves, the PN95 hooks report pages of the KV cache to a
`TierManager`, which decides what to move from the GPU to a slab of pinned CPU
memory; blocks that vLLM evicts go to a prefix store (pinned pool, RAM, disk)
and come back on a later miss.  A daemon beside it (the product API) keeps
jobs, accounts, container alerts and host reliability.

| component | source | state | operations | interacts with |
|---|---|---|---|---|
| text patch kernel | `kernel/text_patch.py`, `wiring/anchor_manifest.py` | the target files | `apply`, `validate`, manifest fast path, anchor scan | marker cache, other processes through the files |
| marker file cache | `wiring/file_cache.py` | `_CACHE` per process, `files_md5.json` | load, hit, record, flush | kernel, orchestrator, other processes and boots through the file |
| apply orchestrator | `apply/orchestrator.py`, `plugin.py` | loop position, `stats` | `run`, spec-driven loop | bundles, kernel, cache |
| multi-file transaction | `kernel/multi_file.py`, `bundles/_common.py` | snapshots, committed list, `.genesis_rollback` | dry run, snapshot, commit, rollback | kernel, cache |
| tier manager | `cache/tier_manager.py` | page table, slab, admit order, activity, policies | admit, touch, forget, demote, promote, evict | PN95 hooks, policies |
| eviction policies | `cache/eviction_policies.py` | LRU / 2Q / ARC queues | admit, touch, evict, remove | tier manager |
| prefix store, pinned pool, disk tier | `cache/pn95/prefix_store.py`, `cache/_pn95_pinned_pool.py`, `cache/_pn95_disk_tier.py` | three tiers of blocks, byte counter | demote on evict, promote on miss, spill, proactive demotion | vLLM's block pool |
| prefix cache of vLLM | `overlays/pr42637` (block pool, full-attention manager), with the sites `pn95_tier_aware_cache.py` patches in | free queue, reference counts, hash map, block tables | lookup, allocate, cache, touch, free, evict, reset | scheduler, prefix store |
| response cache | `cache/response_cache.py` | entries with hits and time | get, store, evict | requests |
| job store | `product_api/legacy/jobs.py`, `background_exec.py` | jobs, events, sequence numbers, the files of both | ensure, create, record, update, save, list | requests, worker threads, disk, polling clients |
| container watch, reliability | `container_watch.py`, `reliability.py` | last states, outcome history | tick, record, allow | docker, hosts |
| accounts | `product_api/legacy/auth` | users, token epochs, failures | login, revoke, manage | concurrent requests |
| dispatcher | `dispatcher/decision.py` | none | decides whether a patch applies | orchestrator |
| gateway | `spec_decode/gateway` | health of two upstreams | probe, route | requests |

What is hard here: several processes patch the same files with no lock; a
process may die in the middle of a write; the cache outlives the container
whose files it describes; two algorithms (splice and scan) must write the same
text; a transaction must put files back that another run may be writing; the
slab is full exactly when the manager wants to use it, and makes room by
dropping pages in the middle of moving one; a lookup in the prefix cache
allocates, an allocation evicts, an eviction demotes and a demotion spills, each
inside the other; a policy keeps one key in one of four lists while hits,
forced evictions and removals move it; a job's status, its event and the two
files change one after another, any write may raise, and the daemon may die in
between.  `PROJECT.json` lists these at their lines as "hazards", with the
properties that watch over them.

What makes the components correct:

* kernel: the same text on every path; a required edit is never left out;
  a marker is in the file exactly with its patch; the dry run says what the
  commit will do.
* marker cache: an entry that would be believed is true.
* orchestrator: a boot ends, reports what is the case, and a second one
  changes nothing, but for what the order of the patches made the first leave out.
* transaction: all the patches that have a target or none, seen from outside; no
  original is lost that was not given up.
* tier manager: a slot has one owner; a page gets its own bytes back; nothing
  is out of reach of the cap and of eviction; protected pages stay; slots are
  not lost.
* eviction policies: a policy loses an entry of a key only when it is told to,
  or by replacement, and has no more than two; ARC stays within its capacity.
* prefix cache and tiers: a block is free or used; whatever answers for a hash
  was computed under it, in every tier; the byte counter is what the store holds;
  nothing is forgotten before its time; a running request's blocks are its own.
* job store: a verdict is that of the command; a job whose worker ended is
  settled; the newest history is kept; an event's number is its own; every
  worker ends.

## 2. The modules

| module | models | builds on |
|---|---|---|
| `PatchText` | the text algebra: markers, the anchor scan (Layer 5), the manifest, the pre-checks and the dry run, as operators on texts | community modules |
| `TextPatcher` | `apply()` as a subroutine several processes run on shared files, cut between its system calls, and the marker cache; what its pieces must agree on at the load | `PatchText` |
| `PatchTextCheck` | calls up to their load only, for the bounded check of the text algebra | `TextPatcher` |
| `ApplyLoop` | the apply loop of each process, the flush, and the world: crashes, I/O errors, restored files, other versions | `TextPatcher` |
| `AtomicBundle` | what a bundle promises: the files of the patches that have a target change at once or not at all, unless an error or a crash disturbs the run | |
| `BundleTxn` | the bundle's composition and the two-phase transaction, each file in a step of its own; its refinement of `AtomicBundle` | `TextPatcher`, `AtomicBundle`, `SeqFilter` |
| `SeqFilter` | a filter of sequences, written so that it can be proved about | |
| `TierManager` | the two-tier page table, slab and demotion walk | `SeqFilter` |
| `KeyBag` | what an eviction policy does for its tier: entries of keys, some of them twice | |
| `EvictionPolicies` | LRU, 2Q and ARC; their refinement of `KeyBag` | `KeyBag` |
| `PrefixTiers` | pinned pool, prefix store and disk tier, as operators from tiers to tiers | `SeqFilter` |
| `PrefixCache` | block pool, lookup and block tables of the scheduler, with the PN95 sites in them | `PrefixTiers` |
| `JobStore` | jobs, events, their files, the worker threads, a polling client, restarts | |
| `FoldFacts` | facts about folds and filters, proved by induction | `SeqFilter`, TLAPS |
| `TextPatcher_proofs` | that the pieces of the text algebra agree, and what one call of `apply()` keeps, for both programs that make it | `TextPatcher`, `FoldFacts` |
| `ApplyLoop_proofs`, `BundleTxn_proofs` | theorems | `TextPatcher_proofs` and the module they are named for |
| `PrefixCache_proofs` | what each operation of the tiers and of the pool keeps, and theorems | `PrefixCache`, `FoldFacts` |
| `TierManager_proofs`, `EvictionPolicies_proofs`, `JobStore_proofs` | theorems | the module they are named for, TLAPS |
| `MC*` | the constants of the runs | |

**Texts.**  A text is a sequence of tokens; an anchor, a replacement and a
marker are tokens or short sequences of them, so that overlap, ambiguity,
order and offsets are what they are in the code, and nothing else of Python
source is kept.  A file that does not exist has the content `NoFile`.
A patcher is a record: target `file`, `marker`, `drift` markers, whether it is
`mapped` in the manifest, and its `subs` with `anchor`, `repl`, `required`,
`merged` (upstream-merged markers) and `abort`.

**Stamps.**  `(st_mtime_ns, st_size)` is one number.  A write gives a file a
number that no file had before, which is what nanosecond mtimes are for; the
files of an installed wheel all carry `WheelStamp`, because wheels are
unpacked with fixed mtimes and two versions may agree in size.  An operator's
copy may keep the wheel's mtime or not.

**Steps of `apply()`.**  `layer0` (stat and cache) → `load` (one read, from
which everything is computed) → `open` (truncation) → `write` → `reread` →
`record` (stat and cache entry) → `done`.  Between two of them other processes
step, the process dies or an I/O error comes.  A write that is cut short
leaves a prefix; a write over a file that another process wrote meanwhile
leaves the other's tail.  `LoadSkips`, `LoadFindsMarker` and `LoadRewrites`
are the outcomes of Layers 1 to 6.

**Steps of the loop.**  `Start` (plugin loaded, or triggered again), `ApplyNext`
and `Collect` per patch, `Finish` (flush, which may be swallowed, or which may
leave an unreadable file when two processes share the temporary one; with
`SNDR_APPLY_VIA_SPECS` there is none).  `Crash`, `Restore` and `Install` are the
environment; `Exclusive` says whether two processes may be in the loop at once.

**Steps of a transaction.**  `Run` is the call of `run_bundle()`; `GatedOut` its
flag and tier gates, which end it; `Compose` the calls of the factories: a patch
whose target does not exist is dropped (`_common.py:90-92`), with none left the
bundle is skipped, and `ComposeFails` is a factory that raises.  What is left,
`patchers`, is the transaction: `DryRun` and `Snapshot` per file, `Commit` and
`Collect` per patcher, `Detect`, `Restore` and `RolledBack`; a restore is a
rename, so that a write in progress goes to a file without a name.  I/O errors
hit each of them, and the writing of the rollback aid, which then leaves the aid as
it was.  A patcher that fails after it truncated its file is not among those whose
files are put back; `spoilt` remembers that file.  All factories run in one step:
a factory looks at nothing but whether its target exists, which no run changes.

**Tier manager.**  One action per method.  `demote_to_threshold` is a walk with
a step per candidate (`DemoteToThreshold`, `SkipCandidate`, `DemoteCandidate`,
`DemoteEnds`), during which no other operation runs: the callers are on one
thread.  Making room (`AfterRoom`) drops any page the policy tracks, the one
being demoted included.  A key has an entry in `_pages` while its tier is not
`"none"`.  The free list counts how often each slot is on it, so that a slot
freed twice would show.

**Eviction policies.**  The ordered dicts are sequences of distinct keys, the
coldest first; `kind` says which policy the instance is, and `once` and `often`
are `_a1`/`_am` of 2Q and `_t1`/`_t2` of ARC (LRU uses the first).  One action
per method, the whole of it under the tier manager's lock: `RoomFor` is the case
distinction of ARC's `admit`, `Replaced` its `_replace`, `HitGhost1` and
`HitGhost2` the adaptation of `p`.  Any key may be admitted, tracked or not:
`TierManager` admits whatever it is given (`tier_manager.py:335`, `341`, `479`), and
so 2Q and ARC may have a key in both of their live lists.

**Prefix cache.**  A text is the hashes of its full blocks, and the tokens after
them fill one block more, the tail.  A block and an entry hold the hash they
were computed under, or nothing known, so that a wrong restore shows.  The
scheduler owns the pool, and each of its calls runs to its end: `PrefixTiers`
and the pool operations are therefore operators from one memory (pool and tiers) to the
next, nested as the calls are, and the actions are those of the scheduler:
`Schedule` (lookup of the longest prefix, with promotions on the way; then `Place`:
touch, allocation and caching, or nothing when there is no room), `Extend` (a
running request fills its tail), `Finish` (over, or preempted), `Reset` and
`Restart` (only files are left).  `EvictCached` is site 7 of the PN95 patch,
`Looked` site 8.  Site 13, the proactive demotion in `get_new_blocks`, is retired:
its factory returns `None` and `apply()` does not install it
(`pn95_tier_aware_cache.py:707-716`, `959-965`), so `GetNew` has no such call; the
emergency demotion of PN96 is off by default and left out too.  The block pool and
the lookup are those of `overlays/pr42637`, which the repository itself is of two minds
about: the overlay's `README.md:8` calls the six files a "project-owned
canonical overlay" that is bind-mounted at boot, while the head of one
(`single_type_kv_cache_manager.py:4-14`) calls that one a "DORMANT SNAPSHOT" that the
bind-mount table does not refer to.  They are the only text in the repository of the code
that the PN95 sites are patched into; where the overlay is not mounted, the same
methods of the installed vLLM take its place.

**Job store.**  A job is its place in the order of creation.  Every call takes
the lock for all it does, so it is one step, and a step picks its troubles: a file that
cannot be read at the load, a write that raises.  `behind` names the files that
lag behind memory since a write raised, `torn` those whose changes a restart
then lost or a read missed; properties that need memory and disk to agree name
them.  A background job goes `starting` (stored) → `spawning` (event recorded) →
`running` → `exited` → `done`, or through `erred` to `broken`, in its request
and its thread; `Restart` kills both.  The client polls with the last number it
was given.

## 3. What the runs check

Passing runs (TLC finishes with no error):

| run | instance | properties |
|---|---|---|
| `PatchText_agree` | one call of each patcher of two edits, over 4 anchors and 4 replacements (anchors that overlap, replacements that are empty, feed a later anchor or hold a merged marker), on each text of up to 4 tokens, of up to 3 with a merged marker, recorded in a manifest, and the shorter ones without one too | `ManifestMatchesScan`, `RequiredAllOrNothing`, `DryRunPredictsCommit` |
| `ApplyLoop_boot` | two processes in turn, three patches on two files (one on text another makes), two versions, three boots, two faults, restores or installs | `CacheTruthful`, `ReportsHold`, `FilesWhole`, `RebootIsNoop` |
| `ApplyLoop_order` | the same with the dependent patch registered first, a read-only target, and one of the processes on the spec-driven loop | `RerunsOnlyCatchUp`, and `BootEnds` under `FairSpec` |
| `BundleTxn_safe` | a bundle of three patchers on two files, seven wheels (below), three runs by two processes in turn, two faults | `AppliedMeansAll`, `SkippedUntouched`, `RollbackRestores`, `OriginalNotLost`, `CacheTruthful`, `IsAtomic` (the refinement) |
| `EvictionPolicies_all` | each policy, six keys, tracked or not when they are admitted, ARC with room for three | `CapacityHolds`, `IsKeyBag` (the refinement) |
| `PrefixCache_tiers` | two requests, prompts `a`, `ab` and `c`, four blocks; a store of two units of which `c` takes two, pinned slots for two, a disk tier with and without a limit; one restart | `FreeIsUnused`, `CachedHoldsHash`, `TiersKeepBooks`, `NothingForgotten`, `RunningKeepsBlocks` |
| `JobStore_history` | two jobs of every kind over caps of one job and two events, pages of one event, two file errors, two restarts | `VerdictMatchesExit`, `EndedIsFinal`, `HistoryIsNewest`, `SeqsNotReused`, `WorkMovesOn` under `FairSpec` |
| `TierManager_tiers` | a text, an image and a state page and a layer block over two slots, hot ring of one, a protection window, raising copies, payloads too large | `SlotsOwnedOnce`, `BytesArePages`, `SlotIffDemoted`, `EveryPageReclaimable`, `CapHolds`, `ProtectedStays`, `VisionDrainsFirst` |

Each also checks the type invariant, but for `PatchText_agree`, which has no
state beyond its inputs, `ApplyLoop_order`, whose module `ApplyLoop_boot` checks, and
`EvictionPolicies_all`, whose types the proof establishes.  Every
property of a passing run has a mutant in `PROJECT.json`: a plausible bug in
one definition under which TLC finds it violated.

What the qualifications in the properties say:

* `ManifestMatchesScan` speaks of patchers that are `Spliceable` in the file at
  hand: the recorded anchors do not overlap; no replacement is empty or holds a
  token of a later sub-patch's anchor (its own anchor it may hold, and most real ones do);
  an anchor the manifest left out does not occur at all; and no merged marker is
  in the file or in the replacement of an earlier sub-patch.  `build_file_entry`
  checks none of these; what a patch that breaks them writes depends on whether a
  manifest exists.
* `DryRunPredictsCommit` compares the dry run with the commit of the same content
  on the path the commit takes, manifest or scan.  It speaks of writable targets whose
  sub-patches are all required, with no drift and nothing merged, and of manifests
  used on a text in which the patch is `Spliceable`: the dry run looks at none of
  these, and a target with one of them may be admitted and then skipped, or refused
  although the splices would go in.
* `RebootIsNoop` holds of the order of `ApplyLoop_boot`, in which no patch comes
  before one it builds on.  The repository counts six violations of that in its own
  registry, with the topological sort off by default (`orchestrator.py:715-719`);
  there a second boot may write (below).  `RerunsOnlyCatchUp` is what is left of it in
  any order: what a repeated boot still writes is a patch that a later one of its
  file overtook.
* `AppliedMeansAll` and `AtomicBundle` speak of the patches whose target exists:
  `run_bundle` drops the others.
* `AtomicBundle` promises nothing of a run that an I/O error hit or that died
  (`Disturbed`); the run after it is atomic again.
* `OriginalNotLost` excepts the file only the failing patcher wrote
  (`BundleTxn_spoilt`), and runs in which an aid could not be written.
* `FilesWhole` and `ReportsHold` speak of files in which no write was cut short.
  `FilesWhole` allows the patches in any order, each once: when a write error keeps
  one of two independent patches out, a later boot adds it after the other.
* `CacheTruthful` is checked, and proved, for boots that take turns.
* `NothingForgotten` speaks of a disk tier without a limit; an entry larger than
  the whole store is the exception it names.
* `EndedIsFinal`, `HistoryIsNewest` and `SeqsNotReused` except what a restart lost
  because a write had failed before it, and what a failed read lost; the
  conditions are `behind` and `torn`.
* `KeyBag` lets a key have two entries, but with LRU, and lets a policy that
  replaces lose one entry when it takes a key in.  ARC does (below), LRU and 2Q never.

Runs that show a disagreement between the code and what it says of itself
(`expect` is `violation`; the "findings" quote the lines):

* `ApplyLoop_whole`: two ranks that boot at once leave a mixed file: the second
  read a truncated or pristine file, or wrote over a longer text.
* `BundleTxn_spoilt`: a patcher whose write fails returns `FAILED` and is not among the
  committed ones, so its truncated file is neither restored nor in an aid.
* `PrefixCache_prefix`: promoting the second block of a prefix may take the block
  of the first, found a moment before and held by nobody; the request is given
  one block twice, with the second one's content.
* `PrefixCache_leak`: a promoted block keeps the count its allocation gave it, so
  no promoted block returns to the free queue, and `reset_prefix_cache` is
  refused from then on.

Met while modelling, with no run kept for them.

In the kernel, the cache and the transaction:

* with a patch registered before the one it builds on, the first boot skips it and the
  second, undisturbed one writes it (`orchestrator.py:476`, `715-719`), where
  `plugin.py:20` calls registration idempotent;
* the dry run looks for no drift marker (`multi_file.py:73`), so the commit skips, at
  every run, a file that nobody touched since, which `multi_file.py:18-20` puts down to
  a race;
* a bundle whose patch has no target drops it and reports "applied" for the others
  (`_common.py:90-92`), where `attention_gdn_spec.py:6-8` says that none of its patches goes
  in without the other;
* the manifest path applies an edit whose upstream-merged marker is in the file
  (`text_patch.py:239`), which the scan skips;
* an ambiguous *optional* anchor is left out by the manifest and makes the scan
  give up (`text_patch.py:244` and `596-603`);
* the write is in place and the marker comes first, so a process that dies in it
  may leave a file that is taken for patched ever after (`text_patch.py:441`);
* two overlapping boots and a crash between read and stat leave a cache entry
  that is false (`file_cache.py:345`);
* a bundle on a drifted file is committed in part and rolled back, at every boot;
* the rollback restores what differs from the snapshot (`multi_file.py:201`), so
  one of two overlapping runs undoes what the other has patched meanwhile;
* a dry run of the apply loop calls the bundles, which write
  (`orchestrator.py:457`);
* a failed restore leaves part of a bundle (`multi_file.py:216`), the aid holds
  the rest.

In the tier manager and the policies:

* demoting a block twice, admitting a demoted page again and a copy that raises
  each lose a slot for good (`tier_manager.py:474`, `335-338`);
* a page admitted again after its demotion stays in the policy of the CPU tier
  (`tier_manager.py:338`);
* `_admit_order` of a key that is admitted over and over grows
  (`tier_manager.py:345`), and `demote_candidates_atomic` counts such a key
  several times (`tier_manager.py:757`);
* ARC replaces a key when it admits one (`eviction_policies.py:256`), and does so
  while fewer than its capacity are live; the tier manager is not told, so with
  ARC on the CPU tier `EveryPageReclaimable` would not hold.  No shipped
  configuration has it;
* `touch` of a key ARC does not know admits it, where `eviction_policies.py:55` has
  a no-op;
* 2Q has a key that was hit and admitted again in both queues: `evict()` returns it
  while it stays tracked (`eviction_policies.py:149`), where line 62 says that the
  victim is removed;
* ARC too has a key in both live lists that is admitted while in the second
  (`eviction_policies.py:245-265`), counts it twice and replaces on its account;
* the ghost list B2 of ARC may grow beyond `c` (`eviction_policies.py:291`), where
  line 196 bounds each ghost list to `c`.

In the prefix cache:

* `reset_prefix_cache` leaves the tiers alone (`block_pool.py:455-472`), so a lookup
  after a reset, which is for changed weights, is served blocks computed before it;
* an entry larger than the store empties it before it is refused
  (`prefix_store.py:253-258`); on disk it is written over the limit
  (`_pn95_disk_tier.py:237`), the exception `TiersKeepBooks` makes;
* a promotion leaves the slot of the pinned pool taken (`prefix_store.py:463`);
* files found after a restart answer only if `PYTHONHASHSEED` is fixed.

In the job store:

* a file that cannot be read is taken for empty, and the next save wipes it
  (`jobs.py:52`);
* a request that fails after its job is stored, or a daemon that dies, leaves the
  job `running` for good (`jobs.py:282`);
* a failed save and a restart give a number the client knows to another event
  (`jobs.py:93`), which a client that waits for newer ones misses;
* when saving the verdict raises, a client may read `succeeded` and later `failed`
  (`background_exec.py:85` and `92`); `VerdictMatchesExit` states what is left of it.

### Bounds

`MaxBoots` and `MaxRuns` are 3 because a third boot is the first that can read
a cache entry that a second one made of a first one's.  Two processes are
enough for a race between any two steps.  `MaxOps` and `MaxFaults` are 2:
a restore after a crash, an aid that cannot be written after a restore that
failed.  Two files and three patches give two patches on one file (shared cache
entry, one's replacement making the other's anchor) and one elsewhere.  The seven
wheels of the bundle are those a run tells apart: `clean`, everything applies;
`merged`, a drift marker beside the anchor, which only the commit looks for; `moved`,
the anchor is gone, which the dry run sees; `clash`, an optional edit of the first
patch takes away the anchor of the second, which is committed in vain; `half`, the
last patch is in already; `gone`, its target does not exist; `bare`, no target
does.  Two
slots and four keys make the slab full with a page to spare;
`MaxTracked = 3` makes the cap drop pages; `MaxAdmits = 3`
bounds `_admit_order`, `MaxTicks = 1` the clock of `mark_active`.
Six keys and room for three let ARC remember `2c` keys, the largest number its lists
may hold.  In `PatchText_agree` each text is the wheel of a version the
manifest was built for, and the texts without a merged marker of up to three tokens
that of one without a manifest too: there the dry run is compared with the scan on texts whose
anchors do hang together.  Four blocks serve one request with two full blocks and its tail beside a
second request, and leave none over, so that requests wait, extend or are preempted; a
store and pinned slots of two units fit one `c` or two others, so that each demotion
may spill; files outlive one restart.  One job and two events kept, of two jobs and up
to four events, make both caps drop; one fault alone shows a lagging file and a
second the error handling after an error, and two restarts lose an event number and use it
again.
`ApplyLoop_boot` uses the symmetry of the processes, `TierManager_tiers` that
of the slots, `EvictionPolicies_all` that of the keys; no run with a liveness
property uses symmetry.  Deadlock is not checked where an instance stops when its
boots, runs, jobs or inputs are used up; in `EvictionPolicies_all` it is.

### Fairness

`FairSpec` is weak fairness of the steps of each process that is in the loop
(`ProcStep`), an I/O error being one of the ways its step may go.  The code is straight-line, waits for nobody and holds no lock, so a
process that is scheduled moves on.  Starts, crashes, restores and installs are
never fair.  No liveness is asked of the transaction, a list of stages with nothing to
wait for.

In `JobStore` it is weak fairness of `GoesOn(j)`: the request or worker thread of
job `j` takes its next step.  The lock is held for one call at a time and nobody
waits while he holds it.  Nothing is assumed of the command itself, which may run
for ever, of requests, polls and restarts.

## 4. What is proved

TLAPS checks these for every set of processes, files, patches, versions, pages,
slots, keys, blocks, requests and jobs, every capacity and all bounds.

**One call of `apply()`** (`TextPatcher_proofs`, lemmas).  The apply loop and the
transaction make the same calls, so what a call keeps is proved once.  `CallOK(p)`
says what a call of process `p` knows at each step: from `load` to `write` its
`base` is the content of its file and `text` what the patch makes of it, and from
`record` on the file holds the marker.  That is only so while nobody else writes:
with one call in progress every step keeps `CallOK`, `FilesOK` (a stamp of a file
is at most `clock`), `TablesOK` (so is a stamp in a table, so that a new stamp
matches no entry) and `CacheTruthful`.

**The text algebra** (`TextPatcher_proofs`).  `ManifestScanAgree`,
`NoRequiredLeftOut` and `DryRunIsRight` say of any content of the right type what
the three properties say of the one at hand.  The scan goes through the sub-patches in
patch order and searches a text it keeps changing; the manifest cuts at offsets of the pristine
file, last offset first.  What joins them is the alignment of the scan's text with the
pristine one (`AlignedBy`): it is the pristine text with some of the recorded spans
replaced, and the spans still to come are where they were, moved by what was put in before
them.  So a later anchor is found once and nowhere else (a replacement has no token of
it, and nothing empty joins two sides), the cuts of the two are the same, and splices of disjoint spans
commute, which sorts them (`ManifestIsScan`).

* `ApplyLoop_proofs!TypesHold`: `Spec => []TypeOK`.
* `CacheIsTruthful`: under `Exclusive`, `[]CacheTruthful`.  The inductive invariant
  adds to the above that at most one process is in the loop and only it has a call in
  progress (`OneLoop`).
* `ReportsAreTrue`: under `Exclusive` and `MarkersSurvive`, `[]ReportsHold`.  What
  was reported in a run stays true although later patches edit the same file
  (`ReportsKept`), because an edit leaves the markers of others alone.
* `LoopManifestsMatch`: `[]ManifestMatchesScan`, any number of processes at once;
  `LoopLeavesNoneOut`, `BundleDryRunIsRight`: `[]RequiredAllOrNothing` and
  `[]DryRunPredictsCommit` under `MergedSurvive`.
* `FilesAreWhole`: under `Exclusive`, `MarkersSurvive` and `ManifestsSpliceable`,
  `[]FilesWhole`.  `WholeInv` says that a content is `Made`: there is a list of
  patches, each once, whose scans one after another lead to it from the wheel's
  file, and each of whose markers it has.  The last part makes it inductive: a text that is
  about to be written was made by a patch whose marker was not there, which is
  therefore not in the list yet, and by the scan whatever path was taken.
* `RerunsCatchUpOnly`: under `Exclusive`, `RerunsOnlyCatchUp`, of any order of any
  patches.  `RebootInv` follows an undisturbed run: each patch gone through declines what
  its file holds, or is about to hold when the write at hand is done, or was overtaken: a
  later patch of the file has its marker there (`Rests`).  After the run all do, so the
  next one truncates a file only for a patch that was overtaken.
* `BundleTxn_proofs!BundleTypesHold`: any processes, overlapping runs included.
* `BundleCacheIsTruthful`, `SkippedChangesNothing`, `RollbackIsExact`: under
  `Exclusive`.  `TxnInv` is inductive: one run at a time (`OneRun`), the calls of
  its patchers (`PatcherInv`), and where the run stands (`RunOK`): what each phase
  has taken, written and may still have to restore.  A run puts back what it
  changed because whatever differs from its snapshot is its own.
* `OriginalsAreKept`: under `Exclusive`, `[]OriginalNotLost`, whatever errors a rollback
  met, of every file and not only of those whose patcher succeeded: a file the run has
  changed belongs to a committed patcher, and is on its way back, or is the one of the
  patcher that failed, which is given up only if no committed patcher shares it
  (`RestoreOK`).
* `AppliedIsComplete`: under `Exclusive` and `MarkersSurvive`, `[]AppliedMeansAll`.
  `AppliedInv` follows the run: the patchers it has gone through have their markers
  in their files (`GoneThrough`), and the patchers are the patches with a target, which
  no step takes away or adds.
* `BundleIsAtomic`: under `Exclusive` and `MarkersSurvive`, `Spec` implements
  `AtomicBundle`, for any bundle and any files, gates and dropped patches included: a
  run that no I/O error hits and that does not die is atomic, whatever the runs before it
  left behind.  A commit of the abstract bundle is the end of the run's last patcher, a
  rollback a step that changes nothing (`EndOK`), and the first error or crash of a run
  disturbs it (`CalmStep`, `CrashIsAtomic`).
* `TierManager_proofs!SlotInvHolds`, and from it `SlotsAreOwnedOnce`,
  `DemotedBytesKept` and `DemotedHasSlot`: the inductive invariant `SlotInv` is
  types, `SlotsOwnedOnce`, `BytesArePages` and `SlotIffDemoted`
  together, no one of which is inductive alone: a slot that is taken was free, so no page had
  it, so no page's bytes are overwritten; a slot that is freed was its page's,
  so it was not free.
* `TypesHold`, `PagesStayReclaimable`, `CapIsKept`, `ProtectedPagesStay` and
  `ImagesDrainFirst`, from `PageInv`, which adds to `SlotInv` that a page of the CPU
  tier is with its policy and the order of `_pages` lists the live pages once each
  (`Filed`), the types of the rest (`Typed`), that every page that may be demoted is in
  `_admit_order` (`Listed`), and what a walk in progress has still to visit (`Walk`).  The cap
  needs more than counting: `Admit` compacts the order and drops from its front, and
  `KeptIs` and `InjectiveLen` of `FoldFacts` show that what is left is one entry for
  each page that is left.
* `EvictionPolicies_proofs!CapacityIsKept` and `PoliciesAreKeyBags`:
  `Spec => []CapacityHolds` and `Spec => IsKeyBag`.  The tests of ARC's `admit` are
  equalities, so the bounds hold only together, and only for lists that repeat no
  key: `IInv` says so of each of the four, that LRU uses one, and `CapacityHolds`.  The two
  live lists may share a key, so what is followed is how many of them have it (`Bag`).
  `RoomForLists` is the heart: whatever case `admit` is in, one key fits afterwards and
  at most one entry is gone (`OneLess`); `HitLeavesRoom` is its counterpart for a hit
  on a ghost, which takes the ghost's place.
* `JobStore_proofs!TypesHold` and `VerdictsAreTrue`: the verdict of a job is true of
  memory and of disk separately, so that a load, which may take either to the
  other, and a save keep it; `Untouched` says that jobs not yet created have
  neither phase nor code.
* `JobStore_proofs!EndedJobsAreFinal`, `HistoryIsTheNewest` and `SeqsAreNotReused`: a
  file that is not behind is what memory is (`Even`), so a restart loses only what is
  then `torn`; `SettledInv`, `HistoryInv` and `KnownInv` speak of what a load would
  give (`CurJobs`, `CurEvents`), and `ConsecutiveInv` of both feeds.  The history is
  an interval of the order of creation, and the cap, which counts the newer jobs of
  each, cuts it at its old end and nowhere else (`NewestAdds`).

**The prefix cache** (`PrefixCache_proofs`).  The operations are nested five deep
(lookup, promotion, allocation, eviction, demotion, spill), so the proof follows the
calls.  `GoodTiers` and `GoodMems` are the tiers and the memories whose books are in
order (one entry of a hash in each tier, holding its bytes; exact counters and limits; the
map and the hashes of the blocks agree; the queue has the blocks with count 0); for
each operator, from `Stored` and `Demoted` up to `LongestHit` and `Place`, a lemma says that it
takes a good memory to a good one, and what it leaves alone: the blocks in use
keep their bytes, hash and count, and what was `Present` somewhere still is (`Keeps`).

* `IInv` says how the block tables fit on such a memory.  `CountsCover`: the count of a block is at
  least its uses, and not equal to them, since a promoted block keeps the count of its
  allocation.  `TwiceIsLent`: a block that one request has twice, as `PrefixCache_prefix`
  shows it may, has a count above its uses; else `free_blocks`, which puts on the queue
  each entry of its list whose count is 0 then, would put it there twice.  `TailsAreOwn`: a tail has no hash
  and no other place in any table, so that what `Extend` computes into it changes nothing
  that another request reads.  `Remembered`: what was cached, the texts of the running
  requests included, is present.
* From it `TypeCorrect`, `QueueIsUnused`, `CacheAnswersTruly`, `BooksAreKept` and
  `CachedIsRemembered`, and the action property `RunningIsUndisturbed`: an allocation
  takes from the queue, the queue has no block with a count, and no running request
  has a block without one.
* No theorem says that a table holds the text of its request: it need not
  (`PrefixCache_prefix`).  `RunningIsUndisturbed` says that what it holds stays.

The hypotheses of these theorems are of two kinds.  The modules' assumptions
(`ConfigAssumption`, `OrderAssumption`, `BoundAssumption`, `TextAssumption`,
`BundleAssumption`, `TierAssumption`, `PolicyAssumption`, `JobStoreAssumption`,
`AskedAssumption`, `TiersAssumption`, `CacheAssumption`) type the constants;
`CacheAssumption` also says that no text has a hash twice, since the hash of a block
covers the hash of the one before it, and that a prefix of a text is a text.  `Exclusive` names the
case a theorem speaks of, boots and runs that take turns: `ApplyLoop_whole` shows what
becomes of the files without it.  `MarkersSurvive` says that an edit that
anchors on a marker puts it back, and that the files a manifest is built from hold
no marker: none of the 586 anchors written as literals in the patches contains one of
their 254 markers, and manifests are built from pristine files.
`MergedSurvive` is the first half of that for the tokens by which a sub-patch knows an
upstream merge.  `ManifestsSpliceable` says that the manifests were built for patchers that are
`Spliceable` in the files they were built from (section 3), a condition on the patches that
nothing in the code enforces.  No theorem asks anything of the order of the patches.
TLC evaluates all assumptions in the runs, and these three (as an `ASSUME` of the MC
modules).

Induction is had from well-foundedness of the naturals, stated of a set instead of
an operator (`NatSetInduction`, `UpToInduction` in `FoldFacts`), and from it what a
fold or a filter keeps (`FoldByIs`, `FoldUpIsChain`, `KeptIsOnce`, `KeptIs`).

Only model-checked: liveness (`BootEnds`, `WorkMovesOn`), which the prover does not do,
and `RebootIsNoop`, of the order of `ApplyLoop_boot`; what holds of any order is the
theorem `RerunsCatchUpOnly`.

## 5. What the models leave out

* In the kernel: encodings, line endings, permissions other than a read-only
  mount, logging and statistics.  A `read_error` on load skips, one on open,
  write and reread fails, as in the code.
* In the marker cache: `invalidate_file`, `clear_cache` and the hit counters.
* In the orchestrator: plugin discovery, the pre-flight report, boot probes, and
  `run(apply=False)`, in which bundles still write.  That the bundles and the
  loop run one after the other in one process is not composed yet.
* In the bundles: deletions of target files while a bundle runs.  A failing aid
  leaves the one that was there, although `open` for writing may have truncated it.
* In the tier manager: tensors and copies; the policy of tier 0, which is
  written and never read in a configuration of two tiers; a single-tier
  configuration, where nothing is demoted; `touch`, which reads and reorders.
  The policy of the CPU tier is the set of keys it tracks: LRU, the
  default, evicts any of them in some history, and `IsKeyBag` shows that it has no key
  twice.  With 2Q, which may, the two modules would differ; they are not composed.
* In the policies: statistics.
* In the prefix cache: layers one by one, and a restore of only some of them;
  compression and the envelope of files; I/O errors and a failing pinned allocation;
  site 13 and PN96 (section 2); `evict_blocks`, which a connector calls; `get_view`, `delete` and `evict_oldest`,
  which nothing calls; `pn95_demote_batch`, the hot ring and the virtual blocks of
  phase 5; more than one KV group, sliding windows, Mamba and Eagle; hash
  collisions.
* In the job store: a request refused after its job is stored, which leaves the job
  `running` (`jobs.py:282`), is in the model a request that is out of the phases the
  properties speak of; titles, steps, logs, progress and artifacts; the events of
  other callers, which only take numbers; the text of the files (a write that
  raises leaves the old one, as a rename does).

## Not modelled

* PN95 hooks and demote policy: gates and heuristics that decide *which* calls of
  the tier manager and the prefix store happen; both modules allow every order of
  the calls.
* Response cache: a dictionary under one lock, each operation a step of its own.
  (With equal hits, its hit-weighted eviction takes the newest, which its comment
  does not say: `response_cache.py:312`.)
* Container watch and reliability tracker: small state machines over polled
  history.  (The watch takes over new states before the alerts are sent,
  `container_watch.py:60`, so an alert that cannot be sent is lost.)
* Accounts and sessions: signed tokens checked against one stored record.
* Dispatcher: a table over environment, model and version; nothing steps.
* Gateway: a proxy whose state is the health it last polled.
* The memory engine, the vLLM patches themselves, kernels, the CLI, the GUI and
  the deployment tools: queries, texts for another program and rendering.  They
  are most of the repository's lines: some 400 patch bodies and their registry are
  data to the kernel modelled here, not state that steps.

## 6. Running

    tlc -workers 2 -config ApplyLoop_boot.cfg MCApplyLoop.tla
    tlapm ApplyLoop_proofs.tla

and likewise for the other runs in `PROJECT.json`.

## 7. Plan

In this order:

1. `Boot`: bundles and loop in one run, with the dry-run mode, in which bundles
   write (`orchestrator.py:457`).
2. `TierManager` over `EvictionPolicies`, with ARC's silent replacement and the keys
   2Q has twice.
3. The prefix cache with layers, partial restores and failing I/O.
4. `ResponseCache`, `ContainerWatch` and the reliability tracker.
5. Accounts (lost updates of the user record) and the gateway's health states.
