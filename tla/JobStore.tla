------------------------------ MODULE JobStore ------------------------------
(* The jobs and the event feed of the product API: jobs.py and the worker    *)
(* threads of background_exec.py.  One daemon keeps both in memory under a   *)
(* lock and writes each to a file of its own after every change; a read or a *)
(* write may fail, and the daemon may die and come back between any two      *)
(* calls.  A client follows the feed with a cursor of its own.               *)
(*                                                                           *)
(* A job is its place in the order of creation: ids carry a digest of the    *)
(* time and never repeat, so the counter in them is left out, as are titles, *)
(* steps, logs and progress.  What is kept of a job is its status.           *)
EXTENDS Naturals, Sequences, FiniteSets

CONSTANTS
    MaxJobs,     \* bound: how many jobs are ever created
    Asked,       \* the statuses jobs are created with
    JobCap,      \* _JOB_CAP: how many jobs are kept
    EventCap,    \* _EVENT_CAP: how many events are kept
    Limit,       \* how many events one request of the client returns
    MaxFaults,   \* bound: how many calls meet an error of the file system
    MaxRestarts  \* bound: how often the daemon dies

ASSUME JobStoreAssumption ==
    /\ {MaxJobs, MaxFaults, MaxRestarts} \subseteq Nat
    /\ {JobCap, EventCap, Limit} \subseteq Nat \ {0}

Final == {"dry_run", "succeeded", "failed"}
Statuses == Final \cup {"running"}

ASSUME AskedAssumption == Asked \subseteq Statuses

VARIABLES
    store,     \* _STORE: what the daemon has in memory
    disk,      \* jobs.json and events.json
    created,   \* how many jobs were created
    phase,     \* per job, how far the request or the worker behind it is
    code,      \* per job, how its command ended
    client,    \* the cursor of the client and the events it has been given
    behind,    \* files whose last write failed: memory is ahead of them
    torn,      \* files whose unsaved changes a restart lost, or a read missed
    faults, restarts

vars == <<store, disk, created, phase, code, client, behind, torn, faults, restarts>>

Jobs == 1 .. MaxJobs
Files == {"jobs", "events"}

(* A background job is created (starting), spawned, running, exited; an      *)
(* exception sends its worker to erred.  Other jobs are only recorded.       *)
Live == {"recording", "starting", "spawning", "running", "exited", "erred"}
Ended == {"recorded", "done", "broken"}
Phases == Live \cup Ended \cup {"new", "refused", "killed"}
Codes == {"none", "zero", "nonzero"}

(* What can go wrong in one call: a file that cannot be read when the store  *)
(* is loaded, and the one write of the call that raises.                     *)
Troubles == [read : SUBSET Files, write : {"none"} \cup Files]
Calm == [read |-> {}, write |-> "none"]

NoJobs == [j \in {} |-> "running"]
Blank == [loaded |-> FALSE, jobs |-> NoJobs, events |-> <<>>, eventSeq |-> 0]

Init ==
    /\ store = Blank
    /\ disk = [jobs |-> NoJobs, events |-> <<>>, eventSeq |-> 0]
    /\ created = 0
    /\ phase = [j \in Jobs |-> "new"]
    /\ code = [j \in Jobs |-> "none"]
    /\ client = [cursor |-> 0, seen |-> {}]
    /\ behind = {} /\ torn = {}
    /\ faults = 0 /\ restarts = 0

(* The trouble of a call is within the bound, and reads happen only to load. *)
Meets(t) ==
    /\ t # Calm => faults < MaxFaults
    /\ store.loaded => t.read = {}
    /\ faults' = IF t = Calm THEN faults ELSE faults + 1

-----------------------------------------------------------------------------
(* The store *)

(* ensure: the first call after a start loads both files; one that cannot be *)
(* read counts as empty.                                                     *)
Ensured_CountsEvents(t) ==
    IF store.loaded THEN store
    ELSE [loaded |-> TRUE,
          jobs |-> IF "jobs" \in t.read THEN NoJobs ELSE disk.jobs,
          events |-> IF "events" \in t.read THEN <<>> ELSE disk.events,
          eventSeq |-> IF "events" \in t.read THEN 0 ELSE Len(disk.events)]
Ensured(t) ==
    IF store.loaded THEN store
    ELSE [loaded |-> TRUE,
          jobs |-> IF "jobs" \in t.read THEN NoJobs ELSE disk.jobs,
          events |-> IF "events" \in t.read THEN <<>> ELSE disk.events,
          eventSeq |-> IF "events" \in t.read THEN 0 ELSE disk.eventSeq]

(* save_jobs: only the newest jobs are kept, in memory too.                  *)
Newest_Oldest(jobs) ==
    [j \in {i \in DOMAIN jobs : Cardinality({k \in DOMAIN jobs : k < i}) < JobCap}
        |-> jobs[j]]
Newest(jobs) ==
    [j \in {i \in DOMAIN jobs : Cardinality({k \in DOMAIN jobs : k > i}) < JobCap}
        |-> jobs[j]]

(* record_event: the feed grows by one event and forgets the oldest.         *)
Capped(events) ==
    IF Len(events) > EventCap
    THEN SubSeq(events, Len(events) - EventCap + 1, Len(events)) ELSE events
Recorded(s, j, status) ==
    LET event == [seq |-> s.eventSeq + 1, job |-> j, status |-> status] IN
    [s EXCEPT !.eventSeq = event.seq, !.events = Capped(Append(s.events, event))]

(* A job is put into the store, or changed there, and the cap is applied.    *)
WithJob(s, j, status) ==
    [s EXCEPT !.jobs = Newest([i \in DOMAIN s.jobs \cup {j} |->
                                 IF i = j THEN status ELSE s.jobs[i]])]

(* The store becomes s, and the files in written are written; the one whose  *)
(* write raises keeps what it had and is behind.                             *)
Commit(s, written, t) ==
    LET saved == written \ {t.write} IN
    /\ store' = s
    /\ disk' = [jobs |-> IF "jobs" \in saved THEN s.jobs ELSE disk.jobs,
                events |-> IF "events" \in saved THEN s.events ELSE disk.events,
                eventSeq |-> IF "events" \in saved THEN s.eventSeq ELSE disk.eventSeq]
    /\ behind' = ((behind \cup t.read) \ saved) \cup (written \cap {t.write})
    /\ torn' = torn \cup t.read

(* update_job: the job is changed in memory and saved, and when its status   *)
(* is set an event follows.  A job that is not there is left alone.          *)
Has(j, t) == j \in DOMAIN Ensured(t).jobs
Raises(j, t) == Has(j, t) /\ t.write # "none"
UpdateJob(j, status, t) ==
    LET s == Ensured(t)
        saved == WithJob(s, j, status)
    IN  IF ~Has(j, t) THEN Commit(s, {}, t)
        ELSE IF t.write = "jobs" THEN Commit(saved, {"jobs"}, t)
        ELSE Commit(Recorded(saved, j, status), Files, t)

-----------------------------------------------------------------------------
(* Requests *)

(* create_dry_run_job, create_executed_job and create_running_job, as far as *)
(* the lock goes: the job is put into the store and saved.  When that raises *)
(* the request fails, and the job stays in memory.                           *)
Create(status, t) ==
    LET j == created + 1 IN
        /\ created < MaxJobs
        /\ t.write # "events"
        /\ created' = j
        /\ Commit(WithJob(Ensured(t), j, status), {"jobs"}, t)
        /\ phase' = [phase EXCEPT ![j] = IF t.write = "jobs" THEN "refused"
                                         ELSE IF status = "running" THEN "starting"
                                         ELSE "recording"]
        /\ code' = [code EXCEPT ![j] = CASE status = "succeeded" -> "zero"
                                         [] status = "failed" -> "nonzero"
                                         [] OTHER -> "none"]
        /\ UNCHANGED client

Started(j) == IF phase[j] = "starting" THEN "running"
              ELSE CASE code[j] = "zero" -> "succeeded"
                     [] code[j] = "nonzero" -> "failed"
                     [] OTHER -> "dry_run"

(* Outside the lock the event of the new job is recorded.  When that raises  *)
(* the request fails, and no worker is started for the job.                  *)
Announce(j, t) ==
    /\ phase[j] \in {"recording", "starting"}
    /\ t.write # "jobs"
    /\ Commit(Recorded(Ensured(t), j, Started(j)), {"events"}, t)
    /\ phase' = [phase EXCEPT ![j] = IF t.write = "events" THEN "refused"
                                     ELSE IF @ = "starting" THEN "spawning" ELSE "recorded"]
    /\ UNCHANGED <<created, code, client>>

(* list_events: the newest of the events after the cursor.                   *)
Fresh(events) == {i \in DOMAIN events : events[i].seq > client.cursor}
Page(events) ==
    {i \in Fresh(events) : Cardinality({k \in Fresh(events) : k > i}) < Limit}

(* /api/v1/events/recent: the client gets a page and moves its cursor to the *)
(* last event of it.                                                         *)
Poll(t) ==
    LET events == Ensured(t).events IN
    /\ t.write = "none"
    /\ Commit(Ensured(t), {}, t)
    /\ \/ /\ Page(events) = {} /\ ~store.loaded
          /\ UNCHANGED client
       \/ \E last \in Page(events) :
            /\ \A i \in Page(events) : i <= last
            /\ client' = [cursor |-> events[last].seq,
                          seen |-> client.seen \cup {events[i] : i \in Page(events)}]
    /\ UNCHANGED <<created, phase, code>>

-----------------------------------------------------------------------------
(* The worker thread of a background job *)

Spawn(j) ==
    /\ phase[j] = "spawning"
    /\ phase' = [phase EXCEPT ![j] = "running"]
    /\ UNCHANGED <<store, disk, created, code, client, behind, torn>>

(* The command cannot be started: the job fails.  An exception of this       *)
(* update is not caught and ends the thread.                                 *)
SpawnFails(j, t) ==
    /\ phase[j] = "spawning"
    /\ UpdateJob(j, "failed", t)
    /\ phase' = [phase EXCEPT ![j] = "broken"]
    /\ UNCHANGED <<created, code, client>>

(* Output is flushed to the log of the job, which saves the jobs.            *)
Flush(j, t) ==
    /\ phase[j] = "running" /\ Has(j, t)
    /\ t.write # "events"
    /\ Commit(Ensured(t), {"jobs"}, t)
    /\ phase' = [phase EXCEPT ![j] = IF Raises(j, t) THEN "erred" ELSE @]
    /\ UNCHANGED <<created, code, client>>

(* The command ends with an exit code. *)
Exit(j, c) ==
    /\ phase[j] = "running"
    /\ phase' = [phase EXCEPT ![j] = "exited"]
    /\ code' = [code EXCEPT ![j] = c]
    /\ UNCHANGED <<store, disk, created, client, behind, torn>>

Verdict_Swapped(c) == IF c = "nonzero" THEN "succeeded" ELSE "failed"
Verdict_Code(c) == c
Verdict(c) == IF c = "zero" THEN "succeeded" ELSE "failed"
Report_OnlySuccess(j, t) ==
    /\ phase[j] = "exited" /\ code[j] = "zero"
    /\ UpdateJob(j, Verdict(code[j]), t)
    /\ phase' = [phase EXCEPT ![j] = IF Raises(j, t) THEN "erred" ELSE "done"]
    /\ UNCHANGED <<created, code, client>>
Report(j, t) ==
    /\ phase[j] = "exited"
    /\ UpdateJob(j, Verdict(code[j]), t)
    /\ phase' = [phase EXCEPT ![j] = IF Raises(j, t) THEN "erred" ELSE "done"]
    /\ UNCHANGED <<created, code, client>>

(* An exception while the worker ran: the job is failed, whatever it was,    *)
(* another exception is swallowed, and the child is killed and reaped.       *)
GiveUp_Swallows(j, t) ==
    /\ phase[j] = "erred"
    /\ Commit(Ensured(t), {}, t)
    /\ phase' = [phase EXCEPT ![j] = "broken"]
    /\ UNCHANGED <<created, code, client>>
GiveUp(j, t) ==
    /\ phase[j] = "erred"
    /\ UpdateJob(j, "failed", t)
    /\ phase' = [phase EXCEPT ![j] = "broken"]
    /\ UNCHANGED <<created, code, client>>

-----------------------------------------------------------------------------
(* The daemon dies, its requests and workers with it, and starts again: what *)
(* was not written is lost.                                                  *)
Restart ==
    /\ restarts < MaxRestarts
    /\ restarts' = restarts + 1
    /\ store' = Blank
    /\ torn' = torn \cup behind
    /\ behind' = {}
    /\ phase' = [j \in Jobs |-> IF phase[j] \in Live THEN "killed" ELSE phase[j]]
    /\ UNCHANGED <<disk, created, code, client, faults>>

Request(t) == \/ \E status \in Asked : Create(status, t)
              \/ Poll(t)
Work(j, t) == \/ Announce(j, t) \/ SpawnFails(j, t) \/ Flush(j, t)
              \/ Report(j, t) \/ GiveUp(j, t)

Next ==
    \/ /\ \/ \E t \in Troubles : Meets(t) /\ (Request(t) \/ \E j \in Jobs : Work(j, t))
          \/ \E j \in Jobs : UNCHANGED faults /\ (Spawn(j) \/ \E c \in {"zero", "nonzero"} : Exit(j, c))
       /\ UNCHANGED restarts
    \/ Restart

Spec == Init /\ [][Next]_vars

(* A thread that can go on does so; the lock is held for one call at a time. *)
(* Nothing is assumed of the command: it may run for ever.                   *)
GoesOn(j) ==
    /\ \/ \E t \in Troubles : Meets(t) /\ (Announce(j, t) \/ Report(j, t) \/ GiveUp(j, t))
       \/ UNCHANGED faults /\ Spawn(j)
    /\ UNCHANGED restarts
FairSpec == Spec /\ \A j \in Jobs : WF_vars(GoesOn(j))

-----------------------------------------------------------------------------
Events == [seq : Nat, job : Jobs, status : Statuses]
Tables == UNION {[D -> Statuses] : D \in SUBSET Jobs}
Disks == [jobs : Tables, events : Seq(Events), eventSeq : Nat]
Stores == [loaded : BOOLEAN, jobs : Tables, events : Seq(Events), eventSeq : Nat]

(* Types of the store, the files and the work behind the jobs.               *)
TypeOK ==
    /\ store \in Stores /\ disk \in Disks
    /\ created \in 0 .. MaxJobs
    /\ phase \in [Jobs -> Phases]
    /\ code \in [Jobs -> Codes]
    /\ client \in [cursor : Nat, seen : SUBSET Events]
    /\ behind \in SUBSET Files /\ torn \in SUBSET Files
    /\ faults \in Nat /\ restarts \in Nat

(* No job is said to have succeeded unless its command ended with code 0,    *)
(* and none that did is said to have failed unless its worker met an error;  *)
(* in memory and on disk, whatever writes failed and restarts came between.  *)
TrueVerdict(jobs) ==
    \A j \in DOMAIN jobs :
      /\ jobs[j] = "succeeded" => code[j] = "zero"
      /\ jobs[j] = "failed" /\ code[j] = "zero" => phase[j] = "broken"
VerdictMatchesExit == TrueVerdict(store.jobs) /\ TrueVerdict(disk.jobs)

(* A worker that came to its end, errors on its way included, left its job   *)
(* in a final status, if the job is still kept: a job is left running for    *)
(* good only by a restart or a request that failed.                          *)
Settled(jobs) == \A j \in DOMAIN jobs : phase[j] \in Ended => jobs[j] \in Final
EndedIsFinal ==
    "jobs" \notin torn =>
      Settled(store.jobs) /\ ("jobs" \notin behind => Settled(disk.jobs))

(* As long as no restart lost an unsaved change and every read went well,    *)
(* the store keeps exactly the newest jobs ever created, and so does the     *)
(* file when its last write went well.                                       *)
NewestCreated == {j \in 1 .. created : created - j < JobCap}
HistoryIsNewest ==
    "jobs" \notin torn =>
      /\ store.loaded => DOMAIN store.jobs = NewestCreated
      /\ "jobs" \notin behind => DOMAIN disk.jobs = NewestCreated

(* The numbers of events are consecutive and end at the counter; and unless  *)
(* a restart lost an event, or the feed could not be read, no number the     *)
(* client has been given comes back with another event.                      *)
Consecutive(events, last) ==
    /\ Len(events) <= last
    /\ \A i \in DOMAIN events : events[i].seq = last - Len(events) + i
SeqsNotReused ==
    /\ Consecutive(store.events, store.eventSeq)
    /\ Consecutive(disk.events, disk.eventSeq)
    /\ "events" \notin torn =>
         \A e \in client.seen :
           \A i \in DOMAIN store.events : store.events[i].seq = e.seq => store.events[i] = e

(* No request or worker stays where it is, but for a command that runs: a    *)
(* job that is created is announced, one whose command ended is told so.     *)
WorkMovesOn ==
    \A j \in Jobs : phase[j] \in Live \ {"running"} ~> phase[j] \notin Live \ {"running"}
=============================================================================
