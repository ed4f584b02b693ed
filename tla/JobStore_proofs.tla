--------------------------- MODULE JobStore_proofs ---------------------------
(* Proofs about JobStore for any number of jobs, faults and restarts and any *)
(* caps.  IInv adds to the types and the verdicts that jobs not yet created  *)
(* have left no trace, and that a job whose worker has not reported yet is   *)
(* running in memory and on disk alike.  Even relates memory to the files;   *)
(* with it follow what is kept of the jobs (SettledInv, HistoryInv) and of   *)
(* the events (ConsecutiveInv, KnownInv), whatever calls failed.             *)
EXTENDS JobStore, SequenceTheorems, FiniteSetTheorems, TLAPS

Waiting == {"starting", "spawning", "running", "exited"}

(* What a table of jobs promises, given the work behind the jobs.            *)
Sound(jobs, n, ph, cd) ==
    /\ jobs \in Tables
    /\ \A j \in DOMAIN jobs :
         /\ j <= n
         /\ jobs[j] = "succeeded" => cd[j] = "zero"
         /\ jobs[j] = "failed" /\ cd[j] = "zero" => ph[j] = "broken"
         /\ ph[j] \in Waiting => jobs[j] = "running"

Untouched == \A j \in Jobs : j > created => phase[j] = "new" /\ code[j] = "none"

IInv ==
    /\ TypeOK
    /\ Untouched
    /\ Sound(store.jobs, created, phase, code)
    /\ Sound(disk.jobs, created, phase, code)

USE JobStoreAssumption, AskedAssumption

-----------------------------------------------------------------------------
(* The operators of the store *)

LEMMA NewestShrinks ==
    ASSUME NEW f
    PROVE  /\ DOMAIN Newest(f) \subseteq DOMAIN f
           /\ \A i \in DOMAIN Newest(f) : Newest(f)[i] = f[i]
  BY DEF Newest

LEMMA TablesIntro ==
    ASSUME NEW f, DOMAIN f \subseteq Jobs, f = [i \in DOMAIN f |-> f[i]],
           \A i \in DOMAIN f : f[i] \in Statuses
    PROVE  f \in Tables
  <1>1. f \in [DOMAIN f -> Statuses]
    OBVIOUS
  <1> QED BY <1>1 DEF Tables

LEMMA TablesElim ==
    ASSUME NEW f \in Tables
    PROVE  /\ DOMAIN f \subseteq Jobs
           /\ \A i \in DOMAIN f : f[i] \in Statuses
  BY DEF Tables

LEMMA NoJobsType == NoJobs \in Tables /\ DOMAIN NoJobs = {}
  BY TablesIntro DEF NoJobs

LEMMA NewestIsFunction ==
    ASSUME NEW f \in Tables
    PROVE  Newest(f) \in Tables
  <1>1. DOMAIN Newest(f) \subseteq Jobs /\ \A i \in DOMAIN Newest(f) : Newest(f)[i] \in Statuses
    BY TablesElim, NewestShrinks
  <1>2. Newest(f) = [i \in DOMAIN Newest(f) |-> Newest(f)[i]]
    BY DEF Newest
  <1> QED BY <1>1, <1>2, TablesIntro

LEMMA CappedType ==
    ASSUME NEW e \in Seq(Events)
    PROVE  Capped(e) \in Seq(Events)
  <1>1. CASE Len(e) > EventCap
    <2>1. Len(e) - EventCap + 1 \in 1 .. Len(e)
      BY <1>1
    <2>2. SubSeq(e, Len(e) - EventCap + 1, Len(e)) \in Seq(Events)
      BY <2>1
    <2> QED BY <1>1, <2>2 DEF Capped
  <1>2. CASE ~(Len(e) > EventCap)
    BY <1>2 DEF Capped
  <1> QED BY <1>1, <1>2

LEMMA RecordedType ==
    ASSUME NEW s \in Stores, NEW j \in Jobs, NEW status \in Statuses
    PROVE  /\ Recorded(s, j, status) \in Stores
           /\ Recorded(s, j, status).jobs = s.jobs
           /\ Recorded(s, j, status).loaded = s.loaded
  <1> DEFINE e == [seq |-> s.eventSeq + 1, job |-> j, status |-> status]
  <1>1. e \in Events
    BY DEF Stores, Events
  <1>2. Capped(Append(s.events, e)) \in Seq(Events)
    <2> HIDE DEF e
    <2>1. Append(s.events, e) \in Seq(Events)
      BY <1>1 DEF Stores
    <2> QED BY <2>1, CappedType
  <1>3. Recorded(s, j, status) =
          [loaded |-> s.loaded, jobs |-> s.jobs,
           events |-> Capped(Append(s.events, e)), eventSeq |-> s.eventSeq + 1]
    <2>1. s = [loaded |-> s.loaded, jobs |-> s.jobs, events |-> s.events, eventSeq |-> s.eventSeq]
      BY DEF Stores
    <2> HIDE DEF e
    <2>2. Recorded(s, j, status) =
            [s EXCEPT !.eventSeq = s.eventSeq + 1, !.events = Capped(Append(s.events, e))]
      BY DEF Recorded, e
    <2> QED BY <2>1, <2>2
  <1> QED BY <1>2, <1>3 DEF Stores

LEMMA WithJobType ==
    ASSUME NEW s \in Stores, NEW j \in Jobs, NEW status \in Statuses
    PROVE  /\ WithJob(s, j, status) \in Stores
           /\ WithJob(s, j, status).loaded = s.loaded
           /\ \A i \in DOMAIN WithJob(s, j, status).jobs :
                \/ i = j /\ WithJob(s, j, status).jobs[i] = status
                \/ i # j /\ i \in DOMAIN s.jobs /\ WithJob(s, j, status).jobs[i] = s.jobs[i]
  <1> DEFINE f == [i \in DOMAIN s.jobs \cup {j} |-> IF i = j THEN status ELSE s.jobs[i]]
  <1>1. f \in Tables
    <2>1. DOMAIN f \subseteq Jobs /\ \A i \in DOMAIN f : f[i] \in Statuses
      BY TablesElim DEF Stores
    <2> QED BY <2>1, TablesIntro
  <1>2. Newest(f) \in Tables
    BY <1>1, NewestIsFunction
  <1>3. WithJob(s, j, status) = [loaded |-> s.loaded, jobs |-> Newest(f),
                                 events |-> s.events, eventSeq |-> s.eventSeq]
    BY DEF WithJob, Stores
  <1>4. \A i \in DOMAIN Newest(f) : i \in DOMAIN f /\ Newest(f)[i] = f[i]
    BY NewestShrinks
  <1> HIDE DEF f
  <1>5. \A i \in DOMAIN f : \/ i = j /\ f[i] = status
                            \/ i # j /\ i \in DOMAIN s.jobs /\ f[i] = s.jobs[i]
    BY DEF f
  <1> QED BY <1>2, <1>3, <1>4, <1>5 DEF Stores

LEMMA EnsuredType ==
    ASSUME TypeOK, NEW t \in Troubles
    PROVE  /\ Ensured(t) \in Stores
           /\ \/ Ensured(t).jobs = store.jobs
              \/ Ensured(t).jobs = disk.jobs
              \/ Ensured(t).jobs = NoJobs
  BY NoJobsType DEF Ensured, TypeOK, Stores, Disks

LEMMA EnsuredSound ==
    ASSUME IInv, NEW t \in Troubles
    PROVE  Ensured(t) \in Stores /\ Sound(Ensured(t).jobs, created, phase, code)
  <1>1. Sound(NoJobs, created, phase, code)
    BY NoJobsType DEF Sound
  <1> QED BY <1>1, EnsuredType DEF IInv

LEMMA CommitTypes ==
    ASSUME TypeOK, NEW s \in Stores, NEW w \in SUBSET Files, NEW t \in Troubles,
           Commit(s, w, t)
    PROVE  /\ store' \in Stores /\ disk' \in Disks
           /\ store'.jobs = s.jobs
           /\ disk'.jobs = s.jobs \/ disk'.jobs = disk.jobs
           /\ behind' \in SUBSET Files /\ torn' \in SUBSET Files
  <1>1. disk' \in Disks /\ (disk'.jobs = s.jobs \/ disk'.jobs = disk.jobs)
    BY DEF Commit, TypeOK, Stores, Disks
  <1>2. behind' \in SUBSET Files /\ torn' \in SUBSET Files
    BY DEF Commit, TypeOK, Troubles
  <1> QED BY <1>1, <1>2 DEF Commit

(* What is sound in the next state of the work stays so in store and files.  *)
LEMMA CommitSound ==
    ASSUME TypeOK, NEW s \in Stores, NEW w \in SUBSET Files, NEW t \in Troubles,
           Commit(s, w, t),
           Sound(s.jobs, created', phase', code'),
           Sound(disk.jobs, created', phase', code')
    PROVE  /\ store' \in Stores /\ disk' \in Disks
           /\ behind' \in SUBSET Files /\ torn' \in SUBSET Files
           /\ Sound(store.jobs, created, phase, code)'
           /\ Sound(disk.jobs, created, phase, code)'
  BY CommitTypes

(* A job whose request or worker is under way has been created.              *)
LEMMA UnderWay ==
    ASSUME IInv, NEW j \in Jobs, phase[j] # "new"
    PROVE  j \in 1 .. created
  BY DEF IInv, Untouched, Jobs, TypeOK

(* A step of the worker that ends the wait of its job and may set its status *)
(* keeps the verdicts true, if the status it sets is one.                    *)
LEMMA UpdateSound ==
    ASSUME IInv, NEW j \in Jobs, NEW status \in Statuses, NEW t \in Troubles, NEW p \in Phases,
           phase[j] \notin {"new", "broken"}, p \notin Waiting \cup {"new"},
           status = "succeeded" => code[j] = "zero",
           status = "failed" /\ code[j] = "zero" => p = "broken",
           UpdateJob(j, status, t),
           phase' = [phase EXCEPT ![j] = p], UNCHANGED <<created, code, client>>,
           faults' \in Nat, UNCHANGED restarts
    PROVE  IInv'
  <1> DEFINE s == Ensured(t)
  <1>1. s \in Stores /\ Sound(s.jobs, created, phase, code)
    BY EnsuredSound
  <1>2. j \in 1 .. created
    BY UnderWay
  <1>3. ASSUME NEW f, Sound(f, created, phase, code)
        PROVE  Sound(f, created', phase', code')
    BY <1>3, <1>2, TablesElim DEF Sound, IInv, TypeOK
  <1>4. Sound(disk.jobs, created', phase', code')
    BY <1>3 DEF IInv
  <1>5. Sound(s.jobs, created', phase', code')
    BY <1>1, <1>3
  <1> DEFINE u == WithJob(s, j, status)
  <1>6. u \in Stores /\ Sound(u.jobs, created', phase', code')
    <2>1. /\ u \in Stores
          /\ \A i \in DOMAIN u.jobs : \/ i = j /\ u.jobs[i] = status
                                      \/ i # j /\ i \in DOMAIN s.jobs /\ u.jobs[i] = s.jobs[i]
      BY <1>1, WithJobType
    <2>2. u.jobs \in Tables
      BY <2>1 DEF Stores
    <2>3. phase'[j] = p /\ code'[j] = code[j] /\ created' = created
      BY DEF IInv, TypeOK
    <2> HIDE DEF u, s
    <2> QED BY <2>1, <2>2, <2>3, <1>2, <1>5 DEF Sound
  <1>7. Recorded(u, j, status) \in Stores /\ Recorded(u, j, status).jobs = u.jobs
    BY <1>6, RecordedType
  <1> HIDE DEF u, s
  <1>8. PICK v \in Stores, w \in SUBSET Files :
          Commit(v, w, t) /\ Sound(v.jobs, created', phase', code')
    <2>1. CASE ~Has(j, t)
      BY <2>1, <1>1, <1>5 DEF UpdateJob, s, Files
    <2>2. CASE Has(j, t) /\ t.write = "jobs"
      BY <2>2, <1>6 DEF UpdateJob, u, s, Files
    <2>3. CASE Has(j, t) /\ t.write # "jobs"
      BY <2>3, <1>6, <1>7 DEF UpdateJob, u, s, Files
    <2> QED BY <2>1, <2>2, <2>3
  <1>9. /\ store' \in Stores /\ disk' \in Disks
        /\ behind' \in SUBSET Files /\ torn' \in SUBSET Files
        /\ Sound(store.jobs, created, phase, code)' /\ Sound(disk.jobs, created, phase, code)'
    BY <1>4, <1>8, CommitSound DEF IInv
  <1>10. TypeOK'
    BY <1>9 DEF IInv, TypeOK
  <1>11. Untouched'
    BY <1>2 DEF IInv, Untouched, TypeOK
  <1> QED BY <1>9, <1>10, <1>11 DEF IInv

-----------------------------------------------------------------------------
(* The actions *)

LEMMA InitIInv ==
    ASSUME Init
    PROVE  IInv
  <1>1. TypeOK
    BY NoJobsType DEF Init, TypeOK, Blank, Stores, Disks, Phases, Codes, Files
  <1>2. Untouched
    BY DEF Init, Untouched
  <1>3. Sound(NoJobs, created, phase, code)
    BY NoJobsType DEF Sound
  <1> QED BY <1>1, <1>2, <1>3 DEF IInv, Init, Blank

LEMMA CreateIInv ==
    ASSUME IInv, NEW t \in Troubles, Meets(t), NEW status \in Asked, Create(status, t),
           UNCHANGED restarts
    PROVE  IInv'
  <1> DEFINE j == created + 1
             s == Ensured(t)
             u == WithJob(s, j, status)
  <1>1. status \in Statuses /\ j \in Jobs /\ created' = j /\ created \in Nat
    BY DEF Create, IInv, TypeOK, Jobs
  <1>2. s \in Stores /\ Sound(s.jobs, created, phase, code)
    BY EnsuredSound
  <1>3. /\ phase' \in [Jobs -> Phases] /\ code' \in [Jobs -> Codes]
        /\ phase'[j] \in {"refused", "starting", "recording"}
        /\ phase'[j] = "starting" => status = "running"
        /\ code'[j] = CASE status = "succeeded" -> "zero"
                         [] status = "failed" -> "nonzero" [] OTHER -> "none"
        /\ \A i \in Jobs : i # j => phase'[i] = phase[i] /\ code'[i] = code[i]
    BY <1>1 DEF Create, IInv, TypeOK, Phases, Live, Codes
  <1>4. ASSUME NEW f, Sound(f, created, phase, code)
        PROVE  Sound(f, created', phase', code')
    BY <1>1, <1>3, <1>4, TablesElim DEF Sound, Jobs
  <1>5. u \in Stores /\ Sound(u.jobs, created', phase', code')
    <2>1. /\ u \in Stores
          /\ \A i \in DOMAIN u.jobs : \/ i = j /\ u.jobs[i] = status
                                      \/ i # j /\ i \in DOMAIN s.jobs /\ u.jobs[i] = s.jobs[i]
      BY <1>1, <1>2, WithJobType
    <2>2. u.jobs \in Tables
      BY <2>1 DEF Stores
    <2>3. Sound(s.jobs, created', phase', code')
      BY <1>2, <1>4
    <2> HIDE DEF u, s
    <2> QED BY <1>1, <1>3, <2>1, <2>2, <2>3 DEF Sound, Waiting, Statuses, Final
  <1>6. Commit(u, {"jobs"}, t)
    BY DEF Create
  <1>7. Sound(disk.jobs, created', phase', code')
    BY <1>4 DEF IInv
  <1> HIDE DEF u, s
  <1>8. /\ store' \in Stores /\ disk' \in Disks
        /\ behind' \in SUBSET Files /\ torn' \in SUBSET Files
        /\ Sound(store.jobs, created, phase, code)' /\ Sound(disk.jobs, created, phase, code)'
    BY <1>5, <1>6, <1>7, CommitSound DEF IInv, Files
  <1>9. TypeOK'
    BY <1>1, <1>3, <1>8 DEF IInv, TypeOK, Meets, Create, Jobs
  <1>10. Untouched'
    BY <1>1, <1>3 DEF IInv, Untouched, Jobs
  <1> QED BY <1>8, <1>9, <1>10 DEF IInv

(* A call that changes no job: the store it leaves is the one ensured, up to *)
(* the events.                                                               *)
LEMMA SameJobsIInv ==
    ASSUME IInv, NEW t \in Troubles, Meets(t), NEW s \in Stores, NEW w \in SUBSET Files,
           s.jobs = Ensured(t).jobs, Commit(s, w, t),
           phase' \in [Jobs -> Phases], UNCHANGED <<created, code>>,
           \A j \in Jobs : \/ phase'[j] = phase[j]
                          \/ /\ phase[j] \notin {"new", "broken"}
                             /\ phase'[j] # "new"
                             /\ phase'[j] \in Waiting => phase[j] \in Waiting,
           client' \in [cursor : Nat, seen : SUBSET Events],
           UNCHANGED restarts
    PROVE  IInv'
  <1>1. ASSUME NEW f, Sound(f, created, phase, code)
        PROVE  Sound(f, created', phase', code')
    BY <1>1, TablesElim DEF Sound
  <1>2. Sound(s.jobs, created', phase', code') /\ Sound(disk.jobs, created', phase', code')
    BY <1>1, EnsuredSound DEF IInv
  <1>3. /\ store' \in Stores /\ disk' \in Disks
        /\ behind' \in SUBSET Files /\ torn' \in SUBSET Files
        /\ Sound(store.jobs, created, phase, code)' /\ Sound(disk.jobs, created, phase, code)'
    BY <1>2, CommitSound DEF IInv
  <1>4. TypeOK'
    BY <1>3 DEF IInv, TypeOK, Meets
  <1>5. Untouched'
    BY DEF IInv, Untouched
  <1> QED BY <1>3, <1>4, <1>5 DEF IInv

LEMMA PollIInv ==
    ASSUME IInv, NEW t \in Troubles, Meets(t), Poll(t), UNCHANGED restarts
    PROVE  IInv'
  <1>1. Ensured(t) \in Stores
    BY EnsuredSound
  <1>2. client' \in [cursor : Nat, seen : SUBSET Events]
    <2>1. \A i \in DOMAIN Ensured(t).events : Ensured(t).events[i] \in Events
      BY <1>1 DEF Stores
    <2>2. Page(Ensured(t).events) \subseteq DOMAIN Ensured(t).events
      BY DEF Page, Fresh
    <2> QED BY <2>1, <2>2 DEF Poll, IInv, TypeOK, Events
  <1> QED BY <1>1, <1>2, SameJobsIInv DEF Poll, IInv, TypeOK, Files

LEMMA StartedIsStatus ==
    ASSUME NEW j
    PROVE  Started(j) \in Statuses
  BY DEF Started, Statuses, Final

LEMMA AnnounceIInv ==
    ASSUME IInv, NEW t \in Troubles, Meets(t), NEW j \in Jobs, Announce(j, t), UNCHANGED restarts
    PROVE  IInv'
  <1> DEFINE s == Recorded(Ensured(t), j, Started(j))
  <1>1. s \in Stores /\ s.jobs = Ensured(t).jobs
    BY EnsuredSound, RecordedType, StartedIsStatus
  <1>2. /\ Commit(s, {"events"}, t) /\ {"events"} \in SUBSET Files
        /\ phase' \in [Jobs -> Phases] /\ UNCHANGED <<created, code, client>>
        /\ \A i \in Jobs : i # j => phase'[i] = phase[i]
        /\ phase[j] \in {"recording", "starting"}
        /\ \/ phase'[j] \in {"refused", "recorded"}
           \/ phase[j] = "starting" /\ phase'[j] = "spawning"
    BY DEF Announce, IInv, TypeOK, Files, Phases, Live, Ended
  <1> HIDE DEF s
  <1> QED BY <1>1, <1>2, SameJobsIInv DEF Waiting, IInv, TypeOK

LEMMA FlushIInv ==
    ASSUME IInv, NEW t \in Troubles, Meets(t), NEW j \in Jobs, Flush(j, t), UNCHANGED restarts
    PROVE  IInv'
  <1>1. /\ Commit(Ensured(t), {"jobs"}, t) /\ {"jobs"} \in SUBSET Files
        /\ phase' \in [Jobs -> Phases] /\ UNCHANGED <<created, code, client>>
        /\ \A i \in Jobs : i # j => phase'[i] = phase[i]
        /\ phase[j] = "running" /\ phase'[j] \in {"running", "erred"}
    BY DEF Flush, IInv, TypeOK, Files, Phases, Live
  <1> QED BY <1>1, EnsuredSound, SameJobsIInv DEF Waiting, IInv, TypeOK

LEMMA UpdatesIInv ==
    ASSUME IInv, NEW t \in Troubles, Meets(t), NEW j \in Jobs,
           SpawnFails(j, t) \/ Report(j, t) \/ GiveUp(j, t), UNCHANGED restarts
    PROVE  IInv'
  <1> faults' \in Nat
    BY DEF Meets, IInv, TypeOK
  <1>1. CASE SpawnFails(j, t) \/ GiveUp(j, t)
    <2>1. /\ phase[j] \in {"spawning", "erred"} /\ UpdateJob(j, "failed", t)
          /\ phase' = [phase EXCEPT ![j] = "broken"] /\ UNCHANGED <<created, code, client>>
      BY <1>1 DEF SpawnFails, GiveUp
    <2>2. "broken" \in Phases \ (Waiting \cup {"new"}) /\ "failed" \in Statuses
      BY DEF Phases, Ended, Waiting, Statuses, Final
    <2> QED BY <2>1, <2>2, UpdateSound
  <1>2. CASE Report(j, t)
    <2> DEFINE p == IF Raises(j, t) THEN "erred" ELSE "done"
    <2>1. /\ phase[j] = "exited" /\ UpdateJob(j, Verdict(code[j]), t)
          /\ phase' = [phase EXCEPT ![j] = p] /\ UNCHANGED <<created, code, client>>
      BY <1>2 DEF Report
    <2>2. p \in Phases \ (Waiting \cup {"new"})
      BY DEF Phases, Live, Ended, Waiting
    <2>3. /\ Verdict(code[j]) \in Statuses
          /\ Verdict(code[j]) = "succeeded" => code[j] = "zero"
          /\ Verdict(code[j]) = "failed" => code[j] # "zero"
      BY DEF Verdict, Statuses, Final
    <2> HIDE DEF p
    <2> QED BY <2>1, <2>2, <2>3, UpdateSound
  <1> QED BY <1>1, <1>2

(* Steps that leave store and files alone: a job that waits is running.      *)
LEMMA SpawnExitIInv ==
    ASSUME IInv, NEW j \in Jobs, UNCHANGED <<faults, restarts>>,
           Spawn(j) \/ \E c \in {"zero", "nonzero"} : Exit(j, c)
    PROVE  IInv'
  <1>1. /\ phase[j] \in {"spawning", "running"} /\ phase'[j] \in {"running", "exited"}
        /\ phase' \in [Jobs -> Phases] /\ code' \in [Jobs -> Codes]
        /\ \A i \in Jobs : i # j => phase'[i] = phase[i] /\ code'[i] = code[i]
        /\ UNCHANGED <<store, disk, created, client, behind, torn>>
    BY DEF Spawn, Exit, IInv, TypeOK, Phases, Live, Codes
  <1>2. ASSUME NEW f, Sound(f, created, phase, code)
        PROVE  Sound(f, created', phase', code')
    BY <1>1, <1>2, TablesElim DEF Sound, Waiting
  <1>3. Sound(store.jobs, created, phase, code)' /\ Sound(disk.jobs, created, phase, code)'
    BY <1>1, <1>2 DEF IInv
  <1>4. TypeOK' /\ Untouched'
    BY <1>1 DEF IInv, TypeOK, Untouched
  <1> QED BY <1>3, <1>4 DEF IInv

LEMMA RestartIInv ==
    ASSUME IInv, Restart
    PROVE  IInv'
  <1>1. /\ store' = Blank /\ UNCHANGED <<disk, created, code, client, faults>>
        /\ phase' \in [Jobs -> Phases]
        /\ \A j \in Jobs : \/ phase'[j] = phase[j] /\ phase[j] \notin Live
                           \/ phase'[j] = "killed" /\ phase[j] \in Live
    BY DEF Restart, IInv, TypeOK, Phases
  <1>2. Sound(disk.jobs, created, phase, code)'
    BY <1>1, TablesElim DEF IInv, Sound, Waiting, Live
  <1>3. Sound(store.jobs, created, phase, code)'
    BY <1>1, NoJobsType DEF Blank, Sound
  <1>4. TypeOK'
    BY <1>1, NoJobsType DEF Restart, IInv, TypeOK, Blank, Stores, Files
  <1>5. Untouched'
    BY <1>1 DEF IInv, Untouched, Live
  <1> QED BY <1>2, <1>3, <1>4, <1>5 DEF IInv

LEMMA NextIInv ==
    ASSUME IInv, [Next]_vars
    PROVE  IInv'
  <1>1. ASSUME NEW t \in Troubles, Meets(t), Request(t), UNCHANGED restarts
        PROVE  IInv'
    BY <1>1, CreateIInv, PollIInv DEF Request
  <1>2. ASSUME NEW t \in Troubles, Meets(t), NEW j \in Jobs, Work(j, t), UNCHANGED restarts
        PROVE  IInv'
    BY <1>2, AnnounceIInv, FlushIInv, UpdatesIInv DEF Work
  <1>3. CASE UNCHANGED vars
    BY <1>3 DEF IInv, TypeOK, Untouched, Sound, vars
  <1> QED BY <1>1, <1>2, <1>3, SpawnExitIInv, RestartIInv DEF Next

(* Type correctness of the job store.                                        *)
THEOREM TypesHold == Spec => []TypeOK
  <1>1. IInv => TypeOK
    BY DEF IInv
  <1> QED BY InitIInv, NextIInv, <1>1, PTL DEF Spec

(* No job is said to have ended otherwise than its command did, but for a    *)
(* success whose worker could not save it.                                   *)
THEOREM VerdictsAreTrue == Spec => []VerdictMatchesExit
  <1>1. IInv => VerdictMatchesExit
    BY DEF IInv, Sound, VerdictMatchesExit, TrueVerdict
  <1> QED BY InitIInv, NextIInv, <1>1, PTL DEF Spec

-----------------------------------------------------------------------------
(* Memory and files.  A file that is not behind holds what memory holds; so  *)
(* what a restart loads, if nothing is torn, is what was there before.       *)
Even ==
    /\ ~store.loaded => behind = {} /\ store = Blank
    /\ store.loaded /\ "jobs" \notin behind => disk.jobs = store.jobs
    /\ store.loaded /\ "events" \notin behind =>
         disk.events = store.events /\ disk.eventSeq = store.eventSeq

LEMMA EnsuredLoaded ==
    ASSUME TypeOK, NEW t \in Troubles
    PROVE  Ensured(t).loaded
  BY DEF Ensured, TypeOK, Stores

LEMMA CommitEven ==
    ASSUME TypeOK, Even, NEW t \in Troubles, Meets(t), NEW s \in Stores, s.loaded,
           NEW w \in SUBSET Files,
           "jobs" \notin w => s.jobs = Ensured(t).jobs,
           "events" \notin w => s.events = Ensured(t).events /\ s.eventSeq = Ensured(t).eventSeq,
           Commit(s, w, t)
    PROVE  Even'
  <1>1. store'.loaded /\ store' = s
    BY DEF Commit
  <1>2. ASSUME "jobs" \notin behind'
        PROVE  disk'.jobs = s.jobs
    <2>1. CASE "jobs" \in w
      BY <1>2, <2>1 DEF Commit
    <2>2. CASE "jobs" \notin w
      <3>1. "jobs" \notin behind /\ "jobs" \notin t.read /\ disk'.jobs = disk.jobs
        BY <1>2, <2>2 DEF Commit
      <3>2. Ensured(t).jobs = disk.jobs
        BY <3>1 DEF Ensured, Even
      <3> QED BY <2>2, <3>1, <3>2
    <2> QED BY <2>1, <2>2
  <1>3. ASSUME "events" \notin behind'
        PROVE  disk'.events = s.events /\ disk'.eventSeq = s.eventSeq
    <2>1. CASE "events" \in w
      BY <1>3, <2>1 DEF Commit
    <2>2. CASE "events" \notin w
      <3>1. /\ "events" \notin behind /\ "events" \notin t.read
            /\ disk'.events = disk.events /\ disk'.eventSeq = disk.eventSeq
        BY <1>3, <2>2 DEF Commit
      <3>2. Ensured(t).events = disk.events /\ Ensured(t).eventSeq = disk.eventSeq
        BY <3>1 DEF Ensured, Even
      <3> QED BY <2>2, <3>1, <3>2
    <2> QED BY <2>1, <2>2
  <1> QED BY <1>1, <1>2, <1>3 DEF Even

(* What every call does to the store: it is loaded, the jobs keep their      *)
(* statuses but for at most one job, and the events stay or grow by one.     *)
SameEvents(s, t) == s.events = Ensured(t).events /\ s.eventSeq = Ensured(t).eventSeq
Call(s, w, t) ==
    /\ s \in Stores /\ w \in SUBSET Files /\ s.loaded
    /\ "jobs" \notin w => s.jobs = Ensured(t).jobs
    /\ "events" \notin w => SameEvents(s, t)
    /\ \/ SameEvents(s, t)
       \/ \E u \in Stores, j \in Jobs, status \in Statuses :
            SameEvents(u, t) /\ s = Recorded(u, j, status)
    /\ Commit(s, w, t)

LEMMA WithJobEvents ==
    ASSUME NEW s \in Stores, NEW j, NEW status
    PROVE  /\ WithJob(s, j, status).events = s.events
           /\ WithJob(s, j, status).eventSeq = s.eventSeq
           /\ WithJob(s, j, status).loaded = s.loaded
  BY DEF WithJob, Stores

LEMMA UpdateIsCall ==
    ASSUME IInv, NEW t \in Troubles, NEW j \in Jobs, NEW status \in Statuses,
           UpdateJob(j, status, t)
    PROVE  \E s, w : /\ Call(s, w, t)
                     /\ \A i \in DOMAIN s.jobs :
                          \/ i = j /\ s.jobs[i] = status
                          \/ i # j /\ i \in DOMAIN Ensured(t).jobs
                             /\ s.jobs[i] = Ensured(t).jobs[i]
  <1> DEFINE e == Ensured(t)
             u == WithJob(e, j, status)
             r == Recorded(u, j, status)
  <1>1. e \in Stores /\ e.loaded
    BY EnsuredSound, EnsuredLoaded DEF IInv
  <1>2. /\ u \in Stores /\ u.loaded /\ SameEvents(u, t)
        /\ \A i \in DOMAIN u.jobs : \/ i = j /\ u.jobs[i] = status
                                    \/ i # j /\ i \in DOMAIN e.jobs /\ u.jobs[i] = e.jobs[i]
    BY <1>1, WithJobType, WithJobEvents DEF SameEvents
  <1>3. r \in Stores /\ r.jobs = u.jobs /\ r.loaded
    BY <1>2, RecordedType
  <1> HIDE DEF r, u
  <1>4. CASE ~Has(j, t)
    <2>1. Commit(e, {}, t) /\ j \notin DOMAIN e.jobs
      BY <1>4 DEF UpdateJob, Has
    <2>2. Call(e, {}, t)
      BY <1>1, <2>1 DEF Call, SameEvents
    <2> QED BY <2>1, <2>2
  <1>5. CASE Has(j, t) /\ t.write = "jobs"
    <2>1. Commit(u, {"jobs"}, t)
      BY <1>5 DEF UpdateJob, u
    <2>2. Call(u, {"jobs"}, t)
      BY <1>2, <2>1 DEF Call, Files
    <2> QED BY <1>2, <2>2
  <1>6. CASE Has(j, t) /\ t.write # "jobs"
    <2>1. Commit(r, Files, t)
      BY <1>6 DEF UpdateJob, r, u
    <2>2. Call(r, Files, t)
      BY <1>2, <1>3, <2>1 DEF Call, Files, r
    <2> QED BY <1>2, <1>3, <2>2
  <1> QED BY <1>4, <1>5, <1>6

(* The jobs and events of the last call: of the file when nothing is loaded. *)
CurJobs == IF store.loaded THEN store.jobs ELSE disk.jobs
CurEvents == IF store.loaded THEN store.events ELSE disk.events
CurSeq == IF store.loaded THEN store.eventSeq ELSE disk.eventSeq

(* A job that is recorded with a final status, or whose worker ended, has    *)
(* one.                                                                      *)
Told == Ended \cup {"recording"}
SettledInv ==
    "jobs" \notin torn => \A j \in DOMAIN CurJobs : phase[j] \in Told => CurJobs[j] \in Final

(* What one call does to the work behind the jobs: it tells at most one job, *)
(* with its status in place.                                                 *)
Tells(s, t) ==
    \A i \in DOMAIN s.jobs :
      phase'[i] \in Told =>
        \/ s.jobs[i] \in Final
        \/ /\ i \in DOMAIN Ensured(t).jobs /\ s.jobs[i] = Ensured(t).jobs[i]
           /\ phase[i] \in Told

LEMMA CallSettles ==
    ASSUME IInv, Even, SettledInv, NEW t \in Troubles, Meets(t), NEW s, NEW w,
           Call(s, w, t), Tells(s, t)
    PROVE  Even' /\ SettledInv'
  <1>1. Even'
    BY CommitEven DEF Call, IInv, SameEvents
  <1>2. store' = s /\ torn' = torn \cup t.read
    BY DEF Call, Commit
  <1>3. ASSUME "jobs" \notin torn'
        PROVE  Ensured(t).jobs = CurJobs /\ "jobs" \notin torn
    BY <1>2, <1>3 DEF Ensured, CurJobs
  <1>4. CurJobs' = s.jobs
    BY <1>2 DEF Call, CurJobs
  <1> QED BY <1>1, <1>3, <1>4 DEF SettledInv, Tells

(* The work moves and the store stays, or a restart kills what is under way. *)
LEMMA CreateCall ==
    ASSUME IInv, NEW t \in Troubles, Meets(t), NEW status \in Asked, Create(status, t)
    PROVE  \E s, w : Call(s, w, t) /\ Tells(s, t)
  <1> DEFINE j == created + 1
             u == WithJob(Ensured(t), j, status)
  <1>1. status \in Statuses /\ j \in Jobs
    BY DEF Create, IInv, TypeOK, Jobs
  <1>2. Ensured(t) \in Stores /\ Ensured(t).loaded
    BY EnsuredSound, EnsuredLoaded DEF IInv
  <1>3. /\ u \in Stores /\ u.loaded /\ SameEvents(u, t)
        /\ \A i \in DOMAIN u.jobs :
             \/ i = j /\ u.jobs[i] = status
             \/ i # j /\ i \in DOMAIN Ensured(t).jobs /\ u.jobs[i] = Ensured(t).jobs[i]
    BY <1>1, <1>2, WithJobType, WithJobEvents DEF SameEvents
  <1>4. phase'[j] \in Told => status \in Final
    BY <1>1 DEF Create, IInv, TypeOK, Told, Ended, Statuses
  <1>5. \A i \in Jobs : i # j => phase'[i] = phase[i]
    BY DEF Create, IInv, TypeOK
  <1>6. u.jobs \in Tables
    BY <1>3 DEF Stores
  <1>7. Commit(u, {"jobs"}, t)
    BY DEF Create
  <1> HIDE DEF u
  <1>8. Call(u, {"jobs"}, t)
    BY <1>3, <1>7 DEF Call, Files
  <1>9. Tells(u, t)
    BY <1>3, <1>4, <1>5, <1>6, TablesElim DEF Tells
  <1> QED BY <1>8, <1>9

LEMMA EnsuredCall ==
    ASSUME IInv, NEW t \in Troubles, NEW w \in SUBSET {"jobs"},
           Commit(Ensured(t), w, t), \A i \in Jobs : phase'[i] \in Told => phase[i] \in Told
    PROVE  \E s, v : Call(s, v, t) /\ Tells(s, t)
  <1>1. Ensured(t) \in Stores /\ Ensured(t).loaded
    BY EnsuredSound, EnsuredLoaded DEF IInv
  <1>2. Ensured(t).jobs \in Tables
    BY <1>1 DEF Stores
  <1>3. Call(Ensured(t), w, t)
    BY <1>1 DEF Call, SameEvents, Files
  <1>4. Tells(Ensured(t), t)
    BY <1>2, TablesElim DEF Tells
  <1> QED BY <1>3, <1>4

LEMMA AnnounceCall ==
    ASSUME IInv, NEW t \in Troubles, NEW j \in Jobs, Announce(j, t)
    PROVE  \E s, w : Call(s, w, t) /\ Tells(s, t)
  <1> DEFINE s == Recorded(Ensured(t), j, Started(j))
  <1>1. Ensured(t) \in Stores /\ Ensured(t).loaded /\ Started(j) \in Statuses
    BY EnsuredSound, EnsuredLoaded, StartedIsStatus DEF IInv
  <1>2. s \in Stores /\ s.jobs = Ensured(t).jobs /\ s.loaded
    BY <1>1, RecordedType
  <1>3. Commit(s, {"events"}, t)
    BY DEF Announce
  <1>4. \E u \in Stores, i \in Jobs, status \in Statuses :
          SameEvents(u, t) /\ s = Recorded(u, i, status)
    BY <1>1 DEF SameEvents
  <1>5. \A i \in Jobs : phase'[i] \in Told => phase[i] \in Told
    BY DEF Announce, IInv, TypeOK, Told, Ended
  <1> HIDE DEF s
  <1>6. Call(s, {"events"}, t)
    BY <1>2, <1>3, <1>4 DEF Call, Files
  <1>7. s.jobs \in Tables
    BY <1>2 DEF Stores
  <1>8. Tells(s, t)
    BY <1>2, <1>5, <1>7, TablesElim DEF Tells
  <1> QED BY <1>6, <1>8

LEMMA UpdatesCall ==
    ASSUME IInv, NEW t \in Troubles, NEW j \in Jobs,
           SpawnFails(j, t) \/ Report(j, t) \/ GiveUp(j, t)
    PROVE  \E s, w : Call(s, w, t) /\ Tells(s, t)
  <1>1. PICK status \in {"succeeded", "failed"} : UpdateJob(j, status, t)
    BY DEF SpawnFails, Report, GiveUp, Verdict
  <1>2. status \in Statuses \cap Final
    BY DEF Statuses, Final
  <1>3. PICK s, w : /\ Call(s, w, t)
                    /\ \A i \in DOMAIN s.jobs :
                         \/ i = j /\ s.jobs[i] = status
                         \/ i # j /\ i \in DOMAIN Ensured(t).jobs
                            /\ s.jobs[i] = Ensured(t).jobs[i]
    BY <1>1, <1>2, UpdateIsCall
  <1>4. \A i \in Jobs : i # j => phase'[i] = phase[i]
    BY DEF SpawnFails, Report, GiveUp, IInv, TypeOK
  <1>5. s.jobs \in Tables
    BY <1>3 DEF Call, Stores
  <1>6. Tells(s, t)
    BY <1>2, <1>3, <1>4, <1>5, TablesElim DEF Tells
  <1> QED BY <1>3, <1>6

LEMMA EveryCall ==
    ASSUME IInv, NEW t \in Troubles, Meets(t), Request(t) \/ \E j \in Jobs : Work(j, t)
    PROVE  \E s, w : Call(s, w, t) /\ Tells(s, t)
  <1>1. ASSUME Poll(t)
        PROVE  \E s, w : Call(s, w, t) /\ Tells(s, t)
    BY <1>1, EnsuredCall DEF Poll
  <1>2. ASSUME NEW j \in Jobs, Flush(j, t)
        PROVE  \E s, w : Call(s, w, t) /\ Tells(s, t)
    <2>1. \A i \in Jobs : phase'[i] \in Told => phase[i] \in Told
      BY <1>2 DEF Flush, IInv, TypeOK, Told, Ended
    <2> QED BY <1>2, <2>1, EnsuredCall DEF Flush
  <1> QED BY <1>1, <1>2, CreateCall, AnnounceCall, UpdatesCall DEF Request, Work

LEMMA StepSettles ==
    ASSUME IInv, Even, SettledInv, [Next]_vars
    PROVE  Even' /\ SettledInv'
  <1>1. ASSUME NEW t \in Troubles, Meets(t), Request(t) \/ \E j \in Jobs : Work(j, t)
        PROVE  Even' /\ SettledInv'
    BY <1>1, EveryCall, CallSettles
  <1>2. ASSUME NEW j \in Jobs, Spawn(j) \/ \E c \in {"zero", "nonzero"} : Exit(j, c)
        PROVE  Even' /\ SettledInv'
    <2>1. /\ UNCHANGED <<store, disk, behind, torn>>
          /\ \A i \in Jobs : phase'[i] \in Told => phase[i] \in Told
      BY <1>2 DEF Spawn, Exit, IInv, TypeOK, Told, Ended
    <2>2. DOMAIN CurJobs \subseteq Jobs
      BY TablesElim DEF IInv, Sound, CurJobs
    <2> QED BY <2>1, <2>2 DEF Even, SettledInv, CurJobs
  <1>3. CASE Restart
    <2>1. /\ store' = Blank /\ behind' = {} /\ torn' = torn \cup behind /\ disk' = disk
          /\ ~store'.loaded
      BY <1>3 DEF Restart, Blank
    <2>2. \A i \in Jobs : phase'[i] \in Told => phase[i] \in Told
      BY <1>3 DEF Restart, Told, Ended
    <2>3. CurJobs' = disk.jobs
      BY <2>1 DEF CurJobs
    <2>4. "jobs" \notin behind => disk.jobs = CurJobs
      BY DEF Even, CurJobs
    <2>5. DOMAIN CurJobs \subseteq Jobs
      BY TablesElim DEF IInv, Sound, CurJobs
    <2> QED BY <2>1, <2>2, <2>3, <2>4, <2>5 DEF Even, SettledInv
  <1>4. CASE UNCHANGED vars
    BY <1>4 DEF vars, Even, SettledInv, CurJobs
  <1> QED BY <1>1, <1>2, <1>3, <1>4 DEF Next

(* A worker that ended leaves its job in a final status, unless a restart    *)
(* lost what it could not save.                                              *)
THEOREM EndedJobsAreFinal == Spec => []EndedIsFinal
  <1>1. Init => Even /\ SettledInv
    BY NoJobsType DEF Init, Even, SettledInv, Blank, CurJobs
  <1>2. Even /\ SettledInv => EndedIsFinal
    BY NoJobsType DEF Even, SettledInv, EndedIsFinal, Settled, CurJobs, Told, Blank
  <1> QED BY InitIInv, NextIInv, StepSettles, <1>1, <1>2, PTL DEF Spec

-----------------------------------------------------------------------------
(* The numbers of the events *)

LEMMA ConsecutiveGrows ==
    ASSUME NEW s \in Stores, NEW j \in Jobs, NEW status \in Statuses,
           Consecutive(s.events, s.eventSeq)
    PROVE  LET r == Recorded(s, j, status) IN
           /\ Consecutive(r.events, r.eventSeq) /\ r.eventSeq = s.eventSeq + 1
           /\ \A i \in DOMAIN r.events :
                \/ r.events[i].seq = s.eventSeq + 1
                \/ \E k \in DOMAIN s.events : r.events[i] = s.events[k]
  <1> DEFINE e == [seq |-> s.eventSeq + 1, job |-> j, status |-> status]
             g == Append(s.events, e)
             n == s.eventSeq + 1
  <1>1. s.events \in Seq(Events) /\ s.eventSeq \in Nat /\ e \in Events /\ e.seq = n /\ n \in Nat
    BY DEF Stores, Events
  <1>2. Recorded(s, j, status).events = Capped(g) /\ Recorded(s, j, status).eventSeq = n
    BY DEF Recorded, Stores
  <1> HIDE DEF e
  <1>3. /\ g \in Seq(Events) /\ Len(g) = Len(s.events) + 1
        /\ \A i \in 1 .. Len(s.events) : g[i] = s.events[i]
        /\ g[Len(g)] = e
    BY <1>1
  <1>4. Consecutive(g, n)
    <2>1. Len(s.events) <= s.eventSeq
          /\ \A i \in 1 .. Len(s.events) : s.events[i].seq = s.eventSeq - Len(s.events) + i
      BY <1>1 DEF Consecutive
    <2>2. ASSUME NEW i \in 1 .. Len(g)
          PROVE  g[i].seq = n - Len(g) + i
      <3>1. CASE i = Len(g)
        BY <1>1, <1>3, <3>1
      <3>2. CASE i # Len(g)
        <4>1. i \in 1 .. Len(s.events)
          BY <1>1, <1>3, <3>2
        <4> QED BY <1>1, <1>3, <2>1, <4>1
      <3> QED BY <3>1, <3>2
    <2>3. Len(g) <= n /\ DOMAIN g = 1 .. Len(g)
      BY <1>1, <1>3, <2>1
    <2> QED BY <2>2, <2>3 DEF Consecutive
  <1>5. \A i \in 1 .. Len(g) : g[i].seq = n \/ \E k \in DOMAIN s.events : g[i] = s.events[k]
    <2> TAKE i \in 1 .. Len(g)
    <2>1. CASE i = Len(g)
      BY <1>1, <1>3, <2>1
    <2>2. CASE i # Len(g)
      <3>1. i \in 1 .. Len(s.events) /\ DOMAIN s.events = 1 .. Len(s.events)
        BY <1>1, <1>3, <2>2, SMTT(30)
      <3> QED BY <1>3, <3>1
    <2> QED BY <2>1, <2>2
  <1> HIDE DEF g, n
  <1>6. CASE Len(g) <= EventCap
    <2>1. Capped(g) = g /\ DOMAIN g = 1 .. Len(g)
      BY <1>3, <1>6 DEF Capped
    <2> QED BY <1>2, <1>4, <1>5, <2>1 DEF n
  <1>7. CASE Len(g) > EventCap
    <2> DEFINE m == Len(g) - EventCap
               c == SubSeq(g, m + 1, Len(g))
    <2>1. /\ Capped(g) = c /\ EventCap \in Nat \ {0} /\ m \in Nat /\ Len(c) = EventCap
          /\ DOMAIN c = 1 .. EventCap
          /\ \A i \in 1 .. EventCap : i + m \in 1 .. Len(g) /\ c[i] = g[i + m]
      <3>1. /\ EventCap \in Nat \ {0} /\ m \in Nat /\ Len(g) \in Nat /\ m + 1 \in 1 .. Len(g)
            /\ Len(g) - (m + 1) + 1 = EventCap /\ DOMAIN g = 1 .. Len(g)
        <4>1. Len(g) \in Nat /\ DOMAIN g = 1 .. Len(g)
          BY <1>3, LenProperties
        <4>2. EventCap \in Nat \ {0}
          OBVIOUS
        <4> QED BY <4>1, <4>2, <1>7
      <3>2. \A i \in (m + 1) .. Len(g) : g[i] \in Events
        <4>1. \A i \in 1 .. Len(g) : g[i] \in Events
          BY <1>3, ElementOfSeq
        <4> HIDE DEF m
        <4>2. \A i \in (m + 1) .. Len(g) : i \in 1 .. Len(g)
          BY <3>1
        <4> QED BY <4>1, <4>2
      <3>3. /\ c \in Seq(Events) /\ Len(c) = EventCap
            /\ \A i \in 1 .. EventCap : c[i] = g[(m + 1) + i - 1]
        <4> HIDE DEF m
        <4> QED BY <3>1, <3>2, SubSeqProperties
      <3>4. \A i \in 1 .. EventCap : (m + 1) + i - 1 = i + m /\ i + m \in 1 .. Len(g)
        BY <3>1
      <3>5. Capped(g) = c
        BY <1>7, <3>1 DEF Capped
      <3> HIDE DEF c, m
      <3> QED BY <3>1, <3>3, <3>4, <3>5
    <2>2. \A i \in 1 .. Len(g) : g[i].seq = n - Len(g) + i
      BY <1>3, <1>4 DEF Consecutive
    <2>3. Len(g) <= n /\ n \in Nat /\ Len(g) \in Nat
      BY <1>1, <1>3, <1>4 DEF Consecutive
    <2> HIDE DEF c
    <2>4. Consecutive(c, n)
      <3>1. ASSUME NEW i \in 1 .. EventCap
            PROVE  c[i].seq = n - EventCap + i
        <4>1. c[i] = g[i + m] /\ g[i + m].seq = n - Len(g) + (i + m)
          BY <2>1, <2>2
        <4> QED BY <2>1, <2>3, <4>1
      <3> QED BY <1>7, <2>1, <2>3, <3>1, SMTT(30) DEF Consecutive
    <2>5. \A i \in DOMAIN c : c[i].seq = n \/ \E k \in DOMAIN s.events : c[i] = s.events[k]
      <3> HIDE DEF m
      <3>1. DOMAIN c = 1 .. EventCap /\ \A i \in 1 .. EventCap : i + m \in DOMAIN g /\ c[i] = g[i + m]
        BY <2>1
      <3> SUFFICES ASSUME NEW i \in 1 .. EventCap
                   PROVE  c[i].seq = n \/ \E k \in DOMAIN s.events : c[i] = s.events[k]
        BY <3>1
      <3> DEFINE a == i + m
      <3>2. a \in DOMAIN g /\ c[i] = g[a]
        BY <3>1
      <3> HIDE DEF a
      <3>3. g[a].seq = n \/ \E k \in DOMAIN s.events : g[a] = s.events[k]
        BY <1>5, <3>2
      <3> QED BY <3>2, <3>3
    <2>6. Recorded(s, j, status).events = c /\ Recorded(s, j, status).eventSeq = n
      BY <1>2, <2>1
    <2> QED BY <2>4, <2>5, <2>6 DEF n
  <1> QED BY <1>3, <1>6, <1>7

ConsecutiveInv ==
    Consecutive(store.events, store.eventSeq) /\ Consecutive(disk.events, disk.eventSeq)

Known(events, last, seen) ==
    \A e \in seen :
      e.seq <= last /\ \A i \in DOMAIN events : events[i].seq = e.seq => events[i] = e
KnownInv == "events" \notin torn => Known(CurEvents, CurSeq, client.seen)

LEMMA CallCounts ==
    ASSUME IInv, Even, ConsecutiveInv, KnownInv, NEW t \in Troubles, Meets(t), NEW s, NEW w,
           Call(s, w, t)
    PROVE  /\ ConsecutiveInv'
           /\ "events" \notin torn' => Known(s.events, s.eventSeq, client.seen)
           /\ CurEvents' = s.events /\ CurSeq' = s.eventSeq
  <1>1. Ensured(t) \in Stores /\ Consecutive(Ensured(t).events, Ensured(t).eventSeq)
    BY EnsuredSound DEF Ensured, ConsecutiveInv, Consecutive
  <1>2. store' = s /\ torn' = torn \cup t.read /\ s.loaded
        /\ \/ disk'.events = s.events /\ disk'.eventSeq = s.eventSeq
           \/ disk'.events = disk.events /\ disk'.eventSeq = disk.eventSeq
    BY DEF Call, Commit
  <1>3. ASSUME "events" \notin torn'
        PROVE  Known(Ensured(t).events, Ensured(t).eventSeq, client.seen)
    BY <1>2, <1>3 DEF Ensured, KnownInv, CurEvents, CurSeq
  <1>4. CASE SameEvents(s, t)
    BY <1>1, <1>2, <1>3, <1>4 DEF SameEvents, ConsecutiveInv, CurEvents, CurSeq
  <1>5. CASE \E u \in Stores, j \in Jobs, status \in Statuses :
               SameEvents(u, t) /\ s = Recorded(u, j, status)
    <2>1. PICK u \in Stores, j \in Jobs, status \in Statuses :
            SameEvents(u, t) /\ s = Recorded(u, j, status)
      BY <1>5
    <2>2. Consecutive(u.events, u.eventSeq) /\ u.eventSeq \in Nat
      BY <1>1, <2>1 DEF SameEvents, Stores
    <2>3. /\ Consecutive(s.events, s.eventSeq) /\ s.eventSeq = u.eventSeq + 1
          /\ \A i \in DOMAIN s.events :
               \/ s.events[i].seq = u.eventSeq + 1
               \/ \E k \in DOMAIN u.events : s.events[i] = u.events[k]
      BY <2>1, <2>2, ConsecutiveGrows
    <2>4. ASSUME "events" \notin torn'
          PROVE  Known(s.events, s.eventSeq, client.seen)
      <3>1. Known(u.events, u.eventSeq, client.seen)
        BY <1>3, <2>1, <2>4 DEF SameEvents
      <3>2. \A e \in client.seen : e.seq \in Nat
        BY DEF IInv, TypeOK, Events
      <3> QED BY <2>2, <2>3, <3>1, <3>2 DEF Known
    <2> QED BY <1>2, <2>3, <2>4 DEF ConsecutiveInv, CurEvents, CurSeq
  <1> QED BY <1>4, <1>5 DEF Call

LEMMA PollCounts ==
    ASSUME IInv, Even, ConsecutiveInv, KnownInv, NEW t \in Troubles, Meets(t), Poll(t)
    PROVE  ConsecutiveInv' /\ KnownInv'
  <1> DEFINE s == Ensured(t)
  <1>1. Call(s, {}, t)
    BY EnsuredSound, EnsuredLoaded DEF Call, SameEvents, Poll, IInv
  <1>2. /\ ConsecutiveInv' /\ CurEvents' = s.events /\ CurSeq' = s.eventSeq
        /\ "events" \notin torn' => Known(s.events, s.eventSeq, client.seen)
    BY <1>1, CallCounts
  <1>3. s \in Stores /\ Consecutive(s.events, s.eventSeq)
    BY EnsuredSound DEF Ensured, ConsecutiveInv, Consecutive
  <1>4. \A e \in client'.seen : e \in client.seen \/ \E k \in DOMAIN s.events : e = s.events[k]
    <2>1. CASE client' = client
      BY <2>1
    <2>2. CASE client' # client
      <3>1. client'.seen = client.seen \cup {s.events[i] : i \in Page(s.events)}
        BY <2>2 DEF Poll
      <3>2. Page(s.events) \subseteq DOMAIN s.events
        BY DEF Page, Fresh
      <3> QED BY <3>1, <3>2
    <2> QED BY <2>1, <2>2
  <1> HIDE DEF s
  <1>5. Known(s.events, s.eventSeq, {s.events[k] : k \in DOMAIN s.events})
    <2>1. /\ s.eventSeq \in Nat /\ Len(s.events) \in Nat /\ DOMAIN s.events = 1 .. Len(s.events)
          /\ \A i \in 1 .. Len(s.events) : s.events[i].seq = s.eventSeq - Len(s.events) + i
      BY <1>3 DEF Consecutive, Stores
    <2>2. \A i, k \in 1 .. Len(s.events) :
            /\ s.events[k].seq <= s.eventSeq
            /\ s.events[i].seq = s.events[k].seq => i = k
      BY <2>1
    <2> QED BY <2>1, <2>2 DEF Known
  <1> QED BY <1>2, <1>4, <1>5 DEF KnownInv, Known

LEMMA StepCounts ==
    ASSUME IInv, Even, ConsecutiveInv, KnownInv, [Next]_vars
    PROVE  ConsecutiveInv' /\ KnownInv'
  <1>1. ASSUME NEW t \in Troubles, Meets(t), Request(t) \/ \E j \in Jobs : Work(j, t), ~Poll(t)
        PROVE  ConsecutiveInv' /\ KnownInv'
    <2>1. client' = client
      BY <1>1 DEF Request, Work, Create, Announce, SpawnFails, Flush, Report, GiveUp
    <2>2. PICK s, w : Call(s, w, t)
      BY <1>1, EveryCall
    <2> QED BY <1>1, <2>1, <2>2, CallCounts DEF KnownInv
  <1>2. ASSUME NEW j \in Jobs, Spawn(j) \/ \E c \in {"zero", "nonzero"} : Exit(j, c)
        PROVE  ConsecutiveInv' /\ KnownInv'
    BY <1>2 DEF Spawn, Exit, ConsecutiveInv, KnownInv, CurEvents, CurSeq
  <1>3. CASE Restart
    <2>1. /\ store' = Blank /\ torn' = torn \cup behind /\ UNCHANGED <<disk, client>>
          /\ ~store'.loaded /\ store'.events = <<>> /\ store'.eventSeq = 0
      BY <1>3 DEF Restart, Blank
    <2>2. "events" \notin behind => disk.events = CurEvents /\ disk.eventSeq = CurSeq
      BY DEF Even, CurEvents, CurSeq
    <2>3. Consecutive(<<>>, 0)
      BY DEF Consecutive
    <2> QED BY <2>1, <2>2, <2>3 DEF ConsecutiveInv, KnownInv, CurEvents, CurSeq
  <1>4. CASE UNCHANGED vars
    BY <1>4 DEF vars, ConsecutiveInv, KnownInv, CurEvents, CurSeq
  <1> QED BY <1>1, <1>2, <1>3, <1>4, PollCounts DEF Next

(* Numbers of events are consecutive, and no number the client was given is  *)
(* used again, unless a restart lost an event or the feed could not be read. *)
THEOREM SeqsAreNotReused == Spec => []SeqsNotReused
  <1>1. Init => Even /\ SettledInv /\ ConsecutiveInv /\ KnownInv
    BY NoJobsType DEF Init, Even, SettledInv, Blank, CurJobs, ConsecutiveInv, Consecutive,
                      KnownInv, Known
  <1>2. TypeOK /\ Even /\ ConsecutiveInv /\ KnownInv => SeqsNotReused
    BY DEF Even, ConsecutiveInv, KnownInv, Known, SeqsNotReused, CurEvents, Blank
  <1>3. IInv => TypeOK
    BY DEF IInv
  <1> QED BY InitIInv, NextIInv, StepSettles, StepCounts, <1>1, <1>2, <1>3, PTL DEF Spec
-----------------------------------------------------------------------------
(* The history.  Each call leaves the jobs it found, changes one of them, or *)
(* adds the newest; the cap then drops the oldest ones only.                 *)
Lately(n) == {j \in 1 .. n : n - j < JobCap}

LEMMA NewerOf ==
    ASSUME NEW n \in Nat, NEW i \in 1 .. n, n - i <= JobCap
    PROVE  {k \in Lately(n) : k > i} = (i + 1) .. n
  BY DEF Lately

LEMMA CountNewer ==
    ASSUME NEW a \in Nat, NEW n \in Nat, a <= n
    PROVE  Cardinality((a + 1) .. n) = n - a
  <1>1. Cardinality((a + 1) .. n) = IF a + 1 > n THEN 0 ELSE n - (a + 1) + 1
    BY FS_Interval
  <1> QED BY <1>1

LEMMA NewestKeeps ==
    ASSUME NEW f, NEW n \in Nat, DOMAIN f = Lately(n)
    PROVE  DOMAIN Newest(f) = Lately(n)
  <1>1. ASSUME NEW i \in Lately(n)
        PROVE  Cardinality({k \in DOMAIN f : k > i}) < JobCap
    <2>1. i \in 1 .. n /\ n - i < JobCap /\ JobCap \in Nat
      BY <1>1 DEF Lately
    <2>2. {k \in DOMAIN f : k > i} = (i + 1) .. n
      BY <2>1, NewerOf
    <2>3. i \in Nat /\ i <= n
      BY <2>1
    <2>4. Cardinality((i + 1) .. n) = n - i
      BY <2>3, CountNewer
    <2> QED BY <2>1, <2>2, <2>4
  <1> QED BY <1>1 DEF Newest

LEMMA NewestAdds ==
    ASSUME NEW f, NEW n \in Nat, DOMAIN f = Lately(n) \cup {n + 1}
    PROVE  DOMAIN Newest(f) = Lately(n + 1)
  <1>1. ASSUME NEW i \in 1 .. n + 1, n - i < JobCap
        PROVE  Cardinality({k \in DOMAIN f : k > i}) = n + 1 - i
    <2> DEFINE newer == {k \in DOMAIN f : k > i}
    <2>1. newer = (i + 1) .. (n + 1)
      BY <1>1 DEF Lately
    <2>2. i \in Nat /\ i <= n + 1 /\ n + 1 \in Nat
      OBVIOUS
    <2>3. Cardinality((i + 1) .. (n + 1)) = (n + 1) - i
      BY <2>2, CountNewer
    <2> HIDE DEF newer
    <2>4. Cardinality(newer) = n + 1 - i
      BY <2>1, <2>3
    <2> QED BY <2>4 DEF newer
  <1>2. \A i \in DOMAIN f : i \in 1 .. n + 1 /\ n - i < JobCap
    BY DEF Lately
  <1>3. \A i \in Lately(n + 1) : i \in DOMAIN f
    BY DEF Lately
  <1>4. \A i \in DOMAIN f :
          Cardinality({k \in DOMAIN f : k > i}) < JobCap <=> i \in Lately(n + 1)
    <2> TAKE i \in DOMAIN f
    <2>1. Cardinality({k \in DOMAIN f : k > i}) = n + 1 - i
      BY <1>1, <1>2
    <2> QED BY <1>2, <2>1 DEF Lately
  <1> QED BY <1>3, <1>4 DEF Newest

HistoryInv == "jobs" \notin torn => DOMAIN CurJobs = Lately(created)

NewestOf(jobs, D) == \E f : DOMAIN f = D /\ jobs = Newest(f)

LEMMA WithJobDomain ==
    ASSUME NEW s \in Stores, NEW j, NEW status
    PROVE  NewestOf(WithJob(s, j, status).jobs, DOMAIN s.jobs \cup {j})
  <1> DEFINE f == [i \in DOMAIN s.jobs \cup {j} |-> IF i = j THEN status ELSE s.jobs[i]]
  <1>1. WithJob(s, j, status).jobs = Newest(f)
    BY DEF WithJob, Stores
  <1>2. DOMAIN f = DOMAIN s.jobs \cup {j}
    OBVIOUS
  <1> HIDE DEF f
  <1> QED BY <1>1, <1>2 DEF NewestOf

(* What a call that creates no job leaves of those it found.                 *)
LEMMA UpdateHistory ==
    ASSUME IInv, NEW t \in Troubles, NEW j \in Jobs, NEW status \in Statuses,
           UpdateJob(j, status, t), NEW n \in Nat, DOMAIN Ensured(t).jobs = Lately(n)
    PROVE  DOMAIN store'.jobs = Lately(n)
  <1> DEFINE e == Ensured(t)
             u == WithJob(e, j, status)
  <1>1. e \in Stores
    BY EnsuredSound
  <1>2. u \in Stores
    BY <1>1, WithJobType
  <1>3. Recorded(u, j, status).jobs = u.jobs
    BY <1>2, RecordedType
  <1>4. CASE ~Has(j, t)
    BY <1>4 DEF UpdateJob, Commit
  <1>5. CASE Has(j, t)
    <2>1. DOMAIN u.jobs = Lately(n)
      <3>1. NewestOf(u.jobs, DOMAIN e.jobs \cup {j})
        BY <1>1, WithJobDomain
      <3>2. PICK f : DOMAIN f = Lately(n) /\ u.jobs = Newest(f)
        BY <1>5, <3>1 DEF Has, NewestOf
      <3> QED BY <3>2, NewestKeeps
    <2>2. store' = u \/ store' = Recorded(u, j, status)
      BY <1>5 DEF UpdateJob, Commit
    <2> QED BY <1>3, <2>1, <2>2
  <1> QED BY <1>4, <1>5

LEMMA CreateHistory ==
    ASSUME IInv, NEW t \in Troubles, NEW status \in Asked, Create(status, t),
           DOMAIN Ensured(t).jobs = Lately(created)
    PROVE  DOMAIN store'.jobs = Lately(created')
  <1>1. created \in Nat /\ created' = created + 1 /\ Ensured(t) \in Stores
    BY EnsuredSound DEF Create, IInv, TypeOK
  <1>2. store' = WithJob(Ensured(t), created + 1, status)
    BY DEF Create, Commit
  <1>3. NewestOf(store'.jobs, DOMAIN Ensured(t).jobs \cup {created + 1})
    BY <1>1, <1>2, WithJobDomain
  <1>4. PICK f : DOMAIN f = Lately(created) \cup {created + 1} /\ store'.jobs = Newest(f)
    BY <1>3 DEF NewestOf
  <1> QED BY <1>1, <1>4, NewestAdds

LEMMA AnnounceHistory ==
    ASSUME IInv, NEW t \in Troubles, NEW j \in Jobs, Announce(j, t)
    PROVE  store'.jobs = Ensured(t).jobs
  BY EnsuredSound, RecordedType, StartedIsStatus DEF Announce, Commit

LEMMA CallHistory ==
    ASSUME IInv, HistoryInv, NEW t \in Troubles, Meets(t),
           Request(t) \/ \E j \in Jobs : Work(j, t)
    PROVE  HistoryInv'
  <1>1. store'.loaded /\ torn' = torn \cup t.read
    <2>1. PICK s, w : Call(s, w, t)
      BY EveryCall
    <2> QED BY <2>1 DEF Call, Commit
  <1> SUFFICES ASSUME "jobs" \notin torn'
               PROVE  DOMAIN store'.jobs = Lately(created')
    BY <1>1 DEF HistoryInv, CurJobs
  <1>2. DOMAIN Ensured(t).jobs = Lately(created) /\ created \in Nat
    BY <1>1 DEF Ensured, HistoryInv, CurJobs, IInv, TypeOK
  <1>3. ASSUME NEW status \in Asked, Create(status, t)
        PROVE  DOMAIN store'.jobs = Lately(created')
    BY <1>2, <1>3, CreateHistory
  <1>4. ASSUME NEW j \in Jobs, Announce(j, t)
        PROVE  DOMAIN store'.jobs = Lately(created')
    BY <1>2, <1>4, AnnounceHistory DEF Announce
  <1>5. ASSUME NEW j \in Jobs, Flush(j, t)
        PROVE  DOMAIN store'.jobs = Lately(created')
    BY <1>2, <1>5 DEF Flush, Commit
  <1>6. ASSUME NEW j \in Jobs, SpawnFails(j, t) \/ Report(j, t) \/ GiveUp(j, t)
        PROVE  DOMAIN store'.jobs = Lately(created')
    <2>1. PICK status \in {"succeeded", "failed"} : UpdateJob(j, status, t)
      BY <1>6 DEF SpawnFails, Report, GiveUp, Verdict
    <2>2. status \in Statuses /\ created' = created
      BY <1>6 DEF Statuses, Final, SpawnFails, Report, GiveUp
    <2> QED BY <1>2, <2>1, <2>2, UpdateHistory
  <1>7. CASE Poll(t)
    BY <1>2, <1>7 DEF Poll, Commit
  <1> QED BY <1>3, <1>4, <1>5, <1>6, <1>7 DEF Request, Work

LEMMA StepKeepsHistory ==
    ASSUME IInv, Even, HistoryInv, [Next]_vars
    PROVE  HistoryInv'
  <1>1. ASSUME NEW j \in Jobs, Spawn(j) \/ \E c \in {"zero", "nonzero"} : Exit(j, c)
        PROVE  HistoryInv'
    BY <1>1 DEF Spawn, Exit, HistoryInv, CurJobs
  <1>2. CASE Restart
    <2>1. /\ torn' = torn \cup behind /\ UNCHANGED <<disk, created>> /\ ~store'.loaded
      BY <1>2 DEF Restart, Blank
    <2>2. "jobs" \notin behind => disk.jobs = CurJobs
      BY DEF Even, CurJobs
    <2> QED BY <2>1, <2>2 DEF HistoryInv, CurJobs
  <1>3. CASE UNCHANGED vars
    BY <1>3 DEF vars, HistoryInv, CurJobs
  <1> QED BY <1>1, <1>2, <1>3, CallHistory DEF Next

(* The store keeps exactly the newest jobs ever created, whatever requests,  *)
(* workers, errors and restarts came between, as long as nothing of the jobs *)
(* was lost; and so does the file, unless its last write failed.             *)
THEOREM HistoryIsTheNewest == Spec => []HistoryIsNewest
  <1>1. Init => Even /\ SettledInv /\ HistoryInv
    BY NoJobsType DEF Init, Even, SettledInv, Blank, CurJobs, HistoryInv, Lately
  <1>2. Even /\ HistoryInv => HistoryIsNewest
    BY DEF Even, HistoryInv, HistoryIsNewest, NewestCreated, Lately, CurJobs
  <1> QED BY InitIInv, NextIInv, StepSettles, StepKeepsHistory, <1>1, <1>2, PTL DEF Spec
=============================================================================
