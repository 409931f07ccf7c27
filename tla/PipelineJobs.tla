--------------------------- MODULE PipelineJobs ---------------------------
(***************************************************************************)
(* The jobs of the pipeline worker: the in-memory store (jobs.py), the     *)
(* priority scheduler (scheduler.py), the routes that submit and cancel,   *)
(* the watchdog (main.py) and the run of one job (pipeline.py) as far as   *)
(* it reads and writes the record.                                         *)
(*                                                                         *)
(* Everything runs on one event loop.  The store's lock is never held over *)
(* a suspension, so a route, a scan of the dispatcher or a sweep of the    *)
(* watchdog is one step; a run is suspended while it copies a local file,  *)
(* while a stage works, and once more after it has completed the record.   *)
(* The process may be killed or stopped at any time and keeps nothing.     *)
(***************************************************************************)
EXTENDS Integers, FiniteSets

CONSTANTS
  Ids,            \* job ids
  Users,          \* user ids
  NoUser,         \* a request without user_id
  Anon,           \* the key "anon" under which such jobs are counted
  Keys,           \* idempotency keys
  Requests,       \* the requests a client may submit, any number of times
  Concurrency,    \* PIPELINE_CONCURRENCY
  MaxPerUser,     \* MAX_CONCURRENT_PER_USER
  MaxDepth,       \* QUEUE_MAX_DEPTH
  DepthWindow,    \* how many of the newest jobs the submit route counts (200)
  ScanWindow,     \* how many the dispatcher and the watchdog look at (500)
  Transcribing,   \* the stage after which an empty transcript ends the run
  LastStage,      \* the stage that completes the record (muxing)
  MaxSubmits,     \* bound on the records ever created
  MaxRestarts,    \* bound on crashes and restarts
  NoRecord, NoTask

Request == [id: Ids, user: Users \cup {NoUser}, key: Keys, priority: Nat,
            limit: Nat, local: BOOLEAN]

ASSUME IdsAssumption == IsFiniteSet(Ids)
ASSUME UsersAssumption == NoUser \notin Users /\ Anon \notin Users
ASSUME RequestsAssumption == Requests \subseteq Request
ASSUME BoundsAssumption ==
  /\ Concurrency \in Nat /\ MaxPerUser \in Nat /\ MaxDepth \in Nat
  /\ DepthWindow \in Nat /\ ScanWindow \in Nat
  /\ MaxSubmits \in Nat /\ MaxRestarts \in Nat
ASSUME StagesAssumption ==
  /\ Transcribing \in Nat /\ LastStage \in Nat
  /\ 1 < Transcribing /\ Transcribing < LastStage

VARIABLES
  rec,       \* rec[i]: the record of job i in _jobs
  task,      \* task[i]: the run of job i in Scheduler._tasks
  perUser,   \* Scheduler._running_per_user
  phase,     \* "up", or "stopping" while lifespan ends
  births,    \* how many records have been created: the order of created_at
  restarts,  \* how often the process has started again
  entered    \* history: entered[b] counts the runs of the record born as b

vars == <<rec, task, perUser, phase, births, restarts, entered>>

----------------------------------------------------------------------------
(* Data *)

Pending == {"queued", "processing"}
Terminal == {"completed", "failed", "canceled"}
Errors == {"none", "FAILED", "CANCELED", "QUEUE_TIMEOUT", "JOB_TIMEOUT",
           "SCHEDULER_DOWN"}

\* Stage 0 is "queued", LastStage + 1 is "done".
Record == [req: Requests, status: Pending \cup Terminal, error: Errors,
           stage: 0..LastStage + 1, born: 1..MaxSubmits]
UserKeys == Users \cup {Anon}
Task == [at: {"new", "copy", "stage", "meter"}, stage: 0..LastStage,
         user: UserKeys]

ASSUME NullAssumption == NoRecord \notin Record /\ NoTask \notin Task

Present == {i \in Ids : rec[i] # NoRecord}
Running == {i \in Ids : task[i] # NoTask}
WithStatus(set) == {i \in Present : rec[i].status \in set}

\* str(job.user_id or "anon")
UserKey(req) == IF req.user = NoUser THEN Anon ELSE req.user

\* list_jobs(limit): the newest records.  (What has outlived its TTL is gone by
\* then; Expire takes it away.)
Newest(limit) ==
  {i \in Present :
     Cardinality({k \in Present : rec[k].born > rec[i].born}) < limit}

Init ==
  /\ rec = [i \in Ids |-> NoRecord]
  /\ task = [i \in Ids |-> NoTask]
  /\ perUser = [u \in UserKeys |-> 0]
  /\ phase = "up"
  /\ births = 0
  /\ restarts = 0
  /\ entered = [b \in 1..MaxSubmits |-> 0]

----------------------------------------------------------------------------
(* Routes *)

\* find_by_idempotency_key, always called with None for the user.
FoundByKey(key) ==
  {i \in Present : /\ rec[i].req.key = key
                   /\ rec[i].req.user = NoUser
                   /\ rec[i].status \in {"queued", "processing", "completed"}}

\* create_translate_job when it creates a record.  A full queue (503) and a job
\* found by its key change nothing.
Submit(req) ==
  /\ phase = "up"
  /\ births < MaxSubmits
  /\ Cardinality(Newest(DepthWindow) \cap WithStatus(Pending)) < MaxDepth
  /\ FoundByKey(req.key) = {}
  /\ births' = births + 1
  /\ rec' = [rec EXCEPT ![req.id] =
               [req |-> req, status |-> "queued", error |-> "none",
                stage |-> 0, born |-> births + 1]]
  /\ UNCHANGED <<task, perUser, phase, restarts, entered>>

\* cancel_job: the record only; the run is not told.
Cancel(i) ==
  /\ phase = "up"
  /\ i \in WithStatus(Pending)
  /\ rec' = [rec EXCEPT ![i].status = "canceled", ![i].error = "CANCELED"]
  /\ UNCHANGED <<task, perUser, phase, births, restarts, entered>>

\* The TTL, applied by the next get_job or list_jobs to whatever had no update for
\* so long, a pending record outside the watchdog's window included.
Expire(i) ==
  /\ i \in Present
  /\ rec' = [rec EXCEPT ![i] = NoRecord]
  /\ UNCHANGED <<task, perUser, phase, births, restarts, entered>>

----------------------------------------------------------------------------
(* The scheduler *)

\* (An operator that is not part of Next and stands before the one it resembles,
\* here and below, is a mutant of it: a plausible bug that the properties have to
\* notice.)
UserLimitPlanOnly(i) ==
  LET limit == rec[i].req.limit
  IN IF limit > 0 THEN limit ELSE MaxPerUser

\* min(self._max_per_user, job.max_concurrent_jobs), where 0 or None is no limit.
UserLimit(i) ==
  LET limit == rec[i].req.limit
  IN IF limit > 0 /\ limit < MaxPerUser THEN limit ELSE MaxPerUser

\* (priority DESC, created_at ASC)
Before(k, i) ==
  \/ rec[k].req.priority > rec[i].req.priority
  \/ rec[k].req.priority = rec[i].req.priority /\ rec[k].born < rec[i].born

Queued == Newest(ScanWindow) \cap WithStatus({"queued"})
SameUser(i) == {k \in Present : UserKey(rec[k].req) = UserKey(rec[i].req)}
Ahead(started, i) == {k \in started : Before(k, i)}

\* Whether the loop of _dispatch_once starts job i, when `started` is the set of
\* all the jobs it starts: those ahead of i have been counted when i is reached.
StartsCountedOnce(started, i) ==
  /\ i \notin Running
  /\ Cardinality(Running) < Concurrency
  /\ perUser[UserKey(rec[i].req)]
       + Cardinality(Ahead(started, i) \cap SameUser(i)) < UserLimit(i)

Starts(started, i) ==
  /\ i \notin Running
  /\ Cardinality(Running) + Cardinality(Ahead(started, i)) < Concurrency
  /\ perUser[UserKey(rec[i].req)]
       + Cardinality(Ahead(started, i) \cap SameUser(i)) < UserLimit(i)

Dispatch ==
  /\ phase = "up"
  /\ \E started \in (SUBSET Queued) \ {{}} :
       /\ started = {i \in Queued : Starts(started, i)}
       /\ task' = [i \in Ids |->
                     IF i \in started
                       THEN [at |-> "new", stage |-> 0, user |-> UserKey(rec[i].req)]
                       ELSE task[i]]
       /\ perUser' = [u \in UserKeys |->
                        perUser[u] + Cardinality({i \in started :
                                                    UserKey(rec[i].req) = u})]
  /\ UNCHANGED <<rec, phase, births, restarts, entered>>

\* The finally block of Scheduler._run.
LeaveByRecord(i) ==
  LET user == IF i \in Present THEN UserKey(rec[i].req) ELSE task[i].user
  IN /\ task' = [task EXCEPT ![i] = NoTask]
     /\ perUser' = [perUser EXCEPT ![user] = IF @ > 1 THEN @ - 1 ELSE 0]

LeaveIfPresent(i) ==
  /\ task' = IF i \in Present THEN [task EXCEPT ![i] = NoTask] ELSE task
  /\ perUser' = [perUser EXCEPT ![task[i].user] = IF @ > 1 THEN @ - 1 ELSE 0]

Leave(i) ==
  /\ task' = [task EXCEPT ![i] = NoTask]
  /\ perUser' = [perUser EXCEPT ![task[i].user] = IF @ > 1 THEN @ - 1 ELSE 0]

----------------------------------------------------------------------------
(* The run of a job: _process_job and run_pipeline *)

\* The entry of run_pipeline: only a canceled record stops it.
EnterUnchecked(i) ==
  /\ IF i \in Present
       THEN /\ rec' = [rec EXCEPT ![i].status = "processing", ![i].stage = 1]
            /\ task' = [task EXCEPT ![i].at = "stage", ![i].stage = 1]
            /\ entered' = [entered EXCEPT ![rec[i].born] = @ + 1]
            /\ UNCHANGED perUser
       ELSE Leave(i) /\ UNCHANGED <<rec, entered>>
  /\ UNCHANGED <<phase, births, restarts>>

Enter(i) ==
  /\ IF i \in Present /\ rec[i].status # "canceled"
       THEN /\ rec' = [rec EXCEPT ![i].status = "processing", ![i].stage = 1]
            /\ task' = [task EXCEPT ![i].at = "stage", ![i].stage = 1]
            /\ entered' = [entered EXCEPT ![rec[i].born] = @ + 1]
            /\ UNCHANGED perUser
       ELSE Leave(i) /\ UNCHANGED <<rec, entered>>
  /\ UNCHANGED <<phase, births, restarts>>

\* _process_job: a local file that is not in the work directory yet is copied
\* on a thread before the pipeline is entered.
Begin(i) ==
  /\ i \in Running
  /\ task[i].at = "new"
  /\ \/ Enter(i)
     \/ /\ i \in Present
        /\ rec[i].req.local
        /\ task' = [task EXCEPT ![i].at = "copy"]
        /\ UNCHANGED <<rec, perUser, phase, births, restarts, entered>>

CopyEnds(i) ==
  /\ i \in Running
  /\ task[i].at = "copy"
  /\ Enter(i)

\* `except Exception`, in run_pipeline and again in _process_job.
FailRetrying(i) ==
  /\ rec' = IF i \in Present THEN [rec EXCEPT ![i].status = "queued"] ELSE rec
  /\ Leave(i)
  /\ UNCHANGED <<phase, births, restarts, entered>>

Fail(i) ==
  /\ rec' = IF i \in Present
              THEN [rec EXCEPT ![i].status = "failed", ![i].error = "FAILED"]
              ELSE rec
  /\ Leave(i)
  /\ UNCHANGED <<phase, births, restarts, entered>>

RunFails(i) ==
  /\ i \in Running
  /\ task[i].at \in {"copy", "stage"}
  /\ Fail(i)

\* A stage is done and the next one begins: only the stage is written.  When the
\* record is gone get_job returns None and the next attribute access raises.
Advance(i) ==
  /\ i \in Running
  /\ task[i].at = "stage"
  /\ task[i].stage < LastStage
  /\ IF i \in Present
       THEN /\ rec' = [rec EXCEPT ![i].stage = task[i].stage + 1]
            /\ task' = [task EXCEPT ![i].stage = @ + 1]
            /\ UNCHANGED <<perUser, phase, births, restarts, entered>>
       ELSE Fail(i)

Completed(i) ==
  IF i \in Present
    THEN [rec EXCEPT ![i].status = "completed", ![i].stage = LastStage + 1]
    ELSE rec

\* No segment was transcribed: there is nothing to dub.
NoSegments(i) ==
  /\ i \in Running
  /\ i \in Present
  /\ task[i].at = "stage"
  /\ task[i].stage = Transcribing
  /\ rec' = Completed(i)
  /\ Leave(i)
  /\ UNCHANGED <<phase, births, restarts, entered>>

\* The last update, after which the source is probed once more for metering.
Complete(i) ==
  /\ i \in Running
  /\ task[i].at = "stage"
  /\ task[i].stage = LastStage
  /\ rec' = Completed(i)
  /\ task' = [task EXCEPT ![i].at = "meter"]
  /\ UNCHANGED <<perUser, phase, births, restarts, entered>>

Metered(i) ==
  /\ i \in Running
  /\ task[i].at = "meter"
  /\ Leave(i)
  /\ UNCHANGED <<rec, phase, births, restarts, entered>>

Run(i) == \/ Begin(i) \/ CopyEnds(i) \/ RunFails(i) \/ Advance(i)
          \/ NoSegments(i) \/ Complete(i) \/ Metered(i)

----------------------------------------------------------------------------
(* The watchdog, and the end of the process *)

\* One sweep of _reap_stalled_jobs.  Any queued record may be older than
\* QUEUE_TIMEOUT_SECONDS and any processing one may have had no update for
\* JOB_TIMEOUT_SECONDS: a stage may well work longer.  Without a live
\* scheduler every queued record is failed.
OverdueUnknown(i) == "TIMEOUT"
Overdue(i) ==
  IF rec[i].status = "processing" THEN "JOB_TIMEOUT"
  ELSE IF phase = "up" THEN "QUEUE_TIMEOUT" ELSE "SCHEDULER_DOWN"

ReapableProcessing == Newest(ScanWindow) \cap WithStatus({"processing"})
Reapable == Newest(ScanWindow) \cap WithStatus(Pending)

Sweep(overdue) ==
  /\ overdue # {}
  /\ overdue \subseteq Reapable
  /\ phase = "stopping" => Queued \subseteq overdue
  /\ rec' = [i \in Ids |->
               IF i \in overdue
                 THEN [rec[i] EXCEPT !.status = "failed", !.error = Overdue(i)]
                 ELSE rec[i]]
  /\ UNCHANGED <<task, perUser, phase, births, restarts, entered>>

\* lifespan ends: Scheduler.stop ends the dispatcher first.
Stop ==
  /\ phase = "up"
  /\ restarts < MaxRestarts
  /\ phase' = "stopping"
  /\ UNCHANGED <<rec, task, perUser, births, restarts, entered>>

\* stop cancels the runs: run_pipeline marks its record canceled on the way out.
Interrupt(i) ==
  /\ phase = "stopping"
  /\ i \in Running
  /\ task[i].at # "new"
  /\ rec' = IF task[i].at \in {"stage", "meter"} /\ i \in Present
              THEN [rec EXCEPT ![i].status = "canceled", ![i].error = "CANCELED"]
              ELSE rec
  /\ Leave(i)
  /\ UNCHANGED <<phase, births, restarts, entered>>

Reborn ==
  /\ rec' = [i \in Ids |-> NoRecord]
  /\ task' = [i \in Ids |-> NoTask]
  /\ perUser' = [u \in UserKeys |-> 0]
  /\ phase' = "up"
  /\ restarts' = restarts + 1
  /\ UNCHANGED <<births, entered>>

Restart ==
  /\ phase = "stopping"
  /\ \A i \in Running : task[i].at = "new"
  /\ Reborn

Crash ==
  /\ restarts < MaxRestarts
  /\ Reborn

Next ==
  \/ \E req \in Requests : Submit(req)
  \/ \E i \in Ids : Cancel(i) \/ Expire(i) \/ Run(i) \/ Interrupt(i)
  \/ Dispatch
  \/ \E overdue \in SUBSET Ids : Sweep(overdue)
  \/ Stop \/ Restart \/ Crash

Spec == Init /\ [][Next]_vars

ExpireOver(i) == i \in WithStatus(Terminal) /\ Expire(i)

\* The dispatcher polls, the watchdog sweeps and sees any stall in the end, and the
\* records that are over outlive their TTL.  Nothing is assumed of the runs.
Watched ==
  /\ WF_vars(Dispatch)
  /\ \A i \in Ids : WF_vars(\E overdue \in SUBSET Ids : i \in overdue /\ Sweep(overdue))
  /\ \A i \in Ids : WF_vars(ExpireOver(i))

----------------------------------------------------------------------------
(* Properties *)

\* Every variable keeps the shape the code gives it.
TypeOK ==
  /\ rec \in [Ids -> Record \cup {NoRecord}]
  /\ task \in [Ids -> Task \cup {NoTask}]
  /\ perUser \in [UserKeys -> Nat]
  /\ phase \in {"up", "stopping"}
  /\ births \in 0..MaxSubmits
  /\ restarts \in Nat
  /\ entered \in [1..MaxSubmits -> Nat]

\* No more than PIPELINE_CONCURRENCY runs exist at any time, however jobs are
\* submitted, replaced, canceled, reaped or resumed (scheduler.py).
ConcurrencyRespected == Cardinality(Running) <= Concurrency

RunsOf(u) == {i \in Running : task[i].user = u}

\* The counter behind the per-user limit is exactly the number of that user's
\* runs, even when a record is replaced by another user's while its run goes on.
UserCountExact == \A u \in UserKeys : perUser[u] = Cardinality(RunsOf(u))

\* One user never runs more jobs than the env ceiling.
UserCeiling == \A u \in UserKeys : Cardinality(RunsOf(u)) <= MaxPerUser

\* A record is run at most once: a queued record whose run is still copying its
\* source is not dispatched again, and nothing puts a record back to `queued`.
RunOnce == \A b \in 1..MaxSubmits : entered[b] <= 1

\* A job canceled before its run has entered the pipeline is never processed;
\* only a new submission or the TTL takes the record away.
CancelBeforeRunSticks ==
  [][\A i \in Ids :
       /\ i \in WithStatus({"canceled"})
       /\ i \notin Running \/ task[i].at \in {"new", "copy"}
       => \/ rec'[i] = NoRecord
          \/ rec'[i].born > rec[i].born
          \/ rec'[i].status \notin {"processing", "completed"}]_rec

\* Every pending job reaches a terminal status or is dropped, even if every run hangs
\* and newer records keep the watchdog from seeing it: they end and expire.
NoSilentStall ==
  \A i \in Ids : i \in WithStatus(Pending) ~> i \notin WithStatus(Pending)

\* If every stage of every run ends, every slot is given back, whatever happened
\* to the record meanwhile.
SlotsReturn ==
  (\A i \in Ids : WF_vars(Run(i))) => \A i \in Ids : i \in Running ~> i \notin Running

----------------------------------------------------------------------------
(* What a comment says and the code does not do *)

\* A submission with the key of a job that is still active returns that job.
ActiveJobIsReused ==
  [][\A i \in Ids :
       /\ i \in WithStatus(Pending)
       /\ rec'[i] # NoRecord
       /\ rec'[i].req.key = rec[i].req.key
       => rec'[i].born = rec[i].born]_rec
=============================================================================
