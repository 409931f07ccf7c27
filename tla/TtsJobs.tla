------------------------------ MODULE TtsJobs ------------------------------
(***************************************************************************)
(* The asynchronous job path of the TTS worker: the POST /v1/tts/jobs      *)
(* route, RedisJobStore and the consumer that every uvicorn process runs.  *)
(*                                                                         *)
(* Every Redis command is one step, because it is one atomic command of    *)
(* the server, and the coroutine that awaits it is suspended meanwhile:    *)
(* two requests, two consumers and the progress writes that a synthesis    *)
(* thread schedules interleave between any two commands.  The transaction  *)
(* of `create` is one step.  Each process may be killed or shut down and   *)
(* comes back; Redis keeps no data over a restart of its own (it runs with *)
(* no save and no appendonly); a job's hash may reach its TTL at any time. *)
(***************************************************************************)
EXTENDS Integers, FiniteSets

CONSTANTS
  Jobs,        \* the requests that may arrive; new_job gives each a fresh id
  Procs,       \* the uvicorn processes (TTS_WORKERS)
  Tier,        \* Tier[j]: the billing tier of the request, or "none"
  Priority,    \* Priority[j]: higher runs first
  ScoreScale,  \* SCORE_SCALE
  FreeLimit,   \* tts_free_active_job_limit
  Top,         \* the percentage 100, on a shorter scale
  FaultKinds,  \* the disturbances this instance lets happen
  MaxFaults,   \* bound on their number
  NoJob

Tiers == {"free", "paid", "none"}
AllFaults == {"crash", "shutdown", "redis_error", "expiry", "redis_restart"}

ASSUME JobsAssumption == IsFiniteSet(Jobs) /\ NoJob \notin Jobs
ASSUME TierAssumption == Tier \in [Jobs -> Tiers]
ASSUME PriorityAssumption == Priority \in [Jobs -> Nat]
ASSUME ScaleAssumption == ScoreScale \in Nat /\ Cardinality(Jobs) < ScoreScale
ASSUME LimitAssumption == FreeLimit \in Nat /\ Top \in Nat /\ Top > 1
ASSUME FaultAssumption == FaultKinds \subseteq AllFaults /\ MaxFaults \in Nat

VARIABLES
  rpc,      \* rpc[j]: where the handler of request j is
  host,     \* host[j]: the process that serves request j
  members,  \* members[j]: what SMEMBERS returned to request j
  finished, \* finished[j]: those of them whose job is over
  ticket,   \* ticket[j]: the number INCR gave the job
  seq,      \* the counter behind INCR
  hash,     \* hash[j]: the job's Redis hash
  queue,    \* the jobs in the sorted set; Score orders them
  active,   \* the jobs in the per-tier active sets
  cpc,      \* cpc[p]: where the consumer of process p is
  job,      \* job[p]: the job that consumer holds
  furthest, \* furthest[p]: the largest percentage its callback has written
  after,    \* after[p]: what follows the release of the slot
  late,     \* progress writes that were scheduled and are not done
  starts,   \* history: how often job j was taken up for synthesis
  faults    \* how many disturbances have happened

requestVars == <<rpc, host, members, finished, ticket, seq>>
consumerVars == <<cpc, job, furthest, after>>
redisVars == <<hash, queue, active>>
vars == <<rpc, host, members, finished, ticket, seq, hash, queue, active,
          cpc, job, furthest, after, late, starts, faults>>

----------------------------------------------------------------------------
(* Data *)

Pending == {"queued", "processing"}
Terminal == {"completed", "failed"}

\* A hash without an id is what HSET leaves when the key expired under it.
Hash == [id: BOOLEAN, status: Pending \cup Terminal \cup {"none"},
         progress: 0..Top, ttl: BOOLEAN]
NoHash == [id |-> FALSE, status |-> "none", progress |-> 0, ttl |-> FALSE]
FreshHashStarted == [id |-> TRUE, status |-> "processing", progress |-> 0, ttl |-> TRUE]
FreshHash == [id |-> TRUE, status |-> "queued", progress |-> 0, ttl |-> TRUE]
Exists(j) == hash[j] # NoHash

Write == [by: Procs, job: Jobs, progress: 2..Top, checked: BOOLEAN]

RequestPoints == {"idle", "members", "statuses", "prune", "load", "create",
                  "add", "incr", "zadd", "accepted", "rejected", "gone"}
InFlight == RequestPoints \ {"idle", "accepted", "rejected", "gone"}
ConsumerPoints == {"idle", "get", "start", "startset", "synth", "complete",
                   "completeset", "fail", "failset", "release", "dead"}

\* The sorted set's order.  (Here and below an operator that is not part of Next
\* and stands before the one it resembles is a mutant of it, a plausible bug that
\* the properties have to notice.)
ScoreLifo(j) == Priority[j] * ScoreScale + ticket[j]
Score(j) == Priority[j] * ScoreScale - ticket[j]
IsTop(j) == j \in queue /\ \A k \in queue : Score(k) <= Score(j)

Init ==
  /\ rpc = [j \in Jobs |-> "idle"]
  /\ host \in [Jobs -> Procs]
  /\ members = [j \in Jobs |-> {}]
  /\ finished = [j \in Jobs |-> {}]
  /\ ticket = [j \in Jobs |-> 0]
  /\ seq = 0
  /\ hash = [j \in Jobs |-> NoHash]
  /\ queue = {}
  /\ active = {}
  /\ cpc = [p \in Procs |-> "idle"]
  /\ job = [p \in Procs |-> NoJob]
  /\ furthest = [p \in Procs |-> 0]
  /\ after = [p \in Procs |-> "loop"]
  /\ late = {}
  /\ starts = [j \in Jobs |-> 0]
  /\ faults = 0

----------------------------------------------------------------------------
(* The create_job route *)

\* The route's decision on the count; the locals of count_active are dropped.
Decide(j, count) ==
  /\ rpc' = [rpc EXCEPT ![j] = IF count >= FreeLimit THEN "rejected" ELSE "load"]
  /\ members' = [members EXCEPT ![j] = {}]
  /\ finished' = [finished EXCEPT ![j] = {}]

Arrive(j) ==
  /\ rpc[j] = "idle"
  /\ rpc' = [rpc EXCEPT ![j] = IF Tier[j] = "free" THEN "members" ELSE "load"]
  /\ UNCHANGED <<host, members, finished, ticket, seq, redisVars, consumerVars,
                 late, starts, faults>>

\* Which members count_active takes out of the set.
OverUnlessQueued(k) == hash[k].status # "queued"
Over(k) == hash[k].status \notin Pending

\* count_active, first round trip: SMEMBERS.
CountMembers(j) ==
  /\ rpc[j] = "members"
  /\ LET free == {k \in active : Tier[k] = "free"} IN
       \/ free = {} /\ Decide(j, 0)
       \/ /\ free # {}
          /\ members' = [members EXCEPT ![j] = free]
          /\ rpc' = [rpc EXCEPT ![j] = "statuses"]
          /\ UNCHANGED finished
  /\ UNCHANGED <<host, ticket, seq, redisVars, consumerVars, late, starts, faults>>

\* count_active, second round trip: the HGETs of the pipeline.
CountStatuses(j) ==
  /\ rpc[j] = "statuses"
  /\ LET over == {k \in members[j] : Over(k)} IN
       \/ over = {} /\ Decide(j, Cardinality(members[j]))
       \/ /\ over # {}
          /\ finished' = [finished EXCEPT ![j] = over]
          /\ rpc' = [rpc EXCEPT ![j] = "prune"]
          /\ UNCHANGED members
  /\ UNCHANGED <<host, ticket, seq, redisVars, consumerVars, late, starts, faults>>

\* count_active, third round trip: SREM, and the decision on the result.
CountPrune(j) ==
  /\ rpc[j] = "prune"
  /\ active' = active \ finished[j]
  /\ Decide(j, Cardinality(members[j]) - Cardinality(finished[j]))
  /\ UNCHANGED <<host, ticket, seq, hash, queue, consumerVars, late, starts, faults>>

\* load_voice on a thread, then validate_tts_request, which may answer 400.
Validate(j) ==
  /\ rpc[j] = "load"
  /\ \E next \in {"create", "rejected"} : rpc' = [rpc EXCEPT ![j] = next]
  /\ UNCHANGED <<host, members, finished, ticket, seq, redisVars, consumerVars,
                 late, starts, faults>>

Create(j) ==
  /\ rpc[j] = "create"
  /\ hash' = [hash EXCEPT ![j] = FreshHash]
  /\ rpc' = [rpc EXCEPT ![j] = IF Tier[j] = "none" THEN "incr" ELSE "add"]
  /\ UNCHANGED <<host, members, finished, ticket, seq, queue, active,
                 consumerVars, late, starts, faults>>

AddActive(j) ==
  /\ rpc[j] = "add"
  /\ active' = active \cup {j}
  /\ rpc' = [rpc EXCEPT ![j] = "incr"]
  /\ UNCHANGED <<host, members, finished, ticket, seq, hash, queue,
                 consumerVars, late, starts, faults>>

\* enqueue: INCR, then ZADD.
TakeTicket(j) ==
  /\ rpc[j] = "incr"
  /\ seq' = seq + 1
  /\ ticket' = [ticket EXCEPT ![j] = seq + 1]
  /\ rpc' = [rpc EXCEPT ![j] = "zadd"]
  /\ UNCHANGED <<host, members, finished, redisVars, consumerVars,
                 late, starts, faults>>

Enqueue(j) ==
  /\ rpc[j] = "zadd"
  /\ queue' = queue \cup {j}
  /\ rpc' = [rpc EXCEPT ![j] = "accepted"]
  /\ UNCHANGED <<host, members, finished, ticket, seq, hash, active,
                 consumerVars, late, starts, faults>>

Request(j) ==
  \/ Arrive(j) \/ CountMembers(j) \/ CountStatuses(j) \/ CountPrune(j)
  \/ Validate(j) \/ Create(j) \/ AddActive(j) \/ TakeTicket(j) \/ Enqueue(j)

----------------------------------------------------------------------------
(* The consumer of one process: consume_forever, process_job, _run_job *)

\* BZPOPMAX.
PopPeek(p) ==
  /\ cpc[p] = "idle"
  /\ \E j \in queue : IsTop(j) /\ job' = [job EXCEPT ![p] = j]
  /\ cpc' = [cpc EXCEPT ![p] = "get"]
  /\ UNCHANGED <<requestVars, redisVars, furthest, after, late, starts, faults>>

Pop(p) ==
  /\ cpc[p] = "idle"
  /\ \E j \in queue :
       /\ IsTop(j)
       /\ queue' = queue \ {j}
       /\ job' = [job EXCEPT ![p] = j]
  /\ cpc' = [cpc EXCEPT ![p] = "get"]
  /\ UNCHANGED <<requestVars, hash, active, furthest, after, late, starts, faults>>

\* process_job up to the call of _run_job.
GetMissing(p) ==
  /\ cpc[p] = "get"
  /\ ~hash[job[p]].id
  /\ cpc' = [cpc EXCEPT ![p] = "idle"]
  /\ job' = [job EXCEPT ![p] = NoJob]
  /\ UNCHANGED <<requestVars, redisVars, furthest, after, late, starts, faults>>

\* A job that is no longer queued is not run, and its slot is released.
GetFound(p) ==
  /\ cpc[p] = "get"
  /\ hash[job[p]].id
  /\ LET queued == hash[job[p]].status = "queued" IN
       /\ cpc' = [cpc EXCEPT ![p] = IF queued THEN "start" ELSE "release"]
       /\ starts' = IF queued THEN [starts EXCEPT ![job[p]] = @ + 1] ELSE starts
  /\ UNCHANGED <<requestVars, redisVars, job, furthest, after, late, faults>>

\* RedisJobStore.update, first round trip: EXISTS.  When the key is gone the
\* update returns None and its caller goes on.
UpdateCheck(p) ==
  /\ \E step \in {[at |-> "start",    set |-> "startset",    skip |-> "synth"],
                  [at |-> "complete", set |-> "completeset", skip |-> "release"],
                  [at |-> "fail",     set |-> "failset",     skip |-> "release"]} :
       /\ cpc[p] = step.at
       /\ cpc' = [cpc EXCEPT ![p] = IF Exists(job[p]) THEN step.set ELSE step.skip]
  /\ UNCHANGED <<requestVars, redisVars, job, furthest, after, late, starts, faults>>

\* RedisJobStore.update, second round trip: HSET of the fields it was given.
StartFields(j) == [hash EXCEPT ![j].status = "processing", ![j].progress = 1]
CompleteFieldsUnknown(j) == [hash EXCEPT ![j].status = "done", ![j].progress = Top]
CompleteFields(j) == [hash EXCEPT ![j].status = "completed", ![j].progress = Top]
FailFields(j) == [hash EXCEPT ![j].status = "failed"]

StartSet(p) ==
  /\ cpc[p] = "startset"
  /\ hash' = StartFields(job[p])
  /\ cpc' = [cpc EXCEPT ![p] = "synth"]
  /\ UNCHANGED <<requestVars, queue, active, job, furthest, after, late, starts, faults>>

CompleteSet(p) ==
  /\ cpc[p] = "completeset"
  /\ hash' = CompleteFields(job[p])
  /\ cpc' = [cpc EXCEPT ![p] = "release"]
  /\ UNCHANGED <<requestVars, queue, active, job, furthest, after, late, starts, faults>>

FailSet(p) ==
  /\ cpc[p] = "failset"
  /\ hash' = FailFields(job[p])
  /\ cpc' = [cpc EXCEPT ![p] = "release"]
  /\ UNCHANGED <<requestVars, queue, active, job, furthest, after, late, starts, faults>>

\* on_progress, on the synthesis thread: only advances are scheduled.
Progress(p) ==
  /\ cpc[p] = "synth"
  /\ \E percent \in 2..Top :
       /\ percent > furthest[p]
       /\ furthest' = [furthest EXCEPT ![p] = percent]
       /\ late' = late \cup {[by |-> p, job |-> job[p], progress |-> percent,
                              checked |-> FALSE]}
  /\ UNCHANGED <<requestVars, redisVars, cpc, job, after, starts, faults>>

\* generate_tts returns after it has reported 100, or raises.
SynthesisEnds(p) ==
  /\ cpc[p] = "synth"
  /\ \/ furthest[p] = Top /\ cpc' = [cpc EXCEPT ![p] = "complete"]
     \/ cpc' = [cpc EXCEPT ![p] = "fail"]
  /\ UNCHANGED <<requestVars, redisVars, job, furthest, after, late, starts, faults>>

\* The finally block, and what comes after process_job: the loop, the end of
\* the consumer task on an exception, or the end of the process.
FreedSlotsNone(p) == active
FreedSlotsOnSuccess(p) ==
  IF hash[job[p]].status = "completed" THEN active \ {job[p]} ELSE active
FreedSlots(p) == active \ {job[p]}

Release(p) ==
  /\ cpc[p] = "release"
  /\ active' = FreedSlots(p)
  /\ cpc' = [cpc EXCEPT ![p] = IF after[p] = "raise" THEN "dead" ELSE "idle"]
  /\ job' = [job EXCEPT ![p] = NoJob]
  /\ furthest' = [furthest EXCEPT ![p] = 0]
  /\ after' = [after EXCEPT ![p] = "loop"]
  /\ late' = IF after[p] = "exit" THEN {w \in late : w.by # p} ELSE late
  /\ UNCHANGED <<requestVars, hash, queue, starts, faults>>

Consumer(p) ==
  \/ Pop(p) \/ GetMissing(p) \/ GetFound(p)
  \/ UpdateCheck(p) \/ StartSet(p) \/ CompleteSet(p) \/ FailSet(p)
  \/ Progress(p) \/ SynthesisEnds(p) \/ Release(p)

\* The scheduled progress updates run as coroutines of their own: each awaits
\* EXISTS and then HSET, in no order relative to the others or the consumer.
LateCheck(w) ==
  /\ ~w.checked
  /\ late' = (late \ {w}) \cup
               (IF Exists(w.job) THEN {[w EXCEPT !.checked = TRUE]} ELSE {})
  /\ UNCHANGED <<requestVars, redisVars, consumerVars, starts, faults>>

LateFieldsWhole(w) ==
  [hash EXCEPT ![w.job].progress = w.progress, ![w.job].status = "processing"]
LateFields(w) == [hash EXCEPT ![w.job].progress = w.progress]

LateSet(w) ==
  /\ w.checked
  /\ hash' = LateFields(w)
  /\ late' = late \ {w}
  /\ UNCHANGED <<requestVars, queue, active, consumerVars, starts, faults>>

LateUpdate(w) == LateCheck(w) \/ LateSet(w)

----------------------------------------------------------------------------
(* Disturbances *)

Fault(kind) ==
  /\ kind \in FaultKinds
  /\ faults < MaxFaults
  /\ faults' = faults + 1

\* The process is killed and started again: its requests, its consumer's place
\* and its scheduled writes are gone.
Crash(p) ==
  /\ Fault("crash")
  /\ rpc' = [j \in Jobs |-> IF host[j] = p /\ rpc[j] \in InFlight
                              THEN "gone" ELSE rpc[j]]
  /\ cpc' = [cpc EXCEPT ![p] = "idle"]
  /\ job' = [job EXCEPT ![p] = NoJob]
  /\ furthest' = [furthest EXCEPT ![p] = 0]
  /\ after' = [after EXCEPT ![p] = "loop"]
  /\ late' = {w \in late : w.by # p}
  /\ members' = [j \in Jobs |-> IF host[j] = p THEN {} ELSE members[j]]
  /\ finished' = [j \in Jobs |-> IF host[j] = p THEN {} ELSE finished[j]]
  /\ UNCHANGED <<host, ticket, seq, redisVars, starts>>

\* The lifespan handler cancels the consumer once the server has drained its
\* requests.  CancelledError is no Exception: only the finally block runs, and
\* before _run_job there is none; a release that is under way may be cut short.
Shutdown(p) ==
  /\ Fault("shutdown")
  /\ \A j \in Jobs : host[j] = p => rpc[j] \notin InFlight
  /\ \/ /\ cpc[p] \in {"idle", "get", "dead", "release"}
        /\ cpc' = [cpc EXCEPT ![p] = "idle"]
        /\ job' = [job EXCEPT ![p] = NoJob]
        /\ furthest' = [furthest EXCEPT ![p] = 0]
        /\ after' = [after EXCEPT ![p] = "loop"]
        /\ late' = {w \in late : w.by # p}
        /\ active' \in {active, IF cpc[p] = "release" THEN FreedSlots(p) ELSE active}
     \/ /\ cpc[p] \notin {"idle", "get", "dead", "release"}
        /\ cpc' = [cpc EXCEPT ![p] = "release"]
        /\ after' = [after EXCEPT ![p] = "exit"]
        /\ UNCHANGED <<job, furthest, late, active>>
  /\ UNCHANGED <<requestVars, hash, queue, starts>>

\* A Redis call of a request raises, before or after the command took effect:
\* the handler answers 500.
TookEffect(j) ==
  \/ /\ rpc[j] = "prune" /\ active' = active \ finished[j]
     /\ UNCHANGED <<hash, queue, ticket, seq>>
  \/ /\ rpc[j] = "create" /\ hash' = [hash EXCEPT ![j] = FreshHash]
     /\ UNCHANGED <<queue, active, ticket, seq>>
  \/ /\ rpc[j] = "add" /\ active' = active \cup {j}
     /\ UNCHANGED <<hash, queue, ticket, seq>>
  \/ /\ rpc[j] = "incr" /\ seq' = seq + 1
     /\ UNCHANGED <<redisVars, ticket>>
  \/ /\ rpc[j] = "zadd" /\ queue' = queue \cup {j}
     /\ UNCHANGED <<hash, active, ticket, seq>>

RequestError(j) ==
  /\ Fault("redis_error")
  /\ rpc[j] \in InFlight \ {"load"}
  /\ UNCHANGED <<redisVars, ticket, seq>> \/ TookEffect(j)
  /\ rpc' = [rpc EXCEPT ![j] = "gone"]
  /\ members' = [members EXCEPT ![j] = {}]
  /\ finished' = [finished EXCEPT ![j] = {}]
  /\ UNCHANGED <<host, consumerVars, late, starts>>

\* dequeue raises: the loop logs it, sleeps and goes on.  The element may
\* already have been popped when the answer is lost.
DequeueError(p) ==
  /\ Fault("redis_error")
  /\ cpc[p] = "idle"
  /\ \/ UNCHANGED queue
     \/ \E j \in queue : IsTop(j) /\ queue' = queue \ {j}
  /\ UNCHANGED <<requestVars, hash, active, consumerVars, late, starts>>

\* A Redis call inside process_job raises, before or after the command took
\* effect.  Only the calls after synthesis stand in a try that catches it, and
\* nothing around process_job does.
ConsumerError(p) ==
  /\ Fault("redis_error")
  /\ \/ /\ cpc[p] = "get"
        /\ cpc' = [cpc EXCEPT ![p] = "dead"]
        /\ job' = [job EXCEPT ![p] = NoJob]
        /\ UNCHANGED <<hash, active, after>>
     \/ /\ cpc[p] \in {"start", "startset", "fail", "failset"}
        /\ cpc' = [cpc EXCEPT ![p] = "release"]
        /\ after' = [after EXCEPT ![p] = "raise"]
        /\ \/ UNCHANGED hash
           \/ cpc[p] = "startset" /\ hash' = StartFields(job[p])
           \/ cpc[p] = "failset" /\ hash' = FailFields(job[p])
        /\ UNCHANGED <<job, active>>
     \/ /\ cpc[p] \in {"complete", "completeset"}
        /\ cpc' = [cpc EXCEPT ![p] = "fail"]
        /\ \/ UNCHANGED hash
           \/ cpc[p] = "completeset" /\ hash' = CompleteFields(job[p])
        /\ UNCHANGED <<job, active, after>>
     \/ /\ cpc[p] = "release"
        /\ Tier[job[p]] # "none"
        /\ cpc' = [cpc EXCEPT ![p] = IF after[p] = "exit" THEN "idle" ELSE "dead"]
        /\ job' = [job EXCEPT ![p] = NoJob]
        /\ after' = [after EXCEPT ![p] = "loop"]
        /\ active' \in {active, FreedSlots(p)}
        /\ UNCHANGED hash
  /\ IF cpc[p] = "release"
       THEN /\ furthest' = [furthest EXCEPT ![p] = 0]
            /\ late' = IF after[p] = "exit" THEN {w \in late : w.by # p} ELSE late
       ELSE UNCHANGED <<furthest, late>>
  /\ UNCHANGED <<requestVars, queue, starts>>

\* The future of a progress update that raises is never looked at.
LateError(w) ==
  /\ Fault("redis_error")
  /\ late' = late \ {w}
  /\ UNCHANGED <<requestVars, redisVars, consumerVars, starts>>

\* EXPIRE set by create runs out.
Expire(j) ==
  /\ Fault("expiry")
  /\ hash[j].ttl
  /\ hash' = [hash EXCEPT ![j] = NoHash]
  /\ UNCHANGED <<requestVars, queue, active, consumerVars, late, starts>>

RedisRestart ==
  /\ Fault("redis_restart")
  /\ hash' = [j \in Jobs |-> NoHash]
  /\ queue' = {}
  /\ active' = {}
  /\ seq' = 0
  /\ UNCHANGED <<rpc, host, members, finished, ticket, consumerVars, late, starts>>

Next ==
  \/ \E j \in Jobs : Request(j) \/ RequestError(j) \/ Expire(j)
  \/ \E p \in Procs : Consumer(p) \/ Crash(p) \/ Shutdown(p)
                        \/ DequeueError(p) \/ ConsumerError(p)
  \/ \E w \in late : LateUpdate(w) \/ LateError(w)
  \/ RedisRestart

Spec == Init /\ [][Next]_vars

\* Every coroutine that can go on is scheduled by its event loop, every thread
\* ends and every Redis command is answered.
FairSpec ==
  /\ Spec
  /\ \A j \in Jobs : WF_vars(Request(j))
  /\ \A p \in Procs : WF_vars(Consumer(p))
  /\ WF_vars(\E w \in late : LateUpdate(w))

----------------------------------------------------------------------------
(* Properties *)

\* Every variable keeps the shape the code gives it.
TypeOK ==
  /\ rpc \in [Jobs -> RequestPoints]
  /\ host \in [Jobs -> Procs]
  /\ members \in [Jobs -> SUBSET Jobs]
  /\ finished \in [Jobs -> SUBSET Jobs]
  /\ ticket \in [Jobs -> Nat]
  /\ seq \in Nat
  /\ hash \in [Jobs -> Hash]
  /\ queue \subseteq Jobs
  /\ active \subseteq Jobs
  /\ cpc \in [Procs -> ConsumerPoints]
  /\ job \in [Procs -> Jobs \cup {NoJob}]
  /\ \A p \in Procs : cpc[p] \notin {"idle", "dead"} => job[p] \in Jobs
  /\ furthest \in [Procs -> 0..Top]
  /\ after \in [Procs -> {"loop", "raise", "exit"}]
  /\ late \subseteq Write
  /\ starts \in [Jobs -> Nat]
  /\ faults \in 0..MaxFaults

Holds(p, j) == job[p] = j
LiveWork(j) ==
  \/ rpc[j] \in {"incr", "zadd"}
  \/ j \in queue
  \/ \E p \in Procs : Holds(p, j)

\* A job is synthesised at most once, whatever crashes, shuts down or fails:
\* it is enqueued once and BZPOPMAX hands it to one consumer (job_runner.py
\* has no retry, and a popped id never returns to the queue).
SynthesisedOnce == \A j \in Jobs : starts[j] <= 1

\* A tiered job that a consumer could take, or has taken and still finds alive,
\* already counts against its pool: create_job registers the slot before it
\* enqueues, and count_active never prunes a job that is queued or processing.
SlotCoversWork ==
  \A j \in Jobs :
    /\ Tier[j] # "none"
    /\ hash[j].id /\ hash[j].status \in Pending
    /\ j \in queue \/ \E p \in Procs : Holds(p, j) /\ cpc[p] # "release"
    => j \in active

\* Without disturbance no slot outlives its job: a member of an active set is
\* being enqueued, waits in the queue or is held by a consumer that will
\* release it in its finally block.
NoSlotLeak == faults = 0 => \A j \in active : LiveWork(j)

\* A terminal status is never replaced by another one, whatever late progress
\* writes, other consumers, crashes and shutdowns do: they touch other fields or
\* nothing.  The one exception needs a failed Redis call: when the write of
\* `completed` took effect and its answer was lost, the failure path of _run_job
\* writes `failed` over it.
TerminalIsFinal ==
  [][\A j \in Jobs :
       hash[j].status \in Terminal =>
         \/ hash'[j].status \in {hash[j].status, "none"}
         \/ hash[j].status = "completed" /\ hash'[j].status = "failed" /\ faults > 0]_hash

\* A consumer never takes a job while one of higher priority, or an older one of
\* the same priority, waits in the queue.
PriorityThenFifo ==
  [][\A j \in queue \ queue' : \A k \in queue' :
       \/ Priority[k] < Priority[j]
       \/ Priority[k] = Priority[j] /\ ticket[j] <= ticket[k]]_queue

\* Redis, the route and the consumers together are the queue that JobQueue describes:
\* create_job hands in once, BZPOPMAX takes in order, and process_job puts an undisturbed job
\* down only after _run_job, however commands interleave; a job that is lost does not come back.
Fresh == {j \in Jobs : rpc[j] \notin {"accepted", "gone"}}
Promise == INSTANCE JobQueue WITH
  Workers  <- Procs,
  None     <- NoJob,
  fresh    <- Fresh,
  number   <- ticket,
  waiting  <- queue,
  held     <- job,
  runs     <- starts,
  troubles <- faults
QueuePromise == Promise!Spec

\* Undisturbed, every accepted job reaches a terminal status and gives its slot
\* back.
AcceptedJobsFinish ==
  \A j \in Jobs :
    rpc[j] = "accepted" ~> (hash[j].status \in Terminal /\ j \notin active)

----------------------------------------------------------------------------
(* What the comments say and the code does not do *)

\* The shared ceiling on active Free-tier jobs.
FreeCap == Cardinality({j \in active : Tier[j] = "free"}) <= FreeLimit

\* Every process keeps its consumer.
OneConsumerPerProcess == \A p \in Procs : cpc[p] # "dead"
=============================================================================
