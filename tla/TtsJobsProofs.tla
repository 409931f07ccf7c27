--------------------------- MODULE TtsJobsProofs ---------------------------
(***************************************************************************)
(* Proofs about the asynchronous TTS jobs, for any number of requests,     *)
(* processes and disturbances of every kind.                               *)
(***************************************************************************)
EXTENDS TtsJobs, FiniteSetTheorems, TLAPS

\* The job a busy consumer works on.
LEMMA HeldType ==
  ASSUME TypeOK, NEW p \in Procs, cpc[p] \notin {"idle", "dead"}
  PROVE  job[p] \in Jobs /\ hash[job[p]] \in Hash
  BY DEF TypeOK

\* Every write to Redis leaves a hash of the declared shape.
LEMMA HashTypes ==
  ASSUME TypeOK, NEW j \in Jobs
  PROVE  /\ [hash EXCEPT ![j] = FreshHash] \in [Jobs -> Hash]
         /\ [hash EXCEPT ![j] = NoHash] \in [Jobs -> Hash]
         /\ StartFields(j) \in [Jobs -> Hash]
         /\ CompleteFields(j) \in [Jobs -> Hash]
         /\ FailFields(j) \in [Jobs -> Hash]
         /\ \A n \in 0..Top : [hash EXCEPT ![j].progress = n] \in [Jobs -> Hash]
<1>1. /\ hash \in [Jobs -> Hash] /\ hash[j] \in Hash
      /\ Top \in 0..Top /\ 1 \in 0..Top /\ 0 \in 0..Top
  BY LimitAssumption DEF TypeOK
<1>2. FreshHash \in Hash /\ NoHash \in Hash
  BY <1>1 DEF FreshHash, NoHash, Hash, Pending, Terminal
<1>3. /\ [hash[j] EXCEPT !.status = "processing", !.progress = 1] \in Hash
      /\ [hash[j] EXCEPT !.status = "completed", !.progress = Top] \in Hash
      /\ [hash[j] EXCEPT !.status = "failed"] \in Hash
      /\ \A n \in 0..Top : [hash[j] EXCEPT !.progress = n] \in Hash
  BY <1>1 DEF Hash, Pending, Terminal
<1>4. /\ StartFields(j) = [hash EXCEPT ![j] = [hash[j] EXCEPT !.status = "processing", !.progress = 1]]
      /\ CompleteFields(j) = [hash EXCEPT ![j] = [hash[j] EXCEPT !.status = "completed", !.progress = Top]]
      /\ FailFields(j) = [hash EXCEPT ![j] = [hash[j] EXCEPT !.status = "failed"]]
  BY <1>1 DEF StartFields, CompleteFields, FailFields
<1>5. \A n \in 0..Top :
        [hash EXCEPT ![j].progress = n] = [hash EXCEPT ![j] = [hash[j] EXCEPT !.progress = n]]
  BY <1>1
<1> QED BY <1>1, <1>2, <1>3, <1>4, <1>5

\* The initial state has the declared shape.
LEMMA InitType == Init => TypeOK
<1> SUFFICES ASSUME Init PROVE TypeOK
  OBVIOUS
<1>1. NoHash \in Hash /\ 0 \in 0..Top /\ 0 \in 0..MaxFaults
  BY LimitAssumption, FaultAssumption DEF NoHash, Hash
<1> QED BY <1>1 DEF Init, TypeOK, RequestPoints, ConsumerPoints

\* The steps of a request keep the types.
LEMMA RequestType ==
  ASSUME TypeOK, NEW j \in Jobs, Request(j)
  PROVE  TypeOK'
<1> USE DEF requestVars, consumerVars, redisVars, RequestPoints
<1>1. CASE Arrive(j)
  BY <1>1 DEF TypeOK, Arrive
<1>2. CASE CountMembers(j)
  BY <1>2 DEF TypeOK, CountMembers, Decide
<1>3. CASE CountStatuses(j)
  BY <1>3 DEF TypeOK, CountStatuses, Decide
<1>4. CASE CountPrune(j)
  BY <1>4 DEF TypeOK, CountPrune, Decide
<1>5. CASE Validate(j)
  BY <1>5 DEF TypeOK, Validate
<1>6. CASE Create(j)
  BY <1>6, HashTypes DEF TypeOK, Create
<1>7. CASE AddActive(j)
  BY <1>7 DEF TypeOK, AddActive
<1>8. CASE TakeTicket(j)
  BY <1>8 DEF TypeOK, TakeTicket
<1>9. CASE Enqueue(j)
  BY <1>9 DEF TypeOK, Enqueue
<1> QED BY <1>1, <1>2, <1>3, <1>4, <1>5, <1>6, <1>7, <1>8, <1>9 DEF Request

\* The steps of a consumer keep the types.
LEMMA ConsumerType ==
  ASSUME TypeOK, NEW p \in Procs, Consumer(p)
  PROVE  TypeOK'
<1> USE DEF requestVars, consumerVars, redisVars, ConsumerPoints
<1>1. CASE Pop(p)
  BY <1>1 DEF TypeOK, Pop
<1>2. CASE GetMissing(p)
  BY <1>2 DEF TypeOK, GetMissing
<1>3. CASE GetFound(p)
  BY <1>3 DEF TypeOK, GetFound
<1>4. CASE UpdateCheck(p)
  BY <1>4 DEF TypeOK, UpdateCheck
<1>5. CASE StartSet(p)
  BY <1>5, HeldType, HashTypes DEF TypeOK, StartSet
<1>6. CASE CompleteSet(p)
  BY <1>6, HeldType, HashTypes DEF TypeOK, CompleteSet
<1>7. CASE FailSet(p)
  BY <1>7, HeldType, HashTypes DEF TypeOK, FailSet
<1>8. CASE Progress(p)
  <2>1. PICK percent \in 2..Top :
          /\ furthest' = [furthest EXCEPT ![p] = percent]
          /\ late' = late \cup {[by |-> p, job |-> job[p], progress |-> percent,
                                 checked |-> FALSE]}
    BY <1>8 DEF Progress
  <2>2. [by |-> p, job |-> job[p], progress |-> percent, checked |-> FALSE] \in Write
    BY <1>8, HeldType DEF Progress, Write
  <2>3. late' \subseteq Write
    BY <2>1, <2>2 DEF TypeOK
  <2>4. furthest' \in [Procs -> 0..Top]
    <3>1. percent \in 0..Top
      BY LimitAssumption
    <3> QED BY <2>1, <3>1 DEF TypeOK
  <2> QED BY <1>8, <2>3, <2>4 DEF TypeOK, Progress
<1>9. CASE SynthesisEnds(p)
  BY <1>9 DEF TypeOK, SynthesisEnds
<1>10. CASE Release(p)
  BY <1>10, LimitAssumption DEF TypeOK, Release, FreedSlots
<1> QED BY <1>1, <1>2, <1>3, <1>4, <1>5, <1>6, <1>7, <1>8, <1>9, <1>10
        DEF Consumer

\* The progress writes keep the types.
LEMMA LateType ==
  ASSUME TypeOK, NEW w \in late, LateUpdate(w)
  PROVE  TypeOK'
<1> USE DEF requestVars, consumerVars, redisVars
<1>1. w \in Write /\ w.job \in Jobs /\ w.progress \in 0..Top
  BY LimitAssumption DEF TypeOK, Write
<1>2. [w EXCEPT !.checked = TRUE] \in Write
  BY <1>1 DEF Write
<1>3. CASE LateCheck(w)
  BY <1>2, <1>3 DEF TypeOK, LateCheck
<1>4. CASE LateSet(w)
  BY <1>1, <1>4, HashTypes DEF TypeOK, LateSet, LateFields
<1> QED BY <1>3, <1>4 DEF LateUpdate

\* The disturbances are counted up to their bound.
LEMMA FaultType ==
  ASSUME TypeOK, NEW kind, Fault(kind)
  PROVE  faults' \in 0..MaxFaults
  BY FaultAssumption DEF TypeOK, Fault

\* A failed Redis call of a consumer keeps the types.
LEMMA ConsumerErrorType ==
  ASSUME TypeOK, NEW p \in Procs, ConsumerError(p)
  PROVE  TypeOK'
<1> USE DEF requestVars, ConsumerPoints
<1>0. faults' \in 0..MaxFaults
  BY FaultType DEF ConsumerError
<1>1. hash' \in [Jobs -> Hash]
  <2>1. hash' = hash => hash' \in [Jobs -> Hash]
    BY DEF TypeOK
  <2>2. ASSUME cpc[p] \in {"startset", "completeset", "failset"} PROVE job[p] \in Jobs
    BY <2>2, HeldType
  <2>3. \/ hash' = hash
        \/ /\ cpc[p] \in {"startset", "completeset", "failset"}
           /\ hash' \in {StartFields(job[p]), CompleteFields(job[p]), FailFields(job[p])}
    BY DEF ConsumerError
  <2> QED BY <2>1, <2>2, <2>3, HashTypes
<1>2. /\ cpc' \in [Procs -> ConsumerPoints]
      /\ job' \in [Procs -> Jobs \cup {NoJob}]
      /\ \A q \in Procs : cpc'[q] \notin {"idle", "dead"} => job'[q] \in Jobs
      /\ after' \in [Procs -> {"loop", "raise", "exit"}]
      /\ active' \subseteq Jobs
  BY DEF ConsumerError, FreedSlots, TypeOK
<1>3. furthest' \in [Procs -> 0..Top] /\ late' \subseteq Write
  BY LimitAssumption DEF ConsumerError, TypeOK
<1> QED BY <1>0, <1>1, <1>2, <1>3 DEF ConsumerError, TypeOK

\* Every disturbance keeps the types.
LEMMA DisturbanceType ==
  ASSUME TypeOK,
         \/ \E j \in Jobs : RequestError(j) \/ Expire(j)
         \/ \E p \in Procs : Crash(p) \/ Shutdown(p) \/ DequeueError(p) \/ ConsumerError(p)
         \/ \E w \in late : LateError(w)
         \/ RedisRestart
  PROVE  TypeOK'
<1> USE DEF requestVars, consumerVars, redisVars
<1>1. ASSUME NEW j \in Jobs, RequestError(j) PROVE TypeOK'
  <2>1. hash' \in [Jobs -> Hash] /\ queue' \subseteq Jobs /\ active' \subseteq Jobs
        /\ seq' \in Nat /\ ticket' = ticket
    <3>1. UNCHANGED <<redisVars, ticket, seq>> \/ TookEffect(j)
      BY <1>1 DEF RequestError
    <3>2. CASE UNCHANGED <<redisVars, ticket, seq>>
      BY <3>2 DEF TypeOK
    <3>3. CASE TookEffect(j)
      <4>1. hash' \in [Jobs -> Hash]
        BY <3>3, HashTypes DEF TypeOK, TookEffect
      <4> QED BY <3>3, <4>1 DEF TypeOK, TookEffect
    <3> QED BY <3>1, <3>2, <3>3
  <2> QED BY <1>1, <2>1, FaultType DEF TypeOK, RequestError, RequestPoints
<1>2. ASSUME NEW j \in Jobs, Expire(j) PROVE TypeOK'
  BY <1>2, FaultType, HashTypes DEF TypeOK, Expire
<1>3. ASSUME NEW p \in Procs, Crash(p) PROVE TypeOK'
  BY <1>3, FaultType, LimitAssumption DEF TypeOK, Crash, RequestPoints, ConsumerPoints
<1>4. ASSUME NEW p \in Procs, Shutdown(p) PROVE TypeOK'
  <2>1. /\ cpc' \in [Procs -> ConsumerPoints]
        /\ job' \in [Procs -> Jobs \cup {NoJob}]
        /\ \A q \in Procs : cpc'[q] \notin {"idle", "dead"} => job'[q] \in Jobs
    BY <1>4 DEF TypeOK, Shutdown, ConsumerPoints
  <2>2. /\ after' \in [Procs -> {"loop", "raise", "exit"}]
        /\ active' \subseteq Jobs
        /\ furthest' \in [Procs -> 0..Top] /\ late' \subseteq Write
    BY <1>4, LimitAssumption DEF TypeOK, Shutdown, FreedSlots
  <2> QED BY <1>4, <2>1, <2>2, FaultType DEF TypeOK, Shutdown
<1>5. ASSUME NEW p \in Procs, DequeueError(p) PROVE TypeOK'
  BY <1>5, FaultType DEF TypeOK, DequeueError
<1>6. ASSUME NEW p \in Procs, ConsumerError(p) PROVE TypeOK'
  BY <1>6, ConsumerErrorType
<1>7. ASSUME NEW w \in late, LateError(w) PROVE TypeOK'
  BY <1>7, FaultType DEF TypeOK, LateError
<1>8. CASE RedisRestart
  <2>1. NoHash \in Hash
    BY LimitAssumption DEF NoHash, Hash
  <2> QED BY <1>8, <2>1, FaultType DEF TypeOK, RedisRestart
<1> QED BY <1>1, <1>2, <1>3, <1>4, <1>5, <1>6, <1>7, <1>8

\* Every step keeps the types.
LEMMA NextType == TypeOK /\ [Next]_vars => TypeOK'
<1> SUFFICES ASSUME TypeOK, [Next]_vars PROVE TypeOK'
  OBVIOUS
<1>1. CASE UNCHANGED vars
  BY <1>1 DEF TypeOK, vars
<1>2. CASE Next
  BY <1>2, RequestType, ConsumerType, LateType, DisturbanceType DEF Next
<1> QED BY <1>1, <1>2

\* The types hold throughout.
LEMMA TypeHolds == Spec => []TypeOK
  BY InitType, NextType, PTL DEF Spec

\* Every variable of the asynchronous TTS jobs keeps its shape.
THEOREM TypeCorrect == Spec => []TypeOK
  BY TypeHolds, PTL

----------------------------------------------------------------------------
(* A job is synthesised at most once *)

\* Its handler has not tried to enqueue the job.
Ahead(j) == rpc[j] \notin {"accepted", "gone"}

\* A job is in the queue or with one consumer, and is taken up on its way from
\* the one to the other.
OnceInv ==
  /\ \A j \in Jobs : Ahead(j) =>
       j \notin queue /\ starts[j] = 0 /\ \A p \in Procs : job[p] # j
  /\ \A j \in queue : starts[j] = 0 /\ \A p \in Procs : job[p] # j
  /\ \A p \in Procs : cpc[p] = "get" => starts[job[p]] = 0
  /\ \A p, q \in Procs : job[p] = job[q] /\ job[p] # NoJob => p = q
  /\ SynthesisedOnce

\* Initially nothing is queued, held or taken up.
LEMMA InitOnce == Init => OnceInv
<1> SUFFICES ASSUME Init PROVE OnceInv
  OBVIOUS
<1>1. SynthesisedOnce
  <2> SUFFICES ASSUME NEW j \in Jobs PROVE starts[j] <= 1
    BY DEF SynthesisedOnce
  <2>1. starts[j] = 0 BY DEF Init
  <2> QED BY <2>1
<1> QED BY <1>1, JobsAssumption DEF Init, OnceInv

\* A step that enqueues nothing, hands no job out and takes none up.
LEMMA OnceKept ==
  ASSUME TypeOK, OnceInv, queue' \subseteq queue, starts' = starts,
         \A j \in Jobs : Ahead(j)' => Ahead(j),
         \A p \in Procs : job'[p] \in {job[p], NoJob},
         \A p \in Procs : cpc'[p] = "get" => cpc[p] = "get" /\ job'[p] = job[p]
  PROVE  OnceInv'
  BY JobsAssumption DEF OnceInv, TypeOK, SynthesisedOnce

\* The handler's ZADD, whether its answer arrives or not.
LEMMA EnqueueOnce ==
  ASSUME TypeOK, OnceInv, NEW j \in Jobs, rpc[j] = "zadd", queue' = queue \cup {j},
         NEW next \in {"accepted", "gone"}, rpc' = [rpc EXCEPT ![j] = next],
         UNCHANGED <<consumerVars, starts>>
  PROVE  OnceInv'
<1>1. Ahead(j) /\ ~Ahead(j)' /\ \A k \in Jobs : Ahead(k)' => Ahead(k)
  BY DEF Ahead, TypeOK
<1> QED BY <1>1 DEF OnceInv, SynthesisedOnce, consumerVars

\* A request enqueues its job once and takes up none.
LEMMA RequestOnce ==
  ASSUME TypeOK, OnceInv, NEW j \in Jobs, Request(j)
  PROVE  OnceInv'
<1>1. CASE Enqueue(j)
  BY <1>1, EnqueueOnce DEF Enqueue
<1>2. CASE ~Enqueue(j)
  <2>1. queue' = queue /\ starts' = starts /\ job' = job /\ cpc' = cpc
    BY <1>2 DEF Request, Arrive, CountMembers, CountStatuses, CountPrune, Validate,
                Create, AddActive, TakeTicket, redisVars, consumerVars
  <2>2. \A k \in Jobs : Ahead(k)' => Ahead(k)
    BY <1>2 DEF Ahead, Request, Arrive, CountMembers, CountStatuses, CountPrune,
                Validate, Create, AddActive, TakeTicket, Decide, TypeOK
  <2> QED BY <2>1, <2>2, OnceKept
<1> QED BY <1>1, <1>2

\* BZPOPMAX moves a job from the queue to one consumer.
LEMMA PopOnce ==
  ASSUME TypeOK, OnceInv, NEW p \in Procs, Pop(p)
  PROVE  OnceInv'
<1>1. PICK j \in queue : queue' = queue \ {j} /\ job' = [job EXCEPT ![p] = j]
  BY DEF Pop
<1>2. /\ starts' = starts /\ rpc' = rpc /\ j \in Jobs /\ starts[j] = 0
      /\ \A q \in Procs : job[q] # j
  BY <1>1 DEF Pop, OnceInv, TypeOK, requestVars
<1>3. job'[p] = j /\ \A q \in Procs \ {p} : job'[q] = job[q]
  BY <1>1 DEF TypeOK
<1>4. cpc'[p] = "get" /\ \A q \in Procs \ {p} : cpc'[q] = cpc[q]
  BY DEF Pop, TypeOK
<1>5. \A k \in queue' : starts'[k] = 0 /\ \A q \in Procs : job'[q] # k
  BY <1>1, <1>2, <1>3 DEF OnceInv
<1>6. \A k \in Jobs : Ahead(k)' =>
        k \notin queue' /\ starts'[k] = 0 /\ \A q \in Procs : job'[q] # k
  BY <1>1, <1>2, <1>3 DEF OnceInv, Ahead
<1>7. \A q \in Procs : cpc'[q] = "get" => starts'[job'[q]] = 0
  BY <1>2, <1>3, <1>4 DEF OnceInv
<1>8. \A q, r \in Procs : job'[q] = job'[r] /\ job'[q] # NoJob => q = r
  BY <1>2, <1>3 DEF OnceInv
<1> QED BY <1>2, <1>5, <1>6, <1>7, <1>8 DEF OnceInv, SynthesisedOnce

\* A consumer that takes up its job does so for the first time and is past the
\* point where it could again.
LEMMA TakeUpOnce ==
  ASSUME TypeOK, OnceInv, NEW p \in Procs, GetFound(p), hash[job[p]].status = "queued"
  PROVE  OnceInv'
<1>1. PICK j \in Jobs : j = job[p] /\ j # NoJob
  BY HeldType, JobsAssumption DEF GetFound
<1>2. /\ starts[j] = 0 /\ starts' = [starts EXCEPT ![j] = 1]
      /\ job' = job /\ queue' = queue /\ rpc' = rpc
  <2>1. starts[j] = 0
    BY <1>1 DEF GetFound, OnceInv
  <2>2. starts' = [starts EXCEPT ![j] = starts[j] + 1]
    BY <1>1 DEF GetFound
  <2>3. starts[j] + 1 = 1
    BY <2>1
  <2>4. starts' = [starts EXCEPT ![j] = 1]
    BY <2>2, <2>3
  <2>5. job' = job /\ queue' = queue /\ rpc' = rpc
    BY DEF GetFound, requestVars, redisVars
  <2> QED BY <2>1, <2>4, <2>5
<1>3. ~Ahead(j) /\ j \notin queue
  BY <1>1 DEF OnceInv
<1>4. \A k \in Jobs : starts'[k] = IF k = j THEN 1 ELSE starts[k]
  BY <1>2 DEF TypeOK
<1>5. \A q \in Procs : cpc'[q] = "get" => q # p /\ cpc[q] = "get" /\ job[q] \in Jobs
  BY DEF GetFound, TypeOK
<1>6. \A q \in Procs : cpc'[q] = "get" => job[q] # j
  BY <1>1, <1>5 DEF OnceInv
<1>7. SynthesisedOnce'
  BY <1>4 DEF OnceInv, SynthesisedOnce
<1>8. \A k \in Jobs : Ahead(k)' =>
        k \notin queue' /\ starts'[k] = 0 /\ \A q \in Procs : job'[q] # k
  BY <1>2, <1>3, <1>4 DEF OnceInv, Ahead
<1>9. \A k \in queue' : starts'[k] = 0 /\ \A q \in Procs : job'[q] # k
  BY <1>2, <1>3, <1>4 DEF OnceInv, TypeOK
<1>10. \A q \in Procs : cpc'[q] = "get" => starts'[job'[q]] = 0
  BY <1>2, <1>4, <1>5, <1>6 DEF OnceInv
<1> QED BY <1>2, <1>7, <1>8, <1>9, <1>10 DEF OnceInv

\* The steps of a consumer keep every job to one place and one synthesis.
LEMMA ConsumerOnce ==
  ASSUME TypeOK, OnceInv, NEW p \in Procs, Consumer(p)
  PROVE  OnceInv'
<1>1. CASE Pop(p)
  BY <1>1, PopOnce
<1>2. CASE GetFound(p)
  <2>1. CASE hash[job[p]].status = "queued"
    BY <1>2, <2>1, TakeUpOnce
  <2>2. CASE hash[job[p]].status # "queued"
    <3>1. /\ queue' = queue /\ starts' = starts /\ rpc' = rpc /\ job' = job
          /\ \A q \in Procs : cpc'[q] = "get" => cpc[q] = "get"
      BY <1>2, <2>2 DEF GetFound, requestVars, redisVars, TypeOK
    <3> QED BY <3>1, OnceKept DEF Ahead
  <2> QED BY <2>1, <2>2
<1>3. CASE ~(Pop(p) \/ GetFound(p))
  <2>1. /\ queue' = queue /\ starts' = starts /\ rpc' = rpc
        /\ \A q \in Procs : job'[q] \in {job[q], NoJob}
    BY <1>3 DEF Consumer, GetMissing, UpdateCheck, StartSet, CompleteSet,
                FailSet, Progress, SynthesisEnds, Release, requestVars, redisVars, TypeOK
  <2>2. \A q \in Procs : cpc'[q] = "get" => cpc[q] = "get" /\ job'[q] = job[q]
    BY <1>3 DEF Consumer, GetMissing, UpdateCheck, StartSet, CompleteSet,
                FailSet, Progress, SynthesisEnds, Release, TypeOK
  <2> QED BY <2>1, <2>2, OnceKept DEF Ahead
<1> QED BY <1>1, <1>2, <1>3

\* A disturbance may lose a job and never copies one.
LEMMA DisturbanceOnce ==
  ASSUME TypeOK, OnceInv,
         \/ \E j \in Jobs : RequestError(j) \/ Expire(j)
         \/ \E p \in Procs : Crash(p) \/ Shutdown(p) \/ DequeueError(p) \/ ConsumerError(p)
         \/ \E w \in late : LateError(w)
         \/ RedisRestart
  PROVE  OnceInv'
<1> USE DEF requestVars, consumerVars, redisVars
<1>1. ASSUME NEW j \in Jobs, RequestError(j) PROVE OnceInv'
  <2>1. CASE rpc[j] = "zadd" /\ queue' = queue \cup {j}
    BY <1>1, <2>1, EnqueueOnce DEF RequestError
  <2>2. CASE queue' = queue
    <3>1. \A k \in Jobs : Ahead(k)' => Ahead(k)
      BY <1>1 DEF RequestError, Ahead, TypeOK
    <3> QED BY <1>1, <2>2, <3>1, OnceKept DEF RequestError
  <2> QED BY <1>1, <2>1, <2>2 DEF RequestError, TookEffect
<1>2. ASSUME NEW j \in Jobs, Expire(j) PROVE OnceInv'
  BY <1>2, OnceKept DEF Expire, Ahead
<1>3. ASSUME NEW p \in Procs, Crash(p) PROVE OnceInv'
  <2>1. \A k \in Jobs : Ahead(k)' => Ahead(k)
    BY <1>3 DEF Crash, Ahead, TypeOK
  <2> QED BY <1>3, <2>1, OnceKept DEF Crash, TypeOK
<1>4. ASSUME NEW p \in Procs, Shutdown(p) PROVE OnceInv'
  BY <1>4, OnceKept DEF Shutdown, Ahead, TypeOK
<1>5. ASSUME NEW p \in Procs, DequeueError(p) PROVE OnceInv'
  BY <1>5, OnceKept DEF DequeueError, Ahead
<1>6. ASSUME NEW p \in Procs, ConsumerError(p) PROVE OnceInv'
  <2>1. \A q \in Procs : job'[q] \in {job[q], NoJob}
    BY <1>6 DEF ConsumerError, TypeOK
  <2>2. \A q \in Procs : cpc'[q] = "get" => cpc[q] = "get" /\ job'[q] = job[q]
    BY <1>6 DEF ConsumerError, TypeOK
  <2> QED BY <1>6, <2>1, <2>2, OnceKept DEF ConsumerError, Ahead
<1>7. ASSUME NEW w \in late, LateError(w) PROVE OnceInv'
  BY <1>7, OnceKept DEF LateError, Ahead
<1>8. CASE RedisRestart
  BY <1>8, OnceKept DEF RedisRestart, Ahead
<1> QED BY <1>1, <1>2, <1>3, <1>4, <1>5, <1>6, <1>7, <1>8

\* Every step keeps every job to one place and one synthesis.
LEMMA NextOnce == TypeOK /\ OnceInv /\ [Next]_vars => OnceInv'
<1> SUFFICES ASSUME TypeOK, OnceInv, [Next]_vars PROVE OnceInv'
  OBVIOUS
<1>1. CASE UNCHANGED vars
  BY <1>1, OnceKept DEF vars, Ahead
<1>2. ASSUME NEW w \in late, LateUpdate(w) PROVE OnceInv'
  BY <1>2, OnceKept DEF LateUpdate, LateCheck, LateSet, Ahead, requestVars,
                        consumerVars, redisVars
<1>3. CASE Next
  BY <1>2, <1>3, RequestOnce, ConsumerOnce, DisturbanceOnce DEF Next
<1> QED BY <1>1, <1>3

\* job_runner.py, job_store.py: whatever crashes, shuts down, fails, expires or
\* is restarted, no job is taken up for synthesis twice.
THEOREM NoJobTwice == Spec => []SynthesisedOnce
<1>1. OnceInv => SynthesisedOnce BY DEF OnceInv
<1> QED BY <1>1, TypeHolds, InitOnce, NextOnce, PTL DEF Spec

----------------------------------------------------------------------------
(* The order in which jobs leave the queue *)

\* The requests that INCR may have answered.
Ticketed == {j \in Jobs : rpc[j] \in {"zadd", "accepted", "gone"}}

\* Tickets stay below the scale that separates two priorities.
TicketInv ==
  /\ seq <= Cardinality(Ticketed)
  /\ \A j \in Jobs : ticket[j] <= Cardinality(Jobs)

\* The numbered requests can be counted, and are not more than the requests.
LEMMA TicketedFinite ==
  /\ IsFiniteSet(Ticketed) /\ Cardinality(Ticketed) \in Nat
  /\ Cardinality(Ticketed) <= Cardinality(Jobs) /\ Cardinality(Jobs) \in Nat
<1>1. Ticketed \in SUBSET Jobs BY DEF Ticketed
<1> QED BY <1>1, JobsAssumption, FS_Subset, FS_CardinalityType

\* Initially no number has been given.
LEMMA InitTickets == Init => TicketInv
<1> SUFFICES ASSUME Init PROVE TicketInv
  OBVIOUS
<1>1. seq = 0 /\ \A j \in Jobs : ticket[j] = 0
  BY DEF Init
<1>2. 0 <= Cardinality(Ticketed) /\ 0 <= Cardinality(Jobs)
  BY TicketedFinite
<1> QED BY <1>1, <1>2 DEF TicketInv

\* A step that gives no number, and takes none away, keeps the bound.
LEMMA TicketsKept ==
  ASSUME TypeOK, TicketInv, ticket' = ticket, seq' \in {seq, 0}, Ticketed \subseteq Ticketed'
  PROVE  TicketInv'
<1>1. Ticketed' \subseteq Jobs BY DEF Ticketed
<1>2. IsFiniteSet(Ticketed') /\ Cardinality(Ticketed') \in Nat
  BY <1>1, JobsAssumption, FS_Subset, FS_CardinalityType
<1>3. Cardinality(Ticketed) <= Cardinality(Ticketed')
  BY <1>2, FS_Subset
<1> QED BY <1>2, <1>3, TicketedFinite DEF TicketInv, TypeOK

\* INCR, whether its answer arrives or not.
LEMMA IncrTickets ==
  ASSUME TypeOK, TicketInv, NEW j \in Jobs, rpc[j] = "incr", seq' = seq + 1,
         NEW next \in {"zadd", "gone"}, rpc' = [rpc EXCEPT ![j] = next],
         ticket' \in {ticket, [ticket EXCEPT ![j] = seq + 1]}
  PROVE  TicketInv'
<1>1. Ticketed' = Ticketed \cup {j} /\ j \notin Ticketed
  BY DEF Ticketed, TypeOK
<1>2. Cardinality(Ticketed') = Cardinality(Ticketed) + 1
  BY <1>1, TicketedFinite, FS_AddElement
<1>3. Ticketed' \subseteq Jobs
  BY DEF Ticketed
<1>4. Cardinality(Ticketed') <= Cardinality(Jobs)
  BY <1>3, JobsAssumption, FS_Subset
<1>5. seq + 1 <= Cardinality(Ticketed')
  BY <1>2, TicketedFinite DEF TicketInv, TypeOK
<1>6. seq + 1 <= Cardinality(Jobs)
  BY <1>2, <1>4, <1>5, TicketedFinite DEF TypeOK
<1>7. \A k \in Jobs : ticket'[k] <= Cardinality(Jobs)
  BY <1>6 DEF TicketInv, TypeOK
<1> QED BY <1>5, <1>7 DEF TicketInv

\* Every step keeps the numbers below the number of requests.
LEMMA NextTickets == TypeOK /\ TicketInv /\ [Next]_vars => TicketInv'
<1> SUFFICES ASSUME TypeOK, TicketInv, [Next]_vars PROVE TicketInv'
  OBVIOUS
<1> USE DEF requestVars, consumerVars, redisVars
<1>1. ASSUME NEW j \in Jobs, Request(j) PROVE TicketInv'
  <2>1. CASE TakeTicket(j)
    BY <2>1, IncrTickets DEF TakeTicket
  <2>2. CASE ~TakeTicket(j)
    <3>1. ticket' = ticket /\ seq' = seq
      BY <1>1, <2>2 DEF Request, Arrive, CountMembers, CountStatuses, CountPrune,
                        Validate, Create, AddActive, Enqueue
    <3>2. Ticketed \subseteq Ticketed'
      BY <1>1, <2>2 DEF Request, Arrive, CountMembers, CountStatuses, CountPrune, Decide,
                        Validate, Create, AddActive, Enqueue, Ticketed, TypeOK
    <3> QED BY <3>1, <3>2, TicketsKept
  <2> QED BY <2>1, <2>2
<1>2. ASSUME NEW j \in Jobs, RequestError(j) PROVE TicketInv'
  <2>1. CASE rpc[j] = "incr" /\ seq' = seq + 1 /\ ticket' = ticket
    BY <1>2, <2>1, IncrTickets DEF RequestError
  <2>2. CASE seq' = seq /\ ticket' = ticket
    <3>1. Ticketed \subseteq Ticketed'
      BY <1>2 DEF RequestError, Ticketed, TypeOK
    <3> QED BY <2>2, <3>1, TicketsKept
  <2> QED BY <1>2, <2>1, <2>2 DEF RequestError, TookEffect
<1>3. ASSUME NEW p \in Procs, Crash(p) PROVE TicketInv'
  <2>1. Ticketed \subseteq Ticketed'
    BY <1>3 DEF Crash, Ticketed, TypeOK
  <2> QED BY <1>3, <2>1, TicketsKept DEF Crash
<1>4. CASE RedisRestart
  BY <1>4, TicketsKept DEF RedisRestart, Ticketed
<1>5. ASSUME ticket' = ticket, seq' = seq, rpc' = rpc PROVE TicketInv'
  BY <1>5, TicketsKept DEF Ticketed
<1>6. ASSUME NEW p \in Procs, Consumer(p) \/ Shutdown(p) \/ DequeueError(p) \/ ConsumerError(p)
      PROVE  TicketInv'
  BY <1>5, <1>6 DEF Consumer, Pop, GetMissing, GetFound, UpdateCheck,
                    StartSet, CompleteSet, FailSet, Progress, SynthesisEnds, Release,
                    Shutdown, DequeueError, ConsumerError
<1>7. ASSUME NEW w \in late, LateUpdate(w) \/ LateError(w) PROVE TicketInv'
  BY <1>5, <1>7 DEF LateUpdate, LateCheck, LateSet, LateError
<1>8. ASSUME NEW j \in Jobs, Expire(j) PROVE TicketInv'
  BY <1>5, <1>8 DEF Expire
<1>9. CASE UNCHANGED vars
  BY <1>5, <1>9 DEF vars
<1> QED BY <1>1, <1>2, <1>3, <1>4, <1>6, <1>7, <1>8, <1>9 DEF Next

\* A multiple of the scale outweighs every ticket.
LEMMA ScaleSeparates ==
  ASSUME NEW a \in Nat, NEW b \in Nat, NEW s \in Nat, a < b
  PROVE  a * s + s <= b * s
<1>1. PICK d \in Nat : b = a + 1 + d
  <2>1. b - a - 1 \in Nat /\ b = a + 1 + (b - a - 1) OBVIOUS
  <2> QED BY <2>1
<1>2. b * s = a * s + s + d * s
  BY <1>1
<1>3. d * s \in Nat /\ a * s \in Nat
  OBVIOUS
<1> QED BY <1>2, <1>3

\* The element BZPOPMAX takes is first by priority, then by ticket.
LEMMA TopOrder ==
  ASSUME TypeOK, TicketInv, NEW j \in queue, IsTop(j), NEW k \in queue
  PROVE  \/ Priority[k] < Priority[j]
         \/ Priority[k] = Priority[j] /\ ticket[j] <= ticket[k]
<1>1. /\ Priority[j] \in Nat /\ Priority[k] \in Nat /\ ScoreScale \in Nat
      /\ ticket[j] \in Nat /\ ticket[k] \in Nat /\ ticket[k] < ScoreScale
  BY PriorityAssumption, ScaleAssumption, TicketedFinite DEF TypeOK, TicketInv
<1>2. Priority[k] * ScoreScale - ticket[k] <= Priority[j] * ScoreScale - ticket[j]
  BY DEF IsTop, Score
<1>3. Priority[k] * ScoreScale \in Nat /\ Priority[j] * ScoreScale \in Nat
  BY <1>1
<1>4. CASE Priority[j] < Priority[k]
  <2>1. Priority[j] * ScoreScale + ScoreScale <= Priority[k] * ScoreScale
    BY <1>1, <1>4, ScaleSeparates
  <2> QED BY <1>1, <1>2, <1>3, <2>1
<1>5. CASE Priority[j] = Priority[k]
  BY <1>1, <1>2, <1>3, <1>5
<1> QED BY <1>1, <1>4, <1>5

\* job_store.py enqueue and dequeue: jobs leave the queue by priority, and in the
\* order of their tickets within a priority.
THEOREM QueueOrder == Spec => PriorityThenFifo
<1>1. TypeOK /\ TicketInv /\ [Next]_vars =>
        [\A j \in queue \ queue' : \A k \in queue' :
           \/ Priority[k] < Priority[j]
           \/ Priority[k] = Priority[j] /\ ticket[j] <= ticket[k]]_queue
  <2> SUFFICES ASSUME TypeOK, TicketInv, [Next]_vars,
                      NEW j \in queue \ queue', NEW k \in queue'
               PROVE  \/ Priority[k] < Priority[j]
                      \/ Priority[k] = Priority[j] /\ ticket[j] <= ticket[k]
    OBVIOUS
  <2>1. CASE \E m \in queue : IsTop(m) /\ queue' = queue \ {m}
    BY <2>1, TopOrder
  <2>2. CASE queue' = {}
    BY <2>2
  <2>3. CASE queue \subseteq queue'
    BY <2>3
  <2>4. \/ \E m \in queue : IsTop(m) /\ queue' = queue \ {m}
        \/ queue' = {}
        \/ queue \subseteq queue'
    <3> USE DEF requestVars, consumerVars, redisVars
    <3>1. ASSUME NEW i \in Jobs, Request(i) \/ RequestError(i) \/ Expire(i)
          PROVE  queue \subseteq queue'
      BY <3>1 DEF Request, Arrive, CountMembers, CountStatuses, CountPrune, Validate,
                  Create, AddActive, TakeTicket, Enqueue, RequestError, TookEffect, Expire
    <3>2. ASSUME NEW p \in Procs, Pop(p) \/ DequeueError(p)
          PROVE  \/ \E m \in queue : IsTop(m) /\ queue' = queue \ {m}
                 \/ queue \subseteq queue'
      BY <3>2 DEF Pop, DequeueError
    <3>3. ASSUME NEW p \in Procs, Consumer(p) \/ Crash(p) \/ Shutdown(p) \/ ConsumerError(p),
                 ~Pop(p)
          PROVE  queue \subseteq queue'
      BY <3>3 DEF Consumer, GetMissing, GetFound, UpdateCheck, StartSet,
                  CompleteSet, FailSet, Progress, SynthesisEnds, Release, Crash,
                  Shutdown, ConsumerError
    <3>4. ASSUME NEW w \in late, LateUpdate(w) \/ LateError(w) PROVE queue \subseteq queue'
      BY <3>4 DEF LateUpdate, LateCheck, LateSet, LateError
    <3>5. CASE RedisRestart
      BY <3>5 DEF RedisRestart
    <3>6. CASE UNCHANGED vars
      BY <3>6 DEF vars
    <3> QED BY <3>1, <3>2, <3>3, <3>4, <3>5, <3>6 DEF Next
  <2> QED BY <2>1, <2>2, <2>3, <2>4
<1> QED BY <1>1, TypeHolds, InitTickets, NextTickets, PTL DEF Spec, PriorityThenFifo
=============================================================================
