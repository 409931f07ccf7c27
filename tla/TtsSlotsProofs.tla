--------------------------- MODULE TtsSlotsProofs ---------------------------
(***************************************************************************)
(* Proofs about the hashes of the asynchronous TTS jobs and the slots of   *)
(* their pools, for any number of requests, processes and disturbances.    *)
(* That every busy consumer holds a job of its own is TtsJobsProofs's      *)
(* OnceInv.                                                                *)
(***************************************************************************)
EXTENDS TtsJobsProofs

Working == {"start", "startset", "synth", "complete", "completeset"}
Failing == {"fail", "failset"}

----------------------------------------------------------------------------
(* What one step does to the hashes *)

\* Id and status stay as they are.
Kept(j) == hash'[j].id = hash[j].id /\ hash'[j].status = hash[j].status

CreatedBy(j) == rpc[j] = "create" /\ hash' = [hash EXCEPT ![j] = FreshHash]
\* An HSET by a consumer, whether its answer arrives or not.
WrittenBy(p) ==
  \/ /\ cpc[p] = "startset" /\ cpc'[p] \in {"synth", "release"}
     /\ hash' = StartFields(job[p])
  \/ /\ cpc[p] = "completeset" /\ (cpc'[p] = "release" \/ (cpc'[p] = "fail" /\ faults' > 0))
     /\ hash' = CompleteFields(job[p])
  \/ /\ cpc[p] = "failset" /\ cpc'[p] = "release"
     /\ hash' = FailFields(job[p])

\* A step that writes no hash.
LEMMA SameHash ==
  ASSUME hash' = hash
  PROVE  \A j \in Jobs : Kept(j)
  BY DEF Kept

\* Every step keeps ids and statuses, or drops hashes, or is Create, or an HSET of
\* a consumer.
LEMMA HashMoves ==
  ASSUME TypeOK, [Next]_vars
  PROVE  \/ \A j \in Jobs : Kept(j) \/ hash'[j] = NoHash
         \/ \E j \in Jobs : CreatedBy(j)
         \/ \E p \in Procs : WrittenBy(p) /\ job'[p] \in {job[p], NoJob}
<1> DEFINE Goal == \/ \A j \in Jobs : Kept(j) \/ hash'[j] = NoHash
                   \/ \E j \in Jobs : CreatedBy(j)
                   \/ \E p \in Procs : WrittenBy(p) /\ job'[p] \in {job[p], NoJob}
<1> USE DEF requestVars, consumerVars, redisVars
<1>0. CASE hash' = hash
  BY <1>0, SameHash
<1>1. ASSUME NEW j \in Jobs, Request(j) \/ RequestError(j) PROVE Goal
  <2>1. hash' = hash \/ CreatedBy(j)
    BY <1>1 DEF Request, Arrive, CountMembers, CountStatuses, CountPrune, Validate, Create,
                AddActive, TakeTicket, Enqueue, RequestError, TookEffect, CreatedBy
  <2> QED BY <1>0, <2>1
<1>2. ASSUME NEW j \in Jobs, Expire(j) PROVE Goal
  <2>1. \A k \in Jobs : hash'[k] = IF k = j THEN NoHash ELSE hash[k]
    BY <1>2 DEF Expire, TypeOK
  <2> QED BY <2>1 DEF Kept
<1>3. ASSUME NEW p \in Procs, Consumer(p) \/ ConsumerError(p) PROVE Goal
  <2>1. ASSUME Consumer(p) PROVE hash' = hash \/ (WrittenBy(p) /\ job' = job)
    <3>1. CASE StartSet(p)
      BY <3>1 DEF StartSet, WrittenBy, TypeOK
    <3>2. CASE CompleteSet(p)
      <4>1. /\ cpc[p] = "completeset" /\ cpc'[p] = "release"
            /\ hash' = CompleteFields(job[p]) /\ job' = job
        BY <3>2 DEF CompleteSet, TypeOK
      <4> QED BY <4>1 DEF WrittenBy
    <3>3. CASE FailSet(p)
      BY <3>3 DEF FailSet, WrittenBy, TypeOK
    <3>4. ASSUME ~(StartSet(p) \/ CompleteSet(p) \/ FailSet(p)) PROVE hash' = hash
      BY <2>1, <3>4 DEF Consumer, Pop, GetMissing, GetFound, UpdateCheck, Progress,
                        SynthesisEnds, Release
    <3> QED BY <3>1, <3>2, <3>3, <3>4
  <2>2. ASSUME ConsumerError(p) PROVE hash' = hash \/ (WrittenBy(p) /\ job' = job)
    <3>1. faults' > 0
      BY <2>2, FaultAssumption DEF ConsumerError, Fault, TypeOK
    <3>2. CASE cpc[p] = "startset"
      BY <2>2, <3>2 DEF ConsumerError, WrittenBy, TypeOK
    <3>3. CASE cpc[p] = "completeset"
      BY <2>2, <3>1, <3>3 DEF ConsumerError, WrittenBy, TypeOK
    <3>4. CASE cpc[p] = "failset"
      BY <2>2, <3>4 DEF ConsumerError, WrittenBy, TypeOK
    <3>5. ASSUME cpc[p] \notin {"startset", "completeset", "failset"} PROVE hash' = hash
      BY <2>2, <3>5 DEF ConsumerError
    <3> QED BY <3>2, <3>3, <3>4, <3>5
  <2> QED BY <1>0, <1>3, <2>1, <2>2
<1>4. ASSUME NEW p \in Procs, Crash(p) \/ Shutdown(p) \/ DequeueError(p) PROVE Goal
  BY <1>0, <1>4 DEF Crash, Shutdown, DequeueError
<1>5. ASSUME NEW w \in late, LateUpdate(w) \/ LateError(w) PROVE Goal
  <2>1. CASE hash' = LateFields(w)
    <3>1. \A k \in Jobs : Kept(k)
      BY <2>1 DEF LateFields, Kept, TypeOK, Hash
    <3> QED BY <3>1
  <2>2. hash' = hash \/ hash' = LateFields(w)
    BY <1>5 DEF LateUpdate, LateCheck, LateSet, LateError
  <2> QED BY <1>0, <2>1, <2>2
<1>6. CASE RedisRestart
  BY <1>6 DEF RedisRestart
<1>7. CASE UNCHANGED vars
  BY <1>0, <1>7 DEF vars
<1> QED BY <1>1, <1>2, <1>3, <1>4, <1>5, <1>6, <1>7 DEF Next

\* The fields of a hash that was just written.
LEMMA WrittenFields ==
  ASSUME TypeOK, NEW j \in Jobs
  PROVE  /\ \A k \in Jobs \ {j} : /\ StartFields(j)[k] = hash[k]
                                  /\ CompleteFields(j)[k] = hash[k]
                                  /\ FailFields(j)[k] = hash[k]
         /\ StartFields(j)[j].id = hash[j].id /\ StartFields(j)[j].status = "processing"
         /\ CompleteFields(j)[j].id = hash[j].id /\ CompleteFields(j)[j].status = "completed"
         /\ FailFields(j)[j].id = hash[j].id /\ FailFields(j)[j].status = "failed"
<1>1. hash[j] \in Hash
  BY DEF TypeOK
<1> QED BY <1>1 DEF TypeOK, Hash, StartFields, CompleteFields, FailFields

----------------------------------------------------------------------------
(* What one step does to requests, consumers and the number of disturbances *)

\* A request only goes on.
LEMMA AheadBefore ==
  ASSUME TypeOK, [Next]_vars
  PROVE  \A j \in Jobs : Ahead(j)' => Ahead(j)
<1> USE DEF requestVars, consumerVars, redisVars
<1>1. ASSUME rpc' = rpc PROVE \A j \in Jobs : Ahead(j)' => Ahead(j)
  BY <1>1 DEF Ahead
<1>2. ASSUME NEW k \in Jobs, Request(k) \/ RequestError(k) \/ Expire(k)
      PROVE  \A j \in Jobs : Ahead(j)' => Ahead(j)
  BY <1>2 DEF Ahead, Request, Arrive, CountMembers, CountStatuses, CountPrune, Validate, Create,
              AddActive, TakeTicket, Enqueue, Decide, RequestError, Expire, TypeOK
<1>3. ASSUME NEW p \in Procs, Crash(p) PROVE \A j \in Jobs : Ahead(j)' => Ahead(j)
  BY <1>3 DEF Ahead, Crash, TypeOK
<1>4. ASSUME NEW p \in Procs,
             Consumer(p) \/ Shutdown(p) \/ DequeueError(p) \/ ConsumerError(p)
      PROVE  rpc' = rpc
  BY <1>4 DEF Consumer, Pop, GetMissing, GetFound, UpdateCheck, StartSet, CompleteSet, FailSet,
              Progress, SynthesisEnds, Release, Shutdown, DequeueError, ConsumerError
<1>5. ASSUME NEW w \in late, LateUpdate(w) \/ LateError(w) PROVE rpc' = rpc
  BY <1>5 DEF LateUpdate, LateCheck, LateSet, LateError
<1>6. RedisRestart \/ UNCHANGED vars => rpc' = rpc
  BY DEF RedisRestart, vars
<1> QED BY <1>1, <1>2, <1>3, <1>4, <1>5, <1>6 DEF Next

\* Where a consumer comes from that works on its job or reports its failure.
CameFrom(q) ==
  /\ job'[q] = job[q]
  /\ \/ cpc[q] \in Working
     \/ cpc[q] \in Failing /\ cpc'[q] \in Failing
     \/ cpc[q] = "get" /\ hash[job[q]].status = "queued" /\ hash' = hash /\ cpc'[q] = "start"

LEMMA ConsumerCame ==
  ASSUME TypeOK, [Next]_vars, NEW q \in Procs, cpc'[q] \in Working \cup Failing
  PROVE  CameFrom(q)
<1> USE DEF requestVars, consumerVars, redisVars, Working, Failing
<1>1. CASE cpc' = cpc /\ job' = job
  BY <1>1 DEF CameFrom
<1>2. ASSUME NEW p \in Procs, Consumer(p) PROVE CameFrom(q)
  BY <1>2 DEF CameFrom, Consumer, Pop, GetMissing, GetFound, UpdateCheck, StartSet, CompleteSet,
              FailSet, Progress, SynthesisEnds, Release, TypeOK
<1>3. ASSUME NEW p \in Procs, Crash(p) \/ Shutdown(p) PROVE CameFrom(q)
  BY <1>3 DEF CameFrom, Crash, Shutdown, TypeOK
<1>4. ASSUME NEW p \in Procs, ConsumerError(p) PROVE CameFrom(q)
  BY <1>4 DEF CameFrom, ConsumerError, TypeOK
<1>5. ASSUME NEW p \in Procs, DequeueError(p) PROVE cpc' = cpc /\ job' = job
  BY <1>5 DEF DequeueError
<1>6. ASSUME NEW j \in Jobs, Request(j) \/ RequestError(j) \/ Expire(j)
      PROVE  cpc' = cpc /\ job' = job
  BY <1>6 DEF Request, Arrive, CountMembers, CountStatuses, CountPrune, Validate, Create,
              AddActive, TakeTicket, Enqueue, RequestError, Expire
<1>7. ASSUME NEW w \in late, LateUpdate(w) \/ LateError(w) PROVE cpc' = cpc /\ job' = job
  BY <1>7 DEF LateUpdate, LateCheck, LateSet, LateError
<1>8. RedisRestart \/ UNCHANGED vars => cpc' = cpc /\ job' = job
  BY DEF RedisRestart, vars
<1> QED BY <1>1, <1>2, <1>3, <1>4, <1>5, <1>6, <1>7, <1>8 DEF Next

\* Steps without a disturbance are those of requests, consumers and progress writes.
LEMMA Undisturbed ==
  ASSUME TypeOK, [Next]_vars
  PROVE  /\ faults' \in Nat /\ faults \in Nat /\ faults' >= faults
         /\ faults' = 0 => \/ \E j \in Jobs : Request(j)
                           \/ \E p \in Procs : Consumer(p)
                           \/ \E w \in late : LateUpdate(w)
                           \/ UNCHANGED vars
<1> USE DEF requestVars, consumerVars, redisVars
<1>0. faults \in Nat
  BY FaultAssumption DEF TypeOK
<1>1. ASSUME NEW j \in Jobs, Request(j) PROVE faults' = faults
  BY <1>1 DEF Request, Arrive, CountMembers, CountStatuses, CountPrune, Validate, Create,
              AddActive, TakeTicket, Enqueue
<1>2. ASSUME NEW p \in Procs, Consumer(p) PROVE faults' = faults
  BY <1>2 DEF Consumer, Pop, GetMissing, GetFound, UpdateCheck, StartSet, CompleteSet, FailSet,
              Progress, SynthesisEnds, Release
<1>3. ASSUME NEW w \in late, LateUpdate(w) PROVE faults' = faults
  BY <1>3 DEF LateUpdate, LateCheck, LateSet
<1>4. ASSUME \/ \E j \in Jobs : RequestError(j) \/ Expire(j)
             \/ \E p \in Procs : Crash(p) \/ Shutdown(p) \/ DequeueError(p) \/ ConsumerError(p)
             \/ \E w \in late : LateError(w)
             \/ RedisRestart
      PROVE  faults' = faults + 1
  BY <1>4 DEF Fault, RequestError, Expire, Crash, Shutdown, DequeueError, ConsumerError,
              LateError, RedisRestart
<1>5. UNCHANGED vars => faults' = faults
  BY DEF vars
<1> QED BY <1>0, <1>1, <1>2, <1>3, <1>4, <1>5 DEF Next

----------------------------------------------------------------------------
(* A terminal status is final *)

\* Before the handler has enqueued its job, and while a consumer works on it, its
\* status is not terminal; a consumer that reports a failure over `completed` does
\* so after a failed Redis call; a hash with an id has a status.
FinalInv ==
  /\ \A j \in Jobs : Ahead(j) => hash[j].status \notin Terminal
  /\ \A p \in Procs : cpc[p] \in Working => hash[job[p]].status \notin Terminal
  /\ \A p \in Procs : cpc[p] \in Failing /\ hash[job[p]].status = "completed" => faults > 0
  /\ \A j \in Jobs : hash[j].id => hash[j].status # "none"

\* Initially there are no hashes.
LEMMA InitFinal == Init => FinalInv
  BY DEF Init, FinalInv, NoHash, Terminal, Working, Failing

\* The statuses of a step that keeps them or drops hashes.
LEMMA KeptFinal ==
  ASSUME TypeOK, FinalInv, [Next]_vars, \A j \in Jobs : Kept(j) \/ hash'[j] = NoHash
  PROVE  FinalInv'
<1>1. \A j \in Jobs : hash'[j].status \in {hash[j].status, "none"}
  BY DEF Kept, NoHash
<1>2. \A j \in Jobs : hash'[j].id => hash[j].id /\ hash'[j].status = hash[j].status
  BY DEF Kept, NoHash
<1>3. \A j \in Jobs : Ahead(j)' => hash'[j].status \notin Terminal
  BY <1>1, AheadBefore DEF FinalInv, Terminal
<1>4. ASSUME NEW p \in Procs, cpc'[p] \in Working PROVE hash'[job'[p]].status \notin Terminal
  <2>1. CameFrom(p) /\ cpc'[p] \notin Failing
    BY <1>4, ConsumerCame DEF Working, Failing
  <2>2. job[p] \in Jobs /\ job'[p] = job[p]
    BY <2>1, HeldType DEF CameFrom, Working, Failing
  <2> QED BY <1>1, <2>1, <2>2 DEF CameFrom, FinalInv, Terminal
<1>5. ASSUME NEW p \in Procs, cpc'[p] \in Failing, hash'[job'[p]].status = "completed"
      PROVE  faults' > 0
  <2>1. CameFrom(p) /\ cpc'[p] # "start"
    BY <1>5, ConsumerCame DEF Failing
  <2>2. job[p] \in Jobs /\ job'[p] = job[p]
    BY <2>1, HeldType DEF CameFrom, Working, Failing
  <2>3. hash[job[p]].status = "completed"
    BY <1>1, <1>5, <2>2
  <2> QED BY <2>1, <2>3, Undisturbed DEF CameFrom, FinalInv, Terminal
<1> QED BY <1>2, <1>3, <1>4, <1>5 DEF FinalInv

\* Create makes a hash for a job that no consumer holds.
LEMMA CreatedFinal ==
  ASSUME TypeOK, OnceInv, FinalInv, [Next]_vars, NEW j \in Jobs, CreatedBy(j)
  PROVE  FinalInv'
<1>1. /\ hash'[j].id /\ hash'[j].status = "queued"
      /\ \A k \in Jobs \ {j} : hash'[k] = hash[k]
  BY DEF CreatedBy, FreshHash, TypeOK
<1>2. \A p \in Procs : job[p] # j
  BY DEF CreatedBy, OnceInv, Ahead
<1>3. \A p \in Procs : cpc'[p] \in Working \cup Failing =>
        CameFrom(p) /\ job[p] \in Jobs \ {j}
  BY <1>2, ConsumerCame, HeldType DEF CameFrom, Working, Failing
<1>4. \A k \in Jobs : Ahead(k)' => hash'[k].status \notin Terminal
  BY <1>1, AheadBefore DEF FinalInv, Terminal
<1>5. \A p \in Procs : cpc'[p] \in Working => hash'[job'[p]].status \notin Terminal
  BY <1>1, <1>3 DEF FinalInv, CameFrom, Terminal, Working, Failing
<1>6. \A p \in Procs :
        cpc'[p] \in Failing /\ hash'[job'[p]].status = "completed" => faults' > 0
  BY <1>1, <1>3, Undisturbed DEF FinalInv, CameFrom, Terminal, Failing
<1> QED BY <1>1, <1>4, <1>5, <1>6 DEF FinalInv

\* A consumer writes the hash of its own job.
LEMMA WrittenFinal ==
  ASSUME TypeOK, OnceInv, FinalInv, [Next]_vars, NEW p \in Procs, WrittenBy(p)
  PROVE  FinalInv'
<1>1. PICK j \in Jobs : j = job[p] /\ j # NoJob
  BY HeldType, JobsAssumption DEF WrittenBy
<1>2. /\ \A k \in Jobs \ {j} : hash'[k] = hash[k]
      /\ hash'[j].status # "none"
  BY <1>1, WrittenFields DEF WrittenBy
<1>3. ~Ahead(j)
  BY <1>1 DEF OnceInv
<1>4. \A k \in Jobs : Ahead(k)' => hash'[k].status \notin Terminal
  BY <1>2, <1>3, AheadBefore DEF FinalInv
<1>5. ASSUME NEW q \in Procs, q # p, cpc'[q] \in Working \cup Failing
      PROVE  CameFrom(q) /\ job[q] \in Jobs \ {j}
  BY <1>1, <1>5, ConsumerCame, HeldType DEF OnceInv, CameFrom, Working, Failing
<1>6. ASSUME NEW q \in Procs, cpc'[q] \in Working PROVE hash'[job'[q]].status \notin Terminal
  <2>1. CASE q # p
    BY <1>2, <1>5, <1>6, <2>1 DEF FinalInv, CameFrom, Terminal, Working, Failing
  <2>2. CASE q = p
    <3>1. cpc[p] = "startset" /\ hash' = StartFields(j) /\ job'[p] = j
      BY <1>1, <1>6, <2>2, ConsumerCame DEF WrittenBy, Working, CameFrom
    <3> QED BY <2>2, <3>1, WrittenFields DEF Terminal
  <2> QED BY <2>1, <2>2
<1>7. ASSUME NEW q \in Procs, cpc'[q] \in Failing, hash'[job'[q]].status = "completed"
      PROVE  faults' > 0
  <2>1. CASE q # p
    BY <1>2, <1>5, <1>7, <2>1, Undisturbed DEF FinalInv, CameFrom, Terminal, Failing
  <2>2. CASE q = p
    BY <1>7, <2>2 DEF WrittenBy, Failing
  <2> QED BY <2>1, <2>2
<1>8. \A k \in Jobs : hash'[k].id => hash'[k].status # "none"
  BY <1>2 DEF FinalInv
<1> QED BY <1>4, <1>6, <1>7, <1>8 DEF FinalInv

\* Every step keeps the statuses in order.
LEMMA NextFinal == TypeOK /\ OnceInv /\ FinalInv /\ [Next]_vars => FinalInv'
  BY HashMoves, KeptFinal, CreatedFinal, WrittenFinal

\* Every job has one place, and its status is final when it is terminal.
Both == TypeOK /\ OnceInv /\ FinalInv

LEMMA BothHold == Spec => []Both
<1>1. Init => Both
  BY InitType, InitOnce, InitFinal DEF Both
<1>2. Both /\ [Next]_vars => Both'
  BY NextType, NextOnce, NextFinal DEF Both
<1> QED BY <1>1, <1>2, PTL DEF Spec

\* job_store.py update and job_runner.py _run_job: a terminal status is replaced by
\* another only after a failed Redis call, and then `completed` by `failed`.
THEOREM TerminalStays == Spec => TerminalIsFinal
<1> DEFINE Final ==
      \A j \in Jobs :
        hash[j].status \in Terminal =>
          \/ hash'[j].status \in {hash[j].status, "none"}
          \/ hash[j].status = "completed" /\ hash'[j].status = "failed" /\ faults > 0
<1>1. Both /\ [Next]_vars => [Final]_hash
  <2> SUFFICES ASSUME Both, [Next]_vars, NEW j \in Jobs, hash[j].status \in Terminal
               PROVE  \/ hash'[j].status \in {hash[j].status, "none"}
                      \/ hash[j].status = "completed" /\ hash'[j].status = "failed" /\ faults > 0
    OBVIOUS
  <2> USE DEF Both
  <2>1. CASE Kept(j) \/ hash'[j] = NoHash
    BY <2>1 DEF Kept, NoHash
  <2>2. ASSUME NEW k \in Jobs, CreatedBy(k) PROVE Kept(j)
    BY <2>2 DEF CreatedBy, FinalInv, Ahead, TypeOK, Kept
  <2>3. ASSUME NEW p \in Procs, WrittenBy(p), job[p] # j PROVE Kept(j)
    BY <2>3, HeldType, WrittenFields DEF WrittenBy, Kept
  <2>4. ASSUME NEW p \in Procs, WrittenBy(p), job[p] = j
        PROVE  /\ cpc[p] = "failset" /\ hash'[j].status = "failed"
               /\ hash[j].status \in {"completed", "failed"}
               /\ hash[j].status = "completed" => faults > 0
    BY <2>4, HeldType, WrittenFields DEF WrittenBy, FinalInv, Working, Failing, Terminal
  <2> QED BY <2>1, <2>2, <2>3, <2>4, HashMoves
<1> QED BY <1>1, BothHold, PTL DEF Spec, TerminalIsFinal

----------------------------------------------------------------------------
(* A job that is alive and on its way has its slot *)

Alive(j) == hash[j].id /\ hash[j].status \in Pending
OnItsWay(j) ==
  \/ rpc[j] \in {"incr", "zadd"}
  \/ j \in queue
  \/ \E p \in Procs : Holds(p, j) /\ cpc[p] # "release"
\* create has run, and will not run again for the job.
Made(j) == rpc[j] \in {"incr", "zadd", "accepted", "gone"}

\* What count_active has read may be old, but a job that it found over stays over.
CoverInv ==
  /\ \A j \in Jobs : Tier[j] # "none" /\ Alive(j) /\ OnItsWay(j) => j \in active
  /\ \A j \in active : Made(j)
  /\ \A i, j \in Jobs : j \in members[i] => Made(j)
  /\ \A i, j \in Jobs : j \in finished[i] => Made(j) /\ ~Alive(j)

\* Initially no slot is taken and nothing is on its way.
LEMMA InitCover == Init => CoverInv
<1> SUFFICES ASSUME Init PROVE CoverInv
  OBVIOUS
<1>1. \A j \in Jobs : ~Alive(j)
  BY DEF Init, Alive, NoHash
<1> QED BY <1>1 DEF Init, CoverInv

\* Only Create brings a job to life.
LEMMA AliveBefore ==
  ASSUME TypeOK, FinalInv, [Next]_vars, NEW j \in Jobs, Alive(j)'
  PROVE  Alive(j) \/ CreatedBy(j)
<1>1. CASE \A k \in Jobs : Kept(k) \/ hash'[k] = NoHash
  BY <1>1 DEF Kept, NoHash, Alive
<1>2. ASSUME NEW k \in Jobs, CreatedBy(k), k # j PROVE Alive(j)
  <2>1. hash'[j] = hash[j]
    BY <1>2 DEF CreatedBy, TypeOK
  <2> QED BY <2>1 DEF Alive
<1>3. ASSUME NEW p \in Procs, WrittenBy(p) PROVE Alive(j)
  <2>1. job[p] \in Jobs
    BY <1>3, HeldType DEF WrittenBy
  <2>2. CASE job[p] # j
    <3>1. hash'[j] = hash[j]
      BY <1>3, <2>1, <2>2, WrittenFields DEF WrittenBy
    <3> QED BY <3>1 DEF Alive
  <2>3. CASE job[p] = j
    <3>1. hash'[j].status \in Pending /\ hash'[j].id
      BY DEF Alive
    <3>2. cpc[p] = "startset" /\ hash'[j].id = hash[j].id
      <4>1. CompleteFields(j)[j].status \notin Pending /\ FailFields(j)[j].status \notin Pending
        BY WrittenFields DEF Pending
      <4>2. cpc[p] = "startset" /\ hash' = StartFields(j)
        BY <1>3, <2>3, <3>1, <4>1 DEF WrittenBy
      <4> QED BY <4>2, WrittenFields
    <3>3. hash[j].status \notin Terminal /\ hash[j].status # "none"
      BY <2>3, <3>1, <3>2 DEF FinalInv, Working
    <3> QED BY <3>1, <3>2, <3>3 DEF Alive, TypeOK, Hash
  <2> QED BY <2>2, <2>3
<1> QED BY <1>1, <1>2, <1>3, HashMoves

\* What a step does to the requests.
LEMMA RequestMoves ==
  ASSUME TypeOK, [Next]_vars, NEW j \in Jobs
  PROVE  /\ Made(j) => Made(j)'
         /\ rpc'[j] \in {"incr", "zadd"} =>
              \/ rpc[j] \in {"incr", "zadd"}
              \/ rpc[j] = "create" /\ Tier[j] = "none"
              \/ rpc[j] = "add" /\ j \in active'
         /\ j \in active' => j \in active \/ (rpc[j] = "add" /\ Made(j)')
         /\ \A i \in Jobs : j \in members'[i] => j \in members[i] \/ j \in active
         /\ \A i \in Jobs : j \in finished'[i] =>
              \/ j \in finished[i]
              \/ j \in members[i] /\ ~Alive(j) /\ hash' = hash
<1> DEFINE Goal ==
     /\ Made(j) => Made(j)'
     /\ rpc'[j] \in {"incr", "zadd"} =>
          \/ rpc[j] \in {"incr", "zadd"}
          \/ rpc[j] = "create" /\ Tier[j] = "none"
          \/ rpc[j] = "add" /\ j \in active'
     /\ j \in active' => j \in active \/ (rpc[j] = "add" /\ Made(j)')
     /\ \A i \in Jobs : j \in members'[i] => j \in members[i] \/ j \in active
     /\ \A i \in Jobs : j \in finished'[i] =>
          \/ j \in finished[i]
          \/ j \in members[i] /\ ~Alive(j) /\ hash' = hash
<1> USE DEF requestVars, consumerVars, redisVars
<1>1. ASSUME rpc' = rpc, members' = members, finished' = finished, active' \subseteq active
      PROVE  Goal
  BY <1>1 DEF Made
<1>2. ASSUME NEW k \in Jobs, Request(k) PROVE Goal
  <2>1. CASE CountMembers(k)
    BY <2>1 DEF CountMembers, Decide, Made, TypeOK
  <2>2. CASE CountStatuses(k)
    BY <2>2 DEF CountStatuses, Decide, Made, Over, Alive, TypeOK
  <2>3. CASE CountPrune(k)
    BY <2>3 DEF CountPrune, Decide, Made, TypeOK
  <2>4. CASE Arrive(k) \/ Validate(k) \/ Create(k) \/ AddActive(k) \/ TakeTicket(k) \/ Enqueue(k)
    BY <2>4 DEF Arrive, Validate, Create, AddActive, TakeTicket, Enqueue, Made, TypeOK
  <2> QED BY <1>2, <2>1, <2>2, <2>3, <2>4 DEF Request
<1>3. ASSUME NEW k \in Jobs, RequestError(k) PROVE Goal
  BY <1>3 DEF RequestError, TookEffect, Made, TypeOK
<1>4. ASSUME NEW k \in Jobs, Expire(k) PROVE Goal
  BY <1>1, <1>4 DEF Expire
<1>5. ASSUME NEW p \in Procs, Crash(p) PROVE Goal
  BY <1>5 DEF Crash, Made, TypeOK
<1>6. ASSUME NEW p \in Procs, Consumer(p) \/ Shutdown(p) \/ DequeueError(p) \/ ConsumerError(p)
      PROVE  Goal
  BY <1>1, <1>6 DEF Consumer, Pop, GetMissing, GetFound, UpdateCheck, StartSet, CompleteSet,
              FailSet, Progress, SynthesisEnds, Release, FreedSlots, Shutdown, DequeueError,
              ConsumerError
<1>7. ASSUME NEW w \in late, LateUpdate(w) \/ LateError(w) PROVE Goal
  BY <1>1, <1>7 DEF LateUpdate, LateCheck, LateSet, LateError
<1>8. CASE RedisRestart
  BY <1>1, <1>8 DEF RedisRestart
<1>9. CASE UNCHANGED vars
  BY <1>1, <1>9 DEF vars
<1> QED BY <1>2, <1>3, <1>4, <1>5, <1>6, <1>7, <1>8, <1>9 DEF Next

\* A job gets into the queue through ZADD and to a consumer through the queue.
LEMMA WayBefore ==
  ASSUME TypeOK, [Next]_vars, NEW j \in Jobs,
         j \in queue' \/ \E p \in Procs : job'[p] = j /\ cpc'[p] # "release"
  PROVE  OnItsWay(j)
<1> USE DEF requestVars, consumerVars, redisVars
<1>1. ASSUME queue' \subseteq queue,
             \A p \in Procs : job'[p] = j /\ cpc'[p] # "release" => job[p] = j /\ cpc[p] # "release"
      PROVE  OnItsWay(j)
  BY <1>1 DEF OnItsWay, Holds
<1>2. ASSUME NEW k \in Jobs, Request(k) \/ RequestError(k) \/ Expire(k) PROVE OnItsWay(j)
  BY <1>2 DEF OnItsWay, Holds, Request, Arrive, CountMembers, CountStatuses, CountPrune, Validate,
              Create, AddActive, TakeTicket, Enqueue, RequestError, TookEffect, Expire
<1>3. ASSUME NEW q \in Procs, Pop(q) PROVE OnItsWay(j)
  BY <1>3 DEF OnItsWay, Holds, Pop, TypeOK
<1>4. ASSUME NEW q \in Procs, Consumer(q), ~Pop(q) PROVE OnItsWay(j)
  <2>1. queue' = queue
    BY <1>4 DEF Consumer, GetMissing, GetFound, UpdateCheck, StartSet, CompleteSet, FailSet,
                Progress, SynthesisEnds, Release
  <2>2. \A p \in Procs :
          job'[p] = j /\ cpc'[p] # "release" => job[p] = j /\ cpc[p] # "release"
    BY <1>4, JobsAssumption DEF Consumer, GetMissing, GetFound, UpdateCheck, StartSet,
                CompleteSet, FailSet, Progress, SynthesisEnds, Release, TypeOK
  <2> QED BY <1>1, <2>1, <2>2
<1>5. ASSUME NEW q \in Procs, Crash(q) \/ Shutdown(q) PROVE OnItsWay(j)
  <2>1. \A p \in Procs :
          job'[p] = j /\ cpc'[p] # "release" => job[p] = j /\ cpc[p] # "release"
    BY <1>5, JobsAssumption DEF Crash, Shutdown, TypeOK
  <2> QED BY <1>1, <1>5, <2>1 DEF Crash, Shutdown
<1>6. ASSUME NEW q \in Procs, ConsumerError(q) PROVE OnItsWay(j)
  <2>1. \A p \in Procs :
          job'[p] = j /\ cpc'[p] # "release" => job[p] = j /\ cpc[p] # "release"
    BY <1>6, JobsAssumption DEF ConsumerError, TypeOK
  <2> QED BY <1>1, <1>6, <2>1 DEF ConsumerError
<1>7. ASSUME NEW q \in Procs, DequeueError(q) PROVE OnItsWay(j)
  BY <1>1, <1>7 DEF DequeueError
<1>8. ASSUME NEW w \in late, LateUpdate(w) \/ LateError(w) PROVE OnItsWay(j)
  BY <1>1, <1>8 DEF LateUpdate, LateCheck, LateSet, LateError
<1>9. CASE RedisRestart
  BY <1>1, <1>9 DEF RedisRestart
<1>10. CASE UNCHANGED vars
  BY <1>1, <1>10 DEF vars
<1> QED BY <1>2, <1>3, <1>4, <1>5, <1>6, <1>7, <1>8, <1>9, <1>10 DEF Next

\* A slot is given back when its job is over, leaves its consumer, or Redis is new.
LEMMA SlotKept ==
  ASSUME TypeOK, OnceInv, [Next]_vars, NEW j \in Jobs, j \in active, j \notin active'
  PROVE  \/ hash'[j] = NoHash
         \/ hash' = hash /\ \E i \in Jobs : j \in finished[i]
         \/ /\ j \notin queue' /\ rpc' = rpc /\ \A p \in Procs : job'[p] # j
            /\ \E p \in Procs : job[p] = j
<1> DEFINE Goal ==
     \/ hash'[j] = NoHash
     \/ hash' = hash /\ \E i \in Jobs : j \in finished[i]
     \/ /\ j \notin queue' /\ rpc' = rpc /\ \A p \in Procs : job'[p] # j
        /\ \E p \in Procs : job[p] = j
<1> USE DEF requestVars, consumerVars, redisVars
<1>1. ASSUME NEW k \in Jobs, Request(k) \/ RequestError(k) \/ Expire(k) PROVE Goal
  BY <1>1 DEF Request, Arrive, CountMembers, CountStatuses, CountPrune, Validate, Create,
              AddActive, TakeTicket, Enqueue, RequestError, TookEffect, Expire
<1>2. ASSUME NEW p \in Procs, active' = active \ {job[p]}, job' = [job EXCEPT ![p] = NoJob],
             queue' = queue, rpc' = rpc
      PROVE  Goal
  <2>1. job[p] = j /\ j # NoJob /\ j \notin queue
    BY <1>2, JobsAssumption DEF OnceInv
  <2>2. \A q \in Procs : job'[q] # j
    BY <1>2, <2>1 DEF OnceInv, TypeOK
  <2> QED BY <1>2, <2>1, <2>2
<1>3. ASSUME NEW p \in Procs, Consumer(p) PROVE Goal
  <2>1. Release(p)
    BY <1>3 DEF Consumer, Pop, GetMissing, GetFound, UpdateCheck, StartSet, CompleteSet, FailSet,
                Progress, SynthesisEnds
  <2> QED BY <1>2, <2>1 DEF Release, FreedSlots
<1>4. ASSUME NEW p \in Procs, Shutdown(p) PROVE Goal
  BY <1>2, <1>4 DEF Shutdown, FreedSlots
<1>5. ASSUME NEW p \in Procs, ConsumerError(p) PROVE Goal
  BY <1>2, <1>5 DEF ConsumerError, FreedSlots
<1>6. ASSUME NEW p \in Procs, Crash(p) \/ DequeueError(p) PROVE FALSE
  BY <1>6 DEF Crash, DequeueError
<1>7. ASSUME NEW w \in late, LateUpdate(w) \/ LateError(w) PROVE FALSE
  BY <1>7 DEF LateUpdate, LateCheck, LateSet, LateError
<1>8. CASE RedisRestart
  BY <1>8 DEF RedisRestart
<1>9. UNCHANGED vars => FALSE
  BY DEF vars
<1> QED BY <1>1, <1>3, <1>4, <1>5, <1>6, <1>7, <1>8, <1>9 DEF Next

\* Every step leaves the slots of living jobs taken.
LEMMA NextCover == Both /\ CoverInv /\ [Next]_vars => CoverInv'
<1> SUFFICES ASSUME Both, CoverInv, [Next]_vars PROVE CoverInv'
  OBVIOUS
<1> USE DEF Both
<1>1. \A j \in Jobs : Alive(j)' /\ Made(j) => Alive(j)
  BY AliveBefore DEF CreatedBy, Made
<1>2. ASSUME NEW j \in Jobs, Tier[j] # "none", Alive(j)', OnItsWay(j)' PROVE j \in active'
  <2>1. CASE OnItsWay(j)
    <3>1. rpc[j] # "create"
      BY <2>1 DEF OnItsWay, OnceInv, Ahead, Holds
    <3>2. j \in active
      BY <1>2, <2>1, <3>1, AliveBefore DEF CreatedBy, CoverInv
    <3>3. hash'[j] # NoHash
      BY <1>2 DEF Alive, NoHash
    <3>4. ASSUME NEW i \in Jobs, j \in finished[i], hash' = hash PROVE FALSE
      BY <1>2, <3>4 DEF CoverInv, Alive
    <3>5. ASSUME j \notin queue', rpc' = rpc, \A p \in Procs : job'[p] # j,
                 NEW q \in Procs, job[q] = j
          PROVE  FALSE
      BY <1>2, <3>5 DEF OnItsWay, Holds, OnceInv, Ahead
    <3> QED BY <3>2, <3>3, <3>4, <3>5, SlotKept
  <2>2. CASE ~OnItsWay(j)
    <3>1. rpc'[j] \in {"incr", "zadd"}
      BY <1>2, <2>2, WayBefore DEF OnItsWay, Holds
    <3> QED BY <1>2, <2>2, <3>1, RequestMoves DEF OnItsWay
  <2> QED BY <2>1, <2>2
<1>3. \A j \in Jobs : j \in active' => Made(j)'
  BY RequestMoves DEF CoverInv
<1>4. \A i, j \in Jobs : j \in members'[i] => Made(j)'
  BY RequestMoves DEF CoverInv
<1>5. ASSUME NEW i \in Jobs, NEW j \in Jobs, j \in finished'[i] PROVE Made(j)' /\ ~Alive(j)'
  BY <1>1, <1>5, RequestMoves DEF CoverInv, Alive
<1>6. active' \subseteq Jobs
  BY NextType DEF TypeOK
<1> QED BY <1>2, <1>3, <1>4, <1>5, <1>6 DEF CoverInv

\* app/main.py create_job, job_store.py count_active: a tiered job that can still be
\* synthesised counts against its pool, whatever else happens.
THEOREM LivingJobsCount == Spec => []SlotCoversWork
<1>1. CoverInv => SlotCoversWork
  BY DEF CoverInv, SlotCoversWork, Alive, OnItsWay
<1> QED BY <1>1, BothHold, InitCover, NextCover, PTL DEF Spec

----------------------------------------------------------------------------
(* Undisturbed, no slot outlives its job *)

\* A consumer at BZPOPMAX, or at an end, has no job to forget.
EmptyHands == \A p \in Procs : cpc[p] \in {"idle", "dead"} => job[p] = NoJob

\* Every member of an active set is on its way to the consumer that releases it,
\* which finds its hash: GetMissing would drop the job and keep the slot.
LeakInv ==
  faults = 0 =>
    /\ \A j \in active : LiveWork(j)
    /\ \A j \in Jobs : rpc[j] = "add" \/ LiveWork(j) => hash[j].id

\* Initially no consumer has a job.
LEMMA InitHands == Init => EmptyHands
  BY DEF Init, EmptyHands

\* Initially no slot is taken.
LEMMA InitLeak == Init => LeakInv
  BY JobsAssumption DEF Init, LeakInv, LiveWork, Holds

\* Undisturbed, no hash loses its id.
LEMMA IdStays ==
  ASSUME TypeOK, [Next]_vars, faults' = 0, NEW j \in Jobs, hash[j].id
  PROVE  hash'[j].id
<1> USE DEF requestVars, consumerVars, redisVars
<1>1. ASSUME NEW k \in Jobs, Request(k) PROVE hash'[j].id
  BY <1>1 DEF Request, Arrive, CountMembers, CountStatuses, CountPrune, Validate, Create,
              AddActive, TakeTicket, Enqueue, FreshHash, TypeOK
<1>2. ASSUME NEW p \in Procs, Consumer(p) PROVE hash'[j].id
  <2>1. CASE StartSet(p) \/ CompleteSet(p) \/ FailSet(p)
    <3>1. job[p] \in Jobs
      BY <2>1, HeldType DEF StartSet, CompleteSet, FailSet
    <3> QED BY <2>1, <3>1, WrittenFields DEF StartSet, CompleteSet, FailSet
  <2>2. CASE ~(StartSet(p) \/ CompleteSet(p) \/ FailSet(p))
    <3>1. hash' = hash
      BY <1>2, <2>2 DEF Consumer, Pop, GetMissing, GetFound, UpdateCheck, Progress,
                        SynthesisEnds, Release
    <3> QED BY <3>1
  <2> QED BY <2>1, <2>2
<1>3. ASSUME NEW w \in late, LateUpdate(w) PROVE hash'[j].id
  <2>1. CASE hash' = LateFields(w)
    BY <2>1 DEF LateFields, TypeOK, Hash
  <2>2. hash' = hash \/ hash' = LateFields(w)
    BY <1>3 DEF LateUpdate, LateCheck, LateSet
  <2> QED BY <2>1, <2>2
<1>4. UNCHANGED vars => hash' = hash
  BY DEF vars
<1> QED BY <1>1, <1>2, <1>3, <1>4, Undisturbed

\* A consumer lets its job go before it waits for the next, or ends.
LEMMA NextHands == TypeOK /\ EmptyHands /\ [Next]_vars => EmptyHands'
<1> SUFFICES ASSUME TypeOK, EmptyHands, [Next]_vars,
                    NEW q \in Procs, cpc'[q] \in {"idle", "dead"}
             PROVE  job'[q] = NoJob
  BY DEF EmptyHands
<1> USE DEF requestVars, consumerVars, redisVars
<1>1. cpc[q] \in {"idle", "dead"} => job[q] = NoJob
  BY DEF EmptyHands
<1>2. ASSUME NEW p \in Procs, Consumer(p) PROVE job'[q] = NoJob
  BY <1>1, <1>2 DEF Consumer, Pop, GetMissing, GetFound, UpdateCheck, StartSet, CompleteSet,
              FailSet, Progress, SynthesisEnds, Release, TypeOK
<1>3. ASSUME cpc' = cpc, job' = job PROVE job'[q] = NoJob
  BY <1>1, <1>3
<1>4. ASSUME NEW j \in Jobs, Request(j) \/ RequestError(j) \/ Expire(j)
      PROVE  cpc' = cpc /\ job' = job
  BY <1>4 DEF Request, Arrive, CountMembers, CountStatuses, CountPrune, Validate, Create,
              AddActive, TakeTicket, Enqueue, RequestError, Expire
<1>5. ASSUME NEW w \in late, LateUpdate(w) \/ LateError(w) PROVE cpc' = cpc /\ job' = job
  BY <1>5 DEF LateUpdate, LateCheck, LateSet, LateError
<1>6. ASSUME NEW p \in Procs, Crash(p) \/ Shutdown(p) PROVE job'[q] = NoJob
  BY <1>1, <1>6 DEF Crash, Shutdown, TypeOK
<1>7. ASSUME NEW p \in Procs, ConsumerError(p) PROVE job'[q] = NoJob
  BY <1>1, <1>7 DEF ConsumerError, TypeOK
<1>8. ASSUME NEW p \in Procs, DequeueError(p) PROVE cpc' = cpc /\ job' = job
  BY <1>8 DEF DequeueError
<1>9. RedisRestart \/ UNCHANGED vars => cpc' = cpc /\ job' = job
  BY DEF RedisRestart, vars
<1> QED BY <1>2, <1>3, <1>4, <1>5, <1>6, <1>7, <1>8, <1>9 DEF Next

\* Undisturbed, a job goes from its handler to the queue, to a consumer, and is gone
\* when that has released it.
LEMMA WayForward ==
  ASSUME TypeOK, OnceInv, EmptyHands, LeakInv, [Next]_vars, faults' = 0, NEW j \in Jobs
  PROVE  /\ rpc'[j] = "add" \/ LiveWork(j)' =>
              rpc[j] = "add" \/ LiveWork(j) \/ (rpc[j] = "create" /\ hash'[j].id)
         /\ LiveWork(j) => LiveWork(j)' \/ j \notin active'
         /\ j \in active' => j \in active \/ LiveWork(j)'
<1> DEFINE Goal ==
     /\ rpc'[j] = "add" \/ LiveWork(j)' =>
          rpc[j] = "add" \/ LiveWork(j) \/ (rpc[j] = "create" /\ hash'[j].id)
     /\ LiveWork(j) => LiveWork(j)' \/ j \notin active'
     /\ j \in active' => j \in active \/ LiveWork(j)'
<1> USE DEF requestVars, consumerVars, redisVars
<1>0. faults = 0
  BY Undisturbed
<1>1. ASSUME UNCHANGED <<rpc, queue, active, job>> PROVE Goal
  BY <1>1 DEF LiveWork, Holds
<1>2. ASSUME NEW k \in Jobs, Request(k) PROVE Goal
  <2>1. job' = job
    BY <1>2 DEF Request, Arrive, CountMembers, CountStatuses, CountPrune, Validate, Create,
                AddActive, TakeTicket, Enqueue
  <2>2. CASE Create(k)
    BY <2>1, <2>2 DEF Create, FreshHash, LiveWork, Holds, TypeOK
  <2>3. CASE ~Create(k)
    BY <1>2, <2>1, <2>3 DEF Request, Arrive, CountMembers, CountStatuses, CountPrune, Validate,
                AddActive, TakeTicket, Enqueue, Decide, LiveWork, Holds, TypeOK
  <2> QED BY <2>2, <2>3
<1>3. ASSUME NEW p \in Procs, Consumer(p) PROVE Goal
  <2>1. rpc' = rpc
    BY <1>3 DEF Consumer, Pop, GetMissing, GetFound, UpdateCheck, StartSet, CompleteSet, FailSet,
                Progress, SynthesisEnds, Release
  <2>2. CASE Pop(p)
    <3>1. PICK k \in queue : queue' = queue \ {k} /\ job' = [job EXCEPT ![p] = k]
      BY <2>2 DEF Pop
    <3>2. job[p] = NoJob
      BY <2>2 DEF Pop, EmptyHands
    <3>3. job'[p] = k /\ \A q \in Procs \ {p} : job'[q] = job[q]
      BY <3>1 DEF TypeOK
    <3>4. active' = active
      BY <2>2 DEF Pop
    <3>5. k \in Jobs /\ NoJob \notin Jobs
      BY JobsAssumption DEF TypeOK
    <3>6. LiveWork(j)' <=> LiveWork(j)
      BY <2>1, <3>1, <3>2, <3>3, <3>5 DEF LiveWork, Holds
    <3> QED BY <2>1, <3>4, <3>6
  <2>3. CASE GetMissing(p)
    <3>1. job[p] \in Jobs /\ LiveWork(job[p])
      BY <2>3, HeldType DEF GetMissing, LiveWork, Holds
    <3> QED BY <1>0, <2>3, <3>1 DEF GetMissing, LeakInv
  <2>4. CASE Release(p)
    <3>1. active' = active \ {job[p]} /\ job' = [job EXCEPT ![p] = NoJob] /\ queue' = queue
      BY <2>4 DEF Release, FreedSlots
    <3> QED BY <2>1, <3>1, JobsAssumption DEF LiveWork, Holds, TypeOK
  <2>5. CASE ~(Pop(p) \/ GetMissing(p) \/ Release(p))
    BY <1>1, <1>3, <2>5 DEF Consumer, GetFound, UpdateCheck, StartSet, CompleteSet, FailSet,
                Progress, SynthesisEnds
  <2> QED BY <2>2, <2>3, <2>4, <2>5
<1>4. ASSUME NEW w \in late, LateUpdate(w) PROVE Goal
  BY <1>1, <1>4 DEF LateUpdate, LateCheck, LateSet
<1>5. CASE UNCHANGED vars
  BY <1>1, <1>5 DEF vars
<1> QED BY <1>2, <1>3, <1>4, <1>5, Undisturbed

\* Every step leaves the slots with their jobs.
LEMMA NextLeak == TypeOK /\ OnceInv /\ EmptyHands /\ LeakInv /\ [Next]_vars => LeakInv'
<1> SUFFICES ASSUME TypeOK, OnceInv, EmptyHands, LeakInv, [Next]_vars, faults' = 0
             PROVE  /\ \A j \in active' : LiveWork(j)'
                    /\ \A j \in Jobs : rpc'[j] = "add" \/ LiveWork(j)' => hash'[j].id
  BY DEF LeakInv
<1>1. faults = 0 /\ active' \subseteq Jobs
  BY Undisturbed, NextType DEF TypeOK
<1>2. \A j \in active' : LiveWork(j)'
  BY <1>1, WayForward DEF LeakInv
<1>3. \A j \in Jobs : rpc'[j] = "add" \/ LiveWork(j)' => hash'[j].id
  BY <1>1, WayForward, IdStays DEF LeakInv
<1> QED BY <1>2, <1>3

\* Every slot has its job, which is found by the consumer that takes it.
Slots == Both /\ EmptyHands /\ LeakInv

LEMMA SlotsHold == Spec => []Slots
<1>1. Init => EmptyHands /\ LeakInv
  BY InitHands, InitLeak
<1>2. Slots /\ [Next]_vars => (EmptyHands /\ LeakInv)'
  BY NextHands, NextLeak DEF Slots, Both
<1> QED BY <1>1, <1>2, BothHold, PTL DEF Spec, Slots

\* job_runner.py _run_job, job_store.py release: without disturbance a slot is given
\* back by the consumer that holds its job, and by nothing later.
THEOREM SlotsComeBack == Spec => []NoSlotLeak
<1>1. Slots => NoSlotLeak
  BY DEF Slots, LeakInv, NoSlotLeak
<1> QED BY <1>1, SlotsHold, PTL

----------------------------------------------------------------------------
(* The store and the consumers are the abstract queue *)

\* A job that no consumer has taken up.
Untouched(j) ==
  \/ rpc[j] \in {"add", "incr", "zadd"}
  \/ j \in queue
  \/ \E p \in Procs : Holds(p, j) /\ cpc[p] = "get"
Busy == ConsumerPoints \ {"idle", "get", "dead"}

\* Undisturbed, the last number is the highest, a job that comes to a consumer is
\* still queued, and a consumer past that point has taken it up.
PromiseInv ==
  faults = 0 =>
    /\ \A j \in Jobs : ticket[j] <= seq
    /\ \A j \in Jobs : Untouched(j) => hash[j].status = "queued"
    /\ \A p \in Procs : cpc[p] \in Busy => starts[job[p]] = 1

LEMMA InitPromise == Init => PromiseInv
  BY JobsAssumption DEF Init, PromiseInv, Untouched, Holds, Busy

\* Undisturbed, INCR is the only step that counts.
LEMMA LastTicket ==
  ASSUME TypeOK, PromiseInv, [Next]_vars, faults' = 0, NEW j \in Jobs
  PROVE  ticket'[j] <= seq'
<1> USE DEF requestVars, consumerVars, redisVars
<1>1. ticket[j] \in Nat /\ seq \in Nat /\ ticket[j] <= seq
  BY Undisturbed DEF TypeOK, PromiseInv
<1>2. ASSUME NEW k \in Jobs, TakeTicket(k) PROVE ticket'[j] <= seq'
  BY <1>1, <1>2 DEF TakeTicket, TypeOK
<1>3. ASSUME NEW k \in Jobs, Request(k), ~TakeTicket(k) PROVE ticket' = ticket /\ seq' = seq
  BY <1>3 DEF Request, Arrive, CountMembers, CountStatuses, CountPrune, Validate, Create,
              AddActive, Enqueue
<1>4. ASSUME NEW p \in Procs, Consumer(p) PROVE ticket' = ticket /\ seq' = seq
  BY <1>4 DEF Consumer, Pop, GetMissing, GetFound, UpdateCheck, StartSet, CompleteSet,
              FailSet, Progress, SynthesisEnds, Release
<1>5. ASSUME NEW w \in late, LateUpdate(w) PROVE ticket' = ticket /\ seq' = seq
  BY <1>5 DEF LateUpdate, LateCheck, LateSet
<1>6. UNCHANGED vars => ticket' = ticket /\ seq' = seq
  BY DEF vars
<1> QED BY <1>1, <1>2, <1>3, <1>4, <1>5, <1>6, Undisturbed

\* Undisturbed, a job is untouched after a step only if it was before, or was created.
LEMMA UntouchedBefore ==
  ASSUME TypeOK, [Next]_vars, faults' = 0, NEW j \in Jobs, Untouched(j)'
  PROVE  Untouched(j) \/ (rpc[j] = "create" /\ hash'[j].status = "queued")
<1> DEFINE Goal == Untouched(j) \/ (rpc[j] = "create" /\ hash'[j].status = "queued")
<1> USE DEF requestVars, consumerVars, redisVars
<1>1. ASSUME UNCHANGED <<rpc, queue, cpc, job>> PROVE Goal
  BY <1>1 DEF Untouched, Holds
<1>2. ASSUME NEW k \in Jobs, Request(k) PROVE Goal
  <2>1. cpc' = cpc /\ job' = job
    BY <1>2 DEF Request, Arrive, CountMembers, CountStatuses, CountPrune, Validate, Create,
                AddActive, TakeTicket, Enqueue
  <2>2. CASE Create(k)
    BY <2>1, <2>2 DEF Create, FreshHash, Untouched, Holds, TypeOK
  <2>3. CASE ~Create(k)
    BY <1>2, <2>1, <2>3 DEF Request, Arrive, CountMembers, CountStatuses, CountPrune, Validate,
                AddActive, TakeTicket, Enqueue, Decide, Untouched, Holds, TypeOK
  <2> QED BY <2>2, <2>3
<1>3. ASSUME NEW p \in Procs, Consumer(p) PROVE Goal
  <2>1. CASE Pop(p)
    BY <2>1 DEF Pop, Untouched, Holds, TypeOK
  <2>2. CASE ~Pop(p)
    <3>1. /\ rpc' = rpc /\ queue' = queue
          /\ \A q \in Procs : cpc'[q] = "get" => cpc[q] = "get" /\ job'[q] = job[q]
      BY <1>3, <2>2 DEF Consumer, GetMissing, GetFound, UpdateCheck, StartSet, CompleteSet,
                        FailSet, Progress, SynthesisEnds, Release, TypeOK
    <3> QED BY <3>1 DEF Untouched, Holds
  <2> QED BY <2>1, <2>2
<1>4. ASSUME NEW w \in late, LateUpdate(w) PROVE Goal
  BY <1>1, <1>4 DEF LateUpdate, LateCheck, LateSet
<1>5. CASE UNCHANGED vars
  BY <1>1, <1>5 DEF vars
<1> QED BY <1>2, <1>3, <1>4, <1>5, Undisturbed

\* Undisturbed, nobody writes the status of an untouched job.
LEMMA UntouchedQueued ==
  ASSUME Slots, PromiseInv, [Next]_vars, faults' = 0, NEW j \in Jobs, Untouched(j)'
  PROVE  hash'[j].status = "queued"
<1> USE DEF Slots, Both
<1>1. CASE rpc[j] = "create" /\ hash'[j].status = "queued"
  BY <1>1
<1>2. CASE Untouched(j)
  <2>1. hash[j].id /\ hash[j].status = "queued" /\ hash'[j].id
    BY <1>2, Undisturbed, IdStays DEF PromiseInv, LeakInv, LiveWork, Untouched
  <2>2. CASE Kept(j) \/ hash'[j] = NoHash
    BY <2>1, <2>2 DEF Kept, NoHash
  <2>3. ASSUME NEW k \in Jobs, CreatedBy(k) PROVE hash'[j].status = "queued"
    BY <2>1, <2>3 DEF CreatedBy, FreshHash, TypeOK
  <2>4. ASSUME NEW p \in Procs, WrittenBy(p) PROVE hash'[j].status = "queued"
    <3>1. job[p] \in Jobs /\ job[p] # NoJob /\ cpc[p] # "get"
      BY <2>4, HeldType, JobsAssumption DEF WrittenBy
    <3>2. job[p] # j
      BY <1>2, <3>1 DEF Untouched, Holds, OnceInv, Ahead
    <3> QED BY <2>1, <2>4, <3>1, <3>2, WrittenFields DEF WrittenBy
  <2> QED BY <2>2, <2>3, <2>4, HashMoves
<1> QED BY <1>1, <1>2, UntouchedBefore

\* Undisturbed, a consumer goes on with its job only after it has taken it up.
LEMMA BusyTookUp ==
  ASSUME Slots, PromiseInv, [Next]_vars, faults' = 0, NEW q \in Procs, cpc'[q] \in Busy
  PROVE  starts'[job'[q]] = 1
<1> USE DEF requestVars, consumerVars, redisVars, Slots, Both
<1>1. cpc[q] \in Busy => starts[job[q]] = 1
  BY Undisturbed DEF PromiseInv
<1>2. ASSUME UNCHANGED <<cpc, job, starts>> PROVE starts'[job'[q]] = 1
  BY <1>1, <1>2
<1>3. ASSUME NEW k \in Jobs, Request(k) PROVE UNCHANGED <<cpc, job, starts>>
  BY <1>3 DEF Request, Arrive, CountMembers, CountStatuses, CountPrune, Validate, Create,
              AddActive, TakeTicket, Enqueue
<1>4. ASSUME NEW w \in late, LateUpdate(w) PROVE UNCHANGED <<cpc, job, starts>>
  BY <1>4 DEF LateUpdate, LateCheck, LateSet
<1>5. ASSUME NEW p \in Procs, GetFound(p) PROVE starts'[job'[q]] = 1
  <2>1. /\ job[p] \in Jobs /\ job[p] # NoJob /\ Untouched(job[p]) /\ job' = job
        /\ starts[job[p]] = 0
    BY <1>5, HeldType, JobsAssumption DEF GetFound, Untouched, Holds, OnceInv
  <2>2. hash[job[p]].status = "queued"
    BY <2>1, Undisturbed DEF PromiseInv
  <2>3. \A k \in Jobs : starts'[k] = IF k = job[p] THEN starts[k] + 1 ELSE starts[k]
    BY <1>5, <2>1, <2>2 DEF GetFound, TypeOK
  <2>4. CASE q = p
    BY <2>1, <2>3, <2>4
  <2>5. CASE q # p
    <3>1. cpc[q] \in Busy
      BY <1>5, <2>5 DEF GetFound, TypeOK
    <3>2. job[q] \in Jobs /\ job[q] # job[p]
      BY <2>1, <2>5, <3>1, HeldType DEF Busy, OnceInv
    <3> QED BY <1>1, <2>1, <2>3, <3>1, <3>2
  <2> QED BY <2>4, <2>5
<1>6. ASSUME NEW p \in Procs, Consumer(p), ~GetFound(p) PROVE starts'[job'[q]] = 1
  <2>1. starts' = starts /\ cpc[q] \in Busy /\ job'[q] = job[q]
    BY <1>6 DEF Consumer, Pop, GetMissing, UpdateCheck, StartSet, CompleteSet, FailSet,
                Progress, SynthesisEnds, Release, Busy, TypeOK
  <2> QED BY <1>1, <2>1
<1>7. CASE UNCHANGED vars
  BY <1>2, <1>7 DEF vars
<1> QED BY <1>2, <1>3, <1>4, <1>5, <1>6, <1>7, Undisturbed

\* Every step keeps the promise's state in order.
LEMMA NextPromise == Slots /\ PromiseInv /\ [Next]_vars => PromiseInv'
  BY LastTicket, UntouchedQueued, BusyTookUp DEF PromiseInv, Slots, Both

\* The steps of a request: a number is given, or a job handed in, or neither.
LEMMA RequestPromise ==
  ASSUME Slots, PromiseInv, NEW j \in Jobs, Request(j)
  PROVE  Promise!Next \/ UNCHANGED Promise!vars
<1> USE DEF requestVars, consumerVars, redisVars, Slots, Both
<1>1. CASE TakeTicket(j)
  <2>1. Fresh' = Fresh /\ j \in Fresh /\ UNCHANGED <<queue, job, starts, faults>>
    BY <1>1 DEF TakeTicket, Fresh, TypeOK
  <2>2. ticket'[j] = seq + 1 /\ ticket' = [ticket EXCEPT ![j] = ticket'[j]]
    BY <1>1 DEF TakeTicket, TypeOK
  <2>3. faults = 0 => \A k \in Jobs : ticket[k] < ticket'[j]
    BY <2>2 DEF PromiseInv, TypeOK
  <2>4. Promise!Number(j)
    BY <2>1, <2>2, <2>3 DEF Promise!Number
  <2> QED BY <2>4 DEF Promise!Next
<1>2. CASE Enqueue(j)
  <2>1. Fresh' = Fresh \ {j} /\ j \in Fresh /\ queue' = queue \cup {j}
        /\ UNCHANGED <<ticket, job, starts, faults>>
    BY <1>2 DEF Enqueue, Fresh, TypeOK
  <2>2. Promise!HandIn(j)
    BY <2>1 DEF Promise!HandIn
  <2> QED BY <2>2 DEF Promise!Next
<1>3. CASE ~(TakeTicket(j) \/ Enqueue(j))
  <2>1. UNCHANGED <<ticket, queue, job, starts, faults>>
    BY <1>3 DEF Request, Arrive, CountMembers, CountStatuses, CountPrune, Validate, Create,
                AddActive
  <2>2. \A k \in Jobs : rpc'[k] \in {"accepted", "gone"} <=> rpc[k] \in {"accepted", "gone"}
    BY <1>3 DEF Request, Arrive, CountMembers, CountStatuses, CountPrune, Decide, Validate,
                Create, AddActive, TypeOK
  <2>3. Fresh' = Fresh
    BY <2>2 DEF Fresh
  <2> QED BY <2>1, <2>3 DEF Promise!vars
<1> QED BY <1>1, <1>2, <1>3

\* The steps of a consumer: the first job is taken, worked on or put down, or nothing
\* that the queue's users see happens.
LEMMA ConsumerPromise ==
  ASSUME Slots, TicketInv, PromiseInv, NEW p \in Procs, Consumer(p)
  PROVE  Promise!Next \/ UNCHANGED Promise!vars
<1> USE DEF requestVars, consumerVars, redisVars, Slots, Both
<1>0. Fresh' = Fresh /\ UNCHANGED <<ticket, faults>>
  BY DEF Consumer, Pop, GetMissing, GetFound, UpdateCheck, StartSet, CompleteSet, FailSet,
         Progress, SynthesisEnds, Release, Fresh
<1>1. CASE Pop(p)
  <2>1. PICK j \in queue : IsTop(j) /\ queue' = queue \ {j} /\ job' = [job EXCEPT ![p] = j]
    BY <1>1 DEF Pop
  <2>2. job[p] = NoJob /\ starts' = starts
    BY <1>1 DEF Pop, EmptyHands
  <2>3. Promise!First(j)
    BY <2>1, TopOrder DEF Promise!First
  <2>4. Promise!Take(p)
    BY <1>0, <2>1, <2>2, <2>3 DEF Promise!Take
  <2> QED BY <2>4 DEF Promise!Next
<1>2. CASE GetMissing(p) \/ Release(p)
  <2>1. /\ cpc[p] \notin {"idle", "dead"} /\ job' = [job EXCEPT ![p] = NoJob]
        /\ UNCHANGED <<queue, starts>>
    BY <1>2 DEF GetMissing, Release
  <2>2. job[p] \in Jobs /\ job[p] # NoJob
    BY <2>1, HeldType, JobsAssumption
  <2>3. ASSUME faults = 0 PROVE starts[job[p]] = 1
    <3>1. hash[job[p]].id
      BY <2>2, <2>3 DEF LeakInv, LiveWork, Holds
    <3>2. cpc[p] \in Busy
      BY <1>2, <3>1 DEF GetMissing, Release, Busy, ConsumerPoints
    <3> QED BY <2>3, <3>2 DEF PromiseInv
  <2>4. Promise!PutDown(p)
    BY <1>0, <2>1, <2>2, <2>3 DEF Promise!PutDown
  <2> QED BY <2>4 DEF Promise!Next
<1>3. CASE GetFound(p) /\ hash[job[p]].status = "queued"
  <2>1. /\ job[p] \in Jobs /\ job[p] # NoJob /\ starts[job[p]] = 0
        /\ UNCHANGED <<queue, job>>
    BY <1>3, HeldType, JobsAssumption DEF GetFound, OnceInv
  <2>2. starts' = [starts EXCEPT ![job[p]] = starts[job[p]] + 1]
    BY <1>3 DEF GetFound
  <2>3. starts[job[p]] + 1 = 1
    BY <2>1
  <2>4. starts' = [starts EXCEPT ![job[p]] = 1]
    BY <2>2, <2>3
  <2>5. Promise!Work(p)
    BY <1>0, <2>1, <2>4 DEF Promise!Work
  <2> QED BY <2>5 DEF Promise!Next
<1>4. CASE /\ ~(Pop(p) \/ GetMissing(p) \/ Release(p))
           /\ ~(GetFound(p) /\ hash[job[p]].status = "queued")
  <2>1. UNCHANGED <<queue, job, starts>>
    BY <1>4 DEF Consumer, GetFound, UpdateCheck, StartSet, CompleteSet, FailSet, Progress,
                SynthesisEnds
  <2> QED BY <1>0, <2>1 DEF Promise!vars
<1> QED BY <1>1, <1>2, <1>3, <1>4

\* A disturbance loses jobs, or hands one in on its way, and brings none back.
LEMMA DisturbancePromise ==
  ASSUME Slots,
         \/ \E j \in Jobs : RequestError(j) \/ Expire(j)
         \/ \E p \in Procs : Crash(p) \/ Shutdown(p) \/ DequeueError(p) \/ ConsumerError(p)
         \/ \E w \in late : LateError(w)
         \/ RedisRestart
  PROVE  Promise!Next
<1> USE DEF requestVars, consumerVars, redisVars, Slots, Both
<1>1. faults' = faults + 1 /\ UNCHANGED <<ticket, starts>>
  BY DEF Fault, RequestError, TookEffect, Expire, Crash, Shutdown, DequeueError, ConsumerError,
         LateError, RedisRestart
<1>2. /\ job' = [p \in Procs |-> job'[p]]
      /\ \A p \in Procs : job'[p] \in {job[p], NoJob}
  <2>1. job \in [Procs -> Jobs \cup {NoJob}]
    BY DEF TypeOK
  <2>2. ASSUME NEW p \in Procs, Crash(p) \/ Shutdown(p) \/ ConsumerError(p)
        PROVE  job' \in {job, [job EXCEPT ![p] = NoJob]}
    BY <2>2 DEF Crash, Shutdown, ConsumerError
  <2>3. job' = job \/ \E p \in Procs : job' = [job EXCEPT ![p] = NoJob]
    BY <2>2 DEF RequestError, Expire, DequeueError, LateError, RedisRestart
  <2> QED BY <2>1, <2>3
<1>3. Fresh' \subseteq Fresh /\ queue' \subseteq queue \cup (Fresh \ Fresh')
  <2>1. ASSUME NEW j \in Jobs, RequestError(j)
        PROVE  /\ Fresh' = Fresh \ {j} /\ j \in Fresh
               /\ queue' \in {queue, queue \cup {j}}
    <3>1. Fresh' = Fresh \ {j} /\ j \in Fresh
      BY <2>1 DEF RequestError, InFlight, RequestPoints, Fresh, TypeOK
    <3>2. queue' \in {queue, queue \cup {j}}
      BY <2>1 DEF RequestError, TookEffect
    <3> QED BY <3>1, <3>2
  <2>2. ASSUME NEW p \in Procs, Crash(p)
        PROVE  Fresh' \subseteq Fresh /\ queue' = queue
    BY <2>2 DEF Crash, Fresh, InFlight, RequestPoints, TypeOK
  <2>3. ASSUME NEW p \in Procs, Shutdown(p) \/ DequeueError(p) \/ ConsumerError(p)
        PROVE  rpc' = rpc /\ queue' \subseteq queue
    BY <2>3 DEF Shutdown, DequeueError, ConsumerError
  <2>4. ASSUME NEW j \in Jobs, Expire(j) PROVE rpc' = rpc /\ queue' = queue
    BY <2>4 DEF Expire
  <2>5. ASSUME NEW w \in late, LateError(w) PROVE rpc' = rpc /\ queue' = queue
    BY <2>5 DEF LateError
  <2>6. ASSUME RedisRestart PROVE rpc' = rpc /\ queue' \subseteq queue
    BY <2>6 DEF RedisRestart
  <2>7. rpc' = rpc => Fresh' = Fresh
    BY DEF Fresh
  <2> QED BY <2>1, <2>2, <2>3, <2>4, <2>5, <2>6, <2>7
<1>4. Promise!Disturb
  BY <1>1, <1>2, <1>3 DEF Promise!Disturb
<1> QED BY <1>4 DEF Promise!Next

\* job_store.py and job_runner.py implement the abstract queue: jobs are taken in order
\* and worked on at most once, and exactly once unless something is disturbed.
THEOREM StoreIsAQueue == Spec => QueuePromise
<1>1. Init => Promise!Init
  BY DEF Init, Fresh, Promise!Init
<1>2. Slots /\ TicketInv /\ PromiseInv /\ [Next]_vars => [Promise!Next]_(Promise!vars)
  <2> SUFFICES ASSUME Slots, TicketInv, PromiseInv, [Next]_vars
               PROVE  Promise!Next \/ UNCHANGED Promise!vars
    OBVIOUS
  <2>1. ASSUME NEW w \in late, LateUpdate(w) PROVE UNCHANGED Promise!vars
    BY <2>1 DEF LateUpdate, LateCheck, LateSet, requestVars, consumerVars, redisVars,
                Promise!vars, Fresh
  <2>2. CASE UNCHANGED vars
    BY <2>2 DEF vars, Promise!vars, Fresh
  <2> QED BY <2>1, <2>2, RequestPromise, ConsumerPromise, DisturbancePromise DEF Next
<1>3. Slots /\ TicketInv /\ [Next]_vars => TicketInv'
  BY NextTickets DEF Slots, Both
<1> QED BY <1>1, <1>2, <1>3, SlotsHold, InitTickets, InitPromise, NextPromise, PTL
        DEF Spec, QueuePromise, Promise!Spec
=============================================================================
