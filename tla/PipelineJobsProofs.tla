------------------------ MODULE PipelineJobsProofs ------------------------
(***************************************************************************)
(* Proofs about the pipeline worker's jobs, for every set of ids, users,   *)
(* keys and requests, every limit and every number of stages.              *)
(***************************************************************************)
EXTENDS PipelineJobs, FiniteSetTheorems, TLAPS

\* Records have been created one after the other.
BirthOrder ==
  /\ \A i \in Present : rec[i].born <= births
  /\ \A i, k \in Present : rec[i].born = rec[k].born => i = k

Typed == TypeOK /\ BirthOrder

----------------------------------------------------------------------------
(* Shapes *)

\* What the type says of a record that is there.
LEMMA RecordFacts ==
  ASSUME TypeOK
  PROVE  /\ \A i \in Present : rec[i] \in Record /\ i \in Ids
         /\ \A i \in Running : task[i] \in Task /\ i \in Ids
  BY DEF TypeOK, Present, Running

\* Every request is counted under some key.
LEMMA UserKeyType ==
  ASSUME NEW req \in Requests
  PROVE  UserKey(req) \in UserKeys
  BY RequestsAssumption DEF UserKey, UserKeys, Request

\* The runs are finitely many jobs.
LEMMA RunningFinite == IsFiniteSet(Running) /\ Running \subseteq Ids
<1>1. Running \subseteq Ids BY DEF Running
<1> QED BY <1>1, IdsAssumption, FS_Subset

\* Giving a slot back keeps the types of the scheduler.
LEMMA LeaveType ==
  ASSUME TypeOK, NEW i \in Running, Leave(i)
  PROVE  /\ task' \in [Ids -> Task \cup {NoTask}]
         /\ perUser' \in [UserKeys -> Nat]
<1>1. task[i] \in Task /\ i \in Ids BY RecordFacts
<1>2. task[i].user \in UserKeys BY <1>1 DEF Task
<1>3. perUser[task[i].user] \in Nat BY <1>2 DEF TypeOK
<1> QED BY <1>1, <1>2, <1>3 DEF Leave, TypeOK

\* A new process is typed.
LEMMA InitTyped == Init => Typed
  BY BoundsAssumption DEF Init, Typed, TypeOK, BirthOrder, Present

\* A step that only writes fields of records other than their birth, or drops
\* records, keeps the order of births.
LEMMA BirthsKept ==
  ASSUME Typed, births' = births, rec' \in [Ids -> Record \cup {NoRecord}],
         \A i \in Ids : rec'[i] # NoRecord =>
                          rec[i] # NoRecord /\ rec'[i].born = rec[i].born
  PROVE  BirthOrder'
  BY DEF Typed, BirthOrder, Present

\* A new record is a Record, born later than all others.
LEMMA SubmitTyped ==
  ASSUME Typed, NEW req \in Requests, Submit(req)
  PROVE  Typed'
<1> DEFINE new == [req |-> req, status |-> "queued", error |-> "none",
                   stage |-> 0, born |-> births + 1]
<1>1. births \in Nat /\ births < MaxSubmits /\ MaxSubmits \in Nat
      /\ births + 1 \in 1..MaxSubmits /\ births' = births + 1
  BY BoundsAssumption DEF Typed, TypeOK, Submit
<1>2. new \in Record
  BY <1>1, StagesAssumption DEF Record, Pending, Errors
<1>3. req.id \in Ids
  BY RequestsAssumption DEF Request
<1>4. rec' = [rec EXCEPT ![req.id] = new] /\ rec' \in [Ids -> Record \cup {NoRecord}]
  BY <1>2, <1>3 DEF Typed, TypeOK, Submit
<1>5. TypeOK'
  BY <1>1, <1>4 DEF Typed, TypeOK, Submit
<1>6. \A i \in Present : rec[i].born \in Nat
  BY RecordFacts DEF Record, Typed
<1>7. \A i \in Present' : \/ i = req.id /\ rec'[i].born = births + 1
                          \/ i # req.id /\ i \in Present /\ rec'[i] = rec[i]
  BY <1>3, <1>4 DEF Present, Typed, TypeOK
<1>8. BirthOrder'
  BY <1>1, <1>6, <1>7 DEF Typed, BirthOrder
<1> QED BY <1>5, <1>8 DEF Typed

\* A step that writes one record, and leaves its birth alone.
LEMMA WriteType ==
  ASSUME TypeOK, NEW i \in Present, NEW r \in Record, r.born = rec[i].born,
         rec' = [rec EXCEPT ![i] = r]
  PROVE  /\ rec' \in [Ids -> Record \cup {NoRecord}]
         /\ \A k \in Ids : rec'[k] # NoRecord =>
                          rec[k] # NoRecord /\ rec'[k].born = rec[k].born
  BY RecordFacts DEF TypeOK, Present

\* Writing a status and an error keeps a record a Record.
LEMMA StatusType ==
  ASSUME TypeOK, NEW i \in Present, NEW s \in Pending \cup Terminal, NEW e \in Errors
  PROVE  LET r == [rec[i] EXCEPT !.status = s, !.error = e]
         IN r \in Record /\ r.born = rec[i].born
  BY RecordFacts DEF Record

\* Writing a stage keeps a record a Record.
LEMMA StageType ==
  ASSUME TypeOK, NEW i \in Present, NEW s \in Pending \cup Terminal,
         NEW g \in 0..LastStage + 1
  PROVE  LET r == [rec[i] EXCEPT !.status = s, !.stage = g]
         IN r \in Record /\ r.born = rec[i].born
  BY RecordFacts DEF Record

\* Canceling writes a status only.
LEMMA CancelTyped ==
  ASSUME Typed, NEW i \in Ids, Cancel(i)
  PROVE  Typed'
<1> DEFINE r == [rec[i] EXCEPT !.status = "canceled", !.error = "CANCELED"]
<1>1. i \in Present
  BY DEF Cancel, WithStatus
<1>2. rec' = [rec EXCEPT ![i] = r]
  BY <1>1 DEF Cancel, Typed, TypeOK
<1>3. r \in Record /\ r.born = rec[i].born
  BY <1>1, StatusType DEF Typed, Terminal, Errors
<1> QED BY <1>1, <1>2, <1>3, WriteType, BirthsKept DEF Typed, TypeOK, Cancel

\* Expiry takes a record away.
LEMMA ExpireTyped ==
  ASSUME Typed, NEW i \in Ids, Expire(i)
  PROVE  Typed'
<1>1. /\ rec' \in [Ids -> Record \cup {NoRecord}]
      /\ \A k \in Ids : rec'[k] # NoRecord =>
                          rec[k] # NoRecord /\ rec'[k].born = rec[k].born
  BY DEF Expire, Typed, TypeOK
<1> QED BY <1>1, BirthsKept DEF Typed, TypeOK, Expire

\* Entering the pipeline writes the record and the task, or gives the slot
\* back.
LEMMA EnterTyped ==
  ASSUME Typed, NEW i \in Running, Enter(i)
  PROVE  Typed'
<1> DEFINE r == [rec[i] EXCEPT !.status = "processing", !.stage = 1]
<1>0. i \in Ids /\ task[i] \in Task /\ 1 \in 0..LastStage /\ 1 \in 0..LastStage + 1
  BY RecordFacts, StagesAssumption DEF Typed
<1>1. CASE i \in Present /\ rec[i].status # "canceled"
  <2>1. rec' = [rec EXCEPT ![i] = r]
    BY <1>1 DEF Enter, Typed, TypeOK
  <2>2. r \in Record /\ r.born = rec[i].born
    BY <1>0, <1>1, StageType DEF Typed, Pending
  <2>3. task' = [task EXCEPT ![i] = [task[i] EXCEPT !.at = "stage", !.stage = 1]]
    BY <1>0, <1>1 DEF Enter, Typed, TypeOK
  <2>4. [task[i] EXCEPT !.at = "stage", !.stage = 1] \in Task
    BY <1>0 DEF Task
  <2>5. task' \in [Ids -> Task \cup {NoTask}]
    BY <2>3, <2>4 DEF Typed, TypeOK
  <2>6. entered' \in [1..MaxSubmits -> Nat]
    BY <1>1 DEF Enter, Typed, TypeOK
  <2> QED BY <1>1, <2>1, <2>2, <2>5, <2>6, WriteType, BirthsKept
          DEF Typed, TypeOK, Enter
<1>2. CASE ~(i \in Present /\ rec[i].status # "canceled")
  BY <1>2, LeaveType, BirthsKept DEF Typed, TypeOK, Enter
<1> QED BY <1>1, <1>2

\* A failure writes a status and gives the slot back.
LEMMA FailTyped ==
  ASSUME Typed, NEW i \in Running, Fail(i)
  PROVE  Typed'
<1>1. CASE i \in Present
  <2> DEFINE r == [rec[i] EXCEPT !.status = "failed", !.error = "FAILED"]
  <2>1. rec' = [rec EXCEPT ![i] = r]
    BY <1>1 DEF Fail, Typed, TypeOK
  <2>2. r \in Record /\ r.born = rec[i].born
    BY <1>1, StatusType DEF Typed, Terminal, Errors
  <2> QED BY <1>1, <2>1, <2>2, WriteType, BirthsKept, LeaveType DEF Typed, TypeOK, Fail
<1>2. CASE i \notin Present
  BY <1>2, BirthsKept, LeaveType DEF Typed, TypeOK, Fail
<1> QED BY <1>1, <1>2

\* Completion keeps a record a Record.
LEMMA CompletedType ==
  ASSUME Typed, NEW i \in Running, rec' = Completed(i), births' = births
  PROVE  rec' \in [Ids -> Record \cup {NoRecord}] /\ BirthOrder'
<1>1. CASE i \in Present
  <2> DEFINE r == [rec[i] EXCEPT !.status = "completed", !.stage = LastStage + 1]
  <2>1. rec' = [rec EXCEPT ![i] = r]
    BY <1>1 DEF Completed, Typed, TypeOK
  <2>2. LastStage + 1 \in 0..LastStage + 1
    BY StagesAssumption
  <2>3. r \in Record /\ r.born = rec[i].born
    BY <1>1, <2>2, StageType DEF Typed, Terminal
  <2> QED BY <1>1, <2>1, <2>3, WriteType, BirthsKept DEF Typed
<1>2. CASE i \notin Present
  BY <1>2, BirthsKept DEF Typed, TypeOK, Completed
<1> QED BY <1>1, <1>2

\* The next stage is a stage.
LEMMA AdvanceTyped ==
  ASSUME Typed, NEW i \in Ids, Advance(i)
  PROVE  Typed'
<1>0. i \in Running /\ task[i] \in Task /\ task[i].stage \in 0..LastStage
      /\ task[i].stage + 1 \in 0..LastStage /\ task[i].stage + 1 \in 0..LastStage + 1
  BY RecordFacts, StagesAssumption DEF Typed, Task, Advance
<1>1. CASE i \in Present
  <2> DEFINE r == [rec[i] EXCEPT !.stage = task[i].stage + 1]
             t == [task[i] EXCEPT !.stage = task[i].stage + 1]
  <2>1. rec' = [rec EXCEPT ![i] = r] /\ task' = [task EXCEPT ![i] = t]
    BY <1>1 DEF Advance, Typed, TypeOK
  <2>2. r \in Record /\ r.born = rec[i].born
    BY <1>0, <1>1, RecordFacts DEF Typed, Record
  <2>3. t \in Task
    BY <1>0 DEF Task
  <2>4. task' \in [Ids -> Task \cup {NoTask}]
    BY <2>1, <2>3 DEF Typed, TypeOK
  <2> QED BY <1>1, <2>1, <2>2, <2>4, WriteType, BirthsKept DEF Typed, TypeOK, Advance
<1>2. CASE i \notin Present
  BY <1>0, <1>2, FailTyped DEF Advance
<1> QED BY <1>1, <1>2

\* Every step of a run is typed.
LEMMA RunTyped ==
  ASSUME Typed, NEW i \in Ids, Run(i)
  PROVE  Typed'
<1>1. CASE Begin(i)
  <2>1. CASE Enter(i)
    BY <1>1, <2>1, EnterTyped DEF Begin
  <2>2. CASE /\ task' = [task EXCEPT ![i].at = "copy"]
             /\ UNCHANGED <<rec, perUser, phase, births, restarts, entered>>
    <3>1. i \in Running /\ task[i] \in Task
      BY <1>1, RecordFacts DEF Begin, Typed
    <3>2. [task[i] EXCEPT !.at = "copy"] \in Task
      BY <3>1 DEF Task
    <3>3. task' = [task EXCEPT ![i] = [task[i] EXCEPT !.at = "copy"]]
      BY <2>2 DEF Typed, TypeOK
    <3>4. task' \in [Ids -> Task \cup {NoTask}]
      BY <3>2, <3>3 DEF Typed, TypeOK
    <3> QED BY <2>2, <3>4, BirthsKept DEF Typed, TypeOK
  <2> QED BY <1>1, <2>1, <2>2 DEF Begin
<1>2. CASE CopyEnds(i)
  BY <1>2, EnterTyped DEF CopyEnds
<1>3. CASE RunFails(i)
  BY <1>3, FailTyped DEF RunFails
<1>4. CASE Advance(i)
  BY <1>4, AdvanceTyped
<1>5. CASE NoSegments(i)
  BY <1>5, CompletedType, LeaveType DEF NoSegments, Typed, TypeOK
<1>6. CASE Complete(i)
  <2>1. i \in Running /\ task[i] \in Task
    BY <1>6, RecordFacts DEF Complete, Typed
  <2>2. [task[i] EXCEPT !.at = "meter"] \in Task
    BY <2>1 DEF Task
  <2>3. task' = [task EXCEPT ![i] = [task[i] EXCEPT !.at = "meter"]]
    BY <1>6 DEF Typed, TypeOK, Complete
  <2>4. task' \in [Ids -> Task \cup {NoTask}]
    BY <2>2, <2>3 DEF Typed, TypeOK
  <2> QED BY <1>6, <2>1, <2>4, CompletedType DEF Complete, Typed, TypeOK
<1>7. CASE Metered(i)
  BY <1>7, LeaveType, BirthsKept DEF Metered, Typed, TypeOK
<1> QED BY <1>1, <1>2, <1>3, <1>4, <1>5, <1>6, <1>7 DEF Run

\* A canceled run writes a status and gives its slot back.
LEMMA InterruptTyped ==
  ASSUME Typed, NEW i \in Ids, Interrupt(i)
  PROVE  Typed'
<1>0. i \in Running BY DEF Interrupt
<1>1. CASE task[i].at \in {"stage", "meter"} /\ i \in Present
  <2> DEFINE r == [rec[i] EXCEPT !.status = "canceled", !.error = "CANCELED"]
  <2>1. rec' = [rec EXCEPT ![i] = r]
    BY <1>1 DEF Interrupt, Typed, TypeOK
  <2>2. r \in Record /\ r.born = rec[i].born
    BY <1>1, StatusType DEF Typed, Terminal, Errors
  <2> QED BY <1>0, <1>1, <2>1, <2>2, WriteType, BirthsKept, LeaveType
          DEF Typed, TypeOK, Interrupt
<1>2. CASE ~(task[i].at \in {"stage", "meter"} /\ i \in Present)
  BY <1>0, <1>2, BirthsKept, LeaveType DEF Typed, TypeOK, Interrupt
<1> QED BY <1>1, <1>2

\* A sweep of the watchdog writes statuses only.
LEMMA SweepTyped ==
  ASSUME Typed, NEW overdue \in SUBSET Ids, Sweep(overdue)
  PROVE  Typed'
<1> DEFINE r(i) == [rec[i] EXCEPT !.status = "failed", !.error = Overdue(i)]
<1>1. overdue \subseteq Present
  BY DEF Sweep, Reapable, WithStatus
<1>2. \A i \in overdue : r(i) \in Record /\ r(i).born = rec[i].born
  <2> TAKE i \in overdue
  <2>1. Overdue(i) \in Errors BY DEF Overdue, Errors
  <2> QED BY <1>1, <2>1, StatusType DEF Typed, Terminal
<1>3. rec' = [i \in Ids |-> IF i \in overdue THEN r(i) ELSE rec[i]]
  BY DEF Sweep
<1>4. rec' \in [Ids -> Record \cup {NoRecord}]
  BY <1>2, <1>3 DEF Typed, TypeOK
<1>5. \A k \in Ids : rec'[k] # NoRecord =>
                       rec[k] # NoRecord /\ rec'[k].born = rec[k].born
  BY <1>1, <1>2, <1>3 DEF Present
<1> QED BY <1>4, <1>5, BirthsKept DEF Sweep, Typed, TypeOK

\* A scan adds tasks and raises counters.
LEMMA DispatchTyped ==
  ASSUME Typed, Dispatch
  PROVE  Typed'
<1>1. PICK started \in SUBSET Queued :
        /\ task' = [i \in Ids |->
                      IF i \in started
                        THEN [at |-> "new", stage |-> 0, user |-> UserKey(rec[i].req)]
                        ELSE task[i]]
        /\ perUser' = [u \in UserKeys |->
                         perUser[u] + Cardinality({i \in started :
                                                     UserKey(rec[i].req) = u})]
  BY DEF Dispatch
<1>2. started \subseteq Present /\ started \subseteq Ids /\ IsFiniteSet(started)
  <2>1. started \subseteq Present /\ started \subseteq Ids
    BY DEF Queued, WithStatus, Present
  <2> QED BY <2>1, IdsAssumption, FS_Subset
<1>3. \A i \in started : rec[i].req \in Requests
  BY <1>2, RecordFacts DEF Record, Typed
<1>4. \A i \in started : UserKey(rec[i].req) \in UserKeys
  BY <1>3, UserKeyType
<1>5. \A i \in started :
        [at |-> "new", stage |-> 0, user |-> UserKey(rec[i].req)] \in Task
  BY <1>4, StagesAssumption DEF Task
<1>6. task' \in [Ids -> Task \cup {NoTask}]
  BY <1>1, <1>5 DEF Typed, TypeOK
<1>7. \A u \in UserKeys : Cardinality({i \in started : UserKey(rec[i].req) = u}) \in Nat
  <2> TAKE u \in UserKeys
  <2>1. {i \in started : UserKey(rec[i].req) = u} \subseteq started OBVIOUS
  <2> QED BY <1>2, <2>1, FS_Subset, FS_CardinalityType
<1>8. perUser' \in [UserKeys -> Nat]
  BY <1>1, <1>7 DEF Typed, TypeOK
<1> QED BY <1>6, <1>8, BirthsKept DEF Dispatch, Typed, TypeOK

\* A restarted process is typed.
LEMMA RebornTyped ==
  ASSUME Typed, Reborn
  PROVE  Typed'
<1>1. TypeOK' BY DEF Typed, TypeOK, Reborn
<1>2. Present' = {} BY DEF Present, Reborn
<1> QED BY <1>1, <1>2 DEF Typed, BirthOrder

\* Every step keeps the types and the order of births.
LEMMA NextTyped == Typed /\ [Next]_vars => Typed'
<1> SUFFICES ASSUME Typed, [Next]_vars PROVE Typed'
  OBVIOUS
<1>1. ASSUME NEW req \in Requests, Submit(req) PROVE Typed'
  BY <1>1, SubmitTyped
<1>2. ASSUME NEW i \in Ids, Cancel(i) PROVE Typed'
  BY <1>2, CancelTyped
<1>3. ASSUME NEW i \in Ids, Expire(i) PROVE Typed'
  BY <1>3, ExpireTyped
<1>4. ASSUME NEW i \in Ids, Run(i) PROVE Typed'
  BY <1>4, RunTyped
<1>5. ASSUME NEW i \in Ids, Interrupt(i) PROVE Typed'
  BY <1>5, InterruptTyped
<1>6. CASE Dispatch
  BY <1>6, DispatchTyped
<1>7. ASSUME NEW overdue \in SUBSET Ids, Sweep(overdue) PROVE Typed'
  BY <1>7, SweepTyped
<1>8. CASE Stop
  BY <1>8, BirthsKept DEF Stop, Typed, TypeOK
<1>9. CASE Restart \/ Crash
  BY <1>9, RebornTyped DEF Restart, Crash
<1>10. CASE UNCHANGED vars
  BY <1>10 DEF vars, Typed, TypeOK, BirthOrder, Present
<1> QED BY <1>1, <1>2, <1>3, <1>4, <1>5, <1>6, <1>7, <1>8, <1>9, <1>10 DEF Next

\* The types and the order of births hold throughout.
LEMMA TypedHolds == Spec => []Typed
  BY InitTyped, NextTyped, PTL DEF Spec

\* Every variable of the pipeline worker's job state keeps its shape.
THEOREM TypeCorrect == Spec => []TypeOK
  BY TypedHolds, PTL DEF Typed

----------------------------------------------------------------------------
(* The order in which the dispatcher looks at the queue *)

\* The dispatcher's order is a strict total order of the records: no two were
\* born together.
LEMMA OrderFacts ==
  ASSUME Typed
  PROVE  /\ \A i \in Present : ~Before(i, i)
         /\ \A i, k \in Present : i # k => Before(i, k) \/ Before(k, i)
         /\ \A i, k, m \in Present : Before(i, k) /\ Before(k, m) => Before(i, m)
<1>1. \A i \in Present : rec[i].req.priority \in Int /\ rec[i].born \in Int
  BY RecordFacts, RequestsAssumption DEF Typed, Record, Request
<1> QED BY <1>1 DEF Before, Typed, BirthOrder

\* Of any jobs one is looked at last: the others are ahead of it.
LEMMA LastInOrder ==
  ASSUME Typed, NEW S, S \subseteq Present, S # {}
  PROVE  \E l \in S : \A k \in S \ {l} : Before(k, l)
<1> DEFINE Rest(i) == S \ Ahead(S, i)
           T == {Rest(i) : i \in S}
<1>1. IsFiniteSet(S)
  BY IdsAssumption, FS_Subset DEF Present
<1>2. IsWellFoundedOn(StrictSubsetOrdering(S), SUBSET S)
  BY <1>1, FS_StrictSubsetOrderingWellFounded, FS_FiniteSubsetsOfFinite
<1>3. PICK x \in T : \A y \in T : <<y, x>> \notin StrictSubsetOrdering(S)
  <2>1. T \subseteq SUBSET S /\ T # {} OBVIOUS
  <2> HIDE DEF T
  <2> QED BY <1>2, <2>1, WFMin
<1>4. PICK l \in S : x = Rest(l)
  OBVIOUS
<1>5. SUFFICES ASSUME NEW k \in S \ {l}, ~Before(k, l) PROVE FALSE
  OBVIOUS
<1>6. Before(l, k)
  BY <1>5, OrderFacts
<1>7. Rest(k) \subseteq Rest(l)
  BY <1>6, OrderFacts DEF Ahead
<1>8. l \in Rest(l) /\ l \notin Rest(k)
  BY <1>6, OrderFacts DEF Ahead
<1>9. <<Rest(k), Rest(l)>> \in StrictSubsetOrdering(S)
  BY <1>7, <1>8 DEF StrictSubsetOrdering
<1> QED BY <1>3, <1>4, <1>9

----------------------------------------------------------------------------
(* Slots *)

Counts == UserCountExact /\ ConcurrencyRespected /\ UserCeiling

\* The runs, and those of one user, can be counted.
LEMMA CardinalityFacts ==
  /\ IsFiniteSet(Running) /\ Cardinality(Running) \in Nat
  /\ \A u : IsFiniteSet(RunsOf(u)) /\ Cardinality(RunsOf(u)) \in Nat
<1>1. \A u : RunsOf(u) \subseteq Running BY DEF RunsOf
<1> QED BY <1>1, RunningFinite, FS_Subset, FS_CardinalityType

\* A new process has no runs and counts none.
LEMMA InitCounts == Init => Counts
<1> SUFFICES ASSUME Init PROVE Counts
  OBVIOUS
<1>1. Running = {} BY DEF Init, Running
<1>2. \A u : RunsOf(u) = {} BY <1>1 DEF RunsOf
<1>3. Cardinality({}) = 0 BY FS_EmptySet
<1>4. UserCountExact BY <1>2, <1>3 DEF Init, UserCountExact
<1>5. ConcurrencyRespected BY <1>1, <1>3, BoundsAssumption DEF ConcurrencyRespected
<1>6. UserCeiling BY <1>2, <1>3, BoundsAssumption DEF UserCeiling
<1> QED BY <1>4, <1>5, <1>6 DEF Counts

\* A step that starts and ends no run.
LEMMA CountsKept ==
  ASSUME Counts, perUser' = perUser, Running' = Running,
         \A i \in Running : task'[i].user = task[i].user
  PROVE  Counts'
<1>1. \A u : RunsOf(u)' = RunsOf(u) BY DEF RunsOf
<1> QED BY <1>1 DEF Counts, UserCountExact, ConcurrencyRespected, UserCeiling

\* The end of a run gives its slot back, in both counts.
LEMMA LeaveCounts ==
  ASSUME Typed, Counts, NEW i \in Running, Leave(i)
  PROVE  Counts'
<1>0. PICK u : u = task[i].user
  OBVIOUS
<1>1. i \in Ids /\ u \in UserKeys
  BY <1>0, RecordFacts DEF Typed, Task
<1>2. Running' = Running \ {i}
  BY <1>1 DEF Leave, Running, Typed, TypeOK
<1>3. \A v \in UserKeys : RunsOf(v)' = RunsOf(v) \ {i}
  BY <1>1, <1>2 DEF RunsOf, Leave, Typed, TypeOK, Running
<1>4. Cardinality(Running') = Cardinality(Running) - 1
  BY <1>2, CardinalityFacts, FS_RemoveElement
<1>5. i \in RunsOf(u) /\ \A v \in UserKeys \ {u} : i \notin RunsOf(v)
  BY <1>0, <1>1 DEF RunsOf
<1>6. /\ Cardinality(RunsOf(u)') = Cardinality(RunsOf(u)) - 1
      /\ Cardinality(RunsOf(u)) # 0
  BY <1>1, <1>3, <1>5, CardinalityFacts, FS_RemoveElement, FS_EmptySet
<1>7. \A v \in UserKeys \ {u} : RunsOf(v)' = RunsOf(v)
  BY <1>3, <1>5
<1>8. perUser[u] = Cardinality(RunsOf(u)) /\ perUser[u] \in Nat
  BY <1>1 DEF Counts, UserCountExact, Typed, TypeOK
<1>9. perUser'[u] = perUser[u] - 1 /\ \A v \in UserKeys \ {u} : perUser'[v] = perUser[v]
  BY <1>0, <1>1, <1>6, <1>8, CardinalityFacts DEF Leave, Typed, TypeOK
<1>10. UserCountExact'
  BY <1>6, <1>7, <1>8, <1>9 DEF Counts, UserCountExact
<1>11. ConcurrencyRespected'
  BY <1>4, CardinalityFacts, BoundsAssumption DEF Counts, ConcurrencyRespected
<1>12. UserCeiling'
  BY <1>1, <1>6, <1>7, CardinalityFacts, BoundsAssumption DEF Counts, UserCeiling
<1> QED BY <1>10, <1>11, <1>12 DEF Counts

\* No plan raises a user's limit above the env ceiling.
LEMMA UserLimitBound ==
  ASSUME Typed, NEW i \in Present
  PROVE  UserLimit(i) \in Nat /\ UserLimit(i) <= MaxPerUser
<1>1. rec[i].req.limit \in Nat
  BY RecordFacts, RequestsAssumption DEF Typed, Record, Request
<1> QED BY <1>1, BoundsAssumption DEF UserLimit

\* The scan of the dispatcher: it stops at the limits although it starts several
\* jobs, because the job it looks at last was measured against all the others.
LEMMA DispatchCounts ==
  ASSUME Typed, Counts, Dispatch
  PROVE  Counts'
<1>1. PICK started \in (SUBSET Queued) \ {{}} :
        /\ started = {i \in Queued : Starts(started, i)}
        /\ task' = [i \in Ids |->
                      IF i \in started
                        THEN [at |-> "new", stage |-> 0, user |-> UserKey(rec[i].req)]
                        ELSE task[i]]
        /\ perUser' = [u \in UserKeys |->
                         perUser[u] + Cardinality({i \in started :
                                                     UserKey(rec[i].req) = u})]
  BY DEF Dispatch
<1> DEFINE Of(u) == {i \in started : UserKey(rec[i].req) = u}
<1>2. started \subseteq Present /\ started \subseteq Ids /\ started # {}
  BY <1>1 DEF Queued, WithStatus, Present
<1>3. /\ IsFiniteSet(started)
      /\ \A s \in SUBSET started : IsFiniteSet(s) /\ Cardinality(s) \in Nat
  BY <1>2, IdsAssumption, FS_Subset, FS_CardinalityType
<1>4. \A i \in started : Starts(started, i)
  BY <1>1
<1>5. started \cap Running = {}
  BY <1>4 DEF Starts
<1>6. \A i \in started : [at |-> "new", stage |-> 0, user |-> UserKey(rec[i].req)] \in Task
  <2> TAKE i \in started
  <2>1. rec[i].req \in Requests
    BY <1>2, RecordFacts DEF Record, Typed
  <2>2. UserKey(rec[i].req) \in UserKeys
    BY <2>1, UserKeyType
  <2> QED BY <2>2, StagesAssumption DEF Task
<1>7. \A i \in started : task'[i] # NoTask /\ task'[i].user = UserKey(rec[i].req)
  BY <1>1, <1>2, <1>6, NullAssumption
<1>8. \A i \in Ids \ started : task'[i] = task[i]
  BY <1>1
<1>9. Running' = Running \cup started
  BY <1>2, <1>7, <1>8 DEF Running
<1>10. \A u \in UserKeys : RunsOf(u)' = RunsOf(u) \cup Of(u)
  BY <1>5, <1>7, <1>8, <1>9 DEF RunsOf, Running
<1>11. Cardinality(Running') = Cardinality(Running) + Cardinality(started)
  BY <1>3, <1>5, <1>9, CardinalityFacts, FS_Union, FS_EmptySet
<1>12. \A u \in UserKeys :
         Cardinality(RunsOf(u)') = Cardinality(RunsOf(u)) + Cardinality(Of(u))
  <2> TAKE u \in UserKeys
  <2>1. RunsOf(u) \cap Of(u) = {} /\ Of(u) \subseteq started
    BY <1>5 DEF RunsOf
  <2>2. IsFiniteSet(RunsOf(u)) /\ IsFiniteSet(Of(u)) /\ Cardinality(RunsOf(u)) \in Nat
        /\ Cardinality(Of(u)) \in Nat
    BY <1>3, <2>1, CardinalityFacts
  <2>3. Cardinality(RunsOf(u) \cup Of(u)) =
          Cardinality(RunsOf(u)) + Cardinality(Of(u)) - Cardinality(RunsOf(u) \cap Of(u))
    BY <2>2, FS_Union
  <2>4. Cardinality(RunsOf(u) \cap Of(u)) = 0
    BY <2>1, FS_EmptySet
  <2>5. RunsOf(u)' = RunsOf(u) \cup Of(u)
    BY <1>10
  <2> HIDE DEF Of
  <2> QED BY <2>2, <2>3, <2>4, <2>5
<1>13. UserCountExact'
  <2> SUFFICES ASSUME NEW u \in UserKeys
               PROVE  perUser'[u] = Cardinality(RunsOf(u)')
    BY DEF UserCountExact
  <2> QED BY <1>1, <1>12 DEF Counts, UserCountExact
<1>14. ConcurrencyRespected'
  <2>1. PICK l \in started : \A k \in started \ {l} : Before(k, l)
    BY <1>2, LastInOrder
  <2>2. started \ {l} \subseteq Ahead(started, l) /\ Ahead(started, l) \subseteq started
    BY <2>1 DEF Ahead
  <2>3. Cardinality(started) - 1 <= Cardinality(Ahead(started, l))
    <3>1. Cardinality(started \ {l}) = Cardinality(started) - 1
      BY <1>3, FS_RemoveElement
    <3> QED BY <1>3, <2>2, <3>1, FS_Subset
  <2>4. Cardinality(Running) + Cardinality(Ahead(started, l)) < Concurrency
    BY <1>4 DEF Starts
  <2>5. Cardinality(Running) \in Nat /\ Cardinality(started) \in Nat
        /\ Cardinality(Ahead(started, l)) \in Nat
    BY <1>3, <2>2, CardinalityFacts
  <2> QED BY <1>11, <2>3, <2>4, <2>5, BoundsAssumption DEF ConcurrencyRespected
<1>15. UserCeiling'
  <2> SUFFICES ASSUME NEW u \in UserKeys
               PROVE  Cardinality(RunsOf(u)') <= MaxPerUser
    BY DEF UserCeiling
  <2>1. CASE Of(u) = {}
    BY <1>10, <2>1 DEF Counts, UserCeiling
  <2>2. CASE Of(u) # {}
    <3>1. Of(u) \subseteq Present /\ Of(u) \subseteq started
      BY <1>2
    <3>2. PICK l \in Of(u) : \A k \in Of(u) \ {l} : Before(k, l)
      <4> HIDE DEF Of
      <4> QED BY <2>2, <3>1, LastInOrder
    <3> DEFINE A == Ahead(started, l) \cap SameUser(l)
    <3>3. Of(u) \ {l} \subseteq A /\ A \subseteq started
      BY <1>2, <3>2 DEF Ahead, SameUser
    <3>4. Cardinality(Of(u) \ {l}) = Cardinality(Of(u)) - 1
      <4>1. PICK mine : mine = Of(u)
        OBVIOUS
      <4>2. IsFiniteSet(mine) /\ l \in mine
        BY <1>3, <3>1, <3>2, <4>1
      <4>3. Cardinality(mine \ {l}) = Cardinality(mine) - 1
        BY <4>2, FS_RemoveElement
      <4> QED BY <4>1, <4>3
    <3>5. Cardinality(Of(u)) - 1 <= Cardinality(A)
      BY <1>3, <3>3, <3>4, FS_Subset
    <3>6. perUser[u] + Cardinality(A) < UserLimit(l)
      BY <1>4, <3>2 DEF Starts
    <3>7. perUser[u] = Cardinality(RunsOf(u))
      BY DEF Counts, UserCountExact
    <3>8. Cardinality(RunsOf(u)) \in Nat /\ Cardinality(Of(u)) \in Nat /\ Cardinality(A) \in Nat
          /\ UserLimit(l) \in Nat /\ UserLimit(l) <= MaxPerUser
      BY <1>3, <3>1, <3>2, <3>3, CardinalityFacts, UserLimitBound
    <3> QED BY <1>12, <3>5, <3>6, <3>7, <3>8, BoundsAssumption
  <2> QED BY <2>1, <2>2
<1> QED BY <1>13, <1>14, <1>15 DEF Counts

\* What a run writes into its task while it goes on leaves its user alone.
LEMMA RunCounts ==
  ASSUME Typed, Counts, NEW i \in Ids, Run(i)
  PROVE  Counts'
<1>1. i \in Running /\ task[i] \in Task
  BY RecordFacts DEF Run, Begin, CopyEnds, RunFails, Advance, NoSegments, Complete,
                     Metered, Typed
<1>2. ASSUME NEW a \in {"copy", "stage", "meter"}, NEW g \in 0..LastStage,
             task' = [task EXCEPT ![i] = [task[i] EXCEPT !.at = a, !.stage = g]],
             perUser' = perUser
      PROVE  Counts'
  <2>1. [task[i] EXCEPT !.at = a, !.stage = g] \in Task
    BY <1>1, <1>2 DEF Task
  <2>2. task'[i] # NoTask /\ task'[i].user = task[i].user
    BY <1>1, <1>2, <2>1, NullAssumption DEF Typed, TypeOK, Task
  <2>3. \A k \in Ids \ {i} : task'[k] = task[k]
    BY <1>2 DEF Typed, TypeOK
  <2>4. Running' = Running
    BY <1>1, <2>2, <2>3 DEF Running
  <2>5. \A k \in Running : task'[k].user = task[k].user
    BY <2>2, <2>3 DEF Running
  <2> QED BY <1>2, <2>4, <2>5, CountsKept
<1>3. Leave(i) => Counts'
  BY <1>1, LeaveCounts
<1>4. Enter(i) => Counts'
  <2>1. CASE task' = [task EXCEPT ![i].at = "stage", ![i].stage = 1] /\ perUser' = perUser
    <3>1. task' = [task EXCEPT ![i] = [task[i] EXCEPT !.at = "stage", !.stage = 1]]
      BY <2>1 DEF Typed, TypeOK
    <3>2. 1 \in 0..LastStage
      BY StagesAssumption
    <3> QED BY <1>2, <2>1, <3>1, <3>2
  <2> QED BY <1>3, <2>1 DEF Enter
<1>5. CASE Begin(i)
  <2>1. CASE task' = [task EXCEPT ![i].at = "copy"] /\ perUser' = perUser
    <3>1. task' = [task EXCEPT ![i] = [task[i] EXCEPT !.at = "copy", !.stage = task[i].stage]]
      BY <1>1, <2>1 DEF Typed, TypeOK, Task
    <3>2. task[i].stage \in 0..LastStage
      BY <1>1 DEF Task
    <3> QED BY <1>2, <2>1, <3>1, <3>2
  <2> QED BY <1>4, <1>5, <2>1 DEF Begin
<1>6. CASE CopyEnds(i)
  BY <1>4, <1>6 DEF CopyEnds
<1>7. CASE RunFails(i)
  BY <1>3, <1>7 DEF RunFails, Fail
<1>8. CASE Advance(i)
  <2>1. CASE task' = [task EXCEPT ![i].stage = @ + 1] /\ perUser' = perUser
    <3>1. task[i].at = "stage" /\ task[i].stage + 1 \in 0..LastStage
      BY <1>1, <1>8, StagesAssumption DEF Advance, Task
    <3>2. task' = [task EXCEPT ![i] = [task[i] EXCEPT !.at = "stage", !.stage = task[i].stage + 1]]
      BY <1>1, <2>1, <3>1 DEF Typed, TypeOK, Task
    <3> QED BY <1>2, <2>1, <3>1, <3>2
  <2> QED BY <1>3, <1>8, <2>1 DEF Advance, Fail
<1>9. CASE NoSegments(i)
  BY <1>3, <1>9 DEF NoSegments
<1>10. CASE Complete(i)
  <2>1. task' = [task EXCEPT ![i] = [task[i] EXCEPT !.at = "meter", !.stage = task[i].stage]]
    BY <1>1, <1>10 DEF Complete, Typed, TypeOK, Task
  <2>2. task[i].stage \in 0..LastStage /\ perUser' = perUser
    BY <1>1, <1>10 DEF Task, Complete
  <2> QED BY <1>2, <2>1, <2>2
<1>11. CASE Metered(i)
  BY <1>3, <1>11 DEF Metered
<1> QED BY <1>5, <1>6, <1>7, <1>8, <1>9, <1>10, <1>11 DEF Run

\* Every step keeps the counters exact and the limits respected.
LEMMA NextCounts == Typed /\ Counts /\ [Next]_vars => Counts'
<1> SUFFICES ASSUME Typed, Counts, [Next]_vars PROVE Counts'
  OBVIOUS
<1>0. ASSUME task' = task, perUser' = perUser PROVE Counts'
  BY <1>0, CountsKept DEF Running
<1>1. ASSUME NEW req \in Requests, Submit(req) PROVE Counts'
  BY <1>0, <1>1 DEF Submit
<1>2. ASSUME NEW i \in Ids, Cancel(i) \/ Expire(i) PROVE Counts'
  BY <1>0, <1>2 DEF Cancel, Expire
<1>3. ASSUME NEW i \in Ids, Run(i) PROVE Counts'
  BY <1>3, RunCounts
<1>4. ASSUME NEW i \in Ids, Interrupt(i) PROVE Counts'
  BY <1>4, LeaveCounts DEF Interrupt
<1>5. CASE Dispatch
  BY <1>5, DispatchCounts
<1>6. ASSUME NEW overdue \in SUBSET Ids, Sweep(overdue) PROVE Counts'
  BY <1>0, <1>6 DEF Sweep
<1>7. CASE Stop \/ UNCHANGED vars
  BY <1>0, <1>7 DEF Stop, vars
<1>8. CASE Restart \/ Crash
  <2>1. Running' = {} /\ \A u : RunsOf(u)' = {}
    BY <1>8 DEF Running, RunsOf, Restart, Crash, Reborn
  <2>2. UserCountExact'
    BY <1>8, <2>1, FS_EmptySet DEF UserCountExact, Restart, Crash, Reborn
  <2>3. ConcurrencyRespected' /\ UserCeiling'
    BY <2>1, FS_EmptySet, BoundsAssumption DEF ConcurrencyRespected, UserCeiling
  <2> QED BY <2>2, <2>3 DEF Counts
<1> QED BY <1>1, <1>2, <1>3, <1>4, <1>5, <1>6, <1>7, <1>8 DEF Next

\* The counters are exact and the limits respected throughout.
LEMMA CountsHold == Spec => []Counts
  BY TypedHolds, InitCounts, NextCounts, PTL DEF Spec

\* scheduler.py: never more than PIPELINE_CONCURRENCY runs, although one scan of
\* the dispatcher starts several and records are replaced under running tasks.
THEOREM NeverTooManyRuns == Spec => []ConcurrencyRespected
  BY CountsHold, PTL DEF Counts

\* scheduler.py: no user has more runs than MAX_CONCURRENT_PER_USER.
THEOREM NeverTooManyPerUser == Spec => []UserCeiling
  BY CountsHold, PTL DEF Counts

\* scheduler.py: the counter per user is the number of the user's runs.
THEOREM UserCountIsExact == Spec => []UserCountExact
  BY CountsHold, PTL DEF Counts

----------------------------------------------------------------------------
(* A record is run once *)

\* A record that is queued, or whose run has not entered the pipeline, and every
\* record that is not born yet, has not been run.
Fresh ==
  /\ \A b \in 1..MaxSubmits : b > births => entered[b] = 0
  /\ \A i \in Present : rec[i].status = "queued" => entered[rec[i].born] = 0
  /\ \A i \in Present \cap Running :
       task[i].at \in {"new", "copy"} => entered[rec[i].born] = 0

Once == RunOnce /\ Fresh

\* A new process has run nothing.
LEMMA InitOnce == Init => Once
<1> SUFFICES ASSUME Init PROVE Once
  OBVIOUS
<1>1. Present = {} BY DEF Init, Present
<1>2. \A b \in 1..MaxSubmits : entered[b] = 0 BY DEF Init
<1>3. RunOnce
  <2> SUFFICES ASSUME NEW b \in 1..MaxSubmits PROVE entered[b] <= 1
    BY DEF RunOnce
  <2>1. entered[b] = 0 BY <1>2
  <2> QED BY <2>1
<1>4. Fresh BY <1>1, <1>2 DEF Fresh
<1> QED BY <1>3, <1>4 DEF Once

\* A step that enters no run, creates no record, queues none and starts no run
\* but of queued records.
LEMMA OnceKept ==
  ASSUME Typed, Once, entered' = entered, births' = births,
         \A i \in Present' :
           /\ i \in Present /\ rec'[i].born = rec[i].born
           /\ rec'[i].status = "queued" => rec[i].status = "queued"
           /\ i \in Running' /\ task'[i].at \in {"new", "copy"} =>
                \/ i \in Running /\ task[i].at \in {"new", "copy"}
                \/ rec[i].status = "queued"
  PROVE  Once'
  BY DEF Once, RunOnce, Fresh

\* Giving a slot back starts no run and changes no other task.
LEMMA LeaveRunning ==
  ASSUME Typed, NEW i \in Running, Leave(i)
  PROVE  \A k \in Running' : k \in Running /\ task'[k] = task[k]
  BY DEF Leave, Running, Typed, TypeOK

\* A run that enters the pipeline is the first of its record.
LEMMA EnterOnce ==
  ASSUME Typed, Once, NEW i \in Running, task[i].at \in {"new", "copy"}, Enter(i)
  PROVE  Once'
<1>1. CASE i \in Present /\ rec[i].status # "canceled"
  <2> DEFINE b == rec[i].born
  <2>1. b \in 1..MaxSubmits /\ b <= births /\ entered[b] = 0
    BY <1>1, RecordFacts DEF Once, Fresh, Typed, BirthOrder, Record
  <2>2. entered' = [entered EXCEPT ![rec[i].born] = 1] /\ births' = births
    BY <1>1, <2>1 DEF Enter
  <2>3. i \in Ids /\ rec[i] \in Record /\ task[i] \in Task
    BY <1>1, RecordFacts DEF Typed
  <2>4. /\ rec'[i].born = rec[i].born /\ rec'[i].status = "processing"
        /\ \A k \in Ids \ {i} : rec'[k] = rec[k]
    BY <1>1, <2>3 DEF Enter, Record, Typed, TypeOK
  <2>5. /\ task'[i].at = "stage"
        /\ \A k \in Ids \ {i} : task'[k] = task[k]
    BY <1>1, <2>3 DEF Enter, Task, Typed, TypeOK
  <2>6. \A k \in Present' \ {i} : k \in Present /\ rec'[k] = rec[k] /\ rec[k].born # rec[i].born
    BY <1>1, <2>4 DEF Present, Typed, BirthOrder
  <2>7. \A c \in 1..MaxSubmits : entered'[c] = IF c = rec[i].born THEN 1 ELSE entered[c]
    BY <2>2 DEF Typed, TypeOK
  <2>8. \A k \in Present : rec[k].born \in 1..MaxSubmits
    BY RecordFacts DEF Typed, Record
  <2>9. RunOnce'
    BY <2>7 DEF Once, RunOnce
  <2>10. \A c \in 1..MaxSubmits : c > births => entered'[c] = 0
    BY <2>1, <2>7 DEF Once, Fresh, Typed, TypeOK
  <2>11. \A k \in Present' : rec'[k].status = "queued" => entered'[rec'[k].born] = 0
    BY <2>4, <2>6, <2>7, <2>8 DEF Once, Fresh
  <2>12. \A k \in Present' \cap Running' :
           task'[k].at \in {"new", "copy"} => entered'[rec'[k].born] = 0
    BY <2>5, <2>6, <2>7, <2>8 DEF Once, Fresh, Running
  <2> QED BY <2>2, <2>9, <2>10, <2>11, <2>12 DEF Once, Fresh
<1>2. CASE ~(i \in Present /\ rec[i].status # "canceled")
  BY <1>2, OnceKept, LeaveRunning DEF Enter, Present
<1> QED BY <1>1, <1>2

\* A new record has not been run, although another run of its id may go on.
LEMMA SubmitOnce ==
  ASSUME Typed, Once, NEW req \in Requests, Submit(req)
  PROVE  Once'
<1>1. births \in Nat /\ births' = births + 1 /\ entered' = entered
      /\ task' = task /\ births + 1 \in 1..MaxSubmits /\ births + 1 > births
  BY BoundsAssumption DEF Submit, Typed, TypeOK
<1>2. entered[births + 1] = 0
  BY <1>1 DEF Once, Fresh
<1>3. req.id \in Ids /\ rec'[req.id].born = births + 1
      /\ \A k \in Ids \ {req.id} : rec'[k] = rec[k]
  BY RequestsAssumption DEF Request, Submit, Typed, TypeOK
<1>4. \A k \in Present' : \/ entered[rec'[k].born] = 0
                          \/ k \in Present /\ rec'[k] = rec[k]
  BY <1>2, <1>3 DEF Present
<1> QED BY <1>1, <1>4 DEF Once, RunOnce, Fresh, Running

\* Every step of a run keeps each record's runs to one.
LEMMA RunStepOnce ==
  ASSUME Typed, Once, NEW i \in Ids, Run(i)
  PROVE  Once'
<1>1. i \in Running /\ task[i] \in Task
  BY RecordFacts DEF Run, Begin, CopyEnds, RunFails, Advance, NoSegments, Complete,
                     Metered, Typed
<1>2. \A k \in Present : rec[k] \in Record
  BY RecordFacts DEF Typed
<1>3. Fail(i) => Once'
  BY <1>1, <1>2, OnceKept, LeaveRunning DEF Fail, Present, Record, Typed, TypeOK
<1>4. CASE Begin(i)
  <2>1. CASE Enter(i)
    BY <1>1, <1>4, <2>1, EnterOnce DEF Begin
  <2>2. CASE /\ task' = [task EXCEPT ![i].at = "copy"]
             /\ UNCHANGED <<rec, perUser, phase, births, restarts, entered>>
    <3>1. \A k \in Ids \ {i} : task'[k] = task[k]
      BY <2>2 DEF Typed, TypeOK
    <3> QED BY <1>1, <1>4, <2>2, <3>1, OnceKept DEF Begin, Present, Running
  <2> QED BY <1>4, <2>1, <2>2 DEF Begin
<1>5. CASE CopyEnds(i)
  BY <1>1, <1>5, EnterOnce DEF CopyEnds
<1>6. CASE RunFails(i)
  BY <1>3, <1>6 DEF RunFails
<1>7. CASE Advance(i)
  <2>1. CASE i \in Present
    <3>1. /\ rec' = [rec EXCEPT ![i].stage = task[i].stage + 1]
          /\ task' = [task EXCEPT ![i].stage = @ + 1]
          /\ UNCHANGED <<births, entered>>
      BY <1>7, <2>1 DEF Advance
    <3>2. \A k \in Present' : k \in Present /\ rec'[k].born = rec[k].born
                                /\ rec'[k].status = rec[k].status
      <4>1. rec' = [rec EXCEPT ![i] = [rec[i] EXCEPT !.stage = task[i].stage + 1]]
        BY <2>1, <3>1 DEF Typed, TypeOK
      <4>2. rec'[i] = [rec[i] EXCEPT !.stage = task[i].stage + 1]
        BY <1>1, <4>1 DEF Typed, TypeOK
      <4>3. rec'[i].born = rec[i].born /\ rec'[i].status = rec[i].status
        BY <1>2, <2>1, <4>2 DEF Record
      <4>4. \A k \in Ids \ {i} : rec'[k] = rec[k]
        BY <4>1 DEF Typed, TypeOK
      <4> QED BY <2>1, <4>3, <4>4 DEF Present
    <3>3. \A k \in Ids : k \in Running' => k \in Running
                           /\ (k # i => task'[k] = task[k])
      BY <1>1, <3>1 DEF Running, Typed, TypeOK
    <3>4. task'[i].at = task[i].at
      BY <1>1, <3>1 DEF Task, Typed, TypeOK
    <3> QED BY <3>1, <3>2, <3>3, <3>4, OnceKept DEF Running
  <2> QED BY <1>3, <1>7, <2>1 DEF Advance
<1>8. CASE NoSegments(i)
  BY <1>1, <1>2, <1>8, OnceKept, LeaveRunning
     DEF NoSegments, Completed, Present, Record, Typed, TypeOK
<1>9. CASE Complete(i)
  <2>1. \A k \in Present' : k \in Present /\ rec'[k].born = rec[k].born
                              /\ (rec'[k].status = "queued" => rec[k].status = "queued")
    BY <1>2, <1>9 DEF Complete, Completed, Present, Record, Typed, TypeOK
  <2>2. task'[i].at = "meter" /\ \A k \in Ids \ {i} : task'[k] = task[k]
    BY <1>1, <1>9 DEF Complete, Task, Typed, TypeOK
  <2> QED BY <1>9, <2>1, <2>2, OnceKept DEF Complete, Running
<1>10. CASE Metered(i)
  BY <1>1, <1>10, OnceKept, LeaveRunning DEF Metered, Present
<1> QED BY <1>4, <1>5, <1>6, <1>7, <1>8, <1>9, <1>10 DEF Run

\* One scan of the dispatcher only starts runs of queued records.
LEMMA DispatchOnce ==
  ASSUME Typed, Once, Dispatch
  PROVE  Once'
<1>1. PICK started \in SUBSET Queued :
        task' = [i \in Ids |->
                   IF i \in started
                     THEN [at |-> "new", stage |-> 0, user |-> UserKey(rec[i].req)]
                     ELSE task[i]]
  BY DEF Dispatch
<1>2. \A i \in started : rec[i].status = "queued"
  BY DEF Queued, WithStatus
<1>3. \A i \in Ids \ started : task'[i] = task[i]
  BY <1>1
<1> QED BY <1>2, <1>3, OnceKept DEF Dispatch, Present, Running

\* Every step keeps each record's runs to one.
LEMMA NextOnce == Typed /\ Once /\ [Next]_vars => Once'
<1> SUFFICES ASSUME Typed, Once, [Next]_vars PROVE Once'
  OBVIOUS
<1>0. \A k \in Present : rec[k] \in Record
  BY RecordFacts DEF Typed
<1>1. ASSUME NEW req \in Requests, Submit(req) PROVE Once'
  BY <1>1, SubmitOnce
<1>2. ASSUME NEW i \in Ids, Cancel(i) PROVE Once'
  <2>1. \A k \in Present' : k \in Present /\ rec'[k].born = rec[k].born
          /\ (rec'[k].status = "queued" => rec[k].status = "queued")
    BY <1>0, <1>2 DEF Cancel, WithStatus, Present, Record, Typed, TypeOK
  <2> QED BY <1>2, <2>1, OnceKept DEF Cancel, Running
<1>3. ASSUME NEW i \in Ids, Expire(i) PROVE Once'
  BY <1>3, OnceKept DEF Expire, Present, Running, Typed, TypeOK
<1>4. ASSUME NEW i \in Ids, Run(i) PROVE Once'
  BY <1>4, RunStepOnce
<1>5. ASSUME NEW i \in Ids, Interrupt(i) PROVE Once'
  <2>1. \A k \in Present' : k \in Present /\ rec'[k].born = rec[k].born
          /\ (rec'[k].status = "queued" => rec[k].status = "queued")
    BY <1>0, <1>5 DEF Interrupt, Present, Record, Typed, TypeOK
  <2> QED BY <1>5, <2>1, OnceKept, LeaveRunning DEF Interrupt
<1>6. CASE Dispatch
  BY <1>6, DispatchOnce
<1>7. ASSUME NEW overdue \in SUBSET Ids, Sweep(overdue) PROVE Once'
  <2>1. \A k \in Present' : k \in Present /\ rec'[k].born = rec[k].born
          /\ (rec'[k].status = "queued" => rec[k].status = "queued")
    BY <1>0, <1>7 DEF Sweep, Reapable, WithStatus, Present, Record
  <2> QED BY <1>7, <2>1, OnceKept DEF Sweep, Running
<1>8. CASE Stop \/ UNCHANGED vars
  BY <1>8, OnceKept DEF Stop, vars, Present, Running
<1>9. CASE Restart \/ Crash
  BY <1>9, OnceKept DEF Restart, Crash, Reborn, Present, Running
<1> QED BY <1>1, <1>2, <1>3, <1>4, <1>5, <1>6, <1>7, <1>8, <1>9 DEF Next

\* pipeline.py, scheduler.py: a record enters the pipeline at most once, even when
\* its run is still copying the source while the dispatcher and the watchdog work.
THEOREM EveryRecordRunsOnce == Spec => []RunOnce
<1>1. Once => RunOnce BY DEF Once
<1> QED BY <1>1, TypedHolds, InitOnce, NextOnce, PTL DEF Spec

----------------------------------------------------------------------------
(* A cancellation before the pipeline is entered *)

\* The record of job i is dropped, replaced by a new one, or stays out of work.
Sticks(i) ==
  \/ rec'[i] = NoRecord
  \/ rec'[i].born > rec[i].born
  \/ rec'[i].status \notin {"processing", "completed"}

\* The step of another job leaves the record alone.
LEMMA OthersKept ==
  ASSUME Typed, NEW k \in Ids, Run(k) \/ Interrupt(k) \/ Cancel(k) \/ Expire(k),
         NEW i \in Ids \ {k}
  PROVE  rec'[i] = rec[i]
<1>1. Enter(k) \/ Fail(k) => rec'[i] = rec[i]
  BY DEF Enter, Fail, Typed, TypeOK
<1>2. ASSUME Run(k) PROVE rec'[i] = rec[i]
  BY <1>1, <1>2 DEF Run, Begin, CopyEnds, RunFails, Advance, NoSegments, Complete,
                    Metered, Completed, Typed, TypeOK
<1>3. ASSUME Interrupt(k) \/ Cancel(k) \/ Expire(k) PROVE rec'[i] = rec[i]
  BY <1>3 DEF Interrupt, Cancel, Expire, Typed, TypeOK
<1> QED BY <1>2, <1>3

\* No step processes or completes a canceled record whose run has not begun.
LEMMA CancelSticks ==
  ASSUME Typed, [Next]_vars, NEW i \in WithStatus({"canceled"}),
         i \notin Running \/ task[i].at \in {"new", "copy"}
  PROVE  Sticks(i)
<1>0. i \in Ids /\ i \in Present /\ rec[i] \in Record /\ rec[i].status = "canceled"
  BY RecordFacts DEF WithStatus, Typed
<1>1. ASSUME rec'[i] = rec[i] PROVE Sticks(i)
  BY <1>0, <1>1 DEF Sticks
<1>2. ASSUME NEW req \in Requests, Submit(req) PROVE Sticks(i)
  <2>1. CASE req.id = i
    <3>1. rec'[i].born = births + 1
      BY <1>0, <1>2, <2>1 DEF Submit, Typed, TypeOK
    <3>2. rec[i].born <= births /\ rec[i].born \in Int /\ births \in Int
      BY <1>0 DEF Typed, TypeOK, BirthOrder, Record
    <3> QED BY <3>1, <3>2 DEF Sticks
  <2>2. CASE req.id # i
    BY <1>0, <1>1, <1>2, <2>2 DEF Submit, Typed, TypeOK
  <2> QED BY <2>1, <2>2
<1>3. ASSUME NEW k \in Ids, Cancel(k) PROVE Sticks(i)
  BY <1>0, <1>1, <1>3, OthersKept DEF Cancel, WithStatus, Pending
<1>4. ASSUME NEW k \in Ids, Expire(k) PROVE Sticks(i)
  BY <1>0, <1>1, <1>4, OthersKept DEF Expire, Sticks, Typed, TypeOK
<1>5. ASSUME NEW k \in Ids, Run(k) PROVE Sticks(i)
  <2>1. CASE k # i
    BY <1>0, <1>1, <1>5, <2>1, OthersKept
  <2>2. CASE k = i
    <3>1. i \in Running /\ task[i].at \in {"new", "copy"}
      BY <1>5, <2>2 DEF Run, Begin, CopyEnds, RunFails, Advance, NoSegments,
                        Complete, Metered
    <3>2. Enter(i) => rec'[i] = rec[i]
      BY <1>0 DEF Enter
    <3>3. Fail(i) => rec'[i].status = "failed"
      BY <1>0 DEF Fail, Record, Typed, TypeOK
    <3>4. rec'[i] = rec[i] \/ rec'[i].status = "failed"
      BY <1>5, <2>2, <3>1, <3>2, <3>3
         DEF Run, Begin, CopyEnds, RunFails, Advance, NoSegments, Complete, Metered
    <3> QED BY <1>1, <3>4 DEF Sticks
  <2> QED BY <2>1, <2>2
<1>6. ASSUME NEW k \in Ids, Interrupt(k) PROVE Sticks(i)
  <2>1. CASE k # i
    BY <1>0, <1>1, <1>6, <2>1, OthersKept
  <2>2. CASE k = i
    <3>1. rec'[i] = rec[i] \/ rec'[i].status = "canceled"
      BY <1>0, <1>6, <2>2 DEF Interrupt, Record, Typed, TypeOK
    <3> QED BY <1>1, <3>1 DEF Sticks
  <2> QED BY <2>1, <2>2
<1>7. CASE Dispatch \/ Stop \/ UNCHANGED vars
  BY <1>1, <1>7 DEF Dispatch, Stop, vars
<1>8. ASSUME NEW overdue \in SUBSET Ids, Sweep(overdue) PROVE Sticks(i)
  BY <1>0, <1>1, <1>8 DEF Sweep, Reapable, WithStatus, Pending
<1>9. CASE Restart \/ Crash
  BY <1>0, <1>9 DEF Restart, Crash, Reborn, Sticks
<1> QED BY <1>2, <1>3, <1>4, <1>5, <1>6, <1>7, <1>8, <1>9 DEF Next

\* main.py cancel_job, pipeline.py: a job canceled before its run has entered the
\* pipeline is never processed.
THEOREM CancelSticksBeforeRun == Spec => CancelBeforeRunSticks
<1>1. Typed /\ [Next]_vars =>
        [\A i \in Ids :
           /\ i \in WithStatus({"canceled"})
           /\ i \notin Running \/ task[i].at \in {"new", "copy"}
           => \/ rec'[i] = NoRecord
              \/ rec'[i].born > rec[i].born
              \/ rec'[i].status \notin {"processing", "completed"}]_rec
  BY CancelSticks DEF Sticks
<1> QED BY <1>1, TypedHolds, PTL DEF Spec, CancelBeforeRunSticks
=============================================================================
