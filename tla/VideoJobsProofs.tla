-------------------------- MODULE VideoJobsProofs --------------------------
(***************************************************************************)
(* Proofs about the video worker's jobs and files, for every set of ids    *)
(* and URLs, also ids whose patterns find each other's files, every list   *)
(* of tools and every number of calls and kills.                           *)
(***************************************************************************)
EXTENDS VideoJobs, FiniteSetTheorems, TLAPS

Whole(u) == [url |-> u, whole |-> TRUE]
Waiting(d) == call[d].at # "done"

\* A call that fetches has a tool to do it with.
StepInList ==
  \A d \in Begun : call[d].at = "fetch" => call[d].step \in DOMAIN Tools[call[d].url]

\* The calls come in order.
InOrder == \E k \in 0..MaxCalls : Begun = 1..k

Typed == TypeOK /\ StepInList /\ InOrder

\* Unless their URL is doubtful, the calls for an id are for one URL, and only one
\* of them is not over.
OneTask ==
  \A c, d \in Begun :
    call[c].id = call[d].id /\ call[d].url \notin doubtful
      => /\ call[c].url = call[d].url
         /\ Waiting(c) /\ Waiting(d) => c = d

\* Output files and records come from calls for their id.
FilesOwned ==
  \A p \in Output :
    disk[p] # Never => \E d \in Begun : call[d].id = p.id /\ call[d].url = disk[p].url
RecordsOwned ==
  \A i \in Ids :
    rec[i] # NoRecord => \E d \in Begun : call[d].id = i /\ call[d].url = rec[i].url

\* A fragment is what a tool is writing now.
Fragments ==
  \A p \in Output :
    disk[p] # Never /\ ~disk[p].whole /\ disk[p].url \notin doubtful
      => \E d \in Begun : call[d].at = "fetch" /\ Target(d) = p

\* What download() has returned is the file of the call or of the cache.
GotOwn ==
  \A d \in Begun :
    call[d].at \in {"upload", "extract"} /\ call[d].url \notin doubtful
      => /\ call[d].got \in {call[d].url} \cup {p \in Output : p.id = call[d].id}
         /\ disk[call[d].got] \in {Never, Whole(call[d].url)}

\* The job of a completed record is over, and its file is its own or the cache's.
Settled ==
  \A i \in Ids :
    rec[i] # NoRecord /\ rec[i].status = "completed" /\ rec[i].url \notin doubtful
      => /\ \A d \in Begun : call[d].id = i => ~Waiting(d)
         /\ rec[i].path \in {rec[i].url} \cup {p \in Output : p.id = i}
         /\ disk[rec[i].path] \in {Never, Whole(rec[i].url)}

CacheWhole == \A u \in Urls \ doubtful : disk[u] \in {Never, Whole(u)}

FilesInv ==
  /\ Typed
  /\ OneTask /\ FilesOwned /\ RecordsOwned /\ Fragments /\ GotOwn
  /\ Settled /\ CacheWhole

----------------------------------------------------------------------------
(* Types *)

\* _target of a call that fetches is an output file of its id.
LEMMA TargetFacts ==
  ASSUME Typed, NEW d \in Begun, call[d].at = "fetch"
  PROVE  /\ Target(d) \in Output
         /\ Target(d).id = call[d].id
         /\ Tool(d) \in {"direct", "script", "ytdlp"}
<1>1. call[d] \in Call /\ call[d].step \in DOMAIN Tools[call[d].url]
  BY DEF Typed, TypeOK, StepInList, Begun
<1>2. Tools[call[d].url] \in Seq({"direct", "script", "ytdlp"})
  BY <1>1, ToolsAssumption DEF Call
<1>3. Tool(d) \in {"direct", "script", "ytdlp"}
  BY <1>1, <1>2 DEF Tool
<1>4. Target(d).id = call[d].id
  BY DEF Target
<1>5. Target(d).name \in {"direct", "douyin"} \cup Urls
  BY <1>1, <1>3 DEF Target, Call
<1> QED BY <1>1, <1>3, <1>4, <1>5 DEF Target, Output, Call

LEMMA TypedInit == Init => Typed
<1> SUFFICES ASSUME Init PROVE Typed
  OBVIOUS
<1>1. TypeOK
  BY DEF Init, TypeOK
<1>2. Begun = {}
  BY DEF Init, Begun
<1>3. 0 \in 0..MaxCalls /\ 1..0 = {}
  BY NumbersAssumption
<1> QED BY <1>1, <1>2, <1>3 DEF Typed, StepInList, InOrder

\* update_job keeps the records' type.
LEMMA UpdatedFacts ==
  ASSUME Typed, NEW d \in Begun, NEW status \in {"queued", "processing", "completed", "failed"},
         NEW path \in Path \cup {Never}, NEW stored \in BOOLEAN
  PROVE  /\ Updated(d, status, path, stored) \in [Ids -> Record \cup {NoRecord}]
         /\ \A i \in Ids :
              LET r == Updated(d, status, path, stored)[i]
              IN  \/ r = rec[i]
                  \/ /\ i = call[d].id /\ rec[i] # NoRecord
                     /\ r \in Record /\ r.url = rec[i].url /\ r.status = status
                     /\ r.path = path
<1> USE DEF Typed, TypeOK
<1>1. call[d].id \in Ids /\ rec \in [Ids -> Record \cup {NoRecord}]
  BY DEF Begun, Call
<1>2. CASE call[d].route = "jobs" /\ rec[call[d].id] # NoRecord
  <2> DEFINE i == call[d].id
             r == [rec[i] EXCEPT !.status = status, !.path = path, !.stored = stored]
  <2>1. rec[i] \in Record
    BY <1>1, <1>2
  <2>2. r \in Record /\ r.url = rec[i].url /\ r.status = status /\ r.path = path
    BY <2>1 DEF Record
  <2>3. Updated(d, status, path, stored) = [rec EXCEPT ![i] = r]
    BY <1>1, <1>2, <2>1 DEF Updated, Record
  <2> QED BY <1>1, <1>2, <2>2, <2>3
<1>3. CASE ~(call[d].route = "jobs" /\ rec[call[d].id] # NoRecord)
  BY <1>1, <1>3 DEF Updated
<1> QED BY <1>2, <1>3

LEMMA KeptFacts ==
  ASSUME Typed, NEW d \in Begun
  PROVE  Keep(d) \in Path \cup {Never} /\ KeepKey(d) \in BOOLEAN
BY DEF Typed, TypeOK, Begun, Call, Keep, KeepKey, Record

----------------------------------------------------------------------------
(* One call moves *)

Own(d) == {p \in Output : p.id = call[d].id}

\* The record: its video stays, and it completes only after the upload.
RecordMoves(d, n) ==
  /\ rec' \in [Ids -> Record \cup {NoRecord}]
  /\ \A i \in Ids :
       \/ rec'[i] = rec[i]
       \/ /\ i = call[d].id /\ rec[i] # NoRecord
          /\ rec'[i] # NoRecord /\ rec'[i].url = rec[i].url
          /\ rec'[i].status = "completed"
               => /\ call[d].at = "upload" /\ n.at = "done"
                  /\ rec'[i].path = call[d].got

\* The disk: files that the pattern of the id finds go, or the tool writes its own; a
\* cache entry goes, or the entry of the URL is written.
DiskMoves(d) ==
  /\ disk' \in [Path -> Content \cup {Never}]
  /\ \A p \in Output :
       \/ disk'[p] = disk[p]
       \/ disk'[p] = Never
       \/ p \in Own(d) /\ call[d].at = "fetch" /\ p = Target(d) /\ disk'[p].url = call[d].url
  /\ \A u \in Urls :
       \/ disk'[u] \in {disk[u], Never}
       \/ u = call[d].url /\ (u \in doubtful' \/ disk'[u] = Whole(u))

\* No fragment outlives its tool, and what is returned is the video.
LeavesClean(d, n) ==
  call[d].url \notin doubtful' =>
    /\ call[d].at = "fetch" /\ n # call[d]
         => \A p \in Own(d) : disk'[p] # Never => disk'[p].whole
    /\ n.at \in {"upload", "extract"}
         => /\ n.got \in {call[d].url} \cup Own(d)
            /\ disk'[n.got] \in {Never, Whole(call[d].url)}

Moves(d, n) ==
  /\ call[d].at # "done"
  /\ n \in Call /\ n.id = call[d].id /\ n.url = call[d].url
  /\ call' = [call EXCEPT ![d] = n]
  /\ n.at = "fetch" => n.step \in DOMAIN Tools[n.url]
  /\ streams' \subseteq Path /\ crashes' = crashes
  /\ doubtful \subseteq doubtful' /\ doubtful' \subseteq Urls
  /\ RecordMoves(d, n) /\ DiskMoves(d) /\ LeavesClean(d, n)

\* A call that moves is the only one that changes.
LEMMA BegunStays ==
  ASSUME Typed, NEW d \in Begun, NEW n \in Call, call' = [call EXCEPT ![d] = n]
  PROVE  /\ Begun' = Begun
         /\ \A e \in Begun : e # d => call'[e] = call[e]
         /\ call'[d] = n
         /\ call' \in [Downloads -> Call \cup {NoCall}]
BY NullAssumption DEF Typed, TypeOK, Begun

\* Such a step keeps the types, and then the whole invariant.
LEMMA MovesTyped ==
  ASSUME Typed, NEW d \in Begun, NEW n, Moves(d, n)
  PROVE  Typed'
<1>1. n \in Call /\ call' = [call EXCEPT ![d] = n]
  BY DEF Moves
<1>2. /\ Begun' = Begun /\ call'[d] = n
      /\ \A e \in Begun : e # d => call'[e] = call[e]
      /\ call' \in [Downloads -> Call \cup {NoCall}]
  BY <1>1, BegunStays
<1>3. TypeOK'
  BY <1>2 DEF Moves, RecordMoves, DiskMoves, Typed, TypeOK
<1>4. StepInList'
  BY <1>2 DEF Moves, Typed, StepInList
<1>5. InOrder'
  BY <1>2 DEF Typed, InOrder
<1> QED BY <1>3, <1>4, <1>5 DEF Typed

LEMMA MovesKeep ==
  ASSUME FilesInv, NEW d \in Begun, NEW n, Moves(d, n)
  PROVE  FilesInv'
<1> DEFINE c == call[d]
<1>1. Typed /\ Typed' /\ c \in Call
  BY MovesTyped DEF FilesInv, Typed, TypeOK, Begun
<1>2. n \in Call /\ call' = [call EXCEPT ![d] = n] /\ n.id = c.id /\ n.url = c.url
  BY DEF Moves
<1>3. /\ Begun' = Begun /\ call'[d] = n
      /\ \A e \in Begun : e # d => call'[e] = call[e]
  BY <1>1, <1>2, BegunStays
<1>4. /\ \A e \in Begun : call'[e].id = call[e].id /\ call'[e].url = call[e].url
      /\ \A e \in Begun : Waiting(e)' => Waiting(e)
      /\ Waiting(d)
  BY <1>2, <1>3 DEF Moves, Waiting
<1>5. doubtful \subseteq doubtful'
  BY DEF Moves
<1>6. \A e \in Begun : /\ e # d /\ call[e].id = c.id /\ call[e].url \notin doubtful'
                         => ~Waiting(e) /\ call[e].url = c.url
  BY <1>4, <1>5 DEF FilesInv, OneTask
<1>7. OneTask'
  BY <1>3, <1>4, <1>5 DEF FilesInv, OneTask
<1>8. \A e \in Begun : e # d => Target(e)' = Target(e)
  BY <1>3 DEF Target, Tool
<1>9. \A p \in Output :
        \/ disk'[p] = disk[p]
        \/ disk'[p] = Never
        \/ p.id = c.id /\ c.at = "fetch" /\ p = Target(d) /\ disk'[p].url = c.url
  BY DEF Moves, DiskMoves, Own
<1>10. \A u \in Urls \ doubtful' : disk'[u] \in {disk[u], Never, Whole(u)}
  BY DEF Moves, DiskMoves
<1>11. FilesOwned'
  <2> SUFFICES ASSUME NEW p \in Output, disk'[p] # Never
               PROVE  \E e \in Begun : call'[e].id = p.id /\ call'[e].url = disk'[p].url
    BY <1>3 DEF FilesOwned
  <2>1. CASE disk'[p] = disk[p]
    BY <2>1, <1>4 DEF FilesInv, FilesOwned
  <2>2. CASE p.id = c.id /\ disk'[p].url = c.url
    BY <2>2, <1>4
  <2> QED BY <2>1, <2>2, <1>9
<1>12. \A i \in Ids :
         \/ rec'[i] = rec[i]
         \/ /\ i = c.id /\ rec[i] # NoRecord
            /\ rec'[i] # NoRecord /\ rec'[i].url = rec[i].url
            /\ rec'[i].status = "completed"
                 => c.at = "upload" /\ n.at = "done" /\ rec'[i].path = c.got
  BY DEF Moves, RecordMoves
<1>13. RecordsOwned'
  <2> SUFFICES ASSUME NEW i \in Ids, rec'[i] # NoRecord
               PROVE  \E e \in Begun : call'[e].id = i /\ call'[e].url = rec'[i].url
    BY <1>3 DEF RecordsOwned
  <2>1. rec[i] # NoRecord /\ rec'[i].url = rec[i].url
    BY <1>12
  <2> QED BY <2>1, <1>4 DEF FilesInv, RecordsOwned
<1>14. Fragments'
  <2> SUFFICES ASSUME NEW p \in Output, disk'[p] # Never, ~disk'[p].whole,
                      disk'[p].url \notin doubtful'
               PROVE  \E e \in Begun : call'[e].at = "fetch" /\ Target(e)' = p
    BY <1>3 DEF Fragments
  <2>1. PICK o \in Begun : call[o].id = p.id /\ call[o].url = disk'[p].url
    BY <1>11, <1>3, <1>4 DEF FilesOwned
  <2>2. CASE disk'[p] = disk[p]
    <3>1. PICK e \in Begun : call[e].at = "fetch" /\ Target(e) = p
      BY <2>2, <1>5 DEF FilesInv, Fragments
    <3>2. CASE e # d
      BY <3>1, <3>2, <1>3, <1>8
    <3>3. CASE e = d
      <4>1. p.id = c.id /\ c.at = "fetch"
        BY <3>1, <3>3, <1>1, TargetFacts
      <4>2. c.url \notin doubtful'
        BY <4>1, <2>1, <1>5 DEF FilesInv, OneTask
      <4>3. n = c
        BY <4>1, <4>2 DEF Moves, LeavesClean, Own
      <4> QED BY <3>1, <3>3, <4>3, <1>3 DEF Target, Tool
    <3> QED BY <3>2, <3>3
  <2>3. CASE p.id = c.id /\ c.at = "fetch" /\ p = Target(d) /\ disk'[p].url = c.url
    <3>1. n = c
      BY <2>3 DEF Moves, LeavesClean, Own
    <3> QED BY <2>3, <3>1, <1>3 DEF Target, Tool
  <2> QED BY <2>2, <2>3, <1>9
<1>16. GotOwn'
  <2> SUFFICES ASSUME NEW e \in Begun, call'[e].at \in {"upload", "extract"},
                      call'[e].url \notin doubtful'
               PROVE  /\ call'[e].got \in {call'[e].url} \cup {p \in Output : p.id = call'[e].id}
                      /\ disk'[call'[e].got] \in {Never, Whole(call'[e].url)}
    BY <1>3 DEF GotOwn, Whole
  <2>1. CASE e = d
    BY <2>1, <1>2, <1>3 DEF Moves, LeavesClean, Own
  <2>2. CASE e # d
    <3>1. call'[e] = call[e] /\ Waiting(e)
      BY <2>2, <1>3 DEF Waiting
    <3>2. call[e].id # c.id /\ call[e].url \in Urls
      BY <2>2, <3>1, <1>1, <1>6 DEF Typed, TypeOK, Begun, Call
    <3>3. /\ call[e].got \in {call[e].url} \cup {p \in Output : p.id = call[e].id}
          /\ disk[call[e].got] \in {Never, Whole(call[e].url)}
      BY <3>1, <1>5 DEF FilesInv, GotOwn
    <3> QED BY <3>1, <3>2, <3>3, <1>9, <1>10
  <2> QED BY <2>1, <2>2
<1>17. Settled'
  <2> SUFFICES ASSUME NEW i \in Ids, rec'[i] # NoRecord, rec'[i].status = "completed",
                      rec'[i].url \notin doubtful'
               PROVE  /\ \A e \in Begun : call'[e].id = i => ~Waiting(e)'
                      /\ rec'[i].path \in {rec'[i].url} \cup {p \in Output : p.id = i}
                      /\ disk'[rec'[i].path] \in {Never, Whole(rec'[i].url)}
    BY <1>3 DEF Settled, Whole
  <2>1. PICK o \in Begun : call[o].id = i /\ call[o].url = rec'[i].url
    BY <1>13, <1>3, <1>4 DEF RecordsOwned
  <2>2. rec'[i].url \in Urls
    BY <2>1, <1>1 DEF Typed, TypeOK, Begun, Call
  <2>3. CASE rec'[i] = rec[i]
    <3>1. /\ \A e \in Begun : call[e].id = i => ~Waiting(e)
          /\ rec[i].path \in {rec[i].url} \cup {p \in Output : p.id = i}
          /\ disk[rec[i].path] \in {Never, Whole(rec[i].url)}
      BY <2>3, <1>5 DEF FilesInv, Settled
    <3>2. i # c.id
      BY <3>1, <1>4
    <3> QED BY <2>2, <2>3, <3>1, <3>2, <1>4, <1>9, <1>10
  <2>4. CASE /\ i = c.id /\ c.at = "upload" /\ n.at = "done" /\ rec'[i].path = c.got
    <3>1. c.url = rec'[i].url
      BY <2>1, <2>4, <1>5 DEF FilesInv, OneTask
    <3>2. /\ c.got \in {c.url} \cup {p \in Output : p.id = i}
          /\ disk[c.got] \in {Never, Whole(c.url)}
      BY <2>4, <3>1, <1>5 DEF FilesInv, GotOwn
    <3>3. disk'[c.got] \in {Never, Whole(c.url)}
      BY <2>2, <2>4, <3>1, <3>2, <1>9, <1>10
    <3>4. \A e \in Begun : call'[e].id = i => ~Waiting(e)'
      BY <2>4, <3>1, <1>2, <1>3, <1>4, <1>5, <2>1 DEF FilesInv, OneTask, Waiting
    <3> QED BY <2>4, <3>1, <3>2, <3>3, <3>4
  <2> QED BY <2>3, <2>4, <1>12
<1>18. CacheWhole'
  BY <1>5, <1>10 DEF FilesInv, CacheWhole, Whole
<1> QED BY <1>1, <1>7, <1>11, <1>13, <1>14, <1>16, <1>17, <1>18 DEF FilesInv

----------------------------------------------------------------------------
(* The steps of a call *)

LEMMA SameDisk ==
  ASSUME Typed, NEW d \in Begun, UNCHANGED disk
  PROVE  DiskMoves(d)
BY DEF Typed, TypeOK, DiskMoves

LEMMA SameRecords ==
  ASSUME Typed, NEW d \in Begun, NEW n, UNCHANGED rec
  PROVE  RecordMoves(d, n)
BY DEF Typed, TypeOK, RecordMoves

\* A status other than completed.
LEMMA StatusMoves ==
  ASSUME Typed, NEW d \in Begun, NEW n, NEW status \in {"processing", "failed"},
         rec' = Updated(d, status, Keep(d), KeepKey(d))
  PROVE  RecordMoves(d, n)
<1>1. /\ Keep(d) \in Path \cup {Never} /\ KeepKey(d) \in BOOLEAN
      /\ status \in {"queued", "processing", "completed", "failed"}
  BY KeptFacts
<1> HIDE DEF Keep, KeepKey
<1>2. /\ rec' \in [Ids -> Record \cup {NoRecord}]
      /\ \A i \in Ids :
           \/ rec'[i] = rec[i]
           \/ /\ i = call[d].id /\ rec[i] # NoRecord /\ rec'[i] \in Record
              /\ rec'[i].url = rec[i].url /\ rec'[i].status = status
  BY <1>1, UpdatedFacts
<1>3. status # "completed"
  OBVIOUS
<1> QED BY <1>2, <1>3, NullAssumption DEF RecordMoves

LEMMA StartMoves ==
  ASSUME FilesInv, NEW d \in Begun, Start(d)
  PROVE  \E n : Moves(d, n)
<1> DEFINE n == [call[d] EXCEPT !.at = "waiting"]
<1>1. Typed /\ call[d] \in Call
  BY DEF FilesInv, Typed, TypeOK, Begun
<1>2. /\ n \in Call /\ n.id = call[d].id /\ n.url = call[d].url /\ n.at = "waiting"
      /\ call' = [call EXCEPT ![d] = n]
  BY <1>1 DEF Start, Resolve, Call
<1>3. RecordMoves(d, n) /\ DiskMoves(d)
  BY <1>1, StatusMoves, SameDisk DEF Start
<1>4. call[d].at = "created"
  BY DEF Start
<1> HIDE DEF n
<1>5. LeavesClean(d, n)
  BY <1>2, <1>4 DEF LeavesClean
<1>6. Moves(d, n)
  BY <1>1, <1>2, <1>3, <1>4, <1>5 DEF Moves, Start, Typed, TypeOK
<1> QED BY <1>6

\* Over: the call ends, whatever becomes of its record.
LEMMA OverMoves ==
  ASSUME FilesInv, NEW d \in Begun, call[d].at # "done", Resolve(d, "done"),
         rec' = Updated(d, "failed", Keep(d), KeepKey(d)) \/ UNCHANGED rec,
         streams' \subseteq Path, crashes' = crashes,
         doubtful \subseteq doubtful', doubtful' \subseteq Urls, DiskMoves(d),
         call[d].url \notin doubtful' /\ call[d].at = "fetch"
           => \A p \in Own(d) : disk'[p] # Never => disk'[p].whole
  PROVE  \E n : Moves(d, n)
<1> DEFINE n == [call[d] EXCEPT !.at = "done"]
<1>1. Typed /\ call[d] \in Call
  BY DEF FilesInv, Typed, TypeOK, Begun
<1>2. /\ n \in Call /\ n.id = call[d].id /\ n.url = call[d].url /\ n.at = "done"
      /\ call' = [call EXCEPT ![d] = n]
  BY <1>1 DEF Resolve, Call
<1>3. RecordMoves(d, n)
  BY <1>1, StatusMoves, SameRecords
<1> HIDE DEF n
<1>4. LeavesClean(d, n)
  BY <1>2 DEF LeavesClean
<1>5. Moves(d, n)
  BY <1>2, <1>3, <1>4 DEF Moves
<1> QED BY <1>5

LEMMA FailMoves ==
  ASSUME FilesInv, NEW d \in Begun, call[d].at # "done", Fail(d), crashes' = crashes,
         doubtful \subseteq doubtful', doubtful' \subseteq Urls, DiskMoves(d),
         call[d].url \notin doubtful' /\ call[d].at = "fetch"
           => \A p \in Own(d) : disk'[p] # Never => disk'[p].whole
  PROVE  \E n : Moves(d, n)
<1>1. streams' \subseteq Path /\ Resolve(d, "done")
  BY DEF Fail, FilesInv, Typed, TypeOK
<1>2. rec' = Updated(d, "failed", Keep(d), KeepKey(d))
  BY DEF Fail
<1> QED BY <1>1, <1>2, OverMoves

\* No fragment is left to the next tool.
LEMMA NextToolMoves ==
  ASSUME FilesInv, NEW d \in Begun, call[d].at # "done", TryNext(d), crashes' = crashes,
         doubtful \subseteq doubtful', doubtful' \subseteq Urls, DiskMoves(d),
         call[d].url \notin doubtful' /\ call[d].at = "fetch"
           => \A p \in Own(d) : disk'[p] # Never => disk'[p].whole
  PROVE  \E n : Moves(d, n)
<1>1. CASE Fail(d)
  BY <1>1, FailMoves
<1>2. CASE /\ call[d].step < Len(Tools[call[d].url])
           /\ call' = [call EXCEPT ![d].step = @ + 1, ![d].at = "fetch"]
           /\ UNCHANGED <<rec, streams>>
  <2> DEFINE n == [call[d] EXCEPT !.step = @ + 1, !.at = "fetch"]
  <2>1. Typed /\ call[d] \in Call
    BY DEF FilesInv, Typed, TypeOK, Begun
  <2>2. Tools[call[d].url] \in Seq({"direct", "script", "ytdlp"})
    BY <2>1, ToolsAssumption DEF Call
  <2>3. /\ n \in Call /\ n.id = call[d].id /\ n.url = call[d].url /\ n.at = "fetch"
        /\ n.step = call[d].step + 1
        /\ call' = [call EXCEPT ![d] = n]
    <3>1. call[d].step + 1 \in Nat
      BY <2>1 DEF Call
    <3>2. n \in Call /\ n.id = call[d].id /\ n.url = call[d].url /\ n.at = "fetch"
      BY <2>1, <3>1 DEF Call
    <3>3. n.step = call[d].step + 1
      BY <2>1 DEF Call
    <3>4. call \in [Downloads -> Call \cup {NoCall}] /\ d \in Downloads
      BY <2>1 DEF Typed, TypeOK, Begun
    <3>5. call' = [call EXCEPT ![d] = n]
      BY <3>4, <1>2
    <3> QED BY <3>2, <3>3, <3>5
  <2>4. n.step \in DOMAIN Tools[n.url]
    BY <2>1, <2>2, <2>3, <1>2 DEF Call
  <2>5. RecordMoves(d, n)
    BY <2>1, <1>2, SameRecords
  <2> HIDE DEF n
  <2>6. LeavesClean(d, n)
    BY <2>3 DEF LeavesClean
  <2>7. Moves(d, n)
    BY <2>1, <2>3, <2>4, <2>5, <2>6, <1>2 DEF Moves, Typed, TypeOK
  <2> QED BY <2>7
<1> QED BY <1>1, <1>2 DEF TryNext

\* download() returns p, which holds the video and is the call's own or the cache's.
LEMMA ReturnMoves ==
  ASSUME FilesInv, NEW d \in Begun, call[d].at # "done", NEW p \in Path, Return(d, p),
         crashes' = crashes,
         doubtful \subseteq doubtful', doubtful' \subseteq Urls, DiskMoves(d),
         call[d].url \notin doubtful' =>
           /\ p \in {call[d].url} \cup Own(d)
           /\ disk'[p] \in {Never, Whole(call[d].url)}
           /\ call[d].at = "fetch"
                => \A q \in Own(d) : disk'[q] # Never => disk'[q].whole
  PROVE  \E n : Moves(d, n)
<1> DEFINE at == CASE call[d].route = "jobs" -> "upload"
                   [] call[d].route = "download" -> "done"
                   [] call[d].route = "audio" -> "extract"
           n == [call[d] EXCEPT !.got = p, !.at = at]
<1>1. Typed /\ call[d] \in Call
  BY DEF FilesInv, Typed, TypeOK, Begun
<1>2. call[d].route \in {"jobs", "download", "audio"}
  BY <1>1, RoutesAssumption DEF Call
<1>3. at \in {"upload", "done", "extract"}
  BY <1>2
<1>4. call' = [call EXCEPT ![d].got = p, ![d].at = at]
  BY DEF Return
<1> HIDE DEF at
<1>5. /\ n \in Call /\ n.id = call[d].id /\ n.url = call[d].url /\ n.at = at
      /\ n.got = p /\ call' = [call EXCEPT ![d] = n]
  BY <1>1, <1>3, <1>4 DEF Call
<1>6. streams' \subseteq Path
  BY <1>1 DEF Return, Typed, TypeOK
<1>7. RecordMoves(d, n)
  BY <1>1, SameRecords DEF Return
<1> HIDE DEF n
<1>8. LeavesClean(d, n)
  BY <1>3, <1>5 DEF LeavesClean
<1>9. Moves(d, n)
  BY <1>1, <1>3, <1>5, <1>6, <1>7, <1>8 DEF Moves
<1> QED BY <1>9

\* The files of the id of a call that goes on: the whole video, or what its tool is
\* writing.
LEMMA OwnContent ==
  ASSUME FilesInv, NEW d \in Begun, Waiting(d), call[d].url \notin doubtful,
         NEW p \in Own(d), disk[p] # Never
  PROVE  /\ disk[p].url = call[d].url
         /\ (call[d].at = "fetch" /\ p = Target(d)) \/ disk[p] = Whole(call[d].url)
<1>1. p \in Output /\ p.id = call[d].id
  BY DEF Own
<1>2. disk[p] \in Content
  BY <1>1 DEF FilesInv, Typed, TypeOK, Path
<1>3. disk[p].url = call[d].url
  BY <1>1 DEF FilesInv, FilesOwned, OneTask
<1>4. CASE disk[p].whole
  BY <1>2, <1>3, <1>4 DEF Content, Whole
<1>5. CASE ~disk[p].whole
  <2>1. PICK e \in Begun : call[e].at = "fetch" /\ Target(e) = p
    BY <1>1, <1>3, <1>5 DEF FilesInv, Fragments
  <2>2. call[e].id = call[d].id /\ Waiting(e)
    BY <2>1, <1>1, TargetFacts DEF FilesInv, Waiting
  <2>3. e = d
    BY <2>2 DEF FilesInv, OneTask
  <2> QED BY <2>1, <2>3, <1>3
<1> QED BY <1>3, <1>4, <1>5

\* What the pattern of an id finds are output files.
LEMMA Found ==
  ASSUME Typed, NEW d \in Begun, NEW p \in Globbed[call[d].id]
  PROVE  p \in Output /\ p \in Path /\ (p.id = call[d].id => p \in Own(d))
BY GlobAssumption DEF Typed, TypeOK, Begun, Call, Own, Path

\* One output file is removed.
LEMMA OneRemoved ==
  ASSUME Typed, NEW d \in Begun, NEW p \in Output, disk' = [disk EXCEPT ![p] = Never]
  PROVE  /\ DiskMoves(d)
         /\ \A q \in Path : disk'[q] = IF q = p THEN Never ELSE disk[q]
<1>1. p \in Path
  BY DEF Path
<1>2. disk \in [Path -> Content \cup {Never}]
  BY DEF Typed, TypeOK
<1>3. disk' \in [Path -> Content \cup {Never}]
      /\ \A q \in Path : disk'[q] = IF q = p THEN Never ELSE disk[q]
  BY <1>1, <1>2
<1> QED BY <1>3 DEF DiskMoves, Path

\* A file of another id makes the video of the call doubtful.
LEMMA AdoptsFacts ==
  ASSUME Typed, NEW d \in Begun, NEW p, Adopts(d, p)
  PROVE  /\ doubtful \subseteq doubtful' /\ doubtful' \subseteq Urls
         /\ call[d].url \notin doubtful' => p.id = call[d].id
BY DEF Adopts, Typed, TypeOK, Begun, Call

LEMMA EnterMoves ==
  ASSUME FilesInv, NEW d \in Begun, Enter(d)
  PROVE  \E n : Moves(d, n)
<1>1. /\ Typed /\ call[d].at = "waiting" /\ call[d].at # "done" /\ call[d].at # "fetch"
      /\ Waiting(d) /\ call[d].url \in Urls /\ doubtful \subseteq Urls
  BY DEF Enter, FilesInv, Typed, TypeOK, Waiting, Begun, Call
<1>2. crashes' = crashes
  BY DEF Enter
<1>3. CASE Resume(d)
  <2>1. PICK p \in Existing(call[d].id) :
          Oversized(d, p) \/ (Return(d, p) /\ UNCHANGED disk /\ Adopts(d, p))
    BY <1>3 DEF Resume
  <2>2. /\ disk[p] # Never /\ p \in Path /\ p \in Output
        /\ p.id = call[d].id => p \in Own(d)
    BY <1>1, Found DEF Existing
  <2>3. CASE Oversized(d, p)
    <3>1. DiskMoves(d) /\ Fail(d) /\ doubtful' = doubtful
      BY <1>1, <2>2, <2>3, OneRemoved DEF Oversized
    <3> QED BY <1>1, <1>2, <3>1, FailMoves
  <2>4. CASE Return(d, p) /\ UNCHANGED disk /\ Adopts(d, p)
    <3>1. /\ doubtful \subseteq doubtful' /\ doubtful' \subseteq Urls
          /\ call[d].url \notin doubtful' => p.id = call[d].id
      BY <1>1, <2>4, AdoptsFacts
    <3>2. call[d].url \notin doubtful' =>
            p \in Own(d) /\ disk'[p] \in {Never, Whole(call[d].url)}
      BY <1>1, <2>2, <2>4, <3>1, OwnContent
    <3> QED BY <1>1, <1>2, <2>2, <2>4, <3>1, <3>2, SameDisk, ReturnMoves
  <2> QED BY <2>1, <2>3, <2>4
<1>4. CASE Dedupe(d)
  <2> DEFINE u == call[d].url
  <2>1. u \in Path /\ u \notin Output /\ doubtful' = doubtful
    BY <1>1, <1>4, PathAssumption DEF Path, Dedupe
  <2>2. CASE disk[u] # Never /\ Return(d, u) /\ UNCHANGED disk
    <3>1. u \notin doubtful' => disk'[u] \in {Never, Whole(u)}
      BY <1>1, <2>1, <2>2 DEF FilesInv, CacheWhole
    <3> QED BY <1>1, <1>2, <2>1, <2>2, <3>1, SameDisk, ReturnMoves
  <2>3. CASE disk' = [disk EXCEPT ![u] = Never] /\ TryNext(d)
    <3>1. /\ disk' \in [Path -> Content \cup {Never}]
          /\ \A q \in Path : disk'[q] = IF q = u THEN Never ELSE disk[q]
      BY <1>1, <2>1, <2>3 DEF Typed, TypeOK
    <3>2. DiskMoves(d)
      BY <3>1, <2>1 DEF DiskMoves, Path
    <3> QED BY <1>1, <1>2, <2>1, <2>3, <3>2, NextToolMoves
  <2> QED BY <1>4, <2>2, <2>3 DEF Dedupe
<1> QED BY <1>3, <1>4 DEF Enter

\* What a call that fetches finds in the directory besides its target is whole.
LEMMA FetchFacts ==
  ASSUME FilesInv, NEW d \in Begun, Fetching(d)
  PROVE  /\ Typed /\ call[d] \in Call /\ call[d].at = "fetch" /\ call[d].at # "done"
         /\ call[d].url \in Urls /\ Waiting(d)
         /\ Target(d) \in Own(d) /\ Target(d) \in Path /\ Target(d) \notin Urls
         /\ Tool(d) \in {"direct", "script", "ytdlp"}
         /\ call[d].url \notin doubtful
              => \A p \in Own(d) :
                   disk[p] # Never => p = Target(d) \/ disk[p] = Whole(call[d].url)
<1>1. /\ Typed /\ call[d] \in Call /\ call[d].at = "fetch" /\ call[d].at # "done"
      /\ call[d].url \in Urls /\ Waiting(d)
  BY DEF Fetching, FilesInv, Typed, TypeOK, Begun, Call, Waiting
<1>2. /\ Target(d) \in Output /\ Target(d).id = call[d].id
      /\ Tool(d) \in {"direct", "script", "ytdlp"}
  BY <1>1, TargetFacts
<1>3. Target(d) \in Own(d) /\ Target(d) \in Path /\ Target(d) \notin Urls
  BY <1>2, PathAssumption DEF Own, Path
<1>4. call[d].url \notin doubtful
        => \A p \in Own(d) : disk[p] # Never => p = Target(d) \/ disk[p] = Whole(call[d].url)
  BY <1>1, OwnContent
<1> QED BY <1>1, <1>2, <1>3, <1>4

LEMMA WriteMoves ==
  ASSUME FilesInv, NEW d \in Begun, Write(d)
  PROVE  \E n : Moves(d, n)
<1> DEFINE n == call[d]
           c == [url |-> call[d].url, whole |-> FALSE]
<1>1. /\ Typed /\ n \in Call /\ n.at = "fetch" /\ n.url \in Urls
      /\ Target(d) \in Own(d) /\ Target(d) \in Path /\ Target(d) \notin Urls
  BY FetchFacts DEF Write
<1>2. c \in Content /\ c.url = n.url
  BY <1>1 DEF Content
<1>3. /\ disk' \in [Path -> Content \cup {Never}]
      /\ \A q \in Path : disk'[q] = IF q = Target(d) THEN c ELSE disk[q]
  BY <1>1, <1>2 DEF Write, Typed, TypeOK
<1>4. call' = [call EXCEPT ![d] = n]
  BY <1>1 DEF Write, Typed, TypeOK, Begun
<1> HIDE DEF c
<1>5. DiskMoves(d)
  BY <1>1, <1>2, <1>3 DEF DiskMoves, Path
<1>6. LeavesClean(d, n)
  BY <1>1, <1>3 DEF LeavesClean, Own, Path, Write
<1>7. RecordMoves(d, n)
  BY <1>1, SameRecords DEF Write
<1>8. n.step \in DOMAIN Tools[n.url]
  BY <1>1 DEF Typed, StepInList
<1>9. Moves(d, n)
  BY <1>1, <1>4, <1>5, <1>6, <1>7, <1>8 DEF Moves, Write, Typed, TypeOK
<1> QED BY <1>9

LEMMA WholeFacts ==
  ASSUME NEW u \in Urls
  PROVE  Whole(u) \in Content /\ Whole(u).url = u /\ Whole(u).whole /\ Whole(u) # Never
<1>1. Whole(u) \in Content
  BY DEF Content, Whole
<1>2. Whole(u).url = u
  BY DEF Whole
<1>3. Whole(u).whole
  BY Zenon DEF Whole
<1> QED BY <1>1, <1>2, <1>3, NullAssumption

\* _save_to_cache and the result: files is the disk with what the tool has written.
LEMMA DeliverMoves ==
  ASSUME FilesInv, NEW d \in Begun, Fetching(d), NEW files \in [Path -> Content \cup {Never}],
         \A q \in Path : \/ files[q] = disk[q]
                         \/ q = Target(d) /\ files[q].url = call[d].url,
         NEW p \in Output, files[p] # Never, Deliver(d, files, p),
         crashes' = crashes, doubtful \subseteq doubtful', doubtful' \subseteq Urls,
         call[d].url \notin doubtful' =>
           /\ p \in Own(d) /\ files[p] = Whole(call[d].url)
           /\ \A q \in Own(d) : files[q] # Never => files[q].whole
  PROVE  \E n : Moves(d, n)
<1> DEFINE u == call[d].url
<1>1. /\ call[d].at = "fetch" /\ call[d].at # "done" /\ u \in Urls
      /\ Target(d) \in Own(d) /\ Target(d) \notin Urls
  BY FetchFacts
<1>2. /\ u \in Path /\ p \in Path /\ p \in Output /\ u \notin Output
      /\ \A q \in Own(d) : q \in Path /\ q # u
  BY <1>1, PathAssumption DEF Own, Path
<1>3. Return(d, p)
  BY DEF Deliver
<1>4. /\ disk' \in [Path -> Content \cup {Never}]
      /\ \A q \in Path : disk'[q] = files[q] \/ (q = u /\ disk'[q] = files[p])
  <2>1. CASE disk' = files
    BY <2>1
  <2>2. CASE disk' = [files EXCEPT ![u] = files[p]]
    BY <2>2, <1>2
  <2> QED BY <2>1, <2>2 DEF Deliver
<1>5. DiskMoves(d)
  BY <1>1, <1>2, <1>4 DEF DiskMoves, Path
<1>6. u \notin doubtful' =>
        /\ p \in {u} \cup Own(d)
        /\ disk'[p] \in {Never, Whole(u)}
        /\ \A q \in Own(d) : disk'[q] # Never => disk'[q].whole
  BY <1>2, <1>4
<1> QED BY <1>1, <1>2, <1>3, <1>5, <1>6, ReturnMoves

LEMMA FinishMoves ==
  ASSUME FilesInv, NEW d \in Begun, Finish(d)
  PROVE  \E n : Moves(d, n)
<1> DEFINE u == call[d].url
           files == [disk EXCEPT ![Target(d)] = [url |-> u, whole |-> TRUE]]
<1>1. /\ Typed /\ u \in Urls /\ Target(d) \in Own(d) /\ Target(d) \in Path
      /\ Target(d) \in Output /\ Target(d) \notin Urls
      /\ Fetching(d) /\ call[d].at = "fetch" /\ call[d].at # "done"
      /\ u \notin doubtful
           => \A p \in Own(d) : disk[p] # Never => p = Target(d) \/ disk[p] = Whole(u)
  BY FetchFacts DEF Finish, Own
<1>2. Whole(u) \in Content /\ Whole(u).url = u /\ Whole(u).whole /\ Whole(u) # Never
  BY <1>1, WholeFacts
<1>3. /\ files \in [Path -> Content \cup {Never}]
      /\ \A q \in Path : files[q] = IF q = Target(d) THEN Whole(u) ELSE disk[q]
  BY <1>1, <1>2 DEF Typed, TypeOK, Whole
<1>4. \/ Deliver(d, files, Target(d)) /\ UNCHANGED doubtful
      \/ \E p \in Existing(call[d].id) \cup (Globbed[call[d].id] \cap {Target(d)}) :
           Deliver(d, files, p) /\ Adopts(d, p)
      \/ disk' = files /\ TryNext(d) /\ UNCHANGED doubtful
  BY DEF Finish
<1> HIDE DEF files
<1>5. crashes' = crashes /\ doubtful \subseteq Urls
  BY <1>1 DEF Finish, Typed, TypeOK
<1>6. u \notin doubtful => \A q \in Own(d) : files[q] # Never => files[q] = Whole(u)
  BY <1>1, <1>3 DEF Own, Path
<1>7. \A q \in Path : \/ files[q] = disk[q]
                      \/ q = Target(d) /\ files[q].url = call[d].url
  BY <1>2, <1>3
<1>8. ASSUME NEW p \in Output, files[p] # Never, Deliver(d, files, p),
             doubtful \subseteq doubtful', doubtful' \subseteq Urls,
             u \notin doubtful' => p \in Own(d)
      PROVE  \E n : Moves(d, n)
  <2>1. u \notin doubtful' =>
          /\ p \in Own(d) /\ files[p] = Whole(u)
          /\ \A q \in Own(d) : files[q] # Never => files[q].whole
    BY <1>2, <1>6, <1>8
  <2> HIDE DEF u
  <2> QED BY <1>1, <1>3, <1>5, <1>7, <1>8, <2>1, DeliverMoves DEF u
<1>9. CASE Deliver(d, files, Target(d)) /\ UNCHANGED doubtful
  <2>1. files[Target(d)] # Never
    BY <1>1, <1>2, <1>3
  <2> QED BY <1>1, <1>5, <1>8, <1>9, <2>1
<1>10. CASE \E p \in Existing(call[d].id) \cup (Globbed[call[d].id] \cap {Target(d)}) :
              Deliver(d, files, p) /\ Adopts(d, p)
  <2>1. PICK p \in Existing(call[d].id) \cup (Globbed[call[d].id] \cap {Target(d)}) :
          Deliver(d, files, p) /\ Adopts(d, p)
    BY <1>10
  <2>2. /\ p \in Output /\ p \in Path /\ (p.id = call[d].id => p \in Own(d))
        /\ disk[p] # Never \/ p = Target(d)
    BY <1>1, Found DEF Existing
  <2>3. files[p] # Never
    BY <1>2, <1>3, <2>2
  <2>4. /\ doubtful \subseteq doubtful' /\ doubtful' \subseteq Urls
        /\ u \notin doubtful' => p.id = call[d].id
    BY <1>1, <2>1, AdoptsFacts
  <2> QED BY <1>8, <2>1, <2>2, <2>3, <2>4
<1>11. CASE disk' = files /\ TryNext(d) /\ UNCHANGED doubtful
  <2>1. DiskMoves(d)
    BY <1>1, <1>3, <1>7, <1>11 DEF DiskMoves, Path
  <2>2. u \notin doubtful' => \A q \in Own(d) : disk'[q] # Never => disk'[q].whole
    BY <1>2, <1>6, <1>11
  <2> HIDE DEF u
  <2> QED BY <1>1, <1>5, <1>11, <2>1, <2>2, NextToolMoves DEF u
<1> QED BY <1>4, <1>9, <1>10, <1>11

LEMMA MissMoves ==
  ASSUME FilesInv, NEW d \in Begun, Miss(d)
  PROVE  \E n : Moves(d, n)
<1> DEFINE u == call[d].url
<1>1. /\ Typed /\ u \in Urls /\ Target(d) \in Own(d) /\ Target(d) \in Path /\ Fetching(d)
      /\ Target(d) \in Output /\ call[d].at = "fetch" /\ call[d].at # "done"
      /\ doubtful \subseteq Urls
      /\ u \notin doubtful
           => \A p \in Own(d) : disk[p] # Never => p = Target(d) \/ disk[p] = Whole(u)
  BY FetchFacts DEF Miss, Own, Typed, TypeOK
<1>2. crashes' = crashes /\ (Whole(u).whole)
  BY <1>1, WholeFacts DEF Miss
<1>3. CASE Discard(d) /\ TryNext(d) /\ UNCHANGED doubtful
  <2>1. DiskMoves(d) /\ \A q \in Path : disk'[q] = IF q = Target(d) THEN Never ELSE disk[q]
    BY <1>1, <1>3, OneRemoved DEF Discard
  <2>2. u \notin doubtful' => \A q \in Own(d) : disk'[q] # Never => disk'[q].whole
    BY <1>1, <1>2, <1>3, <2>1 DEF Own, Path
  <2> QED BY <1>1, <1>2, <1>3, <2>1, <2>2, NextToolMoves
<1>4. CASE UNCHANGED disk /\ TryNext(d) /\ Leaves(d)
  <2>1. DiskMoves(d) /\ doubtful \subseteq doubtful' /\ doubtful' \subseteq Urls
    BY <1>1, <1>4, SameDisk DEF Leaves
  <2>2. u \notin doubtful' => \A q \in Own(d) : disk'[q] # Never => disk'[q].whole
    BY <1>1, <1>2, <1>4 DEF Leaves
  <2> QED BY <1>1, <1>2, <1>4, <2>1, <2>2, NextToolMoves
<1>5. CASE \E p \in Existing(call[d].id) :
             /\ Deliver(d, disk, p)
             /\ IF p.id = call[d].id THEN Leaves(d)
                ELSE doubtful' = doubtful \cup {call[d].url}
  <2>1. PICK p \in Existing(call[d].id) :
             /\ Deliver(d, disk, p)
             /\ IF p.id = call[d].id THEN Leaves(d)
                ELSE doubtful' = doubtful \cup {call[d].url}
    BY <1>5
  <2>2. p \in Output /\ (p.id = call[d].id => p \in Own(d)) /\ disk[p] # Never
    BY <1>1, Found DEF Existing
  <2>3. /\ doubtful \subseteq doubtful' /\ doubtful' \subseteq Urls
        /\ u \notin doubtful' => p \in Own(d) /\ disk[Target(d)] = Never
    BY <1>1, <2>1, <2>2 DEF Leaves
  <2>4. u \notin doubtful' =>
          /\ p \in Own(d) /\ disk[p] = Whole(u)
          /\ \A q \in Own(d) : disk[q] # Never => disk[q].whole
    BY <1>1, <1>2, <2>2, <2>3
  <2>5. disk \in [Path -> Content \cup {Never}]
    BY <1>1 DEF Typed, TypeOK
  <2> QED BY <1>1, <1>2, <2>1, <2>2, <2>3, <2>4, <2>5, DeliverMoves
<1> QED BY <1>3, <1>4, <1>5 DEF Miss

LEMMA AbortMoves ==
  ASSUME FilesInv, NEW d \in Begun, Abort(d)
  PROVE  \E n : Moves(d, n)
<1> DEFINE u == call[d].url
<1>1. /\ Typed /\ Target(d) \in Own(d) /\ Target(d) \in Output /\ call[d].at # "done"
      /\ u \in Urls /\ doubtful \subseteq Urls
      /\ u \notin doubtful
           => \A p \in Own(d) : disk[p] # Never => p = Target(d) \/ disk[p] = Whole(u)
  BY FetchFacts DEF Abort, Own, Typed, TypeOK
<1>2. crashes' = crashes /\ Fail(d) /\ Whole(u).whole
  BY <1>1, WholeFacts DEF Abort
<1>3. /\ doubtful \subseteq doubtful' /\ doubtful' \subseteq Urls
      /\ Tool(d) = "ytdlp" /\ u \notin doubtful' => disk[Target(d)] = Never
  BY <1>1 DEF Abort, Leaves
<1>4. ASSUME NEW p \in Output, disk' = [disk EXCEPT ![p] = Never],
             p = Target(d) \/ Tool(d) = "ytdlp"
      PROVE  \E n : Moves(d, n)
  <2>1. DiskMoves(d) /\ \A q \in Path : disk'[q] = IF q = p THEN Never ELSE disk[q]
    BY <1>1, <1>4, OneRemoved
  <2>2. u \notin doubtful' => \A q \in Own(d) : disk'[q] # Never => disk'[q].whole
    BY <1>1, <1>2, <1>3, <1>4, <2>1 DEF Own, Path
  <2> QED BY <1>1, <1>2, <1>3, <2>1, <2>2, FailMoves
<1>5. CASE UNCHANGED disk /\ (Tool(d) = "ytdlp" \/ (disk[Target(d)] # Never => disk[Target(d)].whole))
  <2>1. u \notin doubtful' => \A q \in Own(d) : disk'[q] # Never => disk'[q].whole
    BY <1>1, <1>2, <1>3, <1>5
  <2>2. DiskMoves(d)
    BY <1>1, <1>5, SameDisk
  <2> QED BY <1>1, <1>2, <1>3, <2>1, <2>2, FailMoves
<1>6. \A p \in Existing(call[d].id) : p \in Output
  BY <1>1, Found DEF Existing
<1> QED BY <1>1, <1>4, <1>5, <1>6 DEF Abort, Discard

LEMMA CompleteMoves ==
  ASSUME FilesInv, NEW d \in Begun, NEW stored \in BOOLEAN, Complete(d, stored)
  PROVE  \E n : Moves(d, n)
<1> DEFINE n == [call[d] EXCEPT !.at = "done"]
<1>1. Typed /\ call[d] \in Call /\ call[d].at = "upload" /\ call[d].got \in Path \cup {Never}
  BY DEF Complete, FilesInv, Typed, TypeOK, Begun, Call
<1>2. /\ n \in Call /\ n.id = call[d].id /\ n.url = call[d].url /\ n.at = "done"
      /\ call' = [call EXCEPT ![d] = n]
  BY <1>1 DEF Complete, Resolve, Call
<1>3. rec' = Updated(d, "completed", call[d].got, stored)
  BY DEF Complete
<1> HIDE DEF n
<1>4. /\ rec' \in [Ids -> Record \cup {NoRecord}]
      /\ \A i \in Ids :
           \/ rec'[i] = rec[i]
           \/ /\ i = call[d].id /\ rec[i] # NoRecord /\ rec'[i] \in Record
              /\ rec'[i].url = rec[i].url /\ rec'[i].path = call[d].got
  <2>1. "completed" \in {"queued", "processing", "completed", "failed"}
    OBVIOUS
  <2> DEFINE got == call[d].got
  <2>2. got \in Path \cup {Never} /\ rec' = Updated(d, "completed", got, stored)
    BY <1>1, <1>3
  <2> HIDE DEF got
  <2>3. /\ rec' \in [Ids -> Record \cup {NoRecord}]
        /\ \A i \in Ids :
             \/ rec'[i] = rec[i]
             \/ /\ i = call[d].id /\ rec[i] # NoRecord /\ rec'[i] \in Record
                /\ rec'[i].url = rec[i].url /\ rec'[i].path = got
    BY <1>1, <2>1, <2>2, UpdatedFacts
  <2> QED BY <2>3 DEF got
<1>5. RecordMoves(d, n)
  BY <1>1, <1>2, <1>4, NullAssumption DEF RecordMoves
<1>6. DiskMoves(d)
  BY <1>1, SameDisk DEF Complete
<1>7. LeavesClean(d, n)
  BY <1>1, <1>2 DEF LeavesClean
<1>8. Moves(d, n)
  BY <1>1, <1>2, <1>5, <1>6, <1>7 DEF Moves, Complete, Typed, TypeOK
<1> QED BY <1>8

LEMMA ExtractedMoves ==
  ASSUME FilesInv, NEW d \in Begun, Extracted(d)
  PROVE  \E n : Moves(d, n)
<1>1. Typed /\ call[d].at = "extract"
  BY DEF Extracted, FilesInv
<1>2. DiskMoves(d)
  BY <1>1, SameDisk DEF Extracted
<1>3. /\ UNCHANGED rec /\ streams' \subseteq Path /\ crashes' = crashes
      /\ doubtful \subseteq doubtful' /\ doubtful' \subseteq Urls
      /\ call[d].at # "done" /\ call[d].at # "fetch" /\ Resolve(d, "done")
  BY <1>1 DEF Extracted, Typed, TypeOK
<1> QED BY <1>2, <1>3, OverMoves

----------------------------------------------------------------------------
(* The other steps *)

LEMMA FilesInit == Init => FilesInv
<1> SUFFICES ASSUME Init PROVE FilesInv
  OBVIOUS
<1>1. Begun = {} /\ (\A p \in Path : disk[p] = Never) /\ (\A i \in Ids : rec[i] = NoRecord)
  BY DEF Init, Begun
<1> QED BY <1>1, TypedInit DEF FilesInv, OneTask, FilesOwned, RecordsOwned, Fragments,
     GotOwn, Settled, CacheWhole, Path

\* A response, an expiry or a sweep: records and files only go.
LEMMA RemovalKeeps ==
  ASSUME FilesInv, UNCHANGED <<call, crashes, doubtful>>, streams' \subseteq Path,
         rec' \in [Ids -> Record \cup {NoRecord}], disk' \in [Path -> Content \cup {Never}],
         \A i \in Ids : rec'[i] \in {rec[i], NoRecord},
         \A p \in Path : disk'[p] \in {disk[p], Never}
  PROVE  FilesInv'
<1>1. Begun' = Begun /\ (\A d \in Begun : Target(d)' = Target(d))
      /\ (\A d \in Begun : Waiting(d)' = Waiting(d)) /\ doubtful' = doubtful /\ call' = call
  BY DEF Begun, Target, Tool, Waiting
<1>2. Typed'
  BY <1>1 DEF FilesInv, Typed, TypeOK, StepInList, InOrder
<1>3. OneTask'
  BY <1>1 DEF FilesInv, OneTask
<1>4. FilesOwned' /\ Fragments'
  BY <1>1 DEF FilesInv, FilesOwned, Fragments, Path
<1>5. RecordsOwned'
  BY <1>1 DEF FilesInv, RecordsOwned
<1>6. GotOwn'
  <2> SUFFICES ASSUME NEW e \in Begun, call[e].at \in {"upload", "extract"},
                      call[e].url \notin doubtful
               PROVE  /\ call[e].got \in {call[e].url} \cup {p \in Output : p.id = call[e].id}
                      /\ disk'[call[e].got] \in {Never, Whole(call[e].url)}
    BY <1>1 DEF GotOwn, Whole
  <2>1. /\ call[e].got \in {call[e].url} \cup {p \in Output : p.id = call[e].id}
        /\ disk[call[e].got] \in {Never, Whole(call[e].url)}
    BY DEF FilesInv, GotOwn
  <2>2. call[e].url \in Urls
    BY DEF FilesInv, Typed, TypeOK, Begun, Call
  <2> QED BY <2>1, <2>2 DEF Path
<1>7. Settled'
  <2> SUFFICES ASSUME NEW i \in Ids, rec'[i] # NoRecord, rec'[i].status = "completed",
                      rec'[i].url \notin doubtful
               PROVE  /\ \A e \in Begun : call[e].id = i => ~Waiting(e)
                      /\ rec'[i].path \in {rec'[i].url} \cup {p \in Output : p.id = i}
                      /\ disk'[rec'[i].path] \in {Never, Whole(rec'[i].url)}
    BY <1>1 DEF Settled, Whole
  <2>1. rec'[i] = rec[i]
    OBVIOUS
  <2>2. /\ \A e \in Begun : call[e].id = i => ~Waiting(e)
        /\ rec[i].path \in {rec[i].url} \cup {p \in Output : p.id = i}
        /\ disk[rec[i].path] \in {Never, Whole(rec[i].url)}
    BY <2>1 DEF FilesInv, Settled
  <2>3. rec[i].url \in Urls
    BY <2>1 DEF FilesInv, Typed, TypeOK, Record
  <2> QED BY <2>1, <2>2, <2>3 DEF Path
<1>8. CacheWhole'
  BY <1>1 DEF FilesInv, CacheWhole, Path, Whole
<1> QED BY <1>2, <1>3, <1>4, <1>5, <1>6, <1>7, <1>8 DEF FilesInv

LEMMA GoneIsRemoval ==
  ASSUME Typed, NEW p \in Path, disk' = [disk EXCEPT ![p] = Never]
  PROVE  /\ disk' \in [Path -> Content \cup {Never}]
         /\ \A q \in Path : disk'[q] = IF q = p THEN Never ELSE disk[q]
BY DEF Typed, TypeOK

LEMMA ServeKeeps ==
  ASSUME FilesInv, NEW i \in Ids, Serve(i)
  PROVE  FilesInv'
<1>1. rec[i] \in Record /\ rec[i].path \in Path
  BY DEF Serve, FilesInv, Typed, TypeOK, Record
<1>2. streams' \subseteq Path
  BY <1>1 DEF Serve, FilesInv, Typed, TypeOK
<1> QED BY <1>2, RemovalKeeps DEF Serve, FilesInv, Typed, TypeOK

LEMMA StreamEndsKeeps ==
  ASSUME FilesInv, NEW p \in Path, StreamEnds(p)
  PROVE  FilesInv'
<1>1. Typed
  BY DEF FilesInv
<1>2. /\ disk' \in [Path -> Content \cup {Never}]
      /\ \A q \in Path : disk'[q] \in {disk[q], Never}
  <2>1. CASE disk' = disk
    BY <1>1, <2>1 DEF Typed, TypeOK
  <2>2. CASE disk' = [disk EXCEPT ![p] = Never]
    BY <1>1, <2>2, GoneIsRemoval
  <2> QED BY <2>1, <2>2 DEF StreamEnds
<1> QED BY <1>1, <1>2, RemovalKeeps DEF StreamEnds, Typed, TypeOK

LEMMA SweepKeeps ==
  ASSUME FilesInv, NEW p \in Path, Sweep(p)
  PROVE  FilesInv'
<1>1. Typed
  BY DEF FilesInv
<1>2. /\ disk' \in [Path -> Content \cup {Never}]
      /\ \A q \in Path : disk'[q] \in {disk[q], Never}
  BY <1>1, GoneIsRemoval DEF Sweep
<1> QED BY <1>1, <1>2, RemovalKeeps DEF Sweep, Typed, TypeOK

LEMMA ExpireKeeps ==
  ASSUME FilesInv, NEW i \in Ids, Expire(i)
  PROVE  FilesInv'
<1>1. Typed /\ rec[i] \in Record /\ rec[i].path \in Path \cup {Never}
  BY DEF Expire, FilesInv, Typed, TypeOK, Record
<1>2. /\ disk' \in [Path -> Content \cup {Never}]
      /\ \A q \in Path : disk'[q] \in {disk[q], Never}
  <2>1. CASE rec[i].path = Never
    BY <1>1, <2>1 DEF Expire, Typed, TypeOK
  <2>2. CASE rec[i].path # Never
    <3> DEFINE p == rec[i].path
    <3>1. p \in Path /\ disk' = [disk EXCEPT ![p] = Never]
      BY <1>1, <2>2 DEF Expire
    <3> HIDE DEF p
    <3> QED BY <1>1, <3>1, GoneIsRemoval
  <2> QED BY <2>1, <2>2
<1>3. /\ rec' \in [Ids -> Record \cup {NoRecord}]
      /\ \A j \in Ids : rec'[j] \in {rec[j], NoRecord}
  BY <1>1 DEF Expire, Typed, TypeOK
<1> QED BY <1>1, <1>2, <1>3, RemovalKeeps DEF Expire, Typed, TypeOK

LEMMA CrashKeeps ==
  ASSUME FilesInv, Crash
  PROVE  FilesInv'
<1>1. PICK half \in {{}} \cup {{call[d].url} : d \in {c \in Begun : Fetching(c)}} :
        /\ disk' = [p \in Path |-> IF p \in half THEN [url |-> p, whole |-> FALSE] ELSE disk[p]]
        /\ doubtful' = doubtful \cup half
             \cup {u \in Urls : \E p \in Output : disk[p] = [url |-> u, whole |-> FALSE]}
  BY DEF Crash
<1>2. /\ rec' = [i \in Ids |-> NoRecord] /\ streams' = {} /\ crashes' = crashes + 1
      /\ call' = [d \in Downloads |-> IF d \in Begun THEN [call[d] EXCEPT !.at = "done"]
                                                     ELSE NoCall]
  BY DEF Crash
<1>3. Typed /\ \A d \in Begun : d \in Downloads /\ call[d] \in Call
  BY DEF FilesInv, Typed, TypeOK, Begun
<1>4. half \subseteq Urls /\ doubtful \subseteq doubtful' /\ doubtful' \subseteq Urls
      /\ half \subseteq doubtful'
  BY <1>1, <1>3 DEF Inside, Call, Typed, TypeOK
<1>5. \A d \in Begun : /\ call'[d] \in Call /\ call'[d].id = call[d].id
                       /\ call'[d].url = call[d].url /\ call'[d].at = "done"
  BY <1>2, <1>3 DEF Call
<1>6. Begun' = Begun /\ call' \in [Downloads -> Call \cup {NoCall}]
  BY <1>2, <1>3, <1>5, NullAssumption DEF Begun
<1>7. \A p \in Output : p \in Path /\ disk'[p] = disk[p] /\ disk[p] \in Content \cup {Never}
  BY <1>1, <1>3, <1>4, PathAssumption DEF Path, Typed, TypeOK
<1>8. disk' \in [Path -> Content \cup {Never}]
  BY <1>1, <1>3, <1>4 DEF Typed, TypeOK, Content
<1>9. Typed'
  <2>1. TypeOK'
    BY <1>2, <1>3, <1>4, <1>6, <1>8 DEF Typed, TypeOK
  <2>2. StepInList' /\ InOrder'
    BY <1>3, <1>5, <1>6 DEF Typed, StepInList, InOrder
  <2> QED BY <2>1, <2>2 DEF Typed
<1>10. OneTask' /\ GotOwn'
  BY <1>4, <1>5, <1>6 DEF FilesInv, OneTask, GotOwn, Waiting
<1>11. FilesOwned'
  BY <1>5, <1>6, <1>7 DEF FilesInv, FilesOwned
<1>12. RecordsOwned' /\ Settled'
  BY <1>2 DEF RecordsOwned, Settled
<1>13. Fragments'
  <2> SUFFICES ASSUME NEW p \in Output, disk[p] # Never, ~disk[p].whole
               PROVE  disk[p].url \in doubtful'
    BY <1>7 DEF Fragments
  <2>1. disk[p] \in Content
    BY <1>7
  <2>2. disk[p].url \in Urls /\ disk[p] = [url |-> disk[p].url, whole |-> FALSE]
    BY <2>1 DEF Content
  <2> QED BY <1>1, <2>2
<1>14. CacheWhole'
  BY <1>1, <1>4 DEF FilesInv, CacheWhole, Path, Whole
<1> QED BY <1>9, <1>10, <1>11, <1>12, <1>13, <1>14 DEF FilesInv

LEMMA SubmitKeeps ==
  ASSUME FilesInv, NEW d \in Downloads, NEW i \in Ids, NEW u \in Urls, NEW route \in Routes,
         Submit(d, i, u, route)
  PROVE  FilesInv'
<1> DEFINE n == [id |-> i, url |-> u, route |-> route, step |-> 0,
                 got |-> Never, at |-> "created"]
           mixed == Mixed(i, u, route)
<1>1. Typed /\ \A e \in Begun : e \in Downloads /\ call[e] \in Call
  BY DEF FilesInv, Typed, TypeOK, Begun
<1>2. PICK k \in 0..MaxCalls : Begun = 1..k
  BY <1>1 DEF Typed, InOrder
<1>3. d = k + 1 /\ d \notin Begun
  <2>1. Cardinality(1..k) = k
    BY <1>2, FS_Interval, NumbersAssumption
  <2> QED BY <1>2, <2>1, NumbersAssumption DEF Submit
<1>4. /\ n \in Call /\ n.id = i /\ n.url = u /\ n.at = "created"
  BY DEF Call
<1>5. call' = [call EXCEPT ![d] = n]
  BY DEF Submit
<1> HIDE DEF n
<1>6. /\ call'[d] = n /\ (\A e \in Begun : call'[e] = call[e])
      /\ call' \in [Downloads -> Call \cup {NoCall}] /\ Begun' = Begun \cup {d}
  BY <1>1, <1>3, <1>4, <1>5, NullAssumption DEF Typed, TypeOK, Begun
<1>7. /\ doubtful' = IF mixed = {} THEN doubtful ELSE doubtful \cup {u} \cup mixed
      /\ mixed \subseteq Urls
  BY <1>1 DEF Submit, Mixed, Call
<1>8. /\ doubtful \subseteq doubtful' /\ doubtful' \subseteq Urls /\ mixed \subseteq doubtful'
      /\ mixed # {} => u \in doubtful'
  BY <1>1, <1>7 DEF Typed, TypeOK
<1>9. \A e \in Begun :
        call[e].id = i /\ call[e].url \notin doubtful'
          => /\ ~Waiting(e) /\ call[e].url = u
             /\ route # "jobs" => rec[i] = NoRecord
  <2> SUFFICES ASSUME NEW e \in Begun, call[e].id = i, call[e].url \notin mixed
               PROVE  /\ ~Waiting(e) /\ call[e].url = u
                      /\ route # "jobs" => rec[i] = NoRecord
    BY <1>8
  <2> QED BY DEF Mixed, Waiting
<1> HIDE DEF mixed
<1>10. /\ disk' = disk /\ streams' = streams /\ crashes' = crashes
       /\ rec' \in [Ids -> Record \cup {NoRecord}]
       /\ \A j \in Ids :
            \/ rec'[j] = rec[j] /\ (j = i => route # "jobs")
            \/ /\ j = i /\ rec'[j] # NoRecord /\ rec'[j].url = u
               /\ rec'[j].status = "queued"
  <2> DEFINE r == [url |-> u, status |-> "queued", path |-> Never, stored |-> FALSE]
  <2>0. r \in Record /\ r.url = u /\ r.status = "queued"
    BY DEF Record
  <2>1. r \in Record /\ r.url = u /\ r.status = "queued" /\ r # NoRecord
    <3> HIDE DEF r
    <3> QED BY <2>0, NullAssumption
  <2>2. rec' = IF route = "jobs" THEN [rec EXCEPT ![i] = r] ELSE rec
    BY DEF Submit
  <2> HIDE DEF r
  <2>3. rec \in [Ids -> Record \cup {NoRecord}]
    BY <1>1 DEF Typed, TypeOK
  <2>4. disk' = disk /\ streams' = streams /\ crashes' = crashes
    BY DEF Submit
  <2> QED BY <2>1, <2>2, <2>3, <2>4
<1>11. \A e \in Begun : Target(e)' = Target(e)
  BY <1>6 DEF Target, Tool
<1>12. Typed'
  <2>1. TypeOK'
    BY <1>1, <1>6, <1>8, <1>10 DEF Typed, TypeOK
  <2>2. StepInList'
    BY <1>1, <1>4, <1>6 DEF Typed, StepInList
  <2>3. InOrder'
    <3>1. k + 1 \in 0..MaxCalls /\ 1..(k + 1) = (1..k) \cup {k + 1}
      BY <1>2, <1>3, NumbersAssumption DEF Downloads
    <3> QED BY <1>2, <1>3, <1>6, <3>1 DEF InOrder
  <2> QED BY <2>1, <2>2, <2>3 DEF Typed
<1>13. OneTask'
  <2> SUFFICES ASSUME NEW a \in Begun \cup {d}, NEW b \in Begun \cup {d},
                      call'[a].id = call'[b].id, call'[b].url \notin doubtful'
               PROVE  /\ call'[a].url = call'[b].url
                      /\ Waiting(a)' /\ Waiting(b)' => a = b
    BY <1>6 DEF OneTask
  <2>1. CASE a \in Begun /\ b \in Begun
    BY <2>1, <1>6, <1>8 DEF FilesInv, OneTask, Waiting
  <2>2. CASE a = d /\ b \in Begun
    BY <2>2, <1>4, <1>6, <1>9 DEF Waiting
  <2>3. CASE a \in Begun /\ b = d
    <3>1. call[a].id = i /\ u \notin doubtful'
      BY <2>3, <1>4, <1>6
    <3>2. mixed = {} /\ call[a].url \notin mixed
      BY <3>1, <1>8
    <3>3. ~Waiting(a) /\ call[a].url = u
      BY <2>3, <3>1, <3>2 DEF mixed, Mixed, Waiting
    <3> QED BY <2>3, <3>3, <1>4, <1>6 DEF Waiting
  <2> QED BY <2>1, <2>2, <2>3
<1>14. FilesOwned'
  BY <1>6, <1>10 DEF FilesInv, FilesOwned
<1>15. RecordsOwned'
  <2> SUFFICES ASSUME NEW j \in Ids, rec'[j] # NoRecord
               PROVE  \E e \in Begun \cup {d} : call'[e].id = j /\ call'[e].url = rec'[j].url
    BY <1>6 DEF RecordsOwned
  <2>1. CASE rec'[j] = rec[j]
    BY <2>1, <1>6 DEF FilesInv, RecordsOwned
  <2>2. CASE j = i /\ rec'[j].url = u
    BY <2>2, <1>4, <1>6
  <2> QED BY <2>1, <2>2, <1>10
<1>16. Fragments'
  <2> SUFFICES ASSUME NEW p \in Output, disk[p] # Never, ~disk[p].whole,
                      disk[p].url \notin doubtful
               PROVE  \E e \in Begun \cup {d} : call'[e].at = "fetch" /\ Target(e)' = p
    BY <1>6, <1>8, <1>10 DEF Fragments
  <2>1. PICK e \in Begun : call[e].at = "fetch" /\ Target(e) = p
    BY DEF FilesInv, Fragments
  <2> QED BY <2>1, <1>6, <1>11
<1>18. GotOwn'
  <2> SUFFICES ASSUME NEW e \in Begun \cup {d}, call'[e].at \in {"upload", "extract"},
                      call'[e].url \notin doubtful'
               PROVE  /\ call'[e].got \in {call'[e].url} \cup {p \in Output : p.id = call'[e].id}
                      /\ disk[call'[e].got] \in {Never, Whole(call'[e].url)}
    BY <1>6, <1>10 DEF GotOwn, Whole
  <2>1. e \in Begun
    BY <1>4, <1>6
  <2> QED BY <2>1, <1>6, <1>8 DEF FilesInv, GotOwn
<1>19. Settled'
  <2> SUFFICES ASSUME NEW j \in Ids, rec'[j] # NoRecord, rec'[j].status = "completed",
                      rec'[j].url \notin doubtful'
               PROVE  /\ \A e \in Begun \cup {d} : call'[e].id = j => ~Waiting(e)'
                      /\ rec'[j].path \in {rec'[j].url} \cup {p \in Output : p.id = j}
                      /\ disk[rec'[j].path] \in {Never, Whole(rec'[j].url)}
    BY <1>6, <1>10 DEF Settled, Whole
  <2>1. rec'[j] = rec[j] /\ (j = i => route # "jobs")
    BY <1>10
  <2>2. /\ \A e \in Begun : call[e].id = j => ~Waiting(e)
        /\ rec[j].path \in {rec[j].url} \cup {p \in Output : p.id = j}
        /\ disk[rec[j].path] \in {Never, Whole(rec[j].url)}
    BY <2>1, <1>8 DEF FilesInv, Settled
  <2>3. j # i
    <3>1. PICK e \in Begun : call[e].id = j /\ call[e].url = rec[j].url
      BY <2>1 DEF FilesInv, RecordsOwned
    <3> QED BY <2>1, <3>1, <1>9
  <2> QED BY <2>1, <2>2, <2>3, <1>4, <1>6 DEF Waiting
<1>20. CacheWhole'
  BY <1>8, <1>10 DEF FilesInv, CacheWhole
<1> QED BY <1>12, <1>13, <1>14, <1>15, <1>16, <1>18, <1>19, <1>20 DEF FilesInv

----------------------------------------------------------------------------
(* The invariant and what follows *)

LEMMA FilesNext == FilesInv /\ [Next]_vars => FilesInv'
<1> SUFFICES ASSUME FilesInv, [Next]_vars PROVE FilesInv'
  OBVIOUS
<1>1. ASSUME NEW d \in Downloads, NEW i \in Ids, NEW u \in Urls, NEW route \in Routes,
             Submit(d, i, u, route)
      PROVE  FilesInv'
  BY <1>1, SubmitKeeps
<1>2. ASSUME NEW d \in Downloads, Advance(d) \/ Write(d) PROVE FilesInv'
  <2>1. d \in Begun
    BY <1>2 DEF Advance, Start, Enter, Fetch, Finish, Miss, Abort, Fetching, Extracted,
                Complete, Write
  <2>2. \E n : Moves(d, n)
    BY <1>2, <2>1, StartMoves, EnterMoves, FinishMoves, MissMoves, AbortMoves, ExtractedMoves,
       CompleteMoves, WriteMoves DEF Advance, Fetch
  <2> QED BY <2>1, <2>2, MovesKeep
<1>3. ASSUME NEW i \in Ids, Serve(i) \/ Expire(i) PROVE FilesInv'
  BY <1>3, ServeKeeps, ExpireKeeps
<1>4. ASSUME NEW p \in Path, StreamEnds(p) \/ Sweep(p) PROVE FilesInv'
  BY <1>4, StreamEndsKeeps, SweepKeeps
<1>5. CASE Crash
  BY <1>5, CrashKeeps
<1>6. CASE UNCHANGED vars
  <2>1. /\ rec' = rec /\ call' = call /\ disk' = disk /\ streams' = streams
        /\ crashes' = crashes /\ doubtful' = doubtful
    BY <1>6 DEF vars
  <2> QED BY <2>1, RemovalKeeps DEF FilesInv, Typed, TypeOK
<1> QED BY <1>1, <1>2, <1>3, <1>4, <1>5, <1>6 DEF Next

LEMMA FilesHold == Spec => []FilesInv
BY FilesInit, FilesNext, PTL DEF Spec

\* Every record, call, file and stream of the video worker keeps its shape.
THEOREM TypeCorrect == Spec => []TypeOK
<1>1. FilesInv => TypeOK
  BY DEF FilesInv, Typed
<1> QED BY <1>1, FilesHold, PTL

\* jobs.py, main.py and downloader.py together: a completed record and a cache entry
\* hold the whole video of their URL unless the URL is doubtful, whatever files the
\* pattern of an id finds; that of another id makes a URL doubtful only when it is
\* taken for the result.
THEOREM CompletedIsRight == Spec => []RightVideo
<1>1. FilesInv => RightVideo
  BY DEF FilesInv, RightVideo, Settled, CacheWhole, Whole
<1> QED BY <1>1, FilesHold, PTL

=============================================================================
