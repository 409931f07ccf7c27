------------------------- MODULE PipelineRunProofs -------------------------
(***************************************************************************)
(* Proofs about the run of a pipeline job, for every video, every number   *)
(* of segments, attempts, runs and kills.                                  *)
(***************************************************************************)
EXTENDS PipelineRun, TLAPS

\* How many requests the attempt of a segment's task may have made by now.
Share(at) == IF at \in {"wait", "ask"} THEN 0 ELSE IF at \in {"poll", "sync"} THEN 1 ELSE 2

\* The tasks are there while the job speaks; a request is within the share of its
\* attempt.
Shape ==
  /\ run \in [at: Stages \cup {"none", "completed", "failed"}, kind: Kinds, polls: 0..MaxPolls]
  /\ disk = [source |-> disk.source, audio |-> disk.audio, sheet |-> disk.sheet,
             dub |-> disk.dub, video |-> disk.video]
  /\ DOMAIN call = IF run.at = "speak" THEN DOMAIN script ELSE {}
  /\ call \in [DOMAIN call -> Voice!Call]
  /\ bought \in [DOMAIN call -> Nat]
Ledger == \A k \in DOMAIN call : bought[k] <= 2 * (call[k].attempt - 1) + Share(call[k].at)

\* The sheet is written anew by every run that gets as far, and moved once.
Clock ==
  /\ disk.sheet # Nothing => disk.sheet.clock \in {0, 1}
  /\ run.at \in {"speak", "align"} => disk.sheet.clock = 0
  /\ run.at \in {"dub", "render"} => disk.sheet.clock = 1
  /\ run.at = "completed" /\ script # <<>> /\ disk # Empty => disk.sheet.clock = 1

Inv == Shape /\ Ledger /\ Clock

----------------------------------------------------------------------------
(* One step of a segment's task *)

VoiceMoves(k) ==
  /\ script' = script
  /\ call' \in [DOMAIN script -> Voice!Call]
  /\ bought' \in [DOMAIN script -> Nat]
  /\ \A j \in DOMAIN script \ {k} : call'[j] = call[j] /\ bought'[j] = bought[j]
  /\ bought'[k] <= 2 * (call'[k].attempt - 1) + Share(call'[k].at)
  /\ bought'[k] > bought[k] => call[k].at \in {"ask", "poll", "sync"}
  /\ call'[k].at \in {"ask", "poll", "sync"}
       => /\ clip' = clip
          /\ call[k].at \in {"ask", "poll", "sync"} \/ clip[k] = NoClip
  /\ \/ clip' = clip
     \/ script[k] # Blank /\ clip' = [clip EXCEPT ![k] = script[k]]
  /\ call'[k].at = "done"
       => \/ clip' = clip /\ clip[k] # NoClip
          \/ script[k] # Blank /\ clip' = [clip EXCEPT ![k] = script[k]]

\* The parts of VoiceMoves that concern the task itself: it becomes n and has asked
\* for b syntheses.
Becomes(k, n, b) ==
  /\ n \in Voice!Call /\ b \in Nat
  /\ call' = [call EXCEPT ![k] = n]
  /\ bought' = [bought EXCEPT ![k] = b]
  /\ b <= 2 * (n.attempt - 1) + Share(n.at)
  /\ b > bought[k] => call[k].at \in {"ask", "poll", "sync"}

LEMMA BecomesFacts ==
  ASSUME Inv, run.at = "speak", NEW k \in DOMAIN script, NEW n, NEW b, Becomes(k, n, b),
         script' = script,
         n.at \in {"ask", "poll", "sync"}
           => /\ clip' = clip
              /\ call[k].at \in {"ask", "poll", "sync"} \/ clip[k] = NoClip,
         \/ clip' = clip /\ (n.at = "done" => clip[k] # NoClip)
         \/ script[k] # Blank /\ clip' = [clip EXCEPT ![k] = script[k]]
  PROVE  VoiceMoves(k)
<1>1. DOMAIN call = DOMAIN script /\ k \in DOMAIN call
      /\ call \in [DOMAIN script -> Voice!Call] /\ bought \in [DOMAIN script -> Nat]
  BY DEF Inv, Shape
<1>2. /\ call' \in [DOMAIN script -> Voice!Call] /\ call'[k] = n
      /\ bought' \in [DOMAIN script -> Nat] /\ bought'[k] = b
      /\ \A j \in DOMAIN script \ {k} : call'[j] = call[j] /\ bought'[j] = bought[j]
  BY <1>1 DEF Becomes
<1> QED BY <1>2 DEF VoiceMoves, Becomes

LEMMA TaskFacts ==
  ASSUME Inv, run.at = "speak", NEW k \in DOMAIN script
  PROVE  /\ call[k] \in Voice!Call /\ bought[k] \in Nat /\ bought[k] + 1 \in Nat
         /\ call[k].attempt \in Nat /\ call[k].attempt <= MaxRetries
         /\ bought[k] <= 2 * (call[k].attempt - 1) + Share(call[k].at)
         /\ bought' = bought => bought' = [bought EXCEPT ![k] = bought[k]]
<1>1. k \in DOMAIN call /\ call[k] \in Voice!Call /\ bought[k] \in Nat
      /\ bought \in [DOMAIN script -> Nat]
  BY DEF Inv, Shape
<1>2. call[k].attempt \in Nat /\ call[k].attempt <= MaxRetries
  BY <1>1, SpeechAssumption DEF Voice!Call
<1>3. bought[k] <= 2 * (call[k].attempt - 1) + Share(call[k].at)
  BY <1>1 DEF Inv, Ledger
<1> QED BY <1>1, <1>2, <1>3

\* A task that only changes where it is.
LEMMA ToFacts ==
  ASSUME NEW k, NEW c \in Voice!Call, c = call[k], NEW at, Voice!To(k, at),
         at \in {"wait", "ask", "poll", "sync", "done", "failed"}
  PROVE  \E n \in Voice!Call : n.at = at /\ n.attempt = c.attempt /\ call' = [call EXCEPT ![k] = n]
<1> DEFINE n == [c EXCEPT !.at = at]
<1>1. n \in Voice!Call /\ n.at = at /\ n.attempt = c.attempt
  BY DEF Voice!Call
<1>2. call' = [call EXCEPT ![k] = n]
  BY DEF Voice!To
<1> HIDE DEF n
<1> QED BY <1>1, <1>2

\* A new attempt, or none.
LEMMA AttemptFacts ==
  ASSUME NEW k, NEW c \in Voice!Call, c = call[k], Voice!FailAttempt(k)
  PROVE  \E n \in Voice!Call :
           /\ call' = [call EXCEPT ![k] = n]
           /\ \/ n.at = "ask" /\ n.attempt = c.attempt + 1
              \/ n.at = "failed" /\ n.attempt = c.attempt
<1>1. CASE Voice!Fail(k)
  BY <1>1, ToFacts DEF Voice!Fail
<1>2. CASE /\ call[k].attempt < MaxRetries
           /\ call' = [call EXCEPT ![k].at = "ask", ![k].attempt = @ + 1, ![k].waited = 0]
  <2> DEFINE n == [c EXCEPT !.at = "ask", !.attempt = @ + 1, !.waited = 0]
  <2>1. c.attempt \in 1..MaxRetries /\ c.attempt < MaxRetries
    BY <1>2 DEF Voice!Call
  <2>2. c.attempt + 1 \in 1..MaxRetries /\ 0 \in 0..Patience
    BY <2>1, SpeechAssumption
  <2>3. n \in Voice!Call /\ n.at = "ask" /\ n.attempt = c.attempt + 1
    BY <2>2 DEF Voice!Call
  <2>4. call' = [call EXCEPT ![k] = n]
    BY <1>2
  <2> HIDE DEF n
  <2> QED BY <2>3, <2>4
<1> QED BY <1>1, <1>2 DEF Voice!FailAttempt

LEMMA VoiceStep ==
  ASSUME Inv, run.at = "speak", Voice!Step
  PROVE  \E k \in DOMAIN script : VoiceMoves(k)
<1>1. script' = script
  BY DEF Voice!Step
<1>2. PICK k \in DOMAIN script :
        \/ Voice!Acquire(k) \/ Voice!Cached(k) \/ Voice!Submit(k) \/ Voice!Unsupported(k)
        \/ Voice!SubmitFails(k) \/ Voice!PollLost(k) \/ Voice!PollPending(k)
        \/ Voice!PollFails(k) \/ Voice!PollDone(k) \/ Voice!SyncDone(k)
        \/ Voice!SyncFails(k) \/ Voice!GiveUp(k)
  BY DEF Voice!Step, Voice!Segments
<1> DEFINE c == call[k]
           b == bought[k]
<1>3. /\ c \in Voice!Call /\ b \in Nat /\ b + 1 \in Nat
      /\ c.attempt \in Nat /\ b <= 2 * (c.attempt - 1) + Share(c.at)
      /\ bought' = bought => bought' = [bought EXCEPT ![k] = b]
  BY TaskFacts
<1>4. Voice!Buy(k) => bought' = [bought EXCEPT ![k] = b + 1]
  BY DEF Voice!Buy
<1>5. ASSUME NEW at \in {"ask", "poll", "sync", "failed"}, Voice!To(k, at),
             NEW a \in {b, b + 1}, bought' = [bought EXCEPT ![k] = a], clip' = clip,
             a <= 2 * (c.attempt - 1) + Share(at),
             a > b => c.at \in {"ask", "poll", "sync"},
             at # "failed" => c.at \in {"ask", "poll", "sync"} \/ clip[k] = NoClip
      PROVE  VoiceMoves(k)
  <2>1. PICK n \in Voice!Call :
          n.at = at /\ n.attempt = c.attempt /\ call' = [call EXCEPT ![k] = n]
    BY <1>3, <1>5, ToFacts
  <2>2. Becomes(k, n, a)
    BY <1>3, <1>5, <2>1 DEF Becomes
  <2> QED BY <1>1, <1>5, <2>1, <2>2, BecomesFacts
<1>6. ASSUME Voice!FailAttempt(k), c.at \in {"ask", "poll", "sync"}, clip' = clip,
             NEW a \in {b, b + 1}, bought' = [bought EXCEPT ![k] = a], a <= 2 * c.attempt
      PROVE  VoiceMoves(k)
  <2>1. PICK n \in Voice!Call :
          /\ call' = [call EXCEPT ![k] = n]
          /\ \/ n.at = "ask" /\ n.attempt = c.attempt + 1
             \/ n.at = "failed" /\ n.attempt = c.attempt
    BY <1>3, <1>6, AttemptFacts
  <2>2. Share("ask") = 0 /\ Share("failed") = 2
    BY DEF Share
  <2>3. a <= 2 * (n.attempt - 1) + Share(n.at)
    BY <1>3, <1>6, <2>1, <2>2
  <2>4. Becomes(k, n, a)
    BY <1>3, <1>6, <2>1, <2>3 DEF Becomes
  <2> QED BY <1>1, <1>6, <2>1, <2>4, BecomesFacts
<1>7. ASSUME Voice!Store(k), c.at \in {"ask", "poll", "sync"},
             NEW a \in {b, b + 1}, bought' = [bought EXCEPT ![k] = a],
             a <= 2 * (c.attempt - 1) + 2
      PROVE  VoiceMoves(k)
  <2>1. /\ Voice!To(k, "done") /\ script[k] # Blank
        /\ clip' = [clip EXCEPT ![k] = script[k]] /\ Share("done") = 2
    BY <1>7 DEF Voice!Store, Voice!Succeed, Share
  <2>2. PICK n \in Voice!Call :
          n.at = "done" /\ n.attempt = c.attempt /\ call' = [call EXCEPT ![k] = n]
    BY <1>3, <2>1, ToFacts
  <2>3. Becomes(k, n, a)
    BY <1>3, <1>7, <2>1, <2>2 DEF Becomes
  <2> QED BY <1>1, <2>1, <2>2, <2>3, BecomesFacts
<1>8. CASE Voice!Acquire(k)
  <2>1. c.at = "wait" /\ clip' = clip /\ bought' = [bought EXCEPT ![k] = b] /\ b <= 2 * (c.attempt - 1)
    BY <1>3, <1>8 DEF Voice!Acquire, Share
  <2>2. CASE clip[k] # NoClip /\ Voice!To(k, "done")
    <3>1. PICK n \in Voice!Call :
            n.at = "done" /\ n.attempt = c.attempt /\ call' = [call EXCEPT ![k] = n]
      BY <1>3, <2>2, ToFacts
    <3>2. Becomes(k, n, b)
      BY <1>3, <2>1, <3>1 DEF Becomes, Share
    <3> QED BY <1>1, <2>1, <2>2, <3>1, <3>2, BecomesFacts
  <2>3. CASE clip[k] = NoClip /\ Voice!To(k, "ask")
    BY <1>3, <1>5, <2>1, <2>3 DEF Share
  <2>4. CASE Voice!To(k, "failed")
    BY <1>3, <1>5, <2>1, <2>4 DEF Share
  <2>5. CASE /\ clip[k] = NoClip
             /\ call' = [call EXCEPT ![k] = [@ EXCEPT !.at = "ask", !.trial = TRUE]]
    <3> DEFINE n == [c EXCEPT !.at = "ask", !.trial = TRUE]
    <3>1. n \in Voice!Call /\ n.at = "ask" /\ n.attempt = c.attempt
      BY <1>3 DEF Voice!Call
    <3>2. call' = [call EXCEPT ![k] = n]
      BY <2>5
    <3> HIDE DEF n
    <3>3. Becomes(k, n, b)
      BY <1>3, <2>1, <3>1, <3>2 DEF Becomes, Share
    <3> QED BY <1>1, <2>1, <2>5, <3>1, <3>3, BecomesFacts
  <2> QED BY <1>8, <2>2, <2>3, <2>4, <2>5 DEF Voice!Acquire
<1>9. CASE Voice!Cached(k)
  BY <1>3, <1>7, <1>9 DEF Voice!Cached, Share
<1>10. CASE Voice!Submit(k)
  BY <1>3, <1>4, <1>5, <1>10 DEF Voice!Submit, Share
<1>11. CASE Voice!Unsupported(k)
  BY <1>3, <1>5, <1>11 DEF Voice!Unsupported, Share
<1>12. CASE Voice!SubmitFails(k)
  BY <1>3, <1>4, <1>6, <1>12 DEF Voice!SubmitFails, Share
<1>13. CASE Voice!PollLost(k)
  BY <1>3, <1>5, <1>13 DEF Voice!PollLost, Share
<1>14. CASE Voice!PollPending(k)
  <2> DEFINE n == [c EXCEPT !.waited = @ + 1]
  <2>1. c.waited \in 0..Patience /\ c.waited + 1 \in 0..Patience
    BY <1>3, <1>14, SpeechAssumption DEF Voice!PollPending, Voice!Call
  <2>2. n \in Voice!Call /\ n.at = c.at /\ n.attempt = c.attempt
    BY <1>3, <2>1 DEF Voice!Call
  <2>3. call' = [call EXCEPT ![k] = n] /\ c.at = "poll" /\ clip' = clip /\ bought' = bought
    BY <1>14 DEF Voice!PollPending
  <2> HIDE DEF n
  <2>4. Becomes(k, n, b)
    BY <1>3, <2>2, <2>3 DEF Becomes
  <2> QED BY <1>1, <2>2, <2>3, <2>4, BecomesFacts
<1>15. CASE Voice!PollFails(k)
  BY <1>3, <1>6, <1>15 DEF Voice!PollFails, Share
<1>16. CASE Voice!PollDone(k)
  BY <1>3, <1>7, <1>16 DEF Voice!PollDone, Share
<1>17. CASE Voice!SyncDone(k)
  BY <1>3, <1>4, <1>7, <1>17 DEF Voice!SyncDone, Share
<1>18. CASE Voice!SyncFails(k)
  BY <1>3, <1>4, <1>6, <1>18 DEF Voice!SyncFails, Share
<1>19. CASE Voice!GiveUp(k)
  <2>1. c.at \in {"ask", "poll", "sync"} /\ Voice!To(k, "failed") /\ clip' = clip
    BY <1>19 DEF Voice!GiveUp, Voice!Active, Voice!Fail
  <2>2. PICK a \in {b, b + 1} : bought' = [bought EXCEPT ![k] = a]
    BY <1>3, <1>4, <1>19 DEF Voice!GiveUp
  <2>3. b <= 2 * (c.attempt - 1) + 1
    BY <1>3, <2>1 DEF Share
  <2>4. a <= 2 * (c.attempt - 1) + Share("failed")
    BY <1>3, <2>3 DEF Share
  <2> QED BY <1>5, <2>1, <2>2, <2>4
<1> QED BY <1>2, <1>8, <1>9, <1>10, <1>11, <1>12, <1>13, <1>14, <1>15, <1>16, <1>17, <1>18, <1>19

----------------------------------------------------------------------------
(* The stages *)

LEMMA InvInit == Init => Inv
<1> SUFFICES ASSUME Init PROVE Inv
  OBVIOUS
<1>1. run = [at |-> "none", kind |-> "local", polls |-> 0] /\ disk = Empty
      /\ script = <<>> /\ call = <<>> /\ bought = <<>>
  BY DEF Init
<1>2. DOMAIN call = {} /\ call \in [DOMAIN call -> Voice!Call] /\ bought \in [DOMAIN call -> Nat]
  BY <1>1
<1>3. Shape
  BY <1>1, <1>2, RunAssumption DEF Shape, Kinds, Empty
<1>4. Ledger
  BY <1>2 DEF Ledger
<1>5. Clock
  BY <1>1 DEF Clock, Empty
<1> QED BY <1>3, <1>4, <1>5 DEF Inv

LEMMA ToRun ==
  ASSUME Inv, NEW at \in Stages \cup {"none", "completed", "failed"}, To(at)
  PROVE  /\ run' \in [at: Stages \cup {"none", "completed", "failed"}, kind: Kinds,
                      polls: 0..MaxPolls]
         /\ run'.at = at
BY DEF Inv, Shape, To

\* Where nothing is spoken there is no task, and nothing to account for.
LEMMA Silent ==
  ASSUME Inv, run'.at # "speak", run' \in [at: Stages \cup {"none", "completed", "failed"},
                                          kind: Kinds, polls: 0..MaxPolls],
         (call' = <<>> /\ bought' = <<>>)
           \/ (call' = call /\ bought' = bought /\ run.at # "speak"),
         disk' = [source |-> disk'.source, audio |-> disk'.audio, sheet |-> disk'.sheet,
                  dub |-> disk'.dub, video |-> disk'.video],
         Clock'
  PROVE  Inv'
<1>1. /\ DOMAIN call' = {} /\ call' \in [DOMAIN call' -> Voice!Call]
      /\ bought' \in [DOMAIN call' -> Nat]
  <2>1. CASE call' = <<>> /\ bought' = <<>>
    BY <2>1
  <2>2. CASE call' = call /\ bought' = bought /\ run.at # "speak"
    BY <2>2 DEF Inv, Shape
  <2> QED BY <2>1, <2>2
<1>2. Shape'
  BY <1>1 DEF Shape, Voice!Call
<1>3. Ledger'
  BY <1>1 DEF Ledger
<1> QED BY <1>2, <1>3 DEF Inv

\* A step of the source, its audio, the dub or the video.
LEMMA AdvanceKeeps ==
  ASSUME Inv, NEW at \in {"copy", "poll", "extract", "render", "completed"}, NEW after,
         Advance(at, after), run.at # "speak",
         after = [source |-> after.source, audio |-> after.audio, sheet |-> disk.sheet,
                  dub |-> after.dub, video |-> after.video],
         at \in {"render", "completed"} => disk.sheet.clock = 1
  PROVE  Inv'
<1>1. /\ run' \in [at: Stages \cup {"none", "completed", "failed"}, kind: Kinds,
                   polls: 0..MaxPolls]
      /\ run'.at = at
  BY ToRun DEF Advance, Stages
<1>2. disk' = after /\ call' = call /\ bought' = bought /\ script' = script
  BY DEF Advance, speaking
<1>3. disk'.sheet = disk.sheet
  BY <1>2
<1>4. Clock'
  BY <1>1, <1>2, <1>3 DEF Inv, Clock
<1>5. disk' = [source |-> disk'.source, audio |-> disk'.audio, sheet |-> disk'.sheet,
               dub |-> disk'.dub, video |-> disk'.video]
  BY <1>2, <1>3
<1> QED BY <1>1, <1>2, <1>4, <1>5, Silent

LEMMA FailKeeps ==
  ASSUME Inv, Fail, disk' = disk
  PROVE  Inv'
<1>1. /\ run' \in [at: Stages \cup {"none", "completed", "failed"}, kind: Kinds,
                   polls: 0..MaxPolls]
      /\ run'.at = "failed"
  BY ToRun DEF Fail
<1>2. call' = <<>> /\ bought' = <<>>
  BY DEF Fail, NothingSpoken
<1>3. Clock'
  BY <1>1 DEF Inv, Clock
<1> QED BY <1>1, <1>2, <1>3, Silent DEF Inv, Shape

LEMMA FilesStagesKeep ==
  ASSUME Inv,
         \/ CopyBegins \/ CopyEnds \/ CopyFound \/ FetchObject \/ CallVideoWorker
         \/ VideoFetched \/ BuildDub \/ Render
  PROVE  Inv'
<1>1. disk = [source |-> disk.source, audio |-> disk.audio, sheet |-> disk.sheet,
              dub |-> disk.dub, video |-> disk.video]
  BY DEF Inv, Shape
<1>2. \A content : WithSource(content)
        = [source |-> content, audio |-> disk.audio, sheet |-> disk.sheet,
           dub |-> disk.dub, video |-> disk.video]
  BY <1>1 DEF WithSource
<1>3. CASE CopyBegins
  BY <1>2, <1>3, AdvanceKeeps DEF CopyBegins
<1>4. CASE CopyEnds
  BY <1>2, <1>4, AdvanceKeeps DEF CopyEnds
<1>5. CASE CopyFound
  BY <1>1, <1>5, AdvanceKeeps DEF CopyFound
<1>6. CASE FetchObject
  BY <1>2, <1>6, AdvanceKeeps DEF FetchObject
<1>7. CASE CallVideoWorker
  BY <1>1, <1>7, AdvanceKeeps DEF CallVideoWorker
<1>8. CASE VideoFetched
  BY <1>2, <1>8, AdvanceKeeps DEF VideoFetched
<1>9. CASE BuildDub
  <2> DEFINE after == [disk EXCEPT !.dub = IF @ = Nothing THEN Track ELSE @]
  <2>1. after = [source |-> disk.source, audio |-> disk.audio, sheet |-> disk.sheet,
                 dub |-> after.dub, video |-> disk.video]
    BY <1>1
  <2>2. run.at = "dub" /\ Advance("render", after)
    BY <1>9 DEF BuildDub
  <2> HIDE DEF after
  <2> QED BY <2>1, <2>2, AdvanceKeeps DEF Inv, Clock
<1>10. CASE Render
  <2> DEFINE after == [disk EXCEPT !.video = Rendered]
  <2>1. after = [source |-> disk.source, audio |-> disk.audio, sheet |-> disk.sheet,
                 dub |-> disk.dub, video |-> after.video]
    BY <1>1
  <2>2. run.at = "render" /\ Advance("completed", after)
    BY <1>10 DEF Render
  <2> HIDE DEF after
  <2> QED BY <2>1, <2>2, AdvanceKeeps DEF Inv, Clock
<1> QED BY <1>3, <1>4, <1>5, <1>6, <1>7, <1>8, <1>9, <1>10

LEMMA ExtractKeeps ==
  ASSUME Inv, Extract
  PROVE  Inv'
<1>1. /\ run' \in [at: Stages \cup {"none", "completed", "failed"}, kind: Kinds,
                   polls: 0..MaxPolls]
      /\ run'.at = "transcribe"
  BY ToRun DEF Extract, Stages
<1>2. disk' = WithAudio /\ call' = call /\ bought' = bought /\ run.at # "speak"
  BY DEF Extract, speaking
<1>3. disk' = [source |-> disk.source, audio |-> disk'.audio, sheet |-> disk.sheet,
               dub |-> disk.dub, video |-> disk.video]
  BY <1>2 DEF WithAudio, Inv, Shape
<1>4. Clock'
  BY <1>1, <1>3 DEF Inv, Clock
<1> QED BY <1>1, <1>2, <1>3, <1>4, Silent

\* What a step that writes the sheet leaves.
LEMMA SheetFacts ==
  ASSUME Inv, NEW words, NEW clock, disk' = WithSheet(words, clock)
  PROVE  /\ disk' = [source |-> disk'.source, audio |-> disk'.audio, sheet |-> disk'.sheet,
                     dub |-> disk'.dub, video |-> disk'.video]
         /\ disk'.sheet = [words |-> words, clock |-> clock]
         /\ disk'.sheet.words = words /\ disk'.sheet.clock = clock
         /\ disk'.source = disk.source /\ disk'.dub = disk.dub /\ disk'.video = disk.video
BY DEF WithSheet, Inv, Shape

LEMMA TranscribeEndsFacts ==
  ASSUME TranscribeEnds
  PROVE  /\ run.at = "transcribe" /\ disk' = WithSheet(script', 0)
         /\ changed' = (changed \/ (disk.sheet # Nothing /\ disk.sheet.words # script'))
         /\ clip' = clip /\ cut' = cut /\ counts' = counts
         /\ \/ To("completed") /\ script' = <<>> /\ UNCHANGED <<call, bought>>
            \/ To("speak") /\ script' # <<>> /\ Voice!Queued
BY DEF TranscribeEnds

\* start: a task per segment, and no request yet.
LEMMA QueuedFacts ==
  ASSUME Voice!Queued
  PROVE  /\ DOMAIN call' = DOMAIN script' /\ call' \in [DOMAIN script' -> Voice!Call]
         /\ bought' \in [DOMAIN script' -> Nat]
         /\ \A k \in DOMAIN script' : /\ call'[k].at = "wait" /\ call'[k].attempt = 1
                                      /\ bought'[k] = 0
<1> DEFINE n == [at |-> "wait", attempt |-> 1, waited |-> 0, trial |-> FALSE]
<1>1. n \in Voice!Call /\ n.at = "wait" /\ n.attempt = 1
  BY SpeechAssumption DEF Voice!Call
<1>2. call' = [k \in DOMAIN script' |-> n] /\ bought' = [k \in DOMAIN script' |-> 0]
  BY DEF Voice!Queued
<1> HIDE DEF n
<1> QED BY <1>1, <1>2

LEMMA TranscribeEndsKeeps ==
  ASSUME Inv, TranscribeEnds
  PROVE  Inv'
<1>1. /\ disk' = [source |-> disk'.source, audio |-> disk'.audio, sheet |-> disk'.sheet,
                  dub |-> disk'.dub, video |-> disk'.video]
      /\ disk'.sheet.clock = 0
  BY TranscribeEndsFacts, SheetFacts
<1>2. CASE To("completed") /\ script' = <<>> /\ UNCHANGED <<call, bought>>
  <2>1. /\ run' \in [at: Stages \cup {"none", "completed", "failed"}, kind: Kinds,
                     polls: 0..MaxPolls]
        /\ run'.at = "completed"
    BY <1>2, ToRun
  <2>2. Clock'
    BY <1>1, <1>2, <2>1 DEF Clock
  <2> QED BY <1>1, <1>2, <2>1, <2>2, TranscribeEndsFacts, Silent
<1>3. CASE To("speak") /\ Voice!Queued
  <2>1. /\ run' \in [at: Stages \cup {"none", "completed", "failed"}, kind: Kinds,
                     polls: 0..MaxPolls]
        /\ run'.at = "speak"
    BY <1>3, ToRun DEF Stages
  <2>2. /\ DOMAIN call' = DOMAIN script' /\ call' \in [DOMAIN script' -> Voice!Call]
        /\ bought' \in [DOMAIN script' -> Nat]
        /\ \A k \in DOMAIN script' : /\ call'[k].at = "wait" /\ call'[k].attempt = 1
                                     /\ bought'[k] = 0
    BY <1>3, QueuedFacts
  <2>3. Clock'
    BY <1>1, <2>1 DEF Clock
  <2>4. Shape'
    BY <1>1, <2>1, <2>2 DEF Shape, Voice!Call
  <2>5. Ledger'
    BY <2>2 DEF Ledger, Share
  <2> QED BY <2>3, <2>4, <2>5 DEF Inv
<1> QED BY <1>2, <1>3, TranscribeEndsFacts

LEMMA SpeakKeeps ==
  ASSUME Inv, Speak
  PROVE  Inv'
<1>1. run.at = "speak" /\ Voice!Step /\ run' = run /\ disk' = disk
  BY DEF Speak
<1>2. PICK k \in DOMAIN script : VoiceMoves(k)
  BY <1>1, VoiceStep
<1>3. /\ script' = script /\ call' \in [DOMAIN script -> Voice!Call]
      /\ bought' \in [DOMAIN script -> Nat]
      /\ \A j \in DOMAIN script \ {k} : call'[j] = call[j] /\ bought'[j] = bought[j]
      /\ bought'[k] <= 2 * (call'[k].attempt - 1) + Share(call'[k].at)
  BY <1>2 DEF VoiceMoves
<1>4. Shape'
  BY <1>1, <1>3 DEF Inv, Shape, Voice!Call
<1>5. Ledger'
  BY <1>1, <1>3 DEF Inv, Shape, Ledger, Share
<1>6. Clock'
  BY <1>1, <1>3 DEF Inv, Clock
<1> QED BY <1>4, <1>5, <1>6 DEF Inv

LEMMA AlignKeeps ==
  ASSUME Inv, Align
  PROVE  Inv'
<1>1. /\ run.at = "align" /\ To("dub") /\ disk' = WithSheet(script, disk.sheet.clock + 1)
      /\ UNCHANGED <<script, call, bought>>
  BY DEF Align, Advance, speaking
<1>2. /\ run' \in [at: Stages \cup {"none", "completed", "failed"}, kind: Kinds,
                   polls: 0..MaxPolls]
      /\ run'.at = "dub"
  BY <1>1, ToRun DEF Stages
<1>3. disk.sheet.clock = 0
  BY <1>1 DEF Inv, Clock
<1>4. /\ disk' = [source |-> disk'.source, audio |-> disk'.audio, sheet |-> disk'.sheet,
                  dub |-> disk'.dub, video |-> disk'.video]
      /\ disk'.sheet.clock = 1
  <2>1. disk' = WithSheet(script, 1)
    BY <1>1, <1>3
  <2> QED BY <2>1, SheetFacts
<1>5. Clock'
  BY <1>2, <1>4 DEF Clock
<1> QED BY <1>1, <1>2, <1>4, <1>5, Silent

LEMMA RestKeeps ==
  ASSUME Inv,
         \/ \E kind \in Kinds : Begin(kind)
         \/ VideoPending \/ Transcribe \/ TranscribeFails \/ StageFails \/ SpeakEnds
         \/ Clean \/ Crash \/ UNCHANGED vars
  PROVE  Inv'
<1>1. disk = [source |-> disk.source, audio |-> disk.audio, sheet |-> disk.sheet,
              dub |-> disk.dub, video |-> disk.video]
  BY DEF Inv, Shape
<1>2. CASE \E kind \in Kinds : Begin(kind)
  <2>1. /\ run'.at = "source" /\ disk' = disk /\ run.at # "speak"
        /\ call' = call /\ bought' = bought
        /\ run' \in [at: Stages \cup {"none", "completed", "failed"}, kind: Kinds,
                     polls: 0..MaxPolls]
    BY <1>2, RunAssumption DEF Begin, files, Active, Stages
  <2>2. Clock'
    BY <2>1 DEF Inv, Clock
  <2> QED BY <1>1, <2>1, <2>2, Silent
<1>3. CASE VideoPending
  <2>1. /\ run.at = "poll" /\ run'.at = "poll" /\ disk' = disk
        /\ call' = call /\ bought' = bought
        /\ run' \in [at: Stages \cup {"none", "completed", "failed"}, kind: Kinds,
                     polls: 0..MaxPolls]
    BY <1>3, RunAssumption DEF VideoPending, files, Inv, Shape
  <2>2. Clock'
    BY <2>1 DEF Inv, Clock
  <2> QED BY <1>1, <2>1, <2>2, Silent
<1>4. CASE Transcribe
  <2>1. run' = run /\ disk' = disk /\ call' = call /\ bought' = bought /\ run.at = "transcribe"
    BY <1>4 DEF Transcribe, files
  <2>2. Clock'
    BY <2>1 DEF Inv, Clock
  <2> QED BY <1>1, <2>1, <2>2, Silent DEF Inv, Shape
<1>5. CASE TranscribeFails
  BY <1>5, FailKeeps DEF TranscribeFails
<1>6. CASE StageFails
  BY <1>6, FailKeeps DEF StageFails
<1>7. CASE SpeakEnds
  <2>1. CASE Fail
    BY <1>7, <2>1, FailKeeps DEF SpeakEnds
  <2>2. CASE To("align") /\ UNCHANGED <<script, asking>> /\ NothingSpoken
    <3>1. /\ run.at = "speak" /\ disk' = disk /\ call' = <<>> /\ bought' = <<>>
          /\ run' \in [at: Stages \cup {"none", "completed", "failed"}, kind: Kinds,
                       polls: 0..MaxPolls]
          /\ run'.at = "align"
      BY <1>7, <2>2, ToRun DEF SpeakEnds, NothingSpoken, Stages
    <3>2. Clock'
      BY <3>1 DEF Inv, Clock
    <3> QED BY <1>1, <3>1, <3>2, Silent
  <2> QED BY <1>7, <2>1, <2>2 DEF SpeakEnds
<1>8. CASE Clean
  <2>1. run' = run /\ disk' = Empty /\ call' = call /\ bought' = bought
        /\ run.at \notin Stages \ {"source"}
    BY <1>8 DEF Clean, Active
  <2>2. run.at \notin {"speak", "align", "dub", "render"}
    BY <2>1 DEF Stages
  <2>3. disk' = [source |-> disk'.source, audio |-> disk'.audio, sheet |-> disk'.sheet,
                 dub |-> disk'.dub, video |-> disk'.video] /\ disk'.sheet = Nothing
    BY <2>1 DEF Empty
  <2>4. Clock'
    BY <2>1, <2>2, <2>3 DEF Clock, Empty
  <2> QED BY <2>1, <2>2, <2>3, <2>4, Silent DEF Inv, Shape
<1>9. CASE Crash
  <2>1. /\ disk' = disk /\ call' = <<>> /\ bought' = <<>>
        /\ run' \in [at: Stages \cup {"none", "completed", "failed"}, kind: Kinds,
                     polls: 0..MaxPolls]
        /\ run'.at = "none"
    BY <1>9, ToRun DEF Crash
  <2>2. Clock'
    BY <2>1 DEF Inv, Clock
  <2> QED BY <1>1, <2>1, <2>2, Silent
<1>10. CASE UNCHANGED vars
  <2>1. run' = run /\ disk' = disk /\ script' = script /\ call' = call /\ bought' = bought
    BY <1>10 DEF vars, speaking
  <2> QED BY <2>1 DEF Inv, Shape, Ledger, Clock, Voice!Call
<1> QED BY <1>2, <1>3, <1>4, <1>5, <1>6, <1>7, <1>8, <1>9, <1>10

LEMMA InvNext == Inv /\ [Next]_vars => Inv'
<1> SUFFICES ASSUME Inv, [Next]_vars PROVE Inv'
  OBVIOUS
<1> QED BY FilesStagesKeep, ExtractKeeps, TranscribeEndsKeeps, SpeakKeeps, AlignKeeps, RestKeeps
        DEF Next, Step

LEMMA InvHolds == Spec => []Inv
BY InvInit, InvNext, PTL DEF Spec

\* tts.py: no run asks more than twice per attempt for the synthesis of a segment.
THEOREM SpendIsBounded == Spec => []SpendBounded
<1>1. Inv => SpendBounded
  <2> SUFFICES ASSUME Inv, NEW k \in DOMAIN bought PROVE bought[k] <= 2 * MaxRetries
    BY DEF SpendBounded
  <2>1. k \in DOMAIN call /\ call[k] \in Voice!Call /\ bought[k] \in Nat
    BY DEF Inv, Shape
  <2>2. call[k].attempt \in 1..MaxRetries
    BY <2>1 DEF Voice!Call
  <2>3. bought[k] <= 2 * (call[k].attempt - 1) + 2
    BY <2>1, <2>2 DEF Inv, Ledger, Share
  <2> QED BY <2>1, <2>2, <2>3, SpeechAssumption
<1> QED BY <1>1, InvHolds, PTL

\* transcript.py and align.py: the sheet is moved at most once, and once when the
\* job completes, whatever a previous run or a kill has left.
THEOREM ClockMovesOnce == Spec => []ClockOnce
<1>1. Inv => ClockOnce
  BY DEF Inv, Clock, ClockOnce
<1> QED BY <1>1, InvHolds, PTL

----------------------------------------------------------------------------
(* Words *)

Later == {"extract", "transcribe", "speak", "align", "dub", "render"}

\* A clip that is being asked for is not there; one that is, says a word.
Clips ==
  /\ clip \in [1..Lines -> Words \cup {NoClip}]
  /\ \A k \in DOMAIN call :
       /\ call[k].at \in {"ask", "poll", "sync"} => clip[k] = NoClip
       /\ call[k].at = "done" => clip[k] # NoClip
  /\ run.at \in {"align", "dub"} => \A k \in DOMAIN script : clip[k] # NoClip

\* The sheet has the words of the run, and so have the clips and the dub, unless a
\* transcript was changed.
Sheet ==
  /\ disk.sheet = Nothing \/ disk.sheet \in [words: Script, clock: Nat]
  /\ run.at \in {"speak", "align", "dub", "render"}
       => disk.sheet # Nothing /\ disk.sheet.words = script
Same ==
  ~changed =>
    /\ \A k \in 1..Lines : clip[k] # NoClip =>
         /\ disk.sheet # Nothing
         /\ k \in DOMAIN disk.sheet.words /\ clip[k] = disk.sheet.words[k]
    /\ disk.dub # Nothing => disk.sheet # Nothing /\ disk.dub = disk.sheet.words

\* The source is torn only while it is copied.
Source ==
  ~cut => /\ disk.source \in {Nothing, "torn", "whole"}
          /\ disk.source = "torn" => run.at = "copy"
          /\ run.at \in Later => disk.source = "whole"

Complete ==
  /\ run.at = "render" => disk.dub # Nothing
  /\ run.at = "completed" /\ script # <<>> /\ disk # Empty /\ ~changed /\ ~cut
       => disk.video = [dub |-> script, subtitles |-> script, source |-> "whole"]

Typed == script \in Script
WordsInv == Clips /\ Sheet /\ Same /\ Source /\ Complete

\* A script is a sequence of at most Lines words, each there to be said.
LEMMA ScriptFacts ==
  ASSUME Typed
  PROVE  /\ DOMAIN script \subseteq 1..Lines
         /\ \A k \in DOMAIN script : script[k] \in Words /\ script[k] # NoClip
         /\ script = [k \in DOMAIN script |-> script[k]]
         /\ script # Nothing
<1>1. PICK n \in 0..Lines : script \in [1..n -> Words]
  BY DEF Typed, Script
<1>2. DOMAIN script = 1..n /\ 1..n \subseteq 1..Lines
  BY <1>1, GeminiAssumption
<1>3. script # Nothing
  BY WordsAssumption DEF Typed
<1> QED BY <1>1, <1>2, <1>3, WordsAssumption

LEMMA WordsInit == Init => WordsInv
<1> SUFFICES ASSUME Init PROVE WordsInv
  OBVIOUS
<1>1. /\ run.at = "none" /\ disk = Empty /\ script = <<>> /\ DOMAIN call = {}
      /\ clip = [k \in 1..Lines |-> NoClip]
  BY DEF Init
<1>2. Clips
  BY <1>1 DEF Clips
<1>3. disk.sheet = Nothing /\ disk.dub = Nothing /\ disk.source = Nothing
  BY <1>1 DEF Empty
<1>4. Sheet
  BY <1>1, <1>3 DEF Sheet
<1>5. Same
  BY <1>1, <1>3 DEF Same
<1>6. Source
  BY <1>1, <1>3, WordsAssumption DEF Source, Later
<1>7. Complete
  BY <1>1 DEF Complete
<1> QED BY <1>2, <1>4, <1>5, <1>6, <1>7 DEF WordsInv

\* A step that speaks nothing, and writes no sheet, dub or video.
LEMMA QuietKeeps ==
  ASSUME WordsInv, clip' = clip, changed' = changed,
         disk'.sheet = disk.sheet, disk'.dub = disk.dub,
         run'.at \notin {"speak", "align", "dub", "render", "completed"}
           \/ (run' = run /\ disk' = disk /\ script' = script /\ call' = call /\ cut' = cut),
         run'.at # "speak" => DOMAIN call' = {},
         Source'
  PROVE  WordsInv'
<1>1. CASE run' = run /\ disk' = disk /\ script' = script /\ call' = call /\ cut' = cut
  BY <1>1 DEF WordsInv, Clips, Sheet, Same, Complete, Empty, Words, Script
<1>2. CASE run'.at \notin {"speak", "align", "dub", "render", "completed"}
  <2>1. DOMAIN call' = {}
    BY <1>2
  <2>2. Clips'
    BY <1>2, <2>1 DEF WordsInv, Clips, Words
  <2>3. Sheet'
    BY <1>2 DEF WordsInv, Sheet, Script
  <2>4. Same'
    BY DEF WordsInv, Same
  <2>5. Complete'
    BY <1>2 DEF Complete
  <2> QED BY <2>2, <2>3, <2>4, <2>5 DEF WordsInv
<1> QED BY <1>1, <1>2

\* Which steps are quiet, and why the source stays as it should.
LEMMA QuietSteps ==
  ASSUME Inv, Inv', WordsInv,
         \/ \E kind \in Kinds : Begin(kind)
         \/ CopyBegins \/ CopyEnds \/ CopyFound \/ FetchObject \/ CallVideoWorker
         \/ VideoPending \/ VideoFetched \/ Extract \/ Transcribe \/ TranscribeFails
         \/ StageFails \/ Crash \/ UNCHANGED vars
  PROVE  WordsInv'
<1> USE DEF Stages, Later
<1>1. /\ disk = [source |-> disk.source, audio |-> disk.audio, sheet |-> disk.sheet,
                 dub |-> disk.dub, video |-> disk.video]
      /\ run'.at # "speak" => DOMAIN call' = {}
      /\ Source
  BY DEF Inv, Shape, WordsInv
<1>2. \A at : To(at) => run'.at = at
  BY DEF To, Inv, Shape
<1>3. \A content :
        /\ WithSource(content).sheet = disk.sheet
        /\ WithSource(content).dub = disk.dub
        /\ WithSource(content).source = content
  BY <1>1 DEF WithSource
<1>4. CASE \E kind \in Kinds : Begin(kind)
  <2>1. /\ run'.at = "source" /\ disk' = disk /\ UNCHANGED <<clip, changed, cut>>
        /\ run.at \notin Stages
    BY <1>4 DEF Begin, files, Active
  <2>2. Source'
    BY <1>1, <2>1 DEF Source
  <2> QED BY <1>1, <2>1, <2>2, QuietKeeps
<1>5. ASSUME NEW at \in {"copy", "extract", "poll"}, NEW content, Advance(at, WithSource(content)),
             /\ at = "copy" => content = "torn"
             /\ at # "copy" => content = "whole"
      PROVE  WordsInv'
  <2>1. /\ run'.at = at /\ disk' = WithSource(content) /\ UNCHANGED <<clip, changed, cut>>
    BY <1>2, <1>5 DEF Advance, speaking
  <2>2. Source'
    BY <1>3, <1>5, <2>1 DEF Source
  <2> QED BY <1>1, <1>3, <1>5, <2>1, <2>2, QuietKeeps
<1>6. ASSUME NEW at \in {"extract", "poll"}, Advance(at, disk), run.at # "copy",
             at = "extract" => disk.source # Nothing
      PROVE  WordsInv'
  <2>1. /\ run'.at = at /\ disk' = disk /\ UNCHANGED <<clip, changed, cut>>
    BY <1>2, <1>6 DEF Advance, speaking
  <2>2. Source'
    BY <1>1, <1>6, <2>1 DEF Source
  <2> QED BY <1>1, <1>6, <2>1, <2>2, QuietKeeps
<1>7. CASE VideoPending
  <2>1. /\ run.at = "poll" /\ run'.at = "poll" /\ disk' = disk
        /\ UNCHANGED <<clip, changed, cut>>
    BY <1>7 DEF VideoPending, files, Inv, Shape
  <2>2. Source'
    BY <1>1, <2>1 DEF Source
  <2> QED BY <1>1, <2>1, <2>2, QuietKeeps
<1>8. CASE Extract
  <2>1. /\ run.at = "extract" /\ run'.at = "transcribe" /\ disk' = WithAudio
        /\ UNCHANGED <<clip, changed, cut>>
    BY <1>2, <1>8 DEF Extract, speaking
  <2>2. disk'.source = disk.source /\ disk'.sheet = disk.sheet /\ disk'.dub = disk.dub
    BY <1>1, <2>1 DEF WithAudio
  <2>3. Source'
    BY <1>1, <2>1, <2>2 DEF Source
  <2> QED BY <1>1, <2>1, <2>2, <2>3, QuietKeeps
<1>9. CASE Transcribe
  <2>1. /\ run' = run /\ run.at = "transcribe" /\ disk' = disk /\ UNCHANGED <<clip, changed, cut>>
    BY <1>9 DEF Transcribe, files
  <2>2. Source'
    BY <1>1, <2>1 DEF Source
  <2> QED BY <1>1, <2>1, <2>2, QuietKeeps
<1>10. CASE TranscribeFails
  <2>1. /\ run'.at = "failed" /\ run.at = "transcribe" /\ disk' = disk
        /\ UNCHANGED <<clip, changed, cut>>
    BY <1>2, <1>10 DEF TranscribeFails, Fail, NothingSpoken
  <2>2. Source'
    BY <1>1, <2>1 DEF Source
  <2> QED BY <1>1, <2>1, <2>2, QuietKeeps
<1>11. CASE StageFails
  <2>1. /\ run'.at = "failed" /\ disk' = disk /\ UNCHANGED <<clip, changed>>
        /\ cut' = (cut \/ run.at = "copy")
    BY <1>2, <1>11 DEF StageFails, Fail, NothingSpoken
  <2>2. Source'
    BY <1>1, <2>1 DEF Source
  <2> QED BY <1>1, <2>1, <2>2, QuietKeeps
<1>12. CASE Crash
  <2>1. /\ run'.at = "none" /\ disk' = disk /\ UNCHANGED <<clip, changed>>
        /\ cut' = (cut \/ run.at = "copy")
    BY <1>2, <1>12 DEF Crash
  <2>2. Source'
    BY <1>1, <2>1 DEF Source
  <2> QED BY <1>1, <2>1, <2>2, QuietKeeps
<1>13. CASE UNCHANGED vars
  <2>1. UNCHANGED <<run, disk, script, call, clip, changed, cut>>
    BY <1>13 DEF vars, speaking
  <2>2. Source'
    BY <1>1, <2>1 DEF Source
  <2> QED BY <1>1, <2>1, <2>2, QuietKeeps
<1>14. CASE CopyBegins
  BY <1>5, <1>14 DEF CopyBegins
<1>15. CASE CopyEnds
  BY <1>5, <1>15 DEF CopyEnds
<1>16. CASE CopyFound
  BY <1>6, <1>16 DEF CopyFound
<1>17. CASE FetchObject
  BY <1>5, <1>17 DEF FetchObject
<1>18. CASE CallVideoWorker
  BY <1>6, <1>18 DEF CallVideoWorker
<1>19. CASE VideoFetched
  BY <1>5, <1>19 DEF VideoFetched
<1> QED BY <1>4, <1>7, <1>8, <1>9, <1>10, <1>11, <1>12, <1>13, <1>14, <1>15, <1>16, <1>17,
           <1>18, <1>19

\* The segments are written anew: clips and dub of another transcript are marked.
LEMMA TranscribeEndsSame ==
  ASSUME Inv, Inv', WordsInv, Typed', TranscribeEnds
  PROVE  WordsInv'
<1>1. /\ run.at = "transcribe" /\ disk' = WithSheet(script', 0) /\ clip' = clip /\ cut' = cut
      /\ changed' = (changed \/ (disk.sheet # Nothing /\ disk.sheet.words # script'))
      /\ \/ run'.at = "completed" /\ script' = <<>>
         \/ run'.at = "speak" /\ Voice!Queued
  BY TranscribeEndsFacts DEF To, Inv, Shape
<1>2. /\ disk'.sheet = [words |-> script', clock |-> 0] /\ disk'.sheet.words = script'
      /\ disk'.source = disk.source /\ disk'.dub = disk.dub
  BY <1>1, SheetFacts
<1>3. disk'.sheet \in [words: Script, clock: Nat] /\ disk'.sheet # Nothing
  <2>1. disk'.sheet \in [words: Script, clock: Nat]
    BY <1>2 DEF Typed
  <2> QED BY <2>1, WordsAssumption
<1>4. Clips'
  <2>1. clip' \in [1..Lines -> Words \cup {NoClip}]
    BY <1>1 DEF WordsInv, Clips
  <2>2. \A k \in DOMAIN call' : call'[k].at \notin {"ask", "poll", "sync", "done"}
    <3>1. CASE run'.at = "completed"
      BY <3>1 DEF Inv, Shape
    <3>2. CASE Voice!Queued
      BY <3>2, QueuedFacts
    <3> QED BY <1>1, <3>1, <3>2
  <2> QED BY <1>1, <2>1, <2>2 DEF Clips, Words
<1>5. Sheet'
  BY <1>1, <1>2, <1>3 DEF Sheet, Script
<1>6. Same'
  BY <1>1, <1>2, <1>3 DEF WordsInv, Same
<1>7. Source'
  BY <1>1, <1>2 DEF WordsInv, Source, Later
<1>8. Complete'
  BY <1>1 DEF Complete
<1> QED BY <1>4, <1>5, <1>6, <1>7, <1>8 DEF WordsInv

\* A clip says the words of its segment.
LEMMA SpeakSame ==
  ASSUME Inv, Inv', WordsInv, Typed, Speak
  PROVE  WordsInv'
<1>1. /\ run.at = "speak" /\ Voice!Step /\ run' = run /\ disk' = disk
      /\ changed' = changed /\ cut' = cut
  BY DEF Speak
<1>2. PICK k \in DOMAIN script : VoiceMoves(k)
  BY <1>1, VoiceStep
<1>3. /\ script' = script /\ DOMAIN call' = DOMAIN script /\ DOMAIN call = DOMAIN script
      /\ \A j \in DOMAIN script \ {k} : call'[j] = call[j]
  BY <1>1, <1>2 DEF VoiceMoves, Inv, Shape
<1>4. /\ DOMAIN script \subseteq 1..Lines /\ script[k] \in Words /\ script[k] # NoClip
      /\ clip \in [1..Lines -> Words \cup {NoClip}]
  BY ScriptFacts DEF WordsInv, Clips
<1>5. /\ clip' \in [1..Lines -> Words \cup {NoClip}]
      /\ \A j \in 1..Lines : clip'[j] = clip[j] \/ (j = k /\ clip'[j] = script[k])
      /\ call'[k].at = "done" => clip'[k] # NoClip
      /\ call'[k].at \in {"ask", "poll", "sync"} => clip'[k] = NoClip
  <2>1. CASE clip' = clip
    BY <1>2, <1>3, <1>4, <2>1 DEF VoiceMoves, WordsInv, Clips
  <2>2. CASE script[k] # Blank /\ clip' = [clip EXCEPT ![k] = script[k]]
    <3>1. k \in 1..Lines
      BY <1>4
    <3>2. clip' \in [1..Lines -> Words \cup {NoClip}] /\ clip'[k] = script[k]
          /\ \A j \in 1..Lines \ {k} : clip'[j] = clip[j]
      BY <1>4, <2>2, <3>1
    <3>3. call'[k].at \in {"ask", "poll", "sync"} => clip'[k] = NoClip
      BY <1>2, <1>3 DEF VoiceMoves, WordsInv, Clips
    <3> QED BY <1>4, <3>2, <3>3
  <2> QED BY <1>2, <2>1, <2>2 DEF VoiceMoves
<1>6. Clips'
  BY <1>1, <1>3, <1>4, <1>5 DEF WordsInv, Clips, Words
<1>7. Sheet'
  BY <1>1, <1>3 DEF WordsInv, Sheet, Script
<1>8. Same'
  BY <1>1, <1>3, <1>4, <1>5 DEF WordsInv, Same, Sheet
<1>9. Source' /\ Complete'
  BY <1>1 DEF WordsInv, Source, Complete
<1> QED BY <1>6, <1>7, <1>8, <1>9 DEF WordsInv

LEMMA SpeakEndsSame ==
  ASSUME Inv, Inv', WordsInv, SpeakEnds
  PROVE  WordsInv'
<1>1. /\ run.at = "speak" /\ disk' = disk /\ changed' = changed /\ cut' = cut
      /\ \A k \in DOMAIN script : call[k].at \in {"done", "failed"}
      /\ clip' = clip
  BY DEF SpeakEnds, Fail, NothingSpoken, Voice!AllOver, Voice!Segments
<1>2. /\ run'.at # "speak" => DOMAIN call' = {}
      /\ DOMAIN call = DOMAIN script
  BY <1>1 DEF Inv, Shape
<1>3. CASE Fail
  <2>1. run'.at = "failed"
    BY <1>3 DEF Fail, To, Inv, Shape
  <2>2. Source'
    BY <1>1, <2>1 DEF WordsInv, Source, Later
  <2> QED BY <1>1, <1>2, <2>1, <2>2, QuietKeeps
<1>4. CASE ~Voice!AnyFailed /\ To("align") /\ UNCHANGED <<script, asking>> /\ NothingSpoken
  <2>1. run'.at = "align" /\ script' = script
    BY <1>4 DEF To, Inv, Shape
  <2>2. \A k \in DOMAIN script : clip[k] # NoClip
    BY <1>1, <1>2, <1>4 DEF Voice!AnyFailed, Voice!Segments, WordsInv, Clips
  <2>3. Clips'
    BY <1>1, <1>2, <2>1, <2>2 DEF WordsInv, Clips, Words
  <2>4. Sheet'
    BY <1>1, <2>1 DEF WordsInv, Sheet, Script
  <2>5. Same'
    BY <1>1 DEF WordsInv, Same
  <2>6. Source' /\ Complete'
    BY <1>1, <2>1 DEF WordsInv, Source, Complete, Later
  <2> QED BY <2>3, <2>4, <2>5, <2>6 DEF WordsInv
<1> QED BY <1>3, <1>4 DEF SpeakEnds

LEMMA AlignSame ==
  ASSUME Inv, Inv', WordsInv, Typed, Align
  PROVE  WordsInv'
<1>1. /\ run.at = "align" /\ run'.at = "dub"
      /\ disk' = WithSheet(script, disk.sheet.clock + 1)
      /\ script' = script /\ clip' = clip /\ changed' = changed /\ cut' = cut
  BY DEF Align, Advance, speaking, To, Inv, Shape
<1>2. disk.sheet.clock = 0 /\ DOMAIN call' = {}
  BY <1>1 DEF Inv, Clock, Shape
<1>3. /\ disk'.sheet = [words |-> script, clock |-> 1] /\ disk'.sheet.words = script
      /\ disk'.source = disk.source /\ disk'.dub = disk.dub
  <2>1. disk' = WithSheet(script, 1)
    BY <1>1, <1>2
  <2> QED BY <2>1, SheetFacts
<1>4. disk'.sheet \in [words: Script, clock: Nat] /\ disk'.sheet # Nothing
  <2>1. disk'.sheet \in [words: Script, clock: Nat]
    BY <1>3 DEF Typed
  <2> QED BY <2>1, WordsAssumption
<1>5. Clips'
  BY <1>1, <1>2 DEF WordsInv, Clips, Words
<1>6. Sheet'
  BY <1>1, <1>3, <1>4 DEF Sheet, Script
<1>7. Same'
  BY <1>1, <1>3, <1>4 DEF WordsInv, Sheet, Same
<1>8. Source' /\ Complete'
  BY <1>1, <1>3 DEF WordsInv, Source, Complete, Later
<1> QED BY <1>5, <1>6, <1>7, <1>8 DEF WordsInv

\* The dub that is there, or is built, speaks the script.
LEMMA BuildDubSame ==
  ASSUME Inv, Inv', WordsInv, Typed, BuildDub
  PROVE  WordsInv'
<1> DEFINE dub == IF disk.dub = Nothing THEN Track ELSE disk.dub
<1>1. /\ run.at = "dub" /\ run'.at = "render" /\ disk' = [disk EXCEPT !.dub = dub]
      /\ script' = script /\ clip' = clip /\ changed' = changed /\ cut' = cut
  BY DEF BuildDub, Advance, speaking, To, Inv, Shape
<1>2. /\ disk'.dub = dub /\ disk'.sheet = disk.sheet /\ disk'.source = disk.source
  BY <1>1 DEF Inv, Shape
<1>3. /\ disk.sheet # Nothing /\ disk.sheet.words = script
      /\ \A k \in DOMAIN script : clip[k] # NoClip
  BY <1>1 DEF WordsInv, Sheet, Clips
<1>4. ~changed => Track = script
  <2> SUFFICES ASSUME ~changed PROVE Track = script
    OBVIOUS
  <2>1. \A k \in DOMAIN script : clip[k] = script[k]
    BY <1>3, ScriptFacts DEF WordsInv, Same
  <2>2. Track = [k \in DOMAIN script |-> script[k]]
    BY <2>1 DEF Track
  <2> QED BY <2>2, ScriptFacts
<1>5. Track # Nothing
  <2>1. PICK n \in 0..Lines : script \in [1..n -> Words]
    BY DEF Typed, Script
  <2>2. DOMAIN script = 1..n /\ \A k \in 1..n : k \in 1..Lines
    BY <2>1, GeminiAssumption
  <2>3. \A k \in 1..n : clip[k] \in Words
    BY <1>3, <2>2 DEF WordsInv, Clips
  <2>4. Track \in [1..n -> Words]
    BY <2>2, <2>3 DEF Track
  <2>5. Track \in Script
    BY <2>4 DEF Script
  <2> QED BY <2>5, WordsAssumption
<1>6. dub # Nothing /\ (~changed => dub = script)
  BY <1>3, <1>4, <1>5 DEF WordsInv, Same
<1> HIDE DEF dub
<1>7. Clips'
  BY <1>1 DEF WordsInv, Clips, Words, Inv, Shape
<1>8. Sheet'
  BY <1>1, <1>2, <1>3 DEF WordsInv, Sheet, Script
<1>9. Same'
  BY <1>1, <1>2, <1>3, <1>6 DEF WordsInv, Same
<1>10. Source' /\ Complete'
  BY <1>1, <1>2, <1>6 DEF WordsInv, Source, Complete, Later
<1> QED BY <1>7, <1>8, <1>9, <1>10 DEF WordsInv

LEMMA RenderSame ==
  ASSUME Inv, Inv', WordsInv, Render
  PROVE  WordsInv'
<1>1. /\ run.at = "render" /\ run'.at = "completed" /\ disk' = [disk EXCEPT !.video = Rendered]
      /\ script' = script /\ clip' = clip /\ changed' = changed /\ cut' = cut
  BY DEF Render, Advance, speaking, To, Inv, Shape
<1>2. /\ disk'.dub = disk.dub /\ disk'.sheet = disk.sheet /\ disk'.source = disk.source
      /\ disk'.video = [dub |-> disk.dub, subtitles |-> script, source |-> disk.source]
  BY <1>1 DEF Inv, Shape, Rendered
<1>3. Clips'
  BY <1>1 DEF WordsInv, Clips, Words, Inv, Shape
<1>4. Sheet'
  BY <1>1, <1>2 DEF WordsInv, Sheet, Script
<1>5. Same'
  BY <1>1, <1>2 DEF WordsInv, Same
<1>6. Source'
  BY <1>1, <1>2 DEF WordsInv, Source, Later
<1>7. ~changed => disk.dub = script
  BY <1>1 DEF WordsInv, Same, Sheet, Complete
<1>8. ~cut => disk.source = "whole"
  BY <1>1 DEF WordsInv, Source, Later
<1>9. Complete'
  BY <1>1, <1>2, <1>7, <1>8 DEF Complete
<1> QED BY <1>3, <1>4, <1>5, <1>6, <1>9 DEF WordsInv

LEMMA CleanSame ==
  ASSUME Inv, Inv', WordsInv, Clean
  PROVE  WordsInv'
<1>1. /\ run' = run /\ disk' = Empty /\ script' = script /\ call' = call
      /\ clip' = [k \in 1..Lines |-> NoClip] /\ run.at \notin Stages \ {"source"}
  BY DEF Clean, Active
<1>2. run.at \notin {"copy", "speak"} \cup Later /\ DOMAIN call = {}
  BY <1>1 DEF Stages, Later, Inv, Shape
<1>3. disk'.sheet = Nothing /\ disk'.dub = Nothing /\ disk'.source = Nothing
  BY <1>1 DEF Empty
<1>4. Clips'
  BY <1>1, <1>2 DEF Clips, Words, Later
<1>5. Sheet'
  BY <1>1, <1>2, <1>3 DEF Sheet, Later, Script
<1>6. Same'
  BY <1>1, <1>3 DEF Same
<1>7. Source'
  BY <1>1, <1>2, <1>3, WordsAssumption DEF Source, Later
<1>8. Complete'
  BY <1>1, <1>2 DEF Complete, Later, Empty
<1> QED BY <1>4, <1>5, <1>6, <1>7, <1>8 DEF WordsInv

LEMMA WordsNext == Inv /\ Inv' /\ WordsInv /\ Typed /\ Typed' /\ [Next]_vars => WordsInv'
<1> SUFFICES ASSUME Inv, Inv', WordsInv, Typed, Typed', [Next]_vars PROVE WordsInv'
  OBVIOUS
<1> QED BY QuietSteps, TranscribeEndsSame, SpeakSame, SpeakEndsSame, AlignSame, BuildDubSame,
           RenderSame, CleanSame DEF Next, Step

----------------------------------------------------------------------------
(* Types *)

Said == Ask!Word \cup {Blank, Absent}

\* The files a stage reads have been written by the stages before it, and the requests
\* to Gemini are those of the parts of the engine.
Files ==
  /\ disk \in Disk
  /\ run.at \in Later \cup {"copy"} => disk.source # Nothing
  /\ run.at = "render" => disk.dub # Nothing
Asked ==
  /\ engine \in Engines
  /\ text \in [1..Lines -> Said]
  /\ ask = <<>> \/ ask \in [DOMAIN Parts[engine] -> Ask!Request]
Told ==
  /\ Typed
  /\ clip \in [1..Lines -> Words \cup {NoClip}]
  /\ breaker \in [failures: 0..FailMax, open: BOOLEAN]
  /\ changed \in BOOLEAN /\ cut \in BOOLEAN

TypeInv == Files /\ Asked /\ Told

LEMMA PartFacts ==
  ASSUME engine \in Engines, NEW p \in DOMAIN Parts[engine]
  PROVE  /\ Parts[engine][p][1] \in 1..Lines /\ Parts[engine][p][2] \in 1..Lines
         /\ Ask!LinesOf(p) = Parts[engine][p][1]..Parts[engine][p][2]
         /\ Ask!LinesOf(p) \subseteq 1..Lines
         /\ \A l \in 1..Lines : Ask!Target(l) \in Ask!Word /\ Ask!Source(l) \in Ask!Word
<1>1. Parts[engine] \in Seq((1..Lines) \X (1..Lines))
  BY GeminiAssumption DEF Engines
<1>2. Parts[engine][p] \in (1..Lines) \X (1..Lines)
  BY <1>1
<1>3. Lines \in Nat
  BY GeminiAssumption
<1> QED BY <1>2, <1>3 DEF Ask!LinesOf, Ask!Target, Ask!Source, Ask!Word

\* However many translations come back, each is a word or blank.
LEMMA AnswerFacts ==
  ASSUME engine \in Engines, NEW p \in DOMAIN Parts[engine], NEW answer \in Ask!Answers(p)
  PROVE  /\ Len(answer) \in Nat
         /\ \A j \in 1..Len(answer) : answer[j] \in Ask!Word \cup {Blank}
<1> DEFINE first == Parts[engine][p][1]
           size == Parts[engine][p][2] - first + 1
           own == [j \in 1..size |-> Ask!Target(first + j - 1)]
<1>1. /\ first \in 1..Lines /\ size \in Int /\ first + size <= Lines + 1 /\ Lines \in Nat
      /\ \A l \in 1..Lines : Ask!Target(l) \in Ask!Word
  <2>1. first \in 1..Lines /\ Parts[engine][p][2] \in 1..Lines /\ Lines \in Nat
    BY PartFacts, GeminiAssumption
  <2>2. \A l \in 1..Lines : Ask!Target(l) \in Ask!Word
    BY PartFacts
  <2> QED BY <2>1, <2>2
<1> HIDE DEF first, size
<1>2. PICK n \in Nat : 1..size = 1..n
  <2>1. CASE size \in Nat
    BY <2>1
  <2>2. CASE size \notin Nat
    <3>1. 1..size = 1..0
      BY <1>1, <2>2
    <3> QED BY <3>1
  <2> QED BY <2>1, <2>2
<1>3. \A j \in 1..size : Ask!Target(first + j - 1) \in Ask!Word
  BY <1>1
<1>4. CASE \E blank \in SUBSET DOMAIN own :
             answer = [j \in DOMAIN own |-> IF j \in blank THEN Blank ELSE own[j]]
  <2> PICK blank \in SUBSET DOMAIN own :
        answer = [j \in DOMAIN own |-> IF j \in blank THEN Blank ELSE own[j]]
    BY <1>4
  <2>1. answer \in [1..n -> Ask!Word \cup {Blank}]
    BY <1>2, <1>3
  <2>2. Len(answer) = n
    BY <1>2, <2>1
  <2> QED BY <1>2, <2>1, <2>2
<1>5. CASE \E kept \in Ask!InOrder(Ask!LinesOf(p)) :
             answer = [j \in DOMAIN kept |-> Ask!Target(kept[j])]
  <2>1. PICK m \in 0..Lines : \E kept \in [1..m -> Ask!LinesOf(p)] :
          answer = [j \in DOMAIN kept |-> Ask!Target(kept[j])]
    BY <1>5 DEF Ask!InOrder
  <2> PICK kept \in [1..m -> Ask!LinesOf(p)] :
        answer = [j \in DOMAIN kept |-> Ask!Target(kept[j])]
    BY <2>1
  <2>2. \A j \in 1..m : Ask!Target(kept[j]) \in Ask!Word
    BY PartFacts
  <2>3. answer \in [1..m -> Ask!Word]
    BY <2>2
  <2>4. m \in Nat /\ Len(answer) = m
    BY <1>1, <2>3
  <2> QED BY <2>3, <2>4
<1> QED BY <1>4, <1>5 DEF Ask!Answers, first, size

LEMMA AppliedFacts ==
  ASSUME Asked, NEW p \in DOMAIN Parts[engine], NEW answer \in Ask!Answers(p),
         NEW upto \in 0..Len(answer)
  PROVE  Ask!Applied(p, answer, upto) \in [1..Lines -> Said]
<1> SUFFICES ASSUME NEW l \in 1..Lines
             PROVE  LET j == l - Parts[engine][p][1] + 1
                    IN (IF l \in Ask!LinesOf(p) /\ j <= upto /\ answer[j] # Blank
                          THEN answer[j] ELSE text[l]) \in Said
  BY DEF Ask!Applied
<1> DEFINE j == l - Parts[engine][p][1] + 1
<1>1. l \in Ask!LinesOf(p) => j \in Nat \ {0}
  BY PartFacts DEF Asked
<1>2. l \in Ask!LinesOf(p) /\ j <= upto => answer[j] \in Ask!Word \cup {Blank}
  BY <1>1, AnswerFacts DEF Asked
<1> QED BY <1>2 DEF Said, Asked

\* One step of Gemini's client.
LEMMA AskStep ==
  ASSUME Asked, engine' = engine, Ask!Step
  PROVE  Asked'
<1>1. PICK p \in DOMAIN ask :
        \/ Ask!Start(p) \/ Ask!Refuse(p) \/ Ask!Retry(p) \/ Ask!GiveUpPair(p)
        \/ Ask!Hear(p) \/ Ask!Translate(p) \/ Ask!Spoil(p)
  BY DEF Ask!Step, Ask!PartIds
<1>2. ask \in [DOMAIN Parts[engine] -> Ask!Request] /\ p \in DOMAIN Parts[engine]
  BY <1>1 DEF Asked
<1> DEFINE c == ask[p]
<1>3. c \in Ask!Request /\ engine \in Engines /\ text \in [1..Lines -> Said]
  BY <1>2 DEF Asked
<1>4. \A n \in Ask!Request : [ask EXCEPT ![p] = n] \in [DOMAIN Parts[engine] -> Ask!Request]
  BY <1>2
<1>5. SUFFICES /\ text' \in [1..Lines -> Said]
               /\ ask' \in [DOMAIN Parts[engine] -> Ask!Request]
  BY <1>3 DEF Asked
<1>6. 1 \in 1..Pairs /\ 1 \in 1..Tries
  BY GeminiAssumption
<1>7. ASSUME NEW lines \in SUBSET Ask!LinesOf(p), Ask!Heard(p, lines)
      PROVE  /\ text' \in [1..Lines -> Said]
             /\ ask' \in [DOMAIN Parts[engine] -> Ask!Request]
  <2>1. text' \in [1..Lines -> Said]
    BY <1>2, <1>3, <1>7, PartFacts DEF Ask!Heard, Said
  <2>2. [c EXCEPT !.at = "done"] \in Ask!Request
        /\ [c EXCEPT !.at = "wait", !.again = TRUE] \in Ask!Request
    BY <1>3 DEF Ask!Request
  <2>3. \/ ask' = [ask EXCEPT ![p] = [c EXCEPT !.at = "done"]]
        \/ ask' = [ask EXCEPT ![p] = [c EXCEPT !.at = "wait", !.again = TRUE]]
    BY <1>7 DEF Ask!Heard
  <2> QED BY <1>4, <2>1, <2>2, <2>3
<1>8. ASSUME Ask!NextPair(p)
      PROVE  ask' \in [DOMAIN Parts[engine] -> Ask!Request]
  <2> DEFINE n == IF c.pair < Pairs THEN [c EXCEPT !.pair = c.pair + 1, !.try = 1]
                                    ELSE [c EXCEPT !.at = "failed"]
  <2>1. ask' = [ask EXCEPT ![p] = n]
    BY <1>8 DEF Ask!NextPair
  <2>2. c.pair < Pairs => c.pair + 1 \in 1..Pairs
    BY <1>3, GeminiAssumption DEF Ask!Request
  <2>3. n \in Ask!Request
    BY <1>3, <1>6, <2>2 DEF Ask!Request
  <2> HIDE DEF n
  <2> QED BY <1>4, <2>1, <2>3
<1>9. CASE Ask!Start(p)
  <2>1. CASE /\ ask' = [ask EXCEPT ![p] = [c EXCEPT !.at = "call", !.pair = 1, !.try = 1]]
             /\ text' = text
    <3>1. [c EXCEPT !.at = "call", !.pair = 1, !.try = 1] \in Ask!Request
      BY <1>3, <1>6 DEF Ask!Request
    <3> QED BY <1>3, <1>4, <2>1, <3>1
  <2>2. CASE \E lines \in SUBSET Ask!LinesOf(p) : Ask!Heard(p, lines)
    BY <1>7, <2>2
  <2> QED BY <1>9, <2>1, <2>2 DEF Ask!Start
<1>10. CASE Ask!Refuse(p)
  <2>1. [c EXCEPT !.at = "failed"] \in Ask!Request
    BY <1>3 DEF Ask!Request
  <2> QED BY <1>3, <1>4, <1>10, <2>1 DEF Ask!Refuse
<1>11. CASE Ask!Retry(p)
  <2>1. c.try + 1 \in 1..Tries
    BY <1>3, <1>11, GeminiAssumption DEF Ask!Retry, Ask!Request
  <2>2. [c EXCEPT !.try = c.try + 1] \in Ask!Request
    BY <1>3, <2>1 DEF Ask!Request
  <2>3. ask' = [ask EXCEPT ![p] = [c EXCEPT !.try = c.try + 1]] /\ text' = text
    BY <1>11 DEF Ask!Retry
  <2> QED BY <1>3, <1>4, <2>2, <2>3
<1>12. CASE Ask!GiveUpPair(p)
  BY <1>3, <1>8, <1>12 DEF Ask!GiveUpPair
<1>13. CASE Ask!Hear(p)
  BY <1>7, <1>13 DEF Ask!Hear
<1>14. CASE Ask!Translate(p)
  <2>1. PICK answer \in Ask!Answers(p) :
          LET told == Ask!Applied(p, answer, Len(answer))
          IN text' = [l \in 1..Lines |->
                        IF l \in Ask!LinesOf(p) /\ l - Parts[engine][p][1] >= Len(answer)
                             /\ told[l] = Blank
                          THEN Ask!Source(l) ELSE told[l]]
    BY <1>14 DEF Ask!Translate
  <2> DEFINE told == Ask!Applied(p, answer, Len(answer))
  <2>2. told \in [1..Lines -> Said]
    BY <1>2, <1>3, AppliedFacts, AnswerFacts
  <2>3. \A l \in 1..Lines : Ask!Source(l) \in Said
    BY <1>2, <1>3, PartFacts DEF Said
  <2>4. text' \in [1..Lines -> Said]
    <3>1. text' = [l \in 1..Lines |->
                     IF l \in Ask!LinesOf(p) /\ l - Parts[engine][p][1] >= Len(answer)
                          /\ told[l] = Blank
                       THEN Ask!Source(l) ELSE told[l]]
      BY <2>1
    <3> HIDE DEF told
    <3> QED BY <2>2, <2>3, <3>1
  <2>5. [c EXCEPT !.at = "done"] \in Ask!Request
    BY <1>3 DEF Ask!Request
  <2>6. ask' = [ask EXCEPT ![p] = [c EXCEPT !.at = "done"]]
    BY <1>14 DEF Ask!Translate
  <2> QED BY <1>4, <2>4, <2>5, <2>6
<1>15. CASE Ask!Spoil(p)
  <2> PICK answer \in Ask!Answers(p) : \E upto \in 0..(Len(answer) - 1) :
        text' = Ask!Applied(p, answer, upto)
    BY <1>15 DEF Ask!Spoil
  <2>1. PICK upto \in 0..(Len(answer) - 1) : text' = Ask!Applied(p, answer, upto)
    OBVIOUS
  <2>2. upto \in 0..Len(answer)
    BY <1>2, <1>3, <2>1, AnswerFacts
  <2>3. text' \in [1..Lines -> Said]
    BY <1>2, <2>1, <2>2, AppliedFacts
  <2> QED BY <1>8, <1>15, <2>3 DEF Ask!Spoil
<1> QED BY <1>1, <1>9, <1>10, <1>11, <1>12, <1>13, <1>14, <1>15

LEMMA TypeInit == Init => TypeInv
<1> SUFFICES ASSUME Init PROVE TypeInv
  OBVIOUS
<1>1. Files
  BY DEF Init, Files, Disk, Empty, Later
<1>2. Asked
  BY DEF Init, Asked, NoText, Said
<1>3. Told
  <2>1. script \in [1..0 -> Words] /\ 0 \in 0..Lines
    BY GeminiAssumption DEF Init
  <2>2. breaker \in [failures: 0..FailMax, open: BOOLEAN]
    BY SpeechAssumption DEF Init, Voice!Closed
  <2> QED BY <2>1, <2>2 DEF Init, Told, Typed, Script
<1> QED BY <1>1, <1>2, <1>3 DEF TypeInv

LEMMA EmptyScript == <<>> \in Script
<1>1. <<>> \in [1..0 -> Words] /\ 0 \in 0..Lines
  BY GeminiAssumption
<1> QED BY <1>1 DEF Script

LEMMA FilesNext == Inv /\ WordsInv /\ TypeInv /\ Typed' /\ Next => Files'
<1> SUFFICES ASSUME Inv, WordsInv, TypeInv, Typed', Next PROVE Files'
  OBVIOUS
<1>1. /\ disk \in Disk
      /\ run.at \in Later \cup {"copy"} => disk.source # Nothing
      /\ run.at = "render" => disk.dub # Nothing
  BY DEF TypeInv, Files
<1>2. \A at : To(at) => run'.at = at
  BY DEF To, Inv, Shape
<1>3. ASSUME disk' = disk,
             run'.at \notin Later \cup {"copy"} \/ (run'.at # "render" /\ run.at \in Later)
      PROVE  Files'
  BY <1>1, <1>3 DEF Files, Later
<1>4. ASSUME NEW content \in {"torn", "whole"}, disk' = WithSource(content), run'.at # "render"
      PROVE  Files'
  <2>1. disk' \in Disk /\ disk'.source = content
    BY <1>1, <1>4 DEF WithSource, Disk
  <2> QED BY <1>4, <2>1, WordsAssumption DEF Files
<1>5. ASSUME NEW words \in Script, NEW clock \in Nat, disk' = WithSheet(words, clock),
             run.at \in Later, run'.at # "render"
      PROVE  Files'
  <2>1. disk' \in Disk /\ disk'.source = disk.source
    BY <1>1, <1>5 DEF WithSheet, Disk
  <2> QED BY <1>1, <1>5, <2>1 DEF Files, Later
<1>6. CASE \E kind \in Kinds : Begin(kind)
  BY <1>3, <1>6 DEF Begin, files, Later
<1>7. CASE CopyBegins \/ CopyEnds \/ FetchObject \/ VideoFetched
  BY <1>2, <1>4, <1>7 DEF CopyBegins, CopyEnds, FetchObject, VideoFetched, Advance, Later
<1>8. CASE CopyFound
  <2>1. disk' = disk /\ disk.source # Nothing /\ run'.at = "extract"
    BY <1>2, <1>8 DEF CopyFound, Advance
  <2> QED BY <1>1, <2>1 DEF Files
<1>9. CASE CallVideoWorker \/ VideoPending
  <2>1. disk' = disk /\ run'.at = "poll"
    BY <1>2, <1>9 DEF CallVideoWorker, VideoPending, Advance, files, Inv, Shape
  <2> QED BY <1>3, <2>1 DEF Later
<1>10. CASE Extract
  <2>1. disk' = WithAudio /\ run'.at = "transcribe" /\ run.at \in Later
    BY <1>2, <1>10 DEF Extract, Later
  <2>2. disk' \in Disk /\ disk'.source = disk.source
    BY <1>1, <2>1 DEF WithAudio, Disk
  <2> QED BY <1>1, <2>1, <2>2 DEF Files
<1>11. CASE Transcribe \/ Speak
  <2>1. run.at \in {"transcribe", "speak"} /\ run' = run /\ disk' = disk
    BY <1>11 DEF Transcribe, Speak, files
  <2> QED BY <1>3, <2>1 DEF Later
<1>12. CASE TranscribeFails \/ StageFails
  BY <1>2, <1>3, <1>12 DEF TranscribeFails, StageFails, Fail, Later
<1>13. CASE TranscribeEnds
  <2>1. script' \in Script /\ run.at = "transcribe" /\ disk' = WithSheet(script', 0)
        /\ run'.at \in {"completed", "speak"}
    BY <1>2, <1>13, TranscribeEndsFacts DEF Typed
  <2> QED BY <1>5, <2>1 DEF Later
<1>14. CASE SpeakEnds
  <2>1. run.at = "speak" /\ disk' = disk /\ run'.at \in {"failed", "align"}
    BY <1>2, <1>14 DEF SpeakEnds, Fail
  <2> QED BY <1>3, <2>1 DEF Later
<1>15. CASE Align
  <2>1. /\ run.at = "align" /\ run'.at = "dub"
        /\ disk' = WithSheet(script, disk.sheet.clock + 1)
    BY <1>2, <1>15 DEF Align, Advance
  <2>2. script \in Script /\ disk.sheet.clock + 1 \in Nat
    BY <2>1 DEF TypeInv, Told, Typed, Inv, Clock
  <2> QED BY <1>5, <2>1, <2>2 DEF Later
<1>16. CASE BuildDub
  <2> DEFINE dub == IF disk.dub = Nothing THEN Track ELSE disk.dub
  <2>1. run.at = "dub" /\ run'.at = "render" /\ disk' = [disk EXCEPT !.dub = dub]
    BY <1>2, <1>16 DEF BuildDub, Advance
  <2>2. PICK n \in 0..Lines : script \in [1..n -> Words]
    BY DEF TypeInv, Told, Typed, Script
  <2>3. \A k \in 1..n : k \in 1..Lines /\ clip[k] \in Words
    BY <2>1, <2>2, GeminiAssumption DEF WordsInv, Clips
  <2>4. Track \in Script
    BY <2>2, <2>3 DEF Track, Script
  <2>5. dub \in Script /\ dub # Nothing
    BY <1>1, <2>4, WordsAssumption DEF Disk
  <2> HIDE DEF dub
  <2>6. disk' \in Disk /\ disk'.source = disk.source /\ disk'.dub = dub
    BY <1>1, <2>1, <2>5 DEF Disk
  <2> QED BY <1>1, <2>1, <2>5, <2>6 DEF Files, Later
<1>17. CASE Render
  <2>1. run.at = "render" /\ run'.at = "completed" /\ disk' = [disk EXCEPT !.video = Rendered]
    BY <1>2, <1>17 DEF Render, Advance
  <2>2. /\ disk.dub \in Script /\ disk.source \in {"torn", "whole"} /\ script \in Script
    BY <1>1, <2>1 DEF Disk, Later, TypeInv, Told, Typed
  <2>3. Rendered \in [dub: Script, subtitles: Script, source: {"torn", "whole"}]
    BY <2>2 DEF Rendered
  <2>4. disk' \in Disk
    BY <1>1, <2>1, <2>3 DEF Disk
  <2> QED BY <2>1, <2>4 DEF Files, Later
<1>18. CASE Clean
  <2>1. disk' = Empty /\ run' = run /\ run.at \notin Later \cup {"copy"}
    BY <1>18 DEF Clean, Active, Stages, Later
  <2>2. Empty \in Disk
    BY DEF Empty, Disk
  <2> QED BY <2>1, <2>2 DEF Files, Later
<1>19. CASE Crash
  BY <1>2, <1>3, <1>19 DEF Crash, Later
<1> QED BY <1>6, <1>7, <1>8, <1>9, <1>10, <1>11, <1>12, <1>13, <1>14, <1>15, <1>16, <1>17, <1>18,
           <1>19 DEF Next, Step

LEMMA AskedNext == TypeInv /\ Next => Asked'
<1> SUFFICES ASSUME TypeInv, Next PROVE Asked'
  OBVIOUS
<1>1. Asked /\ NoText \in [1..Lines -> Said]
  BY DEF TypeInv, NoText, Said
<1>2. ASSUME UNCHANGED asking PROVE Asked'
  BY <1>1, <1>2 DEF asking, Asked
<1>3. ASSUME engine' \in Engines, text' = NoText, ask' = <<>> PROVE Asked'
  BY <1>1, <1>3 DEF Asked
<1>4. ASSUME Fail \/ NothingAsked PROVE Asked'
  BY <1>1, <1>3, <1>4 DEF Fail, NothingAsked, Asked
<1>5. CASE \E kind \in Kinds : Begin(kind)
  BY <1>2, <1>5 DEF Begin
<1>6. CASE \/ CopyBegins \/ CopyEnds \/ CopyFound \/ FetchObject \/ CallVideoWorker
           \/ VideoPending \/ VideoFetched \/ Align \/ BuildDub \/ Render
  BY <1>2, <1>6 DEF CopyBegins, CopyEnds, CopyFound, FetchObject, CallVideoWorker, VideoPending,
                    VideoFetched, Align, BuildDub, Render, Advance
<1>7. CASE Extract
  <2>1. CASE Ask!Opened(engine) /\ engine' = engine
    <3>1. text' \in [1..Lines -> Said]
      BY <2>1 DEF Ask!Opened, Said
    <3>2. [at |-> "wait", pair |-> 1, try |-> 1, again |-> FALSE] \in Ask!Request
      BY GeminiAssumption DEF Ask!Request
    <3>3. ask' \in [DOMAIN Parts[engine] -> Ask!Request]
      BY <2>1, <3>2 DEF Ask!Opened
    <3> QED BY <1>1, <2>1, <3>1, <3>3 DEF Asked
  <2> QED BY <1>1, <1>3, <1>7, <2>1 DEF Extract, Transcription, Asked
<1>8. CASE Transcribe
  BY <1>1, <1>8, AskStep DEF Transcribe
<1>9. CASE TranscribeFails \/ StageFails
  BY <1>4, <1>9 DEF TranscribeFails, StageFails
<1>10. CASE TranscribeEnds
  BY <1>4, <1>10 DEF TranscribeEnds
<1>11. CASE Speak
  BY <1>2, <1>11 DEF Speak
<1>12. CASE SpeakEnds
  BY <1>2, <1>4, <1>12 DEF SpeakEnds, asking
<1>13. CASE Clean
  BY <1>2, <1>13 DEF Clean
<1>14. CASE Crash
  BY <1>3, <1>14 DEF Crash
<1> QED BY <1>5, <1>6, <1>7, <1>8, <1>9, <1>10, <1>11, <1>12, <1>13, <1>14 DEF Next, Step

\* The lines that are in some answer say a word, or are blank.
LEMMA ScriptNext == TypeInv /\ Next => Typed'
<1> SUFFICES ASSUME TypeInv, Next PROVE Typed'
  OBVIOUS
<1>1. CASE script' = script
  BY <1>1 DEF TypeInv, Told, Typed, Script
<1>2. CASE script' = <<>>
  BY <1>2, EmptyScript DEF Typed
<1>3. CASE TranscribeEnds
  <2>1. PICK n \in 0..Lines : \E lines \in [1..n -> {l \in 1..Lines : text[l] # Absent}] :
          script' = [j \in DOMAIN lines |-> text[lines[j]]]
    BY <1>3 DEF TranscribeEnds, Ask!InOrder
  <2> PICK lines \in [1..n -> {l \in 1..Lines : text[l] # Absent}] :
        script' = [j \in DOMAIN lines |-> text[lines[j]]]
    BY <2>1
  <2>2. text \in [1..Lines -> Said]
    BY DEF TypeInv, Asked
  <2>3. \A j \in 1..n : text[lines[j]] \in Words
    BY <2>2 DEF Said, Words
  <2>4. script' \in [1..n -> Words]
    BY <2>3
  <2> QED BY <2>4 DEF Typed, Script
<1> QED BY <1>1, <1>2, <1>3
       DEF Next, Step, Begin, CopyBegins, CopyEnds, CopyFound, FetchObject, CallVideoWorker,
           VideoPending, VideoFetched, Extract, Transcribe, TranscribeFails, Speak, SpeakEnds,
           Align, BuildDub, Render, StageFails, Clean, Crash, Fail, Advance, files, Voice!Step

LEMMA BreakerStep ==
  ASSUME Inv, run.at = "speak", breaker \in [failures: 0..FailMax, open: BOOLEAN], Voice!Step
  PROVE  breaker' \in [failures: 0..FailMax, open: BOOLEAN]
<1>1. PICK k \in DOMAIN script :
        \/ Voice!Acquire(k) \/ Voice!Cached(k) \/ Voice!Submit(k) \/ Voice!Unsupported(k)
        \/ Voice!SubmitFails(k) \/ Voice!PollLost(k) \/ Voice!PollPending(k)
        \/ Voice!PollFails(k) \/ Voice!PollDone(k) \/ Voice!SyncDone(k)
        \/ Voice!SyncFails(k) \/ Voice!GiveUp(k)
  BY DEF Voice!Step, Voice!Segments
<1>2. breaker.failures \in 0..FailMax /\ FailMax \in Nat \ {0}
  BY SpeechAssumption
<1>3. Voice!Succeed(k) => breaker' \in [failures: 0..FailMax, open: BOOLEAN]
  BY <1>2 DEF Voice!Succeed
<1>4. Voice!Fail(k) => breaker' \in [failures: 0..FailMax, open: BOOLEAN]
  BY <1>2 DEF Voice!Fail
<1>5. Voice!FailAttempt(k) => breaker' \in [failures: 0..FailMax, open: BOOLEAN]
  BY <1>4 DEF Voice!FailAttempt
<1>6. Voice!Store(k) => breaker' \in [failures: 0..FailMax, open: BOOLEAN]
  BY <1>3 DEF Voice!Store
<1> QED BY <1>1, <1>4, <1>5, <1>6
       DEF Voice!Acquire, Voice!Cached, Voice!Submit, Voice!Unsupported, Voice!SubmitFails,
           Voice!PollLost, Voice!PollPending, Voice!PollFails, Voice!PollDone, Voice!SyncDone,
           Voice!SyncFails, Voice!GiveUp

LEMMA ToldNext == Inv /\ TypeInv /\ Next => Told'
<1> SUFFICES ASSUME Inv, TypeInv, Next PROVE Told'
  OBVIOUS
<1>1. /\ Typed /\ clip \in [1..Lines -> Words \cup {NoClip}]
      /\ breaker \in [failures: 0..FailMax, open: BOOLEAN]
      /\ changed \in BOOLEAN /\ cut \in BOOLEAN
  BY DEF TypeInv, Told
<1>2. Typed'
  BY ScriptNext
<1>3. clip' \in [1..Lines -> Words \cup {NoClip}]
  <2>1. CASE clip' = clip
    BY <1>1, <2>1
  <2>2. CASE clip' = [k \in 1..Lines |-> NoClip]
    BY <2>2
  <2>3. CASE Speak
    <3>1. PICK k \in DOMAIN script : VoiceMoves(k)
      BY <2>3, VoiceStep DEF Speak
    <3>2. script[k] \in Words /\ k \in 1..Lines
      BY <1>1, ScriptFacts
    <3> QED BY <1>1, <3>1, <3>2 DEF VoiceMoves
  <2> QED BY <2>1, <2>2, <2>3
         DEF Next, Step, Begin, CopyBegins, CopyEnds, CopyFound, FetchObject, CallVideoWorker,
             VideoPending, VideoFetched, Extract, Transcribe, TranscribeFails, TranscribeEnds,
             SpeakEnds, Align, BuildDub, Render, StageFails, Clean, Crash, Fail, NothingSpoken,
             Advance, files, speaking
<1>4. breaker' \in [failures: 0..FailMax, open: BOOLEAN]
  <2>1. CASE breaker' = breaker
    BY <1>1, <2>1
  <2>2. CASE breaker' = Voice!Closed
    BY <2>2, SpeechAssumption DEF Voice!Closed
  <2>3. CASE Speak
    BY <1>1, <2>3, BreakerStep DEF Speak
  <2> QED BY <2>1, <2>2, <2>3
         DEF Next, Step, Begin, CopyBegins, CopyEnds, CopyFound, FetchObject, CallVideoWorker,
             VideoPending, VideoFetched, Extract, Transcribe, TranscribeFails, TranscribeEnds,
             SpeakEnds, Align, BuildDub, Render, StageFails, Clean, Crash, Fail, NothingSpoken,
             Advance, files, speaking
<1>5. changed' \in BOOLEAN /\ cut' \in BOOLEAN
  BY <1>1
     DEF Next, Step, Begin, CopyBegins, CopyEnds, CopyFound, FetchObject, CallVideoWorker,
         VideoPending, VideoFetched, Extract, Transcribe, TranscribeFails, TranscribeEnds,
         Speak, SpeakEnds, Align, BuildDub, Render, StageFails, Clean, Crash, Advance, files
<1> QED BY <1>2, <1>3, <1>4, <1>5 DEF Told

\* Types and words keep each other: a dub is a script because every clip is there,
\* and a clip says a word because the script does.
LEMMA TypeNext == Inv /\ WordsInv /\ TypeInv /\ [Next]_vars => TypeInv'
<1>1. CASE Next
  BY <1>1, ScriptNext, FilesNext, AskedNext, ToldNext DEF TypeInv
<1>2. CASE UNCHANGED vars
  BY <1>2 DEF vars, asking, speaking, TypeInv, Files, Asked, Told, Typed
<1> QED BY <1>1, <1>2

LEMMA WordsHold == Spec => [](WordsInv /\ TypeInv)
<1>1. Inv /\ Inv' /\ WordsInv /\ TypeInv /\ [Next]_vars => WordsInv' /\ TypeInv'
  <2>1. TypeInv => Typed
    BY DEF TypeInv, Told
  <2>2. TypeInv' => Typed'
    BY DEF TypeInv, Told
  <2> QED BY <2>1, <2>2, WordsNext, TypeNext
<1> QED BY <1>1, WordsInit, TypeInit, InvHolds, PTL DEF Spec

\* The variables keep their types, those of Gemini and Speech included.
THEOREM TypeCorrect == Spec => []TypeOK
<1>1. Inv /\ TypeInv => TypeOK
  <2> SUFFICES ASSUME Inv, TypeInv PROVE TypeOK
    OBVIOUS
  <2>1. Voice!TypeOK
    BY DEF Inv, Shape, TypeInv, Told, Voice!TypeOK, Voice!Segments
  <2>2. ask # <<>> => Ask!TypeOK
    BY DEF TypeInv, Asked, Ask!TypeOK, Said, Engines
  <2>3. disk \in Disk /\ script \in Script /\ clip \in [1..Lines -> Words \cup {NoClip}]
        /\ changed \in BOOLEAN /\ cut \in BOOLEAN
    BY DEF TypeInv, Files, Told, Typed
  <2> QED BY <2>1, <2>2, <2>3 DEF TypeOK, Inv, Shape
<1> QED BY <1>1, InvHolds, WordsHold, PTL

\* The whole of pipeline.py: a completed job's dub speaks what its subtitles show.
THEOREM DubSpeaksItsWords == Spec => []OwnWords
<1>1. WordsInv => OwnWords
  BY DEF WordsInv, Complete, OwnWords
<1> QED BY <1>1, WordsHold, PTL

\* tts.py: a clip that is there is not paid for again.
THEOREM ClipsArePaidOnce == Spec => ClipKept
<1> DEFINE Kept == \A k \in DOMAIN bought \cap DOMAIN bought' :
                      bought'[k] > bought[k] => clip[k] = NoClip
<1>1. Inv /\ WordsInv /\ [Next]_vars => [Kept]_vars
  <2> SUFFICES ASSUME Inv, WordsInv, Next, NEW k \in DOMAIN bought \cap DOMAIN bought',
                      bought'[k] > bought[k]
               PROVE  clip[k] = NoClip
    OBVIOUS
  <2>1. run.at = "speak" /\ DOMAIN bought = DOMAIN script /\ DOMAIN call = DOMAIN script
        /\ k \in DOMAIN script /\ bought[k] \in Nat
    BY DEF Inv, Shape
  <2>2. bought' # bought
    BY <2>1
  <2>3. bought' # <<>>
    OBVIOUS
  <2>4. Voice!Step
    BY <2>1, <2>2, <2>3
       DEF Next, Step, Begin, CopyBegins, CopyEnds, CopyFound, FetchObject, CallVideoWorker,
           VideoPending, VideoFetched, Extract, Transcribe, TranscribeFails, TranscribeEnds,
           Speak, SpeakEnds, Align, BuildDub, Render, StageFails, Clean, Crash, Fail,
           NothingSpoken, Active, Stages
  <2>5. PICK j \in DOMAIN script : VoiceMoves(j)
    BY <2>1, <2>4, VoiceStep
  <2>6. j = k
    BY <2>1, <2>5 DEF VoiceMoves
  <2>7. call[k].at \in {"ask", "poll", "sync"}
    BY <2>5, <2>6 DEF VoiceMoves
  <2> QED BY <2>1, <2>7 DEF WordsInv, Clips
<1> QED BY <1>1, WordsHold, InvHolds, PTL DEF Spec, ClipKept
=============================================================================
