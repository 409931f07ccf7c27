------------------------------ MODULE Speech ------------------------------
(***************************************************************************)
(* How the pipeline worker gets its clips (tts.py, resilience.py): one     *)
(* task per segment behind a semaphore, each with the breaker outside and  *)
(* the retry inside; an attempt looks into the cache, queues a job at the  *)
(* TTS worker and polls it, and falls back to the blocking call when the   *)
(* worker does not know the job.                                           *)
(*                                                                         *)
(* The calls run on threads of their own, so their steps interleave.  The  *)
(* TTS worker may give any answer at any time.  The cache is shared by all *)
(* jobs and evicts as it likes, so it may know any text or not.            *)
(*                                                                         *)
(* An operator that is not part of a step and stands before the one it     *)
(* resembles is a mutant of it: a plausible bug that the properties must   *)
(* notice.                                                                 *)
(***************************************************************************)
EXTENDS Integers, Sequences, FiniteSets

CONSTANTS
  MaxRetries,   \* attempts per segment
  Concurrency,  \* TTS_CONCURRENCY
  Patience,     \* polls that fit into PIPELINE_TTS_JOB_TIMEOUT_SECONDS
  FailMax,      \* CIRCUIT_BREAKER_FAIL_MAX
  Blank,        \* an empty text, which the worker's schema refuses
  NoClip

VARIABLES
  script,   \* the texts of the segments
  clip,     \* the files seg_{k}.mp3: what they say
  call,     \* the task of segment k
  breaker,  \* the breaker "tts" of the process
  bought    \* history: requests for the synthesis of segment k in this run

Call == [at: {"wait", "ask", "poll", "sync", "done", "failed"},
         attempt: 1..MaxRetries, waited: 0..Patience, trial: BOOLEAN]

Segments == DOMAIN script
Closed == [failures |-> 0, open |-> FALSE]

Queued ==
  /\ call' = [k \in DOMAIN script' |->
                [at |-> "wait", attempt |-> 1, waited |-> 0, trial |-> FALSE]]
  /\ bought' = [k \in DOMAIN script' |-> 0]

AllOver == \A k \in Segments : call[k].at \in {"done", "failed"}
AnyFailed == \E k \in Segments : call[k].at = "failed"
Active == {k \in Segments : call[k].at \in {"ask", "poll", "sync"}}

To(k, at) == call' = [call EXCEPT ![k].at = at]
Buy(k) == bought' = [bought EXCEPT ![k] = @ + 1]

\* Outside the retry: the breaker counts, and a trial decides.
Succeed(k) ==
  /\ To(k, "done")
  /\ breaker' = [failures |-> 0, open |-> breaker.open /\ ~call[k].trial]

Fail(k) ==
  /\ To(k, "failed")
  /\ breaker' = [failures |-> IF breaker.failures < FailMax THEN breaker.failures + 1 ELSE FailMax,
                 open |-> breaker.open \/ call[k].trial \/ breaker.failures + 1 >= FailMax]

\* A TransientError: another attempt, or none when they or the 60 s are used up.
FailAttempt(k) ==
  \/ /\ call[k].attempt < MaxRetries
     /\ call' = [call EXCEPT ![k].at = "ask", ![k].attempt = @ + 1, ![k].waited = 0]
     /\ UNCHANGED breaker
  \/ Fail(k)

\* The clip is written to a temporary file and renamed.
Store(k) ==
  /\ script[k] # Blank
  /\ clip' = [clip EXCEPT ![k] = script[k]]
  /\ Succeed(k)

AcquireAlways(k) ==
  /\ call[k].at = "wait"
  /\ Cardinality(Active) < Concurrency
  /\ \A j \in Segments : j < k => call[j].at # "wait"
  /\ call' = [call EXCEPT ![k].at = "ask"]
  /\ UNCHANGED <<clip, breaker, bought>>

\* The semaphore is granted in order.  A clip that is there is the result; an open
\* breaker refuses the call, or lets a trial pass when its time is over.
Acquire(k) ==
  /\ call[k].at = "wait"
  /\ Cardinality(Active) < Concurrency
  /\ \A j \in Segments : j < k => call[j].at # "wait"
  /\ IF clip[k] # NoClip THEN To(k, "done")
     ELSE IF ~breaker.open THEN To(k, "ask")
     ELSE \/ To(k, "failed")
          \/ call' = [call EXCEPT ![k] = [@ EXCEPT !.at = "ask", !.trial = TRUE]]
  /\ UNCHANGED <<clip, breaker, bought>>

Cached(k) ==
  /\ call[k].at = "ask"
  /\ Store(k)
  /\ UNCHANGED bought

Submit(k) ==
  /\ call[k].at = "ask"
  /\ script[k] # Blank
  /\ To(k, "poll")
  /\ Buy(k)
  /\ UNCHANGED <<clip, breaker>>

\* 404 or 405, or PIPELINE_TTS_ASYNC is off.
Unsupported(k) ==
  /\ call[k].at = "ask"
  /\ To(k, "sync")
  /\ UNCHANGED <<clip, breaker, bought>>

\* 429, 5xx, an answer without job_id; the worker may have queued the job.
SubmitFails(k) ==
  /\ call[k].at = "ask"
  /\ Buy(k) \/ UNCHANGED bought
  /\ FailAttempt(k)
  /\ UNCHANGED clip

PollLostResubmits(k) ==
  /\ call[k].at = "poll"
  /\ call' = [call EXCEPT ![k] = [@ EXCEPT !.at = "ask", !.waited = 0]]
  /\ UNCHANGED <<clip, breaker, bought>>

\* The worker does not know the job (any more), which is taken for an old worker.
PollLost(k) ==
  /\ call[k].at = "poll"
  /\ call[k].waited < Patience
  /\ To(k, "sync")
  /\ UNCHANGED <<clip, breaker, bought>>

PollForever(k) ==
  /\ call[k].at = "poll"
  /\ UNCHANGED <<clip, breaker, bought>>
  /\ call' = [call EXCEPT ![k].waited = IF @ < Patience THEN @ + 1 ELSE 0]

PollPending(k) ==
  /\ call[k].at = "poll"
  /\ call[k].waited < Patience
  /\ call' = [call EXCEPT ![k].waited = @ + 1]
  /\ UNCHANGED <<clip, breaker, bought>>

\* The deadline, a failed job, or a failed poll or download of the audio.
PollFails(k) ==
  /\ call[k].at = "poll"
  /\ FailAttempt(k)
  /\ UNCHANGED <<clip, bought>>

PollDone(k) ==
  /\ call[k].at = "poll"
  /\ call[k].waited < Patience
  /\ Store(k)
  /\ UNCHANGED bought

SyncDone(k) ==
  /\ call[k].at = "sync"
  /\ Buy(k)
  /\ Store(k)

SyncFails(k) ==
  /\ call[k].at = "sync"
  /\ Buy(k)
  /\ FailAttempt(k)
  /\ UNCHANGED clip

\* A PermanentError (400, an invalid text), or an exception of the HTTP client,
\* which is not a TransientError either: no further attempt.
GiveUp(k) ==
  /\ k \in Active
  /\ \/ call[k].at # "poll" /\ Buy(k)
     \/ call[k].at # "sync" /\ UNCHANGED bought
  /\ Fail(k)
  /\ UNCHANGED clip

Step ==
  /\ \E k \in Segments :
       \/ Acquire(k) \/ Cached(k) \/ Submit(k) \/ Unsupported(k) \/ SubmitFails(k)
       \/ PollLost(k) \/ PollPending(k) \/ PollFails(k) \/ PollDone(k)
       \/ SyncDone(k) \/ SyncFails(k) \/ GiveUp(k)
  /\ UNCHANGED script

TypeOK ==
  /\ DOMAIN call \in {{}, Segments}
  /\ call \in [DOMAIN call -> Call]
  /\ bought \in [DOMAIN call -> Nat]
  /\ breaker \in [failures: 0..FailMax, open: BOOLEAN]
=============================================================================
