# Verification of the ai-trans-clips workers

TLA+ models of the three Python workers of this repository, TLC configurations that
check them on small instances, and theorems that TLAPS proves for every value of the
parameters.

Run a check with `tlc -config X.cfg M`, where the table under *Runs* names `X` and `M`,
and the proofs with `tlapm M.tla` for the `...Proofs` modules.

## 1. The system

| part | source | state | operations |
|---|---|---|---|
| TTS worker, asynchronous jobs | `app/services/job_store.py`, `job_runner.py`, `app/api/routes/jobs.py`, lifespan in `app/main.py` | in Redis: a hash per job with a TTL, one sorted set, one active set per tier, a counter; per process: the consumer's position, the progress updates it has scheduled | submit (count the free pool, create, register, enqueue), consume (pop, get, start, synthesise, complete or fail, release), progress, shutdown |
| TTS worker, synthesis | `synthesis.py`, `kokoro.py`, `engine_router.py`, `chunking.py` | model pool, locks, downloaded model files | generate, warm up |
| TTS worker, custom voices | `custom_voices.py`, `api/routes/custom_voices.py` | objects in S3, an embedding cache per process | clone, load, delete |
| TTS worker, other routes | `api/routes/{tts,voices,health}.py`, `core/*`, `schemas/*`, `voice_catalog.py`, `storage.py` | none | validate, describe |
| Pipeline worker, jobs and scheduler | `pipeline-worker/jobs.py`, `scheduler.py`, `main.py` | in memory: records, listeners, tasks, runs per user | submit, cancel, dispatch, reap, expire, stop |
| Pipeline worker, one run | `pipeline.py` | the record's stage and `stage_state`, files in the job's directory | the stages from downloading to muxing, resume |
| Pipeline worker, clients and data | `tts.py`, `resilience.py`, `gemini.py`, `cache.py` | circuit breakers, key lists, cache directory | synthesise, translate, cache |
| Pipeline worker, algorithms | `segments.py`, `align.py`, `asr.py`, `chunking.py`, `transcript.py`, `subtitles.py`, `mux.py`, `media.py` | none | merge and place segments, render |
| Video worker, jobs and cache | `video-worker/jobs.py`, `main.py`, `downloader.py` | records, output files, cache files with a name beside each | submit, download, serve and delete, expire |
| Video worker, download chain | `douyin.py`, `platforms.py`, `cookies.py`, `scripts/*` | cookies | try one tool after the other |
| Signatures, in all workers | `app/core/security.py`, `*/security.py`, `*/auth.py` | the nonces seen by this process | verify |
| Deployment | `deploy/` | the current and the previous tag | deploy, roll back |

How they interact: the API submits dubbing jobs to the pipeline worker, which fetches the
source from the video worker and the speech of each segment from the TTS worker, over signed
HTTP.  The pipeline and the video worker keep everything in the memory of one event loop.
The TTS worker is several uvicorn processes that share Redis, and a thread per synthesis.

What is hard in it:

* **TTS jobs**: every `await` on Redis is a point where other requests, other processes and
  the job's own progress updates get in; a process or a call may fail between any two of them.
  *Correct* means: never two syntheses of one job, a job that is alive holds its slot in the
  free pool, a slot ends with its job, the order of the queue, terminal statuses stay.
* **Pipeline jobs**: the record, the task and the counter per user are three pieces of state
  for one job, written by the submit and cancel routes, the dispatcher, the watchdog, the run
  and the end of the process.  *Correct* means: the limits hold, the counters are exact, a
  record is run once, a canceled job is not started, every job ends, every slot returns.
* **Signatures**: two time limits must fit, or a request is accepted twice.
  *Correct* means: at most once in the life of a process, and no bad copy blocks a good request.
* **Pipeline run**: work is resumed from files whose presence is taken as proof, in a directory that
  outlives the record.  *Correct* means: the dub speaks the words that the subtitles show, the clock is slowed once, every run ends.
* **Video jobs and the cache directories**: files shared by records, responses and the cache, written by tools
  that may leave anything.  *Correct* means: a job has its own video, whole, or the reason why not is known; every job ends.
* **Event streams**: a listener is added after the snapshot was sent, queues are bounded, lists are dropped with
  their records.  *Correct* means: a stream tells of one record and misses its end only for a known reason.
* **Segments and timeline**: a model may report any times; several passes rewrite them in place, and the
  clips are placed twice.  *Correct* means: chunks become chains, nothing that was heard is lost, voice and subtitle agree.
* **TTS and Gemini clients**: timeouts, retries and fallbacks on top of services that go on working.  *Correct* means: the
  spending is bounded, nothing that is there is bought again, every line gets its own words.

`PROJECT.json` lists each hazard with its line and the properties that cover it.

## 2. Modules

| module | models | size of the step |
|---|---|---|
| `TtsJobs` | asynchronous TTS jobs over Redis | one Redis command, or what a coroutine does between two |
| `PipelineJobs` | records, scheduler, watchdog and runs of the pipeline worker | what the event loop does between two suspensions |
| `NonceStore` | `SignatureVerifier.verify` and `NonceStore` | one verification |
| `Timeline` | `normalize_segments`, chunk offsets, merging and splitting of Whisper fragments, placement of the clips | one turn of a loop |
| `VideoJobs` | records, downloads, output and cache files of the video worker | what its event loop or a tool does between two suspensions |
| `PipelineEvents` | the event streams, on top of `PipelineJobs` | the same |
| `Gemini` | the requests to Gemini, by batch or by chunk | one answer |
| `Speech` | the requests to the TTS worker, one task per segment | one answer |
| `PipelineRun` | the runs of one id in its directory; uses `Gemini` and `Speech` | one step of a stage |
| `JobQueue` | what the queue of TTS jobs promises, without Redis, hashes or slots | one job that is numbered, handed in, taken, worked on or put down |
| `MC...` | the instances for TLC | |
| `...Proofs` | the theorems | |

In each module an operator that is not part of `Next` and stands right before the one it
resembles (`ScoreLifo` before `Score`) is a plausible bug.  Substituted for its neighbour it
breaks the property it is listed with under `mutants` in `PROJECT.json`.

### TtsJobs

`rpc[j]` is the place of request `j` in the `create_job` route and in the store calls it makes,
`cpc[p]` that of the consumer of process `p` in `consume_forever`, `process_job` and
`_run_job`.  `hash`, `queue` and `active` are the keys in Redis; the members of `active` know
their tier through `Tier`.  A *request* passes `Arrive`, the three round trips of
`count_active` (`CountMembers`, `CountStatuses`, `CountPrune`), `Validate`, `Create`,
`AddActive`, `TakeTicket` (INCR) and `Enqueue` (ZADD).  A *consumer* passes `Pop` (BZPOPMAX), `GetMissing`
or `GetFound`, `UpdateCheck` and `StartSet` (the EXISTS and the HSET of
`update`), `Progress` as often as the synthesis reports, `SynthesisEnds`, again the two steps of
an update, and `Release` (the `finally`).  The progress updates are elements of `late`: each has its own
EXISTS (`LateCheck`) and HSET (`LateSet`).

Disturbances, each of which an instance may allow and bound: `Crash` of a process, `Shutdown`
(lifespan cancels the consumer after the requests are drained), a failing Redis call of a request, a consumer or
a progress update (before or after it took effect), `Expire` of a hash at its TTL, and
`RedisRestart`, which empties Redis because it runs with no save and no appendonly.

Abstracted: the text, the language, the voice, times and error texts of a job; percentages are `0..Top`; validation
and synthesis are choices.  A tier and a priority belong to the request from the start.

`JobQueue` is what is left for someone who hands in jobs.  `QueuePromise` maps it to this module: `fresh` are the requests before
their ZADD, `waiting` is the sorted set, `held` is `job`, `runs` is `starts`, `number` is `ticket`.  INCR is `Number`, ZADD is `HandIn`, BZPOPMAX is
`Take`, the status check of `process_job` is `Work`, and its end is `PutDown`.  Every disturbance is `Disturb`, which only ever loses
jobs; all other commands change nothing that can be seen from there.  A disturbance voids the exactly-once half of the promise for good, because
what it leaves (a hash without a job, a job without a hash) takes effect later.

### PipelineJobs

`rec[i]` is `_jobs[i]`, `task[i]` the entry of `Scheduler._tasks` with the place of the run,
`perUser` the dictionary of counters.  `Submit`, `Cancel`, `Dispatch` (a whole scan, which may
start several jobs), `Sweep` (a whole pass of the watchdog) are one step each, because
the lock of the store is never held over a suspension and nothing else in them waits.  A run
is suspended while it copies a local source (`at = "copy"`), while a stage works (`"stage"`)
and once more after it has completed the record (`"meter"`).  `Stop`, `Interrupt` and
`Restart` are the end of the lifespan, `Crash` a kill.

`Dispatch` does not loop: the set of jobs that a scan starts is the one solution of "a job is
started if, counting the jobs ahead of it that are started, both limits leave room".

Time is left open: any queued record may be past `QUEUE_TIMEOUT_SECONDS` and any processing one
past `JOB_TIMEOUT_SECONDS` (which is measured from the last update, and a stage may take longer).  Any
record may reach its TTL (`get_job` and `list_jobs` ask for no status).  A pending one normally does not, because an hour is longer than the
watchdog's 15 and 30 minutes; but the watchdog sees the newest 500 records only (`ScanWindow`), and one outside them can
be dropped without a terminal status.  `births` stands for `created_at`.  A stage's work is
`PipelineRun`'s; that it can fail at any time is here.

### NonceStore

One clock tick is any unit of time.  A signed request may be delivered, intact (`valid`) or with a wrong
body, key or signature, any number of times and at any later moment.  `MaxSkew` and `Ttl` are only assumed to
satisfy `2 * MaxSkew <= Ttl`; the settings are 60 and 300 seconds.  The three workers carry the same
code.  With several uvicorn processes each has a store of its own, and a restart empties it: `AcceptedOnce` is one process's, from start
to end, as the docstring of `NonceStore` (`security.py:47`) says.

### Timeline

The loops are steps, because each of them carries state of its own (what is left, what is made, an anchor).
`phase` names the loop; `todo` and `made` are its lists.  A Gemini transcription goes, chunk by chunk, through
`sort` (which also drops blank and malformed segments), `short` and `chain`; a chunk is re-based
(`EndChunk`) and all are sorted by start (`order`).  A Whisper transcription goes through `merge` and `split`, where `cut`
stands for a long sentence of which a piece has been cut.  Both end with `place` (`run_pipeline`) and `mux`
(`build_dub_track`).  A text is a sequence of pieces, so that joining, folding and cutting can lose, double or
reorder them; a blank one is empty.  Where a sentence is cut follows from the number of characters
and is left open, as is the length of a clip.  Rounding to milliseconds is left out.

The chunks are transcribed in parallel, but each is normalised alone and `gather` returns them in order, so the
model takes them one after the other.  The branch for a first segment that is empty after
clamping is left out: `Segment` has `start >= 0`, so something is left of the first, as `SequentialChunk` says.

Each piece of an input's text is different from every other (`DistinctAssumption`): it stands for the place where it is said, so
that a sentence that the speaker repeats is two.

`dropped` is a history variable with the pieces that Whisper's loop leaves out because they are shorter than `MIN_SEGMENT_SECONDS`
(`WithDropped`).  `SpokenOnce` lets text be missing only if it is in one of them.  `Done` is the end; before it some step
must always be possible, which TLC checks as absence of deadlock.

Two things the model shows and no property states: a clamped segment may be shorter than `min_duration`; and when the
last segment is short and lies inside a longer one, the merge takes its end and shortens the longer one.

### VideoJobs

`rec` is `_jobs`, `call[d]` the d-th call of `download()` by one of its three routes, `disk` the output
directory with the cache directory in it, `streams` the files that responses are read from.  A call passes
`Submit`, `Start`, `Enter` (the semaphore; then `Resume`, which takes a file of its id, or
`Dedupe`, which takes the cache entry) and the tools of its URL: `Write` (part of a file), `Finish`,
`Miss` (failed or timed out), `Abort` (too large).  What follows a tool (look at the directory, copy to
the cache, next tool) is one step with it, because nothing in it waits.  `Complete` ends a job with or
without an upload; `Serve` and `StreamEnds` are a response with its background task.  `Expire` removes a
record with its file, `Sweep` an old file, `Crash` all but the disk.

Of a file one keeps which video it holds and whether it is whole.  The tool decides the modification time (yt-dlp keeps the
server's), so a cache entry may be found too old, or a file swept, at any time.  The four Douyin tiers
and the four formats are entries of `Tools[u]`, in the order of the code.  Two things the model allows that the code
does not: a call may be held up before a free semaphore, and an entry may be found too old by one call and fresh by the
next.  Left out: the upload of a cache file
that is already there under its key and never refreshed, and that `int(proc.returncode or 1)` reports success as 1.

The files of an id are those that the pattern `{id}_*` finds (`downloader.py:102`), which for an id `a` has `a_b_direct.mp4`, the file of the
id `a_b`, and for an id with a `[` may not have its own.  `Globbed` gives what each id finds; the proofs take any such function.
`_adopt` looks at the first file only, in an order of names that the model leaves open: it may be foreign
(`Adopts`), too large (`Oversized`), or tiny, in which case it is removed and hides the others, so `Enter` may go on to `Dedupe` although
there is a file.

`doubtful` is a history variable: the URLs of which yt-dlp or a kill has left a fragment, for which two
calls shared an id, or for which the file of another id was taken.  `RightVideo` says that nothing else can go wrong: whatever foreign files an
id finds or removes, the other records and cache entries are right.  What a fragment does is the run `video_adopt`.

A disagreement without a run of its own: `_remove_job` (`jobs.py:90`) deletes the file of an expired record, also when that is a
cache entry (`Expire` does it here), while `main.py:84` says "Cache files are managed separately by their own TTL." and `main.py:128-130` "Cache files are
owned by the dedupe store and must survive — deleting one would break every later request for that URL."  In the model the next
request downloads the video again, and a record answered from the entry has no file any more; `RightVideo` allows a file to be gone.

### PipelineEvents

Extends `PipelineJobs`.  `Notify` is what `update_job`, `create_job` and `_remove_job` do to queues and lists in
the step that does it; `Refresh` adds the updates that `PipelineJobs` leaves out because they change
neither status nor stage.  A stream is `open` (before it reads the record), `sent` (while the snapshot is
sent) and `listening`; `born`, `late` and `lost` remember with which record it began, whether that was over already,
and whether an event did not fit.  A client whose stream is over may open another.

A job that ends between the snapshot and `add_listener` is never heard of again: the stream sends keepalives
until the client goes.  So does a stream whose record is replaced.  `EndMissedOnlyIfLate` says these and a full queue are all.  `StreamsEnd` says that a
stream that listened in time ends, even when the record expires or is replaced before its generator runs again.

### PipelineRun, Gemini and Speech

`PipelineRun` is one directory with the runs of one id in it, one at a time (`PipelineJobs!RunOnce` and the dispatcher's tasks).
`stage_state`, which the code consults to resume, lives in the record in memory; a record that is created
anew has an empty one, and the same record is never run twice.  So a run only ever finds *files*: `source`, `audio`,
the clips, `dub`; the transcript is always made again.  (`tests/test_pipeline_resume.py` sets `stage_state` by hand; no
route does.)  `disk` has the files with what they say; `Clean` removes a directory that no run has touched
for its TTL, also when a run has just begun in it; `Crash` loses all but the directory.

`Gemini` is instantiated as `Ask`, with a request per batch or chunk: models and keys in order (`NextPair`), some
tries each (`Retry`), all the ways in which an answer is less than asked for (`Answers`, `Heard`,
`Spoil`).  `Speech` is instantiated as `Voice`, with a task per segment: the semaphore, the clip that is there, the breaker,
attempts, cache, job, polls, blocking call.  Their calls run on threads, so every interleaving is a behaviour;
pybreaker's lock makes some of them impossible.

`tests/test_pipeline_resume.py:3` says "A crashed job must not pay for Gemini/TTS twice", provided that `stage_state` marks the stage done.
After a crash it never does, because it is lost with the record: the clips are found and not bought again (`ClipKept`), but the
translation is, on Whisper's path, which has no Gemini cache.  No property covers that second half.

Kept as notes, since nothing in the repository promises otherwise: an id submitted again with a transcript that
differs gets the old clips and the old dub under new subtitles (`changed` exempts it from `OwnWords`, and `ClipKept` counts a stale clip as
kept); a run assumes that all requests of an id are for one video, while `main.py:514-528` accepts another source, language or voice for it; a local source whose copy was cut short is taken as
whole by the next run (`cut`); the second transcription of a chunk in which nothing was heard
(`chunking.py:133-145`) finds the empty answer of the first in the cache; a blank translation leaves an empty
text, which the TTS worker refuses, and the job fails; an exception of the HTTP client is no
`TransientError` and is not retried; after the first error of `gather` the other chunks go on and are paid for.

## 3. Runs

| run | module, cfg | checks | states |
|---|---|---|---|
| `tts_faults` | `MCTtsJobs`, `TtsJobsFaults.cfg` | `TypeOK`, `SynthesisedOnce`, `SlotCoversWork`, `NoSlotLeak`, `TerminalIsFinal`, `QueuePromise` | 795 k |
| `tts_order` | `MCTtsJobs`, `TtsJobsOrder.cfg` | `PriorityThenFifo`, `AcceptedJobsFinish` | 70 k |
| `pipeline_jobs` | `MCPipelineJobs`, `PipelineJobs.cfg` | `TypeOK`, `ConcurrencyRespected`, `UserCeiling`, `UserCountExact`, `RunOnce`, `CancelBeforeRunSticks` | 1.3 M |
| `pipeline_events` | `MCPipelineEvents`, `PipelineEvents.cfg` | `StreamsTypeOK`, `OneRecordPerStream`, `EndMissedOnlyIfLate`, `NoSilentStall`, `SlotsReturn`, `StreamsEnd` | 129 k |
| `nonce_store` | `MCNonceStore`, `NonceStore.cfg` | `TypeOK`, `AcceptedOnce`, `OnlyAcceptedBlocks` | 21 k |
| `timeline` | `MCTimeline`, `Timeline.cfg` | `TypeOK`, `SequentialChunk`, `SpokenOnce`, `SentenceWithinLimits`, `NoDrift`, no deadlock | 454 k |
| `video_jobs` | `MCVideoJobs`, `VideoJobs.cfg` | `TypeOK`, `RightVideo`, `JobsEnd` | 402 k |
| `pipeline_run` | `MCPipelineRun`, `PipelineRun.cfg` | `TypeOK`, `OwnWords`, `ClockOnce`, `ClipKept`, `SpendBounded`, `RunEnds` | 726 k |

Runs that end in a violation, each a disagreement between the code and what it says of itself:

| run | cfg | property | what happens |
|---|---|---|---|
| `tts_free_cap` | `TtsJobsFreeCap.cfg` | `FreeCap` | two requests count the free pool before either has joined it |
| `tts_consumer` | `TtsJobsConsumer.cfg` | `OneConsumerPerProcess` | a failed Redis call in `process_job` ends the consumer |
| `pipeline_reuse` | `PipelineReuse.cfg` | `ActiveJobIsReused` | the idempotency lookup never finds the job of a user |
| `video_adopt` | `VideoAdopt.cfg` | `AdoptedIsComplete` | yt-dlp is killed at its timeout, and what it leaves is taken for the video |

The sentences of the code that these contradict are quoted in `PROJECT.json`.

Four more things the models show are kept as notes and not as runs: late progress
writes can move the percentage in Redis backwards (two updates written in the opposite order; `Top = 3` shows it);
a killed process leaves `processing` behind, which `count_active` counts until the TTL; a job that the watchdog
reports as aborted runs on and keeps its slot; and a record replaced under its run says `queued`
while its stage advances.

**Bounds.** Two jobs on two processes are the fewest that contend for the last slot
and for the queue, and every invariant of `TtsJobs` speaks of one job or of a pair; the two disturbances of
`tts_faults` allow one to hit the aftermath of the other (a shutdown whose release fails, a crash after an
expiry).  `tts_order` has three jobs, one free, one paid and one without a tier, two of one priority
below one of a higher, so that every path through the route and every comparison of the queue occurs; one process is enough
there, because a second consumer only takes the next job of the same order.  `Top = 2`
leaves one progress write in flight with the final one.  `PipelineJobs.cfg` has two slots for three ids, one ahead
of the limit of its user, one with a lower plan limit on the later job; one id has two owners, one of whom
gives a local source, and there are three births, so a record is replaced under its run.  The process can crash or be stopped once.  Three stages are enough for
one before, at and after the point where an empty transcript ends the run.
`NonceStore` counts time up to twice
the TTL, so a timestamp can be ahead, good, stale and forgotten.

`Timeline.cfg` takes every chunk of up to three segments with three starts and three ends, among them one malformed pair, two
below the shortest duration and one above the longest; fragments of Whisper follow one another with a short, a long or no pause, and
two of the inputs have one that lies within another; a second chunk with a malformed, a normal and a
short segment out of order follows those of up to two, and the first may reach into it.  Three clip lengths: none, one that
fits and one that pushes all that follow.

`VideoJobs.cfg` has two calls by any of the three routes, for one id or two, for one video or two: the second
call finds what the first has left in the directory, in the cache, in the record or in a response.  One permit makes the
second wait.  The Douyin link has one script (there are no cookies, so the other tools are not tried), the direct link a
direct download and then yt-dlp.  The id `j1` finds the files of `j2`, too, and `j2` its own only (`MCGlobbed`).  One kill.

`PipelineEvents.cfg` has one slot for two ids, a watchdog that sees one record, one of which is submitted again by another owner, a client
that reconnects, and a queue of one event, which overflows at once.  Two clients do not meet: each has a queue of its own.
`FirstProcess` ends an instance where the worker starts again, because what follows is an instance with fewer births.

`PipelineRun.cfg` has two lines, in one batch or in two chunks; two pairs of two tries; two attempts per segment, of one
poll; a breaker that opens at the second failure; two runs and one kill.  So the second line depends on the
first (batch order, chunks of the semaphore, breaker), the second attempt follows every way the first can end, and a
run works in a directory that a killed, failed, completed or cleaned run has left.

`CHECK_DEADLOCK FALSE` everywhere but in `Timeline.cfg`: the requests, disturbances, births and ticks are bounded, so
every instance really comes to an end; `Timeline` ends in `Done`, and nothing else may stop it.  In `tts_faults` free jobs and processes
are interchangeable and declared symmetric; runs with liveness use no symmetry.

**Fairness.** `TtsJobs!FairSpec`: each request, each consumer and the set of progress updates are weakly fair.  An event loop runs every ready coroutine, Redis answers, a synthesis ends; no fairness
is given to any disturbance, and `tts_order` allows none, since a crash does lose the job it hits.
`PipelineJobs!Watched`: the dispatcher polls every second and is supervised, the watchdog sweeps
every 15 seconds and anything that stays pending is overdue in the end, and a record that is over outlives its TTL, which makes
room in the watchdog's window.  No
fairness is given to runs or users: `NoSilentStall` is the watchdog's own promise.  `SlotsReturn` is stated under the
premise that every stage of every run ends, because nothing ever cancels a run that hangs.  A restart
forgets all jobs, which ends what was pending.
`PipelineEvents!EventsSpec` takes this and adds a loop that runs the generators that are ready.
`VideoJobs!FairSpec`: the start of a call, its turn at the semaphore (`asyncio.Semaphore` is first come, first served) and yt-dlp, which is killed at its
timeout.  Nothing else there is bounded: `httpx` limits each read and not the body (`downloader.py:212`, `douyin.py:57`), ffmpeg in `/audio`
(`main.py:329`) has no timeout and holds a permit, and the upload has none.  So `JobsEnd` has a premise, as `SlotsReturn` has: if those come to an end (`Untimed`),
every job does.
`PipelineRun!FairSpec`: some step of the run is taken if one is possible; HTTP calls have timeouts and polls a limit, and
ffmpeg and the Gemini client are assumed to return.  No fairness is given to services, clients, expiry or kills.

## 4. Proofs

All theorems hold for every value of the constants under the assumptions named in the modules; those
say that the sets of jobs and ids are finite, that null values are new, that bounds are
numbers, that there are fewer jobs than `SCORE_SCALE` (10^12), that the nonce TTL is at least twice the skew, that the
cache and the output files have different paths, that a pattern of an id finds output files, that no clip and no transcript are no words, and that each piece of
a transcription is told from every other.

**`TtsJobsProofs`.** `TypeCorrect`.  `NoJobTwice` proves `SynthesisedOnce`, which is not inductive: it does not
say why a second consumer cannot get the job.  `OnceInv` adds where a job can be: before ZADD nowhere; in
the queue it has never been taken up and nobody holds it; it is held by one consumer; a consumer
that has just popped it has not taken it up before.  Every disturbance loses jobs and never copies
one.  `QueueOrder` proves `PriorityThenFifo` from `TicketInv`: `seq` is at most the number of requests that
have passed INCR, so tickets stay below the scale, and arithmetic (`ScaleSeparates`) shows that the
score decides by priority first.

**`TtsSlotsProofs`.** `TerminalStays` proves `TerminalIsFinal` from `FinalInv`: while a consumer works on its job, which by `OnceInv` is its own,
the status is not terminal, and it reports a failure over `completed` only after a disturbance.  `LivingJobsCount` proves
`SlotCoversWork` from `CoverInv`, whose point is `count_active`: what it read is old when it prunes, but a job that it found over stays over
(only `Create` brings a job to life, `AliveBefore`), so it never takes the slot of a living one.  `SlotsComeBack` proves `NoSlotLeak` from `LeakInv`, which
adds that a job on its way keeps its hash: `process_job` drops a job without a hash and leaves its slot.
`StoreIsAQueue` proves `QueuePromise` step by step.  The order comes from `TicketInv`, that a worker's hands are empty when it takes from `EmptyHands`, that
no job is worked on again from `OnceInv`.  `PromiseInv` is for the undisturbed half: the last number is the highest, a job on which no consumer has
worked is still `queued`, and a consumer past the check has counted its job, so none is put down unworked.

**`PipelineJobsProofs`.** `TypeCorrect`, over `Typed`, which adds that records are born in order.
`NeverTooManyRuns`, `NeverTooManyPerUser` and `UserCountIsExact` are proved together (`Counts`): the limits
follow from the counters and the counters only mean anything if they are exact.  The step that
matters is a scan: `LastInOrder` shows that among the jobs it starts one is looked at last, so the
others were counted when its room was checked, and the whole set respects the limits.
`EveryRecordRunsOnce` uses `Fresh`: a record that is queued, or whose task has not entered the pipeline,
has not been run.  `CancelSticksBeforeRun` follows from the types and the steps alone.

**`NonceStoreProofs`.** `Inv` adds to the type that whatever was let in is either remembered from a moment
near its timestamp, or its timestamp is outside the skew for good (`RememberedOrStale`).
Eviction moves a nonce from the first case to the second, which is where the factor two is needed.
`AtMostOnceAccepted` and `OnlyAcceptedRemembered` follow.

**`TimelineProofs`.** `TypeCorrect`, over `Typed`.  `ChunkIsSequential`: the chain so far ends at the anchor at the latest
(`Chained`); a fold changes no time.  That the first segment of a chunk is never clamped away needs the loops
before (`Straight`): they keep the starts in order and every end after its start, although a short segment that is merged back may pull
the end of the one before it back to its own.  `DubHasNoDrift`: the first cursor is past every slot, so
the slots are apart, and the second is exactly at the end of the last clip laid (`Laid`), so it never
exceeds the next slot.
`EverySentenceOnce` proves `SpokenOnce`, which speaks of the finished script only.  `Single` extends it to every state: a piece
is at most once in the script, what is made and what is left together, and comes from a chunk that was taken, so the next chunk brings
only new ones (this is where `DistinctAssumption` is used).  `Complete` says where each piece of a taken chunk is meanwhile
(`Held`), with either engine: in the script, in what is made or left (leaving out what is left but malformed, which is still to be dropped), or in a
piece that was too short (`Lost`, over `dropped`, from which nothing is taken).  Every turn of a loop that only works on those two lists is an instance
of `Moved`, and `MovedKeeps` proves that one once.  `SentencesWithinLimits` proves `SentenceWithinLimits` from `Merging`: the sentences
made so far consist of the first `k` fragments and of nothing else, so the fragment that comes next is in none of them yet.
`LoopsEnd` is no property of a run: no loop runs for ever, because of four counts (chunks, loops of the chunk,
turns of the loop, parts of the sentence that is being cut) every step but `Done` makes one less and none before it more, and none is ever below zero.
That some step is always possible until the dub is laid stays with TLC.

**`PipelineEventsProofs`.** `StreamsOnlyWatch`: every behaviour of the worker with its streams is one of
`PipelineJobs`, so the theorems about jobs hold with them.  `StreamsInv` is the type together with what makes the events of a stream its
own: who is in a list listens to the record that owns it (`Listed`), a queue holds events of the record its stream began with
(`OwnEvents`) and none before it listens (`QuietBefore`), and the end of a job is in the queue of every listed stream that is neither late nor
overflowed (`EndQueued`).  `OneRecordEach` and `EndReaches` follow.

**`VideoJobsProofs`.** `RightVideo` is far from inductive: between the tool and the record lie the output file, the call and a
possible copy.  `FilesInv` follows a video on its way, for URLs that are not doubtful: calls for one id are for one URL, and at most one of
them is waiting (`OneTask`); files and records of an id are of that URL (`FilesOwned`, `RecordsOwned`); a file that is not whole is being
written (`Fragments`); what a call has got is its own
video, whole or gone (`GotOwn`), and so are the file of a completed record (`Settled`) and the cache entry (`CacheWhole`).  A call has many steps
that do similar things; all of them are instances of one, `Moves(d, n)`, and `MovesKeep` proves that one once.  `RemovalKeeps` is the
same for everything that only takes files and records away.  `Globbed` is any function: a call may remove any
file, and the proof needs of a foreign one only that it is not taken for the result without making the URL doubtful (`AdoptsFacts`).

**`PipelineRunProofs`.** `Ledger` bounds what a segment has cost by twice the attempts that are over plus
what the present one may have spent (`Share`); `SpendIsBounded` follows.  `Clock` says for each stage whether the transcript on
disk has been moved yet; `ClockMovesOnce` follows.  `TypeCorrect`, over `TypeInv`, covers the state of `Gemini` and `Speech` too; it
adds that a stage finds the files which the stages before it have written (`Files`).
`DubSpeaksItsWords` needs the whole directory: which clips are those of the script
(`Clips`), that transcript and script agree (`Sheet`), that audio, clips and dub found by a later run are of the same
words (`Same`, `Source`) and that a completed job is complete (`Complete`).  `ClipsArePaidOnce` follows from the same.  One step of a segment's task is summarised once (`VoiceStep`).

**Only model-checked**: the liveness properties `AcceptedJobsFinish`, `NoSilentStall`, `SlotsReturn`, `StreamsEnd`, `JobsEnd` and
`RunEnds`, and that `Timeline` never stops before `Done`.  The former rest on fairness, hence on `ENABLED`, which is beyond the prover.  Every invariant and every action property of the passing
runs is a theorem.  What a recursive definition computes for every input cannot be proved either, so the models are
written without one: a sort takes the earliest of what is left, a selection is the increasing
sequence of what is selected.

## 5. Not modelled

* **No protocol in it**: ffmpeg command lines, image processing, prompt texts, JSON repair, HTML scraping, cookie jars,
  settings, logging, metrics, validation tables.  The status, stream and download routes of the TTS worker
  only read; so does `job_queue.py`.
* **`MemoryJobStore`**: the fallback of one process, one lock around a dict and a heap.
* **`cache.py`**: entries are named by a hash of what they answer, so its clients take any hit or miss.  Its
  temporary files are written by one writer at a time.
* **Custom voices**: nothing says that a deleted voice is gone from the caches of other processes; they keep it.
* **Model download** (`kokoro.py`): every holder of the lock looks again whether the file is there before it downloads; nothing else
  is shared.
* **Object storage**: each call is one external operation; its outcomes are choices of the modules that use it.
* **Disk guard, backpressure window**: the guard only refuses submissions; that backpressure looks at the newest 200 records
  is a constant of `PipelineJobs`, and no text states a limit that it could break.
* **Shell scripts** in `deploy/`: run by hand, one at a time.
