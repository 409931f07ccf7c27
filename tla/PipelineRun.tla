---------------------------- MODULE PipelineRun ----------------------------
(***************************************************************************)
(* The run of one pipeline job in its work directory (pipeline.py, with    *)
(* media.py, mux.py, transcript.py and the work-directory cleanup of       *)
(* main.py): the stages, the files they leave, what a later run of the     *)
(* same id finds of them, and how the stages use Gemini and Speech.        *)
(*                                                                         *)
(* stage_state lives in the record and records live in memory: a run       *)
(* starts with an empty one (or "downloading" for a local file), so only   *)
(* files are ever found again.  At most one run works in a directory, as   *)
(* PipelineJobs shows.  All requests for the id are for one video.         *)
(*                                                                         *)
(* An operator that is not part of a step and stands before the one it     *)
(* resembles is a mutant of it: a plausible bug that the properties must   *)
(* notice.                                                                 *)
(***************************************************************************)
EXTENDS Integers, Sequences, FiniteSets

CONSTANTS
  Lines, Parts, Pairs, Tries, Parallel,                \* see Gemini
  MaxRetries, Concurrency, Patience, FailMax, NoClip,  \* see Speech
  Blank, Absent,
  MaxPolls,    \* how often the video worker is polled (120)
  MaxRuns,     \* bound on the runs of the id
  MaxCrashes,  \* bound on kills of the process
  Nothing      \* no such file

ASSUME GeminiAssumption ==
  /\ Lines \in Nat \ {0} /\ Pairs \in Nat \ {0} /\ Tries \in Nat \ {0} /\ Parallel \in Nat \ {0}
  /\ \A e \in {"whisper", "gemini"} : Parts[e] \in Seq((1..Lines) \X (1..Lines)) \ {<<>>}
ASSUME SpeechAssumption ==
  /\ MaxRetries \in Nat \ {0} /\ Concurrency \in Nat \ {0}
  /\ Patience \in Nat /\ FailMax \in Nat \ {0}
ASSUME RunAssumption == MaxPolls \in Nat /\ MaxRuns \in Nat /\ MaxCrashes \in Nat

VARIABLES
  run,      \* the run: its stage, the kind of its source, and the polls so far
  disk,     \* the files of the directory but for the clips
  script,   \* result.segments: what they say, in order
  engine, text, ask,             \* see Gemini
  clip, call, breaker, bought,   \* see Speech
  runs, crashes,
  changed,  \* history: a transcript was written over one that said something else
  cut       \* history: a copy of a local source was cut short

files == <<disk, clip, changed, cut>>
asking == <<engine, text, ask>>
speaking == <<clip, call, breaker, bought>>
counts == <<runs, crashes>>
vars == <<run, disk, script, asking, speaking, counts, changed, cut>>

Ask == INSTANCE Gemini
Voice == INSTANCE Speech

Engines == {"whisper", "gemini"}
Kinds == {"local", "object", "remote"}
Stages == {"source", "copy", "poll", "extract", "transcribe", "speak", "align", "dub", "render"}
Words == Ask!Word \cup {Blank}
Script == UNION {[1..n -> Words] : n \in 0..Lines}

ASSUME WordsAssumption ==
  /\ NoClip \notin Words
  /\ Nothing \notin Script \cup [words: Script, clock: Nat] \cup {"torn", "whole"}

Disk == [source: {Nothing, "torn", "whole"},
         audio: {Nothing, "torn", "whole"},
         sheet: [words: Script, clock: Nat] \cup {Nothing},
         dub: Script \cup {Nothing},
         video: [dub: Script, subtitles: Script, source: {"torn", "whole"}] \cup {Nothing}]

Empty == [source |-> Nothing, audio |-> Nothing, sheet |-> Nothing, dub |-> Nothing,
          video |-> Nothing]

Active == run.at \in Stages
NoText == [l \in 1..Lines |-> Absent]

Init ==
  /\ run = [at |-> "none", kind |-> "local", polls |-> 0]
  /\ disk = Empty
  /\ script = <<>>
  /\ engine \in Engines /\ text = NoText /\ ask = <<>>
  /\ clip = [k \in 1..Lines |-> NoClip]
  /\ call = <<>> /\ bought = <<>> /\ breaker = Voice!Closed
  /\ runs = 0 /\ crashes = 0
  /\ changed = FALSE /\ cut = FALSE

To(at) == run' = [run EXCEPT !.at = at]
NothingAsked == text' = NoText /\ ask' = <<>> /\ UNCHANGED engine
NothingSpoken == call' = <<>> /\ bought' = <<>> /\ UNCHANGED <<clip, breaker>>

\* The dispatcher starts a run.
Begin(kind) ==
  /\ ~Active
  /\ runs < MaxRuns
  /\ runs' = runs + 1
  /\ run' = [at |-> "source", kind |-> kind, polls |-> 0]
  /\ script' = <<>>
  /\ UNCHANGED <<files, asking, call, breaker, bought, crashes>>

\* The exception of any stage ends the run.
Fail ==
  /\ To("failed")
  /\ script' = <<>>
  /\ NothingAsked
  /\ NothingSpoken

StageFails ==
  /\ run.at \in Stages \ {"transcribe", "speak"}
  /\ Fail
  /\ cut' = (cut \/ run.at = "copy")
  /\ UNCHANGED <<disk, changed, counts>>

----------------------------------------------------------------------------
(* The source and its audio *)

Advance(at, after) ==
  /\ To(at)
  /\ disk' = after
  /\ UNCHANGED <<script, asking, speaking, counts, changed, cut>>

WithSource(content) == [disk EXCEPT !.source = content]

\* A local file is copied in place, and only if the name is still free.
CopyBegins ==
  /\ run.at = "source" /\ run.kind = "local"
  /\ disk.source = Nothing
  /\ Advance("copy", WithSource("torn"))

CopyEnds == run.at = "copy" /\ Advance("extract", WithSource("whole"))

CopyFound ==
  /\ run.at = "source" /\ run.kind = "local"
  /\ disk.source # Nothing
  /\ Advance("extract", disk)

\* An uploaded object is fetched anew by every run.
FetchObject ==
  /\ run.at = "source" /\ run.kind = "object"
  /\ Advance("extract", WithSource("whole"))

\* So is a URL, by a job of the video worker that is polled; the file is written to
\* a temporary name and renamed.
CallVideoWorker ==
  run.at = "source" /\ run.kind = "remote" /\ Advance("poll", disk)

VideoPending ==
  /\ run.at = "poll"
  /\ run.polls < MaxPolls
  /\ run' = [run EXCEPT !.polls = @ + 1]
  /\ UNCHANGED <<files, script, asking, call, breaker, bought, counts>>

VideoFetched ==
  /\ run.at = "poll"
  /\ run.polls < MaxPolls
  /\ Advance("extract", WithSource("whole"))

Transcription == /\ \/ Ask!Opened(engine)
                    \/ text' = NoText /\ ask' = <<>>   \* Whisper hears no speech
                 /\ UNCHANGED engine

\* audio.flac is taken as it is when it exists; else ffmpeg writes it to a temporary
\* name and it is renamed.
WithAudio == [disk EXCEPT !.audio = IF @ = Nothing THEN disk.source ELSE @]

ExtractOrResume ==
  /\ run.at = "extract"
  /\ disk' = WithAudio
  /\ IF disk.sheet = Nothing
       THEN To("transcribe") /\ Transcription /\ UNCHANGED <<script, speaking>>
       ELSE /\ To("speak") /\ script' = disk.sheet.words /\ Voice!Queued
            /\ UNCHANGED <<asking, clip, breaker>>
  /\ UNCHANGED <<counts, changed, cut>>

Extract ==
  /\ run.at = "extract"
  /\ disk' = WithAudio
  /\ To("transcribe")
  /\ Transcription
  /\ UNCHANGED <<script, speaking, counts, changed, cut>>

----------------------------------------------------------------------------
(* Words and voices *)

Transcribe ==
  /\ run.at = "transcribe"
  /\ Ask!Step
  /\ UNCHANGED <<run, files, script, engine, call, breaker, bought, counts>>

\* gather raises the first error of a chunk, translate_text that of a batch.
TranscribeFails ==
  /\ run.at = "transcribe"
  /\ Ask!Refused
  /\ Fail
  /\ UNCHANGED <<disk, changed, cut, counts>>

\* write_outputs: clock says how often the segments were moved.
WithSheet(words, clock) == [disk EXCEPT !.sheet = [words |-> words, clock |-> clock]]

\* The lines of some answer, in order.  Without segments the job is complete.
TranscribeEnds ==
  /\ run.at = "transcribe"
  /\ Ask!Answered
  /\ \E lines \in Ask!InOrder({l \in 1..Lines : text[l] # Absent}) :
       /\ \A l \in 1..Lines : text[l] # Absent => \E j \in DOMAIN lines : lines[j] = l
       /\ script' = [j \in DOMAIN lines |-> text[lines[j]]]
  /\ disk' = WithSheet(script', 0)
  /\ changed' = (changed \/ (disk.sheet # Nothing /\ disk.sheet.words # script'))
  /\ NothingAsked
  /\ IF script' = <<>> THEN To("completed") /\ UNCHANGED <<call, bought>>
                       ELSE To("speak") /\ Voice!Queued
  /\ UNCHANGED <<clip, breaker, counts, cut>>

Speak ==
  /\ run.at = "speak"
  /\ Voice!Step
  /\ UNCHANGED <<run, disk, asking, counts, changed, cut>>

SpeakEndsPartial ==
  /\ run.at = "speak"
  /\ Voice!AllOver
  /\ To("align") /\ UNCHANGED <<script, asking>> /\ NothingSpoken
  /\ UNCHANGED <<disk, counts, changed, cut>>

\* synthesize_all waits for all segments, then raises the first error.
SpeakEnds ==
  /\ run.at = "speak"
  /\ Voice!AllOver
  /\ IF Voice!AnyFailed THEN Fail
     ELSE To("align") /\ UNCHANGED <<script, asking>> /\ NothingSpoken
  /\ UNCHANGED <<disk, counts, changed, cut>>

----------------------------------------------------------------------------
(* Alignment and rendering *)

\* The segments move onto the slowed clock; write_outputs again.
Align ==
  /\ run.at = "align"
  /\ Advance("dub", WithSheet(script, disk.sheet.clock + 1))

\* build_dub_track lays one clip after the other, or silence where there is none.
Track == [k \in DOMAIN script |-> clip[k]]

\* dub.wav is taken as it is when it exists.
BuildDub ==
  /\ run.at = "dub"
  /\ Advance("render", [disk EXCEPT !.dub = IF @ = Nothing THEN Track ELSE @])

\* One encode of the source with the subtitles burnt in and the dub mixed in,
\* written to a temporary name and renamed.
Rendered == [dub |-> disk.dub, subtitles |-> script, source |-> disk.source]

Render ==
  /\ run.at = "render"
  /\ Advance("completed", [disk EXCEPT !.video = Rendered])

----------------------------------------------------------------------------
(* The end of the directory and of the process *)

\* _cleanup_work_dirs: no run has written to the directory for its TTL.
Clean ==
  /\ ~Active \/ run.at = "source"
  /\ disk' = Empty
  /\ clip' = [k \in 1..Lines |-> NoClip]
  /\ changed' = FALSE /\ cut' = FALSE
  /\ UNCHANGED <<run, script, asking, call, breaker, bought, counts>>

\* A kill: the record and the breaker are gone, the directory is not.
Crash ==
  /\ crashes < MaxCrashes
  /\ crashes' = crashes + 1
  /\ To("none")
  /\ script' = <<>>
  /\ engine' \in Engines /\ text' = NoText /\ ask' = <<>>
  /\ call' = <<>> /\ bought' = <<>> /\ breaker' = Voice!Closed
  /\ cut' = (cut \/ run.at = "copy")
  /\ UNCHANGED <<disk, clip, changed, runs>>

Step ==
  \/ CopyBegins \/ CopyEnds \/ CopyFound \/ FetchObject
  \/ CallVideoWorker \/ VideoPending \/ VideoFetched
  \/ Extract \/ Transcribe \/ TranscribeFails \/ TranscribeEnds
  \/ Speak \/ SpeakEnds \/ Align \/ BuildDub \/ Render
  \/ StageFails

Next == (\E kind \in Kinds : Begin(kind)) \/ Step \/ Clean \/ Crash

Spec == Init /\ [][Next]_vars

\* The event loop runs what is ready, and each call ends: HTTP requests have
\* timeouts, ffmpeg and Gemini's client are assumed to return.
FairSpec == Spec /\ WF_vars(Step)

----------------------------------------------------------------------------
(* Properties *)

\* Every variable keeps the shape the code gives it.
TypeOK ==
  /\ run \in [at: Stages \cup {"none", "completed", "failed"}, kind: Kinds, polls: 0..MaxPolls]
  /\ disk \in Disk
  /\ script \in Script
  /\ clip \in [1..Lines -> Words \cup {NoClip}]
  /\ run.at = "transcribe" /\ ask # <<>> => Ask!TypeOK
  /\ Voice!TypeOK
  /\ changed \in BOOLEAN /\ cut \in BOOLEAN

\* The dub of a completed job speaks, segment by segment, what its subtitles show,
\* over the whole source, whatever was retried, found again or interrupted: unless
\* runs of the id got different transcripts, or a copy of its source was cut short.
OwnWords ==
  run.at = "completed" /\ script # <<>> /\ disk # Empty /\ ~changed /\ ~cut
    => disk.video = [dub |-> script, subtitles |-> script, source |-> "whole"]

\* The transcript on disk is moved onto the slowed clock at most once, and exactly
\* once when the job completes with a dub, also in a directory used before.
ClockOnce ==
  /\ disk.sheet # Nothing => disk.sheet.clock <= 1
  /\ run.at = "completed" /\ script # <<>> /\ disk # Empty => disk.sheet.clock = 1

\* A clip that is there is never paid for again, by any attempt of any run.
ClipKept ==
  [][\A k \in DOMAIN bought \cap DOMAIN bought' :
       bought'[k] > bought[k] => clip[k] = NoClip]_vars

\* A run asks at most twice per attempt for the synthesis of a segment: the job, and
\* the blocking call when the job has vanished.
SpendBounded == \A k \in DOMAIN bought : bought[k] <= 2 * MaxRetries

\* Every run ends, whatever Gemini, the TTS worker and the video worker answer.
RunEnds == Active ~> ~Active
=============================================================================
