------------------------------ MODULE Timeline ------------------------------
(***************************************************************************)
(* From the segments that a model hears in the audio to the places of the  *)
(* spoken clips on the slowed video: normalize_segments for each chunk of  *)
(* a Gemini transcription and the re-basing of the chunks; the merging and *)
(* splitting of Whisper fragments; the placement of the clips in           *)
(* run_pipeline and once more in build_dub_track.                          *)
(*                                                                         *)
(* A step is one turn of a loop of the code.  Times are whole numbers of   *)
(* some unit, on the output clock Slow times as many.  A text is the       *)
(* sequence of its sentences or parts of them, empty when it is blank.     *)
(***************************************************************************)
EXTENDS Integers, Sequences, SequencesExt

CONSTANTS
  GeminiInputs,   \* the transcriptions Gemini may return: sequences of chunks
  WhisperInputs,  \* those of Whisper, one chunk each
  Texts,          \* sentences
  Lengths,        \* how long a clip may be on the output clock
  Slow,           \* DUB_SLOW_FACTOR
  MinDuration,    \* normalize_segments: min_duration
  MaxDuration,    \* SUBTITLE_MAX_SEGMENT_DURATION
  MaxMerge,       \* ASR_MAX_MERGE_SECONDS
  MaxGap,         \* ASR_MERGE_MAX_GAP_SECONDS
  MaxSplit,       \* ASR_MAX_SEGMENT_SECONDS
  MinSplit        \* ASR_MIN_SEGMENT_SECONDS

\* The schema of a segment has start >= 0 and end >= 0, and nothing about their order.
Segment == [start : Nat, end : Nat, text : Seq(Texts)]
Chunk == [length : Nat, raw : Seq(Segment)]

ASSUME InputAssumption ==
  /\ GeminiInputs \subseteq Seq(Chunk) /\ WhisperInputs \subseteq Seq(Chunk)
  /\ \A t \in WhisperInputs : Len(t) = 1
\* A sentence is told from every other by where it occurs.
ASSUME DistinctAssumption ==
  \A t \in GeminiInputs \cup WhisperInputs :
    \A c, d \in DOMAIN t : \A a \in DOMAIN t[c].raw, b \in DOMAIN t[d].raw :
      \A m \in DOMAIN t[c].raw[a].text, n \in DOMAIN t[d].raw[b].text :
        t[c].raw[a].text[m] = t[d].raw[b].text[n] => c = d /\ a = b /\ m = n
ASSUME LimitAssumption ==
  /\ Slow \in Nat /\ MinDuration \in Nat /\ MaxDuration \in Nat \ {0}
  /\ MaxMerge \in Nat /\ MaxGap \in Nat /\ MaxSplit \in Nat /\ MinSplit \in Nat
ASSUME LengthAssumption == Lengths \subseteq Nat

VARIABLES
  engine,  \* TRANSCRIBE_ENGINE
  phase,   \* the loop that is running
  chunks,  \* the transcription, chunk by chunk
  at,      \* the chunk that is next, or in work
  offset,  \* where that chunk begins in the audio
  todo,    \* what the loop has still to look at
  made,    \* what it has produced
  cursor,  \* anchor of the chain, later the end of the last clip
  script,  \* result.segments
  slots,   \* aligned_clips and the times written to the subtitles
  dub,     \* placements: where a clip is in dub.wav
  dropped  \* history: the pieces of Whisper's sentences that were left out

vars ==
  <<engine, phase, chunks, at, offset, todo, made, cursor, script, slots, dub, dropped>>
aside == <<engine, chunks, dropped>>
timeline == <<slots, dub>>

Phases == {"chunk", "sort", "short", "chain", "order",
           "merge", "split", "cut", "place", "mux", "done"}

Later(a, b) == IF a >= b THEN a ELSE b
Earlier(a, b) == IF a <= b THEN a ELSE b
Duration(s) == s.end - s.start
\* Two segments become one, as they follow each other.
Joined(a, b) == [start |-> a.start, end |-> b.end, text |-> a.text \o b.text]
Head1 == todo[1]

Init ==
  /\ \/ engine = "gemini" /\ chunks \in GeminiInputs
     \/ engine = "whisper" /\ chunks \in WhisperInputs
  /\ phase = "chunk"
  /\ at = 1
  /\ offset = 0
  /\ todo = <<>> /\ made = <<>> /\ script = <<>>
  /\ slots = <<>> /\ dub = <<>>
  /\ cursor = 0
  /\ dropped = {}

\* A loop is over and its product is the input of the next.
Pass(next) ==
  /\ todo' = made
  /\ made' = <<>>
  /\ phase' = next

TakeChunk ==
  /\ phase = "chunk" /\ at <= Len(chunks)
  /\ phase' = IF engine = "gemini" THEN "sort" ELSE "merge"
  /\ todo' = chunks[at].raw
  /\ UNCHANGED <<aside, timeline, at, offset, made, cursor, script>>

----------------------------------------------------------------------------
(* Gemini: normalize_segments, chunk by chunk *)

\* Blank and malformed segments are dropped before the sort.
Usable(s) == s.text # <<>> /\ s.end > s.start
Candidates == {i \in DOMAIN todo : phase = "sort" => Usable(todo[i])}

\* A stable sort by the start, of a chunk or of all chunks: the earliest segment
\* goes first, among equals the first.
TakeEarliest ==
  /\ phase \in {"sort", "order"}
  /\ \E i \in Candidates :
       /\ \A j \in Candidates : \/ todo[i].start < todo[j].start
                                \/ todo[i].start = todo[j].start /\ i <= j
       /\ made' = Append(made, todo[i])
       /\ todo' = RemoveAt(todo, i)
  /\ UNCHANGED <<aside, timeline, phase, at, offset, cursor, script>>

EndSort ==
  /\ phase = "sort" /\ Candidates = {}
  /\ Pass("short")
  /\ UNCHANGED <<aside, timeline, at, offset, cursor, script>>

Short(s) == Duration(s) < MinDuration

\* A segment that is long enough stays, and so does a short one that is alone.
KeepHead ==
  /\ phase = "short" /\ todo # <<>>
  /\ Short(Head1) => Len(todo) = 1 /\ made = <<>>
  /\ made' = Append(made, Head1)
  /\ todo' = Tail(todo)
  /\ UNCHANGED <<aside, timeline, phase, at, offset, cursor, script>>

\* A short segment is merged into the next one,
JoinNextTimes ==
  /\ phase = "short" /\ Len(todo) > 1
  /\ Short(Head1)
  /\ todo' = [Tail(todo) EXCEPT ![1] = [@ EXCEPT !.start = Head1.start]]
  /\ UNCHANGED <<aside, timeline, phase, at, offset, made, cursor, script>>

JoinNext ==
  /\ phase = "short" /\ Len(todo) > 1
  /\ Short(Head1)
  /\ todo' = [Tail(todo) EXCEPT ![1] = Joined(Head1, @)]
  /\ UNCHANGED <<aside, timeline, phase, at, offset, made, cursor, script>>

\* or, when it is the last, into the one before.
JoinBack ==
  /\ phase = "short" /\ Len(todo) = 1 /\ made # <<>>
  /\ Short(Head1)
  /\ made' = [made EXCEPT ![Len(made)] = Joined(@, Head1)]
  /\ todo' = <<>>
  /\ UNCHANGED <<aside, timeline, phase, at, offset, cursor, script>>

EndShort ==
  /\ phase = "short" /\ todo = <<>>
  /\ Pass("chain")
  /\ cursor' = 0
  /\ UNCHANGED <<aside, timeline, at, offset, script>>

\* The chain: a segment starts no earlier than its predecessor ended, and is cut
\* to the longest duration.
LinkUnclamped ==
  LET start == Head1.start IN
  /\ phase = "chain" /\ todo # <<>>
  /\ Head1.end > start
  /\ LET end == Earlier(Head1.end, start + MaxDuration)
     IN  /\ made' = Append(made, [Head1 EXCEPT !.start = start, !.end = end])
         /\ cursor' = end
  /\ todo' = Tail(todo)
  /\ UNCHANGED <<aside, timeline, phase, at, offset, script>>

Link ==
  LET start == Later(Head1.start, cursor) IN
  /\ phase = "chain" /\ todo # <<>>
  /\ Head1.end > start
  /\ LET end == Earlier(Head1.end, start + MaxDuration)
     IN  /\ made' = Append(made, [Head1 EXCEPT !.start = start, !.end = end])
         /\ cursor' = end
  /\ todo' = Tail(todo)
  /\ UNCHANGED <<aside, timeline, phase, at, offset, script>>

\* Nothing is left of it: its text goes to the predecessor.  The branch of the code
\* for a first segment of which nothing is left is not here: the first is never
\* clamped, as SequentialChunk says.
Fold ==
  /\ phase = "chain" /\ todo # <<>> /\ made # <<>>
  /\ Head1.end <= Later(Head1.start, cursor)
  /\ made' = [made EXCEPT ![Len(made)] =
                [Last(made) EXCEPT !.text = @ \o Head1.text]]
  /\ todo' = Tail(todo)
  /\ UNCHANGED <<aside, timeline, phase, at, offset, cursor, script>>

\* transcribe_chunked: the segments of a chunk move to where it really begins.
RebasedBack(s) == [s EXCEPT !.start = @ - offset, !.end = @ - offset]
Rebased(s) == [s EXCEPT !.start = @ + offset, !.end = @ + offset]

EndChunk ==
  /\ phase = "chain" /\ todo = <<>>
  /\ script' = script \o [i \in DOMAIN made |-> Rebased(made[i])]
  /\ made' = <<>>
  /\ offset' = offset + chunks[at].length
  /\ at' = at + 1
  /\ phase' = "chunk"
  /\ UNCHANGED <<aside, timeline, todo, cursor>>

\* All chunks are back: their segments are sorted by start.
AllChunks ==
  /\ phase = "chunk" /\ at > Len(chunks)
  /\ phase' = "order"
  /\ todo' = script
  /\ script' = <<>>
  /\ UNCHANGED <<aside, timeline, at, offset, made, cursor>>

EndOrder ==
  /\ phase = "order" /\ todo = <<>>
  /\ script' = made
  /\ made' = <<>>
  /\ cursor' = 0
  /\ phase' = "place"
  /\ UNCHANGED <<aside, timeline, at, offset, todo>>

Normalise ==
  \/ TakeEarliest \/ EndSort
  \/ KeepHead \/ JoinNext \/ JoinBack \/ EndShort
  \/ Link \/ Fold \/ EndChunk
  \/ AllChunks \/ EndOrder

----------------------------------------------------------------------------
(* Whisper: merge the fragments into sentences, split what is too long *)

SkipBlank ==
  /\ phase = "merge" /\ todo # <<>> /\ Head1.text = <<>>
  /\ todo' = Tail(todo)
  /\ UNCHANGED <<aside, timeline, phase, at, offset, made, cursor, script>>

\* The fragment belongs to the sentence in hand, the last of made.
FitsAlone(s) ==
  made # <<>> /\ s.start - Last(made).end <= MaxGap /\ s.end - Last(made).end <= MaxMerge
Fits(s) ==
  made # <<>> /\ s.start - Last(made).end <= MaxGap /\ s.end - Last(made).start <= MaxMerge

AbsorbTimes ==
  /\ phase = "merge" /\ todo # <<>> /\ Head1.text # <<>>
  /\ Fits(Head1)
  /\ made' = [made EXCEPT ![Len(made)].end = Later(@, Head1.end)]
  /\ todo' = Tail(todo)
  /\ UNCHANGED <<aside, timeline, phase, at, offset, cursor, script>>

Absorb ==
  /\ phase = "merge" /\ todo # <<>> /\ Head1.text # <<>>
  /\ Fits(Head1)
  /\ made' = [made EXCEPT ![Len(made)] =
                [Joined(@, Head1) EXCEPT !.end = Later(Last(made).end, Head1.end)]]
  /\ todo' = Tail(todo)
  /\ UNCHANGED <<aside, timeline, phase, at, offset, cursor, script>>

Open ==
  /\ phase = "merge" /\ todo # <<>> /\ Head1.text # <<>>
  /\ ~Fits(Head1)
  /\ made' = Append(made, Head1)
  /\ todo' = Tail(todo)
  /\ UNCHANGED <<aside, timeline, phase, at, offset, cursor, script>>

EndMerge ==
  /\ phase = "merge" /\ todo = <<>>
  /\ Pass("split")
  /\ UNCHANGED <<aside, timeline, at, offset, cursor, script>>

\* Pieces that are too short to be spoken are left out.
WithPiece(s) == IF Duration(s) < MinSplit THEN made ELSE Append(made, s)
WithDropped(s) == IF Duration(s) < MinSplit THEN dropped \cup {s} ELSE dropped

\* A sentence that is short enough, or has no punctuation to split at, stays whole.
KeepWhole ==
  /\ phase = "split" /\ todo # <<>>
  /\ made' = WithPiece(Head1) /\ dropped' = WithDropped(Head1)
  /\ todo' = Tail(todo)
  /\ UNCHANGED <<engine, chunks, timeline, phase, at, offset, cursor, script>>

\* The first piece of a long one ends after some sentence; when, depends on its
\* share of the characters.  The rest is cut on, or is the last piece.
Cut ==
  /\ phase = "split" => todo # <<>> /\ Duration(Head1) > MaxSplit
  /\ phase \in {"split", "cut"} /\ Len(Head1.text) > 1
  /\ \E n \in 1..(Len(Head1.text) - 1), t \in Head1.start..Head1.end :
       /\ LET piece == [Head1 EXCEPT !.end = t, !.text = SubSeq(@, 1, n)]
          IN made' = WithPiece(piece) /\ dropped' = WithDropped(piece)
       /\ todo' = [todo EXCEPT ![1] = [Head1 EXCEPT !.start = t,
                                                   !.text = SubSeq(@, n + 1, Len(@))]]
  /\ phase' = "cut"
  /\ UNCHANGED <<engine, chunks, timeline, at, offset, cursor, script>>

LastPiece ==
  /\ phase = "cut"
  /\ made' = WithPiece(Head1) /\ dropped' = WithDropped(Head1)
  /\ todo' = Tail(todo)
  /\ phase' = "split"
  /\ UNCHANGED <<engine, chunks, timeline, at, offset, cursor, script>>

EndSplit ==
  /\ phase = "split" /\ todo = <<>>
  /\ script' = made
  /\ made' = <<>>
  /\ cursor' = 0
  /\ phase' = "place"
  /\ UNCHANGED <<aside, timeline, at, offset, todo>>

Sentences ==
  SkipBlank \/ Absorb \/ Open \/ EndMerge \/ KeepWhole \/ Cut \/ LastPiece \/ EndSplit

----------------------------------------------------------------------------
(* Both: the clips on the output clock *)

\* run_pipeline, aligning: a clip is put where its segment starts on the slowed video, or
\* where the clip before it ends.  The segment takes the times of the clip.
PlaceOverlapping(length) ==
  LET pos == script[Len(slots) + 1].start * Slow IN
  /\ phase = "place" /\ Len(slots) < Len(script)
  /\ slots' = Append(slots, [start |-> pos, length |-> length])
  /\ cursor' = pos + length
  /\ UNCHANGED <<aside, phase, at, offset, todo, made, script, dub>>

Place(length) ==
  LET pos == Later(script[Len(slots) + 1].start * Slow, cursor) IN
  /\ phase = "place" /\ Len(slots) < Len(script)
  /\ slots' = Append(slots, [start |-> pos, length |-> length])
  /\ cursor' = pos + length
  /\ UNCHANGED <<aside, phase, at, offset, todo, made, script, dub>>

\* Without segments the job is over.
EndPlace ==
  /\ phase = "place" /\ Len(slots) = Len(script)
  /\ phase' = IF script = <<>> THEN "done" ELSE "mux"
  /\ cursor' = 0
  /\ UNCHANGED <<aside, timeline, at, offset, todo, made, script>>

\* build_dub_track measures the clips again and has a cursor of its own.
Lay ==
  LET slot == slots[Len(dub) + 1]
      start == Later(slot.start, cursor) IN
  /\ phase = "mux" /\ Len(dub) < Len(slots)
  /\ dub' = Append(dub, start)
  /\ cursor' = start + slot.length
  /\ UNCHANGED <<aside, phase, at, offset, todo, made, script, slots>>

EndMux ==
  /\ phase = "mux" /\ Len(dub) = Len(slots)
  /\ phase' = "done"
  /\ UNCHANGED <<aside, timeline, at, offset, todo, made, cursor, script>>

Align == (\E length \in Lengths : Place(length)) \/ EndPlace \/ Lay \/ EndMux

\* The job is over.
Done == phase = "done" /\ UNCHANGED vars

Next == TakeChunk \/ Normalise \/ Sentences \/ Align \/ Done

Spec == Init /\ [][Next]_vars

----------------------------------------------------------------------------
(* Properties *)

\* Every variable keeps the shape the code gives it.
TypeOK ==
  /\ engine \in {"gemini", "whisper"}
  /\ phase \in Phases
  /\ chunks \in Seq(Chunk)
  /\ at \in Nat \ {0}
  /\ offset \in Nat /\ cursor \in Nat
  /\ todo \in Seq(Segment) /\ made \in Seq(Segment) /\ script \in Seq(Segment)
  /\ slots \in Seq([start : Nat, length : Nat])
  /\ dub \in Seq(Nat)
  /\ dropped \subseteq Segment

\* Whatever overlaps and duplicates Gemini reports, normalize_segments makes one
\* chain of a chunk: no segment is empty or longer than the cap, and each starts
\* where its predecessor ended or later.  Of the first segment something is left
\* when it is linked, so the branch that Fold leaves out is never taken.
SequentialChunk ==
  phase = "chain" =>
    /\ made = <<>> /\ todo # <<>> => Head1.end > Later(Head1.start, cursor)
    /\ \A i \in DOMAIN made : Duration(made[i]) \in 1..MaxDuration
    /\ \A i, j \in DOMAIN made : i < j => made[i].end <= made[j].start

\* Nothing that was heard is lost or said twice, however it was merged, folded, moved,
\* cut and sorted: every part of every usable segment of Gemini and of every fragment
\* of Whisper is in the script, except what was in a piece of Whisper's that was too
\* short, and no part is in it twice.
Scripted == phase \in {"place", "mux", "done"}
Says(s, t) == \E n \in DOMAIN s.text : s.text[n] = t
SpokenOnce ==
  Scripted =>
    /\ \A c \in DOMAIN chunks : \A a \in DOMAIN chunks[c].raw :
         (engine = "gemini" => Usable(chunks[c].raw[a]))
           => \A m \in DOMAIN chunks[c].raw[a].text :
                LET t == chunks[c].raw[a].text[m]
                IN \/ \E i \in DOMAIN script : Says(script[i], t)
                   \/ /\ engine = "whisper"
                      /\ \E s \in dropped : Duration(s) < MinSplit /\ Says(s, t)
    /\ \A i, j \in DOMAIN script :
         \A m \in DOMAIN script[i].text, n \in DOMAIN script[j].text :
           script[i].text[m] = script[j].text[n] => i = j /\ m = n

\* Fragments become one sentence only as long as it stays within the cap, a single
\* fragment may be longer; and each follows an earlier one of the sentence without a
\* longer pause, however the fragments overlap.
PartOf(i, s) == s.text # <<>> /\ \E n \in DOMAIN made[i].text : made[i].text[n] = s.text[1]
SentenceWithinLimits ==
  phase = "merge" =>
    LET raw == chunks[at].raw IN
    \A i \in DOMAIN made :
      /\ \/ Duration(made[i]) <= MaxMerge
         \/ \E a \in DOMAIN raw : made[i].start = raw[a].start /\ made[i].end = raw[a].end
      /\ \A a, c \in DOMAIN raw :
           c < a /\ PartOf(i, raw[c]) /\ PartOf(i, raw[a])
             => \E b \in 1..(a - 1) :
                  PartOf(i, raw[b]) /\ raw[a].start - raw[b].end <= MaxGap

\* The clips of the dub never overlap, and each is heard exactly at the time that its
\* subtitle was given: the second cursor never moves a clip.
NoDrift ==
  /\ \A i, j \in DOMAIN slots : i < j => slots[i].start + slots[i].length <= slots[j].start
  /\ \A i \in DOMAIN dub : dub[i] = slots[i].start
=============================================================================
