------------------------------ MODULE Gemini ------------------------------
(***************************************************************************)
(* How the pipeline worker asks Gemini (gemini.py, chunking.py): batches   *)
(* of Whisper's lines are translated one after the other, or, with the     *)
(* engine "gemini", chunks of the audio are transcribed in parallel.       *)
(* Either way a part is asked of one model and key after the other, some   *)
(* times each, until one answers.                                          *)
(*                                                                         *)
(* Of an answer one keeps which line each of its words belongs to.  The    *)
(* Gemini cache is shared by all jobs, so it may know any chunk.           *)
(*                                                                         *)
(* An operator that is not part of a step and stands before the one it     *)
(* resembles is a mutant of it: a plausible bug that the properties must   *)
(* notice.                                                                 *)
(***************************************************************************)
EXTENDS Integers, Sequences, FiniteSets

CONSTANTS
  Lines,     \* how many lines the video speaks
  Parts,     \* Parts[e]: the parts of engine e, each <<first line, last line>>
  Pairs,     \* how many pairs of model and key there are
  Tries,     \* how often one pair is tried (3)
  Parallel,  \* GEMINI_PARALLEL
  Blank,     \* an empty target_text
  Absent     \* a line that is in no answer

VARIABLES
  engine,  \* TRANSCRIBE_ENGINE
  text,    \* text[l]: target_text of line l so far
  ask      \* ask[p]: the request for part p

Word == [line: 1..Lines, in: {"source", "target"}]
Target(l) == [line |-> l, in |-> "target"]
Source(l) == [line |-> l, in |-> "source"]

Request == [at: {"wait", "call", "done", "failed"}, pair: 1..Pairs, try: 1..Tries,
            again: BOOLEAN]

PartIds == DOMAIN ask
LinesOf(p) == Parts[engine][p][1]..Parts[engine][p][2]
Calling == {p \in PartIds : ask[p].at = "call"}
Answered == \A p \in PartIds : ask[p].at = "done"
Refused == \E p \in PartIds : ask[p].at = "failed"

\* Whisper's segments, or nothing yet, and no part asked for.
Opened(e) ==
  /\ text' = [l \in 1..Lines |-> IF e = "whisper" THEN Blank ELSE Absent]
  /\ ask' = [p \in DOMAIN Parts[e] |-> [at |-> "wait", pair |-> 1, try |-> 1, again |-> FALSE]]

\* A batch waits for the batch before it, a chunk for the semaphore.
MayStart(p) ==
  /\ ask[p].at = "wait"
  /\ IF engine = "whisper"
       THEN \A q \in PartIds : q < p => ask[q].at = "done"
       ELSE /\ \A q \in PartIds : q < p => ask[q].at # "wait" \/ ask[q].again
            /\ Cardinality(Calling) < Parallel

\* The lines heard in chunk p.  When none was although the chunk is long, the chunk
\* is transcribed once more.
Heard(p, lines) ==
  /\ text' = [l \in 1..Lines |-> IF l \in LinesOf(p)
                                   THEN IF l \in lines THEN Target(l) ELSE Absent
                                   ELSE text[l]]
  /\ \/ ask' = [ask EXCEPT ![p].at = "done"]
     \/ /\ lines = {} /\ ~ask[p].again
        /\ ask' = [ask EXCEPT ![p] = [@ EXCEPT !.at = "wait", !.again = TRUE]]

\* A repeated transcription finds the empty answer in the cache, where the first
\* one has just put it, unless that failed.
Start(p) ==
  /\ MayStart(p)
  /\ \/ ask' = [ask EXCEPT ![p] = [@ EXCEPT !.at = "call", !.pair = 1, !.try = 1]]
        /\ UNCHANGED text
     \/ /\ engine = "gemini"
        /\ \E lines \in IF ask[p].again THEN {{}} ELSE SUBSET LinesOf(p) : Heard(p, lines)

\* No key is configured, or the audio is gone.
Refuse(p) ==
  /\ MayStart(p)
  /\ ask' = [ask EXCEPT ![p].at = "failed"]
  /\ UNCHANGED text

\* A transient error: timeout, rate limit, 5xx, invalid JSON.
Retry(p) ==
  /\ p \in Calling
  /\ ask[p].try < Tries
  /\ ask' = [ask EXCEPT ![p].try = @ + 1]
  /\ UNCHANGED text

NextPairTooFar(p) ==
  ask' = [ask EXCEPT ![p] = IF @.pair <= Pairs
                              THEN [@ EXCEPT !.pair = ask[p].pair + 1, !.try = 1]
                              ELSE [@ EXCEPT !.at = "failed"]]

NextPair(p) ==
  ask' = [ask EXCEPT ![p] = IF @.pair < Pairs
                              THEN [@ EXCEPT !.pair = ask[p].pair + 1, !.try = 1]
                              ELSE [@ EXCEPT !.at = "failed"]]

\* Quota, a permanent error, an unknown one, or the last try (30 s are the limit of
\* the tries, too): the next pair, and after the last one the error is raised.
GiveUpPair(p) ==
  /\ p \in Calling
  /\ NextPair(p)
  /\ UNCHANGED text

\* Chunk p is answered: any lines may be missing, malformed or without text.
Hear(p) ==
  /\ p \in Calling
  /\ engine = "gemini"
  /\ \E lines \in SUBSET LinesOf(p) : Heard(p, lines)

----------------------------------------------------------------------------
(* translate_text *)

\* Ways to leave some of the lines out, as the others keep their order.
InOrder(lines) ==
  {kept \in UNION {[1..n -> lines] : n \in 0..Lines} :
     \A i, j \in DOMAIN kept : i < j => kept[i] < kept[j]}

\* One translation per line, some of them blank; or some lines are left out, though
\* the prompt forbids it, and what is left is shorter.
Answers(p) ==
  LET first == Parts[engine][p][1]
      last == Parts[engine][p][2]
      own == [j \in 1..(last - first + 1) |-> Target(first + j - 1)]
  IN {[j \in DOMAIN own |-> IF j \in blank THEN Blank ELSE own[j]] : blank \in SUBSET DOMAIN own}
     \cup {[j \in DOMAIN kept |-> Target(kept[j])] : kept \in InOrder(LinesOf(p))}

\* The loop over the first `upto` translations: a blank one changes nothing.
Applied(p, answer, upto) ==
  [l \in 1..Lines |->
     LET j == l - Parts[engine][p][1] + 1
     IN IF l \in LinesOf(p) /\ j <= upto /\ answer[j] # Blank THEN answer[j] ELSE text[l]]

\* Lines beyond the answer keep what an earlier attempt gave them, or their source.
Translate(p) ==
  /\ p \in Calling
  /\ engine = "whisper"
  /\ \E answer \in Answers(p) :
       LET told == Applied(p, answer, Len(answer))
       IN text' = [l \in 1..Lines |->
                     IF l \in LinesOf(p) /\ l - Parts[engine][p][1] >= Len(answer) /\ told[l] = Blank
                       THEN Source(l) ELSE told[l]]
  /\ ask' = [ask EXCEPT ![p].at = "done"]

\* A translation that is not a string raises after the ones before it were applied.
Spoil(p) ==
  /\ p \in Calling
  /\ engine = "whisper"
  /\ \E answer \in Answers(p) : \E upto \in 0..(Len(answer) - 1) :
       text' = Applied(p, answer, upto)
  /\ NextPair(p)

Step ==
  \E p \in PartIds : \/ Start(p) \/ Refuse(p) \/ Retry(p) \/ GiveUpPair(p)
                     \/ Hear(p) \/ Translate(p) \/ Spoil(p)

TypeOK ==
  /\ engine \in {"whisper", "gemini"}
  /\ text \in [1..Lines -> Word \cup {Blank, Absent}]
  /\ ask \in [DOMAIN Parts[engine] -> Request]
=============================================================================
