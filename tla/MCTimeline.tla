----------------------------- MODULE MCTimeline -----------------------------
(***************************************************************************)
(* Instances of Timeline for TLC.                                          *)
(***************************************************************************)
EXTENDS Timeline

Seg(start, end, text) == [start |-> start, end |-> end, text |-> text]
OneChunk(raw) == <<[length |-> 10, raw |-> raw]>>

\* Up to three segments in a chunk, as Gemini may report them: in any order, overlapping, duplicate,
\* too short, too long, with the end before the start; some blank.  A second chunk follows,
\* or not; the first may reach into it.
Times == {0, 1, 4} \X {1, 5, 9}
Raw(times) == [i \in DOMAIN times |-> Seg(times[i][1], times[i][2], <<i>>)]
FirstChunks(max) ==
  {Raw(times) : times \in UNION {[1..n -> Times] : n \in 0..max}}
    \cup {<<Seg(0, 5, <<>>), Seg(1, 9, <<2>>)>>}
SecondChunk == <<Seg(3, 3, <<4>>), Seg(1, 5, <<5>>), Seg(0, 1, <<6>>)>>
ReportedChunks ==
  {OneChunk(raw) : raw \in FirstChunks(3)}
    \cup {<<[length |-> 6, raw |-> raw], [length |-> 6, raw |-> SecondChunk]>> :
            raw \in FirstChunks(2)}

\* Up to three fragments of Whisper, one after the other, with a pause or without;
\* and some where one is blank, or lies within the one before.
Fragments ==
  {LET first  == Seg(0, d[1], <<1, 2, 3>>)
       second == Seg(first.end + p[1], first.end + p[1] + d[2], <<4>>)
       third  == Seg(second.end + p[2], second.end + p[2] + d[3], <<5>>)
   IN SubSeq(<<first, second, third>>, 1, n) :
     d \in {1, 9} \X {1, 3} \X {1, 3}, p \in [1..2 -> {1, 2}], n \in 0..3}
HeardFragments ==
  {OneChunk(raw) : raw \in Fragments}
    \cup {OneChunk(<<Seg(0, 3, <<1>>), Seg(3, 4, <<>>), Seg(4, 6, <<2>>)>>),
           OneChunk(<<Seg(0, 3, <<1>>), Seg(1, 2, <<2>>), Seg(4, 5, <<3>>)>>),
           OneChunk(<<Seg(1, 9, <<1>>), Seg(2, 4, <<2>>), Seg(0, 5, <<3>>)>>)}
=============================================================================
