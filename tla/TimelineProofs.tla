--------------------------- MODULE TimelineProofs ---------------------------
(***************************************************************************)
(* Proofs that normalize_segments makes one chain of whatever it is given, *)
(* that no caption is lost and nothing is said twice on the way to the     *)
(* dub, that Whisper's sentences stay within their limits, that the clips  *)
(* of the dub do not overlap and stay at the times of their subtitles, and *)
(* that no loop runs for ever, for every transcription, limit and length   *)
(* of a clip.                                                              *)
(***************************************************************************)
EXTENDS Timeline, SequenceTheorems, TLAPS

\* The types, with what makes the expressions of the steps meaningful.
Typed ==
  /\ TypeOK
  /\ phase \in {"sort", "short", "chain", "merge"} => at <= Len(chunks)
  /\ phase = "cut" => todo # <<>>

----------------------------------------------------------------------------

LEMMA LaterType == ASSUME NEW a \in Nat, NEW b \in Nat
                   PROVE  Later(a, b) \in Nat /\ Later(a, b) >= a /\ Later(a, b) >= b
  BY DEF Later

LEMMA EarlierType == ASSUME NEW a \in Nat, NEW b \in Nat
                     PROVE  Earlier(a, b) \in Nat /\ Earlier(a, b) <= a /\ Earlier(a, b) <= b
  BY DEF Earlier

\* The head of what is left is a segment, and the rest are segments.
LEMMA HeadAndTail ==
  ASSUME NEW S, NEW s \in Seq(S), s # <<>>
  PROVE  Len(s) >= 1 /\ s[1] \in S /\ Tail(s) \in Seq(S) /\ Len(Tail(s)) = Len(s) - 1
  OBVIOUS

LEMMA LastOf ==
  ASSUME NEW S, NEW s \in Seq(S), s # <<>>
  PROVE  Len(s) \in 1..Len(s) /\ s[Len(s)] \in S
  OBVIOUS

\* The times in a sequence of segments are numbers.
LEMMA TimesOf ==
  ASSUME NEW q \in Seq(Segment), NEW i \in DOMAIN q
  PROVE  q[i] \in Segment /\ q[i].start \in Nat /\ q[i].end \in Nat
<1>1. q[i] \in Segment
  OBVIOUS
<1> QED BY <1>1 DEF Segment

LEMMA RemoveAtType ==
  ASSUME NEW S, NEW s \in Seq(S), NEW i \in DOMAIN s
  PROVE  RemoveAt(s, i) \in Seq(S)
<1>1. SubSeq(s, 1, i - 1) \in Seq(S) /\ SubSeq(s, i + 1, Len(s)) \in Seq(S)
  BY SubSeqProperties
<1> QED BY <1>1, ConcatProperties DEF RemoveAt

\* What is left when the element at i goes.
LEMMA RemovedAt ==
  ASSUME NEW q \in Seq(Segment), NEW i \in DOMAIN q
  PROVE  /\ DOMAIN RemoveAt(q, i) = 1..(Len(q) - 1) /\ Len(RemoveAt(q, i)) = Len(q) - 1
         /\ \A k \in 1..(Len(q) - 1) : RemoveAt(q, i)[k] = IF k < i THEN q[k] ELSE q[k + 1]
<1> DEFINE r == RemoveAt(q, i)
<1>1. Len(q) \in Nat \ {0} /\ DOMAIN q = 1..Len(q) /\ i \in 1..Len(q)
  OBVIOUS
<1>2. /\ SubSeq(q, 1, i - 1) \in Seq(Segment) /\ Len(SubSeq(q, 1, i - 1)) = i - 1
      /\ \A k \in 1..(i - 1) : SubSeq(q, 1, i - 1)[k] = q[k]
  <2>1. \A k \in 1..(i - 1) : q[k] \in Segment
    BY <1>1
  <2> QED BY <1>1, <2>1, SubSeqProperties
<1>3. /\ SubSeq(q, i + 1, Len(q)) \in Seq(Segment) /\ Len(SubSeq(q, i + 1, Len(q))) = Len(q) - i
      /\ \A k \in 1..(Len(q) - i) : SubSeq(q, i + 1, Len(q))[k] = q[i + k]
  <2>1. \A k \in (i + 1)..Len(q) : q[k] \in Segment
    BY <1>1
  <2> QED BY <1>1, <2>1, SubSeqProperties
<1>4. /\ DOMAIN r = 1..(Len(q) - 1) /\ Len(r) = Len(q) - 1
      /\ \A k \in 1..(Len(q) - 1) : r[k] = IF k < i THEN q[k] ELSE q[k + 1]
  <2> DEFINE a == SubSeq(q, 1, i - 1)
             b == SubSeq(q, i + 1, Len(q))
  <2>1. r = a \o b
    BY DEF RemoveAt
  <2>2. /\ a \in Seq(Segment) /\ Len(a) = i - 1
        /\ \A k \in 1..(i - 1) : a[k] = q[k]
    BY <1>2
  <2>3. /\ b \in Seq(Segment) /\ Len(b) = Len(q) - i
        /\ \A k \in 1..(Len(q) - i) : b[k] = q[i + k]
    BY <1>3
  <2> HIDE DEF a, b, r
  <2>4. /\ r \in Seq(Segment) /\ Len(r) = Len(a) + Len(b)
        /\ \A k \in 1..(Len(a) + Len(b)) : r[k] = IF k <= Len(a) THEN a[k] ELSE b[k - Len(a)]
    BY <2>1, <2>2, <2>3, ConcatProperties
  <2>5. Len(r) = Len(q) - 1
    BY <1>1, <2>2, <2>3, <2>4
  <2>5a. DOMAIN r = 1..(Len(q) - 1)
    BY <2>4, <2>5
  <2>6. ASSUME NEW k \in 1..(Len(q) - 1) PROVE r[k] = IF k < i THEN q[k] ELSE q[k + 1]
    <3>1. r[k] = IF k <= i - 1 THEN a[k] ELSE b[k - (i - 1)]
      BY <1>1, <2>2, <2>3, <2>4
    <3>2. CASE k < i
      BY <1>1, <2>2, <3>1, <3>2
    <3>3. CASE k >= i
      <4>1. k - (i - 1) \in 1..(Len(q) - i) /\ i + (k - (i - 1)) = k + 1
        BY <1>1, <3>3
      <4>2. r[k] = b[k - (i - 1)]
        BY <1>1, <3>1, <3>3
      <4> QED BY <1>1, <2>3, <3>3, <4>1, <4>2
    <3> QED BY <1>1, <3>2, <3>3
  <2> QED BY <2>5, <2>5a, <2>6
<1> QED BY <1>4

LEMMA JoinedType ==
  ASSUME NEW a \in Segment, NEW b \in Segment
  PROVE  Joined(a, b) \in Segment
  BY ConcatProperties DEF Joined, Segment

LEMMA RebasedType ==
  ASSUME offset \in Nat, NEW s \in Segment
  PROVE  Rebased(s) \in Segment
<1>1. s.start + offset \in Nat /\ s.end + offset \in Nat
  BY DEF Segment
<1>2. [s EXCEPT !.start = s.start + offset, !.end = s.end + offset] \in Segment
  BY <1>1 DEF Segment
<1> QED BY <1>2 DEF Rebased

LEMMA PieceType ==
  ASSUME made \in Seq(Segment), NEW s \in Segment
  PROVE  WithPiece(s) \in Seq(Segment)
  BY AppendProperties DEF WithPiece

LEMMA DroppedType ==
  ASSUME dropped \subseteq Segment, NEW s \in Segment
  PROVE  WithDropped(s) \subseteq Segment
  BY DEF WithDropped

----------------------------------------------------------------------------

LEMMA TypedInit == Init => Typed
  BY InputAssumption DEF Init, Typed, TypeOK, Phases

LEMMA TypedStep == Typed /\ [Next]_vars => Typed'
<1> SUFFICES ASSUME Typed, [Next]_vars PROVE Typed'
  OBVIOUS
<1> USE DEF Typed, TypeOK, Phases
<1>1. CASE TakeChunk
  <2>1. chunks[at] \in Chunk
    BY <1>1 DEF TakeChunk
  <2>2. chunks[at].raw \in Seq(Segment)
    BY <2>1 DEF Chunk
  <2> QED BY <1>1, <2>2 DEF TakeChunk, aside, timeline
<1>2. CASE TakeEarliest
  <2>1. PICK i \in Candidates : made' = Append(made, todo[i]) /\ todo' = RemoveAt(todo, i)
    BY <1>2 DEF TakeEarliest
  <2>2. i \in DOMAIN todo
    BY DEF Candidates
  <2>3. todo[i] \in Segment
    BY <2>2
  <2>4. made' \in Seq(Segment)
    BY <2>1, <2>3, AppendProperties
  <2>5. todo' \in Seq(Segment)
    BY <2>1, <2>2, RemoveAtType
  <2> QED BY <1>2, <2>4, <2>5 DEF TakeEarliest, aside, timeline
<1>3. CASE EndSort \/ EndShort \/ EndMerge
  <2>1. todo' = made /\ made' = <<>> /\ phase' \in {"short", "chain", "split"}
    BY <1>3 DEF EndSort, EndShort, EndMerge, Pass
  <2>2. cursor' \in Nat /\ phase \in {"sort", "short", "merge"}
    BY <1>3 DEF EndSort, EndShort, EndMerge
  <2>3. UNCHANGED <<engine, chunks, dropped, at, offset, script, slots, dub>>
    BY <1>3 DEF EndSort, EndShort, EndMerge, aside, timeline
  <2>4. made' \in Seq(Segment)
    BY <2>1, EmptySeq
  <2> QED BY <2>1, <2>2, <2>3, <2>4
<1>4. CASE KeepHead
  <2>1. Head1 \in Segment /\ Tail(todo) \in Seq(Segment)
    BY <1>4, HeadAndTail DEF KeepHead, Head1
  <2>2. made' \in Seq(Segment)
    BY <1>4, <2>1, AppendProperties DEF KeepHead
  <2> QED BY <1>4, <2>1, <2>2 DEF KeepHead, aside, timeline
<1>5. CASE JoinNext
  <2>1. todo # <<>> /\ Head1 \in Segment /\ Tail(todo) \in Seq(Segment) /\ Len(Tail(todo)) >= 1
    BY <1>5, HeadAndTail DEF JoinNext, Head1
  <2>2. Tail(todo)[1] \in Segment
    BY <2>1
  <2>3. Joined(Head1, Tail(todo)[1]) \in Segment
    BY <2>1, <2>2, JoinedType
  <2>4. todo' = [Tail(todo) EXCEPT ![1] = Joined(Head1, Tail(todo)[1])]
    BY <1>5 DEF JoinNext
  <2>5. todo' \in Seq(Segment)
    BY <2>1, <2>3, <2>4, ExceptSeq
  <2> QED BY <1>5, <2>5 DEF JoinNext, aside, timeline
<1>6. CASE JoinBack
  <2>0. Len(todo) = 1
    BY <1>6 DEF JoinBack
  <2>1. todo # <<>>
    <3>1. Len(<<>>) # 1
      OBVIOUS
    <3> QED BY <2>0, <3>1, Zenon
  <2>1a. Head1 \in Segment
    BY <2>1, HeadAndTail DEF Head1
  <2>2. Len(made) \in 1..Len(made) /\ made[Len(made)] \in Segment
    BY <1>6, LastOf DEF JoinBack
  <2>3. Joined(made[Len(made)], Head1) \in Segment
    BY <2>1a, <2>2, JoinedType
  <2>4. made' = [made EXCEPT ![Len(made)] = Joined(made[Len(made)], Head1)]
    BY <1>6 DEF JoinBack
  <2>5. made' \in Seq(Segment)
    BY <2>2, <2>3, <2>4, ExceptSeq
  <2> QED BY <1>6, <2>5 DEF JoinBack, aside, timeline
<1>7. CASE Link
  <2> DEFINE start == Later(Head1.start, cursor)
             end == Earlier(Head1.end, start + MaxDuration)
  <2>1. Head1 \in Segment /\ Tail(todo) \in Seq(Segment)
    BY <1>7, HeadAndTail DEF Link, Head1
  <2>2. Head1.start \in Nat /\ Head1.end \in Nat
    BY <2>1 DEF Segment
  <2>3. start \in Nat
    BY <2>2, LaterType
  <2> HIDE DEF start
  <2>3a. start + MaxDuration \in Nat
    BY <2>3, LimitAssumption
  <2>4. end \in Nat
    BY <2>2, <2>3a, EarlierType
  <2>5. [Head1 EXCEPT !.start = start, !.end = end] \in Segment
    BY <2>1, <2>3, <2>4 DEF Segment
  <2>6. made' = Append(made, [Head1 EXCEPT !.start = start, !.end = end]) /\ cursor' = end
    BY <1>7 DEF Link, start
  <2>7. made' \in Seq(Segment)
    BY <2>5, <2>6, AppendProperties
  <2> HIDE DEF end
  <2> QED BY <1>7, <2>1, <2>4, <2>6, <2>7 DEF Link, aside, timeline
<1>8. CASE Fold
  <2>1. Head1 \in Segment /\ Tail(todo) \in Seq(Segment)
    BY <1>8, HeadAndTail DEF Fold, Head1
  <2>2. Len(made) \in 1..Len(made) /\ made[Len(made)] \in Segment
    BY <1>8, LastOf DEF Fold
  <2>3. made[Len(made)].text \o Head1.text \in Seq(Texts)
    BY <2>1, <2>2, ConcatProperties DEF Segment
  <2>4. [made[Len(made)] EXCEPT !.text = made[Len(made)].text \o Head1.text] \in Segment
    BY <2>2, <2>3 DEF Segment
  <2>5. made' = [made EXCEPT ![Len(made)] =
                   [made[Len(made)] EXCEPT !.text = made[Len(made)].text \o Head1.text]]
    BY <1>8 DEF Fold, Last
  <2>6. made' \in Seq(Segment)
    BY <2>2, <2>4, <2>5, ExceptSeq
  <2> QED BY <1>8, <2>1, <2>6 DEF Fold, aside, timeline
<1>9. CASE EndChunk
  <2>1. chunks[at] \in Chunk
    BY <1>9 DEF EndChunk
  <2>2. chunks[at].length \in Nat
    BY <2>1 DEF Chunk
  <2>3. \A i \in DOMAIN made : Rebased(made[i]) \in Segment
    <3> TAKE i \in DOMAIN made
    <3>1. made[i] \in Segment
      OBVIOUS
    <3> QED BY <3>1, RebasedType
  <2>4. [i \in DOMAIN made |-> Rebased(made[i])] \in Seq(Segment)
    <3>1. DOMAIN made = 1..Len(made) /\ Len(made) \in Nat
      OBVIOUS
    <3> QED BY <2>3, <3>1
  <2>5. script' \in Seq(Segment)
    BY <1>9, <2>4, ConcatProperties DEF EndChunk
  <2>6. at' \in Nat \ {0} /\ offset' \in Nat
    BY <1>9, <2>2 DEF EndChunk
  <2> QED BY <1>9, <2>5, <2>6 DEF EndChunk, aside, timeline
<1>10. CASE AllChunks \/ EndOrder \/ EndSplit
  <2>1. /\ phase' \in {"order", "place"} /\ cursor' \in Nat
        /\ UNCHANGED <<engine, chunks, dropped, at, offset, slots, dub>>
    BY <1>10 DEF AllChunks, EndOrder, EndSplit, aside, timeline
  <2>2. {todo', made', script'} \subseteq {todo, made, script, <<>>}
    BY <1>10 DEF AllChunks, EndOrder, EndSplit
  <2>3. todo' \in Seq(Segment) /\ made' \in Seq(Segment) /\ script' \in Seq(Segment)
    BY <2>2, EmptySeq
  <2> QED BY <2>1, <2>3
<1>11. CASE SkipBlank \/ KeepWhole
  <2>1. Head1 \in Segment /\ Tail(todo) \in Seq(Segment)
    BY <1>11, HeadAndTail DEF SkipBlank, KeepWhole, Head1
  <2>2. WithPiece(Head1) \in Seq(Segment) /\ WithDropped(Head1) \subseteq Segment
    BY <2>1, PieceType, DroppedType
  <2> QED BY <1>11, <2>1, <2>2 DEF SkipBlank, KeepWhole, aside, timeline
<1>12. CASE Absorb
  <2> DEFINE a == made[Len(made)]
             end == Later(a.end, Head1.end)
  <2>1. Head1 \in Segment /\ Tail(todo) \in Seq(Segment)
    BY <1>12, HeadAndTail DEF Absorb, Head1
  <2>2. Len(made) \in 1..Len(made) /\ a \in Segment
    BY <1>12, LastOf DEF Absorb, Fits
  <2>3. end \in Nat
    BY <2>1, <2>2, LaterType DEF Segment
  <2>4. [Joined(a, Head1) EXCEPT !.end = end] \in Segment
    BY <2>1, <2>2, <2>3, JoinedType DEF Segment
  <2>5. made' = [made EXCEPT ![Len(made)] = [Joined(a, Head1) EXCEPT !.end = end]]
    BY <1>12 DEF Absorb, Last
  <2> HIDE DEF a, end
  <2>6. made' \in Seq(Segment)
    BY <2>2, <2>4, <2>5, ExceptSeq
  <2> QED BY <1>12, <2>1, <2>6 DEF Absorb, aside, timeline
<1>13. CASE Open
  <2>1. Head1 \in Segment /\ Tail(todo) \in Seq(Segment)
    BY <1>13, HeadAndTail DEF Open, Head1
  <2>2. made' \in Seq(Segment)
    BY <1>13, <2>1, AppendProperties DEF Open
  <2> QED BY <1>13, <2>1, <2>2 DEF Open, aside, timeline
<1>14. CASE Cut
  <2>1. todo # <<>> /\ Head1 \in Segment
    BY <1>14, HeadAndTail DEF Cut, Head1
  <2>2. PICK n \in 1..(Len(Head1.text) - 1), t \in Head1.start..Head1.end :
          /\ made' = WithPiece([Head1 EXCEPT !.end = t, !.text = SubSeq(Head1.text, 1, n)])
          /\ dropped' = WithDropped([Head1 EXCEPT !.end = t, !.text = SubSeq(Head1.text, 1, n)])
          /\ todo' = [todo EXCEPT ![1] =
                        [Head1 EXCEPT !.start = t,
                                      !.text = SubSeq(Head1.text, n + 1, Len(Head1.text))]]
    BY <1>14 DEF Cut
  <2>3. Head1.text \in Seq(Texts) /\ t \in Nat
    BY <2>1 DEF Segment
  <2>4. /\ SubSeq(Head1.text, 1, n) \in Seq(Texts)
        /\ SubSeq(Head1.text, n + 1, Len(Head1.text)) \in Seq(Texts)
    BY <2>3, SubSeqProperties
  <2>5. [Head1 EXCEPT !.end = t, !.text = SubSeq(Head1.text, 1, n)] \in Segment
    BY <2>1, <2>3, <2>4 DEF Segment
  <2>6. made' \in Seq(Segment) /\ dropped' \subseteq Segment
    BY <2>2, <2>5, PieceType, DroppedType
  <2>7. [Head1 EXCEPT !.start = t,
                      !.text = SubSeq(Head1.text, n + 1, Len(Head1.text))] \in Segment
    BY <2>1, <2>3, <2>4 DEF Segment
  <2>8. todo' \in Seq(Segment) /\ Len(todo') = Len(todo) /\ Len(todo) >= 1
    BY <2>1, <2>2, <2>7, ExceptSeq, HeadAndTail
  <2>9. todo' # <<>>
    BY <2>8
  <2> QED BY <1>14, <2>6, <2>8, <2>9 DEF Cut, aside, timeline
<1>15. CASE LastPiece
  <2>1. Head1 \in Segment /\ Tail(todo) \in Seq(Segment)
    BY <1>15, HeadAndTail DEF LastPiece, Head1
  <2>2. WithPiece(Head1) \in Seq(Segment) /\ WithDropped(Head1) \subseteq Segment
    BY <2>1, PieceType, DroppedType
  <2> QED BY <1>15, <2>1, <2>2 DEF LastPiece, aside, timeline
<1>16. ASSUME NEW length \in Lengths, Place(length)
       PROVE  Typed'
  <2> DEFINE pos == Later(script[Len(slots) + 1].start * Slow, cursor)
  <2>1. script[Len(slots) + 1] \in Segment
    BY <1>16 DEF Place
  <2>2. script[Len(slots) + 1].start * Slow \in Nat
    <3>1. script[Len(slots) + 1].start \in Nat /\ Slow \in Nat
      BY <2>1, LimitAssumption DEF Segment
    <3> QED BY <3>1
  <2>3. pos \in Nat /\ length \in Nat
    BY <2>2, LaterType, LengthAssumption
  <2>4. slots' = Append(slots, [start |-> pos, length |-> length]) /\ cursor' = pos + length
    BY <1>16 DEF Place
  <2> HIDE DEF pos
  <2>5. slots' \in Seq([start : Nat, length : Nat])
    BY <2>3, <2>4, AppendProperties
  <2> QED BY <1>16, <2>3, <2>4, <2>5 DEF Place, aside
<1>17. CASE Lay
  <2> DEFINE slot == slots[Len(dub) + 1]
             start == Later(slot.start, cursor)
  <2>1. slot \in [start : Nat, length : Nat]
    <3>1. Len(dub) + 1 \in 1..Len(slots)
      BY <1>17 DEF Lay
    <3> QED BY <3>1, ElementOfSeq
  <2>2. start \in Nat /\ slot.length \in Nat
    BY <2>1, LaterType
  <2>3. dub' = Append(dub, start) /\ cursor' = start + slot.length
    BY <1>17, Zenon DEF Lay
  <2> HIDE DEF slot, start
  <2>4. dub' \in Seq(Nat)
    BY <2>2, <2>3, AppendProperties
  <2>5. cursor' \in Nat
    BY <2>2, <2>3
  <2>6. UNCHANGED <<engine, chunks, dropped, phase, at, offset, todo, made, script, slots>>
    BY <1>17 DEF Lay, aside
  <2> QED BY <2>4, <2>5, <2>6
<1>18. CASE EndPlace \/ EndMux
  BY <1>18 DEF EndPlace, EndMux, aside, timeline
<1>19. CASE Done \/ UNCHANGED vars
  BY <1>19 DEF Done, vars
<1> QED
  BY <1>1, <1>2, <1>3, <1>4, <1>5, <1>6, <1>7, <1>8, <1>9, <1>10, <1>11, <1>12, <1>13,
     <1>14, <1>15, <1>16, <1>17, <1>18, <1>19
  DEF Next, Normalise, Sentences, Align

\* The variables keep their types.
THEOREM TypeCorrect == Spec => []TypeOK
<1>1. Typed => TypeOK
  BY DEF Typed
<1> QED BY <1>1, TypedInit, TypedStep, PTL DEF Spec

----------------------------------------------------------------------------
(* The chain of a chunk *)

\* The chain so far has ended at the anchor.
Chained ==
  phase = "chain" =>
    /\ \A i \in DOMAIN made : Duration(made[i]) \in 1..MaxDuration /\ made[i].end <= cursor
    /\ \A i, j \in DOMAIN made : i < j => made[i].end <= made[j].start

LEMMA ChainedStep == Typed /\ Chained /\ [Next]_vars => Chained'
<1> SUFFICES ASSUME Typed, Chained, [Next]_vars PROVE Chained'
  OBVIOUS
<1>1. CASE EndShort
  <2>1. made' = <<>>
    BY <1>1 DEF EndShort, Pass
  <2>2. DOMAIN made' = {}
    BY <2>1
  <2> QED BY <2>2 DEF Chained
<1>2. CASE Link
  <2> DEFINE start == Later(Head1.start, cursor)
             end == Earlier(Head1.end, start + MaxDuration)
             new == [Head1 EXCEPT !.start = start, !.end = end]
  <2>1. Head1 \in Segment
    BY <1>2, HeadAndTail DEF Link, Head1, Typed, TypeOK
  <2>2. Head1.start \in Nat /\ Head1.end \in Nat /\ cursor \in Nat
        /\ MaxDuration \in Nat \ {0}
    BY <2>1, LimitAssumption DEF Segment, Typed, TypeOK
  <2>3. start \in Nat /\ start >= cursor /\ Head1.end > start
    BY <1>2, <2>2, LaterType DEF Link
  <2>4. end \in Nat /\ end > start /\ end - start <= MaxDuration
    <3> HIDE DEF start
    <3> QED BY <2>2, <2>3 DEF Earlier
  <2>5. new.start = start /\ new.end = end /\ new \in Segment
    <3> HIDE DEF start, end
    <3> QED BY <2>1, <2>3, <2>4 DEF Segment
  <2>6. made' = Append(made, new) /\ cursor' = end /\ phase = "chain"
    BY <1>2 DEF Link
  <2> HIDE DEF start, end, new
  <2>7. made \in Seq(Segment) /\ Len(made) \in Nat
    BY DEF Typed, TypeOK
  <2>8. /\ DOMAIN made' = 1..(Len(made) + 1)
        /\ \A i \in 1..Len(made) : made'[i] = made[i]
        /\ made'[Len(made) + 1] = new
    BY <2>5, <2>6, <2>7, AppendProperties
  <2>9. \A i \in 1..Len(made) : /\ Duration(made[i]) \in 1..MaxDuration
                                /\ made[i].end <= cursor
                                /\ made[i].end \in Nat
    <3> TAKE i \in 1..Len(made)
    <3>1. made[i] \in Segment /\ i \in DOMAIN made
      BY <2>7
    <3>2. made[i].end \in Nat
      BY <3>1 DEF Segment
    <3> QED BY <2>6, <3>1, <3>2 DEF Chained
  <2>10. \A i \in DOMAIN made' : Duration(made'[i]) \in 1..MaxDuration /\ made'[i].end <= cursor'
    <3> TAKE i \in DOMAIN made'
    <3>1. CASE i \in 1..Len(made)
      BY <2>2, <2>3, <2>4, <2>6, <2>8, <2>9, <3>1
    <3>2. CASE i = Len(made) + 1
      BY <2>2, <2>3, <2>4, <2>5, <2>6, <2>8, <3>2 DEF Duration
    <3> QED BY <2>7, <2>8, <3>1, <3>2
  <2>11. \A i, j \in DOMAIN made' : i < j => made'[i].end <= made'[j].start
    <3> SUFFICES ASSUME NEW i \in DOMAIN made', NEW j \in DOMAIN made', i < j
                 PROVE  made'[i].end <= made'[j].start
      OBVIOUS
    <3>1. i \in 1..Len(made) /\ (j \in 1..Len(made) \/ j = Len(made) + 1)
      BY <2>7, <2>8
    <3>2. CASE j \in 1..Len(made)
      BY <2>6, <2>7, <2>8, <3>1, <3>2 DEF Chained
    <3>3. CASE j = Len(made) + 1
      BY <2>2, <2>3, <2>5, <2>8, <2>9, <3>1, <3>3
    <3> QED BY <3>1, <3>2, <3>3
  <2> QED BY <2>10, <2>11 DEF Chained
<1>3. CASE Fold
  <2> DEFINE new == [Last(made) EXCEPT !.text = Last(made).text \o Head1.text]
  <2>1. made' = [made EXCEPT ![Len(made)] = new] /\ cursor' = cursor /\ phase = "chain"
    BY <1>3 DEF Fold
  <2>2. made \in Seq(Segment) /\ Len(made) \in 1..Len(made)
    BY <1>3, LastOf DEF Fold, Typed, TypeOK
  <2>3. /\ new.start = made[Len(made)].start
        /\ new.end = made[Len(made)].end
    BY <2>2 DEF Last, Segment
  <2> HIDE DEF new
  <2>4. DOMAIN made' = DOMAIN made
    BY <2>1
  <2>5. \A i \in DOMAIN made : made'[i].start = made[i].start /\ made'[i].end = made[i].end
    BY <2>1, <2>3
  <2> QED BY <2>1, <2>4, <2>5 DEF Chained, Duration
<1>4. CASE Done \/ UNCHANGED vars
  BY <1>4 DEF Done, vars, Chained
<1>5. CASE \/ TakeChunk \/ TakeEarliest \/ EndSort \/ KeepHead \/ JoinNext \/ JoinBack
           \/ EndChunk \/ AllChunks \/ EndOrder
  <2>1. phase' # "chain"
    BY <1>5 DEF TakeChunk, TakeEarliest, EndSort, Pass, KeepHead, JoinNext, JoinBack,
                EndChunk, AllChunks, EndOrder
  <2> QED BY <2>1 DEF Chained
<1>6. CASE Sentences
  <2>1. phase' # "chain"
    BY <1>6 DEF Sentences, SkipBlank, Absorb, Open, EndMerge, Pass, KeepWhole, Cut,
                LastPiece, EndSplit
  <2> QED BY <2>1 DEF Chained
<1>7. CASE Align
  <2>1. phase' # "chain"
    BY <1>7 DEF Align, Place, EndPlace, Lay, EndMux
  <2> QED BY <2>1 DEF Chained
<1> QED BY <1>1, <1>2, <1>3, <1>4, <1>5, <1>6, <1>7 DEF Next, Normalise

\* The segments of a chunk, until they are linked: none is empty, and they are in the
\* order of their starts.
Long(q) == \A i \in DOMAIN q : q[i].start < q[i].end
Rising(q) == \A i, j \in DOMAIN q : i <= j => q[i].start <= q[j].start
Straight ==
  /\ phase = "chunk" => made = <<>>
  /\ phase = "sort" =>
       /\ Long(made) /\ Rising(made)
       /\ \A i \in DOMAIN made, j \in Candidates : made[i].start <= todo[j].start
  /\ phase = "short" =>
       /\ Long(made) /\ Long(todo) /\ Rising(todo)
       /\ \A i \in DOMAIN made, j \in DOMAIN todo : made[i].start <= todo[j].start
  /\ phase = "chain" /\ made = <<>> => Long(todo) /\ cursor = 0

\* The earliest usable segment follows those that were earlier.
LEMMA StraightSort ==
  ASSUME Typed, Straight, TakeEarliest
  PROVE  Straight'
<1>0. CASE phase = "order"
  BY <1>0 DEF TakeEarliest, Straight
<1>1. CASE phase = "sort"
  <2>1. PICK i \in Candidates :
          /\ \A j \in Candidates : todo[i].start <= todo[j].start
          /\ made' = Append(made, todo[i]) /\ todo' = RemoveAt(todo, i)
    <3>1. PICK i \in Candidates :
            /\ \A j \in Candidates : \/ todo[i].start < todo[j].start
                                     \/ todo[i].start = todo[j].start /\ i <= j
            /\ made' = Append(made, todo[i]) /\ todo' = RemoveAt(todo, i)
      BY DEF TakeEarliest
    <3>2. \A j \in Candidates : todo[j].start \in Nat
      <4>1. todo \in Seq(Segment) /\ Candidates \subseteq DOMAIN todo
        BY DEF Candidates, Typed, TypeOK
      <4> QED BY <4>1, TimesOf
    <3>3. \A j \in Candidates : todo[i].start <= todo[j].start
      BY <3>1, <3>2
    <3> QED BY <3>1, <3>3
  <2>2. i \in DOMAIN todo /\ todo[i] \in Segment /\ todo[i].end > todo[i].start
    BY <1>1 DEF Candidates, Usable, Typed, TypeOK
  <2>3. /\ made \in Seq(Segment) /\ Len(made) \in Nat /\ DOMAIN made = 1..Len(made)
        /\ todo \in Seq(Segment) /\ Len(todo) \in Nat /\ DOMAIN todo = 1..Len(todo)
    BY DEF Typed, TypeOK
  <2>4. /\ DOMAIN made' = 1..(Len(made) + 1)
        /\ \A k \in 1..Len(made) : made'[k] = made[k]
        /\ made'[Len(made) + 1] = todo[i]
    BY <2>1, <2>2, <2>3, AppendProperties
  <2>5. \A j \in Candidates' : \E k \in Candidates : todo'[j] = todo[k]
    <3> SUFFICES ASSUME NEW j \in Candidates' PROVE \E k \in Candidates : todo'[j] = todo[k]
      OBVIOUS
    <3>1. phase' = "sort" /\ j \in DOMAIN todo' /\ Usable(todo'[j])
      BY <1>1 DEF TakeEarliest, Candidates
    <3>2. /\ DOMAIN todo' = 1..(Len(todo) - 1)
          /\ todo'[j] = IF j < i THEN todo[j] ELSE todo[j + 1]
      BY <2>1, <2>2, <2>3, <3>1, RemovedAt
    <3>3. PICK k \in DOMAIN todo : todo'[j] = todo[k]
      BY <2>3, <3>1, <3>2
    <3>4. k \in Candidates
      BY <3>1, <3>3 DEF Candidates
    <3> QED BY <3>3, <3>4
  <2>6. \A k \in 1..Len(made) : made[k].start < made[k].end /\ made[k].start <= todo[i].start
    BY <1>1, <2>3 DEF Straight, Long
  <2>7. \A k, l \in 1..Len(made) : k <= l => made[k].start <= made[l].start
    BY <1>1, <2>3 DEF Straight, Rising
  <2>8. Long(made')
    BY <2>2, <2>4, <2>6 DEF Long
  <2>9. Rising(made')
    <3> SUFFICES ASSUME NEW k \in 1..(Len(made) + 1), NEW l \in 1..(Len(made) + 1), k <= l
                 PROVE  made'[k].start <= made'[l].start
      BY <2>4 DEF Rising
    <3>1. todo[i].start \in Nat
      BY <2>2 DEF Segment
    <3>2. CASE l <= Len(made)
      BY <2>3, <2>4, <2>7, <3>2
    <3>3. CASE l = Len(made) + 1 /\ k <= Len(made)
      BY <2>3, <2>4, <2>6, <3>3
    <3>4. CASE k = Len(made) + 1
      BY <2>3, <2>4, <3>1, <3>4
    <3> QED BY <2>3, <3>2, <3>3, <3>4
  <2>10. ASSUME NEW k \in DOMAIN made', NEW j \in Candidates'
         PROVE  made'[k].start <= todo'[j].start
    <3>1. PICK m \in Candidates : todo'[j] = todo[m]
      BY <2>5
    <3>2. CASE k <= Len(made)
      <4>1. k \in DOMAIN made /\ made'[k] = made[k]
        BY <2>3, <2>4, <3>2
      <4> QED BY <1>1, <3>1, <4>1 DEF Straight
    <3>3. CASE k = Len(made) + 1
      BY <2>1, <2>4, <3>1, <3>3
    <3> QED BY <2>3, <2>4, <3>2, <3>3
  <2>11. phase' = "sort"
    BY <1>1 DEF TakeEarliest
  <2> QED BY <2>8, <2>9, <2>10, <2>11 DEF Straight
<1> QED BY <1>0, <1>1 DEF TakeEarliest

\* Joining keeps the earlier start, and its end is later than that.
LEMMA StraightShort ==
  ASSUME Typed, Straight, KeepHead \/ JoinNext \/ JoinBack
  PROVE  Straight'
<1>0. /\ phase = "short" /\ phase' = "short"
      /\ made \in Seq(Segment) /\ Len(made) \in Nat /\ DOMAIN made = 1..Len(made)
      /\ todo \in Seq(Segment) /\ Len(todo) \in Nat /\ DOMAIN todo = 1..Len(todo)
      /\ \A i \in DOMAIN made : made[i] \in Segment /\ made[i].start \in Nat /\ made[i].end \in Nat
      /\ \A i \in DOMAIN todo : todo[i] \in Segment /\ todo[i].start \in Nat /\ todo[i].end \in Nat
  <2>1. phase = "short" /\ phase' = "short"
    BY DEF KeepHead, JoinNext, JoinBack
  <2>2. made \in Seq(Segment) /\ todo \in Seq(Segment)
    BY DEF Typed, TypeOK
  <2>3. /\ \A i \in DOMAIN made : made[i] \in Segment /\ made[i].start \in Nat /\ made[i].end \in Nat
        /\ \A i \in DOMAIN todo : todo[i] \in Segment /\ todo[i].start \in Nat /\ todo[i].end \in Nat
    BY <2>2, TimesOf
  <2>4. /\ Len(made) \in Nat /\ DOMAIN made = 1..Len(made)
        /\ Len(todo) \in Nat /\ DOMAIN todo = 1..Len(todo)
    BY <2>2
  <2> QED BY <2>1, <2>2, <2>3, <2>4
<1>1. /\ Long(made) /\ Long(todo) /\ Rising(todo)
      /\ \A i \in DOMAIN made, j \in DOMAIN todo : made[i].start <= todo[j].start
  BY <1>0 DEF Straight
<1>2. todo # <<>> /\ Len(todo) >= 1 /\ 1 \in DOMAIN todo
  <2>1. CASE KeepHead
    BY <1>0, <2>1 DEF KeepHead
  <2>2. CASE JoinNext \/ JoinBack
    BY <1>0, <2>2 DEF JoinNext, JoinBack
  <2> QED BY <2>1, <2>2
<1>3. /\ Tail(todo) \in Seq(Segment) /\ DOMAIN Tail(todo) = 1..(Len(todo) - 1)
      /\ \A j \in 1..(Len(todo) - 1) : Tail(todo)[j] = todo[j + 1]
  BY <1>0, <1>2, HeadTailProperties
<1>4. CASE KeepHead
  <2>1. made' = Append(made, todo[1]) /\ todo' = Tail(todo)
    BY <1>4 DEF KeepHead, Head1
  <2>2. /\ DOMAIN made' = 1..(Len(made) + 1)
        /\ \A k \in 1..Len(made) : made'[k] = made[k]
        /\ made'[Len(made) + 1] = todo[1]
    BY <1>0, <1>2, <2>1, AppendProperties
  <2>3. Long(made') /\ Long(todo') /\ Rising(todo')
    BY <1>0, <1>1, <1>2, <1>3, <2>1, <2>2 DEF Long, Rising
  <2>4. ASSUME NEW k \in DOMAIN made', NEW j \in DOMAIN todo'
        PROVE  made'[k].start <= todo'[j].start
    <3>1. todo'[j] = todo[j + 1] /\ j + 1 \in DOMAIN todo /\ 1 <= j + 1
      BY <1>0, <1>3, <2>1
    <3>2. CASE k <= Len(made)
      BY <1>0, <1>1, <2>2, <3>1, <3>2
    <3>3. CASE k = Len(made) + 1
      BY <1>1, <1>2, <2>2, <3>1, <3>3 DEF Rising
    <3> QED BY <1>0, <2>2, <3>2, <3>3
  <2> QED BY <1>0, <2>3, <2>4 DEF Straight
<1>5. CASE JoinNext
  <2>1. Len(todo) > 1 /\ made' = made
    BY <1>5 DEF JoinNext
  <2> DEFINE new == Joined(todo[1], Tail(todo)[1])
  <2>2. todo' = [Tail(todo) EXCEPT ![1] = new]
    BY <1>5 DEF JoinNext, Head1
  <2>3. 2 \in DOMAIN todo /\ 1 \in 1..(Len(todo) - 1) /\ Tail(todo)[1] = todo[2]
    BY <1>0, <1>3, <2>1
  <2>4. new.start = todo[1].start /\ new.end = todo[2].end
    BY <2>3 DEF Joined
  <2> HIDE DEF new
  <2>5. /\ DOMAIN todo' = 1..(Len(todo) - 1) /\ todo'[1] = new
        /\ \A j \in 2..(Len(todo) - 1) : todo'[j] = todo[j + 1]
    <3> DEFINE r == Tail(todo)
    <3>1. /\ DOMAIN r = 1..(Len(todo) - 1) /\ 1 \in DOMAIN r
          /\ \A j \in 1..(Len(todo) - 1) : r[j] = todo[j + 1]
      BY <1>3, <2>3
    <3>2. todo' = [r EXCEPT ![1] = new]
      BY <2>2
    <3> HIDE DEF r
    <3>3. DOMAIN todo' = DOMAIN r /\ todo'[1] = new
      BY <3>1, <3>2
    <3>4. \A j \in 2..(Len(todo) - 1) : j \in 1..(Len(todo) - 1) /\ j # 1
      BY <1>0
    <3>5. \A j \in 2..(Len(todo) - 1) : todo'[j] = r[j]
      BY <3>1, <3>2, <3>4
    <3> QED BY <3>1, <3>3, <3>4, <3>5
  <2>6. todo[1].start <= todo[2].start /\ todo[2].start < todo[2].end
    BY <1>1, <1>2, <2>3 DEF Long, Rising
  <2>7. Long(todo')
    <3> SUFFICES ASSUME NEW j \in 1..(Len(todo) - 1) PROVE todo'[j].start < todo'[j].end
      BY <2>5 DEF Long
    <3>1. CASE j = 1
      BY <1>0, <1>2, <2>3, <2>4, <2>5, <2>6, <3>1
    <3>2. CASE j # 1
      BY <1>0, <1>1, <2>5, <3>2 DEF Long
    <3> QED BY <3>1, <3>2
  <2>8. \A j \in 1..(Len(todo) - 1) : \E m \in DOMAIN todo :
          /\ todo'[j].start = todo[m].start
          /\ (j = 1 => m = 1) /\ (j # 1 => m = j + 1)
    <3> TAKE j \in 1..(Len(todo) - 1)
    <3>1. CASE j = 1
      <4> WITNESS 1 \in DOMAIN todo
      <4> QED BY <2>4, <2>5, <3>1
    <3>2. CASE j # 1
      <4>1. j + 1 \in DOMAIN todo /\ j \in 2..(Len(todo) - 1)
        BY <1>0, <3>2
      <4> WITNESS j + 1 \in DOMAIN todo
      <4> QED BY <2>5, <3>2, <4>1
    <3> QED BY <3>1, <3>2
  <2>9. Rising(todo')
    <3> SUFFICES ASSUME NEW j \in 1..(Len(todo) - 1), NEW l \in 1..(Len(todo) - 1), j <= l
                 PROVE  todo'[j].start <= todo'[l].start
      BY <2>5 DEF Rising
    <3>1. PICK m \in DOMAIN todo : todo'[j].start = todo[m].start
                                   /\ (j = 1 => m = 1) /\ (j # 1 => m = j + 1)
      BY <2>8
    <3>2. PICK n \in DOMAIN todo : todo'[l].start = todo[n].start
                                   /\ (l = 1 => n = 1) /\ (l # 1 => n = l + 1)
      BY <2>8
    <3>3. m <= n
      BY <1>0, <3>1, <3>2
    <3> QED BY <1>1, <3>1, <3>2, <3>3 DEF Rising
  <2>10. \A k \in DOMAIN made', j \in DOMAIN todo' : made'[k].start <= todo'[j].start
    BY <1>1, <2>1, <2>5, <2>8
  <2> QED BY <1>0, <1>1, <2>1, <2>7, <2>9, <2>10 DEF Straight
<1>6. CASE JoinBack
  <2> DEFINE n == Len(made)
             new == Joined(made[n], todo[1])
  <2>1. made # <<>> /\ todo' = <<>> /\ made' = [made EXCEPT ![n] = new]
    BY <1>6 DEF JoinBack, Head1
  <2>2. n \in DOMAIN made
    BY <1>0, <2>1, LastOf
  <2>3. new.start = made[n].start /\ new.end = todo[1].end
    BY DEF Joined
  <2>4. new.start < new.end
    BY <1>0, <1>1, <1>2, <2>2, <2>3 DEF Long
  <2> HIDE DEF new, n
  <2>5. DOMAIN made' = DOMAIN made /\ \A k \in DOMAIN made : made'[k] = IF k = n THEN new ELSE made[k]
    BY <1>0, <2>1, <2>2
  <2>6. Long(made')
    BY <1>1, <2>4, <2>5 DEF Long
  <2>7. DOMAIN todo' = {}
    BY <2>1
  <2> QED BY <1>0, <2>6, <2>7 DEF Straight, Long, Rising
<1> QED BY <1>4, <1>5, <1>6

LEMMA StraightStep == Typed /\ Straight /\ [Next]_vars => Straight'
<1> SUFFICES ASSUME Typed, Straight, [Next]_vars PROVE Straight'
  OBVIOUS
<1>0. DOMAIN <<>> = {}
  OBVIOUS
<1>1. CASE TakeChunk
  <2>1. phase' \in {"sort", "merge"} /\ made' = <<>>
    BY <1>1 DEF TakeChunk, Straight
  <2> QED BY <1>0, <2>1 DEF Straight, Long, Rising
<1>2. CASE EndSort
  <2>1. phase' = "short" /\ todo' = made /\ made' = <<>> /\ Long(made) /\ Rising(made)
    BY <1>2 DEF EndSort, Pass, Straight
  <2> QED BY <1>0, <2>1 DEF Straight, Long, Rising
<1>3. CASE EndShort
  <2>1. phase' = "chain" /\ todo' = made /\ cursor' = 0 /\ Long(made)
    BY <1>3 DEF EndShort, Pass, Straight
  <2> QED BY <2>1 DEF Straight, Long
<1>4. CASE Link
  <2>1. phase' = "chain" /\ made \in Seq(Segment) /\ Len(made) \in Nat
    BY <1>4 DEF Link, Typed, TypeOK
  <2>2. made' # <<>>
    BY <1>4, <2>1 DEF Link
  <2> QED BY <2>1, <2>2 DEF Straight
<1>5. CASE Fold
  <2>1. phase' = "chain" /\ made \in Seq(Segment) /\ made # <<>>
    BY <1>5 DEF Fold, Typed, TypeOK
  <2>2. DOMAIN made' = DOMAIN made /\ DOMAIN made # {}
    <3>1. made' = [made EXCEPT ![Len(made)] = [Last(made) EXCEPT !.text = @ \o Head1.text]]
      BY <1>5 DEF Fold
    <3>2. DOMAIN made' = DOMAIN made
      BY <3>1
    <3>3. Len(made) \in DOMAIN made
      BY <2>1, LastOf
    <3> QED BY <3>2, <3>3
  <2>3. made' # <<>>
    BY <1>0, <2>2
  <2> QED BY <2>1, <2>3 DEF Straight
<1>6. CASE EndChunk
  BY <1>6 DEF EndChunk, Straight
<1>7. CASE AllChunks \/ EndOrder \/ Sentences \/ Align
  <2>1. phase' \notin {"chunk", "sort", "short", "chain"}
    BY <1>7 DEF AllChunks, EndOrder, Sentences, SkipBlank, Absorb, Open, EndMerge, Pass,
                KeepWhole, Cut, LastPiece, EndSplit, Align, Place, EndPlace, Lay, EndMux
  <2> QED BY <2>1 DEF Straight
<1>8. CASE Done \/ UNCHANGED vars
  BY <1>8 DEF Done, vars, Straight, Candidates
<1> QED BY <1>1, <1>2, <1>3, <1>4, <1>5, <1>6, <1>7, <1>8, StraightSort, StraightShort
        DEF Next, Normalise

\* normalize_segments makes one chain of every chunk, and never clamps its first segment.
THEOREM ChunkIsSequential == Spec => []SequentialChunk
<1>1. Init => Chained /\ Straight
  BY DEF Init, Chained, Straight
<1>2. Typed /\ Chained /\ Straight => SequentialChunk
  <2> SUFFICES ASSUME Typed, Straight, phase = "chain", made = <<>>, todo # <<>>
               PROVE  Head1.end > Later(Head1.start, cursor)
    BY DEF Chained, SequentialChunk
  <2>1. 1 \in DOMAIN todo /\ todo[1].start \in Nat /\ todo[1].end \in Nat
    <3>1. todo \in Seq(Segment)
      BY DEF Typed, TypeOK
    <3>2. 1 \in DOMAIN todo
      BY <3>1, HeadAndTail
    <3> QED BY <3>1, <3>2, TimesOf
  <2>2. todo[1].start < todo[1].end /\ cursor = 0
    BY <2>1 DEF Straight, Long
  <2> QED BY <2>1, <2>2 DEF Head1, Later
<1> QED BY <1>1, <1>2, TypedInit, TypedStep, ChainedStep, StraightStep, PTL DEF Spec

----------------------------------------------------------------------------
(* The clips *)

\* Where a clip ends on the output clock.
EndOf(slot) == slot.start + slot.length

\* Nothing is placed before its time; the first cursor is past every slot, the second
\* exactly at the end of the last clip laid.
Laid ==
  /\ phase \notin {"place", "mux", "done"} => slots = <<>>
  /\ phase \notin {"mux", "done"} => dub = <<>>
  /\ phase = "place" => \A i \in DOMAIN slots : EndOf(slots[i]) <= cursor
  /\ phase = "mux" => /\ Len(dub) <= Len(slots)
                      /\ dub = <<>> => cursor = 0
                      /\ dub # <<>> => cursor = EndOf(slots[Len(dub)])
  /\ NoDrift

LEMMA LaidStep == Typed /\ Laid /\ [Next]_vars => Laid'
<1> SUFFICES ASSUME Typed, Laid, [Next]_vars PROVE Laid'
  OBVIOUS
<1>0. /\ slots \in Seq([start : Nat, length : Nat]) /\ Len(slots) \in Nat
      /\ DOMAIN slots = 1..Len(slots)
      /\ dub \in Seq(Nat) /\ Len(dub) \in Nat /\ DOMAIN dub = 1..Len(dub)
      /\ cursor \in Nat
  BY DEF Typed, TypeOK
<1>1. ASSUME NEW length \in Lengths, Place(length)
      PROVE  Laid'
  <2> DEFINE pos == Later(script[Len(slots) + 1].start * Slow, cursor)
             new == [start |-> pos, length |-> length]
  <2>1. script[Len(slots) + 1] \in Segment
    BY <1>1 DEF Place, Typed, TypeOK
  <2>2. script[Len(slots) + 1].start * Slow \in Nat
    <3>1. script[Len(slots) + 1].start \in Nat /\ Slow \in Nat
      BY <2>1, LimitAssumption DEF Segment
    <3> QED BY <3>1
  <2>3. pos \in Nat /\ pos >= cursor /\ length \in Nat
    BY <1>0, <2>2, LaterType, LengthAssumption
  <2>4. /\ slots' = Append(slots, new) /\ cursor' = pos + length
        /\ phase = "place" /\ phase' = "place" /\ dub' = dub
    BY <1>1 DEF Place
  <2> HIDE DEF pos
  <2>5. /\ DOMAIN slots' = 1..(Len(slots) + 1)
        /\ \A i \in 1..Len(slots) : slots'[i] = slots[i]
        /\ slots'[Len(slots) + 1] = new
    BY <1>0, <2>3, <2>4, AppendProperties
  <2>6. new.start = pos /\ EndOf(new) = pos + length
    BY DEF EndOf
  <2> HIDE DEF new
  <2>7. \A i \in 1..Len(slots) : EndOf(slots[i]) \in Nat /\ EndOf(slots[i]) <= cursor
    <3> TAKE i \in 1..Len(slots)
    <3>1. slots[i] \in [start : Nat, length : Nat] /\ i \in DOMAIN slots
      BY <1>0, ElementOfSeq
    <3>2. EndOf(slots[i]) \in Nat
      BY <3>1 DEF EndOf
    <3> QED BY <2>4, <3>1, <3>2 DEF Laid
  <2>8. \A i \in DOMAIN slots' : EndOf(slots'[i]) <= cursor'
    <3> TAKE i \in DOMAIN slots'
    <3>1. CASE i \in 1..Len(slots)
      BY <1>0, <2>3, <2>4, <2>5, <2>7, <3>1
    <3>2. CASE i = Len(slots) + 1
      BY <2>3, <2>4, <2>5, <2>6, <3>2
    <3> QED BY <1>0, <2>5, <3>1, <3>2
  <2>9. \A i, j \in DOMAIN slots' : i < j => EndOf(slots'[i]) <= slots'[j].start
    <3> SUFFICES ASSUME NEW i \in DOMAIN slots', NEW j \in DOMAIN slots', i < j
                 PROVE  EndOf(slots'[i]) <= slots'[j].start
      OBVIOUS
    <3>1. i \in 1..Len(slots) /\ (j \in 1..Len(slots) \/ j = Len(slots) + 1)
      BY <1>0, <2>5
    <3>2. CASE j \in 1..Len(slots)
      BY <1>0, <2>5, <3>1, <3>2 DEF Laid, NoDrift, EndOf
    <3>3. CASE j = Len(slots) + 1
      BY <1>0, <2>3, <2>5, <2>6, <2>7, <3>1, <3>3
    <3> QED BY <3>1, <3>2, <3>3
  <2>10. dub' = <<>> /\ DOMAIN dub' = {}
    BY <2>4 DEF Laid
  <2> QED BY <2>4, <2>8, <2>9, <2>10 DEF Laid, NoDrift, EndOf
<1>2. CASE Lay
  <2> DEFINE n == Len(dub) + 1
             start == Later(slots[n].start, cursor)
  <2>1. n \in 1..Len(slots) /\ phase = "mux" /\ phase' = "mux" /\ slots' = slots
    BY <1>0, <1>2 DEF Lay
  <2>2. slots[n] \in [start : Nat, length : Nat]
    BY <1>0, <2>1, ElementOfSeq
  <2>3. cursor <= slots[n].start
    <3>1. CASE dub = <<>>
      BY <2>1, <2>2, <3>1 DEF Laid
    <3>2. CASE dub # <<>>
      <4>1. Len(dub) \in 1..Len(slots) /\ Len(dub) < n
        BY <1>0, <2>1, <3>2, EmptySeq
      <4>2. EndOf(slots[Len(dub)]) <= slots[n].start
        BY <1>0, <2>1, <4>1 DEF Laid, NoDrift, EndOf
      <4> QED BY <2>1, <3>2, <4>2 DEF Laid
    <3> QED BY <3>1, <3>2
  <2>4. start = slots[n].start
    BY <1>0, <2>2, <2>3 DEF Later
  <2>5. dub' = Append(dub, start) /\ cursor' = start + slots[n].length
    BY <1>2, Zenon DEF Lay
  <2>6. start \in Nat
    BY <2>2, <2>4
  <2> HIDE DEF start
  <2>7. /\ DOMAIN dub' = 1..n /\ Len(dub') = n /\ dub' # <<>>
        /\ \A i \in 1..Len(dub) : dub'[i] = dub[i]
        /\ dub'[n] = start
    BY <1>0, <2>5, <2>6, AppendProperties
  <2>8. \A i \in DOMAIN dub' : dub'[i] = slots'[i].start
    <3> TAKE i \in DOMAIN dub'
    <3>1. CASE i \in 1..Len(dub)
      <4>1. dub[i] = slots[i].start
        BY <1>0, <3>1 DEF Laid, NoDrift
      <4> QED BY <2>1, <2>7, <3>1, <4>1
    <3>2. CASE i = n
      BY <2>1, <2>4, <2>7, <3>2
    <3> QED BY <1>0, <2>7, <3>1, <3>2
  <2>9. cursor' = EndOf(slots'[Len(dub')])
    BY <2>1, <2>4, <2>5, <2>7 DEF EndOf
  <2>10. \A i, j \in DOMAIN slots' : i < j => slots'[i].start + slots'[i].length <= slots'[j].start
    BY <2>1 DEF Laid, NoDrift
  <2> QED BY <2>1, <2>7, <2>8, <2>9, <2>10 DEF Laid, NoDrift
<1>3. CASE EndPlace
  <2>1. /\ phase = "place" /\ phase' \in {"mux", "done"} /\ cursor' = 0
        /\ slots' = slots /\ dub' = dub
    BY <1>3 DEF EndPlace, timeline
  <2>2. dub = <<>> /\ Len(dub) = 0
    BY <2>1 DEF Laid
  <2> QED BY <1>0, <2>1, <2>2 DEF Laid, NoDrift
<1>4. CASE EndMux
  BY <1>4 DEF EndMux, timeline, Laid, NoDrift
<1>5. CASE Done \/ UNCHANGED vars
  BY <1>5 DEF Done, vars, Laid, NoDrift
<1>6. CASE TakeChunk \/ Normalise \/ Sentences
  <2>1. phase \notin {"place", "mux", "done"} /\ phase' \notin {"mux", "done"} /\ UNCHANGED timeline
    <3>1. CASE TakeChunk
      BY <3>1 DEF TakeChunk
    <3>2. CASE Normalise
      BY <3>2 DEF Normalise, TakeEarliest, EndSort, Pass, KeepHead, JoinNext, JoinBack, EndShort,
                  Link, Fold, EndChunk, AllChunks, EndOrder
    <3>3. CASE Sentences
      BY <3>3 DEF Sentences, SkipBlank, Absorb, Open, EndMerge, Pass, KeepWhole, Cut,
                  LastPiece, EndSplit
    <3> QED BY <1>6, <3>1, <3>2, <3>3
  <2>2. slots' = <<>> /\ dub' = <<>> /\ DOMAIN slots' = {} /\ DOMAIN dub' = {}
    BY <2>1 DEF Laid, timeline
  <2> QED BY <2>1, <2>2 DEF Laid, NoDrift
<1> QED BY <1>1, <1>2, <1>3, <1>4, <1>5, <1>6 DEF Next, Align

\* The clips do not overlap, and the dub has each where its subtitle is.
THEOREM DubHasNoDrift == Spec => []NoDrift
<1>1. Init => Laid
  BY DEF Init, Laid, NoDrift
<1>2. Laid => NoDrift
  BY DEF Laid
<1> QED BY <1>1, <1>2, TypedInit, TypedStep, LaidStep, PTL DEF Spec
----------------------------------------------------------------------------
(* Where sentences are *)

\* What a text says, and that it says nothing twice.
Parts(t) == {t[n] : n \in DOMAIN t}
Plain(t) == \A m, n \in DOMAIN t : t[m] = t[n] => m = n

\* What segments say, and that they say nothing twice.
Marks(s) == Parts(s.text)
Said(q) == UNION {Marks(q[i]) : i \in DOMAIN q}
Once(q) ==
  /\ \A i \in DOMAIN q : Plain(q[i].text)
  /\ \A i, j \in DOMAIN q : i # j => Marks(q[i]) \cap Marks(q[j]) = {}

LEMMA NothingSaid == Said(<<>>) = {} /\ Once(<<>>)
  BY DEF Said, Once

\* Two texts become one.
LEMMA ConcatParts ==
  ASSUME NEW t \in Seq(Texts), NEW u \in Seq(Texts)
  PROVE  /\ Parts(t \o u) = Parts(t) \cup Parts(u)
         /\ Plain(t) /\ Plain(u) /\ Parts(t) \cap Parts(u) = {} => Plain(t \o u)
<1> DEFINE v == t \o u
           k == Len(t)
<1>1. /\ k \in Nat /\ DOMAIN t = 1..k
      /\ Len(u) \in Nat /\ DOMAIN u = 1..Len(u)
  OBVIOUS
<1>2. /\ DOMAIN v = 1..(k + Len(u))
      /\ \A i \in 1..k : v[i] = t[i]
      /\ \A i \in 1..Len(u) : v[k + i] = u[i]
  <2>1. v \in Seq(Texts) /\ Len(v) = k + Len(u)
    BY ConcatProperties
  <2>2. \A i \in 1..(k + Len(u)) : v[i] = IF i <= k THEN t[i] ELSE u[i - k]
    BY ConcatProperties
  <2> HIDE DEF v, k
  <2>3. ASSUME NEW i \in 1..Len(u) PROVE v[k + i] = u[i]
    <3>1. k + i \in 1..(k + Len(u)) /\ ~(k + i <= k) /\ (k + i) - k = i
      BY <1>1
    <3> QED BY <2>2, <3>1
  <2> QED BY <1>1, <2>1, <2>2, <2>3
<1> HIDE DEF v, k
<1>3. \A i \in DOMAIN v : i \in 1..k \/ \E j \in 1..Len(u) : i = k + j
  <2> TAKE i \in DOMAIN v
  <2>1. CASE i > k
    <3>1. i - k \in 1..Len(u) /\ i = k + (i - k)
      BY <1>1, <1>2, <2>1
    <3> QED BY <3>1
  <2> QED BY <1>1, <1>2, <2>1
<1>4. Parts(v) = Parts(t) \cup Parts(u)
  <2>1. ASSUME NEW i \in DOMAIN v PROVE v[i] \in Parts(t) \cup Parts(u)
    <3>1. CASE i \in 1..k
      BY <1>1, <1>2, <3>1 DEF Parts
    <3>2. ASSUME NEW j \in 1..Len(u), i = k + j PROVE v[i] \in Parts(u)
      BY <1>1, <1>2, <3>2 DEF Parts
    <3> QED BY <1>3, <3>1, <3>2
  <2>2. Parts(t) \subseteq Parts(v)
    BY <1>1, <1>2 DEF Parts
  <2>3. Parts(u) \subseteq Parts(v)
    <3>1. \A i \in 1..Len(u) : k + i \in DOMAIN v
      BY <1>1, <1>2
    <3> QED BY <1>1, <1>2, <3>1 DEF Parts
  <2>4. Parts(v) \subseteq Parts(t) \cup Parts(u)
    BY <2>1 DEF Parts
  <2> QED BY <2>2, <2>3, <2>4
<1>5. ASSUME Plain(t), Plain(u), Parts(t) \cap Parts(u) = {},
             NEW m \in DOMAIN v, NEW n \in DOMAIN v, v[m] = v[n]
      PROVE  m = n
  <2>1. \A i \in 1..k : v[i] \in Parts(t)
    BY <1>1, <1>2 DEF Parts
  <2>2. \A i \in 1..Len(u) : v[k + i] \in Parts(u)
    BY <1>1, <1>2 DEF Parts
  <2>3. CASE m \in 1..k /\ n \in 1..k
    BY <1>1, <1>2, <1>5, <2>3 DEF Plain
  <2>4. ASSUME NEW i \in 1..Len(u), NEW j \in 1..Len(u), m = k + i, n = k + j PROVE m = n
    <3>1. u[i] = u[j]
      BY <1>2, <1>5, <2>4
    <3>2. i = j
      BY <1>1, <1>5, <3>1 DEF Plain
    <3> QED BY <2>4, <3>2
  <2> QED BY <1>3, <1>5, <2>1, <2>2, <2>3, <2>4
<1> QED BY <1>4, <1>5 DEF Plain, v

\* One becomes two.
LEMMA SplitParts ==
  ASSUME NEW t \in Seq(Texts), NEW n \in 1..(Len(t) - 1), Plain(t)
  PROVE  LET a == SubSeq(t, 1, n)
             b == SubSeq(t, n + 1, Len(t))
         IN /\ a \in Seq(Texts) /\ b \in Seq(Texts) /\ Plain(a) /\ Plain(b)
            /\ Parts(a) \cap Parts(b) = {}
            /\ Parts(a) \cup Parts(b) = Parts(t)
<1> DEFINE a == SubSeq(t, 1, n)
           b == SubSeq(t, n + 1, Len(t))
<1>1. Len(t) \in Nat /\ DOMAIN t = 1..Len(t) /\ n \in Nat /\ n < Len(t)
  OBVIOUS
<1>2. a \in Seq(Texts) /\ DOMAIN a = 1..n /\ \A i \in 1..n : a[i] = t[i]
  <2>1. \A i \in 1..n : t[i] \in Texts
    BY <1>1
  <2>2. a \in Seq(Texts) /\ Len(a) = n
    BY <1>1, <2>1, SubSeqProperties
  <2>3. \A i \in 1..(n - 1 + 1) : a[i] = t[1 + i - 1]
    BY <1>1, <2>1, SubSeqProperties
  <2> HIDE DEF a
  <2> QED BY <1>1, <2>2, <2>3
<1>3. /\ b \in Seq(Texts) /\ DOMAIN b = 1..(Len(t) - n)
      /\ \A i \in 1..(Len(t) - n) : b[i] = t[n + i]
  <2>1. \A i \in (n + 1)..Len(t) : t[i] \in Texts
    BY <1>1
  <2>2. b \in Seq(Texts) /\ Len(b) = Len(t) - n
    BY <1>1, <2>1, SubSeqProperties
  <2>3. \A i \in 1..(Len(t) - (n + 1) + 1) : b[i] = t[(n + 1) + i - 1]
    BY <1>1, <2>1, SubSeqProperties
  <2> HIDE DEF b
  <2>4. ASSUME NEW i \in 1..(Len(t) - n) PROVE b[i] = t[n + i]
    <3>1. i \in 1..(Len(t) - (n + 1) + 1) /\ (n + 1) + i - 1 = n + i
      BY <1>1
    <3> QED BY <2>3, <3>1
  <2> QED BY <1>1, <2>2, <2>4
<1> HIDE DEF a, b
<1>4. \A i \in 1..(Len(t) - n) : n + i \in DOMAIN t
  BY <1>1
<1>5. \A i \in 1..n : i \in DOMAIN t
  BY <1>1
<1>6. Plain(a)
  BY <1>2, <1>5 DEF Plain
<1>7. Plain(b)
  <2> SUFFICES ASSUME NEW i \in 1..(Len(t) - n), NEW j \in 1..(Len(t) - n), b[i] = b[j]
               PROVE  i = j
    BY <1>3 DEF Plain
  <2>1. t[n + i] = t[n + j]
    BY <1>3
  <2>2. n + i = n + j
    BY <1>4, <2>1 DEF Plain
  <2> QED BY <1>1, <2>2
<1>8. Parts(a) \subseteq Parts(t) /\ Parts(b) \subseteq Parts(t)
  BY <1>2, <1>3, <1>4, <1>5 DEF Parts
<1>8a. Parts(t) \subseteq Parts(a) \cup Parts(b)
  <2> SUFFICES ASSUME NEW i \in DOMAIN t PROVE t[i] \in Parts(a) \cup Parts(b)
    BY DEF Parts
  <2>1. CASE i \in 1..n
    BY <1>2, <2>1 DEF Parts
  <2>2. CASE i > n
    <3>1. i - n \in 1..(Len(t) - n) /\ n + (i - n) = i
      BY <1>1, <2>2
    <3>2. b[i - n] = t[i]
      BY <1>3, <3>1
    <3> QED BY <1>3, <3>1, <3>2 DEF Parts
  <2> QED BY <1>1, <2>1, <2>2
<1>9. ASSUME NEW i \in 1..n, NEW j \in 1..(Len(t) - n) PROVE a[i] # b[j]
  <2>1. i # n + j
    BY <1>1
  <2> QED BY <1>2, <1>3, <1>4, <1>5, <2>1 DEF Plain
<1>10. Parts(a) \cap Parts(b) = {}
  BY <1>2, <1>3, <1>9 DEF Parts
<1> QED BY <1>2, <1>3, <1>6, <1>7, <1>8, <1>8a, <1>10 DEF a, b

\* The segments of r are those of q, or some of them.
LEMMA SomeOf ==
  ASSUME NEW q, NEW r, Once(q), NEW f \in [DOMAIN r -> DOMAIN q],
         \A i, j \in DOMAIN r : f[i] = f[j] => i = j,
         \A i \in DOMAIN r : r[i].text = q[f[i]].text
  PROVE  Once(r) /\ Said(r) \subseteq Said(q)
<1>1. \A i \in DOMAIN r : Marks(r[i]) = Marks(q[f[i]]) /\ Plain(r[i].text)
  BY DEF Once, Marks
<1>2. Once(r)
  BY <1>1 DEF Once
<1>3. Said(r) \subseteq Said(q)
  BY <1>1 DEF Said
<1> QED BY <1>2, <1>3

\* They are all but the one at i.
LEMMA AllBut ==
  ASSUME NEW q, NEW r, Once(q), NEW i \in DOMAIN q, NEW f \in [DOMAIN r -> DOMAIN q \ {i}],
         \A k, l \in DOMAIN r : f[k] = f[l] => k = l,
         \A k \in DOMAIN r : r[k] = q[f[k]],
         \A k \in DOMAIN q \ {i} : \E l \in DOMAIN r : f[l] = k
  PROVE  /\ Once(r) /\ Plain(q[i].text)
         /\ Said(q) = Marks(q[i]) \cup Said(r)
         /\ Marks(q[i]) \cap Said(r) = {}
<1>1. f \in [DOMAIN r -> DOMAIN q]
  OBVIOUS
<1>2. Once(r) /\ Said(r) \subseteq Said(q)
  BY <1>1, SomeOf
<1>3. \A k \in DOMAIN r : Marks(q[i]) \cap Marks(r[k]) = {}
  BY DEF Once
<1>4. Marks(q[i]) \cap Said(r) = {}
  BY <1>3 DEF Said
<1>5. Said(q) \subseteq Marks(q[i]) \cup Said(r)
  <2> SUFFICES ASSUME NEW k \in DOMAIN q, NEW t \in Marks(q[k]), k # i
               PROVE  t \in Said(r)
    BY DEF Said
  <2>1. PICK l \in DOMAIN r : f[l] = k
    OBVIOUS
  <2> QED BY <2>1 DEF Said
<1>6. Plain(q[i].text) /\ Marks(q[i]) \subseteq Said(q)
  BY DEF Once, Said
<1> QED BY <1>2, <1>4, <1>5, <1>6

LEMMA TailOnce ==
  ASSUME NEW q \in Seq(Segment), q # <<>>, Once(q)
  PROVE  /\ Once(Tail(q)) /\ Plain(q[1].text)
         /\ Said(q) = Marks(q[1]) \cup Said(Tail(q))
         /\ Marks(q[1]) \cap Said(Tail(q)) = {}
<1> DEFINE r == Tail(q)
           f == [k \in DOMAIN r |-> k + 1]
<1>1. /\ Len(q) \in Nat \ {0} /\ DOMAIN q = 1..Len(q) /\ 1 \in DOMAIN q
      /\ DOMAIN Tail(q) = 1..(Len(q) - 1)
      /\ \A k \in 1..(Len(q) - 1) : Tail(q)[k] = q[k + 1]
  BY HeadTailProperties
<1>2. f \in [DOMAIN r -> DOMAIN q \ {1}]
  BY <1>1
<1>3. \A k, l \in DOMAIN r : f[k] = f[l] => k = l
  BY <1>1
<1>4. \A k \in DOMAIN r : r[k] = q[f[k]]
  BY <1>1
<1>5. \A k \in DOMAIN q \ {1} : \E l \in DOMAIN r : f[l] = k
  <2> TAKE k \in DOMAIN q \ {1}
  <2>1. k - 1 \in DOMAIN r /\ f[k - 1] = k
    BY <1>1
  <2> QED BY <2>1
<1>6. 1 \in DOMAIN q
  BY <1>1
<1> HIDE DEF f, r
<1>7. /\ Once(r) /\ Plain(q[1].text)
      /\ Said(q) = Marks(q[1]) \cup Said(r)
      /\ Marks(q[1]) \cap Said(r) = {}
  BY <1>2, <1>3, <1>4, <1>5, <1>6, AllBut, SMTT(30)
<1> QED BY <1>7 DEF r

LEMMA RemoveAtOnce ==
  ASSUME NEW q \in Seq(Segment), NEW i \in DOMAIN q, Once(q)
  PROVE  /\ Once(RemoveAt(q, i)) /\ Plain(q[i].text)
         /\ Said(q) = Marks(q[i]) \cup Said(RemoveAt(q, i))
         /\ Marks(q[i]) \cap Said(RemoveAt(q, i)) = {}
         /\ \A k \in DOMAIN q \ {i} : \E l \in DOMAIN RemoveAt(q, i) : RemoveAt(q, i)[l] = q[k]
<1> DEFINE r == RemoveAt(q, i)
           f == [k \in DOMAIN r |-> IF k < i THEN k ELSE k + 1]
<1>1. Len(q) \in Nat \ {0} /\ DOMAIN q = 1..Len(q) /\ i \in 1..Len(q)
  OBVIOUS
<1>2. /\ DOMAIN r = 1..(Len(q) - 1)
      /\ \A k \in 1..(Len(q) - 1) : r[k] = IF k < i THEN q[k] ELSE q[k + 1]
  BY RemovedAt
<1> HIDE DEF r
<1>3. f \in [DOMAIN r -> DOMAIN q \ {i}]
  BY <1>1, <1>2
<1>4. \A k, l \in DOMAIN r : f[k] = f[l] => k = l
  BY <1>1, <1>2
<1>5. \A k \in DOMAIN r : r[k] = q[f[k]]
  BY <1>1, <1>2
<1>6. \A k \in DOMAIN q \ {i} : \E l \in DOMAIN r : f[l] = k
  <2> TAKE k \in DOMAIN q \ {i}
  <2>1. CASE k < i
    <3>1. k \in DOMAIN r /\ f[k] = k
      BY <1>1, <1>2, <2>1
    <3> QED BY <3>1
  <2>2. CASE k > i
    <3>1. k - 1 \in DOMAIN r /\ f[k - 1] = k
      BY <1>1, <1>2, <2>2
    <3> QED BY <3>1
  <2> QED BY <1>1, <2>1, <2>2
<1>7. \A k \in DOMAIN q \ {i} : \E l \in DOMAIN r : r[l] = q[k]
  BY <1>5, <1>6
<1> HIDE DEF f
<1>8. /\ Once(r) /\ Plain(q[i].text) /\ Said(q) = Marks(q[i]) \cup Said(r)
       /\ Marks(q[i]) \cap Said(r) = {}
  BY <1>3, <1>4, <1>5, <1>6, AllBut
<1> QED BY <1>7, <1>8 DEF r

LEMMA AppendOnce ==
  ASSUME NEW q \in Seq(Segment), NEW s \in Segment, Once(q), Plain(s.text), Marks(s) \cap Said(q) = {}
  PROVE  Once(Append(q, s)) /\ Said(Append(q, s)) = Said(q) \cup Marks(s)
<1> DEFINE r == Append(q, s)
<1>1. /\ Len(q) \in Nat /\ DOMAIN q = 1..Len(q) /\ DOMAIN r = 1..(Len(q) + 1)
      /\ \A i \in 1..Len(q) : r[i] = q[i]
      /\ r[Len(q) + 1] = s
  BY AppendProperties
<1> HIDE DEF r
<1>2. \A i \in 1..Len(q) : Marks(q[i]) \cap Marks(s) = {}
  BY <1>1 DEF Said
<1>3. Once(r)
  BY <1>1, <1>2 DEF Once
<1>4. Said(r) = Said(q) \cup Marks(s)
  <2>1. Said(r) \subseteq Said(q) \cup Marks(s)
    BY <1>1 DEF Said
  <2>2. Said(q) \subseteq Said(r)
    BY <1>1 DEF Said
  <2>3. Marks(s) \subseteq Said(r)
    BY <1>1 DEF Said
  <2> QED BY <2>1, <2>2, <2>3
<1> QED BY <1>3, <1>4 DEF r

\* One segment is replaced by another.
LEMMA PutOnce ==
  ASSUME NEW q \in Seq(Segment), NEW i \in DOMAIN q, NEW s, Once(q), Plain(s.text),
         \A j \in DOMAIN q \ {i} : Marks(s) \cap Marks(q[j]) = {}
  PROVE  /\ Once([q EXCEPT ![i] = s])
         /\ Said([q EXCEPT ![i] = s]) \subseteq Said(q) \cup Marks(s)
         /\ Said(q) \subseteq Said([q EXCEPT ![i] = s]) \cup Marks(q[i])
         /\ Marks(s) \subseteq Said([q EXCEPT ![i] = s])
<1> DEFINE r == [q EXCEPT ![i] = s]
<1>1. DOMAIN r = DOMAIN q /\ r[i] = s /\ \A j \in DOMAIN q \ {i} : r[j] = q[j]
  OBVIOUS
<1> HIDE DEF r
<1>2. Once(r)
  BY <1>1 DEF Once
<1>3. Said(r) \subseteq Said(q) \cup Marks(s)
  BY <1>1 DEF Said
<1>4. Said(q) \subseteq Said(r) \cup Marks(q[i])
  BY <1>1 DEF Said
<1>5. Marks(s) \subseteq Said(r)
  BY <1>1 DEF Said
<1> QED BY <1>2, <1>3, <1>4, <1>5 DEF r

----------------------------------------------------------------------------
(* What a turn of a loop does to two sequences: t loses its head to q *)

Apart(q, t) == Once(q) /\ Once(t) /\ Said(q) \cap Said(t) = {}

\* The head of t, its times perhaps changed, goes behind q.
LEMMA HeadAppended ==
  ASSUME NEW q \in Seq(Segment), NEW t \in Seq(Segment), t # <<>>, Apart(q, t),
         NEW s \in Segment, s.text = t[1].text
  PROVE  /\ Apart(Append(q, s), Tail(t))
         /\ Said(Append(q, s)) \cup Said(Tail(t)) = Said(q) \cup Said(t)
<1>1. /\ Once(q) /\ Once(t) /\ Said(q) \cap Said(t) = {}
      /\ Marks(s) = Marks(t[1])
  BY DEF Apart, Marks
<1>2. /\ Once(Tail(t)) /\ Plain(t[1].text)
      /\ Said(t) = Marks(t[1]) \cup Said(Tail(t))
      /\ Marks(t[1]) \cap Said(Tail(t)) = {}
  BY <1>1, TailOnce
<1>3. Marks(s) \cap Said(q) = {} /\ Plain(s.text)
  BY <1>1, <1>2
<1>4. Once(Append(q, s)) /\ Said(Append(q, s)) = Said(q) \cup Marks(s)
  BY <1>1, <1>3, AppendOnce
<1> QED BY <1>1, <1>2, <1>4 DEF Apart

\* Its head is left out.
LEMMA HeadDropped ==
  ASSUME NEW q \in Seq(Segment), NEW t \in Seq(Segment), t # <<>>, Apart(q, t)
  PROVE  Apart(q, Tail(t)) /\ Said(t) = Marks(t[1]) \cup Said(Tail(t))
<1>1. Once(q) /\ Once(t) /\ Said(q) \cap Said(t) = {}
  BY DEF Apart
<1>2. Once(Tail(t)) /\ Said(t) = Marks(t[1]) \cup Said(Tail(t))
  BY <1>1, TailOnce
<1> QED BY <1>1, <1>2 DEF Apart

\* The segment at i says more, which nothing of q said.
LEMMA TakenUp ==
  ASSUME NEW q \in Seq(Segment), NEW i \in DOMAIN q, Once(q), NEW s, Plain(s.text),
         Marks(q[i]) \subseteq Marks(s), Marks(s) \cap Said(q) \subseteq Marks(q[i])
  PROVE  /\ Once([q EXCEPT ![i] = s])
         /\ Said([q EXCEPT ![i] = s]) = Said(q) \cup Marks(s)
<1> DEFINE r == [q EXCEPT ![i] = s]
<1>1. \A j \in DOMAIN q \ {i} : Marks(s) \cap Marks(q[j]) = {}
  <2> TAKE j \in DOMAIN q \ {i}
  <2>1. Marks(q[j]) \subseteq Said(q) /\ Marks(q[i]) \cap Marks(q[j]) = {}
    BY DEF Said, Once
  <2> QED BY <2>1
<1>2. /\ Once(r)
      /\ Said(r) \subseteq Said(q) \cup Marks(s)
      /\ Said(q) \subseteq Said(r) \cup Marks(q[i])
      /\ Marks(s) \subseteq Said(r)
  BY <1>1, PutOnce
<1> HIDE DEF r
<1>3. Said(r) = Said(q) \cup Marks(s)
  BY <1>2
<1> QED BY <1>2, <1>3 DEF r

\* The last of q takes the text of the head up.
LEMMA HeadJoined ==
  ASSUME NEW q \in Seq(Segment), NEW t \in Seq(Segment), q # <<>>, t # <<>>, Apart(q, t),
         NEW s, s.text = q[Len(q)].text \o t[1].text
  PROVE  LET r == [q EXCEPT ![Len(q)] = s]
         IN  Apart(r, Tail(t)) /\ Said(r) \cup Said(Tail(t)) = Said(q) \cup Said(t)
<1> DEFINE r == [q EXCEPT ![Len(q)] = s]
<1>1. Once(q) /\ Once(t) /\ Said(q) \cap Said(t) = {}
  BY DEF Apart
<1>2. /\ Once(Tail(t)) /\ Plain(t[1].text)
      /\ Said(t) = Parts(t[1].text) \cup Said(Tail(t))
      /\ Parts(t[1].text) \cap Said(Tail(t)) = {}
  BY <1>1, TailOnce DEF Marks
<1>3. t[1].text \in Seq(Texts) /\ Len(q) \in DOMAIN q
  <2>1. t[1] \in Segment
    BY HeadAndTail
  <2> QED BY <2>1, LastOf DEF Segment
<1>4. Parts(t[1].text) \cap Said(q) = {}
  BY <1>1, <1>2
<1>5. q[Len(q)] \in Segment /\ Plain(q[Len(q)].text) /\ Marks(q[Len(q)]) \subseteq Said(q)
  BY <1>1, <1>3 DEF Once, Said
<1>6. Plain(s.text) /\ Marks(s) = Marks(q[Len(q)]) \cup Parts(t[1].text)
  BY <1>2, <1>3, <1>4, <1>5, ConcatParts DEF Marks, Segment
<1>7. /\ Marks(q[Len(q)]) \subseteq Marks(s)
      /\ Marks(s) \cap Said(q) \subseteq Marks(q[Len(q)])
  BY <1>4, <1>6
<1>8. Once(r) /\ Said(r) = Said(q) \cup Marks(s)
  BY <1>1, <1>3, <1>6, <1>7, TakenUp
<1> HIDE DEF r
<1>9. Said(r) = Said(q) \cup Parts(t[1].text)
  BY <1>5, <1>6, <1>8
<1>10. Apart(r, Tail(t)) /\ Said(r) \cup Said(Tail(t)) = Said(q) \cup Said(t)
  BY <1>1, <1>2, <1>4, <1>8, <1>9 DEF Apart
<1> QED BY <1>10 DEF r

\* The second of t takes the text of the head up.
LEMMA HeadToNext ==
  ASSUME NEW q \in Seq(Segment), NEW t \in Seq(Segment), Len(t) > 1, Apart(q, t),
         NEW s, s.text = t[1].text \o Tail(t)[1].text
  PROVE  LET r == [Tail(t) EXCEPT ![1] = s]
         IN  Apart(q, r) /\ Said(r) = Said(t)
<1> DEFINE u == Tail(t)
           r == [u EXCEPT ![1] = s]
<1>1. t # <<>> /\ Once(q) /\ Once(t) /\ Said(q) \cap Said(t) = {}
  BY EmptySeq DEF Apart
<1>2. /\ Once(u) /\ Plain(t[1].text)
      /\ Said(t) = Parts(t[1].text) \cup Said(u)
      /\ Parts(t[1].text) \cap Said(u) = {}
  BY <1>1, TailOnce DEF Marks
<1>3. t[1] \in Segment /\ u \in Seq(Segment) /\ Len(u) >= 1
  BY <1>1, HeadAndTail
<1>4. r = [u EXCEPT ![1] = s] /\ s.text = t[1].text \o u[1].text
  OBVIOUS
<1> HIDE DEF u, r
<1>5. 1 \in DOMAIN u /\ u[1] \in Segment
  BY <1>3
<1>6. /\ t[1].text \in Seq(Texts) /\ u[1].text \in Seq(Texts)
      /\ Plain(u[1].text) /\ Marks(u[1]) \subseteq Said(u)
  <2>1. t[1].text \in Seq(Texts) /\ u[1].text \in Seq(Texts)
    BY <1>3, <1>5 DEF Segment
  <2> QED BY <1>2, <1>5, <2>1 DEF Once, Said
<1>7. Plain(s.text) /\ Marks(s) = Marks(u[1]) \cup Parts(t[1].text)
  <2>1. Parts(t[1].text) \cap Parts(u[1].text) = {}
    BY <1>2, <1>6 DEF Marks
  <2>2. /\ Parts(t[1].text \o u[1].text) = Parts(t[1].text) \cup Parts(u[1].text)
        /\ Plain(t[1].text \o u[1].text)
    BY <1>2, <1>6, <2>1, ConcatParts
  <2>3. Plain(s.text) /\ Parts(s.text) = Parts(t[1].text) \cup Parts(u[1].text)
    BY <1>4, <2>2, Zenon
  <2> QED BY <2>3 DEF Marks
<1>8. Marks(u[1]) \subseteq Marks(s) /\ Marks(s) \cap Said(u) \subseteq Marks(u[1])
  BY <1>2, <1>7
<1>9. Once(r) /\ Said(r) = Said(u) \cup Marks(s)
  BY <1>2, <1>3, <1>4, <1>5, <1>7, <1>8, TakenUp
<1>10. Said(r) = Said(t)
  BY <1>2, <1>6, <1>7, <1>9
<1>11. Apart(q, r) /\ Said(r) = Said(t)
  BY <1>1, <1>9, <1>10 DEF Apart
<1> QED BY <1>11 DEF r, u

\* Two sequences are put together.
LEMMA TogetherOnce ==
  ASSUME NEW q \in Seq(Segment), NEW t \in Seq(Segment), Apart(q, t)
  PROVE  Once(q \o t) /\ Said(q \o t) = Said(q) \cup Said(t)
<1> DEFINE r == q \o t
           k == Len(q)
<1>1. /\ k \in Nat /\ DOMAIN q = 1..k
      /\ Len(t) \in Nat /\ DOMAIN t = 1..Len(t)
      /\ Once(q) /\ Once(t)
  BY DEF Apart
<1>2. /\ r \in Seq(Segment) /\ Len(r) = k + Len(t)
      /\ \A i \in 1..(k + Len(t)) : r[i] = IF i <= k THEN q[i] ELSE t[i - k]
  BY ConcatProperties
<1> HIDE DEF r, k
<1>3. DOMAIN r = 1..(k + Len(t))
  BY <1>2
<1>4. \A i \in 1..k : i \in DOMAIN r /\ r[i] = q[i]
  BY <1>1, <1>2, <1>3
<1>5. ASSUME NEW i \in 1..Len(t) PROVE k + i \in DOMAIN r /\ r[k + i] = t[i]
  <2>1. k + i \in 1..(k + Len(t)) /\ ~(k + i <= k) /\ (k + i) - k = i
    BY <1>1
  <2> QED BY <1>2, <1>3, <2>1
<1>6. \A i \in DOMAIN r : i \in 1..k \/ \E j \in 1..Len(t) : i = k + j
  <2> TAKE i \in DOMAIN r
  <2>1. CASE i > k
    <3>1. i - k \in 1..Len(t) /\ i = k + (i - k)
      BY <1>1, <1>3, <2>1
    <3> QED BY <3>1
  <2> QED BY <1>1, <1>3, <2>1
<1>7. ASSUME NEW i \in 1..k, NEW j \in 1..Len(t) PROVE Marks(q[i]) \cap Marks(t[j]) = {}
  <2>1. Marks(q[i]) \subseteq Said(q) /\ Marks(t[j]) \subseteq Said(t)
    BY <1>1 DEF Said
  <2> QED BY <2>1 DEF Apart
<1>8. \A i \in DOMAIN r : Plain(r[i].text)
  BY <1>1, <1>4, <1>5, <1>6 DEF Once
<1>9. ASSUME NEW i \in DOMAIN r, NEW j \in DOMAIN r, i # j
      PROVE  Marks(r[i]) \cap Marks(r[j]) = {}
  <2>1. CASE i \in 1..k /\ j \in 1..k
    BY <1>1, <1>4, <1>9, <2>1 DEF Once
  <2>2. ASSUME NEW m \in 1..Len(t), i = k + m, j \in 1..k PROVE Marks(r[i]) \cap Marks(r[j]) = {}
    BY <1>4, <1>5, <1>7, <2>2
  <2>3. ASSUME NEW n \in 1..Len(t), j = k + n, i \in 1..k PROVE Marks(r[i]) \cap Marks(r[j]) = {}
    BY <1>4, <1>5, <1>7, <2>3
  <2>4. ASSUME NEW m \in 1..Len(t), i = k + m, NEW n \in 1..Len(t), j = k + n
        PROVE  Marks(r[i]) \cap Marks(r[j]) = {}
    <3>1. m # n
      BY <1>9, <2>4
    <3>2. Marks(t[m]) \cap Marks(t[n]) = {}
      BY <1>1, <3>1 DEF Once
    <3> QED BY <1>5, <2>4, <3>2
  <2> QED BY <1>6, <2>1, <2>2, <2>3, <2>4
<1>10. ASSUME NEW i \in DOMAIN r PROVE Marks(r[i]) \subseteq Said(q) \cup Said(t)
  <2>1. CASE i \in 1..k
    BY <1>1, <1>4, <2>1 DEF Said
  <2>2. ASSUME NEW j \in 1..Len(t), i = k + j PROVE Marks(r[i]) \subseteq Said(t)
    BY <1>1, <1>5, <2>2 DEF Said
  <2> QED BY <1>6, <2>1, <2>2
<1>11. Said(q) \subseteq Said(r)
  BY <1>1, <1>4 DEF Said
<1>12. Said(t) \subseteq Said(r)
  <2> SUFFICES ASSUME NEW j \in 1..Len(t) PROVE Marks(t[j]) \subseteq Said(r)
    BY <1>1 DEF Said
  <2>1. k + j \in DOMAIN r /\ r[k + j] = t[j]
    BY <1>5
  <2> QED BY <2>1 DEF Said
<1>13. Said(r) \subseteq Said(q) \cup Said(t)
  BY <1>10 DEF Said
<1> QED BY <1>8, <1>9, <1>11, <1>12, <1>13 DEF Once, r

\* Only the times change.
LEMMA SameTexts ==
  ASSUME NEW q, NEW r, DOMAIN r = DOMAIN q, \A i \in DOMAIN q : r[i].text = q[i].text
  PROVE  Said(r) = Said(q) /\ (Once(q) => Once(r))
<1>1. \A i \in DOMAIN q : Marks(r[i]) = Marks(q[i])
  BY DEF Marks
<1> QED BY <1>1 DEF Said, Once

\* In the transcription every sentence is said once.
LEMMA InputOnce ==
  ASSUME chunks \in GeminiInputs \cup WhisperInputs
  PROVE  /\ \A c \in DOMAIN chunks : Once(chunks[c].raw)
         /\ \A c, d \in DOMAIN chunks : c # d => Said(chunks[c].raw) \cap Said(chunks[d].raw) = {}
<1>1. \A c, d \in DOMAIN chunks : \A a \in DOMAIN chunks[c].raw, b \in DOMAIN chunks[d].raw :
        \A m \in DOMAIN chunks[c].raw[a].text, n \in DOMAIN chunks[d].raw[b].text :
          chunks[c].raw[a].text[m] = chunks[d].raw[b].text[n] => c = d /\ a = b /\ m = n
  BY DistinctAssumption
<1>2. ASSUME NEW c \in DOMAIN chunks, NEW d \in DOMAIN chunks,
             NEW a \in DOMAIN chunks[c].raw, NEW b \in DOMAIN chunks[d].raw,
             c # d \/ a # b
      PROVE  Marks(chunks[c].raw[a]) \cap Marks(chunks[d].raw[b]) = {}
  BY <1>1, <1>2 DEF Marks, Parts
<1>3. \A c \in DOMAIN chunks : \A a \in DOMAIN chunks[c].raw : Plain(chunks[c].raw[a].text)
  BY <1>1 DEF Plain
<1>4. ASSUME NEW c \in DOMAIN chunks PROVE Once(chunks[c].raw)
  BY <1>2, <1>3 DEF Once
<1>5. ASSUME NEW c \in DOMAIN chunks, NEW d \in DOMAIN chunks, c # d
      PROVE  Said(chunks[c].raw) \cap Said(chunks[d].raw) = {}
  BY <1>2, <1>5 DEF Said
<1> QED BY <1>4, <1>5

----------------------------------------------------------------------------
(* No sentence is lost or said twice *)

\* Where there is nothing in work, and which loops the segments of an engine do not see.
Idle ==
  /\ chunks \in GeminiInputs \cup WhisperInputs
  /\ phase \in {"chunk", "place", "mux", "done"} => todo = <<>> /\ made = <<>>
  /\ phase = "order" => script = <<>>
  /\ engine = "gemini" => phase \notin {"merge", "split", "cut"} /\ dropped = {}
  /\ engine = "gemini" /\ phase \in {"order", "place", "mux", "done"} => at > Len(chunks)
  /\ engine = "whisper" => /\ at = 1 /\ Len(chunks) = 1
                           /\ phase \notin {"sort", "short", "chain", "order"}
                           /\ phase \notin {"place", "mux", "done"} => script = <<>>
  /\ \A s \in dropped : Duration(s) < MinSplit

\* The chunks that were taken, and what they say.
TakenChunks == {c \in DOMAIN chunks : c < at \/ (c = at /\ phase # "chunk")}
Taken == UNION {Said(chunks[c].raw) : c \in TakenChunks}

\* What has not been dropped as malformed, and what was left out as too short.
Kept == UNION {Marks(todo[i]) : i \in Candidates}
Lost == UNION {Marks(s) : s \in dropped}
Held == Said(script) \cup Said(made) \cup Kept \cup Lost

\* A sentence is in one place at most, and comes from a chunk that was taken.
Single ==
  /\ Once(script) /\ Apart(made, todo)
  /\ Said(script) \cap (Said(made) \cup Said(todo)) = {}
  /\ Said(script) \cup Said(made) \cup Said(todo) \subseteq Taken

\* Every part of a usable segment of Gemini, or of any of Whisper, is somewhere.
Heard(s) == engine = "gemini" => Usable(s)
Complete ==
  \A c \in TakenChunks : \A a \in DOMAIN chunks[c].raw :
    Heard(chunks[c].raw[a]) => Marks(chunks[c].raw[a]) \subseteq Held

\* A turn of a loop that works on made and todo.
Moved ==
  /\ UNCHANGED <<engine, chunks, script>> /\ TakenChunks' = TakenChunks
  /\ Apart(made, todo)'
  /\ (Said(made) \cup Said(todo))' \subseteq Said(made) \cup Said(todo)
  /\ Held \subseteq Held'

LEMMA IdleStep == Typed /\ Idle /\ [Next]_vars => Idle'
<1> SUFFICES ASSUME Typed, Idle, [Next]_vars PROVE Idle'
  OBVIOUS
<1> USE DEF Idle
<1>1. CASE TakeChunk
  BY <1>1 DEF TakeChunk, aside
<1>2. CASE Normalise
  <2>1. CASE TakeEarliest \/ EndSort \/ KeepHead \/ JoinNext \/ JoinBack \/ EndShort \/ Link \/ Fold
    BY <2>1 DEF TakeEarliest, EndSort, KeepHead, JoinNext, JoinBack, EndShort, Link, Fold,
                Pass, aside
  <2>2. CASE EndChunk \/ EndOrder
    BY <2>2 DEF EndChunk, EndOrder, aside
  <2>3. CASE AllChunks
    <3>1. at > Len(chunks) /\ phase = "chunk"
      BY <2>3 DEF AllChunks
    <3>2. engine # "whisper"
      BY <3>1
    <3> QED BY <2>3, <3>1, <3>2 DEF AllChunks, aside
  <2> QED BY <1>2, <2>1, <2>2, <2>3 DEF Normalise
<1>3. CASE Sentences
  <2>1. CASE SkipBlank \/ Absorb \/ Open \/ EndMerge \/ EndSplit
    BY <2>1 DEF SkipBlank, Absorb, Open, EndMerge, Pass, EndSplit, aside
  <2>2. CASE KeepWhole \/ Cut \/ LastPiece
    <3>1. /\ UNCHANGED <<engine, chunks, at, script>>
          /\ phase \in {"split", "cut"} /\ phase' \in {"split", "cut"}
      BY <2>2 DEF KeepWhole, Cut, LastPiece
    <3>2. PICK s : dropped' = WithDropped(s)
      BY <2>2 DEF KeepWhole, Cut, LastPiece
    <3>3. \A r \in dropped' : Duration(r) < MinSplit
      BY <3>2 DEF WithDropped
    <3>4. engine # "gemini"
      BY <3>1
    <3> QED BY <3>1, <3>3, <3>4
  <2> QED BY <1>3, <2>1, <2>2 DEF Sentences
<1>4. CASE Align
  BY <1>4 DEF Align, Place, EndPlace, Lay, EndMux, aside
<1>5. CASE Done \/ UNCHANGED vars
  BY <1>5 DEF Done, vars
<1> QED BY <1>1, <1>2, <1>3, <1>4, <1>5 DEF Next

LEMMA LostKept ==
  ASSUME dropped \subseteq dropped'
  PROVE  Lost \subseteq Lost'
  BY DEF Lost

LEMMA HeldAll ==
  /\ phase # "sort" => Kept = Said(todo)
  /\ phase' # "sort" => Kept' = Said(todo')
  BY DEF Kept, Candidates, Said

LEMMA MovedKeeps ==
  ASSUME Single, Complete, Moved
  PROVE  Single' /\ Complete'
<1>1. Taken' = Taken
  BY DEF Moved, Taken
<1>2. Single'
  BY <1>1 DEF Single, Moved
<1>3. Complete'
  BY DEF Complete, Heard, Moved
<1> QED BY <1>2, <1>3

\* A loop hands over what it made.
LEMMA PassMoves ==
  ASSUME Typed, Idle, Single, EndSort \/ EndShort \/ EndMerge
  PROVE  Moved
<1>1. todo' = made /\ made' = <<>> /\ UNCHANGED <<engine, chunks, dropped, script, at>>
  BY DEF EndSort, EndShort, EndMerge, Pass, aside
<1>2. phase \in {"sort", "short", "merge"} /\ phase' \in {"short", "chain", "split"}
  BY DEF EndSort, EndShort, EndMerge, Pass
<1>3. TakenChunks' = TakenChunks
  BY <1>1, <1>2 DEF TakenChunks
<1>4. Apart(made, todo)' /\ Said(made') = {}
  BY <1>1, NothingSaid DEF Single, Apart
<1>5. Kept = {}
  <2>1. CASE EndSort
    BY <2>1 DEF EndSort, Kept
  <2>2. CASE EndShort \/ EndMerge
    <3>1. todo = <<>> /\ phase # "sort"
      BY <2>2 DEF EndShort, EndMerge
    <3> QED BY <3>1, HeldAll, NothingSaid
  <2> QED BY <2>1, <2>2
<1>6. Kept' = Said(made)
  BY <1>1, <1>2, HeldAll
<1>7. Held \subseteq Held'
  BY <1>1, <1>5, <1>6, LostKept DEF Held
<1> QED BY <1>1, <1>3, <1>4, <1>7 DEF Moved

\* The earliest segment leaves todo.
LEMMA EarliestMoves ==
  ASSUME Typed, Idle, Single, TakeEarliest
  PROVE  Moved
<1>1. PICK i \in Candidates : made' = Append(made, todo[i]) /\ todo' = RemoveAt(todo, i)
  BY DEF TakeEarliest
<1>2. phase' = phase /\ UNCHANGED <<engine, chunks, dropped, script, at>>
  BY DEF TakeEarliest, aside
<1>3. /\ i \in DOMAIN todo /\ todo[i] \in Segment
      /\ made \in Seq(Segment) /\ todo \in Seq(Segment)
  BY DEF Candidates, Typed, TypeOK
<1>4. Once(made) /\ Once(todo) /\ Said(made) \cap Said(todo) = {}
  BY DEF Single, Apart
<1>5. /\ Once(todo') /\ Plain(todo[i].text)
      /\ Said(todo) = Marks(todo[i]) \cup Said(todo')
      /\ Marks(todo[i]) \cap Said(todo') = {}
      /\ \A k \in DOMAIN todo \ {i} : \E l \in DOMAIN todo' : todo'[l] = todo[k]
  BY <1>1, <1>3, <1>4, RemoveAtOnce
<1>6. Marks(todo[i]) \cap Said(made) = {}
  BY <1>4, <1>5
<1>7. Once(made') /\ Said(made') = Said(made) \cup Marks(todo[i])
  BY <1>1, <1>3, <1>4, <1>5, <1>6, AppendOnce
<1>8. Apart(made, todo)'
  BY <1>4, <1>5, <1>7 DEF Apart
<1>9. Kept \subseteq Kept' \cup Said(made')
  <2> SUFFICES ASSUME NEW k \in Candidates, k # i PROVE Marks(todo[k]) \subseteq Kept'
    BY <1>7 DEF Kept
  <2>1. PICK l \in DOMAIN todo' : todo'[l] = todo[k]
    BY <1>5 DEF Candidates
  <2>2. l \in Candidates'
    BY <1>2, <2>1 DEF Candidates
  <2> QED BY <2>1, <2>2 DEF Kept
<1>10. Held \subseteq Held'
  BY <1>2, <1>7, <1>9, LostKept DEF Held
<1>11. TakenChunks' = TakenChunks
  BY <1>2 DEF TakenChunks
<1> QED BY <1>2, <1>5, <1>7, <1>8, <1>10, <1>11 DEF Moved

LEMMA WorkMoves ==
  ASSUME UNCHANGED <<engine, chunks, script, at>>,
         phase \notin {"sort", "chunk"}, phase' \notin {"sort", "chunk"},
         Apart(made, todo)',
         (Said(made) \cup Said(todo))' \subseteq Said(made) \cup Said(todo),
         Said(made) \cup Said(todo) \subseteq (Said(made) \cup Said(todo))' \cup Lost',
         dropped \subseteq dropped'
  PROVE  Moved
<1>1. TakenChunks' = TakenChunks
  BY DEF TakenChunks
<1>2. Kept = Said(todo) /\ Kept' = Said(todo')
  BY HeldAll
<1>3. Held \subseteq Held'
  BY <1>2, LostKept DEF Held
<1> QED BY <1>1, <1>3 DEF Moved

\* The head goes to the product as it is, with other times, or not at all.
LEMMA AppendMoves ==
  ASSUME Typed, Idle, Single, KeepHead \/ Link \/ Open
  PROVE  Moved
<1>1. /\ todo # <<>> /\ todo' = Tail(todo) /\ UNCHANGED <<engine, chunks, dropped, script, at>>
      /\ phase \in {"short", "chain", "merge"} /\ phase' = phase
  BY DEF KeepHead, Link, Open, aside
<1>2. made \in Seq(Segment) /\ todo \in Seq(Segment) /\ Apart(made, todo)
  BY DEF Typed, TypeOK, Single
<1>3. Head1 \in Segment
  BY <1>1, <1>2, HeadAndTail DEF Head1
<1>4. PICK s \in Segment : s.text = Head1.text /\ made' = Append(made, s)
  <2>1. CASE KeepHead \/ Open
    BY <1>3, <2>1 DEF KeepHead, Open
  <2>2. CASE Link
    <3> DEFINE start == Later(Head1.start, cursor)
               end == Earlier(Head1.end, start + MaxDuration)
    <3>1. Head1.start \in Nat /\ Head1.end \in Nat /\ cursor \in Nat /\ MaxDuration \in Nat
      BY <1>3, LimitAssumption DEF Segment, Typed, TypeOK
    <3>2. start \in Nat
      BY <3>1, LaterType
    <3> HIDE DEF start
    <3>2a. start + MaxDuration \in Nat
      BY <3>1, <3>2
    <3>3. end \in Nat
      BY <3>1, <3>2a, EarlierType
    <3>4. made' = Append(made, [Head1 EXCEPT !.start = start, !.end = end])
      BY <2>2 DEF Link, start
    <3> HIDE DEF end
    <3> DEFINE s == [Head1 EXCEPT !.start = start, !.end = end]
    <3>5. s \in Segment /\ s.text = Head1.text
      BY <1>3, <3>2, <3>3 DEF Segment
    <3> QED BY <3>4, <3>5
  <2> QED BY <2>1, <2>2
<1>5. /\ Apart(made', todo')
      /\ Said(made') \cup Said(todo') = Said(made) \cup Said(todo)
  BY <1>1, <1>2, <1>4, HeadAppended DEF Head1
<1> QED BY <1>1, <1>5, WorkMoves

LEMMA PieceMoves ==
  ASSUME Typed, Idle, Single, SkipBlank \/ KeepWhole \/ LastPiece
  PROVE  Moved
<1>1. /\ todo # <<>> /\ todo' = Tail(todo) /\ UNCHANGED <<engine, chunks, script, at>>
      /\ phase \in {"merge", "split", "cut"} /\ phase' \in {"merge", "split"}
  BY DEF SkipBlank, KeepWhole, LastPiece, aside, Typed
<1>2. made \in Seq(Segment) /\ todo \in Seq(Segment) /\ Apart(made, todo)
  BY DEF Typed, TypeOK, Single
<1>3. Head1 \in Segment
  BY <1>1, <1>2, HeadAndTail DEF Head1
<1>4. /\ dropped \subseteq dropped'
      /\ \/ made' = Append(made, Head1)
         \/ made' = made /\ Marks(Head1) \subseteq Lost'
  <2>1. CASE SkipBlank
    <3>1. Marks(Head1) = {}
      BY <2>1 DEF SkipBlank, Marks, Parts
    <3> QED BY <2>1, <3>1 DEF SkipBlank, aside
  <2>2. CASE KeepWhole \/ LastPiece
    <3>1. made' = WithPiece(Head1) /\ dropped' = WithDropped(Head1)
      BY <2>2 DEF KeepWhole, LastPiece
    <3> QED BY <3>1 DEF WithPiece, WithDropped, Lost
  <2> QED BY <2>1, <2>2
<1>5. /\ Apart(made', todo')
      /\ Said(made') \cup Said(todo') \subseteq Said(made) \cup Said(todo)
      /\ Said(made) \cup Said(todo) \subseteq Said(made') \cup Said(todo') \cup Lost'
  <2>1. CASE made' = made /\ Marks(Head1) \subseteq Lost'
    <3>1. Apart(made, Tail(todo)) /\ Said(todo) = Marks(Head1) \cup Said(Tail(todo))
      BY <1>1, <1>2, HeadDropped DEF Head1
    <3> QED BY <1>1, <2>1, <3>1
  <2>2. CASE made' = Append(made, Head1)
    <3>1. /\ Apart(Append(made, Head1), Tail(todo))
          /\ Said(Append(made, Head1)) \cup Said(Tail(todo)) = Said(made) \cup Said(todo)
      BY <1>1, <1>2, <1>3, HeadAppended DEF Head1
    <3> QED BY <1>1, <2>2, <3>1
  <2> QED BY <1>4, <2>1, <2>2
<1> QED BY <1>1, <1>4, <1>5, WorkMoves

\* It is joined to the last of the product.
LEMMA JoinMoves ==
  ASSUME Typed, Idle, Single, JoinBack \/ Fold \/ Absorb
  PROVE  Moved
<1>1. /\ made # <<>> /\ UNCHANGED <<engine, chunks, dropped, script, at>>
      /\ phase \in {"short", "chain", "merge"} /\ phase' = phase
  BY DEF JoinBack, Fold, Absorb, Fits, aside
<1>2. made \in Seq(Segment) /\ todo \in Seq(Segment) /\ Apart(made, todo)
  BY DEF Typed, TypeOK, Single
<1>3. todo # <<>> /\ todo' = Tail(todo)
  <2>1. CASE JoinBack
    <3>1. Len(todo) = 1 /\ todo' = <<>>
      BY <2>1 DEF JoinBack
    <3>2. todo # <<>>
      <4>1. Len(<<>>) # 1
        OBVIOUS
      <4> QED BY <3>1, <4>1, Zenon
    <3>3. Tail(todo) \in Seq(Segment) /\ Len(Tail(todo)) = 0
      BY <1>2, <3>1, <3>2, HeadAndTail
    <3>4. Tail(todo) = <<>>
      BY <3>3, EmptySeq
    <3> QED BY <3>1, <3>2, <3>4
  <2>2. CASE Fold \/ Absorb
    BY <2>2 DEF Fold, Absorb
  <2> QED BY <2>1, <2>2
<1>4. Head1 \in Segment /\ made[Len(made)] \in Segment
  BY <1>1, <1>2, <1>3, HeadAndTail, LastOf DEF Head1
<1>5. PICK s : /\ s.text = made[Len(made)].text \o Head1.text
               /\ made' = [made EXCEPT ![Len(made)] = s]
  <2>1. CASE JoinBack
    <3>1. made' = [made EXCEPT ![Len(made)] = Joined(made[Len(made)], Head1)]
      BY <2>1 DEF JoinBack
    <3>2. Joined(made[Len(made)], Head1).text = made[Len(made)].text \o Head1.text
      BY DEF Joined
    <3> QED BY <3>1, <3>2
  <2>2. CASE Fold
    <3> DEFINE s == [made[Len(made)] EXCEPT !.text = made[Len(made)].text \o Head1.text]
    <3>1. made' = [made EXCEPT ![Len(made)] = s]
      BY <2>2 DEF Fold, Last
    <3>2. s.text = made[Len(made)].text \o Head1.text
      BY <1>4 DEF Segment
    <3> QED BY <3>1, <3>2
  <2>3. CASE Absorb
    <3> DEFINE end == Later(Last(made).end, Head1.end)
               s == [Joined(made[Len(made)], Head1) EXCEPT !.end = end]
    <3>1. made' = [made EXCEPT ![Len(made)] = s]
      BY <2>3 DEF Absorb
    <3> HIDE DEF end
    <3>2. s.text = made[Len(made)].text \o Head1.text
      BY DEF Joined
    <3> QED BY <3>1, <3>2
  <2> QED BY <2>1, <2>2, <2>3
<1>6. /\ Apart(made', todo')
      /\ Said(made') \cup Said(todo') = Said(made) \cup Said(todo)
  BY <1>1, <1>2, <1>3, <1>5, HeadJoined DEF Head1
<1> QED BY <1>1, <1>6, WorkMoves

\* or to the next of todo.
LEMMA NextMoves ==
  ASSUME Typed, Idle, Single, JoinNext
  PROVE  Moved
<1>1. /\ Len(todo) > 1 /\ UNCHANGED <<engine, chunks, dropped, script, at, made>>
      /\ phase = "short" /\ phase' = phase
      /\ todo' = [Tail(todo) EXCEPT ![1] = Joined(Head1, Tail(todo)[1])]
  BY DEF JoinNext, aside
<1>2. made \in Seq(Segment) /\ todo \in Seq(Segment) /\ Apart(made, todo)
  BY DEF Typed, TypeOK, Single
<1> DEFINE s == Joined(Head1, Tail(todo)[1])
<1>3. s.text = todo[1].text \o Tail(todo)[1].text
  BY DEF Joined, Head1
<1>4. todo' = [Tail(todo) EXCEPT ![1] = s]
  BY <1>1
<1> HIDE DEF s
<1>5. /\ Apart(made, [Tail(todo) EXCEPT ![1] = s])
      /\ Said([Tail(todo) EXCEPT ![1] = s]) = Said(todo)
  BY <1>1, <1>2, <1>3, HeadToNext
<1>6. Apart(made, todo') /\ Said(todo') = Said(todo)
  BY <1>4, <1>5
<1> QED BY <1>1, <1>6, WorkMoves

\* A long sentence of Whisper is cut in two.
LEMMA CutMoves ==
  ASSUME Typed, Idle, Single, Cut
  PROVE  Moved
<1>1. /\ UNCHANGED <<engine, chunks, script, at>>
      /\ phase \in {"split", "cut"} /\ phase' = "cut" /\ todo # <<>>
  BY DEF Cut, aside, Typed
<1>2. /\ made \in Seq(Segment) /\ todo \in Seq(Segment)
      /\ Once(made) /\ Once(todo) /\ Said(made) \cap Said(todo) = {}
  BY DEF Typed, TypeOK, Single, Apart
<1>3. Head1 \in Segment /\ Head1.text \in Seq(Texts) /\ 1 \in DOMAIN todo
  <2>1. Head1 \in Segment /\ Len(todo) >= 1
    BY <1>1, <1>2, HeadAndTail DEF Head1
  <2> QED BY <1>2, <2>1 DEF Segment
<1>4. PICK n \in 1..(Len(Head1.text) - 1), t \in Head1.start..Head1.end :
        /\ made' = WithPiece([Head1 EXCEPT !.end = t, !.text = SubSeq(Head1.text, 1, n)])
        /\ dropped' = WithDropped([Head1 EXCEPT !.end = t, !.text = SubSeq(Head1.text, 1, n)])
        /\ todo' = [todo EXCEPT ![1] =
                      [Head1 EXCEPT !.start = t,
                                    !.text = SubSeq(Head1.text, n + 1, Len(Head1.text))]]
  BY DEF Cut
<1> DEFINE a == [Head1 EXCEPT !.end = t, !.text = SubSeq(Head1.text, 1, n)]
           b == [Head1 EXCEPT !.start = t,
                              !.text = SubSeq(Head1.text, n + 1, Len(Head1.text))]
<1>5. Plain(Head1.text) /\ Marks(Head1) \subseteq Said(todo)
  BY <1>2, <1>3 DEF Head1, Once, Said
<1>6. /\ SubSeq(Head1.text, 1, n) \in Seq(Texts)
      /\ Plain(SubSeq(Head1.text, 1, n)) /\ Plain(SubSeq(Head1.text, n + 1, Len(Head1.text)))
      /\ Parts(SubSeq(Head1.text, 1, n)) \cap Parts(SubSeq(Head1.text, n + 1, Len(Head1.text))) = {}
      /\ Parts(SubSeq(Head1.text, 1, n)) \cup Parts(SubSeq(Head1.text, n + 1, Len(Head1.text)))
           = Parts(Head1.text)
  BY <1>3, <1>5, SplitParts
<1>7. /\ a.text = SubSeq(Head1.text, 1, n)
      /\ b.text = SubSeq(Head1.text, n + 1, Len(Head1.text))
  BY <1>3 DEF Segment
<1>8. a \in Segment
  <2>1. t \in Nat
    BY <1>3 DEF Segment
  <2> QED BY <1>3, <1>6, <2>1 DEF Segment
<1>9. /\ made' = WithPiece(a) /\ dropped' = WithDropped(a)
      /\ todo' = [todo EXCEPT ![1] = b]
  BY <1>4
<1>10. /\ Plain(a.text) /\ Plain(b.text) /\ Marks(a) \cap Marks(b) = {}
       /\ Marks(a) \cup Marks(b) = Marks(Head1)
  BY <1>6, <1>7 DEF Marks
<1> HIDE DEF a, b
<1>10a. /\ dropped \subseteq dropped'
        /\ \/ made' = Append(made, a)
           \/ made' = made /\ Marks(a) \subseteq Lost'
  BY <1>9 DEF WithPiece, WithDropped, Lost
<1>11. \A j \in DOMAIN todo \ {1} : Marks(Head1) \cap Marks(todo[j]) = {}
  BY <1>2, <1>3 DEF Once, Head1
<1>12. /\ Once(todo')
       /\ \A j \in DOMAIN todo \ {1} : todo'[j] = todo[j]
       /\ DOMAIN todo' = DOMAIN todo /\ todo'[1] = b
       /\ Said(todo) \subseteq Said(todo') \cup Marks(Head1) /\ Marks(b) \subseteq Said(todo')
  <2>1. \A j \in DOMAIN todo \ {1} : Marks(b) \cap Marks(todo[j]) = {}
    BY <1>10, <1>11
  <2> DEFINE r == [todo EXCEPT ![1] = b]
  <2>2. /\ Once(r) /\ Marks(b) \subseteq Said(r)
        /\ Said(todo) \subseteq Said(r) \cup Marks(todo[1])
    BY <1>2, <1>3, <1>10, <2>1, PutOnce
  <2>3. /\ DOMAIN r = DOMAIN todo /\ r[1] = b
        /\ \A j \in DOMAIN todo \ {1} : r[j] = todo[j]
    BY <1>2, <1>3
  <2>4. todo' = r
    BY <1>9
  <2> HIDE DEF r
  <2> QED BY <2>2, <2>3, <2>4 DEF Head1
<1>13. Said(todo') \subseteq Said(todo) /\ Marks(a) \cap Said(todo') = {}
  <2>1. \A j \in DOMAIN todo' : /\ Marks(todo'[j]) \subseteq Said(todo)
                                /\ Marks(a) \cap Marks(todo'[j]) = {}
    <3> TAKE j \in DOMAIN todo'
    <3>1. CASE j = 1
      BY <1>5, <1>10, <1>12, <3>1
    <3>2. CASE j # 1
      <4>1. todo'[j] = todo[j] /\ Marks(todo[j]) \subseteq Said(todo)
        BY <1>12, <3>2 DEF Said
      <4> QED BY <1>10, <1>11, <1>12, <3>2, <4>1
    <3> QED BY <3>1, <3>2
  <2> QED BY <2>1 DEF Said
<1>14. /\ Once(made') /\ Said(made') \subseteq Said(made) \cup Marks(a)
       /\ Said(made) \cup Marks(a) \subseteq Said(made') \cup Lost'
  <2>1. Marks(a) \cap Said(made) = {}
    BY <1>2, <1>5, <1>10
  <2>2. /\ Once(Append(made, a))
        /\ Said(Append(made, a)) = Said(made) \cup Marks(a)
    BY <1>2, <1>8, <1>10, <2>1, AppendOnce
  <2> QED BY <1>2, <1>10a, <2>2
<1>15. Apart(made, todo)'
  BY <1>2, <1>12, <1>13, <1>14 DEF Apart
<1>16. (Said(made) \cup Said(todo))' \subseteq Said(made) \cup Said(todo)
  BY <1>5, <1>10, <1>13, <1>14
<1>17. Said(made) \cup Said(todo) \subseteq (Said(made) \cup Said(todo))' \cup Lost'
  BY <1>10, <1>12, <1>14
<1> QED BY <1>1, <1>10a, <1>15, <1>16, <1>17, WorkMoves

\* Between two chunks those before at were taken, within one that at at, too.
Before == {c \in DOMAIN chunks : c < at}
UpTo == {c \in DOMAIN chunks : c <= at}

LEMMA ChunkNumbers ==
  ASSUME Typed
  PROVE  /\ phase = "chunk" => TakenChunks = Before
         /\ phase # "chunk" => TakenChunks = UpTo
         /\ UNCHANGED <<chunks, at>> /\ phase' # "chunk" => TakenChunks' = UpTo
         /\ UNCHANGED chunks /\ at' = at + 1 /\ phase' = "chunk" => TakenChunks' = UpTo
         /\ at \in DOMAIN chunks => UpTo = Before \cup {at} /\ at \notin Before
         /\ at > Len(chunks) => UpTo = DOMAIN chunks /\ Before = DOMAIN chunks
<1>1. at \in Nat /\ Len(chunks) \in Nat /\ DOMAIN chunks = 1..Len(chunks)
  BY DEF Typed, TypeOK
<1>2. \A c \in DOMAIN chunks : /\ c < at => c # at
                               /\ c <= at <=> c < at \/ c = at
                               /\ c < at + 1 <=> c < at \/ c = at
  BY <1>1
<1> USE DEF Before, UpTo, TakenChunks
<1>3. phase = "chunk" => TakenChunks = Before
  OBVIOUS
<1>4. phase # "chunk" => TakenChunks = UpTo
  BY <1>2
<1>5. UNCHANGED <<chunks, at>> /\ phase' # "chunk" => TakenChunks' = UpTo
  BY <1>2
<1>6. UNCHANGED chunks /\ at' = at + 1 /\ phase' = "chunk" => TakenChunks' = UpTo
  BY <1>2
<1>7. at \in DOMAIN chunks => UpTo = Before \cup {at} /\ at \notin Before
  BY <1>2
<1>8. at > Len(chunks) => UpTo = DOMAIN chunks /\ Before = DOMAIN chunks
  BY <1>1
<1> QED BY <1>3, <1>4, <1>5, <1>6, <1>7, <1>8

LEMMA TakeChunkKeeps ==
  ASSUME Typed, Idle, Single, Complete, TakeChunk
  PROVE  Single' /\ Complete'
<1>1. /\ todo = <<>> /\ made = <<>> /\ at \in DOMAIN chunks
      /\ todo' = chunks[at].raw /\ UNCHANGED <<engine, chunks, dropped, made, script, at>>
      /\ phase = "chunk" /\ phase' \in {"sort", "merge"}
      /\ phase' = "sort" => engine = "gemini"
  BY DEF TakeChunk, aside, Idle, Typed, TypeOK
<1>2. TakenChunks' = TakenChunks \cup {at} /\ at \notin TakenChunks
  BY <1>1, ChunkNumbers
<1>3. Taken' = Taken \cup Said(todo')
  BY <1>1, <1>2 DEF Taken
<1>4. Once(todo') /\ Taken \cap Said(todo') = {}
  <2>1. \A c \in TakenChunks : c \in DOMAIN chunks /\ c # at
    BY <1>2 DEF TakenChunks
  <2>2. chunks \in GeminiInputs \cup WhisperInputs
    BY DEF Idle
  <2>3. /\ Once(chunks[at].raw)
        /\ \A c \in TakenChunks : Said(chunks[c].raw) \cap Said(chunks[at].raw) = {}
    BY <1>1, <2>1, <2>2, InputOnce
  <2> QED BY <1>1, <2>3 DEF Taken
<1>5. Single'
  BY <1>1, <1>3, <1>4, NothingSaid DEF Single, Apart
<1>6. ASSUME NEW c \in TakenChunks, NEW a \in DOMAIN chunks[c].raw, Heard(chunks[c].raw[a])
      PROVE  Marks(chunks[c].raw[a]) \subseteq Held'
  <2>1. Marks(chunks[c].raw[a]) \subseteq Held
    BY <1>6 DEF Complete
  <2>2. Held = Said(script) \cup Lost
    BY <1>1, HeldAll, NothingSaid DEF Held
  <2> QED BY <1>1, <2>1, <2>2, LostKept DEF Held
<1>6a. ASSUME NEW a \in DOMAIN chunks[at].raw, Heard(chunks[at].raw[a])
       PROVE  Marks(chunks[at].raw[a]) \subseteq Held'
  <2>1. a \in Candidates' /\ todo'[a] = chunks[at].raw[a]
    BY <1>1, <1>6a DEF Candidates, Heard, Typed, TypeOK
  <2> QED BY <2>1 DEF Held, Kept
<1>7. Complete'
  BY <1>1, <1>2, <1>6, <1>6a DEF Complete, Heard
<1> QED BY <1>5, <1>7

LEMMA EndChunkKeeps ==
  ASSUME Typed, Idle, Single, Complete, EndChunk
  PROVE  Single' /\ Complete'
<1> DEFINE based == [i \in DOMAIN made |-> Rebased(made[i])]
<1>1. /\ todo = <<>> /\ todo' = <<>> /\ made' = <<>> /\ script' = script \o based
      /\ UNCHANGED <<engine, chunks, dropped>> /\ at' = at + 1
      /\ phase = "chain" /\ phase' = "chunk"
  BY DEF EndChunk, aside
<1>2. script \in Seq(Segment) /\ made \in Seq(Segment)
  BY DEF Typed, TypeOK
<1>3. \A i \in DOMAIN made : Rebased(made[i]) \in Segment /\ Rebased(made[i]).text = made[i].text
  <2> TAKE i \in DOMAIN made
  <2>1. made[i] \in Segment /\ offset \in Nat
    BY <1>2 DEF Typed, TypeOK
  <2> QED BY <2>1, RebasedType DEF Rebased, Segment
<1>4. /\ based \in Seq(Segment) /\ DOMAIN based = DOMAIN made
      /\ \A i \in DOMAIN made : based[i].text = made[i].text
  <2>1. DOMAIN made = 1..Len(made) /\ Len(made) \in Nat
    BY <1>2
  <2> QED BY <1>3, <2>1
<1> HIDE DEF based
<1>5. Once(script) /\ Once(made) /\ Said(script) \cap Said(made) = {}
  BY DEF Single, Apart
<1>6. Once(based) /\ Said(based) = Said(made)
  BY <1>4, <1>5, SameTexts
<1>7. Once(script') /\ Said(script') = Said(script) \cup Said(made)
  <2>1. Apart(script, based)
    BY <1>5, <1>6 DEF Apart
  <2> QED BY <1>1, <1>2, <1>4, <1>6, <2>1, TogetherOnce
<1>8. TakenChunks' = TakenChunks
  BY <1>1, ChunkNumbers
<1>9. Taken' = Taken
  BY <1>1, <1>8 DEF Taken
<1>10. Single'
  BY <1>1, <1>7, <1>9, NothingSaid DEF Single, Apart
<1>11. Held \subseteq Held'
  <2>1. Kept = {}
    BY <1>1, HeldAll, NothingSaid
  <2> QED BY <1>1, <1>7, <2>1, LostKept DEF Held
<1>12. Complete'
  BY <1>1, <1>8, <1>11 DEF Complete, Heard
<1> QED BY <1>10, <1>12

\* All segments change places at once.
LEMMA HandOverKeeps ==
  ASSUME Typed, Idle, Single, Complete, AllChunks \/ EndOrder \/ EndSplit
  PROVE  Single' /\ Complete'
<1>1. UNCHANGED <<engine, chunks, dropped, at>>
  BY DEF AllChunks, EndOrder, EndSplit, aside
<1>2. TakenChunks' = TakenChunks /\ Taken' = Taken
  <2>1. CASE AllChunks
    <3>1. at > Len(chunks) /\ phase = "chunk" /\ phase' = "order"
      BY <2>1 DEF AllChunks
    <3>2. TakenChunks' = TakenChunks
      BY <1>1, <3>1, ChunkNumbers
    <3> QED BY <1>1, <3>2 DEF Taken
  <2>2. CASE EndOrder \/ EndSplit
    BY <1>1, <2>2 DEF EndOrder, EndSplit, TakenChunks, Taken
  <2> QED BY <2>1, <2>2
<1>3. CASE AllChunks
  <2>1. /\ todo = <<>> /\ made = <<>> /\ todo' = script /\ made' = <<>> /\ script' = <<>>
        /\ phase = "chunk" /\ phase' = "order"
    BY <1>3 DEF AllChunks, Idle
  <2>2. Single'
    BY <1>2, <2>1, NothingSaid DEF Single, Apart
  <2>3. Held \subseteq Held'
    <3>1. Kept = {} /\ Kept' = Said(script)
      BY <2>1, HeldAll, NothingSaid
    <3> QED BY <1>1, <2>1, <3>1, NothingSaid, LostKept DEF Held
  <2> QED BY <1>1, <1>2, <2>2, <2>3 DEF Complete, Heard
<1>4. CASE EndOrder \/ EndSplit
  <2>1. /\ todo = <<>> /\ todo' = <<>> /\ script' = made /\ made' = <<>>
        /\ phase' = "place" /\ phase \in {"order", "split"}
    BY <1>4 DEF EndOrder, EndSplit
  <2>2. Single'
    BY <1>2, <2>1, NothingSaid DEF Single, Apart
  <2>3. script = <<>>
    BY <2>1 DEF Idle, Typed, TypeOK
  <2>4. Held \subseteq Held'
    <3>1. Kept = {}
      BY <2>1, HeldAll, NothingSaid
    <3> QED BY <1>1, <2>1, <2>3, <3>1, NothingSaid, LostKept DEF Held
  <2> QED BY <1>1, <1>2, <2>2, <2>4 DEF Complete, Heard
<1> QED BY <1>3, <1>4

LEMMA OnceStep == Typed /\ Idle /\ Single /\ Complete /\ [Next]_vars => Single' /\ Complete'
<1> SUFFICES ASSUME Typed, Idle, Single, Complete, [Next]_vars PROVE Single' /\ Complete'
  OBVIOUS
<1>1. CASE TakeChunk
  BY <1>1, TakeChunkKeeps
<1>2. CASE EndChunk
  BY <1>2, EndChunkKeeps
<1>3. CASE AllChunks \/ EndOrder \/ EndSplit
  BY <1>3, HandOverKeeps
<1>4. CASE TakeEarliest
  BY <1>4, EarliestMoves, MovedKeeps
<1>5. CASE EndSort \/ EndShort \/ EndMerge
  BY <1>5, PassMoves, MovedKeeps
<1>6. CASE KeepHead \/ Link \/ Open
  BY <1>6, AppendMoves, MovedKeeps
<1>7. CASE SkipBlank \/ KeepWhole \/ LastPiece
  BY <1>7, PieceMoves, MovedKeeps
<1>8. CASE JoinBack \/ Fold \/ Absorb
  BY <1>8, JoinMoves, MovedKeeps
<1>9. CASE JoinNext
  BY <1>9, NextMoves, MovedKeeps
<1>10. CASE Cut
  BY <1>10, CutMoves, MovedKeeps
<1>11. CASE Align \/ Done \/ UNCHANGED vars
  <2>1. UNCHANGED <<engine, chunks, dropped, at, todo, made, script>>
    BY <1>11 DEF Align, Place, EndPlace, Lay, EndMux, Done, aside, timeline, vars
  <2>1a. phase' = phase \/ (phase \in {"place", "mux"} /\ phase' \in {"mux", "done"})
    BY <1>11 DEF Align, Place, EndPlace, Lay, EndMux, Done, vars
  <2>2. TakenChunks' = TakenChunks /\ Candidates' = Candidates
    BY <2>1, <2>1a DEF TakenChunks, Candidates
  <2>3. Taken' = Taken /\ Kept' = Kept /\ Lost' = Lost
    BY <2>1, <2>2 DEF Taken, Kept, Lost
  <2> QED BY <2>1, <2>2, <2>3 DEF Single, Complete, Heard, Held
<1> QED
  BY <1>1, <1>2, <1>3, <1>4, <1>5, <1>6, <1>7, <1>8, <1>9, <1>10, <1>11
  DEF Next, Normalise, Sentences

\* Of what was heard nothing is lost, but what was in a piece of Whisper's that was too
\* short, and nothing is said twice in the script that is dubbed.
THEOREM EverySentenceOnce == Spec => []SpokenOnce
<1>1. Init => Idle /\ Single /\ Complete
  <2> SUFFICES ASSUME Init PROVE Idle /\ Single /\ Complete
    OBVIOUS
  <2>1. /\ phase = "chunk" /\ at = 1 /\ todo = <<>> /\ made = <<>> /\ script = <<>>
        /\ chunks \in GeminiInputs \cup WhisperInputs /\ dropped = {}
        /\ engine = "whisper" => Len(chunks) = 1
    BY InputAssumption DEF Init
  <2>2. DOMAIN chunks \subseteq Nat \ {0}
    BY <2>1, InputAssumption
  <2>3. TakenChunks = {}
    BY <2>1, <2>2 DEF TakenChunks
  <2> QED BY <2>1, <2>3, NothingSaid DEF Idle, Single, Complete, Apart
<1>2. Typed /\ Idle /\ Single /\ Complete => SpokenOnce
  <2> SUFFICES ASSUME Typed, Idle, Single, Complete, Scripted PROVE SpokenOnce
    BY DEF SpokenOnce
  <2>1. todo = <<>> /\ made = <<>> /\ phase # "sort"
    BY DEF Idle, Scripted
  <2>2. Held = Said(script) \cup Lost
    BY <2>1, HeldAll, NothingSaid DEF Held
  <2>3. ASSUME NEW c \in DOMAIN chunks, NEW a \in DOMAIN chunks[c].raw,
               engine = "gemini" => Usable(chunks[c].raw[a]),
               NEW m \in DOMAIN chunks[c].raw[a].text
        PROVE  LET t == chunks[c].raw[a].text[m]
               IN \/ \E i \in DOMAIN script : Says(script[i], t)
                  \/ /\ engine = "whisper"
                     /\ \E s \in dropped : Duration(s) < MinSplit /\ Says(s, t)
    <3> DEFINE t == chunks[c].raw[a].text[m]
    <3>1. c \in TakenChunks
      <4>1. CASE engine = "gemini"
        <5>1. at > Len(chunks)
          BY <4>1 DEF Idle, Scripted
        <5> QED BY <5>1, ChunkNumbers
      <4>2. CASE engine = "whisper"
        <5>1. at = 1 /\ Len(chunks) = 1 /\ chunks \in Seq(Chunk)
          BY <4>2 DEF Idle, Typed, TypeOK
        <5>2. c = at /\ phase # "chunk"
          BY <5>1 DEF Scripted
        <5> QED BY <5>2 DEF TakenChunks
      <4> QED BY <4>1, <4>2 DEF Typed, TypeOK
    <3>2. Marks(chunks[c].raw[a]) \subseteq Held
      BY <2>3, <3>1 DEF Complete, Heard
    <3>3. t \in Said(script) \cup Lost
      BY <2>2, <3>2 DEF Marks, Parts
    <3>4. CASE t \in Said(script)
      BY <3>4 DEF Said, Marks, Parts, Says
    <3>5. CASE t \in Lost
      <4>1. PICK s \in dropped : t \in Marks(s)
        BY <3>5 DEF Lost
      <4>2. engine = "whisper" /\ Duration(s) < MinSplit
        BY <4>1 DEF Idle, Typed, TypeOK
      <4> QED BY <4>1, <4>2 DEF Marks, Parts, Says
    <3> QED BY <3>3, <3>4, <3>5
  <2>4. ASSUME NEW i \in DOMAIN script, NEW j \in DOMAIN script,
               NEW m \in DOMAIN script[i].text, NEW n \in DOMAIN script[j].text,
               script[i].text[m] = script[j].text[n]
        PROVE  i = j /\ m = n
    <3>1. script[i].text[m] \in Marks(script[i]) /\ script[j].text[n] \in Marks(script[j])
      BY DEF Marks, Parts
    <3>2. i = j
      BY <2>4, <3>1 DEF Single, Once
    <3>3. Plain(script[i].text)
      BY DEF Single, Once
    <3> QED BY <2>4, <3>2, <3>3 DEF Plain
  <2> QED BY <2>3, <2>4 DEF SpokenOnce
<1> QED BY <1>1, <1>2, TypedInit, TypedStep, IdleStep, OnceStep, PTL DEF Spec

----------------------------------------------------------------------------
(* Whisper's fragments and the sentences they are merged into *)

\* The fragment r is part of the sentence s.
Has(s, r) == r.text # <<>> /\ r.text[1] \in Parts(s.text)

\* What holds of a sentence when the first k fragments were read: it ends where one of
\* its parts does, and none of its parts is still to be read.
Sentence(s, raw, k) ==
  /\ \/ Duration(s) <= MaxMerge
     \/ \E a \in DOMAIN raw : s.start = raw[a].start /\ s.end = raw[a].end
  /\ \E b \in 1..k : Has(s, raw[b]) /\ s.end = raw[b].end
  /\ \A a \in DOMAIN raw : Has(s, raw[a]) => a <= k
  /\ \A a, c \in DOMAIN raw :
       c < a /\ Has(s, raw[c]) /\ Has(s, raw[a])
         => \E b \in 1..(a - 1) : Has(s, raw[b]) /\ raw[a].start - raw[b].end <= MaxGap

Merging ==
  phase = "merge" =>
    LET raw == chunks[at].raw
        k == Len(raw) - Len(todo)
    IN  /\ k \in Nat
        /\ \A i \in DOMAIN todo : todo[i] = raw[k + i]
        /\ \A i \in DOMAIN made : Sentence(made[i], raw, k)

\* A fragment is read that the sentence does not take.
LEMMA SentenceKept ==
  ASSUME NEW raw \in Seq(Segment), NEW k \in Nat, NEW s, Sentence(s, raw, k)
  PROVE  Sentence(s, raw, k + 1)
<1>1. 1..k \subseteq 1..(k + 1)
  OBVIOUS
<1>2. \A a \in DOMAIN raw : a \in Nat /\ (a <= k => a <= k + 1)
  OBVIOUS
<1> QED BY <1>1, <1>2 DEF Sentence

\* Another fragment says none of what h says.
LEMMA OtherFragment ==
  ASSUME NEW raw \in Seq(Segment), Once(raw), NEW h \in DOMAIN raw, raw[h].text # <<>>,
         NEW a \in DOMAIN raw
  PROVE  Has(raw[h], raw[a]) <=> a = h
<1>1. ASSUME raw[a].text # <<>> PROVE raw[a].text[1] \in Marks(raw[a])
  <2>1. raw[a] \in Segment
    OBVIOUS
  <2>2. 1 \in DOMAIN raw[a].text
    BY <1>1, <2>1 DEF Segment
  <2> QED BY <2>2 DEF Marks, Parts
<1>2. CASE a = h
  BY <1>1, <1>2 DEF Has, Marks
<1>3. CASE a # h
  <2>1. Marks(raw[a]) \cap Marks(raw[h]) = {}
    BY <1>3 DEF Once
  <2> QED BY <1>1, <1>3, <2>1 DEF Has, Marks
<1> QED BY <1>2, <1>3

\* It opens a sentence.
LEMMA SentenceOpened ==
  ASSUME NEW raw \in Seq(Segment), Once(raw), NEW k \in Nat, k + 1 \in DOMAIN raw,
         raw[k + 1].text # <<>>
  PROVE  Sentence(raw[k + 1], raw, k + 1)
<1> DEFINE h == k + 1
<1>1. h \in DOMAIN raw /\ h \in 1..h /\ h \in Nat
  OBVIOUS
<1>2. raw[h].text # <<>>
  OBVIOUS
<1>3. \A a \in DOMAIN raw : a \in Nat
  OBVIOUS
<1> HIDE DEF h
<1>4. \A a \in DOMAIN raw : Has(raw[h], raw[a]) <=> a = h
  BY <1>1, <1>2, OtherFragment
<1>5. Sentence(raw[h], raw, h)
  BY <1>1, <1>3, <1>4 DEF Sentence
<1> QED BY <1>5 DEF h

\* The sentence takes it.
LEMMA SentenceAbsorbs ==
  ASSUME NEW raw \in Seq(Segment), Once(raw), NEW k \in Nat, k + 1 \in DOMAIN raw,
         raw[k + 1].text # <<>>,
         NEW s \in Segment, Sentence(s, raw, k),
         raw[k + 1].start - s.end <= MaxGap, raw[k + 1].end - s.start <= MaxMerge,
         NEW t, t.start = s.start, t.end = Later(s.end, raw[k + 1].end),
         t.text = s.text \o raw[k + 1].text
  PROVE  Sentence(t, raw, k + 1)
<1> DEFINE h == k + 1
<1>1. /\ h \in DOMAIN raw /\ h \in 1..h /\ h \in Nat /\ k < h /\ 1..k \subseteq 1..h
      /\ h - 1 = k
  OBVIOUS
<1>2. raw[h] \in Segment /\ raw[h].text # <<>>
  OBVIOUS
<1>3. /\ raw[h].start - s.end <= MaxGap /\ raw[h].end - s.start <= MaxMerge
      /\ t.start = s.start /\ t.end = Later(s.end, raw[h].end)
      /\ t.text = s.text \o raw[h].text
  OBVIOUS
<1> HIDE DEF h
<1>4. /\ raw[h].start \in Nat /\ raw[h].end \in Nat /\ s.start \in Nat /\ s.end \in Nat
      /\ raw[h].text \in Seq(Texts) /\ s.text \in Seq(Texts)
  BY <1>2 DEF Segment
<1>5. Parts(t.text) = Parts(s.text) \cup Parts(raw[h].text)
  BY <1>3, <1>4, ConcatParts
<1>6. \A a \in DOMAIN raw : Has(t, raw[a]) <=> Has(s, raw[a]) \/ a = h
  <2>1. \A a \in DOMAIN raw : Has(raw[h], raw[a]) <=> a = h
    BY <1>1, <1>2, OtherFragment
  <2> QED BY <1>5, <2>1 DEF Has
<1>7. PICK b \in 1..k : Has(s, raw[b]) /\ s.end = raw[b].end
  BY DEF Sentence
<1>8. b \in DOMAIN raw /\ b \in 1..h
  BY <1>1, <1>7
<1>9. \A a \in DOMAIN raw : a \in Nat /\ (Has(s, raw[a]) => a <= k)
  BY DEF Sentence
<1>10. \/ Duration(t) <= MaxMerge
       \/ \E a \in DOMAIN raw : t.start = raw[a].start /\ t.end = raw[a].end
  <2>1. CASE s.end >= raw[h].end
    <3>1. t.end = s.end
      BY <1>3, <2>1 DEF Later
    <3> QED BY <1>3, <3>1 DEF Sentence, Duration
  <2>2. CASE ~(s.end >= raw[h].end)
    BY <1>3, <2>2 DEF Later, Duration
  <2> QED BY <2>1, <2>2
<1>11. \E e \in 1..h : Has(t, raw[e]) /\ t.end = raw[e].end
  <2>1. CASE s.end >= raw[h].end
    <3>1. t.end = raw[b].end
      BY <1>3, <1>7, <2>1 DEF Later
    <3> QED BY <1>6, <1>7, <1>8, <3>1
  <2>2. CASE ~(s.end >= raw[h].end)
    <3>1. t.end = raw[h].end
      BY <1>3, <2>2 DEF Later
    <3> QED BY <1>1, <1>6, <3>1
  <2> QED BY <2>1, <2>2
<1>12. \A a \in DOMAIN raw : Has(t, raw[a]) => a <= h
  BY <1>1, <1>6, <1>9
<1>13. ASSUME NEW a \in DOMAIN raw, NEW c \in DOMAIN raw, c < a, Has(t, raw[c]), Has(t, raw[a])
       PROVE  \E e \in 1..(a - 1) : Has(t, raw[e]) /\ raw[a].start - raw[e].end <= MaxGap
  <2>1. CASE a = h
    <3>1. raw[a].start - raw[b].end <= MaxGap /\ b \in 1..(a - 1) /\ Has(t, raw[b])
      BY <1>1, <1>3, <1>6, <1>7, <1>8, <2>1
    <3> QED BY <3>1
  <2>2. CASE a # h
    <3>1. Has(s, raw[a]) /\ Has(s, raw[c])
      BY <1>1, <1>6, <1>9, <1>13, <2>2
    <3>2. PICK e \in 1..(a - 1) : Has(s, raw[e]) /\ raw[a].start - raw[e].end <= MaxGap
      BY <1>13, <3>1 DEF Sentence
    <3>3. e \in DOMAIN raw
      BY <3>2
    <3> QED BY <1>6, <3>2, <3>3
  <2> QED BY <2>1, <2>2
<1>14. Sentence(t, raw, h)
  BY <1>10, <1>11, <1>12, <1>13 DEF Sentence
<1> QED BY <1>14 DEF h

LEMMA MergingStep == Typed /\ Idle /\ Merging /\ [Next]_vars => Merging'
<1> SUFFICES ASSUME Typed, Idle, Merging, [Next]_vars PROVE Merging'
  OBVIOUS
<1> DEFINE raw == chunks[at].raw
           k == Len(raw) - Len(todo)
<1>0. /\ todo \in Seq(Segment) /\ made \in Seq(Segment)
      /\ DOMAIN todo = 1..Len(todo) /\ Len(todo) \in Nat
  BY DEF Typed, TypeOK
<1>1. ASSUME at \in DOMAIN chunks
      PROVE  raw \in Seq(Segment) /\ Once(raw) /\ DOMAIN raw = 1..Len(raw) /\ Len(raw) \in Nat
  <2>1. chunks[at] \in Chunk
    BY <1>1 DEF Typed, TypeOK
  <2>2. raw \in Seq(Segment)
    BY <2>1 DEF Chunk
  <2> HIDE DEF raw
  <2>3. Once(chunks[at].raw)
    BY <1>1, InputOnce DEF Idle
  <2> QED BY <2>2, <2>3 DEF raw
<1>2. ASSUME phase = "merge"
      PROVE  /\ at \in DOMAIN chunks /\ k \in Nat
             /\ \A i \in DOMAIN todo : todo[i] = raw[k + i]
             /\ \A i \in DOMAIN made : Sentence(made[i], raw, k)
  BY <1>2 DEF Merging, Typed, TypeOK
<1>3. ASSUME phase = "merge", phase' = "merge", UNCHANGED <<chunks, at>>,
             todo # <<>>, todo' = Tail(todo),
             \A i \in DOMAIN made' : Sentence(made'[i], raw, k + 1)
      PROVE  Merging'
  <2>1. /\ Len(todo') = Len(todo) - 1 /\ DOMAIN todo' = 1..(Len(todo) - 1)
        /\ \A i \in 1..(Len(todo) - 1) : todo'[i] = todo[i + 1]
    BY <1>0, <1>3, HeadTailProperties
  <2>2. Len(raw) \in Nat /\ raw' = raw
    BY <1>1, <1>2, <1>3
  <2> HIDE DEF raw
  <2>3. Len(raw') - Len(todo') = k + 1
    BY <1>0, <2>1, <2>2
  <2>4. ASSUME NEW i \in DOMAIN todo' PROVE todo'[i] = raw[(k + 1) + i]
    <3>1. i + 1 \in DOMAIN todo /\ k + (i + 1) = (k + 1) + i
      BY <1>0, <1>2, <1>3, <2>1
    <3> QED BY <1>2, <1>3, <2>1, <3>1
  <2>5. k + 1 \in Nat
    BY <1>2, <1>3
  <2> HIDE DEF k
  <2>6. /\ Len(raw') - Len(todo') \in Nat
        /\ \A i \in DOMAIN todo' : todo'[i] = raw'[(Len(raw') - Len(todo')) + i]
        /\ \A i \in DOMAIN made' : Sentence(made'[i], raw', Len(raw') - Len(todo'))
    BY <1>3, <2>2, <2>3, <2>4, <2>5
  <2> QED BY <2>6 DEF Merging, raw
<1>4. ASSUME phase = "merge", todo # <<>>
      PROVE  k + 1 \in DOMAIN raw /\ Head1 = raw[k + 1] /\ Head1 \in Segment
  <2>1. 1 \in DOMAIN todo /\ Head1 \in Segment /\ Len(todo) >= 1
    BY <1>0, <1>4, HeadAndTail DEF Head1
  <2>2. Head1 = raw[k + 1]
    BY <1>2, <1>4, <2>1 DEF Head1
  <2> QED BY <1>0, <1>1, <1>2, <1>4, <2>1, <2>2
<1>5. CASE TakeChunk
  <2>1. /\ todo' = raw /\ made' = <<>> /\ UNCHANGED <<chunks, at>>
        /\ at \in DOMAIN chunks
    BY <1>5 DEF TakeChunk, aside, Idle, Typed, TypeOK
  <2>2. Len(raw) - Len(raw) = 0 /\ \A i \in DOMAIN raw : 0 + i = i
    BY <1>1, <2>1
  <2> QED BY <2>1, <2>2 DEF Merging
<1>6. CASE SkipBlank
  <2>1. /\ phase = "merge" /\ phase' = "merge" /\ UNCHANGED <<chunks, at, made>>
        /\ todo # <<>> /\ todo' = Tail(todo)
    BY <1>6 DEF SkipBlank, aside
  <2>2. \A i \in DOMAIN made' : Sentence(made'[i], raw, k + 1)
    BY <1>1, <1>2, <2>1, SentenceKept
  <2> QED BY <1>3, <2>1, <2>2
<1>7. CASE Open
  <2>1. /\ phase = "merge" /\ phase' = "merge" /\ UNCHANGED <<chunks, at>>
        /\ todo # <<>> /\ todo' = Tail(todo) /\ made' = Append(made, Head1)
        /\ Head1.text # <<>>
    BY <1>7 DEF Open, aside
  <2>2. \A i \in DOMAIN made : Sentence(made[i], raw, k + 1)
    BY <1>1, <1>2, <2>1, SentenceKept
  <2>3. Sentence(Head1, raw, k + 1)
    BY <1>1, <1>2, <1>4, <2>1, SentenceOpened
  <2>4. /\ DOMAIN made = 1..Len(made) /\ DOMAIN made' = 1..(Len(made) + 1) /\ Len(made) \in Nat
        /\ \A i \in 1..Len(made) : made'[i] = made[i]
        /\ made'[Len(made) + 1] = Head1
    BY <1>0, <1>4, <2>1, AppendProperties
  <2> HIDE DEF raw, k
  <2>5. \A i \in DOMAIN made' : Sentence(made'[i], raw, k + 1)
    BY <2>2, <2>3, <2>4
  <2> QED BY <1>3, <2>1, <2>5
<1>8. CASE Absorb
  <2> DEFINE s == made[Len(made)]
             end == Later(s.end, Head1.end)
             t == [Joined(s, Head1) EXCEPT !.end = end]
  <2>1. /\ phase = "merge" /\ phase' = "merge" /\ UNCHANGED <<chunks, at>>
        /\ todo # <<>> /\ todo' = Tail(todo) /\ Head1.text # <<>>
        /\ made # <<>> /\ made' = [made EXCEPT ![Len(made)] = t]
        /\ Head1.start - s.end <= MaxGap /\ Head1.end - s.start <= MaxMerge
    BY <1>8 DEF Absorb, Fits, Last, aside
  <2>2. Len(made) \in DOMAIN made /\ s \in Segment
    BY <1>0, <2>1, LastOf
  <2>3. t.start = s.start /\ t.end = end /\ t.text = s.text \o Head1.text
    <3> HIDE DEF end
    <3> QED BY DEF Joined
  <2>4. \A i \in DOMAIN made : Sentence(made[i], raw, k) /\ Sentence(made[i], raw, k + 1)
    BY <1>1, <1>2, <2>1, SentenceKept
  <2>5. Head1 = raw[k + 1] /\ k + 1 \in DOMAIN raw /\ k \in Nat /\ raw \in Seq(Segment) /\ Once(raw)
    BY <1>1, <1>2, <1>4, <2>1
  <2>6. t.end = Later(s.end, raw[k + 1].end) /\ t.text = s.text \o raw[k + 1].text
    BY <2>3, <2>5
  <2> HIDE DEF s, end, t, raw, k
  <2>7. Sentence(s, raw, k)
    BY <2>2, <2>4 DEF s
  <2>8. Sentence(t, raw, k + 1)
    BY <2>1, <2>2, <2>3, <2>5, <2>6, <2>7, SentenceAbsorbs
  <2>9. \A i \in DOMAIN made' : Sentence(made'[i], raw, k + 1)
    BY <2>1, <2>2, <2>4, <2>8
  <2> QED BY <1>3, <2>1, <2>9
<1>9. CASE Normalise \/ EndMerge \/ KeepWhole \/ Cut \/ LastPiece \/ EndSplit \/ Align
  <2>1. phase' # "merge"
    <3>1. CASE Normalise
      BY <3>1 DEF Normalise, TakeEarliest, EndSort, Pass, KeepHead, JoinNext, JoinBack, EndShort,
                  Link, Fold, EndChunk, AllChunks, EndOrder
    <3>2. CASE EndMerge \/ KeepWhole \/ Cut \/ LastPiece \/ EndSplit
      BY <3>2 DEF EndMerge, Pass, KeepWhole, Cut, LastPiece, EndSplit
    <3>3. CASE Align
      BY <3>3 DEF Align, Place, EndPlace, Lay, EndMux
    <3> QED BY <1>9, <3>1, <3>2, <3>3
  <2> QED BY <2>1 DEF Merging
<1>10. CASE Done \/ UNCHANGED vars
  BY <1>10 DEF Done, vars, Merging
<1> QED BY <1>5, <1>6, <1>7, <1>8, <1>9, <1>10 DEF Next, Sentences

\* Fragments become one sentence within the cap and without a longer pause.
THEOREM SentencesWithinLimits == Spec => []SentenceWithinLimits
<1>1. Init => Idle /\ Merging
  BY InputAssumption DEF Init, Idle, Merging
<1>2. Typed /\ Merging => SentenceWithinLimits
  <2> SUFFICES ASSUME Typed, Merging, phase = "merge" PROVE SentenceWithinLimits
    BY DEF SentenceWithinLimits
  <2> DEFINE raw == chunks[at].raw
  <2>1. PICK k \in Nat : \A i \in DOMAIN made : Sentence(made[i], raw, k)
    BY DEF Merging
  <2>2. ASSUME NEW i, NEW r PROVE PartOf(i, r) <=> Has(made[i], r)
    BY DEF PartOf, Has, Parts
  <2> QED BY <2>1, <2>2 DEF SentenceWithinLimits, Sentence
<1> QED BY <1>1, <1>2, TypedInit, TypedStep, IdleStep, MergingStep, PTL DEF Spec
----------------------------------------------------------------------------
(* The loops end *)

\* The work that is left: chunks, for the chunk in hand the loops to come, in the loop
\* that is running its turns, and of a sentence that is being cut the parts.
ChunksLeft == Len(chunks) + 1 - at
LoopsLeft ==
  CASE phase = "chunk" -> 5
    [] phase \in {"sort", "order", "merge"} -> 4
    [] phase \in {"short", "split", "cut"} -> 3
    [] phase \in {"chain", "place"} -> 2
    [] phase = "mux" -> 1
    [] phase = "done" -> 0
TurnsLeft ==
  CASE phase = "place" -> Len(script) - Len(slots)
    [] phase = "mux" -> Len(slots) - Len(dub)
    [] OTHER -> Len(todo)
PartsLeft == IF phase \in {"split", "cut"} /\ todo # <<>> THEN Len(Head1.text) ELSE 0

Counted == ChunksLeft \in Nat /\ LoopsLeft \in Nat /\ TurnsLeft \in Nat /\ PartsLeft \in Nat

\* A step makes one of the four less, and none before it more.
LessWork ==
  \/ ChunksLeft' < ChunksLeft
  \/ /\ ChunksLeft' = ChunksLeft
     /\ \/ LoopsLeft' < LoopsLeft
        \/ /\ LoopsLeft' = LoopsLeft
           /\ \/ TurnsLeft' < TurnsLeft
              \/ TurnsLeft' = TurnsLeft /\ PartsLeft' < PartsLeft

\* No loop goes past its end.
Within ==
  /\ at <= Len(chunks) + 1
  /\ phase = "place" => Len(slots) <= Len(script)

LEMMA WithinStep == Typed /\ Laid /\ Within /\ [Next]_vars => Within'
<1> SUFFICES ASSUME Typed, Laid, Within, [Next]_vars PROVE Within'
  OBVIOUS
<1>0. /\ chunks \in Seq(Chunk) /\ Len(chunks) \in Nat /\ at \in Nat
      /\ slots \in Seq([start : Nat, length : Nat]) /\ Len(slots) \in Nat
      /\ script \in Seq(Segment) /\ Len(script) \in Nat
  BY DEF Typed, TypeOK
<1>1. CASE EndChunk
  <2>1. at <= Len(chunks) /\ at' = at + 1 /\ chunks' = chunks /\ phase' = "chunk"
    BY <1>1 DEF EndChunk, Typed, aside
  <2> QED BY <1>0, <2>1 DEF Within
<1>2. ASSUME NEW length \in Lengths, Place(length) PROVE Within'
  <2> DEFINE pos == Later(script[Len(slots) + 1].start * Slow, cursor)
             new == [start |-> pos, length |-> length]
  <2>1. /\ slots' = Append(slots, new) /\ Len(slots) < Len(script)
        /\ UNCHANGED <<chunks, at, script>>
    BY <1>2 DEF Place, aside
  <2> HIDE DEF new
  <2>2. Len(slots') = Len(slots) + 1
    BY <1>0, <2>1
  <2> QED BY <1>0, <2>1, <2>2 DEF Within
<1>3. CASE EndOrder \/ EndSplit
  <2>1. UNCHANGED <<chunks, at, slots>> /\ phase \in {"order", "split"}
    BY <1>3 DEF EndOrder, EndSplit, aside, timeline
  <2>2. slots = <<>>
    BY <2>1 DEF Laid
  <2>3. script' \in Seq(Segment)
    BY TypedStep DEF Typed, TypeOK
  <2>4. Len(slots') = 0 /\ Len(script') >= 0
    BY <2>1, <2>2, <2>3
  <2> QED BY <2>1, <2>4 DEF Within
<1>4. CASE Normalise /\ ~EndChunk /\ ~EndOrder
  <2>1. UNCHANGED <<chunks, at>> /\ phase' # "place"
    BY <1>4 DEF Normalise, TakeEarliest, EndSort, Pass, KeepHead, JoinNext, JoinBack, EndShort,
                Link, Fold, AllChunks, aside
  <2> QED BY <2>1 DEF Within
<1>5. CASE Sentences /\ ~EndSplit
  <2>1. UNCHANGED <<chunks, at>> /\ phase' # "place"
    BY <1>5 DEF Sentences, SkipBlank, Absorb, Open, EndMerge, Pass, KeepWhole, Cut, LastPiece, aside
  <2> QED BY <2>1 DEF Within
<1>6. CASE TakeChunk \/ EndPlace \/ Lay \/ EndMux
  <2>1. UNCHANGED <<chunks, at>> /\ phase' # "place"
    BY <1>6 DEF TakeChunk, EndPlace, Lay, EndMux, aside
  <2> QED BY <2>1 DEF Within
<1>7. CASE Done \/ UNCHANGED vars
  BY <1>7 DEF Done, vars, Within
<1> QED BY <1>1, <1>2, <1>3, <1>4, <1>5, <1>6, <1>7 DEF Next, Align

LEMMA AllCounted == Typed /\ Laid /\ Within => Counted
<1> SUFFICES ASSUME Typed, Laid, Within PROVE Counted
  OBVIOUS
<1>0. /\ Len(chunks) \in Nat /\ at \in Nat /\ at <= Len(chunks) + 1
      /\ Len(slots) \in Nat /\ Len(script) \in Nat /\ Len(dub) \in Nat
      /\ todo \in Seq(Segment) /\ Len(todo) \in Nat /\ phase \in Phases
  BY DEF Typed, TypeOK, Within
<1>1. ChunksLeft \in Nat
  BY <1>0 DEF ChunksLeft
<1>2. LoopsLeft \in Nat
  BY <1>0 DEF LoopsLeft, Phases
<1>3. TurnsLeft \in Nat
  <2>1. /\ phase = "place" => Len(slots) <= Len(script)
        /\ phase = "mux" => Len(dub) <= Len(slots)
    BY DEF Within, Laid
  <2>2. CASE phase = "place"
    BY <1>0, <2>1, <2>2 DEF TurnsLeft
  <2>3. CASE phase = "mux"
    BY <1>0, <2>1, <2>3 DEF TurnsLeft
  <2>4. CASE phase \notin {"place", "mux"}
    BY <1>0, <2>4 DEF TurnsLeft
  <2> QED BY <2>2, <2>3, <2>4
<1>4. PartsLeft \in Nat
  <2>1. CASE phase \in {"split", "cut"} /\ todo # <<>>
    <3>1. Head1 \in Segment
      BY <1>0, <2>1, HeadAndTail DEF Head1
    <3>2. Head1.text \in Seq(Texts)
      BY <3>1 DEF Segment
    <3> QED BY <2>1, <3>2 DEF PartsLeft
  <2>2. CASE ~(phase \in {"split", "cut"} /\ todo # <<>>)
    BY <2>2 DEF PartsLeft
  <2> QED BY <2>1, <2>2
<1> QED BY <1>1, <1>2, <1>3, <1>4 DEF Counted

\* A loop that goes on has one turn less to go.
LEMMA TurnTaken ==
  ASSUME Typed, UNCHANGED <<chunks, at>>, LoopsLeft' = LoopsLeft,
         phase \notin {"place", "mux"}, phase' \notin {"place", "mux"},
         Len(todo') = Len(todo) - 1
  PROVE  LessWork
<1>1. Len(todo) \in Nat
  BY DEF Typed, TypeOK
<1>2. TurnsLeft = Len(todo) /\ TurnsLeft' = Len(todo')
  BY DEF TurnsLeft
<1>3. ChunksLeft' = ChunksLeft
  BY DEF ChunksLeft
<1> QED BY <1>1, <1>2, <1>3 DEF LessWork

LEMMA StepShrinks ==
  ASSUME Typed, Laid, Within, Next, ~Done
  PROVE  LessWork
<1>0. /\ Len(chunks) \in Nat /\ at \in Nat
      /\ todo \in Seq(Segment) /\ Len(todo) \in Nat
      /\ slots \in Seq([start : Nat, length : Nat]) /\ Len(slots) \in Nat
      /\ dub \in Seq(Nat) /\ Len(dub) \in Nat /\ Len(script) \in Nat
  BY DEF Typed, TypeOK
<1>1. CASE TakeChunk \/ EndSort \/ EndShort \/ AllChunks \/ EndOrder \/ EndMerge \/ EndSplit
  <2>1. LoopsLeft' < LoopsLeft
    BY <1>1 DEF TakeChunk, EndSort, EndShort, AllChunks, EndOrder, EndMerge, EndSplit, Pass, LoopsLeft
  <2>2. UNCHANGED <<chunks, at>>
    BY <1>1 DEF TakeChunk, EndSort, EndShort, AllChunks, EndOrder, EndMerge, EndSplit, aside
  <2> QED BY <2>1, <2>2 DEF LessWork, ChunksLeft
<1>2. CASE EndPlace \/ EndMux
  <2>1. LoopsLeft' < LoopsLeft
    BY <1>2 DEF EndPlace, EndMux, LoopsLeft
  <2>2. UNCHANGED <<chunks, at>>
    BY <1>2 DEF EndPlace, EndMux, aside
  <2> QED BY <2>1, <2>2 DEF LessWork, ChunksLeft
<1>3. CASE EndChunk
  <2>1. at' = at + 1 /\ chunks' = chunks
    BY <1>3 DEF EndChunk, aside
  <2> QED BY <1>0, <2>1 DEF LessWork, ChunksLeft
<1>4. CASE TakeEarliest
  <2>1. PICK i \in Candidates : todo' = RemoveAt(todo, i)
    BY <1>4 DEF TakeEarliest
  <2>2. i \in DOMAIN todo
    BY DEF Candidates
  <2>3. Len(todo') = Len(todo) - 1
    BY <1>0, <2>1, <2>2, RemovedAt
  <2>4. UNCHANGED <<chunks, at, phase>> /\ phase \in {"sort", "order"}
    BY <1>4 DEF TakeEarliest, aside
  <2>5. LoopsLeft' = LoopsLeft
    BY <2>4 DEF LoopsLeft
  <2> QED BY <2>3, <2>4, <2>5, TurnTaken
<1>5. CASE KeepHead \/ Link \/ Fold \/ SkipBlank \/ Absorb \/ Open \/ KeepWhole
  <2>1. /\ todo # <<>> /\ todo' = Tail(todo) /\ UNCHANGED <<chunks, at, phase>>
        /\ phase \in {"short", "chain", "merge", "split"}
    BY <1>5 DEF KeepHead, Link, Fold, SkipBlank, Absorb, Open, KeepWhole, aside
  <2>2. Len(todo') = Len(todo) - 1
    BY <1>0, <2>1, HeadAndTail
  <2>3. LoopsLeft' = LoopsLeft
    BY <2>1 DEF LoopsLeft
  <2> QED BY <2>1, <2>2, <2>3, TurnTaken
<1>6. CASE JoinNext
  <2> DEFINE new == Joined(Head1, Tail(todo)[1])
  <2>1. /\ Len(todo) > 1 /\ todo' = [Tail(todo) EXCEPT ![1] = new]
        /\ UNCHANGED <<chunks, at, phase>> /\ phase = "short"
    BY <1>6 DEF JoinNext, aside
  <2> HIDE DEF new
  <2>2. Tail(todo) \in Seq(Segment) /\ Len(Tail(todo)) = Len(todo) - 1
    BY <1>0, <2>1, HeadAndTail
  <2>3. Len(todo') = Len(todo) - 1
    BY <2>1, <2>2
  <2>4. LoopsLeft' = LoopsLeft
    BY <2>1 DEF LoopsLeft
  <2> QED BY <2>1, <2>3, <2>4, TurnTaken
<1>7. CASE JoinBack
  <2>1. Len(todo) = 1 /\ todo' = <<>> /\ UNCHANGED <<chunks, at, phase>> /\ phase = "short"
    BY <1>7 DEF JoinBack, aside
  <2>2. Len(todo') = Len(todo) - 1
    BY <2>1
  <2>3. LoopsLeft' = LoopsLeft
    BY <2>1 DEF LoopsLeft
  <2> QED BY <2>1, <2>2, <2>3, TurnTaken
<1>8. CASE LastPiece
  <2>1. todo # <<>> /\ todo' = Tail(todo) /\ UNCHANGED <<chunks, at>> /\ phase = "cut" /\ phase' = "split"
    BY <1>8 DEF LastPiece, aside, Typed
  <2>2. Len(todo') = Len(todo) - 1
    BY <1>0, <2>1, HeadAndTail
  <2>3. LoopsLeft' = LoopsLeft
    BY <2>1 DEF LoopsLeft
  <2> QED BY <2>1, <2>2, <2>3, TurnTaken
<1>9. CASE Cut
  <2>1. todo # <<>> /\ phase \in {"split", "cut"} /\ phase' = "cut" /\ UNCHANGED <<chunks, at>>
    BY <1>9 DEF Cut, aside, Typed
  <2>2. Len(todo) >= 1 /\ Head1 \in Segment
    BY <1>0, <2>1, HeadAndTail DEF Head1
  <2>3. PICK n \in 1..(Len(Head1.text) - 1), t \in Head1.start..Head1.end :
          todo' = [todo EXCEPT ![1] = [Head1 EXCEPT !.start = t,
                                         !.text = SubSeq(Head1.text, n + 1, Len(Head1.text))]]
    BY <1>9 DEF Cut
  <2> DEFINE new == [Head1 EXCEPT !.start = t, !.text = SubSeq(Head1.text, n + 1, Len(Head1.text))]
  <2>4. Head1.text \in Seq(Texts) /\ Len(Head1.text) \in Nat
    BY <2>2 DEF Segment
  <2>5. new.text = SubSeq(Head1.text, n + 1, Len(Head1.text))
    BY <2>2 DEF Segment
  <2>6. Len(new.text) < Len(Head1.text)
    BY <2>4, <2>5, SubSeqProperties
  <2> HIDE DEF new
  <2>7. todo' = [todo EXCEPT ![1] = new]
    BY <2>3 DEF new
  <2>8. Len(todo') = Len(todo) /\ todo'[1] = new /\ todo' # <<>>
    BY <1>0, <2>2, <2>7
  <2>9. PartsLeft' < PartsLeft
    BY <2>1, <2>6, <2>8 DEF PartsLeft, Head1
  <2>10. TurnsLeft' = TurnsLeft /\ LoopsLeft' = LoopsLeft
    BY <2>1, <2>8 DEF TurnsLeft, LoopsLeft
  <2> QED BY <2>1, <2>9, <2>10 DEF LessWork, ChunksLeft
<1>10. ASSUME NEW length \in Lengths, Place(length) PROVE LessWork
  <2> DEFINE pos == Later(script[Len(slots) + 1].start * Slow, cursor)
             new == [start |-> pos, length |-> length]
  <2>1. slots' = Append(slots, new) /\ phase = "place" /\ UNCHANGED <<chunks, at, phase, script>>
    BY <1>10 DEF Place, aside
  <2> HIDE DEF new
  <2>2. Len(slots') = Len(slots) + 1
    BY <1>0, <2>1
  <2>3. TurnsLeft' < TurnsLeft
    BY <1>0, <2>1, <2>2 DEF TurnsLeft
  <2>4. ChunksLeft' = ChunksLeft /\ LoopsLeft' = LoopsLeft
    BY <2>1 DEF ChunksLeft, LoopsLeft
  <2> QED BY <2>3, <2>4 DEF LessWork
<1>11. CASE Lay
  <2> DEFINE start == Later(slots[Len(dub) + 1].start, cursor)
  <2>1. dub' = Append(dub, start) /\ phase = "mux" /\ UNCHANGED <<chunks, at, phase, slots>>
    BY <1>11 DEF Lay, aside
  <2> HIDE DEF start
  <2>2. Len(dub') = Len(dub) + 1
    BY <1>0, <2>1
  <2>3. TurnsLeft' < TurnsLeft
    BY <1>0, <2>1, <2>2 DEF TurnsLeft
  <2>4. ChunksLeft' = ChunksLeft /\ LoopsLeft' = LoopsLeft
    BY <2>1 DEF ChunksLeft, LoopsLeft
  <2> QED BY <2>3, <2>4 DEF LessWork
<1> QED BY <1>1, <1>2, <1>3, <1>4, <1>5, <1>6, <1>7, <1>8, <1>9, <1>10, <1>11
        DEF Next, Normalise, Sentences, Align

\* No loop of the timeline runs for ever, whatever the transcription is: four counts,
\* none ever below zero, of which every step makes one less and none before it more.
THEOREM LoopsEnd == Spec => []Counted /\ [][LessWork]_vars
<1>1. Init => Laid /\ Within
  <2>1. DOMAIN <<>> = {}
    OBVIOUS
  <2>2. Init => Within
    BY InputAssumption DEF Init, Within
  <2> QED BY <2>1, <2>2 DEF Init, Laid, NoDrift
<1>2. Typed /\ Laid /\ Within /\ [Next]_vars => [LessWork]_vars
  BY StepShrinks DEF Done
<1> QED BY <1>1, <1>2, TypedInit, TypedStep, LaidStep, WithinStep, AllCounted, PTL DEF Spec
=============================================================================
