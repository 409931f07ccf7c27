----------------------- MODULE PipelineEventsProofs -----------------------
(***************************************************************************)
(* Proofs about the event streams.  A behaviour of PipelineEvents is one   *)
(* of PipelineJobs, so what is proved there holds here; the invariants of  *)
(* the streams need nothing of the jobs but the type of the records and    *)
(* how a step of the jobs changes the lists and queues (Notify).           *)
(***************************************************************************)
EXTENDS PipelineEvents, PipelineJobsProofs

\* A listed stream listens to the record that is there, and a queue holds events
\* of the record its stream listens to.
Listed ==
  \A i \in Ids : \A w \in listeners[i] :
    /\ Listening(w)
    /\ stream[w].id = i
    /\ stream[w].born = IF i \in Present THEN rec[i].born ELSE 0
OwnEvents ==
  \A w \in Watchers :
    stream[w] # NoStream =>
      \A k \in DOMAIN stream[w].queue : stream[w].queue[k].born = stream[w].born

\* Before a stream listens its queue is not there yet.
QuietBefore ==
  \A w \in Watchers :
    stream[w] # NoStream /\ stream[w].at # "listening" => stream[w].queue = <<>>

\* The end of the job of a listed stream is in its queue.
EndQueued ==
  \A w \in Watchers :
    /\ Listening(w)
    /\ w \in listeners[stream[w].id]
    /\ stream[w].id \in WithStatus(Terminal)
    => \/ stream[w].late \/ stream[w].lost
       \/ \E k \in DOMAIN stream[w].queue : stream[w].queue[k].status \in Terminal

----------------------------------------------------------------------------
(* The jobs below *)

\* Every step of the streams is a step of the jobs or leaves them alone.
LEMMA JobsBelow == [EventsNext]_allVars => [Next]_vars
<1> SUFFICES ASSUME [EventsNext]_allVars PROVE [Next]_vars
  OBVIOUS
<1>1. CASE JobStep
  BY <1>1 DEF JobStep
<1>2. CASE ProcessEnds
  BY <1>2 DEF ProcessEnds, Next
<1>3. CASE \E i \in Ids : Refresh(i)
  BY <1>3 DEF Refresh
<1>4. CASE \E w \in Watchers, i \in Ids : Open(w, i)
  BY <1>4 DEF Open
<1>5. CASE \E w \in Watchers : Snapshot(w) \/ Register(w) \/ Deliver(w) \/ Disconnect(w)
  BY <1>5 DEF Snapshot, Register, Deliver, Disconnect
<1>6. CASE UNCHANGED allVars
  BY <1>6 DEF allVars
<1> QED BY <1>1, <1>2, <1>3, <1>4, <1>5, <1>6 DEF EventsNext

\* main.py job_events on top of jobs.py: the streams only watch; every behaviour of
\* the worker with its streams is one of its jobs.
THEOREM StreamsOnlyWatch == EventsSpec => Spec
<1>1. EventsInit => Init
  BY DEF EventsInit
<1> QED BY <1>1, JobsBelow, PTL DEF EventsSpec, Spec

LEMMA JobsTyped == EventsSpec => []Typed
BY StreamsOnlyWatch, TypedHolds, PTL

----------------------------------------------------------------------------
(* One event offered to one queue *)

\* put_nowait appends the event or drops it, and touches nothing else.
LEMMA OfferedFacts ==
  ASSUME NEW s \in Stream, Len(s.queue) <= QueueSize, NEW r \in Record
  PROVE  /\ Offered(s, r) \in Stream
         /\ Len(Offered(s, r).queue) <= QueueSize
         /\ Offered(s, r).id = s.id /\ Offered(s, r).at = s.at
         /\ Offered(s, r).born = s.born /\ Offered(s, r).late = s.late
         /\ \/ /\ Offered(s, r).queue = s.queue
               /\ Offered(s, r).lost
            \/ /\ Offered(s, r).queue = Append(s.queue, [born |-> r.born, status |-> r.status])
               /\ Offered(s, r).lost = s.lost
<1> DEFINE event == [born |-> r.born, status |-> r.status]
<1>1. event \in Event
  BY DEF Record, Event
<1>2. CASE Len(s.queue) < QueueSize
  <2>1. Offered(s, r) = [s EXCEPT !.queue = Append(@, event)]
    BY <1>2 DEF Offered
  <2>2. Append(s.queue, event) \in Seq(Event) /\ Len(Append(s.queue, event)) = Len(s.queue) + 1
    BY <1>1 DEF Stream
  <2> HIDE DEF event
  <2>3. Len(Append(s.queue, event)) <= QueueSize
    BY <1>2, <2>2, QueueAssumption DEF Stream
  <2>4. /\ Offered(s, r) \in Stream /\ Offered(s, r).queue = Append(s.queue, event)
        /\ Offered(s, r).id = s.id /\ Offered(s, r).at = s.at
        /\ Offered(s, r).born = s.born /\ Offered(s, r).late = s.late
        /\ Offered(s, r).lost = s.lost
    BY <2>1, <2>2 DEF Stream
  <2> QED BY <2>3, <2>4 DEF event
<1>3. CASE ~(Len(s.queue) < QueueSize)
  BY <1>3 DEF Offered, Stream
<1> QED BY <1>2, <1>3

\* What an appended event does to a queue.
LEMMA AppendFacts ==
  ASSUME NEW q \in Seq(Event), NEW e \in Event
  PROVE  /\ DOMAIN Append(q, e) = 1..Len(q) + 1
         /\ DOMAIN q = 1..Len(q) /\ Len(q) \in Nat
         /\ \A k \in DOMAIN q : Append(q, e)[k] = q[k]
         /\ Append(q, e)[Len(q) + 1] = e
OBVIOUS

----------------------------------------------------------------------------
(* A step of the jobs *)

\* Notify for all the records that changed, were there, and are still there.
Notified(updated) ==
  /\ Notify(updated)
  /\ \A i \in updated : i \in Present /\ rec'[i] # NoRecord /\ ~Created(i)
  /\ \A i \in Present : rec'[i] # rec[i] /\ rec'[i] # NoRecord /\ ~Created(i) => i \in updated

StreamsInv ==
  Typed /\ StreamsTypeOK /\ Listed /\ OwnEvents /\ QuietBefore /\ EndQueued

\* What becomes of one stream: nothing, or its record is offered to it.
LEMMA NotifiedStream ==
  ASSUME StreamsInv, Typed', NEW updated, Notified(updated), NEW w \in Watchers
  PROVE  \/ /\ stream'[w] = stream[w]
            /\ \A i \in Ids : w \in listeners[i] => i \notin updated
         \/ /\ stream[w] \in Stream /\ Len(stream[w].queue) <= QueueSize
            /\ Listening(w)
            /\ stream[w].id \in updated
            /\ w \in listeners[stream[w].id]
            /\ rec'[stream[w].id] \in Record
            /\ rec'[stream[w].id].born = stream[w].born
            /\ stream'[w] = Offered(stream[w], rec'[stream[w].id])
<1>1. \A i \in updated : i \in Ids /\ rec'[i] \in Record /\ rec'[i].born = rec[i].born
  BY DEF Notified, Present, Created, Typed, TypeOK
<1>2. CASE \E i \in updated : w \in listeners[i]
  <2>1. PICK i \in updated : w \in listeners[i]
    BY <1>2
  <2>2. Listening(w) /\ stream[w].id = i /\ stream[w].born = rec[i].born
    BY <1>1, <2>1 DEF StreamsInv, Listed, Notified
  <2>3. stream[w] \in Stream /\ Len(stream[w].queue) <= QueueSize
    BY <2>2 DEF StreamsInv, StreamsTypeOK, Listening
  <2>4. stream'[w] = Offered(stream[w], rec'[stream[w].id])
    BY <1>2 DEF Notified, Notify
  <2> QED BY <1>1, <2>1, <2>2, <2>3, <2>4
<1>3. CASE ~\E i \in updated : w \in listeners[i]
  BY <1>3 DEF Notified, Notify
<1> QED BY <1>2, <1>3

\* Either way the stream goes on, about the same id and the same record.
LEMMA NotifiedShape ==
  ASSUME StreamsInv, Typed', NEW updated, Notified(updated), NEW w \in Watchers
  PROVE  \/ stream'[w] = stream[w]
         \/ /\ stream'[w] \in Stream /\ Len(stream'[w].queue) <= QueueSize
            /\ stream[w] \in Stream
            /\ stream'[w].id = stream[w].id /\ stream'[w].at = stream[w].at
            /\ stream'[w].born = stream[w].born /\ stream'[w].late = stream[w].late
<1> DEFINE s == stream[w]
           r == rec'[s.id]
<1>1. CASE stream'[w] # s
  <2>1. s \in Stream /\ Len(s.queue) <= QueueSize /\ r \in Record /\ stream'[w] = Offered(s, r)
    BY <1>1, NotifiedStream
  <2> HIDE DEF s, r
  <2>2. /\ Offered(s, r) \in Stream /\ Len(Offered(s, r).queue) <= QueueSize
        /\ Offered(s, r).id = s.id /\ Offered(s, r).at = s.at
        /\ Offered(s, r).born = s.born /\ Offered(s, r).late = s.late
    BY <2>1, OfferedFacts
  <2> QED BY <2>1, <2>2 DEF s
<1> QED BY <1>1

\* A list that is not dropped stays as it is, and so does the record's birth.
LEMMA NotifiedList ==
  ASSUME StreamsInv, NEW updated, Notified(updated), NEW i \in Ids, NEW w \in listeners'[i]
  PROVE  /\ w \in listeners[i]
         /\ i \in Present' <=> i \in Present
         /\ i \in Present => rec'[i].born = rec[i].born
         /\ ~Created(i)
  BY DEF Notified, Notify, Created, Removed, Present

LEMMA NotifiedKeeps ==
  ASSUME StreamsInv, Typed', NEW updated, Notified(updated)
  PROVE  StreamsInv'
<1>1. StreamsTypeOK'
  <2>1. ASSUME NEW w \in Watchers
        PROVE  /\ stream'[w] \in Stream \cup {NoStream}
               /\ stream'[w] # NoStream => Len(stream'[w].queue) <= QueueSize
    BY NotifiedShape DEF StreamsInv, StreamsTypeOK
  <2>2. stream' \in [Watchers -> Stream \cup {NoStream}]
    <3>1. stream' = [w \in Watchers |-> stream'[w]]
      BY DEF Notified, Notify
    <3> QED BY <2>1, <3>1
  <2>3. listeners' \in [Ids -> SUBSET Watchers]
    BY DEF Notified, Notify, StreamsInv, StreamsTypeOK
  <2> QED BY <2>1, <2>2, <2>3 DEF StreamsTypeOK
<1>2. Listed'
  <2> SUFFICES ASSUME NEW i \in Ids, NEW w \in listeners'[i]
               PROVE  /\ Listening(w)'
                      /\ stream'[w].id = i
                      /\ stream'[w].born = IF i \in Present' THEN rec'[i].born ELSE 0
    BY DEF Listed
  <2>1. /\ w \in listeners[i] /\ w \in Watchers /\ Listening(w)
        /\ stream[w].id = i /\ stream[w].born = IF i \in Present' THEN rec'[i].born ELSE 0
    BY NotifiedList DEF StreamsInv, StreamsTypeOK, Listed
  <2>2. CASE stream'[w] = stream[w]
    BY <2>1, <2>2 DEF Listening
  <2>3. CASE stream'[w] # stream[w]
    <3>1. /\ stream'[w] \in Stream
          /\ stream'[w].at = stream[w].at /\ stream'[w].id = stream[w].id
          /\ stream'[w].born = stream[w].born
      BY <2>1, <2>3, NotifiedShape
    <3> QED BY <2>1, <3>1, StreamAssumption DEF Listening
  <2> QED BY <2>2, <2>3
<1>3. OwnEvents'
  <2> SUFFICES ASSUME NEW w \in Watchers, stream'[w] # NoStream, NEW k \in DOMAIN stream'[w].queue
               PROVE  stream'[w].queue[k].born = stream'[w].born
    BY DEF OwnEvents
  <2>1. CASE stream'[w] = stream[w]
    BY <2>1 DEF StreamsInv, OwnEvents
  <2>2. CASE stream'[w] # stream[w]
    <3> DEFINE s == stream[w]
               r == rec'[s.id]
               event == [born |-> r.born, status |-> r.status]
    <3>1. /\ s \in Stream /\ Len(s.queue) <= QueueSize /\ Listening(w)
          /\ r \in Record /\ r.born = s.born /\ stream'[w] = Offered(s, r)
      BY <2>2, NotifiedStream
    <3>2. event \in Event /\ event.born = s.born /\ s.queue \in Seq(Event)
      BY <3>1 DEF Event, Record, Stream
    <3>3. \A j \in DOMAIN s.queue : s.queue[j].born = s.born
      BY <3>1 DEF StreamsInv, OwnEvents, Listening
    <3>4. /\ stream'[w].born = s.born
          /\ stream'[w].queue = s.queue \/ stream'[w].queue = Append(s.queue, event)
      BY <3>1, OfferedFacts
    <3> HIDE DEF s, r, event
    <3>5. CASE stream'[w].queue = s.queue
      BY <3>3, <3>4, <3>5
    <3>6. CASE stream'[w].queue = Append(s.queue, event)
      <4>1. /\ DOMAIN Append(s.queue, event) = 1..Len(s.queue) + 1
            /\ DOMAIN s.queue = 1..Len(s.queue) /\ Len(s.queue) \in Nat
            /\ \A j \in DOMAIN s.queue : Append(s.queue, event)[j] = s.queue[j]
            /\ Append(s.queue, event)[Len(s.queue) + 1] = event
        BY <3>2, AppendFacts
      <4>2. k \in DOMAIN s.queue \/ k = Len(s.queue) + 1
        BY <3>6, <4>1
      <4> QED BY <3>2, <3>3, <3>4, <3>6, <4>1, <4>2
    <3> QED BY <3>4, <3>5, <3>6
  <2> QED BY <2>1, <2>2
<1>4. EndQueued'
  <2> SUFFICES ASSUME NEW w \in Watchers, Listening(w)', w \in listeners'[stream'[w].id],
                      stream'[w].id \in WithStatus(Terminal)'
               PROVE  \/ stream'[w].late \/ stream'[w].lost
                      \/ \E k \in DOMAIN stream'[w].queue :
                           stream'[w].queue[k].status \in Terminal
    BY DEF EndQueued
  <2> DEFINE s == stream[w]
             i == stream[w].id
             r == rec'[i]
             event == [born |-> r.born, status |-> r.status]
  <2>1. s # NoStream /\ s \in Stream /\ stream'[w].id = i /\ stream'[w].at = s.at
    BY NotifiedShape, StreamAssumption DEF Listening, StreamsInv, StreamsTypeOK
  <2>2. Listening(w) /\ i \in Ids /\ w \in listeners[i] /\ i \in Present /\ ~Created(i)
        /\ r # NoRecord /\ r.status \in Terminal
    <3>1. i \in Ids
      BY <2>1 DEF Stream
    <3>2. i \in Present' /\ r.status \in Terminal
      BY <2>1 DEF WithStatus
    <3> QED BY <2>1, <3>1, <3>2, NotifiedList DEF Listening, Present
  <2>3. CASE stream'[w] = s
    <3>1. CASE i \in updated
      <4>1. /\ Len(s.queue) <= QueueSize /\ r \in Record /\ s = Offered(s, r)
        BY <2>2, <2>3, <3>1, NotifiedStream
      <4>2. \/ s.queue = Append(s.queue, event)
            \/ s.lost
        BY <2>1, <4>1, OfferedFacts
      <4>3. s.queue \in Seq(Event) /\ event \in Event
        BY <2>1, <4>1 DEF Stream, Event, Record
      <4> HIDE DEF event
      <4>4. s.queue # Append(s.queue, event)
        BY <4>3
      <4> QED BY <2>3, <4>2, <4>4
    <3>2. CASE i \notin updated
      <4>1. rec'[i] = rec[i]
        BY <2>2, <3>2 DEF Notified
      <4> QED BY <2>2, <2>3, <4>1 DEF StreamsInv, EndQueued, WithStatus
    <3> QED BY <3>1, <3>2
  <2>4. CASE stream'[w] # s
    <3>1. /\ Len(s.queue) <= QueueSize /\ r \in Record /\ stream'[w] = Offered(s, r)
      BY <2>4, NotifiedStream
    <3>2. event \in Event /\ event.status \in Terminal /\ s.queue \in Seq(Event)
      BY <2>1, <2>2, <3>1 DEF Event, Record, Stream
    <3>3. stream'[w].lost \/ stream'[w].queue = Append(s.queue, event)
      BY <2>1, <3>1, OfferedFacts
    <3> HIDE DEF event
    <3>4. /\ Len(s.queue) + 1 \in DOMAIN Append(s.queue, event)
          /\ Append(s.queue, event)[Len(s.queue) + 1] = event
      BY <3>2, AppendFacts
    <3> QED BY <3>2, <3>3, <3>4
  <2> QED BY <2>3, <2>4
<1>5. QuietBefore'
  BY NotifiedStream, NotifiedShape DEF StreamsInv, QuietBefore, Listening
<1> QED BY <1>1, <1>2, <1>3, <1>4, <1>5 DEF StreamsInv

----------------------------------------------------------------------------
(* A step of one stream *)

\* What a step that changes one stream has to show of it.
LEMMA OneStreamKeeps ==
  ASSUME StreamsInv, UNCHANGED vars, NEW w \in Watchers, NEW s \in Stream \cup {NoStream},
         stream' = [stream EXCEPT ![w] = s],
         listeners' \in [Ids -> SUBSET Watchers],
         \A i \in Ids : \A v \in listeners'[i] :
           \/ v # w /\ v \in listeners[i]
           \/ /\ v = w /\ s # NoStream /\ s.at = "listening" /\ s.id = i
              /\ s.born = IF i \in Present THEN rec[i].born ELSE 0,
         s # NoStream =>
           /\ Len(s.queue) <= QueueSize
           /\ s.at # "listening" => s.queue = <<>>
           /\ \A k \in DOMAIN s.queue : s.queue[k].born = s.born
           /\ s.at = "listening" /\ w \in listeners'[s.id] /\ s.id \in WithStatus(Terminal)
              => \/ s.late \/ s.lost
                 \/ \E k \in DOMAIN s.queue : s.queue[k].status \in Terminal
  PROVE  StreamsInv'
<1>0. rec' = rec /\ Present' = Present /\ WithStatus(Terminal)' = WithStatus(Terminal)
  BY DEF vars, Present, WithStatus
<1>1. Typed'
  BY DEF StreamsInv, Typed, TypeOK, BirthOrder, Present, vars
<1>2. stream \in [Watchers -> Stream \cup {NoStream}]
  BY DEF StreamsInv, StreamsTypeOK
<1>3. StreamsTypeOK'
  BY <1>2 DEF StreamsInv, StreamsTypeOK
<1>4. \A v \in Watchers : stream'[v] = IF v = w THEN s ELSE stream[v]
  BY <1>2
<1>5. \A i \in Ids : listeners'[i] \subseteq Watchers
  OBVIOUS
<1>6. Listed'
  <2> SUFFICES ASSUME NEW i \in Ids, NEW v \in listeners'[i]
               PROVE  /\ Listening(v)'
                      /\ stream'[v].id = i
                      /\ stream'[v].born = IF i \in Present' THEN rec'[i].born ELSE 0
    BY DEF Listed
  <2>1. CASE v # w
    <3>1. v \in Watchers /\ v \in listeners[i] /\ stream'[v] = stream[v]
      BY <1>4, <1>5, <2>1
    <3> QED BY <1>0, <3>1 DEF StreamsInv, Listed, Listening
  <2>2. CASE v = w
    BY <1>0, <1>4, <2>2 DEF Listening
  <2> QED BY <2>1, <2>2
<1>7. OwnEvents' /\ QuietBefore'
  BY <1>4 DEF StreamsInv, OwnEvents, QuietBefore
<1>8. EndQueued'
  <2> SUFFICES ASSUME NEW v \in Watchers, Listening(v)', v \in listeners'[stream'[v].id],
                      stream'[v].id \in WithStatus(Terminal)
               PROVE  \/ stream'[v].late \/ stream'[v].lost
                      \/ \E k \in DOMAIN stream'[v].queue :
                           stream'[v].queue[k].status \in Terminal
    BY <1>0 DEF EndQueued
  <2>1. CASE v = w
    BY <1>4, <2>1 DEF Listening
  <2>2. CASE v # w
    <3>1. stream'[v] = stream[v] /\ Listening(v)
      BY <1>4, <2>2 DEF Listening
    <3>2. stream[v].id \in Ids /\ v \in listeners[stream[v].id]
      BY <1>2, <2>2, <3>1 DEF Listening, Stream
    <3> QED BY <3>1, <3>2 DEF StreamsInv, EndQueued
  <2> QED BY <2>1, <2>2
<1> QED BY <1>1, <1>3, <1>6, <1>7, <1>8 DEF StreamsInv

\* Only a stream that listens is listed, and only for its id.
LEMMA ListedOnce ==
  ASSUME StreamsInv, NEW i \in Ids, NEW w \in listeners[i]
  PROVE  w \in Watchers /\ Listening(w) /\ stream[w].id = i
  BY DEF StreamsInv, StreamsTypeOK, Listed

\* A stream that is over leaves its list, if it is in one.
LEMMA OverKeeps ==
  ASSUME StreamsInv, UNCHANGED vars, NEW w \in Watchers, stream[w] # NoStream, Over(w),
         Closed(w) \/ (UNCHANGED listeners /\ ~Listening(w))
  PROVE  StreamsInv'
<1>1. stream[w].id \in Ids /\ listeners \in [Ids -> SUBSET Watchers]
  BY DEF StreamsInv, StreamsTypeOK, Stream
<1>2. listeners' \in [Ids -> SUBSET Watchers]
  BY <1>1 DEF Closed
<1>3. \A i \in Ids : \A v \in listeners'[i] : v # w /\ v \in listeners[i]
  <2> TAKE i \in Ids
  <2> TAKE v \in listeners'[i]
  <2>1. v \in listeners[i]
    BY <1>1 DEF Closed
  <2>2. v # w
    BY <1>1, <2>1, ListedOnce DEF Closed
  <2> QED BY <2>1, <2>2
<1> QED BY <1>2, <1>3, OneStreamKeeps DEF Over

\* add_listener for a stream that has not listened yet.
LEMMA ListenKeeps ==
  ASSUME StreamsInv, UNCHANGED vars, NEW w \in Watchers, stream[w] # NoStream,
         stream[w].at \in {"open", "sent"}, Listen(w)
  PROVE  StreamsInv'
<1> DEFINE i == stream[w].id
           born == IF i \in Present THEN rec[i].born ELSE 0
           s == [stream[w] EXCEPT !.at = "listening", !.born = born,
                                  !.late = i \notin WithStatus(Pending)]
<1>1. stream[w] \in Stream /\ i \in Ids /\ stream[w].queue = <<>>
  BY DEF StreamsInv, StreamsTypeOK, QuietBefore, Stream
<1>2. born \in 0..MaxSubmits
  BY BoundsAssumption DEF StreamsInv, Typed, TypeOK, Present, Record
<1>3. /\ s \in Stream /\ s # NoStream /\ s.queue = <<>> /\ s.at = "listening"
      /\ s.id = i /\ s.born = born /\ s.late = (i \notin WithStatus(Pending))
  BY <1>1, <1>2, StreamAssumption DEF Stream
<1>4. stream' = [stream EXCEPT ![w] = s] /\ listeners' = [listeners EXCEPT ![i] = @ \cup {w}]
  BY DEF Listen
<1>5. Len(s.queue) <= QueueSize /\ \A k \in DOMAIN s.queue : FALSE
  BY <1>3, QueueAssumption
<1>6. i \in WithStatus(Terminal) => s.late
  BY <1>3 DEF WithStatus, Pending, Terminal
<1> HIDE DEF s
<1>7. listeners' \in [Ids -> SUBSET Watchers]
  BY <1>1, <1>4 DEF StreamsInv, StreamsTypeOK
<1>8. \A j \in Ids : \A v \in listeners'[j] : (v # w /\ v \in listeners[j]) \/ (v = w /\ j = i)
  BY <1>1, <1>4, ListedOnce DEF Listening, StreamsInv, StreamsTypeOK
<1>9. \A j \in Ids : \A v \in listeners'[j] :
        \/ v # w /\ v \in listeners[j]
        \/ /\ v = w /\ s # NoStream /\ s.at = "listening" /\ s.id = j
           /\ s.born = IF j \in Present THEN rec[j].born ELSE 0
  BY <1>3, <1>8
<1>10. s # NoStream =>
         /\ Len(s.queue) <= QueueSize
         /\ s.at # "listening" => s.queue = <<>>
         /\ \A k \in DOMAIN s.queue : s.queue[k].born = s.born
         /\ s.at = "listening" /\ w \in listeners'[s.id] /\ s.id \in WithStatus(Terminal)
            => \/ s.late \/ s.lost
               \/ \E k \in DOMAIN s.queue : s.queue[k].status \in Terminal
  BY <1>3, <1>5, <1>6
<1> HIDE DEF i, born
<1>11. s \in Stream \cup {NoStream} /\ stream' = [stream EXCEPT ![w] = s]
  BY <1>3, <1>4
<1> QED BY <1>7, <1>9, <1>10, <1>11, OneStreamKeeps

\* The first of some events, and the rest of them.
LEMMA TailFacts ==
  ASSUME NEW q \in Seq(Event), q # <<>>
  PROVE  /\ Tail(q) \in Seq(Event) /\ Len(Tail(q)) = Len(q) - 1 /\ Len(q) \in Nat
         /\ Head(q) = q[1]
         /\ \A k \in DOMAIN Tail(q) : k + 1 \in DOMAIN q /\ Tail(q)[k] = q[k + 1]
         /\ \A k \in DOMAIN q : k = 1 \/ (k - 1 \in DOMAIN Tail(q) /\ Tail(q)[k - 1] = q[k])
OBVIOUS

LEMMA DeliverKeeps ==
  ASSUME StreamsInv, NEW w \in Watchers, Deliver(w)
  PROVE  StreamsInv'
<1>1. /\ UNCHANGED vars /\ Listening(w) /\ stream[w] # NoStream /\ stream[w] \in Stream
      /\ stream[w].queue # <<>> /\ stream[w].queue \in Seq(Event) /\ stream[w].id \in Ids
  BY DEF Deliver, Listening, StreamsInv, StreamsTypeOK, Stream
<1>2. CASE Head(stream[w].queue).status \in Terminal
  BY <1>1, <1>2, OverKeeps DEF Deliver
<1>3. CASE Head(stream[w].queue).status \notin Terminal
  <2> DEFINE q == stream[w].queue
             s == [stream[w] EXCEPT !.queue = Tail(@)]
  <2>1. stream' = [stream EXCEPT ![w] = s] /\ listeners' = listeners
    BY <1>3 DEF Deliver
  <2>2. /\ Tail(q) \in Seq(Event) /\ Len(Tail(q)) = Len(q) - 1 /\ Len(q) \in Nat
        /\ Head(q) = q[1]
        /\ \A k \in DOMAIN Tail(q) : k + 1 \in DOMAIN q /\ Tail(q)[k] = q[k + 1]
        /\ \A k \in DOMAIN q : k = 1 \/ (k - 1 \in DOMAIN Tail(q) /\ Tail(q)[k - 1] = q[k])
    BY <1>1, TailFacts
  <2>3. /\ s \in Stream /\ s # NoStream /\ s.queue = Tail(q) /\ s.at = "listening"
        /\ s.id = stream[w].id /\ s.born = stream[w].born
        /\ s.late = stream[w].late /\ s.lost = stream[w].lost
    BY <1>1, <2>2, StreamAssumption DEF Stream, Listening
  <2>4. \A k \in DOMAIN q : q[k].born = stream[w].born
    BY <1>1 DEF StreamsInv, OwnEvents
  <2>5. Len(q) <= QueueSize
    BY <1>1 DEF StreamsInv, StreamsTypeOK
  <2>6. w \in listeners[s.id] /\ s.id \in WithStatus(Terminal)
          => \/ s.late \/ s.lost
             \/ \E k \in DOMAIN q : q[k].status \in Terminal
    BY <1>1, <2>3 DEF StreamsInv, EndQueued
  <2> HIDE DEF s, q
  <2>7. \A k \in DOMAIN s.queue : s.queue[k].born = s.born
    BY <2>2, <2>3, <2>4
  <2>8. Len(s.queue) <= QueueSize
    BY <2>2, <2>3, <2>5, QueueAssumption
  <2>9. (\E k \in DOMAIN q : q[k].status \in Terminal)
          => \E k \in DOMAIN s.queue : s.queue[k].status \in Terminal
    BY <1>3, <2>2, <2>3 DEF q
  <2>10. \A i \in Ids : \A v \in listeners[i] :
           \/ v # w
           \/ v = w /\ s.id = i /\ s.born = IF i \in Present THEN rec[i].born ELSE 0
    BY <2>3 DEF StreamsInv, Listed
  <2>11. listeners \in [Ids -> SUBSET Watchers]
    BY DEF StreamsInv, StreamsTypeOK
  <2>12. \A i \in Ids : \A v \in listeners'[i] :
           \/ v # w /\ v \in listeners[i]
           \/ /\ v = w /\ s # NoStream /\ s.at = "listening" /\ s.id = i
              /\ s.born = IF i \in Present THEN rec[i].born ELSE 0
    BY <2>1, <2>3, <2>10
  <2>13. s # NoStream =>
           /\ Len(s.queue) <= QueueSize
           /\ s.at # "listening" => s.queue = <<>>
           /\ \A k \in DOMAIN s.queue : s.queue[k].born = s.born
           /\ s.at = "listening" /\ w \in listeners'[s.id] /\ s.id \in WithStatus(Terminal)
              => \/ s.late \/ s.lost
                 \/ \E k \in DOMAIN s.queue : s.queue[k].status \in Terminal
    BY <2>1, <2>3, <2>6, <2>7, <2>8, <2>9
  <2>14. listeners' \in [Ids -> SUBSET Watchers]
    BY <2>1, <2>11
  <2>15. s \in Stream \cup {NoStream} /\ stream' = [stream EXCEPT ![w] = s] /\ UNCHANGED vars
    BY <1>1, <2>1, <2>3
  <2> QED BY <2>12, <2>13, <2>14, <2>15, OneStreamKeeps
<1> QED BY <1>2, <1>3

LEMMA SnapshotKeeps ==
  ASSUME StreamsInv, NEW w \in Watchers, Snapshot(w)
  PROVE  StreamsInv'
<1> DEFINE i == stream[w].id
<1>1. UNCHANGED vars /\ stream[w] # NoStream /\ stream[w].at = "open" /\ stream[w] \in Stream
  BY DEF Snapshot, StreamsInv, StreamsTypeOK
<1>2. CASE i \notin Present
  BY <1>1, <1>2, ListenKeeps DEF Snapshot
<1>3. CASE i \in Present /\ i \in WithStatus(Terminal)
  BY <1>1, <1>3, OverKeeps DEF Snapshot, Listening
<1>4. CASE i \in Present /\ i \notin WithStatus(Terminal)
  <2> DEFINE s == [stream[w] EXCEPT !.at = "sent"]
  <2>1. stream' = [stream EXCEPT ![w] = s] /\ listeners' = listeners
    BY <1>1, <1>4 DEF Snapshot, StreamsInv, StreamsTypeOK
  <2>2. s \in Stream /\ s.at = "sent" /\ s.queue = <<>>
    BY <1>1 DEF Stream, StreamsInv, QuietBefore
  <2> HIDE DEF s
  <2>3. \A j \in Ids : \A v \in listeners[j] : v # w
    BY <1>1, ListedOnce DEF Listening
  <2>4. listeners \in [Ids -> SUBSET Watchers]
    BY DEF StreamsInv, StreamsTypeOK
  <2>5. Len(s.queue) <= QueueSize /\ \A k \in DOMAIN s.queue : FALSE
    BY <2>2, QueueAssumption
  <2> QED BY <1>1, <2>1, <2>2, <2>3, <2>4, <2>5, OneStreamKeeps
<1> QED BY <1>2, <1>3, <1>4

LEMMA OpenKeeps ==
  ASSUME StreamsInv, NEW w \in Watchers, NEW i \in Ids, Open(w, i)
  PROVE  StreamsInv'
<1> DEFINE s == [id |-> i, at |-> "open", queue |-> <<>>, born |-> 0, late |-> FALSE, lost |-> FALSE]
<1>1. stream[w] = NoStream /\ stream' = [stream EXCEPT ![w] = s] /\ listeners' = listeners
      /\ UNCHANGED vars
  BY DEF Open
<1>2. s \in Stream /\ s.at = "open" /\ s.queue = <<>>
  BY BoundsAssumption DEF Stream
<1> HIDE DEF s
<1>3. \A j \in Ids : \A v \in listeners[j] : v # w
  BY <1>1, ListedOnce DEF Listening
<1>4. listeners \in [Ids -> SUBSET Watchers]
  BY DEF StreamsInv, StreamsTypeOK
<1>5. Len(s.queue) <= QueueSize /\ \A k \in DOMAIN s.queue : FALSE
  BY <1>2, QueueAssumption
<1> QED BY <1>1, <1>2, <1>3, <1>4, <1>5, OneStreamKeeps

----------------------------------------------------------------------------
(* The invariant and the theorems *)

LEMMA InitStreams == EventsInit => StreamsInv
<1> SUFFICES ASSUME EventsInit PROVE StreamsInv
  OBVIOUS
<1>1. Typed
  BY InitTyped DEF EventsInit
<1>2. \A w \in Watchers : stream[w] = NoStream
  BY DEF EventsInit
<1>3. \A i \in Ids : listeners[i] = {}
  BY DEF EventsInit
<1>4. StreamsTypeOK
  BY <1>2 DEF EventsInit, StreamsTypeOK
<1> QED BY <1>1, <1>2, <1>3, <1>4
       DEF StreamsInv, Listed, OwnEvents, QuietBefore, EndQueued, Listening

LEMMA NextStreams == StreamsInv /\ Typed' /\ [EventsNext]_allVars => StreamsInv'
<1> SUFFICES ASSUME StreamsInv, Typed', [EventsNext]_allVars PROVE StreamsInv'
  OBVIOUS
<1>1. CASE JobStep
  <2> DEFINE updated == {i \in Present : rec'[i] # rec[i] /\ rec'[i] # NoRecord /\ ~Created(i)}
  <2>1. Notified(updated)
    BY <1>1 DEF JobStep, Notified
  <2> QED BY <2>1, NotifiedKeeps
<1>2. CASE ProcessEnds
  <2>1. \A w \in Watchers : stream'[w] = NoStream
    BY <1>2 DEF ProcessEnds
  <2>2. \A i \in Ids : listeners'[i] = {}
    BY <1>2 DEF ProcessEnds
  <2>3. StreamsTypeOK'
    BY <1>2, <2>1 DEF ProcessEnds, StreamsTypeOK
  <2> QED BY <2>1, <2>2, <2>3
         DEF StreamsInv, Listed, OwnEvents, QuietBefore, EndQueued, Listening
<1>3. ASSUME NEW i \in Ids, Refresh(i) PROVE StreamsInv'
  <2>1. rec' = rec /\ i \in Present
    BY <1>3 DEF Refresh, vars
  <2>2. Notified({i})
    BY <1>3, <2>1 DEF Refresh, Notified, Created, Present
  <2> QED BY <2>2, NotifiedKeeps
<1>4. ASSUME NEW w \in Watchers, NEW i \in Ids, Open(w, i) PROVE StreamsInv'
  BY <1>4, OpenKeeps
<1>5. ASSUME NEW w \in Watchers, Snapshot(w) PROVE StreamsInv'
  BY <1>5, SnapshotKeeps
<1>6. ASSUME NEW w \in Watchers, Register(w) PROVE StreamsInv'
  BY <1>6, ListenKeeps DEF Register
<1>7. ASSUME NEW w \in Watchers, Deliver(w) PROVE StreamsInv'
  BY <1>7, DeliverKeeps
<1>8. ASSUME NEW w \in Watchers, Disconnect(w) PROVE StreamsInv'
  BY <1>8, OverKeeps DEF Disconnect
<1>9. CASE UNCHANGED allVars
  <2>1. rec' = rec /\ stream' = stream /\ listeners' = listeners
    BY <1>9 DEF allVars, vars, streamVars
  <2> QED BY <2>1 DEF StreamsInv, StreamsTypeOK, Listed, OwnEvents, QuietBefore, EndQueued,
                      Listening, Present, WithStatus
<1> QED BY <1>1, <1>2, <1>3, <1>4, <1>5, <1>6, <1>7, <1>8, <1>9 DEF EventsNext

LEMMA StreamsHold == EventsSpec => []StreamsInv
  BY InitStreams, NextStreams, JobsTyped, PTL DEF EventsSpec

\* The streams, their queues and the lists of listeners keep their shape.
THEOREM StreamsTypeCorrect == EventsSpec => []StreamsTypeOK
  BY StreamsHold, PTL DEF StreamsInv

\* jobs.py create_job, _remove_job, update_job: a stream never tells of another
\* record than the one it began to listen to.
THEOREM OneRecordEach == EventsSpec => []OneRecordPerStream
<1>1. StreamsInv => OneRecordPerStream
  BY DEF StreamsInv, OwnEvents, OneRecordPerStream, Listening
<1> QED BY <1>1, StreamsHold, PTL

\* main.py job_events: the end of a job is missed only by a stream that listened too
\* late or whose queue overflowed.
THEOREM EndReaches == EventsSpec => []EndMissedOnlyIfLate
<1>1. StreamsInv => EndMissedOnlyIfLate
  <2>1. \A k \in DOMAIN <<>> : FALSE
    OBVIOUS
  <2> QED BY <2>1 DEF StreamsInv, EndQueued, EndMissedOnlyIfLate
<1> QED BY <1>1, StreamsHold, PTL
=============================================================================
