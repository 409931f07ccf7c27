-------------------------- MODULE PipelineEvents --------------------------
(***************************************************************************)
(* The event streams of the pipeline worker (GET /jobs/{id}/events in      *)
(* main.py, the listeners in jobs.py) on top of its jobs: each update_job  *)
(* offers the record to the queues that are listed for the id; creating or *)
(* removing a record drops the list.  The video worker carries a copy of   *)
(* this code.                                                              *)
(*                                                                         *)
(* A stream is suspended before it reads the record, while the snapshot is *)
(* sent, and while it waits for its queue.  A queue takes no more than     *)
(* QueueSize events; one that does not fit is dropped.                     *)
(*                                                                         *)
(* An operator that is not part of a step and stands before the one it     *)
(* resembles is a mutant of it: a plausible bug that the properties must   *)
(* notice.                                                                 *)
(***************************************************************************)
EXTENDS PipelineJobs, Sequences

CONSTANTS
  Watchers,    \* clients, each with at most one open stream
  QueueSize,   \* asyncio.Queue(maxsize=32)
  NoStream

ASSUME QueueAssumption == QueueSize \in Nat \ {0}

VARIABLES
  stream,      \* the generators of the open responses
  listeners    \* _listeners: the streams whose queue is listed for the id

streamVars == <<stream, listeners>>
allVars == <<vars, streamVars>>

Event == [born: 1..MaxSubmits, status: Pending \cup Terminal]

\* born is the record at the time of add_listener (0: there was none), late says
\* that it had ended by then, lost that an event did not fit into the queue.
Stream == [id: Ids, at: {"open", "sent", "listening"}, queue: Seq(Event),
           born: 0..MaxSubmits, late: BOOLEAN, lost: BOOLEAN]

ASSUME StreamAssumption == NoStream \notin Stream

Listening(w) == stream[w] # NoStream /\ stream[w].at = "listening"

----------------------------------------------------------------------------
(* What the steps of the jobs do to the listeners *)

CreatedKeepsList(i) == FALSE

\* create_job starts a new list.
Created(i) ==
  rec'[i] # NoRecord /\ (rec[i] = NoRecord \/ rec[i].born # rec'[i].born)

Removed(i) == rec[i] # NoRecord /\ rec'[i] = NoRecord

OfferedLate(s, r) ==
  [s EXCEPT !.queue = Append(@, [born |-> r.born, status |-> r.status]),
            !.lost = Len(s.queue) > QueueSize]

\* put_nowait(job.to_dict())
Offered(s, r) ==
  IF Len(s.queue) < QueueSize
    THEN [s EXCEPT !.queue = Append(@, [born |-> r.born, status |-> r.status])]
    ELSE [s EXCEPT !.lost = TRUE]

NotifyUnlessSwept(updated) ==
  /\ stream' = [w \in Watchers |->
                  IF \E i \in updated : w \in listeners[i] /\ rec'[i].error # "JOB_TIMEOUT"
                    THEN Offered(stream[w], rec'[stream[w].id]) ELSE stream[w]]
  /\ listeners' = [i \in Ids |-> IF Created(i) \/ Removed(i) THEN {} ELSE listeners[i]]

\* update_job for the records `updated`; create_job and _remove_job drop the list.
Notify(updated) ==
  /\ stream' = [w \in Watchers |->
                  IF \E i \in updated : w \in listeners[i]
                    THEN Offered(stream[w], rec'[stream[w].id]) ELSE stream[w]]
  /\ listeners' = [i \in Ids |-> IF Created(i) \/ Removed(i) THEN {} ELSE listeners[i]]

\* A step of the process that lives on.
JobStep ==
  /\ Next
  /\ restarts' = restarts
  /\ Notify({i \in Present : rec'[i] # rec[i] /\ rec'[i] # NoRecord /\ ~Created(i)})

\* Any end of the process ends every response.
ProcessEnds ==
  /\ Crash \/ Restart
  /\ stream' = [w \in Watchers |-> NoStream]
  /\ listeners' = [i \in Ids |-> {}]

\* The updates of a run that PipelineJobs leaves out because they change neither
\* status nor stage: stage_state, progress, and the metering after completion.
Refresh(i) ==
  /\ i \in Present \cap Running
  /\ task[i].at \in {"stage", "meter"}
  /\ listeners[i] # {}
  /\ UNCHANGED vars
  /\ Notify({i})

----------------------------------------------------------------------------
(* job_events and its generator *)

Open(w, i) ==
  /\ phase = "up"
  /\ stream[w] = NoStream
  /\ i \in Present
  /\ stream' = [stream EXCEPT ![w] = [id |-> i, at |-> "open", queue |-> <<>>,
                                      born |-> 0, late |-> FALSE, lost |-> FALSE]]
  /\ UNCHANGED <<vars, listeners>>

\* add_listener, also for an id without a record.
Listen(w) ==
  LET i == stream[w].id
  IN /\ stream' = [stream EXCEPT ![w] =
                     [@ EXCEPT !.at = "listening",
                               !.born = IF i \in Present THEN rec[i].born ELSE 0,
                               !.late = i \notin WithStatus(Pending)]]
     /\ listeners' = [listeners EXCEPT ![i] = @ \cup {w}]

\* The response is over; its client may open another.
Over(w) == stream' = [stream EXCEPT ![w] = NoStream]

\* The snapshot, which ends the stream of a job that is over.
Snapshot(w) ==
  /\ stream[w] # NoStream
  /\ stream[w].at = "open"
  /\ LET i == stream[w].id
     IN IF i \notin Present THEN Listen(w)
        ELSE /\ IF i \in WithStatus(Terminal) THEN Over(w)
                  ELSE stream' = [stream EXCEPT ![w].at = "sent"]
             /\ UNCHANGED listeners
  /\ UNCHANGED vars

Register(w) ==
  /\ stream[w] # NoStream
  /\ stream[w].at = "sent"
  /\ Listen(w)
  /\ UNCHANGED vars

\* remove_listener; the list may be another one by now.
Closed(w) ==
  listeners' = [listeners EXCEPT ![stream[w].id] = @ \ {w}]

DeliverUnlessFailed(w) ==
  LET event == Head(stream[w].queue)
  IN /\ Listening(w)
     /\ stream[w].queue # <<>>
     /\ IF event.status \in {"completed", "canceled"}
          THEN Over(w) /\ Closed(w)
          ELSE stream' = [stream EXCEPT ![w].queue = Tail(@)] /\ UNCHANGED listeners
     /\ UNCHANGED vars

\* One event is sent; a terminal one is the last.
Deliver(w) ==
  LET event == Head(stream[w].queue)
  IN /\ Listening(w)
     /\ stream[w].queue # <<>>
     /\ IF event.status \in Terminal
          THEN Over(w) /\ Closed(w)
          ELSE stream' = [stream EXCEPT ![w].queue = Tail(@)] /\ UNCHANGED listeners
     /\ UNCHANGED vars

\* The client goes away: the generator is closed.
Disconnect(w) ==
  /\ stream[w] # NoStream
  /\ Over(w)
  /\ Closed(w)
  /\ UNCHANGED vars

EventsInit ==
  /\ Init
  /\ stream = [w \in Watchers |-> NoStream]
  /\ listeners = [i \in Ids |-> {}]

EventsNext ==
  \/ JobStep
  \/ ProcessEnds
  \/ \E i \in Ids : Refresh(i)
  \/ \E w \in Watchers, i \in Ids : Open(w, i)
  \/ \E w \in Watchers : Snapshot(w) \/ Register(w) \/ Deliver(w) \/ Disconnect(w)

\* The worker is watched, and the loop runs the generators that are ready.
EventsSpec ==
  /\ EventsInit
  /\ [][EventsNext]_allVars
  /\ Watched
  /\ \A w \in Watchers : WF_streamVars(Snapshot(w) \/ Register(w) \/ Deliver(w))

----------------------------------------------------------------------------
(* Properties *)

\* Every variable keeps the shape the code gives it.
StreamsTypeOK ==
  /\ stream \in [Watchers -> Stream \cup {NoStream}]
  /\ listeners \in [Ids -> SUBSET Watchers]
  /\ \A w \in Watchers : stream[w] # NoStream => Len(stream[w].queue) <= QueueSize

\* The events of a stream are all about the record it listens to, never about
\* another one that was submitted under the same id meanwhile.
OneRecordPerStream ==
  \A w \in Watchers :
    Listening(w) => \A k \in DOMAIN stream[w].queue : stream[w].queue[k].born = stream[w].born

\* A stream that has nothing to send although its job is over is one that began to
\* listen too late, or whose queue overflowed: there is no other way to miss the end.
EndMissedOnlyIfLate ==
  \A w \in Watchers :
    /\ Listening(w)
    /\ w \in listeners[stream[w].id]
    /\ stream[w].queue = <<>>
    /\ stream[w].id \in WithStatus(Terminal)
    => stream[w].late \/ stream[w].lost

\* A stream that was listening when its job ended tells of it and ends, also when the
\* record expires or is replaced before the event is read, unless an event was lost.
StreamsEnd ==
  \A w \in Watchers :
    /\ Listening(w)
    /\ w \in listeners[stream[w].id]
    /\ stream[w].id \in WithStatus(Terminal)
    /\ ~stream[w].late
    ~> ~Listening(w) \/ stream[w].lost
=============================================================================
