----------------------------- MODULE JobQueue -----------------------------
(***************************************************************************)
(* What the queue of TTS jobs promises whoever hands one in, without       *)
(* Redis, hashes, slots or the steps between two commands.  Undisturbed, a *)
(* job that was handed in is taken by one worker and worked on once before *)
(* it is put down, in the order of priorities and numbers.  A disturbance  *)
(* may lose jobs anywhere; it never brings one back, so that every job is  *)
(* worked on at most once whatever happens.                                *)
(***************************************************************************)
EXTENDS Integers

CONSTANTS Jobs, Workers, Priority, None

VARIABLES
  fresh,    \* the jobs that have not been handed in
  number,   \* number[j]: the place of job j among those of its priority
  waiting,  \* the jobs that wait for a worker
  held,     \* held[w]: the job in the hands of worker w
  runs,     \* runs[j]: how often job j was worked on
  troubles  \* how many disturbances there have been

vars == <<fresh, number, waiting, held, runs, troubles>>

Init ==
  /\ fresh = Jobs
  /\ number = [j \in Jobs |-> 0]
  /\ waiting = {}
  /\ held = [w \in Workers |-> None]
  /\ runs = [j \in Jobs |-> 0]
  /\ troubles = 0

\* A job gets its number before it is handed in.  Undisturbed, it is the latest one.
Number(j) ==
  /\ j \in fresh
  /\ number' = [number EXCEPT ![j] = number'[j]]
  /\ troubles = 0 => \A k \in Jobs : number[k] < number'[j]
  /\ UNCHANGED <<fresh, waiting, held, runs, troubles>>

HandIn(j) ==
  /\ j \in fresh
  /\ fresh' = fresh \ {j}
  /\ waiting' = waiting \cup {j}
  /\ UNCHANGED <<number, held, runs, troubles>>

\* No job of higher priority waits, and no earlier one of the same.
First(j) ==
  \A k \in waiting :
    Priority[k] < Priority[j] \/ (Priority[k] = Priority[j] /\ number[j] <= number[k])

Take(w) ==
  /\ held[w] = None
  /\ \E j \in waiting :
       /\ First(j)
       /\ waiting' = waiting \ {j}
       /\ held' = [held EXCEPT ![w] = j]
  /\ UNCHANGED <<fresh, number, runs, troubles>>

Work(w) ==
  /\ held[w] # None
  /\ runs[held[w]] = 0
  /\ runs' = [runs EXCEPT ![held[w]] = 1]
  /\ UNCHANGED <<fresh, number, waiting, held, troubles>>

\* Undisturbed, nobody puts down a job on which he has not worked.
PutDown(w) ==
  /\ held[w] # None
  /\ troubles = 0 => runs[held[w]] = 1
  /\ held' = [held EXCEPT ![w] = None]
  /\ UNCHANGED <<fresh, number, waiting, runs, troubles>>

\* Jobs may be lost before they are handed in, while they wait, or out of the hands
\* of a worker; handing in may succeed and be reported as a failure.
Disturb ==
  /\ troubles' = troubles + 1
  /\ fresh' \subseteq fresh
  /\ waiting' \subseteq waiting \cup (fresh \ fresh')
  /\ held' = [w \in Workers |-> held'[w]]
  /\ \A w \in Workers : held'[w] \in {held[w], None}
  /\ UNCHANGED <<number, runs>>

Next ==
  \/ \E j \in Jobs : Number(j) \/ HandIn(j)
  \/ \E w \in Workers : Take(w) \/ Work(w) \/ PutDown(w)
  \/ Disturb

Spec == Init /\ [][Next]_vars
=============================================================================
