---------------------------- MODULE MCTtsJobs ----------------------------
(***************************************************************************)
(* Instances of TtsJobs for TLC.                                           *)
(***************************************************************************)
EXTENDS TtsJobs, TLC

CONSTANTS j1, j2, j3, p1, p2

\* A free job, one without a tier (a caller that is no user), and a paid one of
\* higher priority.
MixedTier == j1 :> "free" @@ j2 :> "none" @@ j3 :> "paid"
MixedPriority == j1 :> 1 @@ j2 :> 1 @@ j3 :> 2

FreeTier == [j \in Jobs |-> "free"]
TwoPriority == [j \in Jobs |-> 1]
\* The free jobs are alike, and so are the processes.
Alike == Permutations({j1, j2}) \cup Permutations({p1, p2})
=============================================================================
