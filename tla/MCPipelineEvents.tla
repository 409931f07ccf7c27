------------------------- MODULE MCPipelineEvents -------------------------
(***************************************************************************)
(* Instances of PipelineEvents for TLC; requests as in MCPipelineJobs.     *)
(***************************************************************************)
EXTENDS MCPipelineJobs, PipelineEvents

CONSTANT w1

\* Ann's job, its id submitted again as a local file without a user, and bob's.
OneTakenOver == {Req(i1, ann, k1, 1, 2, FALSE), Req(i1, NoUser, k1, 1, 0, TRUE),
                 Req(i2, bob, k2, 2, 0, FALSE)}

\* A worker that starts again is as empty as at first: nothing new follows.
FirstProcess == restarts = 0
=============================================================================
