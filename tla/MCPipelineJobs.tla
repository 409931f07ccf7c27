-------------------------- MODULE MCPipelineJobs --------------------------
(***************************************************************************)
(* Instances of PipelineJobs for TLC.                                      *)
(***************************************************************************)
EXTENDS PipelineJobs, TLC

CONSTANTS i1, i2, i3, ann, bob, k1, k2

Req(i, u, k, p, l, local) ==
  [id |-> i, user |-> u, key |-> k, priority |-> p, limit |-> l, local |-> local]

\* Two users; ann has two jobs, the second of higher priority; her plan allowed two
\* at a time for the first and allows one now.  Bob has no limit of his own.
TwoUsers == {Req(i1, ann, k1, 1, 2, FALSE), Req(i2, ann, k2, 2, 1, FALSE),
             Req(i3, bob, k2, 1, 0, FALSE)}

\* The first id may also be submitted as a local file and
\* without a user, before or after ann's.
Resubmitted == TwoUsers \cup {Req(i1, NoUser, k1, 1, 0, TRUE)}

\* One client that submits one job.
OneRequest == {Req(i1, ann, k1, 1, 0, FALSE)}
=============================================================================
