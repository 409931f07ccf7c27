--------------------------- MODULE MCPipelineRun ---------------------------
(***************************************************************************)
(* Instances of PipelineRun for TLC: a video of two lines, translated in   *)
(* one batch or transcribed in two chunks.                                 *)
(***************************************************************************)
EXTENDS PipelineRun, TLC

TwoLines == ("whisper" :> <<(<<1, 2>>)>>) @@ ("gemini" :> <<(<<1, 1>>), (<<2, 2>>)>>)
=============================================================================
