--------------------------- MODULE MCPipelineRun ---------------------------
(***************************************************************************)
(* Instances of PipelineRun for TLC.                                       *)
(***************************************************************************)
EXTENDS PipelineRun, TLC

Single   == 1 :> {}
Chain    == 1 :> {} @@ 2 :> {1}
Once     == 1 :> 1
Twice    == 1 :> 2
TwiceOnce == 1 :> 2 @@ 2 :> 1
=============================================================================
