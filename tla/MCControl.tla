------------------------------ MODULE MCControl ------------------------------
(***************************************************************************)
(* The programs of MCProgress, with the history variables of               *)
(* PipelineHistory.                                                        *)
(***************************************************************************)
EXTENDS PipelineHistory, MCProgress
=============================================================================
