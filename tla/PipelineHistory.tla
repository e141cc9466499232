--------------------------- MODULE PipelineHistory ---------------------------
(***************************************************************************)
(* The pipeline with two history variables that count what its own         *)
(* counters do not: the instructions execute has sent on, and the          *)
(* retirements taken back by hand.  They restrict no behaviour.            *)
(***************************************************************************)
EXTENDS PipelineControl

VARIABLES
    executed,       \* instructions that left pipe_stage_execute
    corrected       \* decrements of stat_inst_retire in forward_regs_flags

historyVars == <<vars, executed, corrected>>

HInit == Init /\ executed = 0 /\ corrected = 0

HNext ==
    /\ Next
    /\ executed' = executed + (IF stage = "execute" /\ StallFlag = 0
                                  /\ decodeStruct.op # "NoOp" THEN 1 ELSE 0)
    /\ corrected' = corrected + (IF stage = "begin" /\ RUN_BIT = 1 /\ ExtraRetirement
                                 THEN 1 ELSE 0)

HSpec == HInit /\ [][HNext]_historyVars /\ WF_historyVars(HNext)

-----------------------------------------------------------------------------
InFlight == (IF InExecute THEN 1 ELSE 0) + (IF InMemory THEN 1 ELSE 0)

(* Every instruction that execute sends on is retired exactly once: none   *)
(* is lost and none is counted twice by a load-use stall, a data miss and  *)
(* its retry, a flush or the halt.                                         *)
RetireOnce == executed = stat_inst_retire + corrected + InFlight
=============================================================================
