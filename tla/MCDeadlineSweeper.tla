-------------------------- MODULE MCDeadlineSweeper --------------------------
(* One product with two members; the windows are those of MCReporting.     *)
EXTENDS DeadlineSweeper

CONSTANT LastInstant

MCTimes == 0..LastInstant
MCMonthAfter == [t \in MCTimes |-> t + 3]
MCDueSoon == [s \in Stages |-> 0]
MCLadder == [s \in Stages |-> {0}]
MCStageOf == [o \in Obligations |-> "early_warning"]
=============================================================================
