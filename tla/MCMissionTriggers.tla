-------------------------- MODULE MCMissionTriggers --------------------------
(* ReturnMissionTriggers on the instances of MCReturnMission. *)
EXTENDS MCReturnMission, ReturnMissionTriggers
=============================================================================
