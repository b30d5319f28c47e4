-------------------------- MODULE MCMissionHistory --------------------------
(***************************************************************************)
(* The instances of MCReturnMission, with the history variables.           *)
(***************************************************************************)
EXTENDS MCReturnMission, ReturnMissionHistory
=============================================================================
