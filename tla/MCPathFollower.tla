---------------------------- MODULE MCPathFollower ----------------------------
(***************************************************************************)
(* Instances of PathFollower for TLC.                                      *)
(***************************************************************************)
EXTENDS PathFollowerHistory

\* A circle of eight: two corners of a right angle, and a straight path.  The
\* robot drives backwards, so it faces 0 where the path heads for 4.
MCRoutes == {<<4, 6, 4, 4>>, <<4, 4>>}
MCMissions == {"MANUAL_RECORDING", "FOLLOW_RETURN_PATH", "RETURN_RESUME_STOP",
               "RETURN_LANDMARK_SEARCH"}
=============================================================================
