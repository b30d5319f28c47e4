----------------------------- MODULE MCDriveChain -----------------------------
(***************************************************************************)
(* An instance of DriveChain for TLC.  The states stand for the classes    *)
(* the mux distinguishes: recording (capture allowed), other manual, two   *)
(* return states, one zero state, and a name it does not know.             *)
(***************************************************************************)
EXTENDS DriveChain

MCStates == {"IDLE", "MANUAL_RECORDING", "TURN_180", "FOLLOW_RETURN_PATH",
             "STOP_BEFORE_TURN", "UNKNOWN"}
MCChainStates == {"MANUAL_RECORDING", "TURN_180"}
=============================================================================
