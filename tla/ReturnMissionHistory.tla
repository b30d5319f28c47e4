------------------------ MODULE ReturnMissionHistory ------------------------
(***************************************************************************)
(* ReturnMission with history variables, for the properties that relate a  *)
(* step to what happened before it.                                        *)
(***************************************************************************)
EXTENDS ReturnMission

VARIABLES
  turnStart,   \* heading when TURN_180 was entered
  heardHere    \* triggers heard True since the state that waits for them
               \* was entered: a press, or the repeat of one still held

hvars == <<vars, turnStart, heardHere>>

NothingHeard == [record |-> FALSE, return |-> FALSE]

HInit ==
  /\ Init
  /\ turnStart = 0 /\ heardHere = NothingHeard

HButton(v) ==
  /\ alive
  /\ \/ /\ OnRecordTrigger(v)
        /\ heardHere' = [heardHere EXCEPT !.record = state = "IDLE" /\ (@ \/ v)]
     \/ /\ OnReturnTrigger(v)
        /\ heardHere' = [heardHere EXCEPT
                            !.return = state = "WAIT_RETURN_COMMAND" /\ (@ \/ v)]
  /\ UNCHANGED turnStart

HStep ==
  /\ Tick \/ Message \/ Shutdown
  /\ turnStart' = IF state # "TURN_180" /\ state' = "TURN_180"
                  THEN odom.yaw ELSE turnStart
  /\ heardHere' = IF state' # state THEN NothingHeard ELSE heardHere

HNext == (HStep \/ \E v \in env.buttons : HButton(v)) /\ UNCHANGED env

HSpec == HInit /\ [][HNext]_hvars /\ WF_vars(Tick /\ UNCHANGED env)

-----------------------------------------------------------------------------
\* The turn ends only with the robot facing opposite to where it faced when
\* the turn began, however its heading moved in between.
TurnedAround ==
  [][state = "TURN_180" /\ state' = "FOLLOW_RETURN_PATH"
     => Norm(odom.yaw - turnStart) = Half]_hvars

\* Recording starts, and the return starts, only on a True heard since the
\* state that waits for it was entered: what was pressed and released before
\* is absorbed, and no message starts two things.  A True held since before
\* the state does start it when it is repeated there (the code forgets the
\* previous value on entry): ReturnMissionTriggers shows that.
StartsOnTrueHeardInPlace ==
  [][/\ state = "IDLE" /\ state' = "MANUAL_RECORDING" => heardHere.record
     /\ state = "WAIT_RETURN_COMMAND" /\ state' = "STOP_BEFORE_TURN"
        => heardHere.return]_hvars
=============================================================================
