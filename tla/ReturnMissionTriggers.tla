------------------------ MODULE ReturnMissionTriggers ------------------------
(***************************************************************************)
(* ReturnMission with what was published on /path/record and /path/return  *)
(* remembered, whatever the node forgets of it: the node's own docstring   *)
(* says it acts on a change from False to True only.                       *)
(***************************************************************************)
EXTENDS ReturnMission

VARIABLES
  level,  \* the last value heard on each trigger, FALSE before any
  edge    \* triggers that changed from False to True in the present state

tvars == <<vars, level, edge>>

Triggers == {"record", "return"}
NoTrigger == [t \in Triggers |-> FALSE]

TInit == Init /\ level = NoTrigger /\ edge = NoTrigger

TButton(t, v) ==
  /\ alive
  /\ IF t = "record" THEN OnRecordTrigger(v) ELSE OnReturnTrigger(v)
  /\ level' = [level EXCEPT ![t] = v]
  /\ edge' = [edge EXCEPT ![t] = @ \/ (v /\ ~level[t])]

TStep ==
  /\ Tick \/ Message \/ Shutdown
  /\ edge' = IF state' # state THEN NoTrigger ELSE edge
  /\ UNCHANGED level

TNext ==
  /\ TStep \/ \E t \in Triggers, v \in env.buttons : TButton(t, v)
  /\ UNCHANGED env

TSpec == TInit /\ [][TNext]_tvars /\ WF_vars(Tick /\ UNCHANGED env)

-----------------------------------------------------------------------------
\* What the docstring of the node says (lines 69-72): recording and return start
\* on a change from False to True, never on a True that is sustained.  TLC finds
\* it violated: _go_to forgets the previous value on entry to the states that
\* wait, so a True held and published again starts them -- a return button held
\* down since the recording sends the robot back.
OnlyEdgesStart ==
  [][/\ state = "IDLE" /\ state' = "MANUAL_RECORDING" => edge["record"]
     /\ state = "WAIT_RETURN_COMMAND" /\ state' = "STOP_BEFORE_TURN"
        => edge["return"]]_tvars
=============================================================================
