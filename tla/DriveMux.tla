------------------------------ MODULE DriveMux ------------------------------
(***************************************************************************)
(* drive_cmd_mux_node with capture_hold: the one publisher of /cmd_vel,    *)
(* which lets the joystick or the return mission drive, by the state the   *)
(* mission announces, and holds the joystick at zero while the rear camera *)
(* takes a landmark picture.                                               *)
(*                                                                         *)
(* One unit of time is a period of the 50 Hz publishing timer; timestamps  *)
(* are kept as ages, cut off at the bound they are compared with.          *)
(***************************************************************************)
EXTENDS Integers

CONSTANTS MissionStates,   \* what /mission/return/state may announce
          StopToCapture,   \* landmark_capture_mode = 'stop'
          SourceTimeout,   \* source_timeout_s
          Grace, Lease, MaxHold,  \* the bounds of CaptureHold
          Rearm            \* rearm_s of PressDetector

ManualStates == {"IDLE", "MANUAL_RECORDING", "WAIT_RETURN_COMMAND", "FINISHED",
                 "RETURN_MANUAL", ""}
ReturnStates == {"TURN_180", "FOLLOW_RETURN_PATH", "RETURN_LANDMARK_SEARCH"}
ZeroStates == {"STOP_BEFORE_TURN", "RETURN_RESUME_STOP", "RETURN_INTERVENTION"}
CaptureStates == {"MANUAL_RECORDING", "WAIT_RETURN_COMMAND"}

ASSUME MuxAssumption ==
  /\ StopToCapture \in BOOLEAN
  /\ {SourceTimeout, Grace, Lease, MaxHold, Rearm} \subseteq Nat
  /\ Lease > 0 /\ Grace > 0

None == -1
Sources == {"manual", "return"}
Timers == Sources \cup {"hold", "lease", "true"}
Cap == [t \in Timers |-> CASE t \in Sources -> SourceTimeout + 1
                           [] t = "hold"    -> MaxHold
                           [] t = "lease"   -> Lease
                           [] t = "true"    -> Rearm]

VARIABLES
  state,    \* _state: the mission state last heard, "" before any
  cmd,      \* _manual_cmd and _return_cmd: "zero" or "move"
  age,      \* their times, CaptureHold's two, and PressDetector's _last_true
  prev,     \* PressDetector's _prev
  out       \* the last /cmd_vel: who moves the robot, or why nobody does

vars == <<state, cmd, age, prev, out>>

Init ==
  /\ state = ""
  /\ cmd = [s \in Sources |-> "zero"]
  /\ age = [t \in Timers |-> None]
  /\ prev = FALSE
  /\ out = "zero"

Aged == [t \in Timers |-> IF age[t] # None /\ age[t] < Cap[t]
                          THEN age[t] + 1 ELSE age[t]]

Fresh(s, ages) == ages[s] # None /\ ages[s] <= SourceTimeout

-----------------------------------------------------------------------------
(* CaptureHold and PressDetector *)

HoldActive(ages) ==
  /\ ages.hold # None
  /\ ages.hold < MaxHold
  /\ IF ages.lease = None THEN ages.hold < Grace ELSE ages.lease < Lease

Released(ages) == [ages EXCEPT !.hold = None, !.lease = None]

\* CaptureHold.active releases a hold that has run out.
Checked(ages) == IF HoldActive(ages) THEN ages ELSE Released(ages)

\* variant: every press starts the hold
EveryPressHolds(ages) == [ages EXCEPT !.hold = 0, !.lease = None]
\* CaptureHold.press: a press during a hold does not extend it.
HoldPressed(ages) ==
  IF HoldActive(ages) THEN ages ELSE [ages EXCEPT !.hold = 0, !.lease = None]

\* CaptureHold.lease
HoldLeased(ages, holding) ==
  CASE ages.hold = None -> ages
    [] ages.hold # None /\ holding -> [ages EXCEPT !.lease = 0]
    [] OTHER -> Released(ages)

\* PressDetector.update(True): an edge, or a True after a pause of Rearm
IsPress == ~prev \/ (age["true"] # None /\ age["true"] >= Rearm)

-----------------------------------------------------------------------------
(* Callbacks and the publishing timer *)

OnManual(c) ==
  /\ cmd' = [cmd EXCEPT !.manual = c]
  /\ age' = [age EXCEPT !.manual = 0]
  /\ UNCHANGED <<state, prev, out>>

OnReturn(c) ==
  /\ cmd' = [cmd EXCEPT !["return"] = c]
  /\ age' = [age EXCEPT !["return"] = 0]
  /\ UNCHANGED <<state, prev, out>>

\* variant: only the return command is forgotten
ForgetReturn == [age EXCEPT !["return"] = None]
\* What is forgotten at a change of state: no cached motion survives it.
Forgotten == [age EXCEPT !.manual = None, !["return"] = None]

OnState(s) ==
  /\ state' = s
  /\ IF s # state THEN age' = Forgotten /\ out' = "zero"
     ELSE UNCHANGED <<age, out>>
  /\ UNCHANGED <<cmd, prev>>

\* The landmark button; the press counts only while a path is recorded, and in
\* 'moving' mode the robot is not stopped for the picture.
OnLandmarkTrigger(v) ==
  LET seen == [age EXCEPT !["true"] = IF v THEN 0 ELSE @]
  IN  /\ prev' = v
      /\ age' = IF v /\ IsPress /\ StopToCapture /\ state \in CaptureStates
                THEN HoldPressed(seen) ELSE seen
      /\ UNCHANGED <<state, cmd, out>>

OnLandmarkHold(holding) ==
  /\ age' = HoldLeased(age, holding)
  /\ UNCHANGED <<state, cmd, prev, out>>

Pass(s, ages) == IF Fresh(s, ages) /\ cmd[s] = "move" THEN s ELSE "zero"

PublishReturn ==
  /\ state \in ReturnStates
  /\ age' = Aged
  /\ out' = Pass("return", Aged)

PublishZero ==
  /\ state \in ZeroStates
  /\ age' = Aged
  /\ out' = "zero"

\* The manual states, and every state the mux does not know.
PublishManual ==
  /\ state \notin ReturnStates \cup ZeroStates
  /\ age' = Checked(Aged)
  /\ out' = IF HoldActive(Aged) THEN "held" ELSE Pass("manual", Aged)

PublishCmd ==
  /\ PublishReturn \/ PublishZero \/ PublishManual
  /\ UNCHANGED <<state, cmd, prev>>

Callback ==
  \/ \E c \in {"zero", "move"} : OnManual(c) \/ OnReturn(c)
  \/ \E s \in MissionStates : OnState(s)
  \/ \E v \in BOOLEAN : OnLandmarkTrigger(v) \/ OnLandmarkHold(v)

Next == PublishCmd \/ Callback

Spec == Init /\ [][Next]_vars /\ WF_vars(PublishCmd)

-----------------------------------------------------------------------------
(* What the mux promises *)

TypeOK ==
  /\ state \in MissionStates \cup {""}
  /\ cmd \in [Sources -> {"zero", "move"}]
  /\ age \in [Timers -> Nat \cup {None}]
  /\ prev \in BOOLEAN
  /\ out \in Sources \cup {"zero", "held"}

\* Whoever the announced state puts in charge of the wheels
Owner(s) == CASE s \in ReturnStates -> "return"
              [] s \in ZeroStates   -> "nobody"
              [] OTHER              -> "manual"

\* The arbiter the mux implements: a handover stops the robot, and only the
\* owner moves it, with a command given since the handover.
Arbiter == INSTANCE DriveArbiter
             WITH owner  <- Owner(state),
                  spoken <- {s \in Sources : age[s] # None},
                  moving <- IF out \in Sources THEN out ELSE "nobody"

ImplementsArbiter == Arbiter!Spec

\* A press made during a hold does not prolong it, and neither does the camera.
HoldNotExtended ==
  [][age.hold # None /\ HoldActive(age) /\ age'.hold # None
     => age'.hold >= age.hold]_vars
=============================================================================
