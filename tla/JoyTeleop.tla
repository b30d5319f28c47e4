------------------------------ MODULE JoyTeleop ------------------------------
(***************************************************************************)
(* manual_joy_control_node: the joystick as the operator of the wheels.    *)
(* Each handler is an operator on the node's record j: the focus it has    *)
(* heard of, the directions it takes for pressed, whether the  *)
(* mode directions have to be released first, the latest wheel command and *)
(* the age of /joy.                                                        *)
(*                                                                         *)
(* The wheel command is zero or motion; the buttons that choose its kind   *)
(* and size are left out, and those of return, record and landmark, which  *)
(* are published at each press, are a choice of the modules that hear them. *)
(***************************************************************************)
EXTENDS Integers

CONSTANT JoyTimeout  \* joy_timeout

ASSUME JoyAssumption == JoyTimeout \in Nat

\* The directions of the D-pad that ask for a mode
Modes == {"MANUAL", "AUTO"}

NewTeleop ==
  [focus |-> "drive", rearm |-> FALSE, held |-> {}, latest |-> "zero", age |-> 0]

\* on_active_target
OnActiveTarget(j, focus) ==
  IF focus = "drive" THEN [j EXCEPT !.focus = focus]
  ELSE [j EXCEPT !.focus = focus, !.rearm = TRUE, !.latest = "zero"]

\* variant: the directions need not be released
RequestAtOnce(j, pressed) ==
  IF "MANUAL" \in pressed \ j.held THEN {"MANUAL"}
  ELSE IF "AUTO" \in pressed \ j.held /\ "MANUAL" \notin pressed THEN {"AUTO"}
  ELSE {}

\* _handle_control_mode: the mode a press asks for
ModeRequest(j, pressed) ==
  IF j.rearm THEN {}
  ELSE IF "MANUAL" \in pressed \ j.held THEN {"MANUAL"}
  ELSE IF "AUTO" \in pressed \ j.held /\ "MANUAL" \notin pressed THEN {"AUTO"}
  ELSE {}

\* joy_callback, with the stick at rest or not
JoyCallback(j, pressed, stick) ==
  IF j.focus # "drive" THEN [j EXCEPT !.age = 0, !.latest = "zero"]
  ELSE [j EXCEPT !.age = 0, !.latest = stick, !.held = pressed,
                 !.rearm = @ /\ pressed # {}]

\* variant: the last command is repeated for ever
RepeatLatest(j) == j

\* publish_cmd: the command published is the latest one.
PublishStick(j) ==
  IF j.age > JoyTimeout THEN [j EXCEPT !.latest = "zero"] ELSE j

JoyAged(j) == [j EXCEPT !.age = IF @ > JoyTimeout THEN @ ELSE @ + 1]
=============================================================================
