----------------------------- MODULE DockingServo -----------------------------
(***************************************************************************)
(* The latch of the tool changer: arduino_docking_bridge.py, a ROS node,   *)
(* and DockingMotor.ino, the firmware behind its serial port.  The servo   *)
(* has no position sensor: what the bridge reports is what the firmware    *)
(* believes, SETTLE_MS after it told the servo to turn.                    *)
(*                                                                         *)
(* A callback of the bridge and a pass of loop() are one action each.  The *)
(* two topics of the bridge keep one message; it polls every 20 ms, longer *)
(* than a message takes, so it posts to an empty mail, but the two         *)
(* messages of one report arrive in any order.                             *)
(***************************************************************************)
EXTENDS Naturals, Sequences, SequencesExt

CONSTANT MaxBytes  \* bound: commands the firmware has not read

ASSUME ServoAssumption == MaxBytes \in Nat \ {0}

VARIABLES
  bridge, \* serial is not None; pending; state; protocol is not None
  board,  \* moving, targetDocked; docked or "none" if not stateKnown
  servo,  \* external: where the latch is
  down,   \* commands under way to the firmware
  up,     \* lines under way to the bridge
  mail    \* undelivered messages: /arm/docked and /arm/docking_status

link == <<bridge, board, servo, down, up, mail>>

Positions == {"dock", "release"}
NoMail == [docked |-> "none", status |-> "none"]
Lost == [open |-> FALSE, pending |-> FALSE, state |-> "none", asked |-> FALSE]

\* The bridge has asked, and the firmware does not know where the latch is until it
\* has turned it.
LinkInit ==
  /\ servo \in Positions
  /\ board = [moving |-> FALSE, target |-> "release", docked |-> "none"]
  /\ bridge = [open |-> TRUE, pending |-> FALSE, state |-> "none", asked |-> TRUE]
  /\ down = <<>> /\ up = <<>> /\ mail = NoMail

-----------------------------------------------------------------------------
(* The bridge *)

\* publish_status and publish_state, on a mail box b.
PostStatus(b, s) == [b EXCEPT !.status = s]
StatusOf(s) == CASE s = "dock" -> "DOCKED" [] s = "release" -> "RELEASED"
                 [] OTHER -> "UNKNOWN"
PostState(b, s) ==
  [docked |-> IF s = "none" THEN b.docked ELSE s, status |-> StatusOf(s)]

\* disconnect
Disconnect ==
  /\ bridge' = Lost
  /\ mail' = PostStatus(mail, "UNKNOWN")
  /\ UNCHANGED down

\* command_state: the wanted position d, unless the bridge is busy.
CommandState(d) ==
  \/ /\ ~bridge.open \/ bridge.pending
     /\ UNCHANGED <<bridge, down, mail>>
  \/ /\ bridge.open /\ ~bridge.pending /\ bridge.state = d
     /\ mail' = PostState(mail, d)
     /\ UNCHANGED <<bridge, down>>
  \/ /\ bridge.open /\ ~bridge.pending /\ bridge.state # d
     /\ Len(down) < MaxBytes
     /\ down' = Append(down, d)
     /\ bridge' = [bridge EXCEPT !.pending = TRUE]
     /\ mail' = PostStatus(mail, "MOVING")
  \/ /\ bridge.open /\ ~bridge.pending /\ bridge.state # d
     /\ Disconnect

\* on_command: the other side of the present one
Toggle ==
  /\ mail = NoMail
  /\ bridge.state # "none"
  /\ \E d \in Positions \ {bridge.state} : CommandState(d)
  /\ UNCHANGED <<board, servo, up>>

\* poll while the port is closed: opening it may reset the firmware.
Open ==
  /\ mail = NoMail
  /\ ~bridge.open
  /\ bridge' = [Lost EXCEPT !.open = TRUE]
  /\ mail' = PostStatus(mail, "UNKNOWN")
  /\ up' = <<>> /\ UNCHANGED servo
  /\ \/ /\ down' = <<"query">> /\ UNCHANGED board
     \/ /\ down' \in {<<>>, <<"query">>}
        /\ board' = [moving |-> FALSE, target |-> "release", docked |-> "none"]

\* What a line does to the bridge b and its mail.
Line(x, line) ==
  CASE line \in Positions ->
         [b |-> [x.b EXCEPT !.state = line, !.pending = FALSE, !.asked = TRUE],
          mail |-> PostState(x.mail, line)]
    [] line = "unknown" ->
         [b |-> [x.b EXCEPT !.state = "none", !.pending = FALSE, !.asked = TRUE],
          mail |-> PostStatus(x.mail, "UNKNOWN")]
    [] line = "error" ->
         [b |-> [x.b EXCEPT !.pending = FALSE],
          mail |-> PostStatus(x.mail, "ERROR")]
    [] OTHER -> x

\* poll while it is open: ask again until the firmware has said its state, and
\* read what has come.
Poll ==
  /\ mail = NoMail
  /\ bridge.open
  /\ \/ /\ \/ UNCHANGED down
           \/ ~bridge.asked /\ Len(down) < MaxBytes /\ down' = Append(down, "query")
        /\ LET after == FoldLeft(Line, [b |-> bridge, mail |-> mail], up)
           IN  bridge' = after.b /\ mail' = after.mail
        /\ up' = <<>>
     \/ Disconnect /\ UNCHANGED up
  /\ UNCHANGED <<board, servo>>

-----------------------------------------------------------------------------
(* The firmware *)

\* MOVING and BUSY, which the bridge passes over, are left out.
Say(line) == up' = IF bridge.open THEN Append(up, line) ELSE up
Position == IF board.docked = "none" THEN "unknown" ELSE board.docked

\* A command byte in loop().
Read ==
  /\ down # <<>> /\ down' = Tail(down)
  /\ LET c == Head(down)
     IN  \/ /\ c = "query"
            /\ IF board.moving THEN UNCHANGED up ELSE Say(Position)
            /\ UNCHANGED board
         \/ /\ c # "query" /\ board.moving
            /\ UNCHANGED <<board, up>>
         \/ /\ c # "query" /\ ~board.moving /\ board.docked = c
            /\ Say(c) /\ board' = [board EXCEPT !.target = c]
         \/ /\ c # "query" /\ ~board.moving /\ board.docked # c
            /\ board' = [board EXCEPT !.moving = TRUE, !.target = c]
            /\ UNCHANGED up
  /\ UNCHANGED <<bridge, servo, mail>>

\* SETTLE_MS after the command; the servo has turned by then.
Settled ==
  /\ board.moving
  /\ board' = [board EXCEPT !.moving = FALSE, !.docked = board.target]
  /\ servo' = board.target
  /\ Say(board.target)
  /\ UNCHANGED <<bridge, down, mail>>
=============================================================================
