--------------------------- MODULE MCReturnMission ---------------------------
(***************************************************************************)
(* Instances of ReturnMission for TLC.  Each surroundings lets the nodes   *)
(* of one phase of the mission be busy and keeps the others quiet; a run   *)
(* takes several of them.  All time bounds are one or two control periods, *)
(* except where an order between bounds matters.                           *)
(***************************************************************************)
EXTENDS ReturnMission

CONSTANTS p0, p1

MCWaypoints == {p0, p1}

\* At rest at the goal, without visual landmarks, and the whole route recorded.
Quiet == [odoms |-> [yaw : {0}, still : {TRUE}, near : {TRUE}],
          paths |-> {<<p0, p1>>}, origins |-> {}, stamps |-> {},
          buttons |-> {TRUE}, commands |-> {}, reverse |-> TRUE,
          recovery |-> FALSE]

\* Nothing, a recording that has not moved, one that has.
Recordings == {<<>>, <<p0>>, <<p0, p1>>}

\* The operator pauses and resumes a mission that is being followed; the robot is
\* at rest or moving, near the goal or not.
Pausing ==
  [Quiet EXCEPT !.odoms = [yaw : {0}, still : BOOLEAN, near : BOOLEAN],
                !.paths = Recordings, !.origins = {"o1"},
                !.commands = {"zero", "move"}]

\* The robot turns around: any heading at rest, one in motion.
Turning ==
  [Quiet EXCEPT !.odoms = [yaw : Yaws, still : {TRUE}, near : {FALSE}]
                          \cup [yaw : {0}, still : {FALSE}, near : {FALSE}],
                !.reverse = FALSE]

\* The buttons are pressed and released at any time.
Pressing ==
  [Quiet EXCEPT !.paths = Recordings, !.origins = {"o1"}, !.buttons = BOOLEAN]

\* A sweep over a left target, the middle and beyond: it may dwell, turn to its
\* next target or leave its envelope.
Sweeping ==
  [Quiet EXCEPT !.odoms = [yaw : {0, 1, 2}, still : {TRUE}, near : {FALSE}],
                !.stamps = {0}, !.recovery = TRUE]

\* A dwell that movement may disturb, with images that come at once or late.
Disturbed ==
  [Quiet EXCEPT !.odoms = [yaw : {0}, still : BOOLEAN, near : {FALSE}],
                !.origins = {"o1"}, !.stamps = {0, 1}, !.recovery = TRUE]

\* A sweep at rest, ahead or behind.
Resting ==
  [Quiet EXCEPT !.odoms = [yaw : {0, 2}, still : {TRUE}, near : {FALSE}],
                !.stamps = {0}, !.recovery = TRUE]

EveryPhase == {Pausing, Turning, Pressing, Sweeping, Disturbed}
OnlyPressing == {Pressing}
OnlyResting == {Resting}

Left == 1
Right == -1
=============================================================================
