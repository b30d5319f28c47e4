# ResKU in TLA+

TLA+ modules, TLC configurations and TLAPS proofs for the control software of
the ResKU rescue robot: a four-wheeled base with a six-joint arm, run as a set of
ROS 2 nodes. The project models the *decisions* of those nodes -- states, guards,
latches, timeouts, who owns the wheels or the arm -- and leaves the arithmetic of
poses, images and trajectories to the code's own tests.

Contents: [1 The system](#1-the-system), [2 Conventions](#2-conventions),
[3 The modules](#3-the-modules), [4 The runs](#4-the-runs),
[5 The proofs](#5-the-proofs), [6 Disagreements found](#6-disagreements-found),
[7 What is not modelled](#7-what-is-not-modelled), [8 What is left](#8-what-is-left).

`PROJECT.json` is the index: components, runs, mutants, the map from every
definition to the source lines it stands for, hazards and theorems.

## 1 The system

### 1.1 The return mission

The operator drives the robot out by joystick, the robot drives itself back.

| part (under `src/src/drive/`) | state it keeps | operations | talks to |
|---|---|---|---|
| `return/return_navigation/.../return_state_machine_node.py` -- the *mission* | mission state, emergency latch, odometry, the two button flags, recorded and return path, accumulated turn, landmark search, outstanding resume request, cached follower command | 13 subscriptions, one 20 Hz timer with an arm per state | recorder (command), follower (state, return path, resume request), visual landmark node (search request), mux (state, `/cmd_vel_return`) |
| `manual_path_recorder_node.py` -- the *recorder* | recording flag, path, origin, last point | START / STOP / CLEAR, odometry | mission (recorded path, origin) |
| `return_path_follower_node.py` -- the *follower* | tracking mode, progress, corner pointer and floor, ramped velocities, landmark hold, visual correction | odometry, return path, mission state, resume request; 20 Hz timer | mission (follow command, resume result, miss report) |
| `YawSearch`, `LandmarkWatch` (in `recovery.py`) | start yaw, target, phase, candidate; landmarks seen and attempted | one step per control period | called by the mission and by the follower |
| `return/drive_cmd_mux/.../drive_cmd_mux_node.py` -- the *mux* | announced mission state, one cached command per source, capture hold | 4 subscriptions, one 50 Hz timer | wheel driver (`/cmd_vel`) |
| `return/drive_cmd_mux/.../capture_hold.py` | hold lease and its start | press, hold message, expiry | called by the mux |
| `return/visual_landmark` -- capture, localisation, scheduling | capture sequence, database, checkpoints | triggers, images | mission, mux |
| `manual/manual_joy_control` -- the *joystick node* | focus, last command, mode buttons | `/joy`, active target, timers | mux, mission (control mode), arm |
| `autonomous/rmd_x8_driver` -- the *wheel driver* | bus, last commands and times, feedback, watchdog acknowledgements | CAN thread, 50 Hz loop, reconnect, shutdown | the motors |

What makes it hard: every message crosses a process boundary, so a state
announcement and the commands given under it can be seen in either order; the
joystick, the follower and the mission all may command the wheels; the robot can be
paused at any moment; the landmark search acts on images that are seconds old; an
emergency stop must win over everything in flight. What makes each part correct:

* mission -- a command is published only under the state that owns it; a pause
  does not lose or rebuild the route; the mission moves on only from a confirmed
  rest and on evidence that is newer than the rest; every wait ends; the
  emergency latch is final;
* recorder -- the mission never starts a return on an earlier recording;
* follower -- its command is bounded after every interruption and no corner is
  skipped or revisited;
* mux -- the wheels obey one owner, never a command given before the owner took
  over, and a capture hold always ends;
* wheel driver -- silence stops the wheels, a safety command wins, nothing is
  sent after the stop.

### 1.2 The arm

| part (under `src/src/arm/`) | state it keeps | operations |
|---|---|---|
| `tool_manipulator_bringup/scripts/arm_mode_core.py` | mode, transition target, fault latch, ownership epoch, startup recovery, entry alignment, path, end-effector state | request, reset, command, pause, path, cancel, tick |
| `arm_control_mode_manager.py` | controller activation, focus, pending switch requests, end-effector jog | topic callbacks, polling of action and service futures, tick |
| `tool_change_min/.../tool_change_fsm.py`, `changer_protocol.py` | procedure step, transaction of the tool changer, cancel flag | action server on a four-thread executor |
| `tool_docking_coordinator.py`, `tool2_pick_place_coordinator.py` | sequence step, retries | action clients |
| teleoperation clients (`manual.py`, `tcp_joy.py`, ...) | button edges, last command | `/joy`, timers |
| `arm_drive_guard.py` | arm stowed or not | interlock between arm and wheels |

What makes it hard: commands, cancellations and reset requests carry an ownership
epoch because they may be late; controller activation is asynchronous and can fail
half-way; the tool changer moves on while its caller has timed out; cancel, fault
and completion race. Correct means: no command of an earlier epoch moves the arm,
a fault stays latched until a reset with fresh and stopped feedback, every
transition ends in the target mode, HOLD or FAULT, a tool change stops its motor
exactly once and an abort wins.

### 1.3 The rest

Odometry sources, MPPI critics, path relay, kinematics, detectors and firmware
compute; they have little control state (section 7). `PROJECT.json` lists all of
them.

## 2 Conventions

* **Time** is counted in periods of the node's own control timer (20 Hz for the
  mission and the follower, 50 Hz for the mux and the wheel driver, 100 Hz for the arm).
  A stored timestamp is kept as its *age* in periods (`None`: never set) and is cut off
  just above the largest bound it is compared with, so the ages are exact wherever
  the code looks at them. Where a node's timer may be late, `late` counts the periods
  since it last ran.
* **Atomicity.** Most nodes run on a single-threaded rclpy executor: a callback
  or timer runs to completion, so one callback is one action. Where it does not
  (the wheel driver waiting for acknowledgements while the CAN thread runs; the tool
  change procedure with its four threads) the code is cut at the points where another
  thread can be seen: `at` and `pc` say where it is.
* **Environment.** What other nodes and the operator may send is a constant set. Any
  member may arrive at any moment, in any order and any number of times: delay, loss
  and repetition are all in the model. Several modules take a set of
  *surroundings*, records of such sets, and a behaviour is in one of them: `env` (in
  `ToolSequence`: `tool`) is chosen by `Init` and never changes. One run can so look at
  several situations, each small, without their product; the theorems hold for every
  set of surroundings, hence also for one in which everything is busy at once.
* **Data.** A heading is a position on a circle of `Circle` steps; the
  tolerances of the code are less than a step, so "within tolerance" is equality. A
  pose is what the handlers ask of it. A command is what it is for (`zero`, `move`,
  `turn`, ...). A uuid or a stamp that is only compared for equality is kept, with
  each of its holders, as "is it still the current one".
* **Variants.** Next to some definitions stands an operator that no
  specification uses (`FocusOnly` before `Focused`, ...), marked `variant`. It is the
  definition with a plausible slip; substituting it must break the property that guards
  against it, which is how each property is known to be sensitive to the code.
* MC modules hold the values of constants and nothing else; numbers are given
  in the `.cfg`. Proofs are in modules named `...Proofs`, which extend the module they
  are about.
* Written for the prover: recursion is left to the folds of the community modules, an
  `@` is never used inside an EXCEPT that stands in another EXCEPT (tlapm 1.4.5
  expands it wrongly), and a value that two conjuncts need is given a name of its own.

## 3 The modules

`A -> B` means that A extends B, `A : B` that it instantiates B.

| module | models | MC module | proofs |
|---|---|---|---|
| `YawSearch` | `recovery.YawSearch` and `normalize_angle`, as operators | | |
| `ReturnMission -> YawSearch` | the mission node | `MCReturnMission` | `ReturnMissionProofs` |
| `ReturnMissionHistory -> ReturnMission` | history variables for its action properties | `MCMissionHistory` | `ReturnMissionProofs` |
| `ReturnMissionTriggers -> ReturnMission` | what was published on the triggers, whatever the node forgets of it | `MCMissionTriggers` | |
| `DriveArbiter` | abstract: one owner of the wheels | | |
| `DriveMux : DriveArbiter` | the mux with `CaptureHold` and `PressDetector` | | `DriveChainProofs` |
| `JoyTeleop`, `LandmarkCapture` | the joystick node and the landmark capture node, as operators on a record | | |
| `DriveChain -> DriveMux, JoyTeleop, LandmarkCapture` | the three nodes, a robot, a camera and an operator | `MCDriveChain` | `DriveChainProofs` |
| `PathFollower` | the follower with `LandmarkWatch` | | `PathFollowerProofs` |
| `PathFollowerHistory -> PathFollower` | the corner at which a rotation began | `MCPathFollower` | |
| `WheelDriver` | the CAN driver, with adapter and motors | `MCWheelDriver` | `WheelDriverProofs` |
| `ArmModeCore` | `ModeCore`, one operator per method | | |
| `ArmOwner` | abstract: one owner of the arm | | |
| `ArmModeManager -> ArmModeCore`, `: ArmOwner` | the arm's mode manager node | `MCArmModeManager` | `ArmModeProofs` |
| `GripperJob` | `run_ee` and what its outcomes depend on: the gripper and its encoder | `MCGripperJob` | `GripperJobProofs` |
| `ToolChange` | `tool_change_fsm.py`, its threads, the motion executor's queue | `MCToolChange` | `ToolChangeProofs` |
| `DockingServo` | `arduino_docking_bridge.py` and `DockingMotor.ino` | | |
| `ToolSequence -> DockingServo` | `tool_trajectory_joy.py`, `tool_docking_coordinator.py` | `MCToolSequence` | `ToolSequenceProofs` |

### 3.1 ReturnMission

Variables keep the names of the node's fields where a field has one variable.
Timestamps are gathered in `age`, the two UI triggers in `press` (pending flag and
previous value of each), the turn in `turn` (`_turn_prev_yaw`, `_turn_accum`). `told`,
`out`, `searchPub` and `command` are the last messages published on the state topic,
`/cmd_vel_return`, the latched search request and the recorder command. `gated`
stands for `_auto_follow_after`: the follower command needed is one received after
the resume.

Actions: one `On...` per subscription, with the filter at the top of the callback
as guard, and `Tick`, which is one disjunct per arm of `_tick`, plus
`TickEmergency` ahead of them. `GoTo(new, ages, p)` is the whole of `_go_to`,
including the announcement, the timers it resets, the buttons it absorbs and the
search request it publishes. `rclpy.shutdown()` sets `alive` to FALSE; `Shutdown` is the
only step afterwards.

Left open: the arithmetic of poses. An odometry sample says where the robot
heads, whether it rests and whether it is near the goal, and any sample may
follow any other.

### 3.2 DriveMux, DriveArbiter and DriveChain

`state`, `cmd` and `age` are the mux's fields; `age.hold`, `age.lease` and
`age.true` are those of `CaptureHold` and `PressDetector`. `OnState` forgets the
cached commands (`Forgotten`) and leaves a hold alone: a hold survives a state change.
`PublishCmd` is the timer: who may pass (`Pass`), and the hold in front of the joystick.
The abstract `DriveArbiter` knows an owner, who has spoken since the handover and who
moves the robot; the mapping reads the owner off the announced state and `spoken` off
the cached commands.

`DriveChain` adds the nodes that feed the mux. `part`, chosen once, says which of them
is there: `none` (anything may arrive at any time), `driving` (the joystick node,
an operator who presses directions and moves the stick, changes of focus) or
`capturing` (the landmark button, the capture node, its hold messages, a robot that
coasts, odometry, a camera). Both nodes hear a landmark press and a mission state
within the period; hold messages are late by any time, at most `Late` of them; odometry
and, when the node is busy, its timer come once a period; in `capturing` the hand
pushes the stick every period; one picture is under way at a time, for at least one
period. Pictures the node would refuse whatever they show (taken at rest before a
frame is waited for, or older than `ImageStale`) are left out. Assumed: odometry of a
motion is handled before a picture taken during it arrives.

### 3.3 PathFollower

A path is the sequence of its vertices' headings, indices counted from 1. Where
the robot is along it is not modelled: the vertex nearest to the robot is *any*
in the searched window `Lo .. Hi`, the next corner is reached or not, and each
landmark is ahead, near or passed, in the order of the route. Speeds are
counted in ramp steps (`max_accel / rate`), so a command changes by at most one
unit per tick unless the code resets it. `granted` is the one fact about the
mission that is assumed: it announces FOLLOW_RETURN_PATH only after it has sent
a path or received a ready answer, and the path arrives first.

### 3.4 WheelDriver

`at` is where the executor is: `idle`, in a control loop (the frame it sends
next), opening the bus, waiting for acknowledgements, or shutting down. While it
waits no callback and no timer runs, but the CAN thread delivers acknowledgements,
publishers publish, the adapter may vanish and time passes. `inbox` is the message
waiting for the executor on each topic; one slot that may be overwritten or not lets
every message be the one that waited longest. Messages published between two frames of
one loop are left out: they are seen by the next callback in any case. The frames that
go to both motors with nothing in between are one step.

The motors, their watchdog (off at power-up, kept until power is lost, stopping
the motor when no control frame has come for its limit), the adapter and its
socket (dead for good once the adapter is gone) are external; they are modelled
after `rmd_x8_protocol.py` and the driver's comments. `guarded` is a history field:
the driver had the motor's watchdog confirmed when it last told it to move, and it was
on (`Sure`). Any single frame may fail on any bus: a speed frame, a watchdog setting or
a stop frame, each counted where the code counts it. The motors may lose power at any
time; with the bus up the driver is not told (`dipped`), and takes the watchdog for
confirmed until it next reconnects. `missed` are the wheels that got no stop frame of a
shutdown although bus and power were up. Both exceptions are the code's (section 6);
`MotionIsRecent` and `NoRunaway` name them and hold for every other wheel. Left out:
feedback and odometry.

### 3.5 ArmModeCore, ArmModeManager, ArmOwner

The core is the record `c`, its fields are those of `ModeCore`, and each method is an
operator that returns the record it leaves. All joints are one joint, the one a
guard would trip on, with positions `0 .. Top` within its soft limits and one more on
each side; "at the goal" is equality. How far the target gets in a period under the
speed, acceleration and jerk limits is left open (`Targets`): it may be at the goal,
on its way or lag. The ownership epoch is kept as `cur` with every holder of a copy;
`renewed` says that the call under way made a new one, and `Commit`, which ends each
callback, then marks the copies outside the core as old. The outcome of a period of
a gripper job is open here and detailed in `GripperJob`.

The manager has one action per callback and service, and `Tick`, which runs
`poll` (`Poll`: the controller list, the activation and its deadline), the pending focus,
the core's own tick (`Ticked`) and the gripper, in that order. The controller
manager's answers, the joints and the producers are external; a producer (`Send`)
may write at any time, with the current epoch or with an old copy, on a queue of
depth one. `inbox[s].turn` is a history field: the message was written in the present
turn of its sender, the time since it asked for the arm during which it has been the
owner or the one the arm stops for.

`ArmOwner` is what this amounts to: one owner at a time, handed over only from
nobody and at rest, a goal given only by the owner or by the manager's own recovery
and alignment, and without an owner no goal but the place where the arm was seen.

### 3.6 GripperJob

The encoder has `Wrap` positions, so a reading tells a turn only up to whole
revolutions, and `run_ee` adds up differences between readings. The gripper follows its
command, lags, sticks or runs on, at most `MaxStep` positions a period; readings may be
lost, late or nonfinite; ticks may be late. `turned` is how far it really went.

### 3.7 ToolChange

The procedure runs in the callback of the request (`pc`, `stage`); every block under
`changer_guard` is one action, the steps outside it are actions of their own, and
feedback, the Arduino's statuses, the controllers', hardware faults
and cancels come in between on other threads. The backend is `jtc`, the only one that may
change a tool: with the `managed` one the constructor wants a procedure that stops at
`home` or `docking_wait` (`tool_change_fsm.py:70`). A service call is abandoned at its
deadline and goes on in the motion executor (`calls`, `job`, `loose`). What the Arduino
does for an earlier transaction carries another id and is one message, `foreign`.

Bounds: `MaxRequests` requests queued, `MaxCalls` calls in the executor, `Samples` joint
samples that make an arm settled; the `...For` constants are validity times. `Watched`
lets time pass only for those messages the procedure looks at next, since the others'
ages are not read; a message is taken only where it makes a difference (the guard
of `Take`).

### 3.8 DockingServo and ToolSequence

`DockingServo` is the latch: a bridge node that polls a serial port, the lines in
both directions, the firmware, and the servo, which has no sensor: what the bridge
reports is what the firmware believes `SETTLE_MS` after it told the servo to turn.

`ToolSequence` is the node that fetches and releases tools, `ToolTrajectoryJoy` with the
coordinator that extends it: it asks the manager for the arm, plans, checks and sends
one path after another, looks for the tag, turns the latch and leads the arm out. Its
callbacks do not overlap; `n` is everything the node believes, a handler is an operator
from `n` to the records it may leave, and one that raised says so (`n.raised`) and has its
caller's handling applied. `m` is the mode manager as the node sees it, with other
owners of the arm; `arm` is where the arm is and whether it moved since the last
`/joint_states`. A configuration is a *setup* (`Setup`): which tool, with or without a
tag, an alignment axis, confirmation, the deadman switch.

Bounds and cuts, all named in the module: `MaxBytes` on the serial line; `Samples`
images in a measurement; `LastStage` stages of an approach; one disturbance in a
behaviour (`MaxTrouble`), of the kind the setup names -- another owner of the arm, silence
and the deadman switch, a cancel, or the latch and its link; the latch's troubles happen
when it is about to be used (`LatchTrouble`); it turns while nothing else is under way
(`LatchTurns`); calls outstanding in the node are a set and are taken in any order
(`TakeCall`); the manager's states are seen as far as the node tells them apart (`View`);
poses are the few places the code compares with (`Places`).

## 4 The runs

Time bounds are in control periods. They are as small as the comparisons
allow: what matters is whether an age is below, at or above a bound, and the order
between two bounds where the code compares both with the same clock. The named
assumptions say what the proofs need; TLC evaluates them.

| run | instance | shows |
|---|---|---|
| `mission` | five surroundings: pauses, a late origin, dead odometry and an emergency stop on a straight route; every sequence of headings of a circle of four; both buttons sending any sequence of True and False; a landmark search over headings inside and outside its envelope; a search with images of age 0 and 1 whose dwells are disturbed. `SearchDwell` 3 and `SearchTimeout` 6: a dwell outlasts a late image, and the sweep can time out in any phase | `MotionMatchesAnnouncement`, `EmergencyMeansZero`, `RequestMeansSettled`, `SearchRequestAgrees`, `RouteKept`, `ResumeFromRest`, `EvidenceTakenAtRest`, `TurnedAround`, `StartsOnTrueHeardInPlace` |
| `mission_triggers` | both buttons sending any sequence of True and False | violates `OnlyEdgesStart` (section 6) |
| `mission_live` | every message may be lost for ever | `SearchEnds`, `ResumeCheckEnds` |
| `drive_mux` | the three parts of the chain; six announced states, one of each class the mux tells apart; `MaxHold` above `Grace` and `Lease`; `Late` 2 | `ImplementsArbiter`, `HoldNotExtended`, `ModePressedInDrive`, `WheelsFollowTheHand`, `PictureAtRest` |
| `follower` | circle of 8, a path with two right-angle corners and a straight one, driven in reverse; corrections, stale odometry, pauses, one landmark | `WindowOpen`, `CornerHandledWhereReached` |
| `wheel_driver` | any frame may fail, power and adapter come and go at any time; `CmdTimeout` and `SafetyTimeout` 0, `Watchdog` and `PollTimeout` 1, `Cooldown` and `ReconnectAfter` 2 | `MotionIsRecent`, `NoRunaway`, `Reconnects` |
| `arm_owning` | three surroundings: streamed commands with focus changes; the TCP entry with its assessments; paths with a reversal, cancels and faults | `OwnerIsEntitled`, `OldMessagesAreIgnored`, `OutcomeIsTold`, `OneOwner`, `TcpEntryIsSafe` |
| `arm_working` | two surroundings: the jog between gripper jobs; controllers that come and go with two components at fault and a start outside the limits | `JogIsNotResumed`, `TransitionsEnd` |
| `gripper` | eight positions, a docking turn of nine, readings up to two periods old, ticks up to two late | `TravelIsReal`, `FastenedForReal`, `JobsEnd` |
| `tool_change` | every stage; two samples for a settled arm, at most one request and two calls queued | `LeavesLockedTool`, `StopIsFinal`, `NoSecondMotion`, `ProcedureEnds` |
| `tool_change_cancel` | the same | violates `CancelKeepsTheArm` (section 6) |
| `tool_sequence` | eight setups | `MotionIsAttended`, `SamplesAreImages`, `StartsWherePlanned`, `ConfirmedDock`, `SequenceEnds` |

Two corners, two components and two waypoints are enough because the code treats
each in turn with one pointer or one set: the second exposes what is left over
from the first. Two topics and two motors are all there are. The circle of four
has the opposite heading and both quarter turns; the follower needs eight so
that a corner angle, an entry angle and an exit angle differ. The arm's line has two
positions between its margins, so that a path can go there and back. In the arm's
runs a tick is never late enough to be refused (`Stall` = `MaxDt` = 1): a late tick faults
the arm and nothing more, and late ticks are the subject of `gripper`.

`ToolSequence` stops when its sequence is over and switches deadlock checking off for
that reason; that it stops nowhere else is `SequenceEnds`. When the processes of the
other modules have ended, their last action (`Shutdown`, `Closed`) stutters.

**Fairness** is that of the nodes' own timers and threads; nothing is assumed of the
operator, the network, the camera or the other nodes. `WF(Tick)` for the mission,
`WF(PublishCmd)` for the mux. In the arm and the gripper `WF` that a tick that is due
comes and that time passes: `TransitionsEnd` and `JobsEnd` hold though feedback and
controllers may go silent for ever. `ToolChange`: the procedure's thread runs and time
passes. `ToolSequence`: the timer, the deadlines and the calls the node has made itself.
`WheelDriver`: the executor runs its straight-line code (`WF`) and its timer (`SF(Decide)`,
since callbacks come in between), and time passes (`SF(Clock)`: in the model infinitely
many messages could otherwise arrive in one instant). `Reconnects` moreover supposes that
the adapter stays plugged in and the queue is empty now and again, which is what an
executor that keeps up with its publishers means.

**Mutants.** Every property of a passing run has a mutant in `PROJECT.json`: one
definition replaced by its variant (section 2), under which TLC finds the
property violated with the same `.cfg`.

## 5 The proofs

All theorems hold for every value of the constants that satisfies the named
assumptions, hence for every environment, every set of surroundings and all time
bounds. Each invariant below was first checked by TLC on the module's run.

| theorem | states | argument |
|---|---|---|
| `ReturnMissionProofs`: `TypeCorrect` | `TypeOK` | one lemma per group of actions, each proving the three parts of `TypeOK` apart; `GoToType` is the lemma about `_go_to` that all transitions cite |
| `EmergencyStopsMotion` | `EmergencyMeansZero` | inductive as it stands: every callback that could start motion halts or looks at the latch, and the latch sends every tick to `TickEmergency` |
| `AnnouncedMotionOnly` | `MotionMatchesAnnouncement` | needs `MotionInv`, which adds in which state the node may be while a command is out: without it a callback that announces a new state without touching `/cmd_vel_return` seems able to break it |
| `RequestFollowsStop` | `RequestMeansSettled` | inductive with `TypeOK`: every way out of the stop takes the request back |
| `SearchRequestCurrent` | `SearchRequestAgrees` | inductive; the places that publish the request are its only interesting steps |
| `OneRoutePerMission` | `RouteKept` | needs `RouteInv`: in which states a route exists, so that the states that build one unconditionally never find one |
| `ResumedFromRest` | `ResumeFromRest` | the only step there answers an outstanding request, which `RequestMeansSettled` ties to the stop |
| `EvidenceAtRest` | `EvidenceTakenAtRest` | `EvidenceInv`: in a search, commit and sighting are younger than the stop by the settling time. It holds because a dwell ends before the clock of the stop is cut off, and only while no emergency is on, when the clocks run with nobody looking |
| `TurnEndsOpposite` | `TurnedAround` | `TurnInv`: the sum of the rotations and the way from the first heading to the last differ by full turns (`NormSame`, `NormHalf`: what `normalize_angle` keeps) |
| `StartsAnswerMessages` | `StartsOnTrueHeardInPlace` | `PressInv`: a press that waits, in a state that obeys it, was heard there, be it the repeat of a button still held (section 6) |
| `DriveChainProofs`: `TypeCorrect` | `TypeOK` (of the mux) | one lemma for the callbacks, one for the timer |
| `MuxImplementsArbiter` | `ImplementsArbiter` | refinement: `ArbiterStep` maps announcements to handovers, commands to `Speak`, the timer to `Drive` and the rest to stutters |
| `NoHoldExtended` | `HoldNotExtended` | by cases over press, lease and timer |
| `ChainArbitrates`, `ChainKeepsHold` | `ImplementsArbiter`, `HoldNotExtended` | every step of the chain is a step of the mux or leaves it alone |
| `ModeByPress` | `ModePressedInDrive` | `PressOK`: what is pressed and not yet noticed was pressed in drive focus or waits for its release |
| `HandIsFollowed` | `WheelsFollowTheHand` | `StickOK`: the ages of the joystick node, of the mux and of the hand bound one another |
| `NoBlurredPicture` | `PictureAtRest` | `PictureOK`: a picture of a moving robot, the odometry the node has handled and its phase exclude one another |
| `PathFollowerProofs`: `FollowerInvariant`, `WindowStaysOpen`, `PauseEndsMotion` | `FollowerOK`, `WindowOpen` | `FollowerOK`: types, the window, the mode and speeds a pause leaves, and the corner a rotation began at. Corners are ordered by rank; that a set of them has a first one is the least number principle |
| `NoCornerSkipped` | `CornerHandledWhereReached` | from `ReachedOK` of the same invariant |
| `WheelDriverProofs`: `WatchdogStays` | `NoRunaway` | acknowledgements counted are of the present connection; nothing but a loss of power, which stops the wheel, takes its watchdog; and it is cleared only after the stop frames, which the wheels in `missed` alone did not get |
| `NoOldMotion` | `MotionIsRecent` | at most one wait falls into a command's life, because the next comes after `Cooldown`. Assumption: `PollTimeout + CmdTimeout < Cooldown` (0.5 + 0.3 < 2 s) |
| `GripperJobProofs`: `TravelMeasured` | `TravelIsReal` | the gripper is never further from the last reading than its age times `MaxStep`, and less than half a turn: assumption `(Freshness + MaxDt) * MaxStep < Half` (5 rad/s for 0.3 s and a period of at most 0.2 s) |
| `FastenedOnlyByTurning` | `FastenedForReal` | from `TravelMeasured` and the clocks of the job |
| `ToolChangeProofs`: `TypeCorrect` | `TypeOK` | `Inv`, in three parts: where the thread is, the lock, the executor |
| `ToolIsLeftLocked`, `StoppedIsHeld` | `LeavesLockedTool`, `StopIsFinal` | `Attended`: until a transaction is stopped no STOP is on the wire, so a completion it has taken still tells of the tool; a stopped one has failed |
| `OneMotionAtATime` | `NoSecondMotion` | a goal that was given up has left its fault, and after a fault none is handed on |
| `ToolSequenceProofs`: `MotionAttended` | `MotionIsAttended` | `MotionInv`, section 5.2 |
| `SamplesCounted` | `SamplesAreImages` | `ImagesInv`: an image not counted yet is one more than the samples, and a look begins with neither |
| `PathsStartWherePlanned` | `StartsWherePlanned` | `StartInv`: while a path is prepared the arm cannot leave its place without the node hearing of it before the manager settles; and a path that will be taken bears the present epoch |
| `ArmModeProofs`: `ManagerIsOK` | `ManagerOK` | section 5.1 |
| `OwnerEntitled`, `JogNotResumed` | `OwnerIsEntitled`, `JogIsNotResumed` | the owner is `Entitled` by `ManagerOK`; a jog is no older than the last tick (`JogOK`) |
| `OldIgnored`, `OutcomeTold` | `OldMessagesAreIgnored`, `OutcomeIsTold` | section 5.1 |
| `TcpEntrySafe` | `TcpEntryIsSafe` | every way into `tcp_ik` leaves `EntryClear`. For `EntryRequired`, which the manager sets |
| `OwnerRefined` | `OneOwner` | refinement: each step is one of See, Aim, Hand, Begin, Release, Fail, Clear or a stutter (`OwnerStep`) |

### 5.1 The arm

The module proves, method by method, what any call may make of a core in order
(`Good`) -- and what it makes is in order again:

* `Good(c)` is `Sound(c)` -- types; a transition only in HOLD; a job only in
  `tool_auto`; recovery only in HOLD and with a goal; alignment only after the
  startup -- together with `Entitled(c)`: a producer that has the arm, or is
  to get it, has focus, controllers, startup and alignment.
* `Halted(c, d)`: a motion was given up. Fault, abort, request, cancel and reset
  all end so, and one lemma (`HaltedMoves`) says what follows.
* `Moves(c, d)`: `d` is `Good`; unless the epoch is new, nobody has the arm who had
  no part in it before (what `OldMessagesAreIgnored` rests on); the TCP entry was clear;
  an ended job was told; and the step is one of the abstract owner.
* A tick is several of these in a row: `After(c, g)` is a core that is as at the
  beginning of the tick or halted since, `Driven` one whose goal and target moved.
  `PollFacts` and `TickSteps` put the parts together.

`ManagerOK` adds what the node keeps around the core: faults mean FAULT, `ready` means
that the controllers were activated, and a queued message that bears the current epoch,
of a producer that has the arm or is to get it, was written in its present turn. One lemma
per action proves `ManagerOK'` and what the theorems need of the step (`Kept`, `Heard`).
Assumptions: `CoreAssumption` and `ManagerAssumption` (bounds are natural numbers, an arm
settles in more than one period), that `None` is
no number and no message, and that the surroundings hold what `Surrounding` says.

### 5.2 The tool sequence

A handler of `ToolSequence` is an operator from the node's record to the records it may
leave, and most end in another handler. The module says of each, from `reset` up to
`tick`, what it may do to the fields that matter:

* `Silent(x, y)`: nothing is sent to the manager but a cancel of the path.
* `Goes(x, y)`, `Starts(x, y)`: what goes on to something else begins afresh -- without a
  sample, and with a path still to be checked --, or has raised.
* `Meets(x, y)`: what a whole tick does once `fail` has dealt with what raised. It either
  is `Silent` or has published the one path it was in `wait_mode` for (`Published`).

`MotionInv` is about what the node and the manager have of one another. While the manager
moves the arm or has a path coming that it will take (`Busy`), it is in `tool_auto`, no
epoch has passed unseen and no result is out; and the node either looks after the path
with no result heard (`UnderWay`) or has given up with the cancel on its way (`Stopping`).
`MotionIsAttended` alone is not inductive: nothing in it keeps a result of an earlier path
from being taken for that of the present one. The proof showed which stage may
have a path under way: `executing`, and `acquire`, where a lost tag may lead while the arm
still moves (section 6); the next tick then gives up, because there is no HOLD. It also
showed that `/arm/cancel` is not needed to end such a path: whenever one is given up, its
cancel by id is out as well.

### 5.3 What stays with TLC

* Liveness, which is out of the prover's reach, as is ENABLED: `SearchEnds`,
  `ResumeCheckEnds`, `Reconnects`, `TransitionsEnd`, `JobsEnd`, `ProcedureEnds`,
  `SequenceEnds`.
* `ConfirmedDock` of `ToolSequence`, the only safety property without a theorem. `Poll`
  folds all the lines that have come into the bridge and its mail, and what that fold
  makes of a sequence of any length takes an induction.
* What a recursive definition computes for every input: the library's induction
  theorems with an operator as parameter cannot be used with the installed provers. The
  least element of a set of numbers can (`WFMin` and `NatLessThanWellFounded`), which
  is what the order of the follower's corners needs.

## 6 Disagreements found

Two are runs of their own. `mission_triggers`: `_go_to` of the mission clears
`_prev_trigger` on entering WAIT_RETURN_COMMAND (line 508) and `_prev_record_trigger` on
entering IDLE (line 511), so that a True which has been held and is published again there
passes for a press: a return button held since the recording starts the return, a record
button held through FINISHED the next recording. The docstring says the node "only ever
acts on a False->True EDGE", "never on a sustained True", and "a stale True sitting on the
topic can never fire twice in a row here" (lines 69-72). What does hold is
`StartsOnTrueHeardInPlace`: nothing starts on a press heard, and released, before.

`tool_change_cancel`: `_named` of `tool_change_fsm.py` looks
at `cancelled` without the guard and publishes its state only afterwards (line 163); a
cancel that comes between the two finds the state LOCK, is answered "cancel latched; no
retreat" (line 362), and the retreat is called all the same.

The others were met while modelling. The modules follow the code, and the properties do
not claim what it does not keep.

Drive:

* When the motors lose power for a moment with the bus up, the watchdog (0xB3) is off, but
  `comm_timeout_confirmed_ms` keeps the value of before until the next reconnection, which
  only `reconnect_after_failures` failed frames in a row bring about (line 588);
  diagnostics go on reporting it as confirmed, though they are meant to show a protection
  that is not on (`rmd_x8_driver_node.py:712-716`). Reconnection arms it again for motors
  whose power was lost (lines 384-387).
* The shutdown clears the watchdogs even if the stop frames before it have failed
  (lines 748-766): a wheel that moves then has nothing left to stop it but the second
  stop frames.
* On stale odometry the follower publishes zero and resets the mode, "so a fresh path/odom
  starts clean" (line 313), but not the ramp's speeds (line 312): the first command after
  the odometry returns jumps to the speed of before.
* Return, record and landmark buttons of the joystick that are held while the focus is the
  arm's fire when it comes back; only the mode directions have to be released first.
* Odometry of up to half a second ago counts as current in the capture node: a lapse
  that long would let a picture taken in motion pass (hence the assumption in 3.2).

Arm:

* In FAULT a following error calls `fault()` again, which captures a new hold target
  (`arm_mode_core.py:838`); the comment says "Capture one hold target, rather than
  following drifting feedback." (line 842).
* `on_focus` of the manager resets `entry_alignment_started` but not
  `entry_alignment_stable_since` (line 158): the stopped time of an alignment that was
  interrupted counts afterwards.
* A tick goes on to the next waypoint as soon as the command has arrived, unless the
  waypoint is a stop or a reversal (`arm_mode_core.py:884`); the documentation has the
  manager wait for feedback at each point.
* The tool change procedure runs in the callback of the request, whose group runs one
  callback at a time, so a request published meanwhile is looked at when the procedure is
  over and starts another one (`tool_change_fsm.py:420`); the comment says it counts as a
  duplicate (line 422).

Tool sequence (`tool_trajectory_joy.py`, `tool_docking_coordinator.py`):

* `dock_actuate` after an advance with a locked tag always fails: `on_tag` ignores tags
  while `advance_locked`, and `hold_epoch` is not renewed.
* `request_mode` has no deadline.
* The clearance search of the second tool never tries its next candidate, because `tick`
  catches the exception of the first.
* With a measured alignment `camera_normal` can go to the stage `acquire` while a
  correction is still being executed, against its comment.
* A cancel, or a failure, in `request_mode` of BACK after a retreat publishes the cancel
  of the old execution instead of `/arm/cancel`, and leaves `tool_auto` granted.
* `reset()` in `continue_selected_tool` clears the deadman switch and the time of the last
  `/joy`, so that the next tick may fail as "stream stale".
* If another owner takes the arm between a path's success and HOLD, the node waits and goes
  on by itself when HOLD returns; a comment says that nothing auto-resumes.
* `attach_wait` fails if the latch starts from UNKNOWN and MOVING is not delivered before
  the next tick; `actuation_delay_s` (3.0) is exactly the firmware's `SETTLE_MS`.
* The latch's README describes a command at boot and a docked angle of 90 degrees; the
  firmware boots UNKNOWN without moving and docks at 0.

## 7 What is not modelled

* Arithmetic: pose transforms, projections onto the path, pure pursuit, odometry
  integration, MPPI critics, kinematics, planning, image matching. Their results enter as
  open choices.
* Third-party and vendored code (Nav2, MPPI controller, Dynamixel and RMD SDKs, myAHRS).
* Tools, viewers, simulators, launch files and descriptions; the other firmware.
* Perception-driven competition tasks (`dolbotz`, `vision`).
* The path recorder, visual localisation, the RMD hardware interface, the pick and place
  of the second tool: their hazards are in `PROJECT.json`, some without a property.
* Within the modelled nodes: JSON status reports, logs, diagnostics, and what section 3
  names as left open.

`PROJECT.json` lists every component with its status and the reason.

## 8 What is left

1. `ConfirmedDock` for every length of the serial line, if `Poll` can be reasoned about
   line by line.
2. Mission and follower over channels, which would discharge `granted`.
3. The recorder and the mission's copy of the path; the localisation's request and commit
   protocol; the RMD hardware interface's fault latch.
