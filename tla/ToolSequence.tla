----------------------------- MODULE ToolSequence -----------------------------
(***************************************************************************)
(* The node that fetches and releases tools: tool_trajectory_joy.py        *)
(* (ToolTrajectoryJoy) and tool_docking_coordinator.py, which extends it.  *)
(* One request takes the arm HOME and BACK, to the tool, has the latch of  *)
(* DockingServo turned and leads the arm out again, one checked path after *)
(* another.  A path is planned by MoveIt, checked for collisions, and sent *)
(* to the mode manager once that has handed over the arm.                  *)
(*                                                                         *)
(* Callbacks do not overlap (one mutually exclusive group), so a callback  *)
(* is one action.  What the node believes -- its own state and the last    *)
(* messages it got -- is the record n; a handler is an operator from n to  *)
(* the records it may leave, and one that raised says so in n.raised.      *)
(*                                                                         *)
(* Poses are the few places the code compares with.  Epochs and joint      *)
(* snapshots are kept as "is it still so".  The manager is external: what  *)
(* the node sees of ArmModeManager, with other owners of the arm.          *)
(***************************************************************************)
EXTENDS DockingServo, FiniteSets

CONSTANTS
  Setups,     \* how a tool may be configured (tool_docking.yaml, toolN_trajectory.yaml)
  Samples,    \* stable_samples, sample_count
  LastStage,  \* 2: the last of the stages of a visual alignment
  MaxTrouble  \* bound: disturbances in one behaviour

\* guided: the tool has docking settings; line: alignment_mode; look: what the
\* tag is used for before a joint-space advance; act: actuation; grip: the path
\* defines after_path; way: a captured return waypoint; home: HOME after BACK;
\* faults: what may disturb the sequences of this tool.
Setup == [guided : BOOLEAN, line : {"joint", "axis", "normal", "visual"},
          look : {"none", "translate", "confirm"},
          act : {"none", "delay", "feedback"},
          deadman : BOOLEAN, grip : BOOLEAN, way : BOOLEAN, home : BOOLEAN,
          faults : SUBSET {"cancel", "silence", "owner", "arm", "latch"}]

ASSUME SequenceAssumption ==
  /\ Setups \subseteq Setup /\ Setups # {}
  /\ \A s \in Setups : s.grip => ~s.guided
  /\ \A s \in Setups : s.guided /\ s.act = "delay" => s.line = "joint"
  /\ Samples \in Nat \ {0} /\ LastStage \in Nat /\ MaxTrouble \in Nat

VARIABLES
  tool,    \* the tool of this behaviour
  n,       \* the node
  m,       \* external: the mode manager
  arm,     \* external: where the arm is, and whether it moved since /joint_states
  shots,   \* history: images of the tag taken since the arm stopped for them
  trouble  \* disturbances so far

vars == <<tool, n, m, arm, shots, trouble, link>>

\* BACK, the pose before the tool, the end of any other path, or elsewhere
Places == {"back", "pre", "goal", "away"}

Looking == {"tag_acquire", "tag_confirm", "acquire", "observe"}
Docking == Looking \cup {"tag_plan", "advance_plan", "actuate", "attach_wait"}
Stages == Docking \cup {"idle", "request_hold", "wait_hold", "planning", "checking",
                        "request_mode", "wait_mode", "executing", "wait_docked"}

\* reset(), of both classes, on a node x.  The joystick has to be heard again.
Reset(x) ==
  [x EXCEPT !.stage = "idle", !.kind = "none", !.legs = 0, !.pend = "none",
            !.want = "none", !.phase = "approach", !.exec = FALSE, !.home = FALSE,
            !.active = FALSE, !.begun = FALSE, !.locked = FALSE, !.authorized = FALSE,
            !.orig = FALSE, !.hold = FALSE, !.answer = "none", !.late = FALSE,
            !.over = FALSE, !.obs = "none", !.stable = 0,
            !.step = 0, !.l2 = FALSE, !.heard = FALSE, !.fed = FALSE]

Init ==
  /\ LinkInit
  /\ tool \in Setups
  /\ n = [stage |-> "idle", kind |-> "none", legs |-> 0, pend |-> "none",
          want |-> "none", phase |-> "approach", exec |-> FALSE, home |-> FALSE,
          active |-> FALSE, begun |-> FALSE, locked |-> FALSE, authorized |-> FALSE,
          orig |-> FALSE, hold |-> FALSE, answer |-> "none", late |-> FALSE,
          over |-> FALSE, obs |-> "none", stable |-> 0,
          step |-> 0, l2 |-> FALSE, heard |-> FALSE, fed |-> FALSE,
          \* not reset: the last status, joint state and report of the latch
          mode |-> "stale", last |-> "none", at |-> "away", same |-> FALSE,
          still |-> TRUE, docked |-> "none", status |-> "UNKNOWN",
          \* what it has published and not been taken: a path or a cancel on
          \* /arm/input/tool_auto, service calls, a pulse on /arm/docking
          cmd |-> "none", cmdOk |-> FALSE, calls |-> {}, pulse |-> "none",
          raised |-> FALSE]
  /\ m = [mode |-> "hold", last |-> "none", run |-> "none", bumped |-> FALSE]
  /\ arm = [at |-> "away", moved |-> FALSE, planned |-> FALSE]
  /\ shots = 0 /\ trouble = 0

-----------------------------------------------------------------------------
(* Planning, checking and what may stop them *)

Raise(x) == [x EXCEPT !.raised = TRUE]

\* healthy_hold: a fresh status with a stopped HOLD
Healthy(x) == x.mode = "hold"

\* variant: a path under way is forgotten
FailSilently(x) ==
  Reset([x EXCEPT !.raised = FALSE, !.calls = IF x.active THEN @ \cup {"cancel"} ELSE @])

\* fail, of both classes.  A path under way is cancelled by its id; otherwise a
\* mode under way is cancelled by the service, which a docking does always.
Fail(x) ==
  Reset([x EXCEPT
    !.raised = FALSE,
    !.cmd = IF x.exec THEN "stop" ELSE @,
    !.cmdOk = IF x.exec THEN ~m.bumped ELSE @,
    !.calls = IF x.active \/ (~x.exec /\ x.stage \in {"request_mode", "wait_mode"})
              THEN @ \cup {"cancel"} ELSE @])

\* begin_failed
BeginFailed(x) == IF x.active THEN Fail(x) ELSE Reset([x EXCEPT !.raised = FALSE])

\* self.snapshot and self.original_epoch are taken from the latest messages.
Snapshot(x) == [x EXCEPT !.same = TRUE, !.orig = TRUE]

\* _request_route_leg
Plan(x, kind, legs) ==
  [Snapshot(x) EXCEPT !.stage = "planning", !.kind = kind, !.legs = legs,
                      !.answer = "wait", !.late = FALSE]

\* begin with a path: its samples are handed to the collision checker.
Check(x) ==
  (IF Healthy(x)
   THEN {[Snapshot(x) EXCEPT !.stage = "checking", !.answer = "wait", !.late = FALSE]}
   ELSE {})
  \cup {BeginFailed(x)}

\* begin without a path, request_route_plan
Begin(x) ==
  LET y == IF tool.guided THEN [x EXCEPT !.active = TRUE, !.begun = FALSE] ELSE x
  IN  {BeginFailed(y)}
      \cup (IF ~Healthy(y) THEN {}
            ELSE IF y.at = "pre" THEN Check([y EXCEPT !.kind = "tool"])
            ELSE {Plan(y, "tool", 1), Plan(y, "tool", 2)})

\* The limits of a route and the planner's presence
MayRaise(S, x) == S \cup {Raise(x)}

\* begin_named_route('home') and begin_return_waypoint
BeginHome(x) ==
  IF Healthy(x) THEN MayRaise({Plan(x, "home", 1)}, x) ELSE {Raise(x)}
BeginWaypoint(x) ==
  IF Healthy(x) THEN MayRaise({Plan(x, "waypoint", 1)}, x) ELSE {Raise(x)}

\* request_path with the arm at BACK, from continue_selected_tool too: d is the
\* wanted state of the latch, ui that the UI asks for a release.
Selected(x, d, ui) ==
  LET y == [x EXCEPT !.want = d]
  IN  IF tool.grip /\ d = "release" THEN {Reset(y)}
      ELSE IF ~tool.grip /\ ui /\ y.docked = "none" THEN {x}
      ELSE IF ~tool.grip /\ ui /\ y.docked = d THEN {Reset(y)}
      ELSE IF Healthy(y) /\ y.at = "back" THEN Begin(y)
      ELSE {x}

Continue(x) == Selected(Reset(x), x.pend, x.pend = "release")

\* begin_back
BeginBack(x, legs, force) ==
  IF ~Healthy(x) THEN {Raise(x)}
  ELSE IF x.at = "back" /\ ~force THEN
    IF x.home THEN BeginHome(x)
    ELSE IF x.pend # "none" THEN Continue(x)
    ELSE {Reset(x)}
  ELSE MayRaise({Plan(x, "back", legs)}, x)

-----------------------------------------------------------------------------
(* A path has been completed *)

Caught(S, Handle(_)) == {IF y.raised THEN Handle(y) ELSE y : y \in S}

\* begin_docking_actuation
BeginActuation(x) ==
  IF Healthy(x)
  THEN MayRaise({[x EXCEPT !.stage = "wait_docked", !.same = TRUE, !.heard = FALSE,
                           !.pulse = x.want, !.late = FALSE]}, x)
  ELSE {Raise(x)}

\* begin_docking_retreat: by the configured distance or the reverse of the approach
Retreat(x) ==
  IF Healthy(x)
  THEN MayRaise(Check([x EXCEPT !.kind = "retreat",
                                !.home = @ \/ (x.authorized /\ tool.home)]), x)
  ELSE {Raise(x)}

\* path_completed of ToolTrajectoryJoy
RouteCompleted(x) ==
  CASE x.kind = "home" -> IF x.at = "goal" THEN {Reset(x)} ELSE {Raise(x)}
    [] x.kind = "back" ->
         IF x.at # "back" THEN {Raise(x)}
         ELSE IF x.home THEN BeginHome(x)
         ELSE IF x.pend # "none" THEN Continue(x)
         ELSE {Reset(x)}
    [] x.kind = "waypoint" ->
         IF x.at = "goal" THEN BeginBack(x, 1, FALSE) ELSE {Raise(x)}
    [] x.kind = "retreat" ->
         IF tool.way THEN BeginWaypoint(x) ELSE BeginBack(x, 1, FALSE)
    [] OTHER ->
         IF ~tool.grip THEN BeginActuation(x)
         ELSE IF x.phase = "approach" THEN Check([x EXCEPT !.phase = "closing"])
         ELSE IF x.phase = "closing"
         THEN MayRaise(Check([x EXCEPT !.phase = "returning"]), x)
         ELSE {Reset(x)}

\* reset_tag_acquisition and what its callers set for a new look at the tag
Look(x, stage) ==
  [x EXCEPT !.stage = stage, !.obs = "none", !.fed = FALSE, !.stable = 0]

\* start_final_joint_goal
StartFinal(x) == MayRaise(Check([x EXCEPT !.locked = TRUE]), x)

\* start_advance
StartAdvance(x) ==
  MayRaise({[x EXCEPT !.locked = TRUE, !.same = TRUE, !.stage = "advance_plan"]}, x)

\* The locked advance is over: the latch is told to turn, unless that is disabled.
\* Only the timed completion takes the epoch of the present HOLD.
AdvanceCompleted(x) ==
  LET told == [x EXCEPT !.pulse = "dock", !.heard = FALSE, !.late = FALSE]
  IN  IF ~x.still \/ x.at # "goal" THEN {Raise(x)}
      ELSE CASE tool.act = "none" -> {Reset(x)}
             [] tool.act = "delay" ->
                  {[told EXCEPT !.stage = "attach_wait", !.hold = TRUE]}
             [] OTHER -> {[told EXCEPT !.stage = "actuate", !.same = TRUE]}

\* path_completed of ToolDockingCoordinator
PathCompleted(x) ==
  LET here == [x EXCEPT !.exec = FALSE, !.hold = TRUE, !.begun = TRUE]
  IN  IF ~x.active THEN RouteCompleted(x)
      ELSE IF x.locked THEN AdvanceCompleted(x)
      ELSE IF x.begun THEN
        {[Look(here, "observe") EXCEPT
            !.obs = IF x.obs \in {"none", "stale"} THEN x.obs ELSE "early"]}
      ELSE CASE tool.line = "axis" -> StartAdvance(here)
             [] tool.line \in {"visual", "normal"} -> {Look(here, "acquire")}
             [] tool.look = "translate" -> {Look(here, "tag_acquire")}
             [] tool.look = "confirm" -> {Look(here, "tag_confirm")}
             [] OTHER -> StartFinal(here)

-----------------------------------------------------------------------------
(* tick of ToolTrajectoryJoy *)

\* The arm is held by the same epoch, and where it was.
Undisturbed(x) == Healthy(x) /\ x.orig /\ x.same

\* variant: any report of the latch will do
AnyReport(x, d) == x.heard

\* The latch has reported, since the command, the position asked for.
Confirmed(x, d) == x.heard /\ x.docked = d

TickWaitDocked(x) ==
  IF ~Healthy(x) \/ ~x.same \/ x.late THEN {Raise(x)}
  ELSE IF Confirmed(x, x.want) THEN Retreat(x)
  ELSE {x}

TickRequestHold(x) ==
  CASE x.answer = "ok" -> {[x EXCEPT !.stage = "wait_hold", !.answer = "none"]}
    [] x.answer = "bad" \/ x.late -> {Raise(x)}
    [] OTHER -> {x}

TickWaitHold(x) ==
  IF x.mode = "hold"
  THEN IF x.kind = "back" THEN BeginBack(x, 2, FALSE) ELSE BeginHome(x)
  ELSE IF x.late THEN {Raise(x)} ELSE {x}

\* planning_route: the next leg, or the combined path
TickPlanning(x) ==
  IF ~Undisturbed(x) \/ x.late \/ x.answer = "bad" THEN {Raise(x)}
  ELSE IF x.answer = "wait" THEN {x}
  ELSE IF x.legs > 1
  THEN {[x EXCEPT !.legs = @ - 1, !.answer = "wait", !.late = FALSE]}
  ELSE Check([x EXCEPT !.legs = 0])

TickChecking(x) ==
  IF ~Undisturbed(x) \/ x.late \/ x.answer = "bad" THEN {Raise(x)}
  ELSE IF x.answer = "wait" THEN {x}
  ELSE {[x EXCEPT !.stage = "request_mode", !.answer = "wait",
                  !.calls = @ \cup {"mode"}]}

\* No deadline: the node waits for the answer of the service.
TickRequestMode(x) ==
  CASE x.answer = "ok" -> {[x EXCEPT !.stage = "wait_mode", !.answer = "none"]}
    [] x.answer = "bad" -> {Raise(x)}
    [] OTHER -> {x}

\* Where the path leads.
Destination(x) ==
  CASE x.kind = "tool" /\ ~x.locked /\ x.phase # "returning" -> "pre"
    [] x.kind = "back" -> "back"
    [] OTHER -> "goal"

\* variant: the arm may have moved before the path is sent
PublishBlind(x) == TRUE

\* unchanged, before the path is sent
Unmoved(x) == x.same

TickWaitMode(x) ==
  IF x.mode = "stale" THEN {Raise(x)}
  ELSE IF x.mode # "tool_auto" THEN IF x.late THEN {Raise(x)} ELSE {x}
  ELSE IF ~Unmoved(x) THEN {Raise(x)}
  ELSE {[x EXCEPT !.cmd = Destination(x), !.cmdOk = ~m.bumped, !.exec = TRUE,
                  !.last = "none", !.stage = "executing", !.late = FALSE]}

TickExecuting(x) ==
  IF \/ x.mode = "stale" \/ x.last = "bad"
     \/ x.last = "none" /\ x.mode # "tool_auto"
  THEN {Raise(x)}
  ELSE IF x.last = "ok" /\ x.mode = "hold" THEN PathCompleted(x)
  ELSE IF x.late THEN {Raise(x)} ELSE {x}

TickRoute(x) ==
  CASE x.stage = "wait_docked" -> TickWaitDocked(x)
    [] x.stage = "request_hold" -> TickRequestHold(x)
    [] x.stage = "wait_hold" -> TickWaitHold(x)
    [] x.stage = "planning" -> TickPlanning(x)
    [] x.stage = "checking" -> TickChecking(x)
    [] x.stage = "request_mode" -> TickRequestMode(x)
    [] x.stage = "wait_mode" -> TickWaitMode(x)
    [] x.stage = "executing" -> TickExecuting(x)
    [] OTHER -> {x}

-----------------------------------------------------------------------------
(* tick of ToolDockingCoordinator *)

\* check_deadman
Deadman(x) == tool.deadman => x.l2

\* variant: no sequence_timeout_s
GuardNoLimit(x) ==
  /\ Deadman(x)
  /\ x.mode \notin {"stale", "unfit"}
  /\ x.stage \in Docking => Healthy(x) /\ x.hold

\* guard
Guard(x) ==
  /\ Deadman(x) /\ ~x.over
  /\ x.mode \notin {"stale", "unfit"}
  /\ x.stage \in Docking => Healthy(x) /\ x.hold

\* variant: the same image counts with every new joint state
AnyImage(x) == x.obs \in {"new", "seen"} /\ x.fed

\* An image of the tag, taken since the arm stopped and not counted, and new
\* feedback with it.
Countable(x) == x.obs = "new" /\ x.fed

Counted(x) ==
  [x EXCEPT !.obs = "seen", !.fed = FALSE, !.stable = IF @ < Samples THEN @ + 1 ELSE @]

\* tick_tag_translation and tick_tag_confirmation
TickTag(x) ==
  IF x.over THEN {Raise(x)}
  ELSE IF x.stage = "tag_confirm" /\ ~x.still THEN {[x EXCEPT !.stable = 0]}
  ELSE IF x.obs = "stale" THEN {[x EXCEPT !.obs = "none", !.stable = 0]}
  ELSE IF ~Countable(x) THEN {x}
  ELSE IF ~x.still THEN {[Counted(x) EXCEPT !.stable = 0]}
  ELSE LET y == Counted(x)
       IN  IF y.stable < Samples THEN {y}
           ELSE IF x.stage = "tag_confirm" THEN StartFinal(y)
           ELSE {y, Raise(y),
                 [y EXCEPT !.locked = TRUE, !.same = TRUE, !.stage = "tag_plan"]}

\* plan_tag_translation_step, plan_advance_step: the last of their steps
TickPlan(x) ==
  IF ~x.same \/ (x.stage = "tag_plan" /\ ~x.still) THEN {Raise(x)}
  ELSE IF x.stage = "tag_plan" THEN StartFinal(x)
  ELSE MayRaise(Check(x), x)

\* tick_timed_finish: the latch has had its time.
TickTimedFinish(x) ==
  IF ~Guard(x) \/ x.status \in {"ERROR", "UNKNOWN"} THEN {Raise(x)}
  ELSE IF ~x.late THEN {x}
  ELSE IF ~x.still THEN {Raise(x)}
  ELSE Retreat([x EXCEPT !.active = FALSE, !.locked = FALSE, !.authorized = TRUE])

\* The tag says so at enough samples in a row: the next stage of the alignment.
Aligned(x) ==
  LET y == [x EXCEPT !.stable = 0]
  IN  IF tool.line = "normal" THEN StartAdvance(y)
      ELSE IF x.step < LastStage THEN {[y EXCEPT !.step = @ + 1, !.obs = "early"]}
      ELSE IF tool.act = "none" THEN {Reset(x)}
      ELSE MayRaise({[y EXCEPT !.stage = "actuate", !.same = TRUE, !.pulse = "dock",
                               !.heard = FALSE, !.late = FALSE]}, x)

\* observe, at rest: another correction, or another sample
Observe(x) ==
  IF ~Countable(x) THEN {x}
  ELSE LET y == Counted(x)
       IN  IF ~x.still THEN {[y EXCEPT !.stable = 0]}
           ELSE (IF y.stable < Samples THEN {y} ELSE Aligned(y))
                \cup MayRaise(Check([y EXCEPT !.stable = 0]), x)

\* observe, while the latch turns; the tag may say that the arm has left.
ObserveActuation(x) ==
  IF x.obs \in {"none", "stale"} \/ ~x.still \/ ~x.same \/ x.late THEN {Raise(x)}
  ELSE {Raise(x)} \cup
       (IF Confirmed(x, "dock")
        THEN Retreat([x EXCEPT !.active = FALSE, !.locked = FALSE, !.authorized = TRUE])
        ELSE {x})

\* The tag has to be in view until the advance is locked.
TagLost(x) == ~x.locked /\ x.obs \in {"none", "stale"}

TickDocking(x) ==
  CASE x.stage \in {"tag_acquire", "tag_confirm"} -> TickTag(x)
    [] x.stage = "tag_plan" -> TickPlan(x)
    [] x.stage = "acquire" ->
         IF x.over THEN {Raise(x)}
         ELSE IF x.obs = "none" THEN {x}
         ELSE IF x.obs = "stale" THEN {[x EXCEPT !.obs = "none", !.stable = 0]}
         ELSE Observe([x EXCEPT !.stage = "observe"])
    [] OTHER ->
         IF TagLost(x)
         THEN IF tool.line = "normal" /\ x.obs = "stale"
              THEN {[x EXCEPT !.stage = "acquire", !.obs = "none", !.stable = 0]}
              ELSE {Raise(x)}
         ELSE CASE x.stage = "advance_plan" -> TickPlan(x)
                [] x.stage = "observe" -> Observe(x)
                [] x.stage = "actuate" -> ObserveActuation(x)
                [] OTHER -> TickRoute(x)

Ticked(x) ==
  Caught(IF ~x.active THEN TickRoute(x)
         ELSE IF x.stage = "attach_wait" THEN TickTimedFinish(x)
         ELSE IF ~x.begun THEN IF Deadman(x) THEN TickRoute(x) ELSE {Raise(x)}
         ELSE IF Guard(x) THEN TickDocking(x) ELSE {Raise(x)},
         Fail)

-----------------------------------------------------------------------------
(* Requests of the operator, with no sequence under way *)

\* The except clause of request_back and go_home_service: "blocked".
Blocked(x) == n

\* The arm is not held, or some other producer has it: ask for HOLD first.
HoldFirst(x, kind) ==
  IF x.mode \in {"other", "tool_auto"}
  THEN {[x EXCEPT !.kind = kind, !.stage = "request_hold", !.answer = "wait",
                  !.calls = @ \cup {"cancel"}, !.late = FALSE]}
  ELSE {x}

RequestBack(x) ==
  IF Healthy(x) THEN Caught(BeginBack(x, 2, FALSE), Blocked) ELSE HoldFirst(x, "back")

GoHome(x) ==
  IF Healthy(x) THEN Caught(BeginHome(x), Blocked) ELSE HoldFirst(x, "home")

\* request_path of the joystick (dock) or the UI (release), from anywhere
RequestPath(x, d) ==
  IF Healthy(x) /\ x.at # "back"
     /\ ~(tool.grip /\ d = "release")
     /\ ~(~tool.grip /\ d = "release" /\ x.docked \in {"none", "release"})
  THEN Caught(BeginBack([x EXCEPT !.want = d, !.pend = d], 2, FALSE), BeginFailed)
  ELSE Selected(x, d, d = "release")

\* on_selected_tool: a docking asked for by the UI goes by HOME and BACK.
SelectTool(x) ==
  IF Healthy(x)
  THEN Caught(BeginBack([x EXCEPT !.pend = "dock"], 2, TRUE), BeginFailed)
  ELSE {Reset(x)}

Requested(x) ==
  RequestBack(x) \cup GoHome(x) \cup RequestPath(x, "release") \cup SelectTool(x)
  \* the joystick's combination holds L2
  \cup RequestPath([x EXCEPT !.l2 = TRUE], "dock")

\* What a step of a sequence leaves behind: the arm is where the path now asked
\* for starts, unless it has moved already; the images of a new look are counted;
\* the manager has told nothing of a new path.
Leaves(x) ==
  /\ n' = x /\ x # n
  /\ arm' = [arm EXCEPT !.planned =
       CASE x.stage = "idle" -> FALSE
         [] x.stage \in {"planning", "checking"} /\ n.stage \notin {"planning", x.stage}
            -> ~arm.moved
         [] OTHER -> @]
  /\ shots' = IF x.stage \notin Looking \/ n.stage \notin Looking \/ x.step # n.step
              THEN 0 ELSE shots
  /\ m' = IF ~x.exec \/ (x.stage = "executing" /\ n.stage # "executing")
          THEN [m EXCEPT !.last = "none"] ELSE m
  /\ UNCHANGED <<tool, link>>

\* What a message leaves behind.
Learns(x) == n' = x /\ x # n /\ UNCHANGED <<tool, m, arm, shots, link>>

\* Bound: a behaviour ends with the sequence that has been disturbed.
Trouble(kind) ==
  kind \in tool.faults /\ n.stage # "idle" /\ trouble < MaxTrouble /\ trouble' = trouble + 1

\* Bound: operators and the planner are slower than the calls and messages of the
\* last step and the turning of the latch.
Quiet ==
  /\ n.calls = {} /\ n.cmd = "none" /\ n.pulse = "none"
  /\ ~board.moving /\ down = <<>> /\ up = <<>> /\ mail = NoMail

Request ==
  /\ n.stage = "idle" /\ trouble = 0
  /\ Quiet
  /\ \E x \in Requested(n) : Leaves(x)
  /\ UNCHANGED trouble

Tick ==
  /\ n.stage # "idle"
  /\ \E x \in Ticked(n) : Leaves(x)
  /\ UNCHANGED trouble

\* on_cancel, and the shutdown of the node
Cancel == n.stage # "idle" /\ Leaves(Fail(n)) /\ Trouble("cancel")

\* on_joy: is L2 held?  Silence of the joystick counts as released.
Joy ==
  /\ tool.deadman /\ n.stage # "idle"
  /\ \/ Learns([n EXCEPT !.l2 = TRUE]) /\ UNCHANGED trouble
     \/ Learns([n EXCEPT !.l2 = FALSE]) /\ Trouble("silence")

\* Deadlines, which also stand for a delay that is over: of the stage, and of the
\* sequence or, while the tag is looked for, the acquisition.
Late ==
  /\ n.stage \in {"request_hold", "wait_hold", "planning", "checking", "wait_mode",
                  "executing", "wait_docked", "actuate", "attach_wait"}
  /\ Learns([n EXCEPT !.late = TRUE]) /\ UNCHANGED trouble

Over == n.active /\ n.begun /\ Learns([n EXCEPT !.over = TRUE]) /\ UNCHANGED trouble

-----------------------------------------------------------------------------
(* What the node hears *)

\* How the status shows a mode: a transition shows HOLD and transitioning.
View(mode) == IF mode \in {"entering", "leaving"} THEN "busy" ELSE mode

\* on_status
Status ==
  /\ n' = [n EXCEPT !.mode = View(m.mode), !.last = IF n.exec THEN m.last ELSE "none",
                    !.orig = @ /\ ~m.bumped, !.hold = @ /\ ~m.bumped]
  /\ m' = [m EXCEPT !.bumped = FALSE]
  /\ n' # n \/ m.bumped
  /\ UNCHANGED <<tool, arm, shots, trouble, link>>

\* on_state.  A joint that moves is not still until the next message; it is of
\* interest once a docking is under way.
State ==
  /\ n' = [n EXCEPT !.at = arm.at, !.same = @ /\ ~arm.moved,
                    !.still = n.active => ~arm.moved, !.fed = n.stage \in Looking]
  /\ arm' = [arm EXCEPT !.moved = FALSE]
  /\ n' # n \/ arm.moved
  /\ UNCHANGED <<tool, m, shots, trouble, link>>

\* No status or joint state for 0.3 s
Silence == n.stage # "idle" /\ Learns([n EXCEPT !.mode = "stale"]) /\ Trouble("silence")

\* on_tag: an image that is accepted, of the present rest or taken before.
Image ==
  /\ n.active /\ n.begun /\ ~n.locked
  /\ \/ /\ n.stage \in Looking /\ n.obs # "new"
        /\ n' = [n EXCEPT !.obs = "new"]
        /\ shots' = IF shots < Samples THEN shots + 1 ELSE shots
     \/ /\ n.obs = "none" \/ (n.obs = "stale" /\ n.stage \notin Looking)
        /\ n' = [n EXCEPT !.obs = "early"]
        /\ UNCHANGED shots
  /\ UNCHANGED <<tool, m, arm, trouble, link>>

\* tag_max_age_s
ImageAges ==
  /\ n.active /\ n.begun /\ ~n.locked
  /\ n.obs \in {"early", "seen", "new"}
  /\ Learns([n EXCEPT !.obs = "stale"])
  /\ UNCHANGED trouble

\* on_docked.  A Bool does not overrule a status that knows better.
OnDocked ==
  /\ mail.docked # "none"
  /\ mail' = [mail EXCEPT !.docked = "none"]
  /\ n' = IF n.status \in {"UNKNOWN", "MOVING", "ERROR"} THEN n
          ELSE [n EXCEPT !.docked = mail.docked, !.heard = n.stage # "idle"]
  /\ UNCHANGED <<tool, m, arm, shots, trouble, bridge, board, servo, down, up>>

\* on_docking_status
OnDockingStatus ==
  LET known == mail.status \in {"DOCKED", "RELEASED"}
  IN  /\ mail.status # "none"
      /\ mail' = [mail EXCEPT !.status = "none"]
      /\ n' = [n EXCEPT !.status = mail.status,
                        !.heard = @ \/ (known /\ n.stage # "idle"),
                        !.docked = CASE mail.status = "DOCKED" -> "dock"
                                     [] mail.status = "RELEASED" -> "release"
                                     [] OTHER -> "none"]
      /\ UNCHANGED <<tool, m, arm, shots, trouble, bridge, board, servo, down, up>>

\* The planner and the collision checker answer.
Answer ==
  /\ n.stage \in {"planning", "checking"} /\ n.answer = "wait"
  /\ Quiet
  /\ \E a \in {"ok", "bad"} : Learns([n EXCEPT !.answer = a])
  /\ UNCHANGED trouble

-----------------------------------------------------------------------------
(* The mode manager, as the node sees it: see ArmModeManager *)

\* A new epoch, which the node learns of with the next status; it needs one before
\* it goes on if it knows of a transition or of another owner.
Bumped == m.bumped \/ n.mode \in {"hold", "tool_auto", "stale"}

\* The manager goes to a mode; a path under way is aborted, and the arm stops where
\* it is.
Change(mode) ==
  /\ m' = [mode |-> mode, run |-> "none", bumped |-> Bumped,
           last |-> IF m.run # "none" /\ n.exec THEN "bad" ELSE m.last]
  /\ arm' = IF m.run # "none" THEN [at |-> "away", moved |-> TRUE, planned |-> FALSE]
            ELSE arm

\* A service call is taken and answered; the answer counts for the call that the
\* node waits for.
TakeCall(call) ==
  LET awaited == IF call = "mode" THEN "request_mode" ELSE "request_hold"
  IN  /\ call \in n.calls
      /\ IF m.mode = "unfit" THEN UNCHANGED <<m, arm>>
         ELSE Change(IF call = "mode" THEN "entering" ELSE "leaving")
      /\ n' = [n EXCEPT !.calls = @ \ {call}, !.cmdOk = @ /\ m.mode = "unfit",
                 !.answer = IF n.stage # awaited THEN @
                            ELSE IF m.mode = "unfit" THEN "bad" ELSE "ok"]
      /\ UNCHANGED <<tool, shots, trouble, link>>

\* The message on /arm/input/tool_auto: a path, or the cancel of the path that runs
TakeCommand ==
  /\ n.cmd # "none" /\ n' = [n EXCEPT !.cmd = "none", !.cmdOk = FALSE]
  /\ IF n.cmd = "stop"
     THEN IF n.cmdOk /\ m.run # "none" THEN Change("leaving") ELSE UNCHANGED <<m, arm>>
     ELSE /\ m' = IF n.cmdOk /\ m.mode = "tool_auto" /\ m.run = "none"
                  THEN [m EXCEPT !.run = n.cmd, !.last = "none"] ELSE m
          /\ UNCHANGED arm
  /\ UNCHANGED <<tool, shots, trouble, link>>

\* The arm has settled, which takes longer than a joint state.
Settle ==
  /\ ~arm.moved
  /\ \/ m.mode = "entering" /\ m' = [m EXCEPT !.mode = "tool_auto"]
     \/ m.mode = "leaving" /\ m' = [m EXCEPT !.mode = "hold"]
  /\ UNCHANGED <<tool, n, arm, shots, trouble, link>>

\* A path ends where it leads, or is aborted.
RunEnds ==
  /\ m.run # "none"
  /\ \E ok \in BOOLEAN :
       /\ m' = [mode |-> IF ok THEN "leaving" ELSE "hold", run |-> "none",
                bumped |-> Bumped,
                last |-> IF ~n.exec THEN m.last ELSE IF ok THEN "ok" ELSE "bad"]
       /\ arm' = [at |-> IF ok THEN m.run ELSE "away", moved |-> TRUE, planned |-> FALSE]
  /\ n' = [n EXCEPT !.cmdOk = FALSE]
  /\ UNCHANGED <<tool, shots, trouble, link>>

\* Somebody else asks for another mode, or a fault or the loss of the focus ends
\* every mode.
Stranger ==
  /\ \E mode \in {"other", "leaving", "unfit"} : m.mode # mode /\ Change(mode)
  /\ Trouble("owner")
  /\ n' = [n EXCEPT !.cmdOk = FALSE]
  /\ UNCHANGED <<tool, shots, link>>

\* ... uses it, and gives it back.
StrangerGoes ==
  /\ m.mode \in {"other", "unfit"}
  /\ Change("leaving")
  /\ n' = [n EXCEPT !.cmdOk = FALSE]
  /\ UNCHANGED <<tool, shots, trouble, link>>

\* The arm leaves its place: under another owner, or in HOLD.
Moves ==
  /\ arm.planned \/ arm.at # "away"
  /\ m.mode \in {"other", "hold"}
  /\ arm' = [at |-> "away", moved |-> TRUE, planned |-> FALSE]
  /\ IF m.mode = "other" THEN UNCHANGED trouble ELSE Trouble("arm")
  /\ UNCHANGED <<tool, n, m, shots, link>>

Manager ==
  \/ \E call \in n.calls : TakeCall(call)
  \/ TakeCommand \/ Settle \/ RunEnds \/ Stranger \/ StrangerGoes \/ Moves

-----------------------------------------------------------------------------
(* The latch *)

\* Bound: the latch is disturbed only when the sequence is about to use it or does.
LatchTrouble ==
  /\ IF tool.guided THEN tool.act # "none" ELSE ~tool.grip
  /\ \/ n.stage = "executing" /\ n.kind = "tool"
     \/ n.stage \in {"wait_docked", "actuate", "attach_wait"}
  /\ Trouble("latch")

\* on_command of the bridge, from this node.
Pulse ==
  /\ n.pulse # "none" /\ n' = [n EXCEPT !.pulse = "none"]
  /\ mail = NoMail
  /\ CommandState(n.pulse)
  /\ IF bridge.open /\ ~bridge'.open THEN LatchTrouble ELSE UNCHANGED trouble
  /\ UNCHANGED <<tool, m, arm, shots, board, servo, up>>

\* Losing the link counts as a disturbance.
Latch ==
  /\ Open \/ Poll \/ Read
  /\ IF bridge.open /\ ~bridge'.open THEN LatchTrouble ELSE UNCHANGED trouble
  /\ UNCHANGED <<tool, n, m, arm, shots>>

\* SETTLE_MS is longer than a message and a tick of the node take.
LatchTurns ==
  /\ Settled
  /\ mail = NoMail /\ ~(n.stage \in {"wait_docked", "actuate"} /\ n.heard)
  /\ UNCHANGED <<tool, n, m, arm, shots, trouble>>

\* An operator uses the latch.
Operator ==
  /\ Toggle /\ LatchTrouble
  /\ UNCHANGED <<tool, n, m, arm, shots>>

Hears == Status \/ State \/ Image \/ ImageAges \/ OnDocked \/ OnDockingStatus \/ Answer
Next ==
  \/ Request \/ Tick \/ Cancel \/ Joy \/ Late \/ Over \/ Silence
  \/ Hears \/ Manager
  \/ Pulse \/ Latch \/ LatchTurns \/ Operator

\* Timers run, messages and answers arrive, calls are taken, and the arm settles.
Spec ==
  /\ Init /\ [][Next]_vars
  /\ WF_vars(Tick) /\ WF_vars(Late) /\ WF_vars(Over)
  /\ WF_vars(\E call \in n.calls : TakeCall(call))

-----------------------------------------------------------------------------
(* Properties *)

\* A path that runs is one the node still looks after, or its cancel is under way:
\* however a sequence ends -- a fault of the latch, the operator, a deadline, a lost
\* tag --, the arm is not left moving (fail).
MotionIsAttended ==
  m.run # "none" =>
    \/ n.exec /\ n.stage # "idle"
    \/ n.cmd = "stop" /\ n.cmdOk
    \/ "cancel" \in n.calls

\* A path starts only with the arm where it was planned and checked to start, though
\* others may have had the arm in between (tick, unchanged).
StartsWherePlanned == [][m.run = "none" /\ m'.run # "none" => arm.planned]_vars

\* Every sample is an image of its own, taken since the arm stopped for this look:
\* old, repeated and stale images do not add up (tick_tag_confirmation, observe).
SamplesAreImages == n.stage \in Looking => n.stable <= shots

\* The arm retreats on the word of the latch only if that is where it was asked to
\* be, though the bridge and the board may have lost their state since, an operator
\* may use the latch and the two messages of a report overtake one another.
ConfirmedDock ==
  [][n.stage \in {"wait_docked", "actuate"} /\ n'.stage = "checking" =>
       servo = IF tool.guided THEN "dock" ELSE n.want]_vars

\* Every sequence comes to an end, whatever the joystick, the tag, the latch, the
\* planner and the owners of the arm do, if the mode service answers.
SequenceEnds == n.stage # "idle" ~> n.stage = "idle"
=============================================================================
