------------------------------ MODULE ArmModeCore ------------------------------
(***************************************************************************)
(* ModeCore (arm_mode_core.py): who owns the arm and where it is told to   *)
(* go.  The node holds one ModeCore; its fields are the record `c` here    *)
(* and each method is an operator that returns the record it leaves.       *)
(*                                                                         *)
(* The joints are one joint, the one a guard would trip on.  It has the    *)
(* positions 0 .. Top within the soft limits, the two ends being the last  *)
(* 0.05 rad before them, and one more position on each side, which is      *)
(* within the 5 degrees a start may begin outside.  The tolerances of the  *)
(* code are less than a step: "at the goal" is equality.                   *)
(*                                                                         *)
(* The epoch is a fresh uuid that is only compared for equality, so the    *)
(* model keeps, with every holder, whether what it holds is the current    *)
(* one (`cur`).  invalidate sets `renewed`; the caller then marks the      *)
(* holders outside the record.                                             *)
(***************************************************************************)
EXTENDS Integers, Sequences

CONSTANTS None,            \* no value
          Top,             \* last position within the soft limits
          Zero,            \* where the first entry aligns the wrist
          Lead,            \* path_feedback_leads
          CommandLead,     \* 0.10 rad: streamed target, recovery, alignment
          FollowLimit,     \* 0.15 rad following error
          FreshFor,        \* joint feedback is fresh for less than this
          CommandLimit,    \* a streamed command is good for this long
          Settle,          \* stopped periods that end a motion
          TransitionLimit, PathLimit, StallLimit,
          OutwardFor,      \* outward_limit_guard: persistence
          SteadyFor,       \* stable feedback before TCP entry and alignment
          ProofFor,        \* a TCP entry assessment is good for less than this
          RecoverLimit, RecoverStall, AlignLimit,
          MaxDt, MaxStartupDt,  \* longest control period: normal, startup
          EntryRequired,   \* tcp_entry_required
          AlignmentEnabled \* entry_alignment_enabled

ASSUME NoneAssumption == None \notin Int

ASSUME CoreAssumption ==
  /\ {Top, Zero, Lead, CommandLead, FollowLimit, FreshFor, CommandLimit,
      Settle, TransitionLimit, PathLimit, StallLimit, OutwardFor, SteadyFor,
      ProofFor, RecoverLimit, RecoverStall, AlignLimit, MaxDt,
      MaxStartupDt} \subseteq Nat
  /\ Zero <= Top /\ FreshFor > 0 /\ Settle > 1
  /\ EntryRequired \in BOOLEAN /\ AlignmentEnabled \in BOOLEAN

Streams == {"manual", "tcp_ik"}
Clients == Streams \cup {"tool_auto"}
Modes == Clients \cup {"hold", "fault"}

Within == 0 .. Top
Positions == -1 .. Top + 1
\* -1: moving down, 0: stopped (no joint above 0.02 rad/s), 1: moving up
Velocities == {-1, 0, 1}

Distance(a, b) == IF a < b THEN b - a ELSE a - b
Clamp(x, lo, hi) == IF x < lo THEN lo ELSE IF x > hi THEN hi ELSE x
Towards(a, b) == IF a < b THEN a + 1 ELSE IF a > b THEN a - 1 ELSE a

\* A timestamp is kept as its age, cut off above the bound it is compared with.
Older(a, bound) == IF a = None THEN None ELSE IF a > bound THEN a ELSE a + 1

-----------------------------------------------------------------------------
(* Queries *)

Fresh(c) == c.position # None /\ c.age < FreshFor
Valid(c) == c.position \in Within
Stopped(c) == c.velocity = 0
Usable(c) == c.focus = "arm" /\ c.ready /\ Fresh(c)

\* tcp_entry_blocker, as what makes it return no reason: a recent assessment
\* under this epoch says safe, and the arm has not left the assessed pose, has
\* margin to the limits, stands and has stood for a while.
EntryClear(c) ==
  EntryRequired =>
    /\ c.proof # None
    /\ c.proof.cur /\ c.proof.age < ProofFor /\ c.proof.safe
    /\ Fresh(c)
    /\ 0 < c.position /\ c.position < Top
    /\ c.position = c.proof.at
    /\ Stopped(c)
    /\ c.steady # None /\ c.steady >= SteadyFor

\* feedback_allowed: the recovery envelope until the startup is complete.
Allowed(c, p) == IF c.startup = "complete" THEN p \in Within ELSE p \in Positions

-----------------------------------------------------------------------------
(* Leaving a motion *)

\* variant: commands under way stay valid
InvalidateQuietly(c) ==
  [c EXCEPT !.last = IF c.job # None
                     THEN [id |-> c.job.id, result |-> "aborted"] ELSE @,
            !.goal = None, !.queue = <<>>, !.job = None, !.ee = FALSE,
            !.command = CommandLimit + 1, !.settled = 0]

\* A new epoch: what was asked, planned or streamed before counts no more.
Invalidate(c) ==
  [c EXCEPT !.renewed = TRUE,
            !.last = IF c.job # None
                     THEN [id |-> c.job.id, result |-> "aborted"] ELSE @,
            !.goal = None, !.queue = <<>>, !.job = None, !.ee = FALSE,
            !.command = CommandLimit + 1, !.settled = 0,
            !.proof = IF @ = None THEN None ELSE [@ EXCEPT !.cur = FALSE]]

\* The controller keeps its last sample: replace it by the measured position.
HoldMeasured(c) ==
  IF c.position = None THEN c
  ELSE [c EXCEPT !.target = c.position, !.goal = c.position]

Fault(c) ==
  [HoldMeasured(Invalidate(c)) EXCEPT
     !.startup = IF @ = "recovering" THEN "pending" ELSE @,
     !.mode = "fault", !.requested = "fault", !.transitioning = FALSE]

\* abort_path_to_hold: a healthy arm stays usable.
AbortToHold(c) ==
  IF Fresh(c)
  THEN [HoldMeasured(Invalidate(c)) EXCEPT
          !.mode = "hold", !.requested = "hold", !.transitioning = FALSE]
  ELSE Fault(c)

-----------------------------------------------------------------------------
(* request, reset *)

\* variant: a mode change starts in the new mode
EnterAtOnce(c, m) ==
  [Invalidate(c) EXCEPT
     !.mode = m, !.requested = m, !.transitioning = FALSE,
     !.started = 0, !.command = 0,
     !.goal = IF Fresh(c) THEN c.position ELSE None]

\* Stop where the arm is, and have m once it stands.
Enter(c, m) ==
  [Invalidate(c) EXCEPT
     !.mode = "hold", !.requested = m, !.transitioning = TRUE, !.started = 0,
     !.goal = IF Fresh(c) THEN c.position ELSE None,
     !.proof = IF m = "tcp_ik" /\ @ # None THEN [@ EXCEPT !.cur = TRUE] ELSE @]

\* What makes request raise and change nothing.
Refuses(c, m) ==
  \/ c.mode = "fault"
  \/ c.startup # "complete"
  \/ m # "hold" /\ ((AlignmentEnabled /\ ~c.aligned) \/ ~Usable(c))

\* A hold during the recovery ends it for good; a TCP entry that is not cleared
\* is answered by a hold.
Request(c, m) ==
  IF c.mode # "fault" /\ c.startup = "recovering" /\ m = "hold" THEN Fault(c)
  ELSE IF Refuses(c, m) THEN c
  ELSE IF m = "tcp_ik" /\ ~EntryClear(c) THEN Enter(c, "hold")
  ELSE Enter(c, m)

CanReset(c) == c.startup = "complete" /\ c.ready /\ Fresh(c) /\ Stopped(c)

\* reset: an alignment that timed out starts anew.
Reset(c) ==
  IF ~CanReset(c) THEN c
  ELSE LET again == IF AlignmentEnabled /\ ~c.aligned
                    THEN [c EXCEPT !.aligning = None, !.alignSteady = None]
                    ELSE c
       IN Request([again EXCEPT !.mode = "hold"], "hold")

-----------------------------------------------------------------------------
(* Feedback *)

Outward(c, p, v) ==
  /\ c.startup = "complete"
  /\ (p >= Top /\ v = 1) \/ (p <= 0 /\ v = -1)

\* feedback, for a reading within the limits: it faults if the joint has been
\* moving outward near a limit for a while, and is stored otherwise.
Store(c, p, v) ==
  LET anew == ~Fresh(c) \/ v # 0 \/ p # c.position
  IN [c EXCEPT
        !.outward = IF ~Outward(c, p, v) THEN None
                    ELSE IF @ = None THEN 0 ELSE @,
        !.steady = IF v # 0 THEN None ELSE IF anew \/ @ = None THEN 0 ELSE @,
        !.position = p, !.velocity = v, !.age = 0,
        !.target = IF @ = None THEN p ELSE @]

Feedback(c, p, v) ==
  IF \/ ~Allowed(c, p)
     \/ Outward(c, p, v) /\ c.outward # None /\ c.outward >= OutwardFor
  THEN Fault(c)
  ELSE Store(c, p, v)

-----------------------------------------------------------------------------
(* What producers send *)

\* The sender owns the arm and its message carries the current epoch.
Owner(c, s, cur) == c.mode = s /\ cur /\ ~c.transitioning

Command(c, s, cur, m) ==
  IF /\ Owner(c, s, cur) /\ Usable(c)
     /\ m.at \in Within /\ Distance(m.at, c.position) <= CommandLead
  THEN [c EXCEPT !.goal = m.at, !.ee = m.ee, !.command = 0]
  ELSE c

\* pause_tcp and stop_tcp: give up the lead of the target over the arm, and
\* keep or leave the mode.
PauseTcp(c, cur) ==
  IF ~Owner(c, "tcp_ik", cur) THEN c
  ELSE IF ~c.ready \/ ~Fresh(c) \/ ~Valid(c) THEN Fault(c)
  ELSE [HoldMeasured(c) EXCEPT !.ee = FALSE, !.command = 0]

StopTcp(c, cur) ==
  IF ~Owner(c, "tcp_ik", cur) THEN c
  ELSE IF ~c.ready \/ ~Fresh(c) \/ ~Valid(c) THEN Fault(c)
  ELSE HoldMeasured(Request(c, "hold"))

\* Waypoints a, b, c' reverse at b.
Reverses(a, b, d) == b # a /\ (b - a) * (d - b) <= 0

\* path: carry the velocity through a waypoint unless the next segment turns
\* back there.
WithStops(c, ways) ==
  [i \in 1 .. Len(ways) |->
     [at |-> ways[i].at,
      stop |-> \/ ways[i].stop
               \/ /\ i < Len(ways)
                  /\ Reverses(IF i = 1 THEN c.target ELSE ways[i - 1].at,
                              ways[i].at, ways[i + 1].at)]]

NextWaypoint(c) ==
  [c EXCEPT !.goal = Head(c.queue).at, !.stop = Head(c.queue).stop,
            !.queue = Tail(@), !.stall = None]

Path(c, cur, m) ==
  IF /\ Owner(c, "tool_auto", cur) /\ Usable(c) /\ c.job = None
     /\ m.ways # <<>> /\ \A i \in 1 .. Len(m.ways) : m.ways[i].at \in Within
  THEN LET set == [c EXCEPT !.queue = WithStops(c, m.ways),
                            !.job = [id |-> m.id, kind |-> "path"]]
       IN [NextWaypoint(set) EXCEPT !.started = 0]
  ELSE c

\* close_ee and timed_docking_ee, given fresh feedback of the gripper.
StartEE(c, cur, m) ==
  IF Owner(c, "tool_auto", cur) /\ Usable(c) /\ c.job = None /\ Stopped(c)
  THEN [HoldMeasured(c) EXCEPT !.job = [id |-> m.id, kind |-> "ee"],
                               !.started = 0, !.settled = 0]
  ELSE c

CancelPath(c, cur, m) ==
  IF c.mode = "tool_auto" /\ cur /\ c.job # None /\ c.job.id = m.id
  THEN LET held == Request(c, "hold")
       IN IF Fresh(c) THEN HoldMeasured(held) ELSE held
  ELSE c

-----------------------------------------------------------------------------
(* Startup recovery and the first entry's alignment *)

Inset(p) == Clamp(p, 1, IF Top > 1 THEN Top - 1 ELSE 1)

\* begin_startup: the measured position is the seed of the controller; an arm
\* near or outside its limits is brought in first.
BeginStartup(c) ==
  LET goal == Inset(c.position)
      recover == goal # c.position
  IN [Invalidate(c) EXCEPT
        !.target = c.position, !.goal = goal,
        !.mode = "hold", !.requested = "hold", !.transitioning = recover,
        !.startup = IF recover THEN "recovering" ELSE "complete",
        !.recovery = None]

\* The command has arrived, and so has the arm, which stands.
Recovered(c) == c.target = c.goal /\ Valid(c) /\ c.position = c.goal /\ Stopped(c)

\* run_startup, with dt periods since the last tick.
RunStartup(c, dt) ==
  LET quiet == [c EXCEPT !.ee = FALSE]
      error == Distance(c.position, c.goal)
      begun == IF c.recovery = None
               THEN [total |-> 0, stall |-> 0, best |-> error] ELSE c.recovery
      timed == IF error < begun.best
               THEN [begun EXCEPT !.best = error, !.stall = 0] ELSE begun
      next == Towards(c.target, c.goal)
      moved == [quiet EXCEPT
                  !.recovery = timed,
                  !.target = IF Distance(next, c.position) <= CommandLead
                             THEN next ELSE @]
  IN IF ~Fresh(c) \/ dt > MaxStartupDt
     THEN IF c.recovery # None /\ c.recovery.stall > RecoverStall
          THEN Fault(quiet) ELSE quiet
     ELSE IF \/ Distance(c.target, c.position) > CommandLead
             \/ timed.total > RecoverLimit \/ timed.stall > RecoverStall
     THEN Fault(quiet)
     ELSE IF Recovered(moved)
     THEN [moved EXCEPT !.startup = "complete", !.transitioning = FALSE]
     ELSE moved

Aligned(c) ==
  /\ c.target = Zero /\ c.position = Zero /\ Stopped(c)
  /\ c.alignSteady # None /\ c.alignSteady >= SteadyFor

\* run_entry_alignment: the first entry brings the wrist to zero.
RunEntryAlignment(c, dt) ==
  LET quiet == [c EXCEPT !.ee = FALSE]
      begun == IF c.aligning = None
               THEN [quiet EXCEPT !.target = c.position, !.aligning = 0]
               ELSE quiet
      next == Towards(begun.target, Zero)
      target == IF Distance(next, c.position) <= CommandLead
                THEN next ELSE begun.target
      moved == [begun EXCEPT
                  !.target = target, !.goal = target,
                  !.alignSteady = IF ~Stopped(c) THEN None
                                  ELSE IF @ = None THEN 0 ELSE @]
  IN IF ~Fresh(c) \/ ~Valid(c) \/ dt > MaxDt THEN Fault(quiet)
     ELSE IF \/ begun.aligning > AlignLimit
             \/ Distance(begun.target, c.position) > CommandLead
     THEN Fault(begun)
     ELSE IF Aligned(moved)
     THEN [moved EXCEPT !.aligned = TRUE, !.aligning = None, !.alignSteady = None]
     ELSE moved

-----------------------------------------------------------------------------
(* tick *)

Finish(c) ==
  [Enter(c, "hold") EXCEPT !.last = [id |-> c.job.id, result |-> "succeeded"]]

\* run_ee, by its outcome: it goes on (closing or waiting), gives up, or has
\* reached its goal.  GripperJob says when.
RunEE(c, outcome) ==
  CASE outcome = "turn"  -> [c EXCEPT !.ee = TRUE]
    [] outcome = "wait"  -> [c EXCEPT !.ee = FALSE]
    [] outcome = "abort" -> AbortToHold([c EXCEPT !.ee = FALSE])
    [] outcome = "done"  -> Finish(c)

\* stalled_path_joint: the command leads the arm and the arm comes no nearer.
Watched(c) ==
  [c EXCEPT !.stall =
     IF c.position = c.goal \/ c.target = c.position THEN None
     ELSE IF \/ @ = None
             \/ Distance(c.goal, c.position) < Distance(c.goal, @.at)
          THEN [age |-> 0, at |-> c.position]
     ELSE @]

Stalled(c) ==
  /\ c.position # c.goal /\ c.target # c.position
  /\ c.stall # None /\ c.stall.age > StallLimit
  /\ Distance(c.goal, c.position) >= Distance(c.goal, c.stall.at)

\* variant: the last waypoint is taken for reached like the others
PathReachedEarly(c) == c.queue = <<>> /\ c.target = c.goal

PathReached(c) == c.queue = <<>> /\ c.settled >= Settle

WaypointReached(c) ==
  /\ c.queue # <<>>
  /\ IF c.stop THEN c.settled >= Settle ELSE c.target = c.goal

FollowPath(c) ==
  IF c.started > PathLimit \/ Stalled(c) THEN AbortToHold(Watched(c))
  ELSE IF WaypointReached(c)
  THEN [NextWaypoint(c) EXCEPT !.started = 0, !.settled = 0]
  ELSE IF PathReached(c) THEN Finish(Watched(c))
  ELSE Watched(c)

\* The arm has stood for Settle samples.
CanGrant(c) == c.settled >= Settle

\* variant: a transition may take as long as it likes
NeverOver(c) == FALSE

TransitionOver(c) == c.started > TransitionLimit

\* The end of a transition.
EndTransition(c) ==
  IF TransitionOver(c) THEN Fault(c)
  ELSE IF ~CanGrant(c) THEN c
  ELSE IF c.requested = "tcp_ik" /\ ~EntryClear(c) THEN Enter(c, "hold")
  ELSE [c EXCEPT !.mode = c.requested, !.transitioning = FALSE,
                 !.command = 0, !.settled = 0]

\* Where the target may be after this period: with the speed's ramp it goes to
\* the goal; a path or a TCP stream may also still be braking or starting, and
\* a path's target stays within Lead of the arm until it is at the waypoint.
Targets(c) ==
  LET goal == IF c.goal = None THEN c.target ELSE c.goal
      next == Towards(c.target, goal)
  IN CASE c.mode = "tool_auto" /\ c.job # None ->
            IF c.target = goal THEN {goal}
            ELSE {Clamp(x, c.position - Lead, c.position + Lead) :
                    x \in {c.target, next}}
       [] c.mode = "tcp_ik" -> {c.target, next}
       [] OTHER -> {next}

Drive(c, target) ==
  LET goal == IF c.goal = None THEN c.target ELSE c.goal
      stopped == Stopped(c) /\ c.position = goal /\ target = goal
      moved == [c EXCEPT !.target = target,
                         !.settled = IF ~stopped THEN 0
                                     ELSE IF @ < Settle THEN @ + 1 ELSE @]
  IN IF moved.transitioning THEN EndTransition(moved)
     ELSE IF moved.mode = "tool_auto" /\ moved.job # None THEN FollowPath(moved)
     ELSE moved

Silent(c) == c.mode \in Streams /\ c.command > CommandLimit

\* What a tick checks before it moves the arm: its own period, the producer's
\* silence, the following error, and the one place where a fault holds.
Checked(c, dt) ==
  LET timed == IF dt > MaxDt THEN Fault(c) ELSE c
      heard == IF Silent(timed) THEN Request(timed, "hold") ELSE timed
      followed == IF Distance(heard.target, heard.position) <= FollowLimit
                  THEN heard
                  ELSE IF heard.mode = "tool_auto" /\ heard.job # None
                  THEN AbortToHold(heard) ELSE Fault(heard)
  IN IF followed.mode = "fault" /\ followed.goal = None
     THEN [followed EXCEPT !.goal = followed.position] ELSE followed

\* Which part of tick runs.
Phase(c) ==
  IF c.target = None THEN "unseen"
  ELSE IF c.startup # "complete"
  THEN IF c.mode # "fault" /\ c.ready /\ c.startup = "recovering"
       THEN "startup" ELSE "waiting"
  ELSE IF /\ AlignmentEnabled /\ ~c.aligned /\ c.focus = "arm" /\ c.ready
          /\ c.mode = "hold" /\ ~c.transitioning
  THEN "alignment"
  ELSE IF ~Fresh(c) THEN "stale"
  ELSE IF ~c.ready THEN "waiting"
  ELSE "control"

\* What tick may leave, dt periods after the last one.
Ticked(c, dt) ==
  LET p == Phase(c)
      checked == Checked(c, dt)
  IN CASE p \in {"unseen", "waiting"} -> {c}
       [] p = "startup" -> {RunStartup(c, dt)}
       [] p = "alignment" -> {RunEntryAlignment(c, dt)}
       [] p = "stale" -> {Fault(c)}
       [] p = "control" ->
            IF /\ checked.mode = "tool_auto" /\ checked.job # None
               /\ checked.job.kind = "ee"
            THEN {RunEE(checked, o) : o \in {"turn", "wait", "abort", "done"}}
            ELSE {Drive(checked, t) : t \in Targets(checked)}

\* One period passes.  An age is told only while its timestamp can be read:
\* command_time in a stream, started in a transition or an execution, and the
\* recovery's until it completes.
Aged(c) ==
  [c EXCEPT
     !.age = IF @ < FreshFor THEN @ + 1 ELSE @,
     !.command = IF c.mode \in Streams THEN Older(@, CommandLimit) ELSE @,
     !.started = IF c.transitioning THEN Older(@, TransitionLimit)
                 ELSE IF c.job # None THEN Older(@, PathLimit) ELSE @,
     !.outward = Older(@, OutwardFor), !.steady = Older(@, SteadyFor),
     !.proof = IF @ = None THEN None ELSE [@ EXCEPT !.age = Older(c.proof.age, ProofFor)],
     !.recovery = IF @ = None \/ c.startup # "recovering" THEN @
                  ELSE [@ EXCEPT !.total = Older(c.recovery.total, RecoverLimit),
                                 !.stall = Older(c.recovery.stall, RecoverStall)],
     !.aligning = Older(@, AlignLimit), !.alignSteady = Older(@, SteadyFor),
     !.stall = IF @ = None THEN None
               ELSE [@ EXCEPT !.age = Older(c.stall.age, StallLimit)]]

-----------------------------------------------------------------------------
Start ==
  [mode |-> "hold", requested |-> "hold", transitioning |-> FALSE,
   renewed |-> FALSE, focus |-> "drive", ready |-> FALSE,
   position |-> None, velocity |-> 0, age |-> FreshFor,
   target |-> None, goal |-> None, ee |-> FALSE,
   command |-> CommandLimit + 1, started |-> 0, settled |-> 0,
   queue |-> <<>>, stop |-> FALSE, job |-> None, last |-> None, stall |-> None,
   outward |-> None, steady |-> None, proof |-> None,
   startup |-> "pending", recovery |-> None,
   aligned |-> ~AlignmentEnabled, aligning |-> None, alignSteady |-> None]
=============================================================================
