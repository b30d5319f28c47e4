-------------------------- MODULE ToolSequenceProofs --------------------------
(***************************************************************************)
(* Safety of ToolSequence for every tool and every value of its constants. *)
(* A handler is an operator from the record of the node to the records it  *)
(* may leave, and most handlers end in another one: the lemmas say of each *)
(* what it may do to the fields the invariant speaks of.                   *)
(***************************************************************************)
EXTENDS ToolSequence, TLAPS

Fields == {"stage", "kind", "legs", "pend", "want", "phase", "exec", "home", "active",
           "begun", "locked", "authorized", "orig", "hold", "answer", "late", "over",
           "obs", "stable", "step", "l2", "heard", "fed", "mode", "last", "at", "same",
           "still", "docked", "status", "cmd", "cmdOk", "calls", "pulse", "raised"}

Node(x) == DOMAIN x = Fields

\* The stages in which the start of a path is looked after
Prep == {"planning", "checking", "request_mode", "wait_mode"}

\* From x to y, nothing is sent to the manager but a cancel of the path.
Silent(x, y) ==
  /\ Node(y) /\ y.mode = x.mode
  /\ y.cmd = "stop" \/ (y.cmd = x.cmd /\ y.cmdOk = x.cmdOk)

\* y is a place to go on from: nothing has been counted and no path is checked.
Afresh(y) ==
  /\ y.stage \notin {"request_mode", "wait_mode"}
  /\ y.stage \in Looking => y.stable = 0 /\ y.obs # "new"

\* What a handler that goes on to something else does ...
Goes(x, y) == Silent(x, y) /\ Afresh(y)

\* ... unless it raises.
Starts(x, y) == Silent(x, y) /\ (y.raised \/ Afresh(y))

LEMMA Onward ==
  ASSUME NEW x, NEW z, NEW y, Silent(x, z)
  PROVE  (Starts(z, y) => Starts(x, y)) /\ (Goes(z, y) => Goes(x, y))
  BY DEF Silent, Starts, Goes

-----------------------------------------------------------------------------
(* Giving up, planning and checking *)

LEMMA RaiseFacts ==
  ASSUME NEW x, Node(x) PROVE Silent(x, Raise(x)) /\ Raise(x).raised
  BY DEF Node, Fields, Silent, Raise

LEMMA ResetFacts ==
  ASSUME NEW x, Node(x) PROVE Silent(x, Reset(x)) /\ Reset(x).stage = "idle"
  BY DEF Node, Fields, Silent, Reset

LEMMA FailFacts ==
  ASSUME NEW x, Node(x)
  PROVE  /\ Silent(x, Fail(x)) /\ Fail(x).stage = "idle"
         /\ x.exec => Fail(x).cmd = "stop" /\ Fail(x).cmdOk = ~m.bumped
<1> DEFINE z == [x EXCEPT
                   !.raised = FALSE,
                   !.cmd = IF x.exec THEN "stop" ELSE @,
                   !.cmdOk = IF x.exec THEN ~m.bumped ELSE @,
                   !.calls = IF x.active \/ (~x.exec /\ x.stage \in {"request_mode", "wait_mode"})
                             THEN @ \cup {"cancel"} ELSE @]
<1>1. Silent(x, z) /\ (x.exec => z.cmd = "stop" /\ z.cmdOk = ~m.bumped)
  BY DEF Node, Fields, Silent
<1>2. Fail(x) = Reset(z)
  BY DEF Fail
<1>3. /\ Reset(z).cmd = z.cmd /\ Reset(z).cmdOk = z.cmdOk /\ Reset(z).mode = z.mode
      /\ Reset(z).stage = "idle" /\ Node(Reset(z))
  <2>1. Node(z)
    BY <1>1 DEF Silent
  <2> HIDE DEF z
  <2> QED BY <2>1 DEF Node, Fields, Reset
<1> HIDE DEF z
<1> QED BY <1>1, <1>2, <1>3 DEF Silent

LEMMA BeginFailedFacts ==
  ASSUME NEW x, Node(x) PROVE Silent(x, BeginFailed(x)) /\ BeginFailed(x).stage = "idle"
<1> DEFINE z == [x EXCEPT !.raised = FALSE]
<1>1. Silent(x, z) /\ Node(z)
  BY DEF Node, Fields, Silent
<1>2. Silent(x, Reset(z)) /\ Reset(z).stage = "idle"
  <2> HIDE DEF z
  <2> QED BY <1>1, ResetFacts DEF Silent
<1> QED BY <1>2, FailFacts DEF BeginFailed

LEMMA SnapshotFacts ==
  ASSUME NEW x, Node(x)
  PROVE  Silent(x, Snapshot(x)) /\ Snapshot(x).same /\ Snapshot(x).stage = x.stage
  BY DEF Node, Fields, Silent, Snapshot

\* A path to be planned starts where the arm is seen now.
LEMMA PlanFacts ==
  ASSUME NEW x, Node(x), NEW kind, NEW legs
  PROVE  Goes(x, Plan(x, kind, legs)) /\ Starts(x, Plan(x, kind, legs))
<1>1. Silent(x, Snapshot(x))
  BY SnapshotFacts
<1>2. Silent(Snapshot(x), Plan(x, kind, legs)) /\ Plan(x, kind, legs).stage = "planning"
  BY <1>1 DEF Silent, Plan, Node, Fields
<1> QED BY <1>1, <1>2 DEF Silent, Starts, Goes, Afresh, Looking

LEMMA IdleStarts ==
  ASSUME NEW x, NEW y, Silent(x, y), y.stage = "idle"
  PROVE  Goes(x, y) /\ Starts(x, y)
  BY DEF Starts, Goes, Afresh, Looking

LEMMA CheckFacts == ASSUME NEW x, Node(x), NEW y \in Check(x)
  PROVE  Goes(x, y) /\ Starts(x, y)
<1>1. CASE y = BeginFailed(x)
  BY <1>1, BeginFailedFacts, IdleStarts
<1>2. CASE y = [Snapshot(x) EXCEPT !.stage = "checking", !.answer = "wait", !.late = FALSE]
  <2>1. Silent(x, Snapshot(x))
    BY SnapshotFacts
  <2>2. Silent(Snapshot(x), y) /\ y.stage = "checking"
    BY <1>2, <2>1 DEF Silent, Node, Fields
  <2> QED BY <2>1, <2>2 DEF Silent, Starts, Goes, Afresh, Looking
<1> QED BY <1>1, <1>2 DEF Check

-----------------------------------------------------------------------------
(* The next path of a sequence *)

LEMMA BeginFacts == ASSUME NEW x, Node(x), NEW y \in Begin(x)
  PROVE  Goes(x, y) /\ Starts(x, y)
<1> DEFINE z == IF tool.guided THEN [x EXCEPT !.active = TRUE, !.begun = FALSE] ELSE x
           w == [z EXCEPT !.kind = "tool"]
<1>1. Silent(x, z) /\ Node(z)
  BY DEF Node, Fields, Silent
<1>2. Silent(x, w) /\ Node(w)
  <2> HIDE DEF z
  <2> QED BY <1>1 DEF Node, Fields, Silent
<1>3. \/ y = BeginFailed(z)
      \/ y \in Check(w)
      \/ y = Plan(z, "tool", 1) \/ y = Plan(z, "tool", 2)
  BY DEF Begin
<1> HIDE DEF z, w
<1> QED BY <1>1, <1>2, <1>3, BeginFailedFacts, IdleStarts, CheckFacts, PlanFacts, Onward

LEMMA BeginHomeFacts == ASSUME NEW x, Node(x), NEW y \in BeginHome(x) PROVE Starts(x, y)
  BY PlanFacts, RaiseFacts DEF BeginHome, MayRaise, Starts

LEMMA BeginWaypointFacts ==
  ASSUME NEW x, Node(x), NEW y \in BeginWaypoint(x) PROVE Starts(x, y)
  BY PlanFacts, RaiseFacts DEF BeginWaypoint, MayRaise, Starts

LEMMA SelectedFacts ==
  ASSUME NEW x, Node(x), NEW d, NEW ui, NEW y \in Selected(x, d, ui)
  PROVE  y = x \/ (Goes(x, y) /\ Starts(x, y))
<1> DEFINE z == [x EXCEPT !.want = d]
<1>1. Silent(x, z) /\ Node(z)
  BY DEF Node, Fields, Silent
<1>2. y = x \/ y = Reset(z) \/ y \in Begin(z)
  BY DEF Selected
<1> HIDE DEF z
<1> QED BY <1>1, <1>2, ResetFacts, IdleStarts, BeginFacts, Onward

LEMMA ContinueFacts == ASSUME NEW x, Node(x), NEW y \in Continue(x) PROVE Starts(x, y)
<1>1. Silent(x, Reset(x)) /\ Node(Reset(x)) /\ Starts(x, Reset(x))
  BY ResetFacts, IdleStarts DEF Silent
<1>2. y = Reset(x) \/ Starts(Reset(x), y)
  BY <1>1, SelectedFacts DEF Continue
<1> QED BY <1>1, <1>2, Onward

LEMMA BeginBackFacts ==
  ASSUME NEW x, Node(x), NEW legs, NEW force, NEW y \in BeginBack(x, legs, force)
  PROVE  Starts(x, y)
<1>1. \/ y = Raise(x) \/ y \in BeginHome(x) \/ y \in Continue(x) \/ y = Reset(x)
      \/ y = Plan(x, "back", legs)
  BY DEF BeginBack, MayRaise
<1>2. Starts(x, Raise(x)) /\ Starts(x, Reset(x)) /\ Starts(x, Plan(x, "back", legs))
  BY RaiseFacts, ResetFacts, IdleStarts, PlanFacts DEF Starts
<1> QED BY <1>1, <1>2, BeginHomeFacts, ContinueFacts

-----------------------------------------------------------------------------
(* What follows when a path has been completed *)

LEMMA BeginActuationFacts ==
  ASSUME NEW x, Node(x), NEW y \in BeginActuation(x) PROVE Starts(x, y)
<1> DEFINE z == [x EXCEPT !.stage = "wait_docked", !.same = TRUE, !.heard = FALSE,
                          !.pulse = x.want, !.late = FALSE]
<1>1. Silent(x, z) /\ z.stage = "wait_docked"
  BY DEF Node, Fields, Silent
<1>2. y = z \/ y = Raise(x)
  BY DEF BeginActuation, MayRaise
<1> HIDE DEF z
<1> QED BY <1>1, <1>2, RaiseFacts DEF Starts, Afresh, Looking

LEMMA RetreatFacts == ASSUME NEW x, Node(x), NEW y \in Retreat(x) PROVE Starts(x, y)
<1> DEFINE z == [x EXCEPT !.kind = "retreat",
                          !.home = @ \/ (x.authorized /\ tool.home)]
<1>1. Silent(x, z) /\ Node(z)
  BY DEF Node, Fields, Silent
<1>2. y \in Check(z) \/ y = Raise(x)
  BY DEF Retreat, MayRaise
<1> HIDE DEF z
<1> QED BY <1>1, <1>2, CheckFacts, Onward, RaiseFacts DEF Starts

LEMMA RouteCompletedFacts ==
  ASSUME NEW x, Node(x), NEW y \in RouteCompleted(x) PROVE Starts(x, y)
<1> DEFINE z == [x EXCEPT !.phase = "closing"]
           w == [x EXCEPT !.phase = "returning"]
<1>1. Silent(x, z) /\ Node(z) /\ Silent(x, w) /\ Node(w)
  BY DEF Node, Fields, Silent
<1>2. \/ y = Raise(x) \/ y = Reset(x)
      \/ y \in BeginHome(x) \/ y \in Continue(x) \/ y \in BeginBack(x, 1, FALSE)
      \/ y \in BeginWaypoint(x) \/ y \in BeginActuation(x)
      \/ y \in Check(z) \/ y \in Check(w)
  <2> HIDE DEF z, w
  <2>1. CASE x.kind \in {"home", "back", "waypoint", "retreat"}
    BY <2>1 DEF RouteCompleted
  <2>2. CASE x.kind \notin {"home", "back", "waypoint", "retreat"}
    BY <2>2 DEF RouteCompleted, MayRaise, z, w
  <2> QED BY <2>1, <2>2
<1>3. Starts(x, Raise(x)) /\ Starts(x, Reset(x))
  BY RaiseFacts, ResetFacts, IdleStarts DEF Starts
<1> HIDE DEF z, w
<1> QED BY <1>1, <1>2, <1>3, BeginHomeFacts, ContinueFacts, BeginBackFacts,
           BeginWaypointFacts, BeginActuationFacts, CheckFacts, Onward

\* A new look at the tag begins with no sample and no image.
LEMMA LookFacts ==
  ASSUME NEW x, Node(x), NEW stage, stage \notin {"request_mode", "wait_mode"}
  PROVE  /\ Silent(x, Look(x, stage)) /\ Starts(x, Look(x, stage))
         /\ Look(x, stage).stage = stage /\ Look(x, stage).stable = 0
         /\ Look(x, stage).obs = "none"
<1>1. /\ Silent(x, Look(x, stage)) /\ Look(x, stage).stage = stage
      /\ Look(x, stage).stable = 0 /\ Look(x, stage).obs = "none"
  BY DEF Node, Fields, Silent, Look
<1> QED BY <1>1 DEF Starts, Afresh

LEMMA StartFinalFacts == ASSUME NEW x, Node(x), NEW y \in StartFinal(x) PROVE Starts(x, y)
<1> DEFINE z == [x EXCEPT !.locked = TRUE]
<1>1. Silent(x, z) /\ Node(z)
  BY DEF Node, Fields, Silent
<1>2. y \in Check(z) \/ y = Raise(x)
  BY DEF StartFinal, MayRaise
<1> HIDE DEF z
<1> QED BY <1>1, <1>2, CheckFacts, Onward, RaiseFacts DEF Starts

LEMMA StartAdvanceFacts ==
  ASSUME NEW x, Node(x), NEW y \in StartAdvance(x) PROVE Starts(x, y)
<1> DEFINE z == [x EXCEPT !.locked = TRUE, !.same = TRUE, !.stage = "advance_plan"]
<1>1. Silent(x, z) /\ z.stage = "advance_plan"
  BY DEF Node, Fields, Silent
<1>2. y = z \/ y = Raise(x)
  BY DEF StartAdvance, MayRaise
<1> HIDE DEF z
<1> QED BY <1>1, <1>2, RaiseFacts DEF Starts, Afresh, Looking

LEMMA AdvanceCompletedFacts ==
  ASSUME NEW x, Node(x), NEW y \in AdvanceCompleted(x) PROVE Starts(x, y)
<1> DEFINE z == [x EXCEPT !.pulse = "dock", !.heard = FALSE, !.late = FALSE]
           a == [z EXCEPT !.stage = "attach_wait", !.hold = TRUE]
           b == [z EXCEPT !.stage = "actuate", !.same = TRUE]
<1>1. Silent(x, z) /\ Node(z)
  BY DEF Node, Fields, Silent
<1>2. Silent(x, a) /\ a.stage = "attach_wait" /\ Silent(x, b) /\ b.stage = "actuate"
  <2> HIDE DEF z
  <2> QED BY <1>1 DEF Node, Fields, Silent
<1>3. y = Raise(x) \/ y = Reset(x) \/ y = a \/ y = b
  <2> HIDE DEF z, a, b
  <2>1. CASE tool.act \in {"none", "delay"}
    BY <2>1 DEF AdvanceCompleted, a, z
  <2>2. CASE tool.act \notin {"none", "delay"}
    BY <2>2 DEF AdvanceCompleted, b, z
  <2> QED BY <2>1, <2>2
<1> HIDE DEF z, a, b
<1> QED BY <1>2, <1>3, RaiseFacts, ResetFacts, IdleStarts DEF Starts, Afresh, Looking

LEMMA PathCompletedFacts ==
  ASSUME NEW x, Node(x), NEW y \in PathCompleted(x) PROVE Starts(x, y)
<1> DEFINE z == [x EXCEPT !.exec = FALSE, !.hold = TRUE, !.begun = TRUE]
           w == [Look(z, "observe") EXCEPT
                   !.obs = IF x.obs \in {"none", "stale"} THEN x.obs ELSE "early"]
<1>1. Silent(x, z) /\ Node(z)
  BY DEF Node, Fields, Silent
<1>2. Starts(z, w)
  <2>1. Silent(z, Look(z, "observe")) /\ Look(z, "observe").stable = 0
        /\ Look(z, "observe").stage = "observe"
    <3> HIDE DEF z
    <3> QED BY <1>1, LookFacts
  <2> HIDE DEF z
  <2> QED BY <2>1 DEF Silent, Node, Fields, Starts, Afresh
<1>3. \/ y \in RouteCompleted(x) \/ y \in AdvanceCompleted(x) \/ y = w
      \/ y \in StartAdvance(z) \/ y \in StartFinal(z)
      \/ y \in {Look(z, "acquire"), Look(z, "tag_acquire"), Look(z, "tag_confirm")}
  <2> HIDE DEF z, w
  <2>1. CASE ~x.active \/ x.locked \/ x.begun
    BY <2>1 DEF PathCompleted, z, w
  <2>2. CASE x.active /\ ~x.locked /\ ~x.begun
    <3>1. y \in CASE tool.line = "axis" -> StartAdvance(z)
                  [] tool.line \in {"visual", "normal"} -> {Look(z, "acquire")}
                  [] tool.look = "translate" -> {Look(z, "tag_acquire")}
                  [] tool.look = "confirm" -> {Look(z, "tag_confirm")}
                  [] OTHER -> StartFinal(z)
      BY <2>2 DEF PathCompleted, z
    <3>2. CASE tool.line \in {"axis", "visual", "normal"}
      BY <3>1, <3>2
    <3>3. CASE tool.line \notin {"axis", "visual", "normal"}
      BY <3>1, <3>3
    <3> QED BY <3>2, <3>3
  <2> QED BY <2>1, <2>2
<1>4. Starts(z, Look(z, "acquire")) /\ Starts(z, Look(z, "tag_acquire"))
      /\ Starts(z, Look(z, "tag_confirm"))
  <2> HIDE DEF z
  <2> QED BY <1>1, LookFacts
<1> HIDE DEF z, w
<1> QED BY <1>1, <1>2, <1>3, <1>4, RouteCompletedFacts, AdvanceCompletedFacts,
           StartAdvanceFacts, StartFinalFacts, Onward

-----------------------------------------------------------------------------
(* The timer *)

\* A sample is an image that came since the last one; anything else ends the count.
Sampled(x, y) ==
  y.stage \in Looking =>
    \/ y.stable = 0 /\ y.obs # "new"
    \/ /\ x.stage \in Looking /\ y.step = x.step
       /\ \/ y.obs = x.obs /\ y.stable \in {0, x.stable}
          \/ /\ x.obs = "new" /\ y.obs = "seen"
             /\ y.stable = IF x.stable < Samples THEN x.stable + 1 ELSE x.stable

\* Where a path starts is looked at when it is asked for, and watched from then on.
Prepared(x, y) ==
  y.stage \in Prep /\ y.same =>
    \/ y.stage \in {"planning", "checking"} /\ x.stage \notin {"planning", y.stage}
    \/ x.stage \in Prep /\ x.same

\* The path has been sent.
Published(x, y) ==
  /\ Node(y) /\ y.mode = x.mode
  /\ x.stage = "wait_mode" /\ x.mode = "tool_auto" /\ x.same
  /\ y.stage = "executing" /\ y.exec /\ y.last = "none" /\ y.cmdOk = ~m.bumped

\* What a step of a sequence does, unless it raises.
Meets(x, y) == Sampled(x, y) /\ Prepared(x, y) /\ (Silent(x, y) \/ Published(x, y))

\* What a handler of tick leaves.
Handles(x, y) == y = x \/ (Silent(x, y) /\ y.raised) \/ Meets(x, y)

LEMMA StartsHandles ==
  ASSUME NEW x, NEW y, Starts(x, y),
         x.stage \notin {"planning", "checking"} \/ x.same
  PROVE  Handles(x, y)
  BY DEF Starts, Afresh, Handles, Meets, Sampled, Prepared, Prep

LEMMA StayHandles == ASSUME NEW x PROVE Handles(x, x)
  BY DEF Handles

LEMMA RaiseHandles == ASSUME NEW x, Node(x) PROVE Handles(x, Raise(x))
  BY RaiseFacts DEF Handles

\* An edit that leaves these stages alone
LEMMA StageHandles ==
  ASSUME NEW x, NEW y, Silent(x, y), y.stage \notin Looking,
         y.stage \in Prep => x.stage \in Prep /\ y.same = x.same
  PROVE  Handles(x, y)
  BY DEF Handles, Meets, Sampled, Prepared

LEMMA TickWaitDockedFacts ==
  ASSUME NEW x, Node(x), x.stage = "wait_docked", NEW y \in TickWaitDocked(x)
  PROVE  Handles(x, y)
<1>1. y = x \/ y = Raise(x) \/ y \in Retreat(x)
  BY DEF TickWaitDocked
<1> QED BY <1>1, RaiseHandles, RetreatFacts, StartsHandles DEF Handles

LEMMA TickHoldFacts ==
  ASSUME NEW x, Node(x), x.stage \in {"request_hold", "wait_hold"},
         NEW y \in TickRequestHold(x) \cup TickWaitHold(x)
  PROVE  Handles(x, y)
<1> DEFINE z == [x EXCEPT !.stage = "wait_hold", !.answer = "none"]
<1>1. Silent(x, z) /\ z.stage = "wait_hold"
  BY DEF Node, Fields, Silent
<1>2. \/ y = x \/ y = Raise(x) \/ y = z
      \/ y \in BeginBack(x, 2, FALSE) \/ y \in BeginHome(x)
  BY DEF TickRequestHold, TickWaitHold
<1>3. Handles(x, z)
  BY <1>1, StageHandles DEF Looking, Prep
<1> HIDE DEF z
<1>4. ASSUME y \in BeginBack(x, 2, FALSE) \/ y \in BeginHome(x) PROVE Handles(x, y)
  <2>1. Starts(x, y)
    BY <1>4, BeginBackFacts, BeginHomeFacts
  <2> QED BY <2>1, StartsHandles
<1> QED BY <1>2, <1>3, <1>4, RaiseHandles, StayHandles

LEMMA TickPlanningFacts ==
  ASSUME NEW x, Node(x), x.stage = "planning", NEW y \in TickPlanning(x)
  PROVE  Handles(x, y)
<1> DEFINE z == [x EXCEPT !.legs = @ - 1, !.answer = "wait", !.late = FALSE]
           w == [x EXCEPT !.legs = 0]
<1>1. /\ Silent(x, z) /\ z.stage = x.stage /\ z.same = x.same
      /\ Silent(x, w) /\ Node(w)
  BY DEF Node, Fields, Silent
<1>2. y = x \/ y = Raise(x) \/ (x.same /\ (y = z \/ y \in Check(w)))
  BY DEF TickPlanning, Undisturbed
<1>3. Handles(x, z)
  BY <1>1, StageHandles DEF Looking, Prep
<1> HIDE DEF z, w
<1> QED BY <1>1, <1>2, <1>3, RaiseHandles, CheckFacts, Onward, StartsHandles DEF Handles

LEMMA TickCheckingFacts ==
  ASSUME NEW x, Node(x), x.stage = "checking", NEW y \in TickChecking(x)
  PROVE  Handles(x, y)
<1> DEFINE z == [x EXCEPT !.stage = "request_mode", !.answer = "wait",
                          !.calls = @ \cup {"mode"}]
<1>1. Silent(x, z) /\ z.stage = "request_mode" /\ z.same = x.same
  BY DEF Node, Fields, Silent
<1>2. y = x \/ y = Raise(x) \/ y = z
  BY DEF TickChecking
<1>3. Handles(x, z)
  BY <1>1, StageHandles DEF Looking, Prep
<1> HIDE DEF z
<1> QED BY <1>2, <1>3, RaiseHandles DEF Handles

LEMMA TickRequestModeFacts ==
  ASSUME NEW x, Node(x), x.stage = "request_mode", NEW y \in TickRequestMode(x)
  PROVE  Handles(x, y)
<1> DEFINE z == [x EXCEPT !.stage = "wait_mode", !.answer = "none"]
<1>1. Silent(x, z) /\ z.stage = "wait_mode" /\ z.same = x.same
  BY DEF Node, Fields, Silent
<1>2. y = x \/ y = Raise(x) \/ y = z
  BY DEF TickRequestMode
<1>3. Handles(x, z)
  BY <1>1, StageHandles DEF Looking, Prep
<1> HIDE DEF z
<1> QED BY <1>2, <1>3, RaiseHandles DEF Handles

LEMMA TickWaitModeFacts ==
  ASSUME NEW x, Node(x), x.stage = "wait_mode", NEW y \in TickWaitMode(x)
  PROVE  Handles(x, y)
<1> DEFINE z == [x EXCEPT !.cmd = Destination(x), !.cmdOk = ~m.bumped, !.exec = TRUE,
                          !.last = "none", !.stage = "executing", !.late = FALSE]
<1>1. /\ Node(z) /\ z.mode = x.mode /\ z.stage = "executing" /\ z.exec
      /\ z.last = "none" /\ z.cmdOk = ~m.bumped
  BY DEF Node, Fields
<1>2. y = x \/ y = Raise(x) \/ (y = z /\ x.mode = "tool_auto" /\ x.same)
  BY DEF TickWaitMode, Unmoved
<1>3. x.mode = "tool_auto" /\ x.same => Handles(x, z)
  <2> HIDE DEF z
  <2> QED BY <1>1 DEF Handles, Meets, Published, Sampled, Prepared, Looking, Prep
<1> HIDE DEF z
<1> QED BY <1>2, <1>3, RaiseHandles DEF Handles

LEMMA TickExecutingFacts ==
  ASSUME NEW x, Node(x), x.stage = "executing", NEW y \in TickExecuting(x)
  PROVE  Handles(x, y)
<1>1. y = x \/ y = Raise(x) \/ y \in PathCompleted(x)
  BY DEF TickExecuting
<1> QED BY <1>1, RaiseHandles, PathCompletedFacts, StartsHandles DEF Handles

LEMMA TickRouteFacts ==
  ASSUME NEW x, Node(x), NEW y \in TickRoute(x) PROVE Handles(x, y)
<1>1. CASE x.stage = "wait_docked"
  BY <1>1, TickWaitDockedFacts DEF TickRoute
<1>2. CASE x.stage \in {"request_hold", "wait_hold"}
  BY <1>2, TickHoldFacts DEF TickRoute
<1>3. CASE x.stage = "planning"
  BY <1>3, TickPlanningFacts DEF TickRoute
<1>4. CASE x.stage = "checking"
  BY <1>4, TickCheckingFacts DEF TickRoute
<1>5. CASE x.stage = "request_mode"
  BY <1>5, TickRequestModeFacts DEF TickRoute
<1>6. CASE x.stage = "wait_mode"
  BY <1>6, TickWaitModeFacts DEF TickRoute
<1>7. CASE x.stage = "executing"
  BY <1>7, TickExecutingFacts DEF TickRoute
<1>8. CASE x.stage \notin {"wait_docked", "request_hold", "wait_hold", "planning", "checking",
                          "request_mode", "wait_mode", "executing"}
  <2>1. y = x
    BY <1>8 DEF TickRoute
  <2> QED BY <2>1 DEF Handles
<1> QED BY <1>1, <1>2, <1>3, <1>4, <1>5, <1>6, <1>7, <1>8

\* tick_tag_translation and tick_tag_confirmation: a sample that is counted.
LEMMA CountedFacts ==
  ASSUME NEW x, Node(x), Countable(x)
  PROVE  LET y == Counted(x)
         IN  /\ Silent(x, y) /\ Node(y) /\ y.stage = x.stage /\ y.step = x.step
             /\ x.obs = "new" /\ y.obs = "seen" /\ y.same = x.same
             /\ y.stable = IF x.stable < Samples THEN x.stable + 1 ELSE x.stable
  BY DEF Node, Fields, Silent, Countable, Counted

\* Samples are dropped, the image is kept or forgotten.
LEMMA DropHandles ==
  ASSUME NEW x, NEW y, Silent(x, y), y.stage \in Looking, y.stable = 0,
         y.obs # "new" \/ (y.obs = x.obs /\ y.stage = x.stage /\ y.step = x.step)
  PROVE  Handles(x, y)
<1>1. y.stage \notin Prep
  BY DEF Looking, Prep
<1> QED BY <1>1 DEF Handles, Meets, Sampled, Prepared

LEMMA CountHandles ==
  ASSUME NEW x, Node(x), Countable(x), x.stage \in Looking PROVE Handles(x, Counted(x))
<1>1. x.stage \notin Prep
  BY DEF Looking, Prep
<1> QED BY <1>1, CountedFacts DEF Handles, Meets, Sampled, Prepared

LEMMA TickTagFacts ==
  ASSUME NEW x, Node(x), x.stage \in {"tag_acquire", "tag_confirm"}, NEW y \in TickTag(x)
  PROVE  Handles(x, y)
<1> DEFINE c == Counted(x)
           a == [x EXCEPT !.stable = 0]
           b == [x EXCEPT !.obs = "none", !.stable = 0]
           d == [c EXCEPT !.stable = 0]
           e == [c EXCEPT !.locked = TRUE, !.same = TRUE, !.stage = "tag_plan"]
<1>0. x.stage \in Looking
  BY DEF Looking
<1>1. Handles(x, a)
  <2>1. /\ Silent(x, a) /\ a.stage = x.stage /\ a.stable = 0 /\ a.obs = x.obs
        /\ a.step = x.step
    BY DEF Node, Fields, Silent
  <2> HIDE DEF a
  <2> QED BY <1>0, <2>1, DropHandles
<1>2. Handles(x, b)
  <2>1. Silent(x, b) /\ b.stage = x.stage /\ b.stable = 0 /\ b.obs = "none"
    BY DEF Node, Fields, Silent
  <2> HIDE DEF b
  <2> QED BY <1>0, <2>1, DropHandles
<1>3. ASSUME Countable(x)
      PROVE  Handles(x, c) /\ Handles(x, d) /\ Handles(x, e) /\ Node(c) /\ Silent(x, c)
  <2>1. /\ Silent(x, c) /\ Node(c) /\ c.stage = x.stage /\ c.obs = "seen"
    BY <1>3, CountedFacts
  <2>2. /\ Silent(x, d) /\ d.stage = x.stage /\ d.stable = 0 /\ d.obs = "seen"
        /\ Silent(x, e) /\ e.stage = "tag_plan"
    <3> HIDE DEF c
    <3> QED BY <2>1 DEF Node, Fields, Silent
  <2>3. Handles(x, c)
    BY <1>0, <1>3, CountHandles
  <2> HIDE DEF c, d, e
  <2>4. Handles(x, d)
    BY <1>0, <2>2, DropHandles
  <2>5. Handles(x, e)
    BY <2>2, StageHandles DEF Looking, Prep
  <2> QED BY <2>1, <2>3, <2>4, <2>5
<1>4. \/ y = x \/ y = Raise(x) \/ y = a \/ y = b
      \/ Countable(x) /\ (y \in {c, d, e, Raise(c)} \/ y \in StartFinal(c))
  BY DEF TickTag
<1>5. Countable(x) => Handles(x, Raise(c))
  <2> HIDE DEF c
  <2>1. ASSUME Countable(x) PROVE Silent(x, Raise(c)) /\ Raise(c).raised
    BY <1>3, <2>1, RaiseFacts DEF Silent
  <2> QED BY <2>1 DEF Handles
<1>6. ASSUME Countable(x), y \in StartFinal(c) PROVE Handles(x, y)
  <2> HIDE DEF c
  <2>1. Starts(x, y)
    BY <1>3, <1>6, StartFinalFacts, Onward
  <2> QED BY <2>1, StartsHandles
<1> HIDE DEF a, b, c, d, e
<1> QED BY <1>1, <1>2, <1>3, <1>4, <1>5, <1>6, RaiseHandles DEF Handles

LEMMA TickPlanFacts ==
  ASSUME NEW x, Node(x), x.stage \in {"tag_plan", "advance_plan"}, NEW y \in TickPlan(x)
  PROVE  Handles(x, y)
<1>1. y = Raise(x) \/ y \in StartFinal(x) \/ y \in Check(x)
  BY DEF TickPlan, MayRaise
<1>2. y = Raise(x) \/ Starts(x, y)
  BY <1>1, StartFinalFacts, CheckFacts
<1> QED BY <1>2, RaiseHandles, StartsHandles

\* The retreat after the latch has been turned
LEMMA LeavingFacts ==
  ASSUME NEW x, Node(x),
         NEW y \in Retreat([x EXCEPT !.active = FALSE, !.locked = FALSE, !.authorized = TRUE])
  PROVE  Starts(x, y)
<1> DEFINE z == [x EXCEPT !.active = FALSE, !.locked = FALSE, !.authorized = TRUE]
<1>1. Silent(x, z) /\ Node(z)
  BY DEF Node, Fields, Silent
<1>2. y \in Retreat(z)
  OBVIOUS
<1> HIDE DEF z
<1> QED BY <1>1, <1>2, RetreatFacts, Onward

LEMMA TickTimedFinishFacts ==
  ASSUME NEW x, Node(x), x.stage = "attach_wait", NEW y \in TickTimedFinish(x)
  PROVE  Handles(x, y)
<1>1. \/ y = x \/ y = Raise(x)
      \/ y \in Retreat([x EXCEPT !.active = FALSE, !.locked = FALSE, !.authorized = TRUE])
  BY DEF TickTimedFinish
<1>2. y = x \/ y = Raise(x) \/ Starts(x, y)
  BY <1>1, LeavingFacts
<1> QED BY <1>2, RaiseHandles, StartsHandles DEF Handles

LEMMA AlignedFacts ==
  ASSUME NEW x, Node(x), x.stage = "observe", NEW y \in Aligned(x) PROVE Starts(x, y)
<1> DEFINE z == [x EXCEPT !.stable = 0]
           a == [z EXCEPT !.step = @ + 1, !.obs = "early"]
           b == [z EXCEPT !.stage = "actuate", !.same = TRUE, !.pulse = "dock",
                          !.heard = FALSE, !.late = FALSE]
<1>1. Silent(x, z) /\ Node(z) /\ z.stable = 0 /\ z.stage = "observe"
  BY DEF Node, Fields, Silent
<1>2. /\ Silent(x, a) /\ a.stage = "observe" /\ a.stable = 0 /\ a.obs = "early"
      /\ Silent(x, b) /\ b.stage = "actuate"
  <2> HIDE DEF z
  <2> QED BY <1>1 DEF Node, Fields, Silent
<1>3. y \in StartAdvance(z) \/ y = a \/ y = Reset(x) \/ y = b \/ y = Raise(x)
  BY DEF Aligned, MayRaise
<1>4. Starts(x, a) /\ Starts(x, b) /\ Starts(x, Reset(x)) /\ Starts(x, Raise(x))
  <2> HIDE DEF a, b
  <2>1. Starts(x, a) /\ Starts(x, b)
    BY <1>2 DEF Starts, Afresh, Looking
  <2> QED BY <2>1, RaiseFacts, ResetFacts, IdleStarts DEF Starts
<1> HIDE DEF z, a, b
<1> QED BY <1>1, <1>3, <1>4, StartAdvanceFacts, Onward

LEMMA ObserveFacts ==
  ASSUME NEW x, Node(x), x.stage = "observe", NEW y \in Observe(x) PROVE Handles(x, y)
<1> DEFINE c == Counted(x)
           d == [c EXCEPT !.stable = 0]
<1>0. x.stage \in Looking
  BY DEF Looking
<1>1. \/ y = x \/ y = Raise(x)
      \/ Countable(x) /\ (y = c \/ y = d \/ y \in Aligned(c) \/ y \in Check(d))
  BY DEF Observe, MayRaise
<1>2. ASSUME Countable(x)
      PROVE  /\ Silent(x, c) /\ Node(c) /\ c.stage = "observe" /\ c.obs = "seen"
             /\ Handles(x, c)
  BY <1>0, <1>2, CountedFacts, CountHandles
<1>3. ASSUME Countable(x) PROVE Silent(x, d) /\ Node(d) /\ Handles(x, d)
  <2>1. Silent(x, d) /\ d.stage = x.stage /\ d.stable = 0 /\ d.obs = "seen"
    <3> HIDE DEF c
    <3> QED BY <1>2, <1>3 DEF Node, Fields, Silent
  <2> HIDE DEF d
  <2> QED BY <1>0, <2>1, DropHandles DEF Silent
<1> HIDE DEF c, d
<1>4. ASSUME Countable(x), y \in Aligned(c) \/ y \in Check(d) PROVE Handles(x, y)
  <2>1. Starts(x, y)
    BY <1>2, <1>3, <1>4, AlignedFacts, CheckFacts, Onward
  <2> QED BY <2>1, StartsHandles
<1> QED BY <1>1, <1>2, <1>3, <1>4, RaiseHandles, StayHandles

LEMMA ObserveActuationFacts ==
  ASSUME NEW x, Node(x), x.stage = "actuate", NEW y \in ObserveActuation(x)
  PROVE  Handles(x, y)
<1>1. \/ y = x \/ y = Raise(x)
      \/ y \in Retreat([x EXCEPT !.active = FALSE, !.locked = FALSE, !.authorized = TRUE])
  BY DEF ObserveActuation
<1>2. y = x \/ y = Raise(x) \/ Starts(x, y)
  BY <1>1, LeavingFacts
<1> QED BY <1>2, RaiseHandles, StartsHandles, StayHandles

\* The tag is in view again: the first look may count.
LEMMA AcquiredFacts ==
  ASSUME NEW x, Node(x), x.stage = "acquire",
         NEW y \in Observe([x EXCEPT !.stage = "observe"])
  PROVE  Handles(x, y)
<1> DEFINE w == [x EXCEPT !.stage = "observe"]
<1>1. /\ Silent(x, w) /\ Node(w) /\ w.stage = "observe" /\ w.obs = x.obs
      /\ w.stable = x.stable /\ w.step = x.step
  BY DEF Node, Fields, Silent
<1>2. Handles(w, y)
  <2>1. y \in Observe(w)
    OBVIOUS
  <2> HIDE DEF w
  <2> QED BY <1>1, <2>1, ObserveFacts
<1> HIDE DEF w
<1>3. CASE y = w
  BY <1>1, <1>3 DEF Handles, Meets, Sampled, Prepared, Looking, Prep
<1>4. CASE Silent(w, y) /\ y.raised
  BY <1>1, <1>4 DEF Handles, Silent
<1>5. CASE Meets(w, y)
  <2>1. Silent(w, y)
    BY <1>1, <1>5 DEF Meets, Published
  <2>2. Silent(x, y)
    BY <1>1, <2>1 DEF Silent
  <2>3. Sampled(x, y)
    BY <1>1, <1>5 DEF Meets, Sampled, Looking
  <2>4. Prepared(x, y)
    BY <1>1, <1>5 DEF Meets, Prepared, Prep
  <2> QED BY <2>2, <2>3, <2>4 DEF Handles, Meets
<1> QED BY <1>2, <1>3, <1>4, <1>5 DEF Handles

LEMMA TickDockingFacts ==
  ASSUME NEW x, Node(x), NEW y \in TickDocking(x) PROVE Handles(x, y)
<1> DEFINE a == [x EXCEPT !.obs = "none", !.stable = 0]
           b == [x EXCEPT !.stage = "acquire", !.obs = "none", !.stable = 0]
<1>a. x.stage = "acquire" => Handles(x, a)
  <2>1. Silent(x, a) /\ a.stage = x.stage /\ a.stable = 0 /\ a.obs = "none"
    BY DEF Node, Fields, Silent
  <2> HIDE DEF a
  <2> QED BY <2>1, DropHandles DEF Looking
<1>b. Handles(x, b)
  <2>1. Silent(x, b) /\ b.stage = "acquire" /\ b.stable = 0 /\ b.obs = "none"
    BY DEF Node, Fields, Silent
  <2> HIDE DEF b
  <2> QED BY <2>1, DropHandles DEF Looking
<1>1. CASE x.stage \in {"tag_acquire", "tag_confirm"}
  BY <1>1, TickTagFacts DEF TickDocking
<1>2. CASE x.stage = "tag_plan"
  BY <1>2, TickPlanFacts DEF TickDocking
<1>3. CASE x.stage = "acquire"
  <2>1. y = x \/ y = Raise(x) \/ y = a \/ y \in Observe([x EXCEPT !.stage = "observe"])
    BY <1>3 DEF TickDocking
  <2> HIDE DEF a
  <2> QED BY <1>3, <1>a, <2>1, AcquiredFacts, RaiseHandles, StayHandles
<1>4. CASE x.stage \notin {"tag_acquire", "tag_confirm", "tag_plan", "acquire"}
  <2>1. \/ y = Raise(x) \/ y = b
        \/ x.stage = "advance_plan" /\ y \in TickPlan(x)
        \/ x.stage = "observe" /\ y \in Observe(x)
        \/ x.stage = "actuate" /\ y \in ObserveActuation(x)
        \/ y \in TickRoute(x)
    BY <1>4 DEF TickDocking
  <2> HIDE DEF b
  <2> QED BY <1>b, <2>1, TickPlanFacts, ObserveFacts, ObserveActuationFacts, TickRouteFacts,
             RaiseHandles
<1> QED BY <1>1, <1>2, <1>3, <1>4

\* A handler that raised has the sequence given up.
LEMMA TickedFacts ==
  ASSUME NEW x, Node(x), NEW y \in Ticked(x) PROVE y = x \/ Meets(x, y)
<1> DEFINE S == IF ~x.active THEN TickRoute(x)
                ELSE IF x.stage = "attach_wait" THEN TickTimedFinish(x)
                ELSE IF ~x.begun THEN IF Deadman(x) THEN TickRoute(x) ELSE {Raise(x)}
                ELSE IF Guard(x) THEN TickDocking(x) ELSE {Raise(x)}
<1>1. PICK z \in S : y = IF z.raised THEN Fail(z) ELSE z
  BY DEF Ticked, Caught
<1>2. Handles(x, z)
  <2>1. \/ z \in TickRoute(x) \/ z = Raise(x) \/ z \in TickDocking(x)
        \/ x.stage = "attach_wait" /\ z \in TickTimedFinish(x)
    BY <1>1
  <2> HIDE DEF S
  <2> QED BY <2>1, TickRouteFacts, TickTimedFinishFacts, TickDockingFacts, RaiseHandles
<1> HIDE DEF S
<1>3. CASE ~z.raised
  BY <1>1, <1>2, <1>3 DEF Handles
<1>4. CASE z.raised
  <2>1. Node(z) /\ z.mode = x.mode /\ (Silent(x, z) \/ z.exec)
    BY <1>2 DEF Handles, Meets, Silent, Published, Node
  <2>2. Silent(z, y) /\ y.stage = "idle" /\ (z.exec => y.cmd = "stop")
    BY <1>1, <1>4, <2>1, FailFacts
  <2>3. Silent(x, y)
    BY <2>1, <2>2 DEF Silent
  <2> QED BY <2>2, <2>3 DEF Meets, Sampled, Prepared, Looking, Prep
<1> QED BY <1>3, <1>4

-----------------------------------------------------------------------------
(* Requests *)

LEMMA SelfGoes == ASSUME NEW x, Node(x), x.stage = "idle" PROVE Goes(x, x)
  BY DEF Goes, Silent, Afresh, Looking

LEMMA HoldFirstFacts ==
  ASSUME NEW x, Node(x), x.stage = "idle", NEW kind, NEW y \in HoldFirst(x, kind)
  PROVE  Goes(x, y)
<1> DEFINE z == [x EXCEPT !.kind = kind, !.stage = "request_hold", !.answer = "wait",
                          !.calls = @ \cup {"cancel"}, !.late = FALSE]
<1>1. Silent(x, z) /\ z.stage = "request_hold"
  BY DEF Node, Fields, Silent
<1>2. y = x \/ y = z
  BY DEF HoldFirst
<1>3. Goes(x, z)
  <2> HIDE DEF z
  <2> QED BY <1>1 DEF Goes, Afresh, Looking
<1> HIDE DEF z
<1> QED BY <1>2, <1>3, SelfGoes

\* A request that raised is blocked, or given up.
LEMMA RequestPathFacts ==
  ASSUME NEW x, Node(x), x.stage = "idle", NEW d, NEW y \in RequestPath(x, d)
  PROVE  Goes(x, y)
<1> DEFINE w == [x EXCEPT !.want = d, !.pend = d]
<1>1. Silent(x, w) /\ Node(w)
  BY DEF Node, Fields, Silent
<1>2. \/ \E z \in BeginBack(w, 2, FALSE) : y = IF z.raised THEN BeginFailed(z) ELSE z
      \/ y \in Selected(x, d, d = "release")
  BY DEF RequestPath, Caught
<1>3. CASE y \in Selected(x, d, d = "release")
  BY <1>3, SelectedFacts, SelfGoes
<1>4. CASE \E z \in BeginBack(w, 2, FALSE) : y = IF z.raised THEN BeginFailed(z) ELSE z
  <2>1. PICK z \in BeginBack(w, 2, FALSE) : y = IF z.raised THEN BeginFailed(z) ELSE z
    BY <1>4
  <2> HIDE DEF w
  <2>2. Starts(x, z)
    BY <1>1, <2>1, BeginBackFacts, Onward
  <2>3. CASE ~z.raised
    BY <2>1, <2>2, <2>3 DEF Starts, Goes
  <2>4. CASE z.raised
    <3>1. Silent(x, z) /\ Node(z)
      BY <2>2 DEF Starts, Silent
    <3>2. Goes(z, y)
      BY <2>1, <2>4, <3>1, BeginFailedFacts, IdleStarts
    <3> QED BY <3>1, <3>2, Onward
  <2> QED BY <2>3, <2>4
<1> QED BY <1>2, <1>3, <1>4

LEMMA SelectToolFacts ==
  ASSUME NEW x, Node(x), NEW y \in SelectTool(x) PROVE Goes(x, y)
<1> DEFINE w == [x EXCEPT !.pend = "dock"]
<1>1. Silent(x, w) /\ Node(w)
  BY DEF Node, Fields, Silent
<1>2. \/ \E z \in BeginBack(w, 2, TRUE) : y = IF z.raised THEN BeginFailed(z) ELSE z
      \/ y = Reset(x)
  BY DEF SelectTool, Caught
<1>3. CASE y = Reset(x)
  BY <1>3, ResetFacts, IdleStarts
<1>4. CASE \E z \in BeginBack(w, 2, TRUE) : y = IF z.raised THEN BeginFailed(z) ELSE z
  <2>1. PICK z \in BeginBack(w, 2, TRUE) : y = IF z.raised THEN BeginFailed(z) ELSE z
    BY <1>4
  <2> HIDE DEF w
  <2>2. Starts(x, z)
    BY <1>1, <2>1, BeginBackFacts, Onward
  <2>3. CASE ~z.raised
    BY <2>1, <2>2, <2>3 DEF Starts, Goes
  <2>4. CASE z.raised
    <3>1. Silent(x, z) /\ Node(z)
      BY <2>2 DEF Starts, Silent
    <3>2. Goes(z, y)
      BY <2>1, <2>4, <3>1, BeginFailedFacts, IdleStarts
    <3> QED BY <3>1, <3>2, Onward
  <2> QED BY <2>3, <2>4
<1> QED BY <1>2, <1>3, <1>4

LEMMA RequestedFacts ==
  ASSUME Node(n), n.stage = "idle", NEW y \in Requested(n) PROVE Goes(n, y)
<1> DEFINE w == [n EXCEPT !.l2 = TRUE]
<1>1. Silent(n, w) /\ Node(w) /\ w.stage = "idle"
  BY DEF Node, Fields, Silent
<1>2. CASE y \in RequestBack(n)
  <2>1. \/ \E z \in BeginBack(n, 2, FALSE) : y = IF z.raised THEN n ELSE z
        \/ y \in HoldFirst(n, "back")
    BY <1>2 DEF RequestBack, Caught, Blocked
  <2>2. \A z \in BeginBack(n, 2, FALSE) : ~z.raised => Goes(n, z)
    BY BeginBackFacts DEF Starts, Goes
  <2> QED BY <2>1, <2>2, HoldFirstFacts, SelfGoes
<1>3. CASE y \in GoHome(n)
  <2>1. \/ \E z \in BeginHome(n) : y = IF z.raised THEN n ELSE z
        \/ y \in HoldFirst(n, "home")
    BY <1>3 DEF GoHome, Caught, Blocked
  <2>2. \A z \in BeginHome(n) : ~z.raised => Goes(n, z)
    BY BeginHomeFacts DEF Starts, Goes
  <2> QED BY <2>1, <2>2, HoldFirstFacts, SelfGoes
<1>4. CASE y \in RequestPath(n, "release") \cup SelectTool(n)
  BY <1>4, RequestPathFacts, SelectToolFacts
<1>5. CASE y \in RequestPath(w, "dock")
  <2> HIDE DEF w
  <2> QED BY <1>1, <1>5, RequestPathFacts, Onward
<1> QED BY <1>2, <1>3, <1>4, <1>5 DEF Requested

-----------------------------------------------------------------------------
(* The invariant: what the node and the manager have of one another *)

Shape ==
  /\ Node(n)
  /\ DOMAIN m = {"mode", "last", "run", "bumped"}
  /\ DOMAIN arm = {"at", "moved", "planned"}

\* A path is under way to a manager that will take it.
Pending == n.cmd \notin {"none", "stop"} /\ n.cmdOk
Busy == m.run # "none" \/ Pending

\* The node looks after the path, which it has not seen end.  (The tag may be lost
\* while the arm moves; without HOLD the next tick gives up.)
UnderWay(x) ==
  /\ x.stage \in {"executing", "acquire"} /\ x.exec
  /\ x.last = "none" /\ x.mode \in {"tool_auto", "stale"}

\* It has given up, and the cancel is on its way.
Stopping(x) == x.stage = "idle" /\ x.cmd = "stop" /\ x.cmdOk

MotionInv ==
  /\ n.mode = "tool_auto" /\ ~m.bumped => m.mode = "tool_auto"
  /\ Busy => /\ m.mode = "tool_auto" /\ m.last = "none" /\ ~m.bumped
             /\ UnderWay(n) \/ Stopping(n)

\* The arm does not leave its place unseen while a path is prepared.
StartInv ==
  /\ m.mode = "tool_auto" => ~arm.moved
  /\ n.stage \in Prep /\ n.same /\ ~arm.moved => arm.planned
  /\ Pending => arm.planned

\* An image that has not been counted is one more than the samples.
ImagesInv ==
  /\ shots \in 0 .. Samples
  /\ n.stage \in Looking =>
       /\ n.stable \in 0 .. shots
       /\ n.obs = "new" => n.stable < shots \/ shots = Samples

Inv == Shape /\ MotionInv /\ StartInv /\ ImagesInv

LEMMA InvStart == Init => Inv
<1> SUFFICES ASSUME Init PROVE Inv
  OBVIOUS
<1>1. Node(n) /\ n.cmd = "none" /\ n.mode = "stale" /\ n.stage = "idle"
  BY DEF Init, Node, Fields
<1>2. /\ DOMAIN m = {"mode", "last", "run", "bumped"} /\ m.run = "none" /\ m.mode = "hold"
      /\ DOMAIN arm = {"at", "moved", "planned"}
  BY DEF Init
<1>3. shots \in 0 .. Samples
  BY SequenceAssumption DEF Init
<1> QED BY <1>1, <1>2, <1>3 DEF Inv, Shape, MotionInv, Busy, Pending, StartInv, ImagesInv,
        Looking, Prep

-----------------------------------------------------------------------------
(* Steps of a sequence *)

\* A path that runs is looked after, or cancelled.
LEMMA BusyTick ==
  ASSUME NEW x, Node(x), UnderWay(x), NEW y \in Ticked(x)
  PROVE  \/ UnderWay(y) /\ y.cmd = x.cmd /\ y.cmdOk = x.cmdOk
         \/ y.stage = "idle" /\ y.cmd = "stop" /\ y.cmdOk = ~m.bumped
<1> DEFINE S == IF ~x.active THEN TickRoute(x)
                ELSE IF x.stage = "attach_wait" THEN TickTimedFinish(x)
                ELSE IF ~x.begun THEN IF Deadman(x) THEN TickRoute(x) ELSE {Raise(x)}
                ELSE IF Guard(x) THEN TickDocking(x) ELSE {Raise(x)}
           b == [x EXCEPT !.stage = "acquire", !.obs = "none", !.stable = 0]
<1>1. PICK z \in S : y = IF z.raised THEN Fail(z) ELSE z
  BY DEF Ticked, Caught
<1>2. \A r \in TickRoute(x) : r = x \/ r = Raise(x)
  <2>1. CASE x.stage = "executing"
    <3>1. TickRoute(x) = TickExecuting(x)
      BY <2>1 DEF TickRoute
    <3>2. \A r \in TickExecuting(x) : r = x \/ r = Raise(x)
      BY DEF TickExecuting, UnderWay
    <3> QED BY <3>1, <3>2
  <2>2. CASE x.stage = "acquire"
    BY <2>2 DEF TickRoute
  <2> QED BY <2>1, <2>2 DEF UnderWay
<1>3. Guard(x) => x.stage = "executing"
  BY DEF Guard, Docking, Looking, Healthy, UnderWay
<1>4. ASSUME x.stage = "executing"
      PROVE  \A r \in TickDocking(x) : r = Raise(x) \/ r = b \/ r \in TickRoute(x)
  <2> HIDE DEF b
  <2> QED BY <1>4 DEF TickDocking, b
<1>5. z = x \/ z = Raise(x) \/ z = b
  <2>1. \/ z \in TickRoute(x) \/ z = Raise(x)
        \/ x.stage = "executing" /\ z \in TickDocking(x)
    BY <1>1, <1>3 DEF UnderWay
  <2> HIDE DEF b, S
  <2> QED BY <1>2, <1>4, <2>1
<1>6. /\ Node(z) /\ UnderWay(z) /\ z.cmd = x.cmd /\ z.cmdOk = x.cmdOk
  <2> HIDE DEF S
  <2>1. CASE z = x
    BY <2>1
  <2>2. CASE z = Raise(x)
    BY <2>2 DEF Node, Fields, UnderWay, Raise
  <2>3. CASE z = b
    BY <2>3 DEF Node, Fields, UnderWay
  <2> QED BY <1>5, <2>1, <2>2, <2>3
<1> HIDE DEF S, b
<1>7. CASE z.raised
  BY <1>1, <1>6, <1>7, FailFacts DEF UnderWay
<1> QED BY <1>1, <1>6, <1>7

\* What a step of a sequence that did not send a path leaves of one under way
Attends(x) ==
  Busy => \/ UnderWay(x) /\ x.cmd = n.cmd /\ x.cmdOk = n.cmdOk
          \/ Stopping(x)

LEMMA LeavesStep ==
  ASSUME Inv, NEW x, Leaves(x), Meets(n, x), Attends(x) PROVE Inv'
<1>0. /\ n' = x /\ Node(x) /\ x.mode = n.mode /\ m'.run = m.run /\ m'.mode = m.mode
      /\ m'.bumped = m.bumped /\ m'.last \in {m.last, "none"}
      /\ DOMAIN m' = DOMAIN m /\ DOMAIN arm' = DOMAIN arm /\ arm'.moved = arm.moved
      /\ arm'.planned = (CASE x.stage = "idle" -> FALSE
           [] x.stage \in {"planning", "checking"} /\ n.stage \notin {"planning", x.stage}
              -> ~arm.moved
           [] OTHER -> arm.planned)
      /\ shots' = IF x.stage \notin Looking \/ n.stage \notin Looking \/ x.step # n.step
                  THEN 0 ELSE shots
  BY DEF Leaves, Meets, Silent, Published, Inv, Shape
<1>1. Shape'
  BY <1>0 DEF Inv, Shape
<1>2. ASSUME Busy PROVE MotionInv' /\ StartInv'
  <2>1. (UnderWay(x) /\ x.cmd = n.cmd /\ x.cmdOk = n.cmdOk) \/ Stopping(x)
    BY <1>2 DEF Attends
  <2>2. MotionInv'
    BY <1>0, <1>2, <2>1 DEF Inv, MotionInv, UnderWay, Stopping
  <2>3. Pending' => Pending /\ x.stage \in {"executing", "acquire"}
    BY <1>0, <2>1 DEF Pending, UnderWay, Stopping
  <2>4. x.stage \notin Prep
    BY <2>1 DEF UnderWay, Stopping, Prep
  <2>5. StartInv'
    BY <1>0, <2>3, <2>4 DEF Inv, StartInv
  <2> QED BY <2>2, <2>5
<1>3. ASSUME ~Busy, Silent(n, x) PROVE MotionInv' /\ StartInv'
  <2>1. ~Busy' /\ ~Pending'
    BY <1>0, <1>3 DEF Busy, Pending, Silent
  <2>2. MotionInv'
    BY <1>0, <2>1 DEF Inv, MotionInv
  <2>3. x.stage \in Prep /\ x.same /\ ~arm.moved => arm'.planned
    <3> SUFFICES ASSUME x.stage \in Prep, x.same, ~arm.moved PROVE arm'.planned
      OBVIOUS
    <3>1. \/ x.stage \in {"planning", "checking"} /\ n.stage \notin {"planning", x.stage}
          \/ n.stage \in Prep /\ n.same
      BY DEF Meets, Prepared
    <3>2. n.stage \in Prep /\ n.same => arm.planned
      BY DEF Inv, StartInv
    <3>3. x.stage # "idle"
      BY DEF Prep
    <3> QED BY <1>0, <3>1, <3>2, <3>3
  <2>4. StartInv'
    BY <1>0, <2>1, <2>3 DEF Inv, StartInv
  <2> QED BY <2>2, <2>4
<1>4. ASSUME ~Busy, Published(n, x) PROVE MotionInv' /\ StartInv'
  <2>1. m'.last = "none"
    BY <1>4 DEF Leaves, Published, Inv, Shape
  <2>2. Busy' => ~m.bumped /\ m.mode = "tool_auto"
    BY <1>0, <1>4 DEF Busy, Pending, Published, Inv, MotionInv
  <2>3. MotionInv'
    BY <1>0, <1>4, <2>1, <2>2 DEF Inv, MotionInv, UnderWay, Published
  <2>4. Pending' => arm.planned
    <3>1. Pending' => m.mode = "tool_auto"
      BY <2>2 DEF Busy
    <3>2. n.stage \in Prep /\ n.same
      BY <1>4 DEF Published, Prep
    <3> QED BY <3>1, <3>2 DEF Inv, StartInv
  <2>5. arm'.planned = arm.planned /\ x.stage \notin Prep
    BY <1>0, <1>4 DEF Published, Prep
  <2>6. StartInv'
    BY <1>0, <2>4, <2>5 DEF Inv, StartInv
  <2> QED BY <2>3, <2>6
<1>5. ImagesInv'
  <2>1. Samples \in Nat \ {0} /\ shots \in 0 .. Samples
    BY SequenceAssumption DEF Inv, ImagesInv
  <2>2. shots' \in 0 .. Samples
    BY <1>0, <2>1
  <2> SUFFICES ASSUME x.stage \in Looking
               PROVE  /\ x.stable \in 0 .. shots'
                      /\ x.obs = "new" => x.stable < shots' \/ shots' = Samples
    BY <1>0, <2>2 DEF ImagesInv
  <2>3. CASE x.stable = 0 /\ x.obs # "new"
    BY <2>2, <2>3
  <2>4. CASE ~(x.stable = 0 /\ x.obs # "new")
    <3>1. /\ n.stage \in Looking /\ x.step = n.step
          /\ \/ x.obs = n.obs /\ x.stable \in {0, n.stable}
             \/ /\ n.obs = "new" /\ x.obs = "seen"
                /\ x.stable = IF n.stable < Samples THEN n.stable + 1 ELSE n.stable
      BY <2>4 DEF Meets, Sampled
    <3>2. shots' = shots
      BY <1>0, <3>1
    <3>3. /\ n.stable \in 0 .. shots
          /\ n.obs = "new" => n.stable < shots \/ shots = Samples
      BY <3>1 DEF Inv, ImagesInv
    <3>4. CASE x.obs = n.obs /\ x.stable \in {0, n.stable}
      <4>1. x.stable \in 0 .. shots /\ x.stable <= n.stable
        BY <2>1, <3>3, <3>4
      <4>2. n.stable < shots \/ shots = Samples => x.stable < shots \/ shots = Samples
        BY <2>1, <3>3, <4>1
      <4> QED BY <3>2, <3>3, <3>4, <4>1, <4>2
    <3>5. CASE /\ n.obs = "new" /\ x.obs = "seen"
               /\ x.stable = IF n.stable < Samples THEN n.stable + 1 ELSE n.stable
      <4>1. n.stable < shots \/ shots = Samples
        BY <3>3, <3>5
      <4>2. x.stable \in 0 .. shots
        BY <2>1, <3>3, <3>5, <4>1
      <4> QED BY <3>2, <3>5, <4>2
    <3> QED BY <3>1, <3>4, <3>5
  <2> QED BY <2>3, <2>4
<1> QED BY <1>1, <1>2, <1>3, <1>4, <1>5 DEF Meets, Inv

LEMMA TickStep == ASSUME Inv, Tick PROVE Inv'
<1>1. PICK x \in Ticked(n) : Leaves(x) /\ n.stage # "idle"
  BY DEF Tick
<1>2. Meets(n, x)
  BY <1>1, TickedFacts DEF Leaves, Inv, Shape
<1>3. Attends(x)
  <2> SUFFICES ASSUME Busy
               PROVE \/ UnderWay(x) /\ x.cmd = n.cmd /\ x.cmdOk = n.cmdOk
                     \/ Stopping(x)
    BY DEF Attends
  <2>1. UnderWay(n) /\ ~m.bumped
    BY <1>1 DEF Inv, MotionInv, Stopping
  <2> QED BY <1>1, <2>1, BusyTick DEF Inv, Shape, Stopping
<1> QED BY <1>1, <1>2, <1>3, LeavesStep

LEMMA RequestStep == ASSUME Inv, Request PROVE Inv'
<1>1. PICK x \in Requested(n) : Leaves(x)
  BY DEF Request
<1>2. Goes(n, x) /\ n.stage = "idle" /\ n.cmd = "none"
  BY <1>1, RequestedFacts DEF Request, Quiet, Inv, Shape
<1>3. Meets(n, x)
  BY <1>2 DEF Goes, Afresh, Meets, Sampled, Prepared, Prep
<1>4. Attends(x)
  BY <1>2 DEF Attends, Inv, MotionInv, UnderWay, Stopping
<1> QED BY <1>1, <1>3, <1>4, LeavesStep

LEMMA CancelStep == ASSUME Inv, Cancel PROVE Inv'
<1>1. Silent(n, Fail(n)) /\ Fail(n).stage = "idle"
  BY FailFacts DEF Inv, Shape
<1>2. Meets(n, Fail(n))
  BY <1>1 DEF Meets, Sampled, Prepared, Looking, Prep
<1>3. Attends(Fail(n))
  <2> SUFFICES ASSUME Busy PROVE Stopping(Fail(n))
    BY DEF Attends
  <2>1. n.exec /\ ~m.bumped
    BY DEF Inv, MotionInv, UnderWay, Stopping, Cancel
  <2> QED BY <1>1, <2>1, FailFacts DEF Inv, Shape, Stopping
<1> QED BY <1>2, <1>3, LeavesStep DEF Cancel

-----------------------------------------------------------------------------
(* What the node hears *)

\* A message that says nothing of the path, the place or a new image
LEMMA HeardStep ==
  ASSUME Inv, Node(n'), UNCHANGED <<m, arm, shots>>,
         n'.stage = n.stage, n'.exec = n.exec, n'.last = n.last,
         n'.mode \in {n.mode, "stale"}, n'.cmd = n.cmd, n'.cmdOk = n.cmdOk,
         n'.same = n.same, n'.stable = n.stable, n'.obs = n.obs \/ n'.obs # "new"
  PROVE  Inv'
<1>1. Shape'
  BY DEF Inv, Shape
<1>2. (Busy' <=> Busy) /\ (Pending' <=> Pending)
  BY DEF Busy, Pending
<1>3. /\ UnderWay(n) => UnderWay(n')
      /\ Stopping(n) => Stopping(n')
  BY DEF UnderWay, Stopping
<1>4. MotionInv'
  BY <1>2, <1>3 DEF Inv, MotionInv
<1>5. StartInv'
  BY <1>2 DEF Inv, StartInv
<1>6. ImagesInv'
  BY DEF Inv, ImagesInv
<1> QED BY <1>1, <1>4, <1>5, <1>6 DEF Inv

LEMMA MessageStep ==
  ASSUME Inv, \/ Joy \/ Late \/ Over \/ Silence \/ ImageAges \/ Answer
              \/ OnDocked \/ OnDockingStatus \/ Pulse \/ Latch \/ LatchTurns \/ Operator
              \/ UNCHANGED vars
  PROVE  Inv'
<1> USE DEF Inv, Shape, Node
<1>1. CASE Joy
  <2>1. /\ \E v \in BOOLEAN : n' = [n EXCEPT !.l2 = v]
        /\ UNCHANGED <<m, arm, shots>>
    BY <1>1 DEF Joy, Learns
  <2> QED BY <2>1, HeardStep DEF Fields
<1>2. CASE Late
  <2>1. n' = [n EXCEPT !.late = TRUE] /\ UNCHANGED <<m, arm, shots>>
    BY <1>2 DEF Late, Learns
  <2> QED BY <2>1, HeardStep DEF Fields
<1>3. CASE Over
  <2>1. n' = [n EXCEPT !.over = TRUE] /\ UNCHANGED <<m, arm, shots>>
    BY <1>3 DEF Over, Learns
  <2> QED BY <2>1, HeardStep DEF Fields
<1>4. CASE Silence
  <2>1. n' = [n EXCEPT !.mode = "stale"] /\ UNCHANGED <<m, arm, shots>>
    BY <1>4 DEF Silence, Learns
  <2> QED BY <2>1, HeardStep DEF Fields
<1>5. CASE ImageAges
  <2>1. n' = [n EXCEPT !.obs = "stale"] /\ UNCHANGED <<m, arm, shots>>
    BY <1>5 DEF ImageAges, Learns
  <2> QED BY <2>1, HeardStep DEF Fields
<1>6. CASE Answer
  <2>1. /\ \E a \in {"ok", "bad"} : n' = [n EXCEPT !.answer = a]
        /\ UNCHANGED <<m, arm, shots>>
    BY <1>6 DEF Answer, Learns
  <2> QED BY <2>1, HeardStep DEF Fields
<1>7. CASE OnDocked
  <2>1. /\ n' = n \/ n' = [n EXCEPT !.docked = mail.docked, !.heard = n.stage # "idle"]
        /\ UNCHANGED <<m, arm, shots>>
    BY <1>7 DEF OnDocked
  <2>2. CASE n' = n
    BY <2>1, <2>2, HeardStep
  <2>3. CASE n' = [n EXCEPT !.docked = mail.docked, !.heard = n.stage # "idle"]
    BY <2>1, <2>3, HeardStep DEF Fields
  <2> QED BY <2>1, <2>2, <2>3
<1>8. CASE OnDockingStatus
  <2>1. /\ \E h, d : n' = [n EXCEPT !.status = mail.status, !.heard = h, !.docked = d]
        /\ UNCHANGED <<m, arm, shots>>
    BY <1>8 DEF OnDockingStatus
  <2> QED BY <2>1, HeardStep DEF Fields
<1>9. CASE Pulse
  <2>1. n' = [n EXCEPT !.pulse = "none"] /\ UNCHANGED <<m, arm, shots>>
    BY <1>9 DEF Pulse
  <2> QED BY <2>1, HeardStep DEF Fields
<1>10. CASE Latch \/ LatchTurns \/ Operator \/ UNCHANGED vars
  <2>1. n' = n /\ UNCHANGED <<m, arm, shots>>
    BY <1>10 DEF Latch, LatchTurns, Operator, vars
  <2> QED BY <2>1, HeardStep
<1> QED BY <1>1, <1>2, <1>3, <1>4, <1>5, <1>6, <1>7, <1>8, <1>9, <1>10

LEMMA StatusStep == ASSUME Inv, Status PROVE Inv'
<1>1. /\ Node(n') /\ n'.mode = View(m.mode)
      /\ n'.last = (IF n.exec THEN m.last ELSE "none")
      /\ n'.stage = n.stage /\ n'.exec = n.exec /\ n'.cmd = n.cmd /\ n'.cmdOk = n.cmdOk
      /\ n'.same = n.same /\ n'.stable = n.stable /\ n'.obs = n.obs
  BY DEF Status, Inv, Shape, Node, Fields
<1>2. /\ DOMAIN m' = DOMAIN m /\ m'.mode = m.mode /\ m'.run = m.run /\ m'.last = m.last
      /\ ~m'.bumped /\ UNCHANGED <<arm, shots>>
  BY DEF Status, Inv, Shape
<1>3. Shape'
  BY <1>1, <1>2 DEF Inv, Shape
<1>4. (Busy' <=> Busy) /\ (Pending' <=> Pending)
  BY <1>1, <1>2 DEF Busy, Pending
<1>5. /\ View("tool_auto") = "tool_auto"
      /\ n'.mode = "tool_auto" => m.mode = "tool_auto"
  BY <1>1 DEF View
<1>6. ASSUME Busy PROVE UnderWay(n') \/ Stopping(n')
  <2>1. m.mode = "tool_auto" /\ m.last = "none" /\ (UnderWay(n) \/ Stopping(n))
    BY <1>6 DEF Inv, MotionInv
  <2> QED BY <1>1, <1>5, <2>1 DEF UnderWay, Stopping
<1>7. MotionInv'
  BY <1>2, <1>4, <1>5, <1>6 DEF Inv, MotionInv
<1>8. StartInv' /\ ImagesInv'
  BY <1>1, <1>2, <1>4 DEF Inv, StartInv, ImagesInv
<1> QED BY <1>3, <1>7, <1>8 DEF Inv

LEMMA StateStep == ASSUME Inv, State PROVE Inv'
<1>1. /\ Node(n') /\ n'.same = (n.same /\ ~arm.moved)
      /\ n'.mode = n.mode /\ n'.last = n.last
      /\ n'.stage = n.stage /\ n'.exec = n.exec /\ n'.cmd = n.cmd /\ n'.cmdOk = n.cmdOk
      /\ n'.stable = n.stable /\ n'.obs = n.obs
  BY DEF State, Inv, Shape, Node, Fields
<1>2. /\ DOMAIN arm' = DOMAIN arm /\ ~arm'.moved /\ arm'.planned = arm.planned
      /\ UNCHANGED <<m, shots>>
  BY DEF State, Inv, Shape
<1>3. (Busy' <=> Busy) /\ (Pending' <=> Pending)
  BY <1>1, <1>2 DEF Busy, Pending
<1>4. MotionInv'
  BY <1>1, <1>2, <1>3 DEF Inv, MotionInv, UnderWay, Stopping
<1>5. StartInv' /\ ImagesInv' /\ Shape'
  BY <1>1, <1>2, <1>3 DEF Inv, StartInv, ImagesInv, Shape
<1> QED BY <1>4, <1>5 DEF Inv

LEMMA ImageStep == ASSUME Inv, Image PROVE Inv'
<1>1. \E o \in {"new", "early"} :
        /\ n' = [n EXCEPT !.obs = o]
        /\ o = "new" => shots' = IF shots < Samples THEN shots + 1 ELSE shots
        /\ o # "new" => shots' = shots
  BY DEF Image
<1>2. /\ Node(n') /\ UNCHANGED <<m, arm>>
      /\ n'.stage = n.stage /\ n'.exec = n.exec /\ n'.last = n.last
      /\ n'.mode = n.mode /\ n'.cmd = n.cmd /\ n'.cmdOk = n.cmdOk
      /\ n'.same = n.same /\ n'.stable = n.stable
      /\ n'.obs = "new" => shots' = IF shots < Samples THEN shots + 1 ELSE shots
      /\ n'.obs # "new" => shots' = shots
  BY <1>1 DEF Image, Inv, Shape, Node, Fields
<1>3. (Busy' <=> Busy) /\ (Pending' <=> Pending)
  BY <1>2 DEF Busy, Pending
<1>4. MotionInv'
  BY <1>2, <1>3 DEF Inv, MotionInv, UnderWay, Stopping
<1>5. StartInv' /\ Shape'
  BY <1>2, <1>3 DEF Inv, StartInv, Shape
<1>6. ImagesInv'
  <2>1. Samples \in Nat \ {0} /\ shots \in 0 .. Samples
    BY SequenceAssumption DEF Inv, ImagesInv
  <2>2. CASE n'.obs = "new"
    <3>1. shots' = IF shots < Samples THEN shots + 1 ELSE shots
      BY <1>2, <2>2
    <3>2. n'.stage \in Looking => n'.stable \in 0 .. shots
      BY <1>2 DEF Inv, ImagesInv
    <3>3. shots' \in 0 .. Samples /\ (shots < shots' \/ shots' = Samples) /\ shots <= shots'
      BY <2>1, <3>1
    <3> QED BY <2>1, <3>2, <3>3 DEF ImagesInv
  <2>3. CASE n'.obs # "new"
    <3>1. shots' = shots
      BY <1>2, <2>3
    <3> QED BY <1>2, <2>3, <3>1 DEF Inv, ImagesInv
  <2> QED BY <2>2, <2>3
<1> QED BY <1>4, <1>5, <1>6 DEF Inv

-----------------------------------------------------------------------------
(* The manager *)

\* A mode is left or taken: whatever was under way is over, and the node has yet to
\* learn of it.
LEMMA ChangeStep ==
  ASSUME Inv, NEW mode, mode # "tool_auto", Change(mode), Node(n'), shots' = shots,
         n'.stage = n.stage, n'.mode = n.mode, ~n'.cmdOk,
         n'.same = n.same, n'.stable = n.stable, n'.obs = n.obs
  PROVE  Inv'
<1>1. /\ DOMAIN m' = {"mode", "last", "run", "bumped"} /\ m'.run = "none" /\ m'.mode = mode
      /\ n.mode = "tool_auto" => m'.bumped
  BY DEF Change, Bumped
<1>2. \/ arm' = arm
      \/ DOMAIN arm' = {"at", "moved", "planned"} /\ arm'.moved /\ ~arm'.planned
  BY DEF Change
<1>3. ~Busy' /\ ~Pending'
  BY <1>1 DEF Busy, Pending
<1>4. Shape' /\ MotionInv' /\ ImagesInv'
  BY <1>1, <1>2, <1>3 DEF Inv, Shape, MotionInv, ImagesInv
<1>5. StartInv'
  BY <1>1, <1>2, <1>3 DEF Inv, StartInv
<1> QED BY <1>4, <1>5 DEF Inv

LEMMA TakeCallStep == ASSUME Inv, NEW call, TakeCall(call) PROVE Inv'
<1>1. /\ Node(n') /\ n'.stage = n.stage /\ n'.mode = n.mode /\ n'.same = n.same
      /\ n'.stable = n.stable /\ n'.obs = n.obs /\ n'.cmd = n.cmd /\ n'.exec = n.exec
      /\ n'.last = n.last /\ shots' = shots
      /\ n'.cmdOk = (n.cmdOk /\ m.mode = "unfit")
  BY DEF TakeCall, Inv, Shape, Node, Fields
<1>2. CASE m.mode = "unfit"
  <2>1. UNCHANGED <<m, arm>> /\ ~Busy
    BY <1>2 DEF TakeCall, Inv, MotionInv
  <2>2. ~Busy' /\ ~Pending' /\ ~Pending
    BY <1>1, <1>2, <2>1 DEF Busy, Pending
  <2>3. Shape' /\ MotionInv'
    BY <1>1, <2>1, <2>2 DEF Inv, Shape, MotionInv
  <2>4. StartInv' /\ ImagesInv'
    BY <1>1, <2>1, <2>2 DEF Inv, StartInv, ImagesInv
  <2> QED BY <2>3, <2>4 DEF Inv
<1>3. CASE m.mode # "unfit"
  <2>1. PICK mode \in {"entering", "leaving"} : Change(mode)
    BY <1>3 DEF TakeCall
  <2>2. ~n'.cmdOk
    BY <1>1, <1>3
  <2> QED BY <1>1, <2>1, <2>2, ChangeStep
<1> QED BY <1>2, <1>3

LEMMA TakeCommandStep == ASSUME Inv, TakeCommand PROVE Inv'
<1>1. /\ Node(n') /\ n'.stage = n.stage /\ n'.mode = n.mode /\ n'.same = n.same
      /\ n'.stable = n.stable /\ n'.obs = n.obs /\ n'.cmd = "none" /\ n'.exec = n.exec
      /\ n'.last = n.last /\ shots' = shots /\ ~n'.cmdOk
  BY DEF TakeCommand, Inv, Shape, Node, Fields
<1>2. CASE Change("leaving")
  BY <1>1, <1>2, ChangeStep
<1>3. CASE UNCHANGED <<m, arm>> /\ (n.cmd = "stop" => ~(n.cmdOk /\ m.run # "none"))
  <2>1. Busy' => Busy /\ m.run # "none"
    BY <1>1, <1>3 DEF Busy, Pending
  <2>2. ~Pending'
    BY <1>1 DEF Pending
  <2>3. Busy' => UnderWay(n')
    BY <1>1, <1>3, <2>1 DEF Inv, MotionInv, UnderWay, Stopping
  <2>4. Shape' /\ MotionInv'
    BY <1>1, <1>3, <2>1, <2>3 DEF Inv, Shape, MotionInv
  <2>5. StartInv' /\ ImagesInv'
    BY <1>1, <1>3, <2>2 DEF Inv, StartInv, ImagesInv
  <2> QED BY <2>4, <2>5 DEF Inv
<1>4. CASE /\ n.cmd \notin {"none", "stop"} /\ n.cmdOk /\ m.mode = "tool_auto"
           /\ m' = [m EXCEPT !.run = n.cmd, !.last = "none"] /\ UNCHANGED arm
  <2>1. Busy /\ ~Pending'
    BY <1>1, <1>4 DEF Busy, Pending
  <2>2. UnderWay(n) /\ ~m.bumped
    BY <1>4, <2>1 DEF Inv, MotionInv, Stopping
  <2>3. /\ DOMAIN m' = DOMAIN m /\ m'.mode = m.mode /\ m'.last = "none" /\ ~m'.bumped
    BY <1>4, <2>2 DEF Inv, Shape
  <2>4. UnderWay(n')
    BY <1>1, <2>2 DEF UnderWay
  <2>5. Shape' /\ MotionInv'
    BY <1>1, <1>4, <2>3, <2>4 DEF Inv, Shape, MotionInv
  <2>6. StartInv' /\ ImagesInv'
    BY <1>1, <1>4, <2>1, <2>3 DEF Inv, StartInv, ImagesInv
  <2> QED BY <2>5, <2>6 DEF Inv
<1>5. \/ Change("leaving")
      \/ UNCHANGED <<m, arm>> /\ (n.cmd = "stop" => ~(n.cmdOk /\ m.run # "none"))
      \/ /\ n.cmd \notin {"none", "stop"} /\ n.cmdOk /\ m.mode = "tool_auto"
         /\ m' = [m EXCEPT !.run = n.cmd, !.last = "none"] /\ UNCHANGED arm
  BY DEF TakeCommand
<1> QED BY <1>2, <1>3, <1>4, <1>5

LEMMA SettleStep == ASSUME Inv, Settle PROVE Inv'
<1>1. PICK mode \in {"tool_auto", "hold"} :
        /\ m.mode \in {"entering", "leaving"} /\ m' = [m EXCEPT !.mode = mode]
        /\ ~arm.moved /\ UNCHANGED <<n, arm, shots>>
  BY DEF Settle
<1>2. ~Busy /\ ~Pending
  BY <1>1 DEF Inv, MotionInv, Busy
<1>3. /\ DOMAIN m' = DOMAIN m /\ m'.run = m.run /\ m'.bumped = m.bumped /\ m'.mode = mode
  BY <1>1 DEF Inv, Shape
<1>4. ~Busy' /\ ~Pending'
  BY <1>1, <1>2, <1>3 DEF Busy, Pending
<1>5. ~(n.mode = "tool_auto" /\ ~m.bumped)
  BY <1>1 DEF Inv, MotionInv
<1>6. Shape' /\ MotionInv'
  BY <1>1, <1>3, <1>4, <1>5 DEF Inv, Shape, MotionInv
<1>7. StartInv' /\ ImagesInv'
  BY <1>1, <1>4 DEF Inv, StartInv, ImagesInv
<1> QED BY <1>6, <1>7 DEF Inv

LEMMA RunEndsStep == ASSUME Inv, RunEnds PROVE Inv'
<1>1. /\ Node(n') /\ n'.stage = n.stage /\ n'.mode = n.mode /\ n'.same = n.same
      /\ n'.stable = n.stable /\ n'.obs = n.obs /\ shots' = shots /\ ~n'.cmdOk
  BY DEF RunEnds, Inv, Shape, Node, Fields
<1>2. /\ DOMAIN m' = {"mode", "last", "run", "bumped"} /\ m'.run = "none"
      /\ m'.mode \in {"leaving", "hold"} /\ (n.mode = "tool_auto" => m'.bumped)
      /\ DOMAIN arm' = {"at", "moved", "planned"} /\ arm'.moved
  <2>1. PICK ok \in BOOLEAN :
          /\ m' = [mode |-> IF ok THEN "leaving" ELSE "hold", run |-> "none",
                   bumped |-> Bumped,
                   last |-> IF ~n.exec THEN m.last ELSE IF ok THEN "ok" ELSE "bad"]
          /\ arm' = [at |-> IF ok THEN m.run ELSE "away", moved |-> TRUE, planned |-> FALSE]
    BY DEF RunEnds
  <2>2. /\ DOMAIN m' = {"mode", "last", "run", "bumped"} /\ m'.run = "none"
        /\ m'.mode \in {"leaving", "hold"} /\ m'.bumped = Bumped
    BY <2>1
  <2>3. DOMAIN arm' = {"at", "moved", "planned"} /\ arm'.moved
    BY <2>1
  <2> QED BY <2>2, <2>3 DEF Bumped
<1>3. ~Busy' /\ ~Pending'
  BY <1>1, <1>2 DEF Busy, Pending
<1>4. Shape' /\ MotionInv'
  BY <1>1, <1>2, <1>3 DEF Inv, Shape, MotionInv
<1>5. StartInv' /\ ImagesInv'
  BY <1>1, <1>2, <1>3 DEF Inv, StartInv, ImagesInv
<1> QED BY <1>4, <1>5 DEF Inv

LEMMA StrangerStep == ASSUME Inv, Stranger \/ StrangerGoes PROVE Inv'
<1>1. /\ Node(n') /\ n'.stage = n.stage /\ n'.mode = n.mode /\ n'.same = n.same
      /\ n'.stable = n.stable /\ n'.obs = n.obs /\ shots' = shots /\ ~n'.cmdOk
  BY DEF Stranger, StrangerGoes, Inv, Shape, Node, Fields
<1>2. PICK mode \in {"other", "leaving", "unfit"} : Change(mode)
  BY DEF Stranger, StrangerGoes
<1> QED BY <1>1, <1>2, ChangeStep

LEMMA MovesStep == ASSUME Inv, Moves PROVE Inv'
<1>1. /\ m.mode \in {"other", "hold"} /\ UNCHANGED <<n, m, shots>>
      /\ DOMAIN arm' = {"at", "moved", "planned"} /\ arm'.moved
  BY DEF Moves
<1>2. ~Busy
  BY <1>1 DEF Inv, MotionInv
<1>3. ~Busy' /\ ~Pending'
  BY <1>1, <1>2 DEF Busy, Pending
<1>4. Shape' /\ MotionInv'
  BY <1>1, <1>3 DEF Inv, Shape, MotionInv
<1>5. StartInv' /\ ImagesInv'
  BY <1>1, <1>3 DEF Inv, StartInv, ImagesInv
<1> QED BY <1>4, <1>5 DEF Inv

LEMMA InvStep == ASSUME Inv, [Next]_vars PROVE Inv'
  BY TickStep, RequestStep, CancelStep, MessageStep, StatusStep, StateStep, ImageStep,
     TakeCallStep, TakeCommandStep, SettleStep, RunEndsStep, StrangerStep, MovesStep
     DEF Next, Hears, Manager

LEMMA InvAlways == Spec => []Inv
  BY InvStart, InvStep, PTL DEF Spec

-----------------------------------------------------------------------------
(* What the node promises *)

\* A path that runs is in the hands of a sequence, or of its cancel: the handlers go on
\* only after the manager has reported the end of a path, and all give up by fail.
THEOREM MotionAttended == Spec => []MotionIsAttended
<1>1. Inv => MotionIsAttended
  BY DEF Inv, MotionInv, Busy, UnderWay, Stopping, MotionIsAttended
<1> QED BY InvAlways, <1>1, PTL

\* An image that counts came after the look began and is then marked as seen, so the
\* samples are never more than the images taken since the stop.
THEOREM SamplesCounted == Spec => []SamplesAreImages
<1>1. Inv => SamplesAreImages
  BY SequenceAssumption DEF Inv, ImagesInv, SamplesAreImages
<1> QED BY InvAlways, <1>1, PTL

\* The node sees every move before the manager settles, and the manager takes no path
\* of an epoch that has passed, so the arm is where it was when the path was planned.
THEOREM PathsStartWherePlanned == Spec => StartsWherePlanned
<1> DEFINE Step == m.run = "none" /\ m'.run # "none" => arm.planned
<1>1. Inv /\ [Next]_vars => [Step]_vars
  <2> SUFFICES ASSUME Inv, Next, m.run = "none", m'.run # "none" PROVE arm.planned
    OBVIOUS
  <2>1. CASE TakeCommand
    <3>1. Pending \/ m'.run = m.run
      BY <2>1 DEF TakeCommand, Change, Pending
    <3> QED BY <3>1 DEF Inv, StartInv
  <2>2. CASE \E call \in n.calls : TakeCall(call)
    BY <2>2 DEF TakeCall, Change
  <2>3. CASE Settle \/ Status
    <3>1. m'.run = m.run
      BY <2>3 DEF Settle, Status, Inv, Shape
    <3> QED BY <3>1
  <2>4. CASE RunEnds \/ Stranger \/ StrangerGoes
    BY <2>4 DEF RunEnds, Stranger, StrangerGoes, Change
  <2>5. CASE Tick \/ Request \/ Cancel
    <3>1. m' = m \/ m' = [m EXCEPT !.last = "none"]
      BY <2>5 DEF Tick, Request, Cancel, Leaves
    <3>2. m'.run = m.run
      BY <3>1 DEF Inv, Shape
    <3> QED BY <3>2
  <2>6. CASE \/ Joy \/ Late \/ Over \/ Silence \/ State \/ Image \/ ImageAges \/ OnDocked
             \/ OnDockingStatus \/ Answer \/ Moves \/ Pulse \/ Latch \/ LatchTurns
             \/ Operator
    <3>1. m' = m
      BY <2>6 DEF Joy, Late, Over, Silence, State, Image, ImageAges, OnDocked,
         OnDockingStatus, Answer, Moves, Pulse, Latch, LatchTurns, Operator, Learns
    <3> QED BY <3>1
  <2> QED BY <2>1, <2>2, <2>3, <2>4, <2>5, <2>6 DEF Next, Hears, Manager
<1>2. Spec => [][Step]_vars
  BY InvAlways, <1>1, PTL DEF Spec
<1> QED BY <1>2 DEF StartsWherePlanned
=============================================================================
