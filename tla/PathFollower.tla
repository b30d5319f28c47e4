----------------------------- MODULE PathFollower -----------------------------
(***************************************************************************)
(* return_path_follower_node: pure pursuit along /return_path, which stops *)
(* at every sharp corner and turns in place, holds before a landmark that  *)
(* should have been seen, and answers the mission's resume requests.       *)
(*                                                                         *)
(* Headings are points of a circle of Circle steps; a path is the sequence *)
(* of its vertices' headings.  Positions stay open: the vertex nearest to  *)
(* the robot may be any of the searched window, the next corner may be     *)
(* reached or not.  Speeds are counted in ramp steps.  One unit of time is *)
(* a period of the control timer; timestamps are kept as ages.             *)
(***************************************************************************)
EXTENDS Integers, Sequences, FiniteSetsExt

CONSTANTS Circle,        \* heading steps in a full turn
          Routes,        \* the /return_path messages the mission may send
          Headings,      \* headings the odometry may report
          Origins,       \* heading of the mission origins that may be published
          Corrections,   \* heading of the visual corrections
          Stamps,        \* their ages on arrival
          MissionStates, \* what /mission/return/state may announce
          LandmarkCount, \* landmarks, numbered in the order of the route
          LandmarkRecovery, \* enable_landmark_recovery
          ReverseDrive,  \* reverse_drive
          CornerAngle, EnterAngle, ExitAngle, \* in heading steps
          MinSpeed, Speed, Turn,              \* in ramp steps
          MinRotate, MaxRotate,
          OdomTimeout, RotateSettle, MissWait, StampFresh

Recording == {"MANUAL_RECORDING", "WAIT_RETURN_COMMAND"}
Following == "FOLLOW_RETURN_PATH"

Yaws == 0 .. Circle - 1
Landmarks == 1 .. LandmarkCount
None == -1

ASSUME FollowerAssumption ==
  /\ Circle \in Nat /\ Circle > 1 /\ Circle % 2 = 0
  /\ Routes \subseteq Seq(Yaws) /\ Headings \subseteq Yaws
  /\ Origins \subseteq Yaws /\ Corrections \subseteq Yaws
  /\ LandmarkCount \in Nat
  /\ LandmarkRecovery \in BOOLEAN /\ ReverseDrive \in BOOLEAN
  /\ {CornerAngle, EnterAngle, ExitAngle, OdomTimeout, RotateSettle,
      StampFresh, Turn} \subseteq Nat
  /\ 0 < MinSpeed /\ MinSpeed <= Speed /\ 0 < MinRotate /\ MinRotate <= MaxRotate
  /\ {MinSpeed, Speed, MinRotate, MaxRotate} \subseteq Nat
  /\ MissWait \in Nat \ {0}
  /\ Stamps \subseteq 0 .. StampFresh

VARIABLES
  mission,     \* _mission_state, "" before any
  path,        \* _path
  ptr,         \* _corner_ptr: how many corners are handled
  progress,    \* _progress_index, counted from 1
  floor,       \* _floor, counted from 1
  drive,       \* _mode, _rotating_corner, _rotate_target_yaw, _v_cmd, _w_cmd
  cmd,         \* the last /cmd_vel_return_path
  odom,        \* heading of _odom_pose (age.odom = None: never set)
  origin,      \* heading of _origin, or None
  correction,  \* heading of _visual_correction, or None
  age,         \* _last_odom_time, _rotate_settle_since, _origin_received_at
  watch,       \* _landmark_watch: references, seen, attempted and near_since
  hold,        \* _landmark_hold
  granted      \* the mission may go on to FOLLOW_RETURN_PATH: it has sent a path,
               \* or got a ready answer, in the state it has announced last

vars == <<mission, path, ptr, progress, floor, drive, cmd, odom, origin,
          correction, age, watch, hold, granted>>

Stopped == [v |-> 0, w |-> 0]
NewDrive == [mode |-> "TRACK_PATH", corner |-> None, target |-> None,
             v |-> 0, w |-> 0]
NewWatch == [references |-> {}, seen |-> {}, attempted |-> {},
             near |-> [l \in Landmarks |-> None]]

Init ==
  /\ mission = "" /\ path = <<>> /\ ptr = 0 /\ progress = 1 /\ floor = 1
  /\ drive = NewDrive /\ cmd = Stopped
  /\ odom = 0 /\ origin = None /\ correction = None
  /\ age = [odom |-> None, settle |-> None, origin |-> 0]
  /\ watch = NewWatch /\ hold = None /\ granted = FALSE

-----------------------------------------------------------------------------
(* Headings, corners and the search window *)

Norm(d) == LET m == d % Circle
           IN  IF m > Circle \div 2 THEN m - Circle ELSE m
AbsVal(d) == IF d < 0 THEN -d ELSE d

\* _corners: the vertices where the path turns sharply; how many lie before one
Corners == {i \in 2 .. Len(path) - 1 :
              AbsVal(Norm(path[i] - path[i-1])) >= CornerAngle}
Rank(c) == Cardinality({d \in Corners : d < c})

\* _next_corner: the first of those not handled, None when all are
NextCorner == IF \E c \in Corners : Rank(c) = ptr
              THEN CHOOSE c \in Corners : Rank(c) = ptr ELSE None
Hi == IF NextCorner # None THEN NextCorner ELSE Len(path)
Lo == Max({floor, progress - 1})

\* _target_heading: what the body faces at vertex i
Heading(i) == IF ReverseDrive THEN (path[i] + Circle \div 2) % Circle ELSE path[i]

\* The heading in the mission frame, through the correction if there is one
Facing == IF correction # None THEN (odom + correction) % Circle
                               ELSE (odom - origin) % Circle

Ramp(from, to) == CASE to > from -> from + 1
                    [] to < from -> from - 1
                    [] OTHER     -> from

Resting(d) == [d EXCEPT !.v = 0, !.w = 0]

-----------------------------------------------------------------------------
(* Subscriptions *)

\* variant: the progress on the previous path is kept
KeepProgress == UNCHANGED progress
RestartProgress == progress' = 1

OnReturnPath(p) ==
  /\ path' = p
  /\ ptr' = 0 /\ RestartProgress /\ floor' = 1
  /\ drive' = NewDrive
  /\ age' = [age EXCEPT !.settle = None]
  /\ correction' = None
  /\ granted' = TRUE
  /\ UNCHANGED <<mission, cmd, odom, origin, watch, hold>>

OnOdom(yaw) ==
  /\ odom' = yaw
  /\ age' = [age EXCEPT !.odom = 0]
  /\ UNCHANGED <<mission, path, ptr, progress, floor, drive, cmd, origin,
                 correction, watch, hold, granted>>

OnOrigin(o) ==
  /\ origin' = o
  /\ correction' = IF o = origin THEN correction ELSE None
  /\ age' = [age EXCEPT !.origin = IF o = origin THEN @ ELSE 0]
  /\ UNCHANGED <<mission, path, ptr, progress, floor, drive, cmd, odom, watch,
                 hold, granted>>

\* A correction stamped s periods ago; it interrupts a rotation.
OnVisualCorrection(c, s) ==
  /\ origin # None /\ s <= age.origin
  /\ correction' = c
  /\ drive' = [Resting(drive) EXCEPT !.mode = "TRACK_PATH"]
  /\ age' = [age EXCEPT !.settle = None]
  /\ UNCHANGED <<mission, path, ptr, progress, floor, cmd, odom, origin, watch,
                 hold, granted>>

OnReferenceLoaded(l) ==
  /\ mission \in Recording
  /\ watch' = [watch EXCEPT !.references = @ \cup {l}]
  /\ UNCHANGED <<mission, path, ptr, progress, floor, drive, cmd, odom, origin,
                 correction, age, hold, granted>>

OnLocalized(l) ==
  /\ mission \notin Recording \cup {"IDLE"}
  /\ watch' = [watch EXCEPT !.seen = @ \cup {l}]
  /\ UNCHANGED <<mission, path, ptr, progress, floor, drive, cmd, odom, origin,
                 correction, age, hold, granted>>

RestOnChange(s) == IF s # mission THEN Resting(drive) ELSE drive

OnMissionState(s) ==
  /\ mission' = s
  /\ LET fresh == IF s \in Recording /\ mission \notin Recording
                  THEN NewWatch ELSE watch
     IN  watch' = IF s = Following THEN fresh
                  ELSE [fresh EXCEPT !.near = [l \in Landmarks |-> None]]
  /\ hold' = IF s = Following THEN hold ELSE None
  /\ drive' = RestOnChange(s)
  /\ age' = [age EXCEPT !.settle = IF s = mission THEN @ ELSE None]
  /\ granted' = (granted /\ s = mission)
  /\ UNCHANGED <<path, ptr, progress, floor, cmd, odom, origin, correction>>

Fresh(a) == a.odom # None /\ a.odom <= OdomTimeout

\* variant: a rotation goes on after the resume
ResumeRotation == Resting(drive)
ResumeTracking == NewDrive

\* onRoute: the pose is close enough to what remains before the next corner.
OnResumeRequest(onRoute) ==
  /\ mission = "RETURN_RESUME_STOP"
  /\ IF Len(path) >= 2 /\ origin # None /\ Fresh(age) /\ onRoute
     THEN /\ granted' = TRUE
          /\ drive' = ResumeTracking
          /\ age' = [age EXCEPT !.settle = None]
     ELSE granted' = FALSE /\ UNCHANGED <<drive, age>>
  /\ UNCHANGED <<mission, path, ptr, progress, floor, cmd, odom, origin,
                 correction, watch, hold>>

-----------------------------------------------------------------------------
(* LandmarkWatch.missed, with the landmarks 1 .. near ahead closer than the  *)
(* window or behind, and 1 .. passed behind by more than it.                 *)

Later(a, bound) == IF a # None /\ a < bound THEN a + 1 ELSE a

Candidates == watch.references \ (watch.seen \cup watch.attempted)

Aged == [odom   |-> Later(age.odom, OdomTimeout + 1),
         settle |-> Later(age.settle, RotateSettle),
         origin |-> Later(age.origin, StampFresh)]
AgedNear == [l \in Landmarks |-> Later(watch.near[l], MissWait)]

\* The landmark to report, the first of the route, or None
Missed(passed, near) ==
  LET due == {l \in Candidates : l <= near /\ (l <= passed \/ AgedNear[l] = MissWait)}
  IN  IF due = {} THEN None ELSE Min(due)

Attempt(l) == IF l = None THEN {} ELSE {l}

WatchAfter(l, near) ==
  [watch EXCEPT
     !.attempted = @ \cup Attempt(l),
     !.near = [k \in Landmarks |->
        CASE k \notin Candidates \/ (l # None /\ k > l) -> AgedNear[k]
          [] OTHER -> IF k > near THEN None
                      ELSE IF AgedNear[k] = None THEN 0 ELSE AgedNear[k]]]

-----------------------------------------------------------------------------
(* The control timer *)

TickIdle ==
  /\ mission # Following
  /\ drive' = Resting(drive)
  /\ UNCHANGED <<ptr, progress, floor, hold>>

TickWaiting ==
  /\ mission = Following
  /\ Len(path) < 2 \/ age.odom = None \/ origin = None
  /\ UNCHANGED <<ptr, progress, floor, drive, hold>>

CanFollow == mission = Following /\ Len(path) >= 2 /\ origin # None

\* Stale odometry: back to tracking, but with the speeds of the last command.
TickStale ==
  /\ CanFollow /\ age.odom # None /\ ~Fresh(Aged)
  /\ drive' = [drive EXCEPT !.mode = "TRACK_PATH"]
  /\ UNCHANGED <<ptr, progress, floor, hold>>

\* All that publish zero, and the landmark hold, look no further.
TickStanding ==
  /\ TickIdle \/ TickWaiting \/ TickStale
  /\ cmd' = Stopped /\ age' = Aged
  /\ watch' = [watch EXCEPT !.near = AgedNear]

Advance(near) == progress' = Max({progress, near})

\* A landmark should have been seen, now or since an earlier tick.
TickHeld(nearest, passed, near) ==
  LET l == IF hold # None THEN hold
           ELSE IF LandmarkRecovery THEN Missed(passed, near) ELSE None
  IN  /\ l # None
      /\ Advance(nearest)
      /\ hold' = l
      /\ watch' = IF hold # None THEN [watch EXCEPT !.near = AgedNear]
                                 ELSE WatchAfter(l, near)
      /\ drive' = Resting(drive) /\ cmd' = Stopped /\ age' = Aged
      /\ UNCHANGED <<ptr, floor>>

EnterRotate(target, corner) ==
  [mode |-> "ROTATE_TO_PATH", corner |-> corner, target |-> target,
   v |-> 0, w |-> 0]

\* The drive after the checks that may start a rotation: the corner ahead is
\* reached, or the robot faces away from the segment it is on.
Checked(nearest, reached) ==
  LET before  == IF NextCorner # None THEN Min({nearest, NextCorner - 1}) ELSE nearest
      segment == Max({floor, before})
      askew   == AbsVal(Norm(Heading(segment) - Facing)) > EnterAngle
  IN  CASE drive.mode = "TRACK_PATH" /\ NextCorner # None /\ reached ->
             EnterRotate(Heading(NextCorner), NextCorner)
        [] drive.mode = "TRACK_PATH" /\ ~(NextCorner # None /\ reached) /\ askew ->
             EnterRotate(Heading(segment), None)
        [] OTHER -> drive

\* Toward a lookahead point in the window, slowing down near its end
Track(d) ==
  /\ d.mode = "TRACK_PATH"
  /\ \E v \in MinSpeed .. Speed, w \in -Turn .. Turn :
        LET new == [d EXCEPT !.v = Ramp(@, IF ReverseDrive THEN -v ELSE v),
                             !.w = Ramp(@, w)]
        IN  drive' = new /\ cmd' = [v |-> new.v, w |-> new.w]
  /\ age' = Aged
  /\ UNCHANGED <<ptr, floor>>

\* In place, until the heading is held for RotateSettle periods
Rotate(d) ==
  LET error   == Norm(d.target - Facing)
      since   == IF d = drive THEN Aged.settle ELSE None
      settled == AbsVal(error) <= ExitAngle /\ since = RotateSettle
  IN
  /\ d.mode = "ROTATE_TO_PATH"
  /\ \E r \in MinRotate .. MaxRotate :
        LET w == Ramp(d.w, IF error = 0 THEN 0 ELSE IF error > 0 THEN r ELSE -r)
        IN  /\ cmd' = [v |-> 0, w |-> w]
            /\ drive' = IF settled
                        THEN [d EXCEPT !.mode = "TRACK_PATH", !.v = 0, !.w = 0,
                                       !.corner = None]
                        ELSE [d EXCEPT !.v = 0, !.w = w]
  /\ age' = [Aged EXCEPT !.settle =
               CASE AbsVal(error) > ExitAngle \/ settled -> None
                 [] OTHER -> IF since = None THEN 0 ELSE since]
  /\ IF settled /\ d.corner # None
     THEN ptr' = ptr + 1 /\ floor' = d.corner
     ELSE UNCHANGED <<ptr, floor>>

TickFollowing ==
  /\ CanFollow /\ Fresh(Aged)
  /\ \E nearest \in Lo .. Hi, reached \in BOOLEAN, near \in 0 .. LandmarkCount :
     \E passed \in 0 .. near :
        \/ TickHeld(nearest, passed, near)
        \/ /\ hold = None
           /\ LandmarkRecovery => Missed(passed, near) = None
           /\ watch' = IF LandmarkRecovery THEN WatchAfter(None, near)
                       ELSE [watch EXCEPT !.near = AgedNear]
           /\ Advance(nearest)
           /\ LET d == Checked(nearest, reached) IN Track(d) \/ Rotate(d)
           /\ UNCHANGED hold

Tick ==
  /\ TickStanding \/ TickFollowing
  /\ UNCHANGED <<mission, path, odom, origin, correction, granted>>

-----------------------------------------------------------------------------
\* The mission follows once it has sent a path, and resumes only on a ready
\* answer of this node.  (The path and the announcement are separate topics;
\* here the path comes first.)
MissionSays(s) ==
  /\ s = Following /\ mission # Following => granted
  /\ OnMissionState(s)

Message ==
  \/ \E p \in Routes : OnReturnPath(p)
  \/ \E yaw \in Headings : OnOdom(yaw)
  \/ \E o \in Origins : OnOrigin(o)
  \/ \E c \in Corrections, s \in Stamps : OnVisualCorrection(c, s)
  \/ \E l \in Landmarks : OnReferenceLoaded(l) \/ OnLocalized(l)
  \/ \E s \in MissionStates : MissionSays(s)
  \/ \E r \in BOOLEAN : OnResumeRequest(r)

Next == Tick \/ Message

Spec == Init /\ [][Next]_vars

-----------------------------------------------------------------------------
(* What the follower promises *)

Drive == [mode : {"TRACK_PATH", "ROTATE_TO_PATH"},
          corner : Nat \cup {None}, target : Yaws \cup {None},
          v : Int, w : Int]

TypeOK ==
  /\ mission \in MissionStates \cup {""}
  /\ path \in Seq(Yaws) /\ ptr \in Nat /\ progress \in Nat /\ floor \in Nat
  /\ drive \in Drive /\ cmd \in [v : Int, w : Int]
  /\ drive.mode = "ROTATE_TO_PATH" => drive.target \in Yaws
  /\ odom \in Yaws
  /\ origin \in Yaws \cup {None} /\ correction \in Yaws \cup {None}
  /\ age \in [odom : Nat \cup {None}, settle : Nat \cup {None}, origin : Nat]
  /\ watch \in [references : SUBSET Landmarks, seen : SUBSET Landmarks,
                attempted : SUBSET Landmarks,
                near : [Landmarks -> Nat \cup {None}]]
  /\ hold \in Landmarks \cup {None}
  /\ granted \in BOOLEAN

\* The window of vertices a tick searches starts at the corner handled last,
\* ends at the next one, and always holds the segment the robot is on: the
\* nearest vertex is found ahead of the floor and never beyond the corner.
WindowOpen ==
  Len(path) >= 2 =>
    /\ IF ptr = 0 THEN floor = 1 ELSE floor \in Corners /\ Rank(floor) = ptr - 1
    /\ Lo < Hi /\ progress <= Hi
    /\ drive.mode = "ROTATE_TO_PATH" /\ drive.corner # None
       => drive.corner = NextCorner

\* The speeds the ramp starts from after an interruption are zero.
StartsFromRest == mission # Following => drive.v = 0 /\ drive.w = 0
=============================================================================
