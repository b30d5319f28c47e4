---------------------------- MODULE ReturnMission ----------------------------
(***************************************************************************)
(* return_state_machine_node: the mission state machine of the manual      *)
(* recording -> autonomous return, and the only publisher of               *)
(* /cmd_vel_return.  One action per callback and one per arm of _tick;     *)
(* callbacks run to completion on a single-threaded executor.              *)
(*                                                                         *)
(* Time.  One unit is one period of the 20 Hz control timer.  A stored     *)
(* timestamp is kept as its age in periods, cut off just above the largest *)
(* bound it is compared with; Tick ages every timestamp and then runs the  *)
(* handler of the current state.                                           *)
(***************************************************************************)
EXTENDS YawSearch, SequencesExt

CONSTANTS Waypoints,      \* poses a recorded path is made of
          Origins,        \* mission origins the recorder may publish
          Surroundings,   \* what the other nodes may send: see Surrounding
          TurnSign,       \* +1 for turn_direction 'left', -1 for 'right'
          TurnBound,      \* bound on the rotation accumulated in TURN_180
          MinWaypoints,   \* min_waypoints_for_return
          StopSettle, TurnSettle, OdomTimeout, FollowTimeout, FinishedHold,
          EmergencyHold, ResumeTimeout, ResumeRepeat,
          StampFresh,     \* 2.0 s: oldest stamp a visual message may carry
          FrameGrace,     \* 3.0 s: a search may wait this long for a frame
          FrameTimeout    \* 2.5 s: oldest camera frame a search tolerates

Active == {"RETURN_LANDMARK_SEARCH", "STOP_BEFORE_TURN", "TURN_180",
           "FOLLOW_RETURN_PATH", "RETURN_MANUAL", "RETURN_RESUME_STOP",
           "RETURN_INTERVENTION"}
States == Active \cup {"IDLE", "MANUAL_RECORDING", "WAIT_RETURN_COMMAND",
                       "FINISHED"}

\* still: |vx| and |wz| are below the stop thresholds;  near: the pose, taken
\* to the mission frame, is within goal_tolerance_m of the end of the path.
Odometry == [yaw : Yaws, still : BOOLEAN, near : BOOLEAN]

Timers == {"state", "odom", "stop", "turn", "follow", "emergency", "asked",
           "search", "hold", "frame", "commit", "match", "visual", "origin"}

Ages == [Timers -> Nat \cup {None}]
Trigger == [pending : BOOLEAN, prev : BOOLEAN]
Presses == [record : Trigger, return : Trigger]

Larger(a, b) == IF a > b THEN a ELSE b

\* The age at which a timer stops counting: one above the largest bound it is
\* compared with.
Cap == [t \in Timers |->
  CASE t = "state"     -> Larger(ResumeTimeout, FinishedHold) + 1
    [] t = "odom"      -> OdomTimeout + 1
    [] t = "stop"      -> StopSettle
    [] t = "turn"      -> TurnSettle
    [] t = "follow"    -> FollowTimeout + 1
    [] t = "emergency" -> EmergencyHold
    [] t = "asked"     -> ResumeRepeat
    [] t = "search"    -> Larger(SearchTimeout, FrameGrace + 1)
    [] t = "hold"      -> Larger(SearchDwell, StopSettle)
    [] t = "frame"     -> FrameTimeout + 1
    [] t = "commit"    -> StampFresh
    [] t = "match"     -> SearchDwell + 1  \* a match lives within one dwell
    [] t = "visual"    -> SearchDwell + 1
    [] t = "origin"    -> StampFresh]

\* What the other nodes of one robot may send, and how the mission was launched.
Surrounding(e) ==
  /\ e.odoms \subseteq Odometry            \* odometry samples
  /\ e.paths \subseteq Seq(Waypoints)      \* messages on /recorded_path
  /\ e.origins \subseteq Origins
  /\ e.stamps \subseteq 0 .. StampFresh    \* ages of visual messages on arrival;
                                          \* {}: the visual node is not running
  /\ e.buttons \subseteq BOOLEAN           \* what the UI publishes on its triggers
  /\ e.commands \subseteq {"zero", "move"} \* what the follower may command
  /\ e.reverse \in BOOLEAN                 \* parameter reverse_return
  /\ e.recovery \in BOOLEAN                \* the follower reports missed landmarks

ASSUME MissionAssumption ==
  /\ \A e \in Surroundings : Surrounding(e)
  /\ \A o \in Origins : o # "none"
  /\ TurnSign \in {1, -1}
  /\ TurnBound \in Nat
  /\ MinWaypoints \in Nat
  /\ {StopSettle, TurnSettle, OdomTimeout, FollowTimeout, FinishedHold,
      EmergencyHold, ResumeTimeout, ResumeRepeat, StampFresh, FrameGrace,
      FrameTimeout} \subseteq Nat

VARIABLES
  env,         \* the surroundings of this behaviour, which do not change
  state,       \* _state
  told,        \* the last message on /mission/return/state, "" before any
  out,         \* what the last /cmd_vel_return message asks for
  alive,       \* FALSE once rclpy.shutdown() has been called
  emergency,   \* _emergency_stop_active
  age,         \* every stored timestamp, as an age
  odom,        \* _odom_pose, _odom_vx, _odom_wz (age.odom = None: never set)
  origin,      \* _origin
  corrected,   \* _visual_correction is not None
  press,       \* the pending and previous flag of the two UI triggers
  recorded,    \* _recorded_path
  returnPath,  \* _return_path
  command,     \* the last message on /manual_path_recorder/command
  turn,        \* _turn_prev_yaw and _turn_accum
  search,      \* _search
  searchPub,   \* the latched message on /visual_landmark/search_request
  requested,   \* _resume_request is not None
  follow,      \* _follow_cmd
  gated        \* _auto_follow_after is set and no follow command came since

vars == <<env, state, told, out, alive, emergency, age, odom, origin, corrected,
          press, recorded, returnPath, command, turn, search, searchPub,
          requested, follow, gated>>

NoPress == [pending |-> FALSE, prev |-> FALSE]

Init ==
  /\ env \in Surroundings
  /\ state = "IDLE" /\ told = "" /\ out = "zero"
  /\ alive = TRUE /\ emergency = FALSE
  /\ age = [t \in Timers |-> IF t \in {"state", "origin"} THEN 0 ELSE None]
  /\ odom = [yaw |-> 0, still |-> TRUE, near |-> FALSE]
  /\ origin = "none" /\ corrected = FALSE
  /\ press = [record |-> NoPress, return |-> NoPress]
  /\ recorded = <<>> /\ returnPath = <<>> /\ command = "none"
  /\ turn = [prev |-> 0, accum |-> 0]
  /\ search = NewSearch(0)
  /\ searchPub = [active |-> FALSE, committed |-> FALSE]
  /\ requested = FALSE /\ follow = "zero" /\ gated = FALSE

-----------------------------------------------------------------------------
(* Helpers shared by the handlers *)

\* Every timestamp one control period later.
Aged == [t \in Timers |-> IF age[t] # None /\ age[t] < Cap[t]
                            THEN age[t] + 1 ELSE age[t]]

Within(a, bound) == a # None /\ a <= bound
Reached(a, bound) == a # None /\ a >= bound

StillWhateverTheAge(ages) == ages.odom # None /\ odom.still
\* _resume_still, with the ages of the moment
Still(ages) == Within(ages.odom, OdomTimeout) /\ odom.still

\* A zero Twist on /cmd_vel_return
NoHalt == UNCHANGED out
Halt == out' = "zero"

\* _resume_request = None
KeepRequest == UNCHANGED requested
DropRequest == requested' = FALSE

\* _publish_search_request, on the way into and out of a search
OnlyAnnounceEntry(new, ages) ==
  searchPub' = IF new = "RETURN_LANDMARK_SEARCH"
               THEN [active |-> TRUE, committed |-> ages.commit # None]
               ELSE searchPub
AnnounceSearch(new, ages) ==
  searchPub' = IF "RETURN_LANDMARK_SEARCH" \in {state, new}
               THEN [active |-> new = "RETURN_LANDMARK_SEARCH",
                     committed |-> ages.commit # None]
               ELSE searchPub

\* _go_to, for a change of state: restart the state clock, and forget what the
\* entered state must not inherit.  p holds the trigger flags before the call.
GoTo(new, ages, p) ==
  /\ state' = new
  /\ age' = [ages EXCEPT
               !.state = 0,
               !.origin = IF new = "MANUAL_RECORDING" THEN 0 ELSE @]
  /\ corrected' = (corrected /\ new # "MANUAL_RECORDING")
  /\ press' = [record |-> IF new = "IDLE" THEN NoPress ELSE p.record,
               return |-> IF new = "WAIT_RETURN_COMMAND"
                          THEN [p.return EXCEPT !.prev = FALSE] ELSE p.return]
  /\ AnnounceSearch(new, ages)

\* The handler stays in the state it found.
Stay(ages) == age' = ages /\ UNCHANGED <<state, corrected, press, searchPub>>

\* _build_and_publish_return_path
Build == returnPath' = Reverse(recorded)

-----------------------------------------------------------------------------
(* Subscriptions *)

OnOdom(o) ==
  /\ odom' = o
  /\ age' = [age EXCEPT !.odom = 0]
  /\ UNCHANGED <<state, told, out, alive, emergency, origin, corrected, press,
                 recorded, returnPath, command, turn, search, searchPub,
                 requested, follow, gated>>

Pressed(p, v) == [pending |-> p.pending \/ (v /\ ~p.prev), prev |-> v]

OnRecordTrigger(v) ==
  /\ press' = [press EXCEPT !.record = Pressed(@, v)]
  /\ UNCHANGED <<state, told, out, alive, emergency, age, odom, origin,
                 corrected, recorded, returnPath, command, turn, search,
                 searchPub, requested, follow, gated>>

OnReturnTrigger(v) ==
  /\ press' = [press EXCEPT !.return = Pressed(@, v)]
  /\ UNCHANGED <<state, told, out, alive, emergency, age, odom, origin,
                 corrected, recorded, returnPath, command, turn, search,
                 searchPub, requested, follow, gated>>

\* Repeats of the stop do not restart its hold.
FirstStopOnly == ~emergency /\ age' = [age EXCEPT !.emergency = 0]

OnEmergencyStop ==
  /\ FirstStopOnly
  /\ emergency' = TRUE
  /\ Halt
  /\ UNCHANGED <<state, told, alive, odom, origin, corrected, press, recorded,
                 returnPath, command, turn, search, searchPub, requested,
                 follow, gated>>

\* A new origin invalidates the visual correction made against the old one.
OnOrigin(o) ==
  /\ origin' = o
  /\ corrected' = (corrected /\ o = origin)
  /\ age' = [age EXCEPT !.origin = IF o = origin THEN @ ELSE 0]
  /\ UNCHANGED <<state, told, out, alive, emergency, odom, press, recorded,
                 returnPath, command, turn, search, searchPub, requested,
                 follow, gated>>

OnRecordedPath(p) ==
  /\ recorded' = p
  /\ UNCHANGED <<state, told, out, alive, emergency, age, odom, origin,
                 corrected, press, returnPath, command, turn, search,
                 searchPub, requested, follow, gated>>

OnFollowCmd(c) ==
  /\ follow' = c
  /\ age' = [age EXCEPT !.follow = 0]
  /\ gated' = FALSE
  /\ UNCHANGED <<state, told, out, alive, emergency, odom, origin, corrected,
                 press, recorded, returnPath, command, turn, search,
                 searchPub, requested>>

\* A correction stamped s periods ago, not before the origin it refers to.
OnVisualCorrection(s) ==
  /\ origin # "none"
  /\ s <= age.origin
  /\ corrected' = TRUE
  /\ age' = [age EXCEPT !.visual = s]
  /\ UNCHANGED <<state, told, out, alive, emergency, odom, origin, press,
                 recorded, returnPath, command, turn, search, searchPub,
                 requested, follow, gated>>

\* The follower reports a landmark it should have seen.
OnLandmarkMissed ==
  /\ env.recovery
  /\ state = "FOLLOW_RETURN_PATH" /\ ~emergency
  /\ age.odom # None
  /\ search' = NewSearch(odom.yaw)
  /\ Halt
  /\ GoTo("RETURN_LANDMARK_SEARCH",
          [age EXCEPT !.search = 0, !.hold = None, !.commit = None,
                      !.match = None], press)
  /\ told' = "RETURN_LANDMARK_SEARCH"
  /\ UNCHANGED <<alive, emergency, odom, origin, recorded, returnPath,
                 command, turn, requested, follow, gated>>

\* localization_event 'frame', stamped s periods ago
OnFrame(s) ==
  /\ age' = [age EXCEPT !.frame = s]
  /\ UNCHANGED <<state, told, out, alive, emergency, odom, origin, corrected,
                 press, recorded, returnPath, command, turn, search,
                 searchPub, requested, follow, gated>>

\* localization_event 'candidate' for the search that is running
OnCandidate ==
  /\ state = "RETURN_LANDMARK_SEARCH"
  /\ search' = Candidate(search, age.hold, odom.yaw)
  /\ Halt
  /\ UNCHANGED <<state, told, alive, emergency, age, odom, origin, corrected,
                 press, recorded, returnPath, command, turn, searchPub,
                 requested, follow, gated>>

AnyCommit(s) == age.commit # None
SinceCommit(s) == age.commit # None /\ s <= age.commit

\* localization_event 'localized' for the search that is running: it counts
\* only if the image is not older than the stop the search has committed to.
OnLocalized(s) ==
  /\ state = "RETURN_LANDMARK_SEARCH"
  /\ SinceCommit(s)
  /\ age' = [age EXCEPT !.match = s]
  /\ UNCHANGED <<state, told, out, alive, emergency, odom, origin, corrected,
                 press, recorded, returnPath, command, turn, search,
                 searchPub, requested, follow, gated>>

\* The route is built if the pause comes before the node built it.
RebuildRoute == Build
RouteForPause == IF returnPath = <<>> THEN Build ELSE UNCHANGED returnPath

\* control_mode MANUAL: pause the mission.
OnManual ==
  /\ ~emergency
  /\ state \in Active \ {"RETURN_MANUAL"}
  /\ RouteForPause
  /\ Halt
  /\ DropRequest
  /\ gated' = FALSE
  /\ GoTo("RETURN_MANUAL", age, press)
  /\ told' = "RETURN_MANUAL"
  /\ UNCHANGED <<alive, emergency, odom, origin, recorded, command, turn,
                 search, follow>>

\* control_mode AUTO: start the resume handshake
OnAuto ==
  /\ ~emergency
  /\ state \in {"RETURN_MANUAL", "RETURN_INTERVENTION"}
  /\ Halt
  /\ DropRequest
  /\ GoTo("RETURN_RESUME_STOP", [age EXCEPT !.stop = None, !.asked = None], press)
  /\ told' = "RETURN_RESUME_STOP"
  /\ UNCHANGED <<alive, emergency, odom, origin, recorded, returnPath,
                 command, turn, search, follow, gated>>

\* resume_result for the outstanding request.  Movement or stale odometry
\* since the request voids the answer.
OnResumeResult(ready) ==
  /\ state = "RETURN_RESUME_STOP" /\ requested
  /\ DropRequest
  /\ \/ /\ ~Still(age)
        /\ Stay([age EXCEPT !.stop = None])
        /\ UNCHANGED <<told, gated>>
     \/ /\ Still(age) /\ ready
        /\ gated' = TRUE
        /\ GoTo("FOLLOW_RETURN_PATH", [age EXCEPT !.follow = None], press)
        /\ told' = "FOLLOW_RETURN_PATH"
     \/ /\ Still(age) /\ ~ready
        /\ GoTo("RETURN_INTERVENTION", age, press)
        /\ told' = "RETURN_INTERVENTION"
        /\ UNCHANGED gated
  /\ UNCHANGED <<out, alive, emergency, odom, origin, recorded, returnPath,
                 command, turn, search, follow>>

-----------------------------------------------------------------------------
(* The arms of _tick.  Each publishes the state it found, then runs with the *)
(* timestamps one period older.                                              *)

TickEmergency ==
  /\ emergency
  /\ Halt
  /\ alive' = ~Reached(Aged.emergency, EmergencyHold)
  /\ Stay(Aged)
  /\ UNCHANGED <<told, emergency, odom, origin, recorded, returnPath, command,
                 turn, search, requested, follow, gated>>

ArmInEmergency(s) == state = s /\ told' = s
\* What every arm but the emergency one has in common
Arm(s) == ~emergency /\ state = s /\ told' = s
Environment == <<alive, emergency, odom, origin, recorded, follow>>

TickIdle ==
  /\ Arm("IDLE")
  /\ IF press.record.pending /\ age.odom # None
     THEN /\ command' = "START"
          /\ GoTo("MANUAL_RECORDING", Aged,
                  [press EXCEPT !.record.pending = FALSE])
     ELSE Stay(Aged) /\ UNCHANGED command
  /\ UNCHANGED <<out, returnPath, turn, search, requested, gated, Environment>>

\* A return press that comes too early is absorbed.
NotAbsorbed == press
Absorbed == [press EXCEPT !.return.pending = FALSE]

TickManualRecording ==
  /\ Arm("MANUAL_RECORDING")
  /\ IF Len(recorded) >= MinWaypoints
     THEN GoTo("WAIT_RETURN_COMMAND", Aged, Absorbed)
     ELSE /\ age' = Aged /\ press' = Absorbed
          /\ UNCHANGED <<state, corrected, searchPub>>
  /\ UNCHANGED <<out, returnPath, command, turn, search, requested, gated,
                 Environment>>

TickWaitReturnCommand ==
  /\ Arm("WAIT_RETURN_COMMAND")
  /\ IF press.return.pending
     THEN /\ command' = "STOP"
          /\ GoTo("STOP_BEFORE_TURN", [Aged EXCEPT !.stop = None],
                  [press EXCEPT !.return.pending = FALSE])
     ELSE Stay(Aged) /\ UNCHANGED command
  /\ UNCHANGED <<out, returnPath, turn, search, requested, gated, Environment>>

TurnFromStalePrev == [turn EXCEPT !.accum = 0]
TurnFromHere == [prev |-> odom.yaw, accum |-> 0]

\* Stopped for StopSettle periods; note that the age of the odometry is not
\* looked at.
TickStopBeforeTurn ==
  /\ Arm("STOP_BEFORE_TURN")
  /\ Halt
  /\ \/ /\ ~odom.still
        /\ Stay([Aged EXCEPT !.stop = None])
        /\ UNCHANGED <<returnPath, turn>>
     \/ /\ odom.still /\ age.stop = None
        /\ Stay([Aged EXCEPT !.stop = 0])
        /\ UNCHANGED <<returnPath, turn>>
     \/ /\ odom.still /\ age.stop # None /\ Aged.stop < StopSettle
        /\ Stay(Aged)
        /\ UNCHANGED <<returnPath, turn>>
     \/ /\ odom.still /\ Reached(Aged.stop, StopSettle) /\ env.reverse
        /\ Build
        /\ GoTo("FOLLOW_RETURN_PATH", Aged, press)
        /\ UNCHANGED turn
     \/ /\ odom.still /\ Reached(Aged.stop, StopSettle) /\ ~env.reverse
        /\ turn' = TurnFromHere
        /\ GoTo("TURN_180", [Aged EXCEPT !.turn = None], press)
        /\ UNCHANGED returnPath
  /\ UNCHANGED <<command, search, requested, gated, Environment>>

\* Closed loop on the accumulated rotation; the tolerance is less than one
\* heading step.
TickTurn180 ==
  LET accum == turn.accum + Norm(odom.yaw - turn.prev)
      error == TurnSign * Half - accum
  IN
  /\ Arm("TURN_180")
  /\ AbsVal(accum) <= TurnBound
  /\ turn' = [prev |-> odom.yaw, accum |-> accum]
  /\ out' = "turn"
  /\ \/ /\ error # 0
        /\ Stay([Aged EXCEPT !.turn = None])
        /\ UNCHANGED returnPath
     \/ /\ error = 0 /\ age.turn = None
        /\ Stay([Aged EXCEPT !.turn = 0])
        /\ UNCHANGED returnPath
     \/ /\ error = 0 /\ age.turn # None /\ Aged.turn < TurnSettle
        /\ Stay(Aged)
        /\ UNCHANGED returnPath
     \/ /\ error = 0 /\ Reached(Aged.turn, TurnSettle)
        /\ Build
        /\ GoTo("FOLLOW_RETURN_PATH", Aged, press)
  /\ UNCHANGED <<command, search, requested, gated, Environment>>

\* Relay the follower while its command is fresh and, after a resume, newer
\* than the resume;  FINISHED once the pose is near the end of the path.
TickFollowReturnPath ==
  LET arrived == /\ ~gated
                 /\ returnPath # <<>> /\ age.odom # None /\ origin # "none"
                 /\ odom.near
      relayed == ~gated /\ Within(Aged.follow, FollowTimeout)
  IN
  /\ Arm("FOLLOW_RETURN_PATH")
  /\ out' = IF relayed /\ ~arrived THEN follow ELSE "zero"
  /\ IF arrived THEN GoTo("FINISHED", Aged, press) ELSE Stay(Aged)
  /\ UNCHANGED <<returnPath, command, turn, search, requested, gated,
                 Environment>>

\* The search may go on: live odometry, and a camera that delivers frames.
SearchAlive ==
  /\ Within(Aged.odom, OdomTimeout)
  /\ Aged.search > FrameGrace => Within(Aged.frame, FrameTimeout)

SearchPhase == Phase(search, Aged.search, Aged.hold, odom.yaw, odom.still)

\* _finish_search(False)
SearchFails(ages) ==
  /\ Halt
  /\ GoTo("RETURN_INTERVENTION", ages, press)
  /\ told' = "RETURN_INTERVENTION"
  /\ UNCHANGED requested

\* _finish_search(True): by way of RETURN_INTERVENTION into the resume
\* handshake, in one callback.
SearchSucceeds(ages) ==
  /\ Halt
  /\ GoTo("RETURN_RESUME_STOP", [ages EXCEPT !.stop = None, !.asked = None], press)
  /\ told' = "RETURN_RESUME_STOP"
  /\ DropRequest

TickLandmarkSearch ==
  /\ ~emergency /\ state = "RETURN_LANDMARK_SEARCH"
  /\ LET phase   == SearchPhase
         hold    == HoldAfter(phase, Aged.hold)
         settled == phase = "observing" /\ hold >= StopSettle
         ages    == [Aged EXCEPT
                       !.hold = hold,
                       !.commit = IF ~settled THEN None
                                  ELSE IF @ = None THEN 0 ELSE @,
                       !.match = IF ~settled /\ age.commit # None
                                 THEN None ELSE @]
     IN \/ /\ ~SearchAlive
           /\ SearchFails(Aged)
           /\ UNCHANGED search
        \/ /\ SearchAlive /\ phase \in Failed
           /\ SearchFails([Aged EXCEPT !.hold = hold])
           /\ UNCHANGED search
        \/ /\ SearchAlive /\ phase \notin Failed
           /\ search' = SearchAfter(search, phase)
           /\ \/ /\ settled /\ ages.match # None /\ ages.visual = ages.match
                 /\ Still(ages)
                 /\ SearchSucceeds(ages)
              \/ /\ ~(/\ settled /\ ages.match # None
                      /\ ages.visual = ages.match /\ Still(ages))
                 /\ out' = IF phase = "turning" THEN "search" ELSE "zero"
                 /\ told' = state
                 /\ age' = ages
                 /\ searchPub' = IF (ages.commit = None) # (age.commit = None)
                                 THEN [active |-> TRUE,
                                       committed |-> ages.commit # None]
                                 ELSE searchPub
                 /\ UNCHANGED <<state, corrected, press, requested>>
  /\ UNCHANGED <<returnPath, command, turn, gated, Environment>>

TimedOutIfAsked == requested /\ Aged.state > ResumeTimeout
ResumeTimedOut == Aged.state > ResumeTimeout

TickResumeStop ==
  /\ Arm("RETURN_RESUME_STOP")
  /\ Halt
  /\ \/ /\ ResumeTimedOut
        /\ DropRequest
        /\ GoTo("RETURN_INTERVENTION", Aged, press)
     \/ /\ ~ResumeTimedOut /\ ~Still(Aged)
        /\ DropRequest
        /\ Stay([Aged EXCEPT !.stop = None])
     \/ /\ ~ResumeTimedOut /\ Still(Aged) /\ age.stop = None
        /\ Stay([Aged EXCEPT !.stop = 0])
        /\ UNCHANGED requested
     \/ /\ ~ResumeTimedOut /\ Still(Aged)
        /\ age.stop # None /\ Aged.stop < StopSettle
        /\ Stay(Aged)
        /\ UNCHANGED requested
     \/ /\ ~ResumeTimedOut /\ Still(Aged)
        /\ Reached(Aged.stop, StopSettle)
        /\ requested' = TRUE
        /\ Stay([Aged EXCEPT !.asked =
                   IF ~requested \/ @ = None \/ @ >= ResumeRepeat THEN 0 ELSE @])
  /\ UNCHANGED <<returnPath, command, turn, search, gated, Environment>>

TickPaused ==
  /\ ~emergency /\ state \in {"RETURN_MANUAL", "RETURN_INTERVENTION"}
  /\ told' = state
  /\ Halt
  /\ Stay(Aged)
  /\ UNCHANGED <<returnPath, command, turn, search, requested, gated,
                 Environment>>

TickFinished ==
  /\ Arm("FINISHED")
  /\ Halt
  /\ IF Aged.state >= FinishedHold
     THEN /\ command' = "CLEAR"
          /\ returnPath' = <<>>
          /\ GoTo("IDLE", Aged, press)
     ELSE Stay(Aged) /\ UNCHANGED <<command, returnPath>>
  /\ UNCHANGED <<turn, search, requested, gated, Environment>>

Tick ==
  /\ alive
  /\ \/ TickEmergency \/ TickIdle \/ TickManualRecording
     \/ TickWaitReturnCommand \/ TickStopBeforeTurn \/ TickTurn180
     \/ TickFollowReturnPath \/ TickLandmarkSearch \/ TickResumeStop
     \/ TickPaused \/ TickFinished

\* What arrives from the other nodes
Message ==
  /\ alive
  /\ \/ \E o \in env.odoms : OnOdom(o)
     \/ OnEmergencyStop
     \/ \E o \in env.origins : OnOrigin(o)
     \/ \E p \in env.paths : OnRecordedPath(p)
     \/ \E c \in env.commands : OnFollowCmd(c)
     \/ \E s \in env.stamps :
           OnVisualCorrection(s) \/ OnFrame(s) \/ OnLocalized(s)
     \/ OnLandmarkMissed \/ OnCandidate
     \/ OnManual \/ OnAuto
     \/ \E r \in BOOLEAN : OnResumeResult(r)

\* What the operator's buttons send
Button == alive /\ \E v \in env.buttons : OnRecordTrigger(v) \/ OnReturnTrigger(v)

\* After rclpy.shutdown() the node is gone.
Shutdown == ~alive /\ UNCHANGED vars

Next == (Tick \/ Message \/ Button \/ Shutdown) /\ UNCHANGED env

\* The executor serves the control timer whatever the subscriptions deliver.
Spec == Init /\ [][Next]_vars /\ WF_vars(Tick /\ UNCHANGED env)

-----------------------------------------------------------------------------
(* What the node promises *)

ControlType ==
  /\ state \in States /\ told \in States \cup {""}
  /\ out \in {"zero", "turn", "search", "move"}
  /\ alive \in BOOLEAN /\ emergency \in BOOLEAN
  /\ age \in Ages
  /\ requested \in BOOLEAN /\ gated \in BOOLEAN

InputType ==
  /\ odom \in Odometry
  /\ origin \in Origins \cup {"none"} /\ corrected \in BOOLEAN
  /\ press \in Presses
  /\ recorded \in Seq(Waypoints) /\ follow \in {"zero", "move"}

RouteType ==
  /\ returnPath \in Seq(Waypoints)
  /\ command \in {"none", "START", "STOP", "CLEAR"}
  /\ turn \in [prev : Yaws, accum : Int]
  /\ search \in Search
  /\ searchPub \in [active : BOOLEAN, committed : BOOLEAN]

TypeOK == ControlType /\ InputType /\ RouteType

\* A motion command is never the latest on /cmd_vel_return under a state that
\* was announced for another purpose: drive_cmd_mux, which goes by the
\* announcement, never holds a turn, sweep or follower command when it has
\* been told that the joystick or nobody drives.
MotionMatchesAnnouncement ==
  /\ out = "turn"   => told = "TURN_180"
  /\ out = "search" => told = "RETURN_LANDMARK_SEARCH"
  /\ out = "move"   => told = "FOLLOW_RETURN_PATH"

\* Once the emergency stop is latched nothing that arrives late -- a resume
\* answer, a sighting, a mode request -- puts motion on /cmd_vel_return again.
EmergencyMeansZero == emergency => out = "zero"

\* A resume request is outstanding only while the node is still checking the
\* stop it was made in: same state, robot at rest for the settling time.
RequestMeansSettled ==
  requested => state = "RETURN_RESUME_STOP" /\ Reached(age.stop, StopSettle)

\* The visual node's latched view of the search is the node's own: active
\* exactly while searching, with the commit stamp of the present stop.
SearchRequestAgrees ==
  /\ searchPub.active <=> state = "RETURN_LANDMARK_SEARCH"
  /\ searchPub.active => (searchPub.committed <=> age.commit # None)

\* One mission has one route: no pause, resume or landmark search rebuilds a
\* return path that is not empty; only the end of the mission drops it.
RouteKept ==
  [][returnPath # <<>> /\ state # "FINISHED" => returnPath' = returnPath]_vars

\* A landmark search ends in a resume only on an image taken after the robot
\* had been at rest for the settling time, in the stop that is going on.
EvidenceTakenAtRest ==
  [][state = "RETURN_LANDMARK_SEARCH" /\ state' = "RETURN_RESUME_STOP"
     => /\ age'.match # None /\ age'.hold # None
        /\ age'.match + StopSettle <= age'.hold]_vars

\* After a pause the mission moves on only from a stop it has confirmed, with
\* live odometry, and waits for a follower command newer than the resume.
ResumeFromRest ==
  [][state = "RETURN_RESUME_STOP" /\ state' = "FOLLOW_RETURN_PATH"
     => /\ Reached(age.stop, StopSettle) /\ Within(age.odom, OdomTimeout)
        /\ odom.still /\ gated']_vars

\* A sweep ends: found, given up, interrupted or cut off by an emergency.
SearchEnds ==
  state = "RETURN_LANDMARK_SEARCH" ~> state # "RETURN_LANDMARK_SEARCH" \/ ~alive

\* The resume check ends even when no follower ever answers.
ResumeCheckEnds ==
  state = "RETURN_RESUME_STOP" ~> state # "RETURN_RESUME_STOP" \/ ~alive
=============================================================================
