------------------------- MODULE ReturnMissionProofs -------------------------
(***************************************************************************)
(* Safety of ReturnMission for every value of its constants, and of its     *)
(* steps together with steps long before them: the turn with the heading    *)
(* it began at, a start with the press it answers.                          *)
(***************************************************************************)
EXTENDS ReturnMissionHistory, SequenceTheorems, TLAPS

-----------------------------------------------------------------------------
(* Lemmas about the operators of the specification *)

\* Ageing keeps the set timestamps set, and in their type.
LEMMA AgedType == ASSUME age \in Ages PROVE Aged \in Ages
  BY DEF Aged, Ages, None

\* A timer that has reached a bound has reached it one period later.
LEMMA AgedReached ==
  ASSUME age \in Ages, NEW t \in Timers, NEW b \in Nat, Reached(age[t], b)
  PROVE  Reached(Aged[t], b)
  BY DEF Aged, Ages, None, Reached

LEMMA NormType == ASSUME NEW d \in Int PROVE Norm(d) \in Int
  BY CircleAssumption DEF Norm, Half

LEMMA ReverseType ==
  ASSUME NEW S, NEW s \in Seq(S) PROVE Reverse(s) \in Seq(S)
  BY DEF Reverse

LEMMA NoRoute == <<>> \in Seq(Waypoints)
  BY EmptySeq

\* The types of what _go_to writes, after a handler
GoneTo == /\ state' \in States /\ age' \in Ages /\ corrected' \in BOOLEAN
          /\ press' \in Presses
          /\ searchPub' \in [active : BOOLEAN, committed : BOOLEAN]

LEMMA GoToType ==
  ASSUME TypeOK, NEW new \in States, NEW ages \in Ages, NEW p \in Presses,
         GoTo(new, ages, p)
  PROVE  GoneTo
<1>1. age' \in Ages
  BY DEF GoTo, Ages, Timers
<1>2. press' \in Presses
  BY DEF GoTo, Presses, Trigger, NoPress
<1>3. searchPub' \in [active : BOOLEAN, committed : BOOLEAN]
  BY DEF GoTo, AnnounceSearch, TypeOK, RouteType
<1> QED BY <1>1, <1>2, <1>3 DEF GoTo, GoneTo, TypeOK, InputType

LEMMA StayType == ASSUME TypeOK, NEW ages \in Ages, Stay(ages) PROVE GoneTo
  BY DEF Stay, GoneTo, TypeOK, ControlType, InputType, RouteType

\* Setting one timestamp keeps the ages in their type.
LEMMA AgesSet ==
  ASSUME NEW a \in Ages, NEW t \in Timers, NEW v \in Nat \cup {None}
  PROVE  [a EXCEPT ![t] = v] \in Ages
  BY DEF Ages

\* What may arrive has the type of where it is stored.
LEMMA InputTypes ==
  ASSUME env \in Surroundings PROVE
  /\ env.paths \subseteq Seq(Waypoints) /\ env.odoms \subseteq Odometry
  /\ env.buttons \subseteq BOOLEAN /\ env.commands \subseteq {"zero", "move"}
  /\ env.stamps \subseteq Nat /\ env.origins \subseteq Origins
  BY MissionAssumption DEF Surrounding

-----------------------------------------------------------------------------
(* Type correctness, callbacks *)

LEMMA MessageType ==
  ASSUME TypeOK, env \in Surroundings, Message \/ Button PROVE TypeOK'
<1> USE DEF Halt, DropRequest
<1>1. ASSUME NEW o \in env.odoms, OnOdom(o) PROVE TypeOK'
  <2>1. age' \in Ages
    BY <1>1, AgesSet DEF OnOdom, TypeOK, ControlType, Timers
  <2>a. ControlType'
    BY <1>1, <2>1, InputTypes DEF TypeOK, ControlType, OnOdom
  <2>b. InputType'
    BY <1>1, <2>1, InputTypes DEF TypeOK, InputType, OnOdom
  <2>c. RouteType'
    BY <1>1, <2>1, InputTypes DEF TypeOK, RouteType, OnOdom
  <2> QED BY <2>a, <2>b, <2>c DEF TypeOK
<1>2. ASSUME NEW v \in env.buttons, OnRecordTrigger(v) \/ OnReturnTrigger(v)
      PROVE  TypeOK'
  <2>1. v \in BOOLEAN
    BY InputTypes
  <2>2. Pressed(press.record, v) \in Trigger /\ Pressed(press.return, v) \in Trigger
    BY <2>1 DEF Pressed, Trigger, TypeOK, InputType, Presses
  <2>3. press' \in Presses
    BY <1>2, <2>2
       DEF TypeOK, InputType, OnRecordTrigger, OnReturnTrigger, Presses
  <2>a. ControlType'
    BY <1>2, <2>3 DEF TypeOK, ControlType, OnRecordTrigger, OnReturnTrigger
  <2>b. InputType'
    BY <1>2, <2>3 DEF TypeOK, InputType, OnRecordTrigger, OnReturnTrigger
  <2>c. RouteType'
    BY <1>2, <2>3 DEF TypeOK, RouteType, OnRecordTrigger, OnReturnTrigger
  <2> QED BY <2>a, <2>b, <2>c DEF TypeOK
<1>3. ASSUME OnEmergencyStop PROVE TypeOK'
  <2>1. age' \in Ages
    BY <1>3, AgesSet DEF OnEmergencyStop, FirstStopOnly, TypeOK, ControlType, Timers
  <2>a. ControlType'
    BY <1>3, <2>1 DEF TypeOK, ControlType, OnEmergencyStop
  <2>b. InputType'
    BY <1>3, <2>1 DEF TypeOK, InputType, OnEmergencyStop
  <2>c. RouteType'
    BY <1>3, <2>1 DEF TypeOK, RouteType, OnEmergencyStop
  <2> QED BY <2>a, <2>b, <2>c DEF TypeOK
<1>4. ASSUME NEW o \in env.origins, OnOrigin(o) PROVE TypeOK'
  <2>0. o \in Origins
    BY InputTypes
  <2>1. age' \in Ages
    BY <1>4 DEF OnOrigin, TypeOK, ControlType, Timers, Ages
  <2>a. ControlType'
    BY <1>4, <2>1 DEF TypeOK, ControlType, OnOrigin
  <2>b. InputType'
    BY <1>4, <2>0, <2>1 DEF TypeOK, InputType, OnOrigin
  <2>c. RouteType'
    BY <1>4, <2>1 DEF TypeOK, RouteType, OnOrigin
  <2> QED BY <2>a, <2>b, <2>c DEF TypeOK
<1>5. ASSUME NEW p \in env.paths, OnRecordedPath(p) PROVE TypeOK'
  <2>a. ControlType'
    BY <1>5, InputTypes DEF TypeOK, ControlType, OnRecordedPath
  <2>b. InputType'
    BY <1>5, InputTypes DEF TypeOK, InputType, OnRecordedPath
  <2>c. RouteType'
    BY <1>5, InputTypes DEF TypeOK, RouteType, OnRecordedPath
  <2> QED BY <2>a, <2>b, <2>c DEF TypeOK
<1>6. ASSUME NEW c \in env.commands, OnFollowCmd(c) PROVE TypeOK'
  <2>1. age' \in Ages
    BY <1>6, AgesSet DEF OnFollowCmd, TypeOK, ControlType, Timers
  <2>a. ControlType'
    BY <1>6, <2>1, InputTypes DEF TypeOK, ControlType, OnFollowCmd
  <2>b. InputType'
    BY <1>6, <2>1, InputTypes DEF TypeOK, InputType, OnFollowCmd
  <2>c. RouteType'
    BY <1>6, <2>1, InputTypes DEF TypeOK, RouteType, OnFollowCmd
  <2> QED BY <2>a, <2>b, <2>c DEF TypeOK
<1>7. ASSUME NEW s \in env.stamps, OnVisualCorrection(s) \/ OnFrame(s) \/ OnLocalized(s)
      PROVE  TypeOK'
  <2>1. s \in Nat
    BY InputTypes
  <2>2. age' \in Ages
    BY <1>7, <2>1, AgesSet, ZenonT(60)
       DEF OnVisualCorrection, OnFrame, OnLocalized, TypeOK, ControlType, Timers
  <2>a. ControlType'
    BY <1>7, <2>2 DEF TypeOK, ControlType, OnVisualCorrection, OnFrame, OnLocalized
  <2>b. InputType'
    BY <1>7, <2>2 DEF TypeOK, InputType, OnVisualCorrection, OnFrame, OnLocalized
  <2>c. RouteType'
    BY <1>7, <2>2 DEF TypeOK, RouteType, OnVisualCorrection, OnFrame, OnLocalized
  <2> QED BY <2>a, <2>b, <2>c DEF TypeOK
<1>8. ASSUME OnLandmarkMissed PROVE TypeOK'
  <2> DEFINE ages == [age EXCEPT !.search = 0, !.hold = None, !.commit = None,
                                 !.match = None]
  <2>1. ages \in Ages
    BY DEF TypeOK, ControlType, Ages
  <2>2. NewSearch(odom.yaw) \in Search
    BY DEF TypeOK, InputType, NewSearch, Search, Odometry
  <2>3. press \in Presses /\ "RETURN_LANDMARK_SEARCH" \in States
    BY DEF TypeOK, InputType, States, Active
  <2>4. GoTo("RETURN_LANDMARK_SEARCH", ages, press)
    BY <1>8 DEF OnLandmarkMissed
  <2> HIDE DEF ages
  <2>5. GoneTo
    BY <2>1, <2>3, <2>4, GoToType
  <2>a. ControlType'
    BY <1>8, <2>2, <2>3, <2>5 DEF TypeOK, ControlType, GoneTo, OnLandmarkMissed
  <2>b. InputType'
    BY <1>8, <2>2, <2>3, <2>5 DEF TypeOK, InputType, GoneTo, OnLandmarkMissed
  <2>c. RouteType'
    BY <1>8, <2>2, <2>3, <2>5 DEF TypeOK, RouteType, GoneTo, OnLandmarkMissed
  <2> QED BY <2>a, <2>b, <2>c DEF TypeOK
<1>9. ASSUME OnCandidate PROVE TypeOK'
  <2>1. search' \in Search
    BY <1>9 DEF TypeOK, InputType, RouteType, OnCandidate, Candidate, Search, Odometry
  <2>a. ControlType'
    BY <1>9, <2>1 DEF TypeOK, ControlType, OnCandidate
  <2>b. InputType'
    BY <1>9, <2>1 DEF TypeOK, InputType, OnCandidate
  <2>c. RouteType'
    BY <1>9, <2>1 DEF TypeOK, RouteType, OnCandidate
  <2> QED BY <2>a, <2>b, <2>c DEF TypeOK
<1>10. ASSUME OnManual PROVE TypeOK'
  <2>1. returnPath' \in Seq(Waypoints)
    BY <1>10, ReverseType
       DEF OnManual, RouteForPause, Build, TypeOK, InputType, RouteType
  <2>2. age \in Ages /\ press \in Presses /\ "RETURN_MANUAL" \in States
    BY DEF TypeOK, ControlType, InputType, States, Active
  <2>3. GoneTo
    BY <1>10, <2>2, GoToType DEF OnManual
  <2>a. ControlType'
    BY <1>10, <2>1, <2>2, <2>3 DEF TypeOK, ControlType, GoneTo, OnManual
  <2>b. InputType'
    BY <1>10, <2>1, <2>2, <2>3 DEF TypeOK, InputType, GoneTo, OnManual
  <2>c. RouteType'
    BY <1>10, <2>1, <2>2, <2>3 DEF TypeOK, RouteType, GoneTo, OnManual
  <2> QED BY <2>a, <2>b, <2>c DEF TypeOK
<1>11. ASSUME OnAuto PROVE TypeOK'
  <2> DEFINE ages == [age EXCEPT !.stop = None, !.asked = None]
  <2>1. ages \in Ages /\ press \in Presses /\ "RETURN_RESUME_STOP" \in States
    BY DEF TypeOK, ControlType, InputType, Ages, States, Active
  <2>2. GoTo("RETURN_RESUME_STOP", ages, press)
    BY <1>11 DEF OnAuto
  <2> HIDE DEF ages
  <2>3. GoneTo
    BY <2>1, <2>2, GoToType
  <2>a. ControlType'
    BY <1>11, <2>1, <2>3 DEF TypeOK, ControlType, GoneTo, OnAuto
  <2>b. InputType'
    BY <1>11, <2>1, <2>3 DEF TypeOK, InputType, GoneTo, OnAuto
  <2>c. RouteType'
    BY <1>11, <2>1, <2>3 DEF TypeOK, RouteType, GoneTo, OnAuto
  <2> QED BY <2>a, <2>b, <2>c DEF TypeOK
<1>12. ASSUME NEW r \in BOOLEAN, OnResumeResult(r) PROVE TypeOK'
  <2> DEFINE stopped == [age EXCEPT !.stop = None]
             silent  == [age EXCEPT !.follow = None]
  <2>1. /\ age \in Ages /\ stopped \in Ages /\ silent \in Ages /\ press \in Presses
        /\ "FOLLOW_RETURN_PATH" \in States /\ "RETURN_INTERVENTION" \in States
    BY DEF TypeOK, ControlType, InputType, Ages, States, Active
  <2>2. /\ told' \in States \cup {""} /\ gated' \in BOOLEAN
        /\ \/ Stay(stopped)
           \/ GoTo("FOLLOW_RETURN_PATH", silent, press)
           \/ GoTo("RETURN_INTERVENTION", age, press)
    BY <1>12, <2>1 DEF OnResumeResult, TypeOK, ControlType
  <2> HIDE DEF stopped, silent
  <2>3. GoneTo
    BY <2>1, <2>2, GoToType, StayType
  <2>a. ControlType'
    BY <1>12, <2>2, <2>3 DEF TypeOK, ControlType, GoneTo, OnResumeResult
  <2>b. InputType'
    BY <1>12, <2>2, <2>3 DEF TypeOK, InputType, GoneTo, OnResumeResult
  <2>c. RouteType'
    BY <1>12, <2>2, <2>3 DEF TypeOK, RouteType, GoneTo, OnResumeResult
  <2> QED BY <2>a, <2>b, <2>c DEF TypeOK
<1> QED
  BY <1>1, <1>2, <1>3, <1>4, <1>5, <1>6, <1>7, <1>8, <1>9, <1>10, <1>11, <1>12
     DEF Message, Button

-----------------------------------------------------------------------------
(* Type correctness, timer *)

\* The sweep leaves its record and its timers in their types.
LEMMA LandmarkSearchType == ASSUME TypeOK, TickLandmarkSearch PROVE TypeOK'
<1> USE DEF Halt, DropRequest, Environment
<1> DEFINE phase   == SearchPhase
           hold    == HoldAfter(phase, Aged.hold)
           settled == phase = "observing" /\ hold >= StopSettle
           ages    == [Aged EXCEPT
                         !.hold = hold,
                         !.commit = IF ~settled THEN None
                                    ELSE IF @ = None THEN 0 ELSE @,
                         !.match = IF ~settled /\ age.commit # None
                                   THEN None ELSE @]
           swept   == [Aged EXCEPT !.hold = hold]
           resumed == [ages EXCEPT !.stop = None, !.asked = None]
<1>1. /\ Aged \in Ages /\ press \in Presses
      /\ "RETURN_INTERVENTION" \in States /\ "RETURN_RESUME_STOP" \in States
      /\ "RETURN_LANDMARK_SEARCH" \in States
  BY AgedType DEF TypeOK, ControlType, InputType, States, Active
<1>2. hold \in Nat \cup {None}
  BY <1>1 DEF HoldAfter, Ages, Timers
<1>3. ages \in Ages /\ swept \in Ages
  BY <1>1, <1>2 DEF Ages, Timers
<1>4. resumed \in Ages
  BY <1>3 DEF Ages
<1>5. SearchAfter(search, phase) \in Search
  BY DEF SearchAfter, SearchPhase, Phase, Search, TypeOK, RouteType
<1>6. search' \in Search
  BY <1>5 DEF TickLandmarkSearch, TypeOK, RouteType
<1>7. \/ SearchFails(Aged) \/ SearchFails(swept) \/ SearchSucceeds(ages)
      \/ /\ out' \in {"search", "zero"} /\ told' = state /\ age' = ages
         /\ searchPub' = IF (ages.commit = None) # (age.commit = None)
                         THEN [active |-> TRUE, committed |-> ages.commit # None]
                         ELSE searchPub
         /\ UNCHANGED <<state, corrected, press, requested>>
  BY DEF TickLandmarkSearch
<1>8. UNCHANGED <<returnPath, command, turn, gated, alive, emergency, odom,
                  origin, recorded, follow>>
  BY DEF TickLandmarkSearch
<1> HIDE DEF phase, hold, settled, ages, swept
<1>9. /\ GoneTo /\ requested' \in BOOLEAN /\ told' \in States
      /\ out' \in {"search", "zero"}
  <2>1. CASE SearchFails(Aged) \/ SearchFails(swept)
    BY <2>1, <1>1, <1>3, GoToType DEF SearchFails, TypeOK, ControlType
  <2>2. CASE SearchSucceeds(ages)
    <3>1. GoTo("RETURN_RESUME_STOP", resumed, press)
      BY <2>2 DEF SearchSucceeds
    <3> HIDE DEF resumed
    <3> QED BY <2>2, <3>1, <1>1, <1>4, GoToType DEF SearchSucceeds
  <2>3. CASE /\ out' \in {"search", "zero"} /\ told' = state /\ age' = ages
             /\ searchPub' = IF (ages.commit = None) # (age.commit = None)
                             THEN [active |-> TRUE, committed |-> ages.commit # None]
                             ELSE searchPub
             /\ UNCHANGED <<state, corrected, press, requested>>
    BY <2>3, <1>1, <1>3
       DEF GoneTo, TypeOK, ControlType, InputType, RouteType, TickLandmarkSearch
  <2> QED BY <1>7, <2>1, <2>2, <2>3
<1>a. ControlType'
  BY <1>6, <1>8, <1>9 DEF TypeOK, ControlType, GoneTo
<1>b. InputType'
  BY <1>6, <1>8, <1>9 DEF TypeOK, InputType, GoneTo
<1>c. RouteType'
  BY <1>6, <1>8, <1>9 DEF TypeOK, RouteType, GoneTo
<1> QED BY <1>a, <1>b, <1>c DEF TypeOK

LEMMA TickType == ASSUME TypeOK, Tick PROVE TypeOK'
<1> USE DEF Halt, DropRequest, Environment
<1>0. /\ age \in Ages /\ Aged \in Ages /\ press \in Presses
  BY AgedType DEF TypeOK, ControlType, InputType
<1>s. \A s \in Active \cup {"IDLE", "MANUAL_RECORDING", "WAIT_RETURN_COMMAND",
                            "FINISHED"} : s \in States
  BY DEF States
<1>1. ASSUME TickEmergency PROVE TypeOK'
  <2>1. GoneTo
    BY <1>1, <1>0, StayType DEF TickEmergency
  <2>a. ControlType'
    BY <1>1, <2>1 DEF TypeOK, ControlType, GoneTo, TickEmergency
  <2>b. InputType'
    BY <1>1, <2>1 DEF TypeOK, InputType, GoneTo, TickEmergency
  <2>c. RouteType'
    BY <1>1, <2>1 DEF TypeOK, RouteType, GoneTo, TickEmergency
  <2> QED BY <2>a, <2>b, <2>c DEF TypeOK
<1>2. ASSUME TickIdle PROVE TypeOK'
  <2>1. [press EXCEPT !.record.pending = FALSE] \in Presses
    BY <1>0 DEF Presses, Trigger
  <2>2. command' \in {"none", "START", "STOP", "CLEAR"}
    BY <1>2 DEF TickIdle, TypeOK, RouteType
  <2>3. GoneTo
    BY <1>2, <1>0, <1>s, <2>1, GoToType, StayType DEF TickIdle
  <2>a. ControlType'
    BY <1>2, <1>s, <2>2, <2>3 DEF TypeOK, ControlType, GoneTo, TickIdle, Arm
  <2>b. InputType'
    BY <1>2, <1>s, <2>2, <2>3 DEF TypeOK, InputType, GoneTo, TickIdle, Arm
  <2>c. RouteType'
    BY <1>2, <1>s, <2>2, <2>3 DEF TypeOK, RouteType, GoneTo, TickIdle, Arm
  <2> QED BY <2>a, <2>b, <2>c DEF TypeOK
<1>3. ASSUME TickManualRecording PROVE TypeOK'
  <2>1. Absorbed \in Presses
    BY <1>0 DEF Absorbed, Presses, Trigger
  <2>2. GoneTo
    BY <1>3, <1>0, <1>s, <2>1, GoToType
       DEF TickManualRecording, GoneTo, TypeOK, ControlType, InputType, RouteType
  <2>a. ControlType'
    BY <1>3, <1>s, <2>2 DEF TypeOK, ControlType, GoneTo, TickManualRecording, Arm
  <2>b. InputType'
    BY <1>3, <1>s, <2>2 DEF TypeOK, InputType, GoneTo, TickManualRecording, Arm
  <2>c. RouteType'
    BY <1>3, <1>s, <2>2 DEF TypeOK, RouteType, GoneTo, TickManualRecording, Arm
  <2> QED BY <2>a, <2>b, <2>c DEF TypeOK
<1>4. ASSUME TickWaitReturnCommand PROVE TypeOK'
  <2>1. /\ [press EXCEPT !.return.pending = FALSE] \in Presses
        /\ [Aged EXCEPT !.stop = None] \in Ages
    BY <1>0 DEF Presses, Trigger, Ages
  <2>2. command' \in {"none", "START", "STOP", "CLEAR"}
    BY <1>4 DEF TickWaitReturnCommand, TypeOK, RouteType
  <2>3. GoneTo
    BY <1>4, <1>0, <1>s, <2>1, GoToType, StayType DEF TickWaitReturnCommand, Active
  <2>a. ControlType'
    BY <1>4, <1>s, <2>2, <2>3 DEF TypeOK, ControlType, GoneTo, TickWaitReturnCommand, Arm
  <2>b. InputType'
    BY <1>4, <1>s, <2>2, <2>3 DEF TypeOK, InputType, GoneTo, TickWaitReturnCommand, Arm
  <2>c. RouteType'
    BY <1>4, <1>s, <2>2, <2>3 DEF TypeOK, RouteType, GoneTo, TickWaitReturnCommand, Arm
  <2> QED BY <2>a, <2>b, <2>c DEF TypeOK
<1>5. ASSUME TickStopBeforeTurn PROVE TypeOK'
  <2>1. /\ [Aged EXCEPT !.stop = None] \in Ages /\ [Aged EXCEPT !.stop = 0] \in Ages
        /\ [Aged EXCEPT !.turn = None] \in Ages
    BY <1>0 DEF Ages
  <2>2. TurnFromHere \in [prev : Yaws, accum : Int] /\ Reverse(recorded) \in Seq(Waypoints)
    BY ReverseType DEF TurnFromHere, TypeOK, InputType, Odometry
  <2>3. turn' \in [prev : Yaws, accum : Int] /\ returnPath' \in Seq(Waypoints)
    BY <1>5, <2>2 DEF TickStopBeforeTurn, Build, TypeOK, RouteType
  <2>4. GoneTo
    BY <1>5, <1>0, <1>s, <2>1, GoToType, StayType DEF TickStopBeforeTurn, Active
  <2>a. ControlType'
    BY <1>5, <1>s, <2>3, <2>4 DEF TypeOK, ControlType, GoneTo, TickStopBeforeTurn, Arm, Active
  <2>b. InputType'
    BY <1>5, <1>s, <2>3, <2>4 DEF TypeOK, InputType, GoneTo, TickStopBeforeTurn, Arm, Active
  <2>c. RouteType'
    BY <1>5, <1>s, <2>3, <2>4 DEF TypeOK, RouteType, GoneTo, TickStopBeforeTurn, Arm, Active
  <2> QED BY <2>a, <2>b, <2>c DEF TypeOK
<1>6. ASSUME TickTurn180 PROVE TypeOK'
  <2>1. /\ [Aged EXCEPT !.turn = None] \in Ages /\ [Aged EXCEPT !.turn = 0] \in Ages
    BY <1>0 DEF Ages
  <2>2. odom.yaw \in Yaws /\ turn.prev \in Yaws /\ turn.accum \in Int
    BY DEF TypeOK, InputType, RouteType, Odometry
  <2>3. odom.yaw - turn.prev \in Int
    BY <2>2, CircleAssumption DEF Yaws
  <2>4. turn.accum + Norm(odom.yaw - turn.prev) \in Int
    BY <2>2, <2>3, NormType
  <2>5. turn' \in [prev : Yaws, accum : Int]
    BY <1>6, <2>2, <2>4 DEF TickTurn180
  <2>6. returnPath' \in Seq(Waypoints)
    BY <1>6, ReverseType DEF TickTurn180, Build, TypeOK, InputType, RouteType
  <2>7. GoneTo
    BY <1>6, <1>0, <1>s, <2>1, GoToType, StayType DEF TickTurn180, Active
  <2>a. ControlType'
    BY <1>6, <1>s, <2>5, <2>6, <2>7 DEF TypeOK, ControlType, GoneTo, TickTurn180, Arm, Active
  <2>b. InputType'
    BY <1>6, <1>s, <2>5, <2>6, <2>7 DEF TypeOK, InputType, GoneTo, TickTurn180, Arm, Active
  <2>c. RouteType'
    BY <1>6, <1>s, <2>5, <2>6, <2>7 DEF TypeOK, RouteType, GoneTo, TickTurn180, Arm, Active
  <2> QED BY <2>a, <2>b, <2>c DEF TypeOK
<1>7. ASSUME TickFollowReturnPath PROVE TypeOK'
  <2>1. GoneTo
    BY <1>7, <1>0, <1>s, GoToType, StayType DEF TickFollowReturnPath
  <2>2. out' \in {"zero", "move"}
    BY <1>7 DEF TickFollowReturnPath, TypeOK, InputType
  <2>a. ControlType'
    BY <1>7, <1>s, <2>1, <2>2 DEF TypeOK, ControlType, GoneTo, TickFollowReturnPath, Arm, Active
  <2>b. InputType'
    BY <1>7, <1>s, <2>1, <2>2 DEF TypeOK, InputType, GoneTo, TickFollowReturnPath, Arm, Active
  <2>c. RouteType'
    BY <1>7, <1>s, <2>1, <2>2 DEF TypeOK, RouteType, GoneTo, TickFollowReturnPath, Arm, Active
  <2> QED BY <2>a, <2>b, <2>c DEF TypeOK
<1>8. ASSUME TickLandmarkSearch PROVE TypeOK'
  BY <1>8, LandmarkSearchType
<1>9. ASSUME TickResumeStop PROVE TypeOK'
  <2> DEFINE asked == [Aged EXCEPT !.asked =
                IF ~requested \/ @ = None \/ @ >= ResumeRepeat THEN 0 ELSE @]
  <2>1. /\ [Aged EXCEPT !.stop = None] \in Ages /\ [Aged EXCEPT !.stop = 0] \in Ages
        /\ asked \in Ages
    BY <1>0 DEF Ages, Timers
  <2>2. requested' \in BOOLEAN
    BY <1>9 DEF TickResumeStop, TypeOK, ControlType
  <2>3. \/ GoTo("RETURN_INTERVENTION", Aged, press)
        \/ Stay(Aged) \/ Stay([Aged EXCEPT !.stop = None])
        \/ Stay([Aged EXCEPT !.stop = 0]) \/ Stay(asked)
    BY <1>9 DEF TickResumeStop
  <2> HIDE DEF asked
  <2>4. GoneTo
    BY <2>3, <1>0, <1>s, <2>1, GoToType, StayType DEF Active
  <2>a. ControlType'
    BY <1>9, <1>s, <2>2, <2>4 DEF TypeOK, ControlType, GoneTo, TickResumeStop, Arm, Active
  <2>b. InputType'
    BY <1>9, <1>s, <2>2, <2>4 DEF TypeOK, InputType, GoneTo, TickResumeStop, Arm, Active
  <2>c. RouteType'
    BY <1>9, <1>s, <2>2, <2>4 DEF TypeOK, RouteType, GoneTo, TickResumeStop, Arm, Active
  <2> QED BY <2>a, <2>b, <2>c DEF TypeOK
<1>10. ASSUME TickPaused PROVE TypeOK'
  <2>1. GoneTo
    BY <1>10, <1>0, StayType DEF TickPaused
  <2>a. ControlType'
    BY <1>10, <2>1 DEF TypeOK, ControlType, GoneTo, TickPaused
  <2>b. InputType'
    BY <1>10, <2>1 DEF TypeOK, InputType, GoneTo, TickPaused
  <2>c. RouteType'
    BY <1>10, <2>1 DEF TypeOK, RouteType, GoneTo, TickPaused
  <2> QED BY <2>a, <2>b, <2>c DEF TypeOK
<1>11. ASSUME TickFinished PROVE TypeOK'
  <2>1. GoneTo
    BY <1>11, <1>0, <1>s, GoToType, StayType DEF TickFinished
  <2>2. returnPath' \in Seq(Waypoints) /\ command' \in {"none", "START", "STOP", "CLEAR"}
    BY <1>11, NoRoute DEF TickFinished, TypeOK, RouteType
  <2>a. ControlType'
    BY <1>11, <1>s, <2>1, <2>2 DEF TypeOK, ControlType, GoneTo, TickFinished, Arm
  <2>b. InputType'
    BY <1>11, <1>s, <2>1, <2>2 DEF TypeOK, InputType, GoneTo, TickFinished, Arm
  <2>c. RouteType'
    BY <1>11, <1>s, <2>1, <2>2 DEF TypeOK, RouteType, GoneTo, TickFinished, Arm
  <2> QED BY <2>a, <2>b, <2>c DEF TypeOK
<1> QED
  BY <1>1, <1>2, <1>3, <1>4, <1>5, <1>6, <1>7, <1>8, <1>9, <1>10, <1>11 DEF Tick

\* A step that changes nothing keeps the types.
LEMMA StutterType == ASSUME TypeOK, UNCHANGED vars PROVE TypeOK'
<1>a. ControlType'
  BY DEF vars, TypeOK, ControlType
<1>b. InputType'
  BY DEF vars, TypeOK, InputType
<1>c. RouteType'
  BY DEF vars, TypeOK, RouteType
<1> QED BY <1>a, <1>b, <1>c DEF TypeOK

LEMMA InitType == Init => TypeOK
<1> SUFFICES ASSUME Init PROVE TypeOK
  OBVIOUS
<1>1. age \in Ages
  BY DEF Init, Ages, None
<1>2. NewSearch(0) \in Search /\ 0 \in Yaws
  BY CircleAssumption DEF NewSearch, Search, Yaws
<1>3. press \in Presses
  BY DEF Init, Presses, Trigger, NoPress
<1>4. odom \in Odometry
  BY <1>2 DEF Init, Odometry
<1>t. turn = [prev |-> 0, accum |-> 0] /\ search = NewSearch(0)
  BY DEF Init
<1>5. turn \in [prev : Yaws, accum : Int] /\ search \in Search
  BY <1>2, <1>t
<1>6. returnPath \in Seq(Waypoints)
  BY NoRoute DEF Init
<1>a. ControlType
  BY <1>1 DEF Init, ControlType, States
<1>b. InputType
  BY <1>3, <1>4, NoRoute DEF Init, InputType
<1>c. RouteType
  BY <1>5, <1>6 DEF Init, RouteType
<1> QED BY <1>a, <1>b, <1>c DEF TypeOK

LEMMA SurroundingsFixed == Spec => [](env \in Surroundings)
<1>1. Init => env \in Surroundings
  BY DEF Init
<1>2. env \in Surroundings /\ [Next]_vars => (env \in Surroundings)'
  BY DEF Next, vars
<1> QED BY <1>1, <1>2, PTL DEF Spec

LEMMA TypeStep ==
  ASSUME TypeOK, env \in Surroundings, [Next]_vars PROVE TypeOK'
<1>1. CASE Next
  BY <1>1, MessageType, TickType, StutterType DEF Next, Shutdown
<1>2. CASE UNCHANGED vars
  BY <1>2, StutterType
<1> QED BY <1>1, <1>2

\* Every variable keeps its type: what the handlers compute from one another's
\* results stays in the sets their readers expect.
THEOREM TypeCorrect == Spec => []TypeOK
<1>1. TypeOK /\ env \in Surroundings /\ [Next]_vars => TypeOK'
  BY TypeStep
<1> QED BY InitType, SurroundingsFixed, <1>1, PTL DEF Spec

-----------------------------------------------------------------------------
(* What the callbacks leave alone *)

\* The callbacks that only store what arrived
Stores ==
  \/ \E o \in env.odoms : OnOdom(o)
  \/ \E o \in env.origins : OnOrigin(o)
  \/ \E p \in env.paths : OnRecordedPath(p)
  \/ \E c \in env.commands : OnFollowCmd(c)
  \/ \E s \in env.stamps : OnVisualCorrection(s) \/ OnFrame(s) \/ OnLocalized(s)
  \/ \E v \in env.buttons : OnRecordTrigger(v) \/ OnReturnTrigger(v)

LEMMA MessageCases ==
  ASSUME Message \/ Button
  PROVE  \/ Stores \/ OnEmergencyStop \/ OnCandidate \/ OnLandmarkMissed
         \/ OnManual \/ OnAuto \/ \E r \in BOOLEAN : OnResumeResult(r)
  BY DEF Message, Button, Stores

LEMMA StoresFrame ==
  ASSUME TypeOK, Stores
  PROVE  /\ UNCHANGED <<state, told, out, alive, emergency, returnPath,
                        requested, searchPub>>
         /\ age'.stop = age.stop /\ age'.commit = age.commit
  BY DEF Stores, OnOdom, OnOrigin, OnRecordedPath, OnFollowCmd,
         OnVisualCorrection, OnFrame, OnLocalized, OnRecordTrigger,
         OnReturnTrigger, TypeOK, ControlType, Ages, Timers

LEMMA EmergencyFrame ==
  ASSUME TypeOK, OnEmergencyStop
  PROVE  /\ UNCHANGED <<state, told, alive, returnPath, requested, searchPub>>
         /\ out' = "zero" /\ emergency'
         /\ age'.stop = age.stop /\ age'.commit = age.commit
  BY DEF OnEmergencyStop, FirstStopOnly, Halt, TypeOK, ControlType, Ages, Timers

-----------------------------------------------------------------------------
(* The emergency stop *)

\* The latch is looked at by every arm of the timer and by every callback that
\* could start motion, so the invariant is inductive as it stands.
THEOREM EmergencyStopsMotion == Spec => []EmergencyMeansZero
<1> USE DEF EmergencyMeansZero
<1>1. Init => EmergencyMeansZero
  BY DEF Init
<1>2. TypeOK /\ EmergencyMeansZero /\ [Next]_vars => EmergencyMeansZero'
  <2> SUFFICES ASSUME TypeOK, EmergencyMeansZero, [Next]_vars
               PROVE  EmergencyMeansZero'
    OBVIOUS
  <2>1. CASE UNCHANGED vars
    BY <2>1 DEF vars
  <2>2. CASE Message \/ Button
    <3>1. CASE Stores
      BY <3>1, StoresFrame
    <3>2. CASE OnEmergencyStop
      BY <3>2, EmergencyFrame
    <3>3. CASE OnCandidate \/ OnLandmarkMissed \/ OnManual \/ OnAuto
      BY <3>3 DEF OnCandidate, OnLandmarkMissed, OnManual, OnAuto, Halt
    <3>4. CASE \E r \in BOOLEAN : OnResumeResult(r)
      BY <3>4 DEF OnResumeResult
    <3> QED BY <2>2, <3>1, <3>2, <3>3, <3>4, MessageCases
  <2>3. CASE Tick
    <3>1. CASE TickEmergency
      BY <3>1 DEF TickEmergency, Halt
    <3>2. CASE ~TickEmergency
      <4>1. ~emergency /\ emergency' = emergency
        BY <2>3, <3>2
           DEF Tick, TickIdle, TickManualRecording, TickWaitReturnCommand,
               TickStopBeforeTurn, TickTurn180, TickFollowReturnPath,
               TickLandmarkSearch, TickResumeStop, TickPaused, TickFinished,
               Arm, Environment
      <4> QED BY <4>1
    <3> QED BY <3>1, <3>2
  <2> QED BY <2>1, <2>2, <2>3 DEF Next, Shutdown
<1> QED BY TypeCorrect, <1>1, <1>2, PTL DEF Spec

-----------------------------------------------------------------------------
(* Motion and announcement *)

\* MotionMatchesAnnouncement does not say in which state the node may be while
\* a command is out: a callback that announces a new state without touching
\* /cmd_vel_return (a resume answer) would seem able to break it.
MotionInv ==
  /\ out = "turn" => told = "TURN_180" /\ state \in {"TURN_180", "FOLLOW_RETURN_PATH"}
  /\ out = "search" => told = "RETURN_LANDMARK_SEARCH" /\ state = told
  /\ out = "move" => told = "FOLLOW_RETURN_PATH" /\ state = told

LEMMA MotionMessage ==
  ASSUME TypeOK, MotionInv, Message \/ Button PROVE MotionInv'
<1> USE DEF MotionInv
<1>1. CASE Stores
  BY <1>1, StoresFrame
<1>2. CASE OnEmergencyStop
  BY <1>2, EmergencyFrame
<1>3. CASE OnCandidate \/ OnLandmarkMissed \/ OnManual \/ OnAuto
  BY <1>3 DEF OnCandidate, OnLandmarkMissed, OnManual, OnAuto, Halt
<1>4. CASE \E r \in BOOLEAN : OnResumeResult(r)
  <2>1. out' = out /\ out = "zero"
    BY <1>4 DEF OnResumeResult, TypeOK, ControlType
  <2> QED BY <2>1
<1> QED BY <1>1, <1>2, <1>3, <1>4, MessageCases

LEMMA MotionTick == ASSUME TypeOK, MotionInv, Tick PROVE MotionInv'
<1> USE DEF MotionInv
<1>1. CASE TickIdle \/ TickManualRecording \/ TickWaitReturnCommand
  <2>1. out' = out /\ out = "zero"
    BY <1>1 DEF TickIdle, TickManualRecording, TickWaitReturnCommand, Arm,
                TypeOK, ControlType
  <2> QED BY <2>1
<1>2. CASE \/ TickEmergency \/ TickStopBeforeTurn \/ TickResumeStop
           \/ TickPaused \/ TickFinished
  <2>1. out' = "zero"
    BY <1>2 DEF TickEmergency, TickStopBeforeTurn, TickResumeStop, TickPaused,
                TickFinished, Halt
  <2> QED BY <2>1
<1>3. CASE TickTurn180
  BY <1>3 DEF TickTurn180, Arm, GoTo, Stay
<1>4. CASE TickFollowReturnPath
  <2>1. out' \in {"zero", "move"} /\ told' = "FOLLOW_RETURN_PATH"
    BY <1>4 DEF TickFollowReturnPath, Arm, TypeOK, InputType
  <2>2. out' = "move" => state' = "FOLLOW_RETURN_PATH"
    BY <1>4 DEF TickFollowReturnPath, Arm, Stay
  <2> QED BY <2>1, <2>2
<1>5. CASE TickLandmarkSearch
  <2>1. \/ out' = "zero"
        \/ /\ out' \in {"search", "zero"} /\ told' = state /\ state' = state
           /\ state = "RETURN_LANDMARK_SEARCH"
    BY <1>5 DEF TickLandmarkSearch, SearchFails, SearchSucceeds, Halt
  <2> QED BY <2>1
<1> QED BY <1>1, <1>2, <1>3, <1>4, <1>5 DEF Tick

\* The latest command on /cmd_vel_return never asks for motion that the latest
\* announced state does not stand for.
THEOREM AnnouncedMotionOnly == Spec => []MotionMatchesAnnouncement
<1>1. Init => MotionInv
  BY DEF Init, MotionInv
<1>2. TypeOK /\ MotionInv /\ [Next]_vars => MotionInv'
  <2> SUFFICES ASSUME TypeOK, MotionInv, [Next]_vars PROVE MotionInv'
    OBVIOUS
  <2>1. CASE UNCHANGED vars
    BY <2>1 DEF vars, MotionInv
  <2> QED BY <2>1, MotionMessage, MotionTick DEF Next, Shutdown
<1>3. MotionInv => MotionMatchesAnnouncement
  BY DEF MotionInv, MotionMatchesAnnouncement
<1> QED BY TypeCorrect, <1>1, <1>2, <1>3, PTL DEF Spec

\* The timer arms in which neither a resume check nor a search is going on
QuietTick ==
  \/ TickIdle \/ TickManualRecording \/ TickWaitReturnCommand
  \/ TickStopBeforeTurn \/ TickTurn180 \/ TickFollowReturnPath
  \/ TickPaused \/ TickFinished

QuietStates == {"IDLE", "MANUAL_RECORDING", "WAIT_RETURN_COMMAND",
                "STOP_BEFORE_TURN", "TURN_180", "FOLLOW_RETURN_PATH",
                "RETURN_MANUAL", "RETURN_INTERVENTION", "FINISHED"}

LEMMA TickCases ==
  ASSUME Tick
  PROVE  TickEmergency \/ QuietTick \/ TickLandmarkSearch \/ TickResumeStop
  BY DEF Tick, QuietTick

\* Such an arm leaves both alone.
LEMMA QuietFrame ==
  ASSUME QuietTick
  PROVE  /\ state \in QuietStates /\ state' \in QuietStates
         /\ requested' = requested /\ searchPub' = searchPub
<1> USE DEF QuietStates, Arm, GoTo, Stay, AnnounceSearch
<1>1. CASE TickIdle
  BY <1>1 DEF TickIdle
<1>2. CASE TickManualRecording
  BY <1>2 DEF TickManualRecording
<1>3. CASE TickWaitReturnCommand
  BY <1>3 DEF TickWaitReturnCommand
<1>4. CASE TickStopBeforeTurn
  BY <1>4 DEF TickStopBeforeTurn
<1>5. CASE TickTurn180
  BY <1>5 DEF TickTurn180
<1>6. CASE TickFollowReturnPath
  BY <1>6 DEF TickFollowReturnPath
<1>7. CASE TickPaused
  BY <1>7 DEF TickPaused
<1>8. CASE TickFinished
  BY <1>8 DEF TickFinished
<1> QED BY <1>1, <1>2, <1>3, <1>4, <1>5, <1>6, <1>7, <1>8 DEF QuietTick

\* A timer is set after one period exactly if it was set before.
LEMMA AgedSet ==
  ASSUME age \in Ages, NEW t \in Timers
  PROVE  Aged[t] = None <=> age[t] = None
  BY DEF Aged, Ages, None

-----------------------------------------------------------------------------
(* The resume request *)

\* An unanswered request is always about the stop that is still going on: every
\* way out of that stop -- motion, stale odometry, a pause, the time limit --
\* takes the request back.
THEOREM RequestFollowsStop == Spec => []RequestMeansSettled
<1> USE DEF RequestMeansSettled
<1>1. Init => RequestMeansSettled
  BY DEF Init
<1>2. TypeOK /\ RequestMeansSettled /\ [Next]_vars => RequestMeansSettled'
  <2> SUFFICES ASSUME TypeOK, RequestMeansSettled, [Next]_vars
               PROVE  RequestMeansSettled'
    OBVIOUS
  <2>0. age \in Ages /\ StopSettle \in Nat /\ "stop" \in Timers
    BY MissionAssumption DEF TypeOK, ControlType, Timers
  <2>1. CASE UNCHANGED vars
    BY <2>1 DEF vars, Reached
  <2>2. CASE Message \/ Button
    <3>1. CASE Stores
      BY <3>1, StoresFrame DEF Reached
    <3>2. CASE OnEmergencyStop
      BY <3>2, EmergencyFrame DEF Reached
    <3>3. CASE OnManual \/ OnAuto \/ \E r \in BOOLEAN : OnResumeResult(r)
      BY <3>3 DEF OnManual, OnAuto, OnResumeResult, DropRequest
    <3>4. CASE OnCandidate
      BY <3>4 DEF OnCandidate
    <3>5. CASE OnLandmarkMissed
      BY <3>5 DEF OnLandmarkMissed
    <3> QED BY <2>2, <3>1, <3>2, <3>3, <3>4, <3>5, MessageCases
  <2>3. CASE Tick
    <3>1. CASE TickEmergency
      BY <3>1, <2>0, AgedReached DEF TickEmergency, Stay
    <3>2. CASE QuietTick
      BY <3>2, QuietFrame DEF QuietStates
    <3>3. CASE TickLandmarkSearch
      <4>1. requested' = requested \/ requested' = FALSE
        BY <3>3 DEF TickLandmarkSearch, SearchFails, SearchSucceeds, DropRequest
      <4>2. ~requested
        BY <3>3 DEF TickLandmarkSearch
      <4> QED BY <4>1, <4>2
    <3>4. CASE TickResumeStop
      <4>1. CASE requested' = FALSE
        BY <4>1
      <4>2. CASE requested' # FALSE
        <5>1. /\ state = "RETURN_RESUME_STOP" /\ state' = state
              /\ \/ /\ requested' = requested
                    /\ age' = [Aged EXCEPT !.stop = 0] /\ age.stop = None
                 \/ /\ requested' = requested
                    /\ age' = Aged
                 \/ /\ Reached(Aged.stop, StopSettle)
                    /\ age' = [Aged EXCEPT !.asked =
                                 IF ~requested \/ @ = None \/ @ >= ResumeRepeat
                                 THEN 0 ELSE @]
          BY <3>4, <4>2 DEF TickResumeStop, DropRequest, Stay, Arm
        <5>2. CASE requested' = requested /\ age.stop = None
          BY <4>2, <5>2 DEF Reached
        <5>3. CASE requested' = requested /\ age' = Aged
          BY <2>0, <5>1, <5>3, AgedReached
        <5>4. CASE /\ Reached(Aged.stop, StopSettle)
                   /\ age' = [Aged EXCEPT !.asked =
                                IF ~requested \/ @ = None \/ @ >= ResumeRepeat
                                THEN 0 ELSE @]
          <6>1. age'.stop = Aged.stop
            BY <5>4 DEF Aged, Timers
          <6> QED BY <5>1, <5>4, <6>1
        <5> QED BY <5>1, <5>2, <5>3, <5>4
      <4> QED BY <4>1, <4>2
    <3> QED BY <2>3, <3>1, <3>2, <3>3, <3>4, TickCases
  <2> QED BY <2>1, <2>2, <2>3 DEF Next, Shutdown
<1> QED BY TypeCorrect, <1>1, <1>2, PTL DEF Spec

-----------------------------------------------------------------------------
(* The search request *)

\* The latched message the visual node goes by says what the node itself
\* believes of the search, whichever way the search is entered, left or paused.
THEOREM SearchRequestCurrent == Spec => []SearchRequestAgrees
<1> USE DEF SearchRequestAgrees
<1>1. Init => SearchRequestAgrees
  <2>1. Init => state = "IDLE" /\ searchPub = [active |-> FALSE, committed |-> FALSE]
    BY DEF Init
  <2> QED BY <2>1
<1>2. TypeOK /\ SearchRequestAgrees /\ [Next]_vars => SearchRequestAgrees'
  <2> SUFFICES ASSUME TypeOK, SearchRequestAgrees, [Next]_vars
               PROVE  SearchRequestAgrees'
    OBVIOUS
  <2>0. age \in Ages /\ Aged \in Ages /\ "commit" \in Timers
    BY AgedType DEF TypeOK, ControlType, Timers
  <2>a. \* A change of state announces the search that is entered or left.
        ASSUME NEW new, NEW ages \in Ages, NEW p, GoTo(new, ages, p)
        PROVE  SearchRequestAgrees'
    <3>1. age'.commit = ages.commit
      BY <2>0, <2>a DEF GoTo, Ages, Timers
    <3> QED BY <2>a, <3>1 DEF GoTo, AnnounceSearch
  <2>1. CASE UNCHANGED vars
    BY <2>1 DEF vars
  <2>2. CASE Message \/ Button
    <3>1. CASE Stores
      BY <3>1, StoresFrame
    <3>2. CASE OnEmergencyStop
      BY <3>2, EmergencyFrame
    <3>3. CASE OnManual
      BY <3>3, <2>0, <2>a DEF OnManual
    <3>4. CASE OnAuto
      <4>1. [age EXCEPT !.stop = None, !.asked = None] \in Ages
        BY <2>0 DEF Ages
      <4> QED BY <3>4, <4>1, <2>a DEF OnAuto
    <3>5. CASE OnCandidate
      BY <3>5 DEF OnCandidate
    <3>6. CASE OnLandmarkMissed
      <4>1. [age EXCEPT !.search = 0, !.hold = None, !.commit = None,
                        !.match = None] \in Ages
        BY <2>0 DEF Ages
      <4> QED BY <3>6, <4>1, <2>a DEF OnLandmarkMissed
    <3>7. CASE \E r \in BOOLEAN : OnResumeResult(r)
      <4>1. /\ [age EXCEPT !.stop = None] \in Ages
            /\ [age EXCEPT !.follow = None] \in Ages
        BY <2>0 DEF Ages
      <4>2. [age EXCEPT !.stop = None].commit = age.commit
        BY <2>0 DEF Ages, Timers
      <4> QED BY <3>7, <4>1, <4>2, <2>0, <2>a DEF OnResumeResult, Stay
    <3> QED BY <2>2, <3>1, <3>2, <3>3, <3>4, <3>5, <3>6, <3>7, MessageCases
  <2>3. CASE Tick
    <3>1. CASE TickEmergency
      BY <3>1, <2>0, AgedSet DEF TickEmergency, Stay
    <3>2. CASE QuietTick
      BY <3>2, QuietFrame DEF QuietStates
    <3>3. CASE TickResumeStop
      <4>1. \/ GoTo("RETURN_INTERVENTION", Aged, press)
            \/ UNCHANGED <<state, searchPub>> /\ state = "RETURN_RESUME_STOP"
        BY <3>3 DEF TickResumeStop, Stay, Arm
      <4> QED BY <4>1, <2>0, <2>a
    <3>4. CASE TickLandmarkSearch
      <4> DEFINE phase   == SearchPhase
                 hold    == HoldAfter(phase, Aged.hold)
                 settled == phase = "observing" /\ hold >= StopSettle
                 ages    == [Aged EXCEPT
                               !.hold = hold,
                               !.commit = IF ~settled THEN None
                                          ELSE IF @ = None THEN 0 ELSE @,
                               !.match = IF ~settled /\ age.commit # None
                                         THEN None ELSE @]
                 swept   == [Aged EXCEPT !.hold = hold]
                 resumed == [ages EXCEPT !.stop = None, !.asked = None]
      <4>1. hold \in Nat \cup {None}
        BY <2>0 DEF HoldAfter, Ages, Timers
      <4>2. ages \in Ages /\ swept \in Ages /\ resumed \in Ages
        <5>1. ages \in Ages /\ swept \in Ages
          BY <2>0, <4>1 DEF Ages, Timers
        <5> QED BY <5>1 DEF Ages
      <4>3. \/ GoTo("RETURN_INTERVENTION", Aged, press)
            \/ GoTo("RETURN_INTERVENTION", swept, press)
            \/ GoTo("RETURN_RESUME_STOP", resumed, press)
            \/ /\ age' = ages /\ state = "RETURN_LANDMARK_SEARCH" /\ state' = state
               /\ searchPub' = IF (ages.commit = None) # (age.commit = None)
                               THEN [active |-> TRUE, committed |-> ages.commit # None]
                               ELSE searchPub
        BY <3>4 DEF TickLandmarkSearch, SearchFails, SearchSucceeds
      <4> HIDE DEF phase, hold, settled, ages, swept, resumed
      <4>4. CASE /\ age' = ages /\ state = "RETURN_LANDMARK_SEARCH" /\ state' = state
                 /\ searchPub' = IF (ages.commit = None) # (age.commit = None)
                                 THEN [active |-> TRUE, committed |-> ages.commit # None]
                                 ELSE searchPub
        BY <4>4
      <4> QED BY <4>2, <4>3, <4>4, <2>0, <2>a
    <3> QED BY <2>3, <3>1, <3>2, <3>3, <3>4, TickCases
  <2> QED BY <2>1, <2>2, <2>3 DEF Next, Shutdown
<1> QED BY TypeCorrect, <1>1, <1>2, PTL DEF Spec

-----------------------------------------------------------------------------
(* The route *)

\* A planned route exists only in the states that come after it was built: the
\* two states that build one unconditionally never find one.
RouteInv ==
  returnPath # <<>> =>
    state \in {"FOLLOW_RETURN_PATH", "RETURN_LANDMARK_SEARCH", "RETURN_MANUAL",
               "RETURN_RESUME_STOP", "RETURN_INTERVENTION", "FINISHED"}

KeepsRoute == returnPath # <<>> /\ state # "FINISHED" => returnPath' = returnPath

LEMMA RouteStep ==
  ASSUME TypeOK, RouteInv, [Next]_vars PROVE RouteInv' /\ KeepsRoute
<1> USE DEF RouteInv, KeepsRoute
<1>1. CASE UNCHANGED vars
  BY <1>1 DEF vars
<1>2. CASE Message \/ Button
  <2>1. CASE Stores
    BY <2>1, StoresFrame
  <2>2. CASE OnEmergencyStop
    BY <2>2, EmergencyFrame
  <2>3. CASE OnManual
    BY <2>3 DEF OnManual, RouteForPause, GoTo
  <2>4. CASE OnAuto
    BY <2>4 DEF OnAuto, GoTo
  <2>5. CASE OnCandidate
    BY <2>5 DEF OnCandidate
  <2>6. CASE OnLandmarkMissed
    BY <2>6 DEF OnLandmarkMissed, GoTo
  <2>7. CASE \E r \in BOOLEAN : OnResumeResult(r)
    BY <2>7 DEF OnResumeResult, GoTo, Stay
  <2> QED BY <1>2, <2>1, <2>2, <2>3, <2>4, <2>5, <2>6, <2>7, MessageCases
<1>3. CASE Tick
  <2>1. CASE TickEmergency
    BY <2>1 DEF TickEmergency, Stay
  <2>2. CASE TickIdle \/ TickManualRecording \/ TickWaitReturnCommand
    <3>1. returnPath' = returnPath /\ returnPath = <<>>
      BY <2>2 DEF TickIdle, TickManualRecording, TickWaitReturnCommand, Arm
    <3> QED BY <3>1
  <2>3. CASE TickStopBeforeTurn \/ TickTurn180
    <3>1. returnPath = <<>>
      BY <2>3 DEF TickStopBeforeTurn, TickTurn180, Arm
    <3>2. returnPath' = returnPath \/ state' = "FOLLOW_RETURN_PATH"
      BY <2>3 DEF TickStopBeforeTurn, TickTurn180, GoTo
    <3> QED BY <3>1, <3>2
  <2>4. CASE TickFollowReturnPath
    BY <2>4 DEF TickFollowReturnPath, Arm, GoTo, Stay
  <2>5. CASE TickLandmarkSearch
    BY <2>5 DEF TickLandmarkSearch, SearchFails, SearchSucceeds, GoTo
  <2>6. CASE TickResumeStop
    BY <2>6 DEF TickResumeStop, Arm, GoTo, Stay
  <2>7. CASE TickPaused
    BY <2>7 DEF TickPaused, Stay
  <2>8. CASE TickFinished
    BY <2>8 DEF TickFinished, Arm, GoTo, Stay
  <2> QED BY <1>3, <2>1, <2>2, <2>3, <2>4, <2>5, <2>6, <2>7, <2>8 DEF Tick
<1> QED BY <1>1, <1>2, <1>3 DEF Next, Shutdown

\* One mission keeps one route, through every pause, search and resume.
THEOREM OneRoutePerMission == Spec => RouteKept
<1>1. Init => RouteInv
  BY DEF Init, RouteInv
<1>2. TypeOK /\ RouteInv /\ [Next]_vars => RouteInv' /\ [KeepsRoute]_vars
  BY RouteStep
<1>3. Spec => [][KeepsRoute]_vars
  BY TypeCorrect, <1>1, <1>2, PTL DEF Spec
<1> QED BY <1>3 DEF RouteKept, KeepsRoute

-----------------------------------------------------------------------------
(* The steps out of a resume check and out of a search *)

\* Only a positive answer to the outstanding request leads back to the route, and
\* that request is about a stop that has been confirmed and still holds.
THEOREM ResumedFromRest == Spec => ResumeFromRest
<1> DEFINE Step == state = "RETURN_RESUME_STOP" /\ state' = "FOLLOW_RETURN_PATH"
                   => /\ Reached(age.stop, StopSettle) /\ Within(age.odom, OdomTimeout)
                      /\ odom.still /\ gated'
<1>1. TypeOK /\ RequestMeansSettled /\ [Next]_vars => [Step]_vars
  <2> SUFFICES ASSUME TypeOK, RequestMeansSettled, Next,
                      state = "RETURN_RESUME_STOP", state' = "FOLLOW_RETURN_PATH"
               PROVE  /\ Reached(age.stop, StopSettle) /\ Within(age.odom, OdomTimeout)
                      /\ odom.still /\ gated'
    OBVIOUS
  <2>1. CASE Message \/ Button
    <3>1. CASE \E r \in BOOLEAN : OnResumeResult(r)
      BY <3>1 DEF OnResumeResult, Stay, GoTo, Still, RequestMeansSettled
    <3>2. CASE Stores
      BY <3>2, StoresFrame
    <3>3. CASE OnEmergencyStop
      BY <3>3, EmergencyFrame
    <3>4. CASE OnCandidate \/ OnLandmarkMissed \/ OnManual \/ OnAuto
      BY <3>4 DEF OnCandidate, OnLandmarkMissed, OnManual, OnAuto, GoTo
    <3> QED BY <2>1, <3>1, <3>2, <3>3, <3>4, MessageCases
  <2>2. CASE Tick
    <3>1. CASE TickEmergency
      BY <3>1 DEF TickEmergency, Stay
    <3>2. CASE QuietTick
      BY <3>2, QuietFrame DEF QuietStates
    <3>3. CASE TickLandmarkSearch
      BY <3>3 DEF TickLandmarkSearch
    <3>4. CASE TickResumeStop
      BY <3>4 DEF TickResumeStop, GoTo, Stay, Arm
    <3> QED BY <2>2, <3>1, <3>2, <3>3, <3>4, TickCases
  <2> QED BY <2>1, <2>2 DEF Next, Shutdown, vars
<1>2. Spec => [][Step]_vars
  BY TypeCorrect, RequestFollowsStop, <1>1, PTL DEF Spec
<1> QED BY <1>2 DEF ResumeFromRest

\* While a search is on, the stop it has committed to has lasted the settling time
\* already, and a sighting it has taken was made no earlier than that.  Its dwell is
\* too short for the clock of the stop to have been cut off.
EvidenceInv ==
  state = "RETURN_LANDMARK_SEARCH" /\ ~emergency =>
    /\ age.hold < SearchDwell
    /\ age.commit # None => age.hold # None /\ age.commit + StopSettle <= age.hold
    /\ age.match # None =>
         age.commit # None /\ age.hold # None /\ age.match + StopSettle <= age.hold

Evident == /\ age'.match # None /\ age'.hold # None
           /\ age'.match + StopSettle <= age'.hold

\* One period of a search.
LEMMA EvidenceSearch ==
  ASSUME TypeOK, EvidenceInv, TickLandmarkSearch
  PROVE  EvidenceInv' /\ (state' = "RETURN_RESUME_STOP" => Evident)
<1> DEFINE phase   == SearchPhase
           hold    == HoldAfter(phase, Aged.hold)
           settled == phase = "observing" /\ hold >= StopSettle
           ages    == [Aged EXCEPT
                         !.hold = hold,
                         !.commit = IF ~settled THEN None
                                    ELSE IF @ = None THEN 0 ELSE @,
                         !.match = IF ~settled /\ age.commit # None
                                   THEN None ELSE @]
           resumed == [ages EXCEPT !.stop = None, !.asked = None]
<1>0. /\ age \in Ages /\ Aged \in Ages /\ StopSettle \in Nat /\ SearchDwell \in Nat
      /\ {"hold", "commit", "match"} \subseteq Timers
  BY AgedType, MissionAssumption, SearchAssumption DEF TypeOK, ControlType, Timers
<1>1. /\ \A t \in Timers : (Aged[t] = None <=> age[t] = None) /\ Aged[t] <= age[t] + 1
      /\ age.hold # None => Aged.hold = age.hold + 1
  <2>1. \A t \in Timers : (Aged[t] = None <=> age[t] = None) /\ Aged[t] <= age[t] + 1
    BY <1>0 DEF Aged, Ages, None
  <2>2. age.hold < SearchDwell
    BY DEF TickLandmarkSearch, EvidenceInv
  <2>3. SearchDwell <= Cap.hold
    BY <1>0 DEF Cap, Timers, Larger
  <2>4. age.hold \in Int /\ Cap.hold \in Int
    BY <1>0 DEF Ages, Timers, None, Cap, Larger
  <2>5. age.hold < Cap.hold
    BY <2>2, <2>3, <2>4, <1>0
  <2> QED BY <2>1, <2>5, <1>0 DEF Aged
<1>2. /\ hold \in Nat \cup {None}
      /\ phase = "observing" =>
           hold < SearchDwell /\ hold # None /\ (age.hold # None => hold = Aged.hold)
  <2>1. phase = "observing" => Aged.hold < SearchDwell
    BY DEF SearchPhase, Phase
  <2>2. Aged.hold \in Nat \cup {None}
    BY <1>0 DEF Ages
  <2>3. phase = "observing" => hold = IF Aged.hold = None THEN 0 ELSE Aged.hold
    BY DEF HoldAfter
  <2>4. hold \in Nat \cup {None}
    BY <2>2 DEF HoldAfter
  <2>5. 0 < SearchDwell
    BY SearchAssumption
  <2>6. Aged.hold = None <=> age.hold = None
    BY <1>0, <1>1
  <2> HIDE DEF phase, hold
  <2> QED BY <1>0, <2>1, <2>2, <2>3, <2>4, <2>5, <2>6 DEF None
<1>3. /\ ages.hold = hold
      /\ ages.commit = IF ~settled THEN None
                       ELSE IF Aged.commit = None THEN 0 ELSE Aged.commit
      /\ ages.match = IF ~settled /\ age.commit # None THEN None ELSE Aged.match
      /\ resumed.hold = ages.hold /\ resumed.match = ages.match
  <2>1. /\ ages.hold = hold
        /\ ages.commit = IF ~settled THEN None
                         ELSE IF Aged.commit = None THEN 0 ELSE Aged.commit
        /\ ages.match = IF ~settled /\ age.commit # None THEN None ELSE Aged.match
    BY <1>0 DEF Ages, Timers
  <2>2. DOMAIN ages = Timers
    BY <1>0 DEF Ages
  <2> HIDE DEF ages
  <2> QED BY <2>1, <2>2, <1>0 DEF Timers
<1>4. /\ settled => ages.hold < SearchDwell
      /\ settled => ages.commit + StopSettle <= ages.hold
      /\ ages.commit # None => settled
      /\ ages.match # None => settled /\ ages.match + StopSettle <= ages.hold
      /\ settled => ages.commit # None /\ ages.hold # None
  <2>0. /\ {age.hold, age.commit, age.match, Aged.hold, Aged.commit, Aged.match}
             \subseteq Nat \cup {None}
        /\ Aged.commit = None <=> age.commit = None
        /\ Aged.match = None <=> age.match = None
        /\ Aged.commit <= age.commit + 1 /\ Aged.match <= age.match + 1
    BY <1>0, <1>1 DEF Ages
  <2>1. /\ age.commit # None => age.hold # None /\ age.commit + StopSettle <= age.hold
        /\ age.match # None =>
             age.commit # None /\ age.hold # None /\ age.match + StopSettle <= age.hold
    BY DEF TickLandmarkSearch, EvidenceInv
  <2>2. settled => phase = "observing" /\ hold >= StopSettle
    OBVIOUS
  <2>3. /\ settled \in BOOLEAN
        /\ settled => /\ hold < SearchDwell /\ hold # None /\ hold >= StopSettle
                      /\ age.hold # None => hold = age.hold + 1
    BY <1>1, <1>2, <2>2
  <2> HIDE DEF settled, ages, hold, phase
  <2>4. CASE ~settled
    BY <2>4, <1>3, <2>0, <2>1
  <2>5. CASE settled
    BY <2>5, <1>0, <1>2, <1>3, <2>0, <2>1, <2>3 DEF None
  <2> QED BY <2>3, <2>4, <2>5
<1>5. \/ GoTo("RETURN_INTERVENTION", Aged, press)
      \/ GoTo("RETURN_INTERVENTION", [Aged EXCEPT !.hold = hold], press)
      \/ GoTo("RETURN_RESUME_STOP", resumed, press) /\ ages.match # None
      \/ age' = ages /\ state' = state /\ (settled \/ ages.hold < SearchDwell)
  <2>1. \/ GoTo("RETURN_INTERVENTION", Aged, press)
        \/ GoTo("RETURN_INTERVENTION", [Aged EXCEPT !.hold = hold], press)
        \/ GoTo("RETURN_RESUME_STOP", resumed, press) /\ ages.match # None
        \/ age' = ages /\ state' = state /\ phase \notin Failed
    BY DEF TickLandmarkSearch, SearchFails, SearchSucceeds
  <2>2. phase \notin Failed => ages.hold < SearchDwell
    <3>1. phase \notin Failed => phase = "observing" \/ hold = None
      BY DEF HoldAfter, Failed
    <3>2. phase = "observing" => hold < SearchDwell
      BY <1>2
    <3>3. None < SearchDwell
      BY <1>0 DEF None
    <3> HIDE DEF phase, hold, ages, settled
    <3> QED BY <3>1, <3>2, <3>3, <1>3
  <2> HIDE DEF phase, hold, settled, ages, resumed
  <2> QED BY <2>1, <2>2
<1>6. state = "RETURN_LANDMARK_SEARCH" /\ emergency' = emergency
  BY DEF TickLandmarkSearch, Environment
<1> HIDE DEF phase, hold, settled, ages, resumed
<1>7. CASE GoTo("RETURN_INTERVENTION", Aged, press)
           \/ GoTo("RETURN_INTERVENTION", [Aged EXCEPT !.hold = hold], press)
  BY <1>7 DEF GoTo, EvidenceInv
<1>8. CASE GoTo("RETURN_RESUME_STOP", resumed, press) /\ ages.match # None
  <2>1. state' = "RETURN_RESUME_STOP" /\ age' = [resumed EXCEPT !.state = 0]
    BY <1>8 DEF GoTo, EvidenceInv
  <2> QED BY <2>1, <1>3, <1>4, <1>8 DEF EvidenceInv, Evident
<1>9. CASE age' = ages /\ state' = state /\ (settled \/ ages.hold < SearchDwell)
  BY <1>3, <1>4, <1>6, <1>9 DEF EvidenceInv
<1> QED BY <1>5, <1>7, <1>8, <1>9

LEMMA EvidenceStep ==
  ASSUME TypeOK, env \in Surroundings, EvidenceInv, [Next]_vars
  PROVE  /\ EvidenceInv'
         /\ state = "RETURN_LANDMARK_SEARCH" /\ state' = "RETURN_RESUME_STOP" => Evident
<1>0. /\ age \in Ages /\ Aged \in Ages /\ StopSettle \in Nat /\ 0 < SearchDwell
      /\ {"hold", "commit", "match"} \subseteq Timers
  BY AgedType, MissionAssumption, SearchAssumption DEF TypeOK, ControlType, Timers
<1>1. CASE UNCHANGED vars
  BY <1>1 DEF vars, EvidenceInv
<1>2. CASE Message \/ Button
  <2>1. CASE Stores
    <3>1. UNCHANGED <<state, emergency>>
      BY <2>1, StoresFrame
    <3>2. \/ age'.hold = age.hold /\ age'.commit = age.commit /\ age'.match = age.match
          \/ /\ age'.hold = age.hold /\ age'.commit = age.commit
             /\ age.commit # None
             /\ \E s \in env.stamps : s <= age.commit /\ age'.match = s
      BY <1>0, <2>1 DEF Stores, OnOdom, OnOrigin, OnRecordedPath, OnFollowCmd,
         OnVisualCorrection, OnFrame, OnLocalized, SinceCommit, OnRecordTrigger,
         OnReturnTrigger, Ages, Timers
    <3>3. env.stamps \subseteq Nat /\ {age.hold, age.commit} \subseteq Nat \cup {None}
      BY <1>0, InputTypes DEF Ages
    <3> QED BY <1>0, <3>1, <3>2, <3>3 DEF EvidenceInv, None
  <2>2. CASE OnEmergencyStop
    BY <2>2, EmergencyFrame DEF EvidenceInv
  <2>3. CASE OnManual \/ OnAuto
    BY <2>3 DEF OnManual, OnAuto, GoTo, EvidenceInv
  <2>4. CASE OnCandidate
    BY <2>4 DEF OnCandidate, EvidenceInv
  <2>5. CASE OnLandmarkMissed
    <3>1. /\ state = "FOLLOW_RETURN_PATH"
          /\ GoTo("RETURN_LANDMARK_SEARCH",
                  [age EXCEPT !.search = 0, !.hold = None, !.commit = None,
                              !.match = None], press)
      BY <2>5 DEF OnLandmarkMissed
    <3>2. age'.hold = None /\ age'.commit = None /\ age'.match = None
      BY <1>0, <3>1 DEF GoTo, Ages, Timers
    <3> QED BY <1>0, <3>1, <3>2, SearchAssumption DEF EvidenceInv, None
  <2>6. CASE \E r \in BOOLEAN : OnResumeResult(r)
    BY <2>6 DEF OnResumeResult, GoTo, Stay, EvidenceInv
  <2> QED BY <1>2, <2>1, <2>2, <2>3, <2>4, <2>5, <2>6, MessageCases
<1>3. CASE Tick
  <2>1. CASE TickEmergency
    BY <2>1 DEF TickEmergency, Stay, EvidenceInv
  <2>2. CASE QuietTick
    BY <2>2, QuietFrame DEF QuietStates, EvidenceInv
  <2>3. CASE TickLandmarkSearch
    BY <2>3, EvidenceSearch
  <2>4. CASE TickResumeStop
    BY <2>4 DEF TickResumeStop, GoTo, Stay, Arm, EvidenceInv
  <2> QED BY <1>3, <2>1, <2>2, <2>3, <2>4, TickCases
<1> QED BY <1>1, <1>2, <1>3 DEF Next, Shutdown

\* A search ends in a resume only on an image that is not older than the settling
\* time of the stop in which it ends.
THEOREM EvidenceAtRest == Spec => EvidenceTakenAtRest
<1> DEFINE Step == state = "RETURN_LANDMARK_SEARCH" /\ state' = "RETURN_RESUME_STOP"
                   => Evident
<1>1. Init => EvidenceInv
  BY DEF Init, EvidenceInv
<1>2. TypeOK /\ env \in Surroundings /\ EvidenceInv /\ [Next]_vars
      => EvidenceInv' /\ [Step]_vars
  BY EvidenceStep
<1>3. Spec => [][Step]_vars
  BY TypeCorrect, SurroundingsFixed, <1>1, <1>2, PTL DEF Spec
<1> QED BY <1>3 DEF EvidenceTakenAtRest, Evident

-----------------------------------------------------------------------------
(* Headings *)

LEMMA Division ==
  ASSUME NEW d \in Int, NEW c \in Nat, c > 0
  PROVE  d = c * (d \div c) + (d % c) /\ d \div c \in Int /\ d % c \in 0 .. c - 1
<1>1. d = c * (d \div c) + (d % c)
  OBVIOUS
<1>2. d \div c \in Int /\ d % c \in 0 .. c - 1
  OBVIOUS
<1> QED BY <1>1, <1>2

LEMMA Remainder ==
  ASSUME NEW r \in Int, NEW q \in Int, NEW c \in Nat, 0 <= r, r < c
  PROVE  (r + q * c) % c = r
  BY SMT

\* x and y are the same heading, full turns apart.
SameHeading(x, y) == \E k \in Int : x = y + k * Circle

\* _normalize_angle gives another number for the same heading.
LEMMA NormSame == ASSUME NEW d \in Int PROVE SameHeading(Norm(d), d)
<1>1. Circle \in Nat /\ Circle > 0
  BY CircleAssumption
<1>2. PICK q \in Int : d = Circle * q + (d % Circle)
  BY <1>1, Division
<1>3. d % Circle \in Int
  BY <1>1, Division
<1>4. d % Circle = d + (-q) * Circle /\ (d % Circle) - Circle = d + (-q - 1) * Circle
  BY <1>1, <1>2, <1>3
<1>5. Norm(d) = d % Circle \/ Norm(d) = (d % Circle) - Circle
  BY DEF Norm
<1>6. -q \in Int /\ -q - 1 \in Int
  OBVIOUS
<1> QED BY <1>4, <1>5, <1>6 DEF SameHeading

\* Half a turn is half a turn in either direction.
LEMMA NormHalf ==
  ASSUME NEW d \in Int, SameHeading(d, Half) \/ SameHeading(d, -Half)
  PROVE  Norm(d) = Half
<1>1. Circle \in Nat /\ Circle > 1 /\ Half \in Int /\ Half + Half = Circle
  <2>1. Circle = 2 * (Circle \div 2) + (Circle % 2) /\ Circle \div 2 \in Int
    BY CircleAssumption, Division
  <2> QED BY <2>1, CircleAssumption DEF Half
<1>2. \E k \in Int : d = Half + k * Circle
  <2>1. ASSUME NEW k \in Int, d = -Half + k * Circle
        PROVE  d = Half + (k - 1) * Circle /\ k - 1 \in Int
    <3> HIDE DEF Half
    <3> QED BY <1>1, <2>1
  <2> QED BY <2>1 DEF SameHeading
<1>3. PICK k \in Int : d = Half + k * Circle
  BY <1>2
<1>4. d % Circle = Half
  <2>1. 0 <= Half /\ Half < Circle
    BY <1>1
  <2>2. (Half + k * Circle) % Circle = Half
    BY <1>1, <2>1, Remainder
  <2> QED BY <1>3, <2>2
<1> QED BY <1>1, <1>4 DEF Norm

-----------------------------------------------------------------------------
(* The history variables only watch *)

LEMMA HistoryStep == ASSUME [HNext]_hvars PROVE [Next]_vars
  BY DEF HNext, HStep, HButton, Next, Button, hvars

LEMMA HistoryType == HSpec => [](TypeOK /\ env \in Surroundings)
<1>1. HInit => TypeOK /\ env \in Surroundings
  BY InitType DEF HInit, Init
<1>2. TypeOK /\ env \in Surroundings /\ [HNext]_hvars
      => (TypeOK /\ env \in Surroundings)'
  <2>1. [Next]_vars /\ env \in Surroundings => (env \in Surroundings)'
    BY DEF Next, vars
  <2> QED BY <2>1, HistoryStep, TypeStep
<1> QED BY <1>1, <1>2, PTL DEF HSpec

-----------------------------------------------------------------------------
(* The turn *)

\* The rotation that has been added up leads from the heading the turn began at to
\* the one that was added last, if not to the number for it.
TurnInv ==
  state = "TURN_180" =>
    turnStart \in Yaws /\ SameHeading(turn.accum, turn.prev - turnStart)

\* The turn is entered and gone on with by the timer alone.
LEMMA TurnCases ==
  ASSUME TypeOK, Tick \/ Message \/ Shutdown
  PROVE  \/ TickTurn180
         \/ /\ state # "TURN_180"
            /\ state' = "TURN_180" => turn' = [prev |-> odom.yaw, accum |-> 0]
         \/ turn' = turn /\ state = "TURN_180" /\ state' # "FOLLOW_RETURN_PATH"
<1>1. CASE Shutdown
  BY <1>1 DEF Shutdown, vars
<1>2. CASE Message
  <2>1. CASE Stores
    <3>1. state' = state
      BY <2>1, StoresFrame
    <3>2. turn' = turn
      BY <2>1 DEF Stores, OnOdom, OnOrigin, OnRecordedPath, OnFollowCmd,
         OnVisualCorrection, OnFrame, OnLocalized, OnRecordTrigger, OnReturnTrigger
    <3> QED BY <3>1, <3>2
  <2>2. CASE OnEmergencyStop \/ OnCandidate
    BY <2>2 DEF OnEmergencyStop, OnCandidate
  <2>3. CASE OnLandmarkMissed
    BY <2>3 DEF OnLandmarkMissed, GoTo
  <2>4. CASE OnManual \/ OnAuto
    BY <2>4 DEF OnManual, OnAuto, GoTo
  <2>5. CASE \E r \in BOOLEAN : OnResumeResult(r)
    BY <2>5 DEF OnResumeResult, GoTo, Stay
  <2> QED BY <1>2, <2>1, <2>2, <2>3, <2>4, <2>5, MessageCases
<1>3. CASE Tick
  <2>1. CASE TickEmergency
    BY <2>1 DEF TickEmergency, Stay
  <2>2. CASE TickIdle \/ TickManualRecording \/ TickWaitReturnCommand
    BY <2>2 DEF TickIdle, TickManualRecording, TickWaitReturnCommand, Arm, GoTo, Stay
  <2>3. CASE TickStopBeforeTurn
    BY <2>3 DEF TickStopBeforeTurn, TurnFromHere, Arm, GoTo, Stay
  <2>4. CASE TickFollowReturnPath \/ TickPaused \/ TickFinished
    BY <2>4 DEF TickFollowReturnPath, TickPaused, TickFinished, Arm, GoTo, Stay
  <2>5. CASE TickLandmarkSearch
    BY <2>5 DEF TickLandmarkSearch, SearchFails, SearchSucceeds, GoTo
  <2>6. CASE TickResumeStop
    BY <2>6 DEF TickResumeStop, Arm, GoTo, Stay
  <2> QED BY <1>3, <2>1, <2>2, <2>3, <2>4, <2>5, <2>6 DEF Tick
<1> QED BY <1>1, <1>2, <1>3

\* Adding the turn since the last period leads on to the present heading.
LEMMA TurnOn ==
  ASSUME NEW start \in Int, NEW prev \in Int, NEW here \in Int, NEW sum \in Int,
         SameHeading(sum, prev - start)
  PROVE  SameHeading(sum + Norm(here - prev), here - start)
<1>1. Circle \in Int
  BY CircleAssumption
<1>2. PICK k \in Int : sum = prev - start + k * Circle
  BY DEF SameHeading
<1>3. PICK j \in Int : Norm(here - prev) = here - prev + j * Circle
  BY NormSame DEF SameHeading
<1>4. sum + Norm(here - prev) = here - start + (k + j) * Circle /\ k + j \in Int
  BY <1>1, <1>2, <1>3
<1> QED BY <1>4 DEF SameHeading

LEMMA TurnStep ==
  ASSUME TypeOK, TurnInv, [HNext]_hvars
  PROVE  /\ TurnInv'
         /\ state = "TURN_180" /\ state' = "FOLLOW_RETURN_PATH"
            => Norm(odom.yaw - turnStart) = Half
<1>0. /\ odom.yaw \in Yaws /\ odom.yaw \in Int /\ turn.prev \in Int
      /\ turn.accum \in Int /\ Half \in Int /\ Circle \in Int
      /\ \A y \in Yaws : y \in Int
  <2>1. odom.yaw \in Yaws /\ turn.prev \in Yaws /\ turn.accum \in Int
    BY DEF TypeOK, InputType, RouteType, Odometry
  <2>2. \A y \in Yaws : y \in Int
    BY CircleAssumption DEF Yaws
  <2>3. Half \in Int /\ Circle \in Int
    BY CircleAssumption, Division DEF Half
  <2> QED BY <2>1, <2>2, <2>3
<1>1. CASE UNCHANGED hvars
  BY <1>1 DEF hvars, vars, TurnInv
<1>2. CASE \E v \in env.buttons : HButton(v)
  BY <1>2 DEF HButton, OnRecordTrigger, OnReturnTrigger, TurnInv
<1>3. CASE HStep
  <2>1. CASE TickTurn180
    <3> DEFINE accum == turn.accum + Norm(odom.yaw - turn.prev)
    <3>1. /\ state = "TURN_180" /\ turn' = [prev |-> odom.yaw, accum |-> accum]
          /\ state' = "FOLLOW_RETURN_PATH" => TurnSign * Half - accum = 0
      BY <2>1 DEF TickTurn180, Arm, Stay
    <3>2. turnStart' = turnStart /\ turnStart \in Yaws /\ turnStart \in Int
      BY <1>0, <1>3, <3>1 DEF HStep, TurnInv
    <3>3. SameHeading(accum, odom.yaw - turnStart) /\ accum \in Int
      <4>1. SameHeading(turn.accum, turn.prev - turnStart)
        BY <3>1 DEF TurnInv
      <4>2. SameHeading(accum, odom.yaw - turnStart)
        BY <1>0, <3>2, <4>1, TurnOn
      <4>3. odom.yaw - turn.prev \in Int
        BY <1>0
      <4>4. Norm(odom.yaw - turn.prev) \in Int
        BY <4>3, NormType
      <4> QED BY <1>0, <4>2, <4>4
    <3> HIDE DEF accum
    <3>4. TurnInv'
      BY <3>1, <3>2, <3>3 DEF TurnInv
    <3>5. ASSUME state' = "FOLLOW_RETURN_PATH"
          PROVE  Norm(odom.yaw - turnStart) = Half
      <4>1. accum = Half \/ accum = -Half
        <5>1. TurnSign = 1 \/ TurnSign = -1
          BY MissionAssumption
        <5>2. TurnSign * Half - accum = 0
          BY <3>1, <3>5
        <5> HIDE DEF Half
        <5> QED BY <1>0, <3>3, <5>1, <5>2
      <4>2. PICK k \in Int : accum = odom.yaw - turnStart + k * Circle
        BY <3>3 DEF SameHeading
      <4>3. odom.yaw - turnStart = accum + (-k) * Circle /\ -k \in Int
        BY <1>0, <3>2, <3>3, <4>2
      <4>4. SameHeading(odom.yaw - turnStart, accum)
        BY <4>3 DEF SameHeading
      <4>5. odom.yaw - turnStart \in Int
        BY <1>0, <3>2
      <4> QED BY <4>1, <4>4, <4>5, NormHalf
    <3> QED BY <3>4, <3>5
  <2>2. CASE state # "TURN_180" /\ (state' = "TURN_180" => turn' = [prev |-> odom.yaw, accum |-> 0])
    <3>1. SUFFICES ASSUME state' = "TURN_180" PROVE TurnInv'
      BY <2>2 DEF TurnInv
    <3>2. turnStart' = odom.yaw /\ turn' = [prev |-> odom.yaw, accum |-> 0]
      BY <1>3, <2>2, <3>1 DEF HStep
    <3>3. 0 = odom.yaw - odom.yaw + 0 * Circle
      BY <1>0
    <3>4. SameHeading(0, odom.yaw - odom.yaw)
      BY <3>3 DEF SameHeading
    <3> QED BY <1>0, <3>2, <3>4 DEF TurnInv
  <2>3. CASE turn' = turn /\ state = "TURN_180" /\ state' # "FOLLOW_RETURN_PATH"
    BY <1>3, <2>3 DEF HStep, TurnInv
  <2> QED BY <1>3, <2>1, <2>2, <2>3, TurnCases DEF HStep
<1> QED BY <1>1, <1>2, <1>3 DEF HNext

\* However the heading moved during the turn, it ends opposite to where it began.
THEOREM TurnEndsOpposite == HSpec => TurnedAround
<1> DEFINE Step == state = "TURN_180" /\ state' = "FOLLOW_RETURN_PATH"
                   => Norm(odom.yaw - turnStart) = Half
<1>1. HInit => TurnInv
  BY DEF HInit, Init, TurnInv
<1>2. TypeOK /\ TurnInv /\ [HNext]_hvars => TurnInv' /\ [Step]_hvars
  BY TurnStep
<1>3. HSpec => [][Step]_hvars
  BY HistoryType, <1>1, <1>2, PTL DEF HSpec
<1> QED BY <1>3 DEF TurnedAround

-----------------------------------------------------------------------------
(* The starts *)

\* A trigger that waits to be obeyed in a state that obeys it was heard True there.
PressInv ==
  /\ heardHere \in [record : BOOLEAN, return : BOOLEAN]
  /\ state = "IDLE" /\ press.record.pending => heardHere.record
  /\ state = "WAIT_RETURN_COMMAND" /\ press.return.pending => heardHere.return

StartStep ==
  /\ state = "IDLE" /\ state' = "MANUAL_RECORDING" => heardHere.record
  /\ state = "WAIT_RETURN_COMMAND" /\ state' = "STOP_BEFORE_TURN" => heardHere.return

\* What the callbacks and the timer do with the presses: they keep them, or change
\* the state, to one that does not wait for the press or that has forgotten it.
LEMMA PressCases ==
  ASSUME TypeOK, Tick \/ Message \/ Shutdown
  PROVE  /\ \/ press' = press /\ state' = state
            \/ state' # state
            \/ state \notin {"IDLE", "WAIT_RETURN_COMMAND"} /\ state' = state
         /\ state' # state /\ state' = "IDLE" => ~press'.record.pending
         /\ state' # state /\ state' = "WAIT_RETURN_COMMAND" => ~press'.return.pending
         /\ state = "IDLE" /\ state' # state =>
              state' = "MANUAL_RECORDING" /\ press.record.pending
         /\ state = "WAIT_RETURN_COMMAND" /\ state' # state => press.return.pending
<1>1. CASE Shutdown
  BY <1>1 DEF Shutdown, vars
<1>2. CASE Message
  <2>1. CASE \/ \E o \in env.odoms : OnOdom(o)
             \/ \E o \in env.origins : OnOrigin(o)
             \/ \E p \in env.paths : OnRecordedPath(p)
             \/ \E c \in env.commands : OnFollowCmd(c)
             \/ \E s \in env.stamps : OnVisualCorrection(s) \/ OnFrame(s) \/ OnLocalized(s)
    BY <2>1 DEF OnOdom, OnOrigin, OnRecordedPath, OnFollowCmd,
         OnVisualCorrection, OnFrame, OnLocalized
  <2>2. CASE OnEmergencyStop \/ OnCandidate
    BY <2>2 DEF OnEmergencyStop, OnCandidate
  <2>3. CASE OnLandmarkMissed
    BY <2>3 DEF OnLandmarkMissed, GoTo
  <2>4. CASE OnManual \/ OnAuto
    BY <2>4 DEF OnManual, OnAuto, GoTo, Active
  <2>5. CASE \E r \in BOOLEAN : OnResumeResult(r)
    BY <2>5 DEF OnResumeResult, GoTo, Stay
  <2> QED BY <1>2, <2>1, <2>2, <2>3, <2>4, <2>5 DEF Message
<1>3. CASE Tick
  <2>1. CASE TickEmergency
    BY <2>1 DEF TickEmergency, Stay
  <2>2. CASE TickIdle
    BY <2>2 DEF TickIdle, Arm, GoTo, Stay
  <2>3. CASE TickManualRecording
    <3>1. state = "MANUAL_RECORDING"
      BY <2>3 DEF TickManualRecording, Arm
    <3>2. state' = state \/ GoTo("WAIT_RETURN_COMMAND", Aged, Absorbed)
      BY <2>3 DEF TickManualRecording
    <3>3. Absorbed.return = [press.return EXCEPT !.pending = FALSE]
      BY DEF Absorbed, TypeOK, InputType, Presses
    <3>4. ASSUME GoTo("WAIT_RETURN_COMMAND", Aged, Absorbed)
          PROVE  ~press'.return.pending /\ state' = "WAIT_RETURN_COMMAND"
      <4>1. /\ press'.return = [Absorbed.return EXCEPT !.prev = FALSE]
            /\ state' = "WAIT_RETURN_COMMAND"
        BY <3>4 DEF GoTo
      <4>2. press.return \in [pending : BOOLEAN, prev : BOOLEAN]
        BY DEF TypeOK, InputType, Presses, Trigger
      <4> QED BY <3>3, <4>1, <4>2
    <3> QED BY <3>1, <3>2, <3>4
  <2>4. CASE TickWaitReturnCommand
    BY <2>4 DEF TickWaitReturnCommand, Arm, GoTo, Stay
  <2>5. CASE TickStopBeforeTurn \/ TickTurn180
    BY <2>5 DEF TickStopBeforeTurn, TickTurn180, Arm, GoTo, Stay
  <2>6. CASE TickFollowReturnPath \/ TickPaused \/ TickFinished
    BY <2>6 DEF TickFollowReturnPath, TickPaused, TickFinished, NoPress, Arm, GoTo, Stay
  <2>7. CASE TickLandmarkSearch
    BY <2>7 DEF TickLandmarkSearch, SearchFails, SearchSucceeds, GoTo
  <2>8. CASE TickResumeStop
    BY <2>8 DEF TickResumeStop, Arm, GoTo, Stay
  <2> QED BY <1>3, <2>1, <2>2, <2>3, <2>4, <2>5, <2>6, <2>7, <2>8 DEF Tick
<1> QED BY <1>1, <1>2, <1>3

LEMMA PressStep ==
  ASSUME TypeOK, env \in Surroundings, PressInv, [HNext]_hvars
  PROVE  PressInv' /\ [StartStep]_hvars
<1>1. CASE UNCHANGED hvars
  BY <1>1 DEF hvars, vars, PressInv
<1>2. CASE \E v \in env.buttons : HButton(v)
  <2>1. PICK v \in BOOLEAN : HButton(v)
    BY <1>2, InputTypes
  <2>2. state' = state
    BY <2>1 DEF HButton, OnRecordTrigger, OnReturnTrigger
  <2>3. \/ /\ press' = [press EXCEPT !.record = Pressed(@, v)]
           /\ heardHere' = [heardHere EXCEPT !.record = state = "IDLE" /\ (@ \/ v)]
        \/ /\ press' = [press EXCEPT !.return = Pressed(@, v)]
           /\ heardHere' = [heardHere EXCEPT !.return = state = "WAIT_RETURN_COMMAND" /\ (@ \/ v)]
    BY <2>1 DEF HButton, OnRecordTrigger, OnReturnTrigger
  <2>4. press \in Presses
    BY DEF TypeOK, InputType
  <2>5. heardHere \in [record : BOOLEAN, return : BOOLEAN]
    BY DEF PressInv
  <2>6. PressInv'
    <3>1. CASE /\ press' = [press EXCEPT !.record = Pressed(@, v)]
               /\ heardHere' = [heardHere EXCEPT !.record = state = "IDLE" /\ (@ \/ v)]
      <4>1. press'.record.pending => press.record.pending \/ v
        BY <2>4, <3>1 DEF Pressed, Presses
      <4>2. press'.return = press.return
        BY <2>4, <3>1 DEF Presses
      <4>3. /\ state = "IDLE" /\ (heardHere.record \/ v) => heardHere'.record
            /\ heardHere'.return = heardHere.return
            /\ heardHere' \in [record : BOOLEAN, return : BOOLEAN]
        BY <2>5, <3>1
      <4> QED BY <2>2, <4>1, <4>2, <4>3 DEF PressInv
    <3>2. CASE /\ press' = [press EXCEPT !.return = Pressed(@, v)]
               /\ heardHere' = [heardHere EXCEPT !.return = state = "WAIT_RETURN_COMMAND" /\ (@ \/ v)]
      <4>1. press'.return.pending => press.return.pending \/ v
        BY <2>4, <3>2 DEF Pressed, Presses
      <4>2. press'.record = press.record
        BY <2>4, <3>2 DEF Presses
      <4>3. /\ state = "WAIT_RETURN_COMMAND" /\ (heardHere.return \/ v) => heardHere'.return
            /\ heardHere'.record = heardHere.record
            /\ heardHere' \in [record : BOOLEAN, return : BOOLEAN]
        BY <2>5, <3>2
      <4> QED BY <2>2, <4>1, <4>2, <4>3 DEF PressInv
    <3> QED BY <2>3, <3>1, <3>2
  <2> QED BY <2>2, <2>6 DEF StartStep
<1>3. CASE HStep
  <2>1. heardHere' = IF state' # state THEN NothingHeard ELSE heardHere
    BY <1>3 DEF HStep
  <2>2. NothingHeard \in [record : BOOLEAN, return : BOOLEAN]
    BY DEF NothingHeard
  <2> QED BY <1>3, <2>1, <2>2, PressCases DEF HStep, PressInv, StartStep
<1> QED BY <1>1, <1>2, <1>3 DEF HNext

\* Recording and return begin only on a True heard since the state that waits for it
\* was entered, however often the buttons were pressed, held and released before: a
\* press that came too early starts nothing unless its True is sent again there.
THEOREM StartsAnswerMessages == HSpec => StartsOnTrueHeardInPlace
<1>1. HInit => PressInv
  <2> SUFFICES ASSUME HInit PROVE PressInv
    OBVIOUS
  <2>1. state = "IDLE" /\ press = [record |-> NoPress, return |-> NoPress]
    BY DEF HInit, Init
  <2>2. heardHere = NothingHeard
    BY DEF HInit
  <2> QED BY <2>1, <2>2 DEF NoPress, NothingHeard, PressInv
<1>2. TypeOK /\ env \in Surroundings /\ PressInv /\ [HNext]_hvars
      => PressInv' /\ [StartStep]_hvars
  BY PressStep
<1>3. HSpec => [][StartStep]_hvars
  BY HistoryType, <1>1, <1>2, PTL DEF HSpec
<1> QED BY <1>3 DEF StartsOnTrueHeardInPlace, StartStep
=============================================================================
