--------------------------- MODULE PathFollowerProofs ---------------------------
(***************************************************************************)
(* The window the follower searches never closes, and no corner is skipped, *)
(* on every path, whatever interrupts it.                                  *)
(***************************************************************************)
EXTENDS PathFollowerHistory, FiniteSetTheorems, WellFoundedInduction, TLAPS

LEMMA Constants ==
  /\ Circle \in Nat /\ Circle > 1 /\ Routes \subseteq Seq(Yaws) /\ Headings \subseteq Yaws
  /\ Origins \subseteq Yaws /\ Corrections \subseteq Yaws
  /\ LandmarkCount \in Nat /\ OdomTimeout \in Nat /\ RotateSettle \in Nat /\ StampFresh \in Nat
  /\ MissWait \in Nat /\ Turn \in Nat
  /\ MinSpeed \in Nat /\ Speed \in Nat /\ MinRotate \in Nat /\ MaxRotate \in Nat
  BY FollowerAssumption

-----------------------------------------------------------------------------
(* The least and the largest of a set, headings and corners *)

LEMMA LeastFacts == ASSUME NEW S, S \subseteq Nat, S # {} PROVE Min(S) \in S
<1> DEFINE Below == OpToRel(<, Nat)
<1>1. IsWellFoundedOn(Below, Nat)
  BY NatLessThanWellFounded
<1>2. PICK x \in S : \A y \in S : ~(<<y, x>> \in Below)
  <2> HIDE DEF Below
  <2> QED BY <1>1, WFMin
<1>3. \A y \in S : ~(y < x)
  BY <1>2 DEF OpToRel
<1>4. \A y \in S : x <= y
  BY <1>3
<1> QED BY <1>4 DEF Min

LEMMA PairFacts ==
  ASSUME NEW a \in Int, NEW b \in Int
  PROVE  /\ Max({a, b}) = IF a >= b THEN a ELSE b
         /\ Min({a, b}) = IF a <= b THEN a ELSE b
<1>1. Max({a, b}) \in {a, b} /\ Max({a, b}) >= a /\ Max({a, b}) >= b
  <2>1. \E x \in {a, b} : \A y \in {a, b} : x >= y
    BY a >= b \/ b >= a
  <2> QED BY <2>1 DEF Max
<1>2. Min({a, b}) \in {a, b} /\ Min({a, b}) <= a /\ Min({a, b}) <= b
  <2>1. \E x \in {a, b} : \A y \in {a, b} : x <= y
    BY a >= b \/ b >= a
  <2> QED BY <2>1 DEF Min
<1> QED BY <1>1, <1>2

LEMMA HeadingType ==
  ASSUME path \in Seq(Yaws), NEW i \in 1 .. Len(path) PROVE Heading(i) \in Yaws
<1>1. path[i] \in Yaws
  OBVIOUS
<1>2. \A x \in Int : x % Circle \in Yaws
  BY Constants DEF Yaws
<1>3. path[i] \in Int /\ path[i] + Circle \div 2 \in Int
  BY <1>1, Constants DEF Yaws
<1> QED BY <1>1, <1>2, <1>3 DEF Heading

\* Corners of a higher rank lie further on.
LEMMA CornerFacts ==
  ASSUME path \in Seq(Yaws)
  PROVE  /\ Corners \subseteq 2 .. Len(path) - 1
         /\ \A c, d \in Corners : Rank(c) < Rank(d) => c < d
         /\ \/ NextCorner = None
            \/ NextCorner \in Corners /\ Rank(NextCorner) = ptr
<1>1. Corners \subseteq 2 .. Len(path) - 1
  BY DEF Corners
<1>2. IsFiniteSet(Corners)
  <2>1. IsFiniteSet(2 .. Len(path) - 1)
    <3>1. 2 \in Int /\ Len(path) - 1 \in Int
      OBVIOUS
    <3> QED BY <3>1, FS_Interval
  <2> QED BY <1>1, <2>1, FS_Subset
<1>3. \A c \in Corners : IsFiniteSet({d \in Corners : d < c}) /\ Rank(c) \in Nat
  <2>1. \A c \in Corners : {d \in Corners : d < c} \in SUBSET Corners
    OBVIOUS
  <2> QED BY <1>2, <2>1, FS_Subset, FS_CardinalityType DEF Rank
<1>4. ASSUME NEW c \in Corners, NEW d \in Corners, ~(c < d) PROVE Rank(d) <= Rank(c)
  <2>1. \A e \in Corners : e \in Int
    BY <1>1
  <2>2. \A e \in Corners : e < d => e < c
    BY <1>4, <2>1
  <2>3. {e \in Corners : e < d} \in SUBSET {e \in Corners : e < c}
    BY <2>2
  <2> QED BY <1>3, <2>3, FS_Subset DEF Rank
<1>5. \A c, d \in Corners : Rank(c) < Rank(d) => c < d
  <2> SUFFICES ASSUME NEW c \in Corners, NEW d \in Corners, Rank(c) < Rank(d)
               PROVE  c < d
    OBVIOUS
  <2>1. ASSUME ~(c < d) PROVE FALSE
    <3>1. Rank(d) <= Rank(c)
      BY <1>4, <2>1
    <3>2. Rank(c) \in Nat /\ Rank(d) \in Nat
      BY <1>3
    <3> QED BY <3>1, <3>2
  <2> QED BY <2>1
<1>6. NextCorner = None \/ (NextCorner \in Corners /\ Rank(NextCorner) = ptr)
  BY DEF NextCorner
<1> QED BY <1>1, <1>5, <1>6

-----------------------------------------------------------------------------
(* The invariant *)

\* A pause leaves nothing to go on with: the mission follows again only with a new
\* path or a ready answer, which both start with tracking.
PauseOK == granted /\ mission # Following => drive.mode = "TRACK_PATH"

\* A rotation that goes on toward a corner began where that corner was reached.
ReachedOK == mission = Following /\ drive.mode = "ROTATE_TO_PATH" /\ drive.corner # None
               => stoppedAt = drive.corner

FollowerOK == TypeOK /\ WindowOpen /\ StartsFromRest /\ PauseOK /\ ReachedOK

\* The window, on a path that has one
WindowFacts == Len(path) >= 2 => /\ Lo \in Nat /\ Hi \in 1 .. Len(path)
                                 /\ floor \in 1 .. Len(path) - 1
                                 /\ NextCorner # None => NextCorner - 1 \in 1 .. Len(path)

LEMMA WindowBounds == ASSUME TypeOK, WindowOpen PROVE WindowFacts
<1> SUFFICES ASSUME Len(path) >= 2
             PROVE  /\ Lo \in Nat /\ Hi \in 1 .. Len(path)
                    /\ floor \in 1 .. Len(path) - 1
                    /\ NextCorner # None => NextCorner - 1 \in 1 .. Len(path)
  BY DEF WindowFacts
<1>1. path \in Seq(Yaws) /\ floor \in Nat /\ progress \in Nat /\ Len(path) \in Nat
  <2>1. path \in Seq(Yaws) /\ floor \in Nat /\ progress \in Nat
    BY DEF TypeOK
  <2> QED BY <2>1
<1>2. /\ \A c \in Corners : c \in 2 .. Len(path) - 1
      /\ NextCorner # None => NextCorner \in 2 .. Len(path) - 1
  <2>1. Corners \subseteq 2 .. Len(path) - 1 /\ (NextCorner = None \/ NextCorner \in Corners)
    BY <1>1, CornerFacts
  <2> QED BY <2>1
<1>3. Lo = IF floor >= progress - 1 THEN floor ELSE progress - 1
  BY <1>1, PairFacts DEF Lo
<1>4. Lo < Hi /\ (IF ptr = 0 THEN floor = 1 ELSE floor \in Corners)
  BY DEF WindowOpen
<1>5. Hi \in 1 .. Len(path)
  BY <1>1, <1>2 DEF Hi
<1>6. floor \in 1 .. Len(path) - 1
  <2>1. floor \in 2 .. Len(path) - 1 \/ floor = 1
    BY <1>2, <1>4
  <2> QED BY <1>1, <2>1
<1>7. NextCorner # None => NextCorner - 1 \in 1 .. Len(path)
  BY <1>1, <1>2
<1>8. Lo \in Nat
  BY <1>1, <1>3
<1> QED BY <1>5, <1>6, <1>7, <1>8

\* What a tick may do to the drive
LEMMA CheckedFacts ==
  ASSUME TypeOK, WindowOpen, Len(path) >= 2,
         NEW nearest \in Lo .. Hi, NEW reached \in BOOLEAN
  PROVE  LET d == Checked(nearest, reached)
         IN  /\ d \in Drive
             /\ d.mode = "ROTATE_TO_PATH" => d.target \in Yaws
             /\ \/ d = drive
                \/ /\ drive.mode = "TRACK_PATH" /\ d.mode = "ROTATE_TO_PATH"
                   /\ d.corner \in {NextCorner, None}
<1>1. /\ path \in Seq(Yaws) /\ drive \in Drive /\ Len(path) \in Nat
      /\ drive.mode = "ROTATE_TO_PATH" => drive.target \in Yaws
  <2>1. /\ path \in Seq(Yaws) /\ drive \in Drive
        /\ drive.mode = "ROTATE_TO_PATH" => drive.target \in Yaws
    BY DEF TypeOK
  <2> QED BY <2>1
<1>2. /\ Lo \in Nat /\ Hi \in 1 .. Len(path) /\ floor \in 1 .. Len(path) - 1
      /\ NextCorner # None => NextCorner - 1 \in 1 .. Len(path)
  BY WindowBounds DEF WindowFacts
<1>3. NextCorner = None \/ NextCorner \in 2 .. Len(path) - 1
  BY <1>1, CornerFacts
<1> DEFINE before == IF NextCorner # None THEN Min({nearest, NextCorner - 1}) ELSE nearest
           segment == Max({floor, before})
<1>4. segment \in 1 .. Len(path)
  <2>1. nearest \in Nat /\ nearest <= Len(path)
    BY <1>1, <1>2
  <2>2. before \in Nat /\ before <= Len(path)
    <3>1. CASE NextCorner = None
      BY <2>1, <3>1
    <3>2. CASE NextCorner # None
      <4>1. PICK k \in 1 .. Len(path) : k = NextCorner - 1
        BY <1>2, <3>2
      <4>2. Min({nearest, k}) = IF nearest <= k THEN nearest ELSE k
        <5>1. k \in Int /\ nearest \in Int
          BY <1>1, <2>1
        <5> QED BY <5>1, PairFacts
      <4>3. before = Min({nearest, k})
        BY <3>2, <4>1
      <4> QED BY <1>1, <2>1, <4>1, <4>2, <4>3
    <3> QED BY <3>1, <3>2
  <2> HIDE DEF before
  <2> QED BY <2>2, <1>1, <1>2, PairFacts
<1>5. ASSUME NEW t \in Yaws, NEW c \in Nat \cup {None}
      PROVE  /\ EnterRotate(t, c) \in Drive
             /\ EnterRotate(t, c).mode = "ROTATE_TO_PATH"
             /\ EnterRotate(t, c).target = t /\ EnterRotate(t, c).corner = c
  BY DEF EnterRotate, Drive
<1>6. /\ Heading(segment) \in Yaws
      /\ NextCorner # None => Heading(NextCorner) \in Yaws /\ NextCorner \in Nat
  <2> HIDE DEF segment
  <2>1. NextCorner # None => NextCorner \in 1 .. Len(path) /\ NextCorner \in Nat
    BY <1>1, <1>3
  <2> QED BY <1>1, <1>4, <2>1, HeadingType
<1>7. \/ Checked(nearest, reached) = drive
      \/ /\ drive.mode = "TRACK_PATH"
         /\ \/ NextCorner # None /\ Checked(nearest, reached) = EnterRotate(Heading(NextCorner), NextCorner)
            \/ Checked(nearest, reached) = EnterRotate(Heading(segment), None)
  BY DEF Checked
<1> HIDE DEF segment
<1>8. CASE Checked(nearest, reached) = drive
  BY <1>1, <1>8
<1>9. CASE /\ drive.mode = "TRACK_PATH" /\ NextCorner # None
           /\ Checked(nearest, reached) = EnterRotate(Heading(NextCorner), NextCorner)
  <2>1. NextCorner \in Nat \cup {None}
    BY <1>6, <1>9
  <2> QED BY <1>5, <1>6, <1>9, <2>1
<1>10. CASE /\ drive.mode = "TRACK_PATH"
            /\ Checked(nearest, reached) = EnterRotate(Heading(segment), None)
  <2>1. None \in Nat \cup {None}
    OBVIOUS
  <2>2. PICK t \in Yaws : t = Heading(segment)
    BY <1>6
  <2>3. /\ EnterRotate(t, None) \in Drive /\ EnterRotate(t, None).mode = "ROTATE_TO_PATH"
        /\ EnterRotate(t, None).target = t /\ EnterRotate(t, None).corner = None
    BY <1>5, <2>1
  <2> QED BY <1>10, <2>2, <2>3
<1> QED BY <1>7, <1>8, <1>9, <1>10

-----------------------------------------------------------------------------
(* Steps that leave the window alone *)

\* Whatever keeps the path, the corners handled and the progress keeps the window,
\* and may end a rotation or let it stand still.
LEMMA WindowKept ==
  ASSUME WindowOpen, UNCHANGED <<path, ptr, progress, floor>>,
         \/ drive'.mode = "TRACK_PATH"
         \/ drive'.mode = drive.mode /\ drive'.corner = drive.corner
  PROVE  WindowOpen'
<1>1. UNCHANGED <<Corners, Lo, Hi, NextCorner>>
  BY DEF Corners, Lo, Hi, NextCorner, Rank
<1>2. Rank(floor)' = Rank(floor)
  BY DEF Rank, Corners
<1> QED BY <1>1, <1>2 DEF WindowOpen

LEMMA RestFacts ==
  ASSUME NEW d \in Drive
  PROVE  /\ Resting(d) \in Drive /\ Resting(d).mode = d.mode /\ Resting(d).corner = d.corner
         /\ Resting(d).target = d.target /\ Resting(d).v = 0 /\ Resting(d).w = 0
         /\ [d EXCEPT !.mode = "TRACK_PATH"] \in Drive
         /\ [d EXCEPT !.mode = "TRACK_PATH"].mode = "TRACK_PATH"
         /\ [d EXCEPT !.mode = "TRACK_PATH"].v = d.v /\ [d EXCEPT !.mode = "TRACK_PATH"].w = d.w
         /\ NewDrive \in Drive /\ NewDrive.mode = "TRACK_PATH" /\ NewDrive.v = 0 /\ NewDrive.w = 0
<1>1. /\ Resting(d) \in Drive /\ Resting(d).mode = d.mode /\ Resting(d).corner = d.corner
      /\ Resting(d).target = d.target /\ Resting(d).v = 0 /\ Resting(d).w = 0
  <2>1. 0 \in Int
    OBVIOUS
  <2>2. [d EXCEPT !.v = 0, !.w = 0] \in Drive
    BY <2>1 DEF Drive
  <2> QED BY <2>2 DEF Resting, Drive
<1>2. /\ [d EXCEPT !.mode = "TRACK_PATH"] \in Drive
      /\ [d EXCEPT !.mode = "TRACK_PATH"].mode = "TRACK_PATH"
      /\ [d EXCEPT !.mode = "TRACK_PATH"].v = d.v /\ [d EXCEPT !.mode = "TRACK_PATH"].w = d.w
  BY DEF Drive
<1>3. NewDrive \in Drive /\ NewDrive.mode = "TRACK_PATH" /\ NewDrive.v = 0 /\ NewDrive.w = 0
  BY DEF NewDrive, Drive
<1> QED BY <1>1, <1>2, <1>3

AgeType == [odom : Nat \cup {None}, settle : Nat \cup {None}, origin : Nat]
WatchType == [references : SUBSET Landmarks, seen : SUBSET Landmarks,
              attempted : SUBSET Landmarks, near : [Landmarks -> Nat \cup {None}]]

LEMMA LaterType == ASSUME NEW a \in Nat \cup {None}, NEW b \in Nat
                   PROVE  Later(a, b) \in Nat \cup {None} /\ (a \in Nat => Later(a, b) \in Nat)
  BY DEF Later, None

LEMMA AgedType ==
  ASSUME age \in AgeType, watch \in WatchType
  PROVE  /\ Aged \in AgeType /\ AgedNear \in [Landmarks -> Nat \cup {None}]
         /\ [watch EXCEPT !.near = AgedNear] \in WatchType
<1>1. age.odom \in Nat \cup {None} /\ age.settle \in Nat \cup {None} /\ age.origin \in Nat
  BY DEF AgeType
<1>2. OdomTimeout + 1 \in Nat /\ RotateSettle \in Nat /\ StampFresh \in Nat /\ MissWait \in Nat
  BY Constants
<1>3. \A l \in Landmarks : watch.near[l] \in Nat \cup {None}
  BY DEF WatchType
<1>4. Aged \in AgeType
  <2>1. /\ Later(age.odom, OdomTimeout + 1) \in Nat \cup {None}
        /\ Later(age.settle, RotateSettle) \in Nat \cup {None}
        /\ Later(age.origin, StampFresh) \in Nat
    BY <1>1, <1>2, LaterType
  <2> QED BY <2>1 DEF Aged, AgeType
<1>5. AgedNear \in [Landmarks -> Nat \cup {None}]
  BY <1>2, <1>3, LaterType DEF AgedNear
<1> QED BY <1>4, <1>5 DEF WatchType

LEMMA WatchTypes ==
  ASSUME age \in AgeType, watch \in WatchType, NEW near \in 0 .. LandmarkCount,
         NEW passed \in 0 .. near
  PROVE  /\ Missed(passed, near) \in Landmarks \cup {None}
         /\ \A l \in Landmarks \cup {None} : WatchAfter(l, near) \in WatchType
<1>1. AgedNear \in [Landmarks -> Nat \cup {None}]
  BY AgedType
<1>2. Candidates \subseteq Landmarks
  BY DEF Candidates, WatchType
<1>3. Missed(passed, near) \in Landmarks \cup {None}
  <2> DEFINE due == {l \in Candidates : l <= near /\ (l <= passed \/ AgedNear[l] = MissWait)}
  <2>1. due \subseteq Landmarks /\ due \subseteq Nat
    <3>1. Landmarks \subseteq Nat
      BY Constants DEF Landmarks
    <3>2. due \subseteq Candidates
      OBVIOUS
    <3> HIDE DEF due
    <3> QED BY <1>2, <3>1, <3>2
  <2>2. Missed(passed, near) = IF due = {} THEN None ELSE Min(due)
    BY DEF Missed
  <2> HIDE DEF due
  <2> QED BY <2>1, <2>2, LeastFacts
<1>4. ASSUME NEW l \in Landmarks \cup {None} PROVE WatchAfter(l, near) \in WatchType
  <2> DEFINE a == watch.attempted \cup Attempt(l)
             n == [k \in Landmarks |->
                    CASE k \notin Candidates \/ (l # None /\ k > l) -> AgedNear[k]
                      [] OTHER -> IF k > near THEN None
                                  ELSE IF AgedNear[k] = None THEN 0 ELSE AgedNear[k]]
  <2>1. a \in SUBSET Landmarks
    BY DEF WatchType, Attempt
  <2>2. \A k \in Landmarks : AgedNear[k] \in Nat \cup {None}
    BY <1>1
  <2>3. n \in [Landmarks -> Nat \cup {None}]
    BY <2>2
  <2>4. WatchAfter(l, near) = [watch EXCEPT !.attempted = a, !.near = n]
    BY DEF WatchAfter
  <2> HIDE DEF a, n
  <2> QED BY <2>1, <2>3, <2>4 DEF WatchType
<1> QED BY <1>3, <1>4

-----------------------------------------------------------------------------
(* The subscriptions *)

\* Everything but what the window and the invariants of a pause speak of
RestOK ==
  /\ cmd \in [v : Int, w : Int] /\ odom \in Yaws
  /\ origin \in Yaws \cup {None} /\ correction \in Yaws \cup {None}
  /\ age \in AgeType /\ watch \in WatchType
  /\ hold \in Landmarks \cup {None} /\ granted \in BOOLEAN
PathOK == path \in Seq(Yaws) /\ ptr \in Nat /\ progress \in Nat /\ floor \in Nat
DriveOK == drive \in Drive /\ (drive.mode = "ROTATE_TO_PATH" => drive.target \in Yaws)
MissionOK == mission \in MissionStates \cup {""}

LEMMA TypeParts ==
  /\ TypeOK <=> RestOK /\ PathOK /\ DriveOK /\ MissionOK
  /\ TypeOK' <=> RestOK' /\ PathOK' /\ DriveOK' /\ MissionOK'
  BY DEF TypeOK, RestOK, PathOK, DriveOK, MissionOK, AgeType, WatchType

\* What a callback leaves, but for a new path: the drive at most stands still, goes back
\* to tracking, or starts anew.
Interrupted ==
  \/ drive' = drive
  \/ drive' = Resting(drive)
  \/ drive' = [drive EXCEPT !.mode = "TRACK_PATH"]
  \/ drive' = [Resting(drive) EXCEPT !.mode = "TRACK_PATH"]
  \/ drive' = NewDrive

LEMMA InterruptedFacts ==
  ASSUME DriveOK, Interrupted
  PROVE  /\ DriveOK'
         /\ \/ drive'.mode = "TRACK_PATH"
            \/ drive'.mode = drive.mode /\ drive'.corner = drive.corner
         /\ \/ drive'.v = drive.v /\ drive'.w = drive.w
            \/ drive'.v = 0 /\ drive'.w = 0
<1>1. drive \in Drive
  BY DEF DriveOK
<1>2. PICK d \in Drive : d = drive
  BY <1>1
<1>3. PICK e \in Drive : /\ e = Resting(d) /\ e.mode = d.mode /\ e.corner = d.corner
                         /\ e.target = d.target /\ e.v = 0 /\ e.w = 0
  BY RestFacts
<1>4. \/ drive' = d \/ drive' = e \/ drive' = [d EXCEPT !.mode = "TRACK_PATH"]
      \/ drive' = [e EXCEPT !.mode = "TRACK_PATH"] \/ drive' = NewDrive
  BY <1>2, <1>3 DEF Interrupted
<1>5. CASE drive' = d \/ drive' = e
  BY <1>2, <1>3, <1>5 DEF DriveOK
<1>6. CASE drive' = [d EXCEPT !.mode = "TRACK_PATH"] \/ drive' = [e EXCEPT !.mode = "TRACK_PATH"]
  <2>1. drive' \in Drive /\ drive'.mode = "TRACK_PATH"
    BY <1>6, RestFacts
  <2>2. (drive'.v = d.v /\ drive'.w = d.w) \/ (drive'.v = 0 /\ drive'.w = 0)
    BY <1>3, <1>6, RestFacts
  <2> QED BY <1>2, <2>1, <2>2 DEF DriveOK
<1>7. CASE drive' = NewDrive
  BY <1>7, RestFacts DEF DriveOK
<1> QED BY <1>4, <1>5, <1>6, <1>7

LEMMA CallbackTypes ==
  ASSUME RestOK,
         \/ \E p \in Routes : OnReturnPath(p)
         \/ \E yaw \in Headings : OnOdom(yaw)
         \/ \E o \in Origins : OnOrigin(o)
         \/ \E c \in Corrections, s \in Stamps : OnVisualCorrection(c, s)
         \/ \E l \in Landmarks : OnReferenceLoaded(l) \/ OnLocalized(l)
         \/ \E s \in MissionStates : OnMissionState(s)
         \/ \E r \in BOOLEAN : OnResumeRequest(r)
  PROVE  RestOK'
<1> USE DEF RestOK
<1>0. /\ [age EXCEPT !.settle = None] \in AgeType /\ [age EXCEPT !.odom = 0] \in AgeType
      /\ [age EXCEPT !.origin = 0] \in AgeType
  BY DEF AgeType
<1>1. CASE \E p \in Routes : OnReturnPath(p)
  BY <1>0, <1>1 DEF OnReturnPath
<1>2. CASE \E yaw \in Headings : OnOdom(yaw)
  BY <1>0, <1>2, Constants DEF OnOdom
<1>3. CASE \E o \in Origins : OnOrigin(o)
  <2>1. PICK o \in Origins : OnOrigin(o)
    BY <1>3
  <2>2. age' \in AgeType
    <3>1. age' = [age EXCEPT !.origin = IF o = origin THEN age.origin ELSE 0]
      BY <2>1 DEF OnOrigin
    <3> QED BY <3>1 DEF AgeType
  <2> QED BY <2>1, <2>2, Constants DEF OnOrigin
<1>4. CASE \E c \in Corrections, s \in Stamps : OnVisualCorrection(c, s)
  BY <1>0, <1>4, Constants DEF OnVisualCorrection
<1>5. ASSUME NEW l \in Landmarks, OnReferenceLoaded(l) \/ OnLocalized(l) PROVE RestOK'
  <2>1. watch' \in WatchType
    BY <1>5 DEF OnReferenceLoaded, OnLocalized, WatchType
  <2> QED BY <1>5, <2>1 DEF OnReferenceLoaded, OnLocalized
<1>6. ASSUME NEW s \in MissionStates, OnMissionState(s) PROVE RestOK'
  <2>1. NewWatch \in WatchType
    BY DEF NewWatch, WatchType
  <2>2. PICK f \in WatchType : watch' = f \/ watch' = [f EXCEPT !.near = [l \in Landmarks |-> None]]
    BY <1>6, <2>1 DEF OnMissionState
  <2>3. watch' \in WatchType
    BY <2>2 DEF WatchType
  <2>4. age' = [age EXCEPT !.settle = IF s = mission THEN age.settle ELSE None]
    BY <1>6 DEF OnMissionState
  <2>5. age' \in AgeType
    BY <2>4 DEF AgeType
  <2>6. granted' \in BOOLEAN /\ hold' \in {hold, None}
    BY <1>6 DEF OnMissionState
  <2> QED BY <1>6, <2>3, <2>5, <2>6 DEF OnMissionState
<1>7. CASE \E r \in BOOLEAN : OnResumeRequest(r)
  BY <1>0, <1>7 DEF OnResumeRequest
<1> QED BY <1>1, <1>2, <1>3, <1>4, <1>5, <1>6, <1>7

-----------------------------------------------------------------------------
(* The control timer *)

LEMMA WindowAdvanced ==
  ASSUME TypeOK, WindowOpen, Len(path) >= 2, NEW nearest \in Lo .. Hi, Advance(nearest),
         UNCHANGED <<path, ptr, floor>>,
         drive'.mode = "ROTATE_TO_PATH" /\ drive'.corner # None => drive'.corner = NextCorner
  PROVE  WindowOpen' /\ progress' \in Nat
<1>1. /\ progress \in Nat /\ Lo \in Nat /\ Hi \in Nat /\ floor \in Nat
  <2>1. Len(path) \in Nat
    BY TypeParts DEF PathOK
  <2> QED BY <2>1, TypeParts, WindowBounds DEF WindowFacts, PathOK
<1>2. Lo = IF floor >= progress - 1 THEN floor ELSE progress - 1
  BY <1>1, PairFacts DEF Lo
<1>3. progress' = IF progress >= nearest THEN progress ELSE nearest
  BY <1>1, PairFacts DEF Advance
<1>4. Lo < Hi /\ progress <= Hi
  BY DEF WindowOpen
<1>5. progress' \in Nat /\ progress' <= Hi /\ floor < Hi
  BY <1>1, <1>2, <1>3, <1>4
<1>6. UNCHANGED <<Corners, Hi, NextCorner>> /\ Rank(floor)' = Rank(floor)
  BY DEF Corners, Hi, NextCorner, Rank
<1>7. Lo' < Hi
  <2>1. PICK q \in Nat : q = progress'
    BY <1>5
  <2>2. Lo' = Max({floor, q - 1})
    BY <2>1 DEF Lo
  <2>3. Max({floor, q - 1}) = IF floor >= q - 1 THEN floor ELSE q - 1
    BY <1>1, PairFacts
  <2>4. q <= Hi
    BY <1>5, <2>1
  <2>5. (IF floor >= q - 1 THEN floor ELSE q - 1) < Hi
    BY <1>1, <1>5, <2>4
  <2> QED BY <2>2, <2>3, <2>5
<1> QED BY <1>5, <1>6, <1>7 DEF WindowOpen

LEMMA WindowPassed ==
  ASSUME TypeOK, WindowOpen, Len(path) >= 2, NEW nearest \in Lo .. Hi, Advance(nearest),
         NextCorner # None, path' = path, ptr' = ptr + 1, floor' = NextCorner,
         drive'.mode = "TRACK_PATH"
  PROVE  WindowOpen' /\ progress' \in Nat /\ floor' \in Nat
<1>1. /\ path \in Seq(Yaws) /\ ptr \in Nat /\ progress \in Nat
      /\ Lo \in Nat /\ Hi = NextCorner
  BY TypeParts, WindowBounds DEF WindowFacts, PathOK, Hi
<1>2. /\ NextCorner \in Corners /\ Rank(NextCorner) = ptr
      /\ \A c \in Corners : c \in 2 .. Len(path) - 1
      /\ \A c, d \in Corners : Rank(c) < Rank(d) => c < d
  BY <1>1, CornerFacts
<1>3. PICK k \in 2 .. Len(path) - 1 : k = NextCorner
  BY <1>2
<1>4. progress' = IF progress >= nearest THEN progress ELSE nearest
  <2>1. nearest \in Int
    BY <1>1, <1>3
  <2> QED BY <1>1, <2>1, PairFacts DEF Advance
<1>5. progress' \in Nat /\ progress' <= k
  <2>1. progress <= Hi
    BY DEF WindowOpen
  <2> QED BY <1>1, <1>3, <1>4, <2>1
<1>6. Corners' = Corners /\ \A c \in Corners : Rank(c)' = Rank(c)
  BY DEF Corners, Rank
<1>7. \/ NextCorner' = None
      \/ NextCorner' \in Corners /\ Rank(NextCorner') = ptr + 1
  <2>1. NextCorner' = IF \E c \in Corners : Rank(c) = ptr + 1
                      THEN CHOOSE c \in Corners : Rank(c) = ptr + 1 ELSE None
    BY DEF NextCorner, Rank, Corners
  <2> QED BY <2>1
<1>8. Hi' \in Nat /\ k < Hi'
  <2>1. CASE NextCorner' = None
    <3>1. Hi' = Len(path)
      BY <2>1 DEF Hi
    <3> QED BY <1>1, <1>3, <3>1
  <2>2. CASE NextCorner' # None
    <3>1. NextCorner' \in Corners /\ Rank(NextCorner) < Rank(NextCorner')
      BY <1>1, <1>2, <1>7, <2>2
    <3>2. NextCorner' \in 2 .. Len(path) - 1 /\ k < NextCorner'
      BY <1>2, <1>3, <3>1
    <3>3. Hi' = NextCorner'
      BY <2>2 DEF Hi
    <3> QED BY <1>1, <3>2, <3>3
  <2> QED BY <2>1, <2>2
<1>9. Lo' < Hi'
  <2>1. PICK q \in Nat : q = progress'
    BY <1>5
  <2>2. Lo' = Max({k, q - 1})
    BY <1>3, <2>1 DEF Lo
  <2>3. Max({k, q - 1}) = IF k >= q - 1 THEN k ELSE q - 1
    BY <1>3, PairFacts
  <2>4. PICK h \in Nat : h = Hi'
    BY <1>8
  <2>5. q <= k /\ k < h
    BY <1>5, <1>8, <2>1, <2>4
  <2>6. (IF k >= q - 1 THEN k ELSE q - 1) < h
    BY <1>3, <2>5
  <2> QED BY <2>2, <2>3, <2>4, <2>6
<1>10. progress' <= Hi'
  BY <1>3, <1>5, <1>8
<1>11. ptr' # 0 /\ floor' \in Corners' /\ Rank(floor)' = ptr' - 1
  <2>1. Rank(floor)' = Rank(NextCorner)
    BY <1>6 DEF Rank
  <2> QED BY <1>1, <1>2, <1>6, <2>1
<1> QED BY <1>3, <1>5, <1>9, <1>10, <1>11 DEF WindowOpen

\* What a tick on the way does to the drive, the corners and the progress
FollowingDone ==
  /\ RestOK' /\ DriveOK'
  /\ \E nearest \in Lo .. Hi : Advance(nearest)
  /\ \/ /\ UNCHANGED <<ptr, floor>>
        /\ \/ drive'.mode = "TRACK_PATH"
           \/ drive'.mode = drive.mode /\ drive'.corner = drive.corner
           \/ drive.mode = "TRACK_PATH" /\ drive'.corner \in {NextCorner, None}
     \/ /\ drive.mode = "ROTATE_TO_PATH" /\ drive.corner # None
        /\ ptr' = ptr + 1 /\ floor' = drive.corner /\ drive'.mode = "TRACK_PATH"

LEMMA RampType == ASSUME NEW a \in Int, NEW b \in Int PROVE Ramp(a, b) \in Int
  BY DEF Ramp

\* The step of the drive d that Checked has left
LEMMA TrackFacts ==
  ASSUME TypeOK, NEW d \in Drive, Track(d)
  PROVE  /\ d.mode = "TRACK_PATH"
         /\ drive' \in Drive /\ drive'.mode = "TRACK_PATH" /\ cmd' \in [v : Int, w : Int]
         /\ age' \in AgeType /\ UNCHANGED <<ptr, floor>>
<1>1. PICK v \in MinSpeed .. Speed, w \in -Turn .. Turn :
        /\ drive' = [d EXCEPT !.v = Ramp(d.v, IF ReverseDrive THEN -v ELSE v), !.w = Ramp(d.w, w)]
        /\ cmd' = [v |-> drive'.v, w |-> drive'.w]
  BY DEF Track
<1>2. (IF ReverseDrive THEN -v ELSE v) \in Int /\ w \in Int /\ d.v \in Int /\ d.w \in Int
  BY Constants DEF Drive
<1>3. PICK rv \in Int, rw \in Int :
        /\ rv = Ramp(d.v, IF ReverseDrive THEN -v ELSE v) /\ rw = Ramp(d.w, w)
  BY <1>2, RampType
<1>4. drive' = [d EXCEPT !.v = rv, !.w = rw]
  BY <1>1, <1>3
<1>5. drive' \in Drive /\ drive'.mode = d.mode /\ drive'.v \in Int /\ drive'.w \in Int
  BY <1>4 DEF Drive
<1>6. cmd' \in [v : Int, w : Int]
  BY <1>1, <1>5
<1>7. Aged \in AgeType
  BY TypeParts, AgedType DEF RestOK
<1> QED BY <1>5, <1>6, <1>7 DEF Track

LEMMA RotateFacts ==
  ASSUME TypeOK, NEW d \in Drive, d.target \in Yaws, Rotate(d)
  PROVE  /\ d.mode = "ROTATE_TO_PATH"
         /\ drive' \in Drive /\ cmd' \in [v : Int, w : Int] /\ age' \in AgeType
         /\ \/ /\ UNCHANGED <<ptr, floor>>
               /\ \/ drive'.mode = "TRACK_PATH"
                  \/ drive'.mode = d.mode /\ drive'.corner = d.corner /\ drive'.target = d.target
            \/ /\ d = drive /\ d.corner # None /\ drive'.mode = "TRACK_PATH"
               /\ ptr' = ptr + 1 /\ floor' = d.corner
<1> DEFINE error == Norm(d.target - Facing)
           since == IF d = drive THEN Aged.settle ELSE None
           settled == AbsVal(error) <= ExitAngle /\ since = RotateSettle
<1>1. PICK r \in MinRotate .. MaxRotate :
        LET w == Ramp(d.w, IF error = 0 THEN 0 ELSE IF error > 0 THEN r ELSE -r)
        IN  /\ cmd' = [v |-> 0, w |-> w]
            /\ drive' = IF settled
                        THEN [d EXCEPT !.mode = "TRACK_PATH", !.v = 0, !.w = 0, !.corner = None]
                        ELSE [d EXCEPT !.v = 0, !.w = w]
  BY DEF Rotate
<1>2. /\ d.mode = "ROTATE_TO_PATH"
      /\ age' = [Aged EXCEPT !.settle =
                   CASE AbsVal(error) > ExitAngle \/ settled -> None
                     [] OTHER -> IF since = None THEN 0 ELSE since]
      /\ IF settled /\ d.corner # None
         THEN ptr' = ptr + 1 /\ floor' = d.corner
         ELSE UNCHANGED <<ptr, floor>>
  BY DEF Rotate
<1>3. Aged \in AgeType
  BY TypeParts, AgedType DEF RestOK
<1>4. since \in Nat \cup {None}
  BY <1>3 DEF AgeType
<1>5. settled => d = drive
  BY Constants DEF None
<1> HIDE DEF settled, since, error
<1>6. age' \in AgeType
  <2>1. PICK a \in Nat \cup {None} : age' = [Aged EXCEPT !.settle = a]
    BY <1>2, <1>4
  <2> QED BY <1>3, <2>1 DEF AgeType
<1>7. PICK w \in Int : /\ cmd' = [v |-> 0, w |-> w]
                       /\ drive' = IF settled
                            THEN [d EXCEPT !.mode = "TRACK_PATH", !.v = 0, !.w = 0, !.corner = None]
                            ELSE [d EXCEPT !.v = 0, !.w = w]
  <2>1. (IF error = 0 THEN 0 ELSE IF error > 0 THEN r ELSE -r) \in Int /\ d.w \in Int
    BY Constants DEF Drive
  <2> QED BY <1>1, <2>1, RampType
<1>8. /\ d = [mode |-> d.mode, corner |-> d.corner, target |-> d.target, v |-> d.v, w |-> d.w]
      /\ d.corner \in Nat \cup {None} /\ d.target \in Yaws /\ 0 \in Int
      /\ d.mode \in {"TRACK_PATH", "ROTATE_TO_PATH"}
  BY DEF Drive
<1>9. /\ [d EXCEPT !.v = 0, !.w = w] \in Drive
      /\ [d EXCEPT !.v = 0, !.w = w].mode = d.mode
      /\ [d EXCEPT !.v = 0, !.w = w].corner = d.corner
      /\ [d EXCEPT !.v = 0, !.w = w].target = d.target
  <2>1. d \in [mode : {"TRACK_PATH", "ROTATE_TO_PATH"}, corner : Nat \cup {None},
               target : Yaws \cup {None}, v : Int, w : Int]
    BY DEF Drive
  <2>2. /\ [d EXCEPT !.v = 0, !.w = w].mode = d.mode
        /\ [d EXCEPT !.v = 0, !.w = w].corner = d.corner
        /\ [d EXCEPT !.v = 0, !.w = w].target = d.target
    BY <2>1
  <2>3. [d EXCEPT !.v = 0, !.w = w] \in
          [mode : {"TRACK_PATH", "ROTATE_TO_PATH"}, corner : Nat \cup {None},
           target : Yaws \cup {None}, v : Int, w : Int]
    BY <1>8, <2>1
  <2> QED BY <2>2, <2>3 DEF Drive
<1>10. CASE settled
  <2>1. drive' \in Drive /\ drive'.mode = "TRACK_PATH"
    <3>1. drive' =
            [mode |-> "TRACK_PATH", corner |-> None, target |-> d.target, v |-> 0, w |-> 0]
      BY <1>7, <1>8, <1>10
    <3> QED BY <1>8, <3>1 DEF Drive
  <2> QED BY <1>2, <1>5, <1>6, <1>7, <1>10, <2>1
<1>11. CASE ~settled
  BY <1>2, <1>6, <1>7, <1>9, <1>11
<1> QED BY <1>10, <1>11

LEMMA FollowingFacts ==
  ASSUME TypeOK, WindowOpen, Tick, TickFollowing
  PROVE  mission = Following /\ Len(path) >= 2 /\ FollowingDone
<1>1. mission = Following /\ Len(path) >= 2
  BY DEF TickFollowing, CanFollow
<1>2. PICK nearest \in Lo .. Hi, reached \in BOOLEAN, near \in 0 .. LandmarkCount :
        \E passed \in 0 .. near :
          \/ TickHeld(nearest, passed, near)
          \/ /\ hold = None
             /\ watch' = IF LandmarkRecovery THEN WatchAfter(None, near)
                         ELSE [watch EXCEPT !.near = AgedNear]
             /\ Advance(nearest)
             /\ LET d == Checked(nearest, reached) IN Track(d) \/ Rotate(d)
             /\ UNCHANGED hold
  BY DEF TickFollowing
<1>3. PICK passed \in 0 .. near :
          \/ TickHeld(nearest, passed, near)
          \/ /\ hold = None
             /\ watch' = IF LandmarkRecovery THEN WatchAfter(None, near)
                         ELSE [watch EXCEPT !.near = AgedNear]
             /\ Advance(nearest)
             /\ LET d == Checked(nearest, reached) IN Track(d) \/ Rotate(d)
             /\ UNCHANGED hold
  BY <1>2
<1>4. RestOK /\ DriveOK /\ drive \in Drive /\ UNCHANGED <<odom, origin, correction, granted>>
  BY TypeParts DEF DriveOK, Tick
<1>5. /\ [watch EXCEPT !.near = AgedNear] \in WatchType /\ Aged \in AgeType
      /\ Missed(passed, near) \in Landmarks \cup {None}
      /\ \A l \in Landmarks \cup {None} : WatchAfter(l, near) \in WatchType
  BY <1>4, AgedType, WatchTypes DEF RestOK
<1>6. CASE TickHeld(nearest, passed, near)
  <2>1. /\ drive' = Resting(drive) /\ Advance(nearest) /\ UNCHANGED <<ptr, floor>>
        /\ cmd' = Stopped /\ age' = Aged
    BY <1>6 DEF TickHeld
  <2>2. PICK l \in Landmarks \cup {None} :
          /\ hold' = l
          /\ watch' = IF hold # None THEN [watch EXCEPT !.near = AgedNear] ELSE WatchAfter(l, near)
    <3>1. PICK l : /\ l = IF hold # None THEN hold
                          ELSE IF LandmarkRecovery THEN Missed(passed, near) ELSE None
                   /\ hold' = l
                   /\ watch' = IF hold # None THEN [watch EXCEPT !.near = AgedNear]
                               ELSE WatchAfter(l, near)
      BY <1>6 DEF TickHeld
    <3>2. l \in Landmarks \cup {None}
      BY <1>4, <1>5, <3>1 DEF RestOK
    <3> QED BY <3>1, <3>2
  <2>3. hold' \in Landmarks \cup {None} /\ watch' \in WatchType
    BY <1>5, <2>2
  <2>4. cmd' \in [v : Int, w : Int]
    BY <2>1 DEF Stopped
  <2>5. RestOK'
    BY <1>4, <1>5, <2>1, <2>3, <2>4 DEF RestOK
  <2>6. Interrupted
    BY <2>1 DEF Interrupted
  <2> QED BY <1>1, <1>4, <2>1, <2>5, <2>6, InterruptedFacts DEF FollowingDone
<1>7. CASE /\ watch' = IF LandmarkRecovery THEN WatchAfter(None, near)
                       ELSE [watch EXCEPT !.near = AgedNear]
           /\ Advance(nearest)
           /\ LET d == Checked(nearest, reached) IN Track(d) \/ Rotate(d)
           /\ UNCHANGED hold
  <2>1. watch' \in WatchType
    <3>1. None \in Landmarks \cup {None}
      OBVIOUS
    <3> QED BY <1>5, <1>7, <3>1
  <2>2. PICK d \in Drive :
          /\ Track(d) \/ Rotate(d)
          /\ d.mode = "ROTATE_TO_PATH" => d.target \in Yaws
          /\ \/ d = drive
             \/ /\ drive.mode = "TRACK_PATH" /\ d.mode = "ROTATE_TO_PATH"
                /\ d.corner \in {NextCorner, None}
    BY <1>1, <1>7, CheckedFacts
  <2>3. CASE Track(d)
    <3>1. RestOK'
      BY <1>4, <1>7, <2>1, <2>3, TrackFacts DEF RestOK
    <3> QED BY <1>1, <1>7, <2>3, <3>1, TrackFacts DEF FollowingDone, DriveOK
  <2>4. CASE Rotate(d)
    <3>1. d.mode = "ROTATE_TO_PATH" /\ d.target \in Yaws
      BY <2>2, <2>4 DEF Rotate
    <3>2. RestOK'
      BY <1>4, <1>7, <2>1, <2>4, <3>1, RotateFacts DEF RestOK
    <3>3. /\ drive' \in Drive
          /\ \/ /\ UNCHANGED <<ptr, floor>>
                /\ \/ drive'.mode = "TRACK_PATH"
                   \/ drive'.mode = d.mode /\ drive'.corner = d.corner /\ drive'.target = d.target
             \/ /\ d = drive /\ d.corner # None /\ drive'.mode = "TRACK_PATH"
                /\ ptr' = ptr + 1 /\ floor' = d.corner
      BY <2>4, <3>1, RotateFacts
    <3>4. DriveOK'
      BY <3>1, <3>3 DEF DriveOK
    <3> QED BY <1>1, <1>7, <2>2, <3>1, <3>2, <3>3, <3>4 DEF FollowingDone
  <2> QED BY <2>2, <2>3, <2>4
<1> QED BY <1>3, <1>6, <1>7

-----------------------------------------------------------------------------
(* The steps *)

\* A callback that brings no new path
Heard ==
  /\ Interrupted /\ UNCHANGED <<path, ptr, progress, floor>>
  /\ \/ UNCHANGED mission /\ (granted' => granted \/ drive' = NewDrive)
     \/ /\ mission' \in MissionStates /\ drive' = RestOnChange(mission')
        /\ mission' = Following /\ mission # Following => granted
        /\ granted' = (granted /\ mission' = mission)

LEMMA MessageFacts ==
  ASSUME TypeOK, Message
  PROVE  RestOK' /\ (Heard \/ \E p \in Routes : OnReturnPath(p))
<1>1. RestOK
  BY TypeParts
<1>2. ASSUME NEW s \in MissionStates, MissionSays(s) PROVE OnMissionState(s) /\ Heard
  <2>1. OnMissionState(s) /\ (s = Following /\ mission # Following => granted)
    BY <1>2 DEF MissionSays
  <2>2. Interrupted /\ UNCHANGED <<path, ptr, progress, floor>>
    BY <2>1 DEF OnMissionState, RestOnChange, Interrupted
  <2> QED BY <2>1, <2>2 DEF OnMissionState, Heard
<1>3. ASSUME NEW c \in Corrections, NEW t \in Stamps, OnVisualCorrection(c, t) PROVE Heard
  BY <1>3 DEF OnVisualCorrection, Heard, Interrupted
<1>4. ASSUME NEW r \in BOOLEAN, OnResumeRequest(r) PROVE Heard
  BY <1>4 DEF OnResumeRequest, ResumeTracking, Heard, Interrupted
<1>5. ASSUME NEW y, OnOdom(y) \/ OnOrigin(y) \/ OnReferenceLoaded(y) \/ OnLocalized(y) PROVE Heard
  BY <1>5 DEF OnOdom, OnOrigin, OnReferenceLoaded, OnLocalized, Heard, Interrupted
<1>6. Heard \/ \E p \in Routes : OnReturnPath(p)
  BY <1>2, <1>3, <1>4, <1>5 DEF Message
<1>7. RestOK'
  <2>1. \/ \E p \in Routes : OnReturnPath(p)
        \/ \E yaw \in Headings : OnOdom(yaw)
        \/ \E o \in Origins : OnOrigin(o)
        \/ \E c \in Corrections, s \in Stamps : OnVisualCorrection(c, s)
        \/ \E l \in Landmarks : OnReferenceLoaded(l) \/ OnLocalized(l)
        \/ \E s \in MissionStates : OnMissionState(s)
        \/ \E r \in BOOLEAN : OnResumeRequest(r)
    BY <1>2 DEF Message
  <2> QED BY <1>1, <2>1, CallbackTypes
<1> QED BY <1>6, <1>7

LEMMA StandingFacts ==
  ASSUME TypeOK, Tick, TickStanding
  PROVE  /\ RestOK' /\ Interrupted /\ UNCHANGED <<mission, path, ptr, progress, floor, granted>>
         /\ mission # Following => drive' = Resting(drive)
<1>1. RestOK /\ UNCHANGED <<mission, path, odom, origin, correction, granted>>
  BY TypeParts DEF Tick
<1>2. UNCHANGED <<ptr, progress, floor, hold>> /\ Interrupted
  BY DEF TickStanding, TickIdle, TickWaiting, TickStale, Interrupted
<1>3. mission # Following => drive' = Resting(drive)
  BY DEF TickStanding, TickIdle, TickWaiting, TickStale, CanFollow
<1>4. /\ [watch EXCEPT !.near = AgedNear] \in WatchType /\ Aged \in AgeType
      /\ Stopped \in [v : Int, w : Int]
  BY <1>1, AgedType DEF RestOK, Stopped
<1>5. cmd' = Stopped /\ age' = Aged /\ watch' = [watch EXCEPT !.near = AgedNear]
  BY DEF TickStanding
<1>6. RestOK'
  BY <1>1, <1>2, <1>4, <1>5 DEF RestOK
<1> QED BY <1>1, <1>2, <1>3, <1>6

\* A new path: nothing is left of the old one.
LEMMA PathStep ==
  ASSUME FollowerOK, NEW p \in Routes, OnReturnPath(p), RestOK'
  PROVE  TypeOK' /\ WindowOpen'
<1>1. /\ path' = p /\ p \in Seq(Yaws) /\ ptr' = 0 /\ progress' = 1 /\ floor' = 1
      /\ drive' = NewDrive /\ UNCHANGED mission
  BY Constants DEF OnReturnPath, RestartProgress
<1>2. drive' \in Drive /\ drive'.mode = "TRACK_PATH"
  BY <1>1 DEF NewDrive, Drive
<1>3. MissionOK /\ Len(p) \in Nat
  BY <1>1, TypeParts DEF FollowerOK
<1>4. TypeOK'
  <2>1. PathOK' /\ DriveOK' /\ MissionOK'
    BY <1>1, <1>2, <1>3 DEF PathOK, DriveOK, MissionOK
  <2> QED BY <2>1, TypeParts
<1>5. ASSUME Len(p) >= 2 PROVE Lo' < Hi' /\ progress' <= Hi'
  <2>1. Lo' = Max({1, 0})
    BY <1>1 DEF Lo
  <2>2. Lo' = 1
    BY <2>1, PairFacts
  <2>3. NextCorner' = None \/ NextCorner' \in Corners'
    BY DEF NextCorner
  <2>4. Corners' \subseteq 2 .. Len(p) - 1
    BY <1>1 DEF Corners
  <2>5. Hi' \in Nat /\ Hi' >= 2
    <3>1. CASE NextCorner' = None
      BY <1>1, <1>3, <1>5, <3>1 DEF Hi
    <3>2. CASE NextCorner' # None
      <4>1. NextCorner' \in 2 .. Len(p) - 1
        BY <2>3, <2>4, <3>2
      <4>2. Hi' = NextCorner'
        BY <3>2 DEF Hi
      <4> QED BY <1>3, <4>1, <4>2
    <3> QED BY <3>1, <3>2
  <2> QED BY <1>1, <2>2, <2>5
<1> QED BY <1>1, <1>2, <1>4, <1>5 DEF WindowOpen

LEMMA WindowStep ==
  ASSUME FollowerOK, Next PROVE TypeOK' /\ WindowOpen'
<1>0. TypeOK /\ WindowOpen /\ PathOK /\ DriveOK /\ MissionOK
  BY TypeParts DEF FollowerOK
<1>1. ASSUME RestOK', Interrupted, UNCHANGED <<path, ptr, progress, floor>>, MissionOK'
      PROVE  TypeOK' /\ WindowOpen'
  <2>1. DriveOK'
    BY <1>0, <1>1, InterruptedFacts
  <2>2. WindowOpen'
    BY <1>0, <1>1, InterruptedFacts, WindowKept
  <2>3. PathOK'
    BY <1>0, <1>1 DEF PathOK
  <2> QED BY <1>1, <2>1, <2>2, <2>3, TypeParts
<1>2. CASE Message
  <2>1. RestOK'
    BY <1>0, <1>2, MessageFacts
  <2>2. CASE Heard
    <3>1. MissionOK'
      BY <1>0, <2>2 DEF Heard, MissionOK
    <3> QED BY <1>1, <2>1, <2>2, <3>1 DEF Heard
  <2>3. CASE \E p \in Routes : OnReturnPath(p)
    BY <2>1, <2>3, PathStep
  <2> QED BY <1>0, <1>2, <2>2, <2>3, MessageFacts
<1>3. CASE Tick /\ TickStanding
  <2>1. MissionOK'
    BY <1>0, <1>3, StandingFacts DEF MissionOK
  <2> QED BY <1>0, <1>1, <1>3, <2>1, StandingFacts
<1>4. CASE Tick /\ TickFollowing
  <2>1. mission = Following /\ Len(path) >= 2 /\ FollowingDone
    BY <1>0, <1>4, FollowingFacts
  <2>2. PICK nearest \in Lo .. Hi : Advance(nearest)
    BY <2>1 DEF FollowingDone
  <2>3. UNCHANGED <<mission, path>>
    BY <1>4 DEF Tick
  <2>4. ptr' \in Nat /\ progress' \in Nat /\ floor' \in Nat /\ WindowOpen'
    <3>1. drive.mode = "ROTATE_TO_PATH" /\ drive.corner # None => drive.corner = NextCorner
      BY <1>0, <2>1 DEF WindowOpen
    <3>2. CASE UNCHANGED <<ptr, floor>>
      <4>1. drive'.mode = "ROTATE_TO_PATH" /\ drive'.corner # None => drive'.corner = NextCorner
        BY <1>0, <2>1, <3>1 DEF FollowingDone, PathOK
      <4>2. WindowOpen' /\ progress' \in Nat
        BY <1>0, <2>1, <2>2, <2>3, <3>2, <4>1, WindowAdvanced
      <4> QED BY <1>0, <3>2, <4>2 DEF PathOK
    <3>3. CASE ~UNCHANGED <<ptr, floor>>
      <4>1. /\ NextCorner # None /\ ptr' = ptr + 1 /\ floor' = NextCorner
            /\ drive'.mode = "TRACK_PATH"
        BY <2>1, <3>1, <3>3 DEF FollowingDone
      <4>2. WindowOpen' /\ progress' \in Nat /\ floor' \in Nat
        BY <1>0, <2>1, <2>2, <2>3, <4>1, WindowPassed
      <4> QED BY <1>0, <4>1, <4>2 DEF PathOK
    <3> QED BY <3>2, <3>3
  <2>5. RestOK' /\ DriveOK' /\ PathOK' /\ MissionOK'
    BY <1>0, <2>1, <2>3, <2>4 DEF FollowingDone, PathOK, MissionOK
  <2> QED BY <2>4, <2>5, TypeParts
<1> QED BY <1>2, <1>3, <1>4 DEF Next, Tick

LEMMA PauseStep ==
  ASSUME FollowerOK, Next PROVE StartsFromRest' /\ PauseOK'
<1>0. TypeOK /\ WindowOpen /\ DriveOK /\ drive \in Drive /\ StartsFromRest /\ PauseOK
  BY TypeParts DEF FollowerOK, DriveOK
<1>1. NewDrive.mode = "TRACK_PATH" /\ NewDrive.v = 0 /\ NewDrive.w = 0
  BY <1>0, RestFacts
<1>2. Resting(drive).mode = drive.mode /\ Resting(drive).v = 0 /\ Resting(drive).w = 0
  BY <1>0, RestFacts
<1>3. CASE Heard
  <2>1. /\ \/ drive'.mode = "TRACK_PATH" \/ drive'.mode = drive.mode
        /\ \/ drive'.v = drive.v /\ drive'.w = drive.w
           \/ drive'.v = 0 /\ drive'.w = 0
    BY <1>0, <1>3, InterruptedFacts DEF Heard
  <2>2. CASE UNCHANGED mission /\ (granted' => granted \/ drive' = NewDrive)
    BY <1>0, <1>1, <2>1, <2>2 DEF StartsFromRest, PauseOK
  <2>3. CASE /\ drive' = RestOnChange(mission') /\ granted' = (granted /\ mission' = mission)
    BY <1>0, <1>2, <2>3 DEF StartsFromRest, PauseOK, RestOnChange
  <2> QED BY <1>3, <2>2, <2>3 DEF Heard
<1>4. CASE \E p \in Routes : OnReturnPath(p)
  BY <1>1, <1>4 DEF OnReturnPath, StartsFromRest, PauseOK
<1>5. CASE Tick /\ TickStanding
  <2>1. UNCHANGED <<mission, granted>> /\ (mission # Following => drive' = Resting(drive))
    BY <1>0, <1>5, StandingFacts
  <2> QED BY <1>0, <1>2, <2>1 DEF StartsFromRest, PauseOK
<1>6. CASE Tick /\ TickFollowing
  <2>1. mission' = Following
    BY <1>6 DEF Tick, TickFollowing, CanFollow
  <2> QED BY <2>1 DEF StartsFromRest, PauseOK
<1> QED BY <1>0, <1>3, <1>4, <1>5, <1>6, MessageFacts DEF Next, Tick

\* The corner remembered is the one the rotation in progress began at: a rotation is
\* begun on the way, and one that a pause or a new path ended is not taken up again.
LEMMA ReachedStep ==
  ASSUME FollowerOK, HNext PROVE ReachedOK'
<1>0. TypeOK /\ WindowOpen /\ DriveOK /\ PauseOK /\ ReachedOK /\ Next
  BY TypeParts DEF FollowerOK, HNext
<1>1. ASSUME mission' = Following, drive'.mode = "ROTATE_TO_PATH", drive'.corner # None,
             \/ Heard \/ (Tick /\ TickStanding)
      PROVE  stoppedAt' = drive'.corner
  <2>1. Interrupted /\ path' = path
    BY <1>0, <1>1, StandingFacts DEF Heard
  <2>2. drive'.mode = drive.mode /\ drive'.corner = drive.corner
    BY <1>0, <1>1, <2>1, InterruptedFacts
  <2>3. mission = Following
    <3>1. ASSUME mission # Following PROVE FALSE
      <4>1. Heard /\ mission' # mission
        BY <1>0, <1>1, <3>1, StandingFacts
      <4>2. granted
        BY <1>1, <3>1, <4>1 DEF Heard
      <4> QED BY <1>0, <1>1, <2>2, <3>1, <4>2 DEF PauseOK
    <3> QED BY <3>1
  <2>4. stoppedAt' = stoppedAt
    BY <1>1, <2>1, <2>2 DEF HNext
  <2> QED BY <1>0, <1>1, <2>2, <2>3, <2>4 DEF ReachedOK
<1>2. CASE Heard \/ (Tick /\ TickStanding)
  BY <1>1, <1>2 DEF ReachedOK
<1>3. CASE \E p \in Routes : OnReturnPath(p)
  BY <1>3 DEF OnReturnPath, NewDrive, ReachedOK
<1>4. CASE Tick /\ TickFollowing
  <2>1. mission = Following /\ FollowingDone /\ path' = path /\ mission' = mission
    BY <1>0, <1>4, FollowingFacts DEF Tick
  <2>2. SUFFICES ASSUME drive'.mode = "ROTATE_TO_PATH", drive'.corner # None
                 PROVE  stoppedAt' = drive'.corner
    BY DEF ReachedOK
  <2>3. drive'.target \in Yaws
    BY <2>1, <2>2 DEF FollowingDone, DriveOK
  <2>4. drive'.target # None
    BY <2>3, Constants DEF Yaws, None
  <2>5. CASE drive.mode = "TRACK_PATH"
    <3>1. drive'.corner = NextCorner
      BY <2>1, <2>2, <2>5 DEF FollowingDone
    <3> QED BY <2>1, <2>2, <2>4, <2>5, <3>1 DEF HNext
  <2>6. CASE drive.mode # "TRACK_PATH"
    <3>1. drive'.mode = drive.mode /\ drive'.corner = drive.corner
      BY <2>1, <2>2, <2>6 DEF FollowingDone
    <3>2. stoppedAt' = stoppedAt
      BY <2>1, <2>6 DEF HNext
    <3> QED BY <1>0, <2>1, <2>2, <3>1, <3>2 DEF ReachedOK
  <2> QED BY <2>5, <2>6
<1> QED BY <1>0, <1>2, <1>3, <1>4, MessageFacts DEF Next, Tick

LEMMA InitOK == ASSUME HInit PROVE FollowerOK
<1>1. /\ mission = "" /\ path = <<>> /\ drive = NewDrive /\ watch = NewWatch
      /\ age = [odom |-> None, settle |-> None, origin |-> 0]
  BY DEF HInit, Init
<1>2. ptr = 0 /\ progress = 1 /\ floor = 1 /\ odom = 0 /\ cmd = Stopped
  BY DEF HInit, Init
<1>3. origin = None /\ correction = None /\ hold = None /\ granted = FALSE /\ stoppedAt = None
  BY DEF HInit, Init
<1>4. NewDrive \in Drive /\ NewDrive.mode = "TRACK_PATH" /\ NewDrive.v = 0 /\ NewDrive.w = 0
  BY DEF NewDrive, Drive
<1>5. RestOK
  <2>1. NewWatch \in WatchType
    BY DEF NewWatch, WatchType
  <2>2. [odom |-> None, settle |-> None, origin |-> 0] \in AgeType
    BY DEF AgeType
  <2>3. odom \in Yaws
    BY <1>2, Constants DEF Yaws
  <2>4. cmd \in [v : Int, w : Int]
    BY <1>2 DEF Stopped
  <2>5. age \in AgeType /\ watch \in WatchType
    BY <1>1, <2>1, <2>2
  <2> QED BY <1>3, <2>3, <2>4, <2>5 DEF RestOK
<1>6. PathOK /\ DriveOK /\ MissionOK
  <2>1. path \in Seq(Yaws) /\ ptr \in Nat /\ progress \in Nat /\ floor \in Nat
    <3>1. path = <<>>
      BY <1>1
    <3>2. ptr = 0 /\ progress = 1 /\ floor = 1
      BY <1>2
    <3> QED BY <3>1, <3>2
  <2>2. mission \in MissionStates \cup {""}
    BY <1>1
  <2> QED BY <1>1, <1>4, <2>1, <2>2 DEF PathOK, DriveOK, MissionOK
<1>7. WindowOpen
  <2>1. path = <<>>
    BY <1>1
  <2>2. Len(path) = 0
    BY <2>1
  <2>3. ~(Len(path) >= 2)
    BY <2>2
  <2> QED BY <2>3 DEF WindowOpen
<1>8. StartsFromRest /\ PauseOK /\ ReachedOK
  BY <1>1, <1>4 DEF StartsFromRest, PauseOK, ReachedOK
<1> QED BY <1>5, <1>6, <1>7, <1>8, TypeParts DEF FollowerOK

LEMMA StutterOK == ASSUME FollowerOK, UNCHANGED hvars PROVE FollowerOK'
<1>1. UNCHANGED <<Corners, Lo, Hi, NextCorner>> /\ Rank(floor)' = Rank(floor)
  BY DEF hvars, vars, Corners, Lo, Hi, NextCorner, Rank
<1>2. RestOK' /\ PathOK' /\ DriveOK' /\ MissionOK'
  BY TypeParts DEF FollowerOK, hvars, vars, RestOK, PathOK, DriveOK, MissionOK
<1>3. WindowOpen'
  BY <1>1 DEF FollowerOK, WindowOpen, hvars, vars
<1>4. StartsFromRest' /\ PauseOK' /\ ReachedOK'
  BY DEF FollowerOK, StartsFromRest, PauseOK, ReachedOK, hvars, vars
<1> QED BY <1>2, <1>3, <1>4, TypeParts DEF FollowerOK

-----------------------------------------------------------------------------
(* What the follower keeps on every route and through every interruption *)

\* The inductive invariant of the node: its types, the window, the speeds and the mode
\* a pause leaves, and the corner a rotation in progress began at.
THEOREM FollowerInvariant == HSpec => []FollowerOK
<1>1. HInit => FollowerOK
  BY InitOK
<1>2. FollowerOK /\ [HNext]_hvars => FollowerOK'
  <2>1. ASSUME FollowerOK, HNext PROVE FollowerOK'
    <3>1. Next
      BY <2>1 DEF HNext
    <3> QED BY <2>1, <3>1, WindowStep, PauseStep, ReachedStep DEF FollowerOK
  <2> QED BY <2>1, StutterOK
<1> QED BY <1>1, <1>2, PTL DEF HSpec

\* Whatever the odometry, the corrections and the mission send, the window of vertices a
\* control period searches (_nearest_index between _floor and _next_corner) is never empty,
\* lies between the corner handled last and the next one, and the rotation toward a corner
\* is toward the next one.
THEOREM WindowStaysOpen == HSpec => []WindowOpen
<1>1. FollowerOK => WindowOpen
  BY DEF FollowerOK
<1> QED BY <1>1, FollowerInvariant, PTL

\* Outside FOLLOW_RETURN_PATH the ramped speeds are zero: the wheels start from rest
\* when the mission lets the follower drive again (_on_mission_state, _on_timer).
THEOREM PauseEndsMotion == HSpec => []StartsFromRest
<1>1. FollowerOK => StartsFromRest
  BY DEF FollowerOK
<1> QED BY <1>1, FollowerInvariant, PTL

\* A corner is ticked off one at a time and only at the end of a rotation which began when
\* that corner was reached, with no pause or new path in between (_on_timer, _rotate).
THEOREM NoCornerSkipped == HSpec => CornerHandledWhereReached
<1>1. ASSUME FollowerOK, HNext, ptr' > ptr PROVE stoppedAt = NextCorner /\ ptr' = ptr + 1
  <2>1. TypeOK /\ WindowOpen /\ DriveOK /\ ReachedOK /\ ptr \in Nat /\ Next
    BY <1>1, TypeParts DEF FollowerOK, HNext, PathOK
  <2>2. ~(ptr' = ptr)
    BY <1>1, <2>1
  <2>3. CASE Message
    <3>1. ptr' = 0 \/ ptr' = ptr
      BY <2>1, <2>3, MessageFacts DEF Heard, OnReturnPath
    <3> QED BY <1>1, <2>1, <3>1
  <2>4. CASE Tick /\ TickStanding
    BY <2>1, <2>2, <2>4, StandingFacts
  <2>5. CASE Tick /\ TickFollowing
    <3>1. mission = Following /\ Len(path) >= 2 /\ FollowingDone
      BY <2>1, <2>5, FollowingFacts
    <3>2. drive.mode = "ROTATE_TO_PATH" /\ drive.corner # None /\ ptr' = ptr + 1
      BY <2>2, <3>1 DEF FollowingDone
    <3> QED BY <2>1, <3>1, <3>2 DEF WindowOpen, ReachedOK
  <2> QED BY <2>1, <2>3, <2>4, <2>5 DEF Next, Tick
<1>2. FollowerOK /\ [HNext]_hvars
      => [ptr' > ptr => stoppedAt = NextCorner /\ ptr' = ptr + 1]_hvars
  BY <1>1
<1> QED BY <1>2, FollowerInvariant, PTL DEF HSpec, CornerHandledWhereReached
=============================================================================
