---------------------------- MODULE GripperJobProofs ----------------------------
(***************************************************************************)
(* The travel of a docking turn is the gripper's real one, for every       *)
(* encoder, timeout and lateness of ticks.                                 *)
(***************************************************************************)
EXTENDS GripperJob, TLAPS

\* While the reading is fresh the gripper cannot have turned further than it can in
\* the age of the reading; and in a docking turn, not further than in the freshness
\* and the periods since the last tick, which would have ended the job otherwise.
GapOK ==
  /\ age < Freshness => gap <= age * MaxStep
  /\ job = "dock" /\ ~Late => travel = truly /\ gap <= (Freshness + late) * MaxStep
  /\ job # "none" => result = "none"

JobOK == TypeOK /\ GapOK

-----------------------------------------------------------------------------
(* Turns and spans *)

LEMMA Constants ==
  /\ Wrap \in Nat \ {0} /\ MaxStep \in Nat /\ Freshness \in Nat \ {0}
  /\ MaxDt \in Nat /\ Stall \in Nat /\ TurnFor \in Nat /\ StopLimit \in Nat
  /\ StandFor \in Nat /\ Need \in Nat /\ CloseLimit \in Nat /\ ProgressLimit \in Nat
  /\ Settle \in Nat \ {0} /\ Far \in Nat
  /\ Half \in Nat /\ 2 * Half <= Wrap
  /\ (Freshness + MaxDt) * MaxStep < Half
  BY JobAssumption DEF Half

LEMMA SpanFacts ==
  ASSUME NEW a \in Nat, NEW b \in Nat, NEW s \in Nat
  PROVE  /\ a * s \in Nat /\ (a + 1) * s = a * s + s
         /\ a <= b => a * s <= b * s
<1>1. \A k \in Nat : k * s \in Nat
  OBVIOUS
<1>2. (a + 1) * s = a * s + s
  OBVIOUS
<1>3. ASSUME a <= b PROVE a * s <= b * s
  <2>1. PICK d \in Nat : b = a + d
    BY <1>3
  <2>2. b * s = a * s + d * s
    BY <2>1
  <2> QED BY <1>1, <2>2
<1> QED BY <1>1, <1>2, <1>3

\* Of a gap below half a turn the encoder tells the whole, across its origin too.
LEMMA TurnFacts ==
  ASSUME NEW from \in 0 .. Wrap - 1, NEW g \in Nat
  PROVE  /\ (from + g) % Wrap \in 0 .. Wrap - 1
         /\ g < Half => Turn(from, (from + g) % Wrap) = g
         /\ \A to \in 0 .. Wrap - 1 : Turn(from, to) \in Int
<1>1. \A x \in Int : x % Wrap \in 0 .. Wrap - 1
  BY Constants
<1>2. ASSUME g < Half PROVE Turn(from, (from + g) % Wrap) = g
  <2>1. CASE from + g < Wrap
    <3>1. (from + g) % Wrap = from + g
      BY <2>1, Constants
    <3>2. (from + g - from + Half) % Wrap = g + Half
      BY <1>2, Constants
    <3> QED BY <3>1, <3>2, Constants DEF Turn
  <2>2. CASE from + g >= Wrap
    <3>1. (from + g) % Wrap = from + g - Wrap
      BY <1>2, <2>2, Constants
    <3>2. (from + g - Wrap - from + Half) % Wrap = g + Half
      BY <1>2, Constants
    <3> QED BY <3>1, <3>2, Constants DEF Turn
  <2> QED BY <2>1, <2>2, Constants
<1>3. \A to \in 0 .. Wrap - 1 : Turn(from, to) \in Int
  BY <1>1, Constants DEF Turn
<1> QED BY <1>1, <1>2, <1>3, Constants

-----------------------------------------------------------------------------
(* Types *)

LEMMA TypeStep == ASSUME TypeOK, [Next]_vars PROVE TypeOK'
<1> USE Constants DEF TypeOK
<1>1. CASE UNCHANGED vars
  BY <1>1 DEF vars, dock, closing, gripper
<1>2. CASE Start("close") \/ Start("dock")
  BY <1>2 DEF Start
<1>3. CASE Feedback
  <2>1. read' \in 0 .. Wrap - 1
    BY <1>3, TurnFacts DEF Feedback
  <2>2. travel' \in Int
    BY <1>3, <2>1, TurnFacts DEF Feedback
  <2>3. left' \in 0 .. Far /\ truly' \in Nat
    BY <1>3 DEF Feedback
  <2> QED BY <1>3, <2>1, <2>2, <2>3 DEF Feedback
<1>4. CASE BadFeedback
  BY <1>4 DEF BadFeedback, dock, closing, gripper
<1>5. CASE Elapse
  BY <1>5 DEF Elapse, Older, None
<1>6. CASE Tick
  <2>1. /\ UNCHANGED <<since, read, moving, age, gap, truly>> /\ late' \in 0 .. Stall
    BY <1>6 DEF Tick, gripper
  <2>2. CASE job = "none" /\ on' = FALSE /\ UNCHANGED <<job, result, dock, closing>>
    BY <2>1, <2>2 DEF dock, closing
  <2>3. CASE job # "none" /\ End("aborted") /\ UNCHANGED <<dock, closing>>
    BY <2>1, <2>3 DEF End, dock, closing
  <2>4. CASE job = "dock" /\ RunDock /\ UNCHANGED closing
    <3>1. \/ End("aborted") \/ End("succeeded")
          \/ on' \in BOOLEAN /\ UNCHANGED <<job, result>>
      BY <2>4 DEF RunDock
    <3>2. UNCHANGED travel /\ standing' \in {None} \cup Nat
      BY <2>4 DEF RunDock, dock
    <3> QED BY <2>1, <2>4, <3>1, <3>2 DEF End, closing
  <2>5. CASE job = "close" /\ RunClose /\ UNCHANGED dock
    <3>1. /\ left' = left /\ best' \in {best, left} /\ progress' \in {0, progress}
          /\ \/ settled' = settled /\ End("aborted")
             \/ settled' = settled + 1 /\ End("succeeded")
             \/ settled' \in {settled + 1, 0} /\ on' \in BOOLEAN /\ UNCHANGED <<job, result>>
      <4>1. /\ left' = left /\ best' \in {best, left} /\ progress' \in {0, progress}
        BY <2>5 DEF RunClose
      <4>2. \/ settled' = settled /\ End("aborted")
            \/ settled' = settled + 1 /\ End("succeeded")
            \/ settled' \in {settled + 1, 0} /\ on' \in BOOLEAN /\ UNCHANGED <<job, result>>
        <5>1. (left > 0) \in BOOLEAN
          OBVIOUS
        <5>2. CASE Stale \/ since > CloseLimit
          BY <2>5, <5>2 DEF RunClose
        <5>3. CASE ~(Stale \/ since > CloseLimit) /\ left = 0 /\ ~moving
          BY <2>5, <5>3 DEF RunClose
        <5>4. CASE ~(Stale \/ since > CloseLimit) /\ ~(left = 0 /\ ~moving)
          <6>1. \/ End("aborted") /\ settled' = settled
                \/ settled' = 0 /\ on' = (left > 0) /\ UNCHANGED <<job, result>>
            BY <2>5, <5>4 DEF RunClose
          <6> QED BY <5>1, <6>1
        <5> QED BY <5>2, <5>3, <5>4
      <4> QED BY <4>1, <4>2
    <3>2. left' \in 0 .. Far /\ best' \in 0 .. Far /\ progress' \in Nat /\ settled' \in Nat
      BY <3>1
    <3>3. /\ job' \in {"close", "none"} /\ on' \in BOOLEAN /\ (job' = "none" => ~on')
          /\ result' \in {"none", "succeeded", "aborted"}
      BY <2>5, <3>1 DEF End
    <3> QED BY <2>1, <2>5, <3>2, <3>3 DEF dock
  <2> QED BY <1>6, <2>2, <2>3, <2>4, <2>5 DEF Tick
<1> QED BY <1>1, <1>2, <1>3, <1>4, <1>5, <1>6 DEF Next

-----------------------------------------------------------------------------
(* The travel *)

LEMMA GapStep == ASSUME JobOK, [Next]_vars PROVE GapOK'
<1> USE DEF GapOK, Late
<1>0. /\ age \in Nat /\ late \in Nat /\ gap \in Nat /\ truly \in Nat /\ travel \in Int
      /\ read \in 0 .. Wrap - 1 /\ job \in {"none", "close", "dock"}
  BY Constants DEF JobOK, TypeOK
<1>1. CASE UNCHANGED vars
  BY <1>1 DEF JobOK, vars, dock, closing, gripper
<1>2. CASE Start("close") \/ Start("dock")
  <2>1. age < Freshness /\ UNCHANGED <<age, late, gap>> /\ result' = "none" /\ travel' = truly'
    BY <1>2 DEF Start
  <2>2. gap <= age * MaxStep
    BY <2>1 DEF JobOK
  <2>3. age * MaxStep <= (Freshness + late) * MaxStep
    BY <1>0, <2>1, SpanFacts, Constants
  <2>4. age * MaxStep \in Nat /\ (Freshness + late) * MaxStep \in Nat
    BY <1>0, SpanFacts, Constants
  <2> QED BY <1>0, <2>1, <2>2, <2>3, <2>4
<1>3. CASE Feedback
  <2>1. /\ gap' = 0 /\ age' = 0 /\ UNCHANGED <<job, result, late>>
        /\ job = "dock" => /\ travel' = travel + Turn(read, (read + gap) % Wrap)
                           /\ truly' = truly + gap
    BY <1>3 DEF Feedback
  <2>2. 0 * MaxStep = 0 /\ (Freshness + late) * MaxStep \in Nat
    BY <1>0, SpanFacts, Constants
  <2>3. ASSUME job = "dock", ~(late > MaxDt) PROVE travel' = truly'
    <3>1. travel = truly /\ gap <= (Freshness + late) * MaxStep
      BY <2>3 DEF JobOK
    <3>2. (Freshness + late) * MaxStep <= (Freshness + MaxDt) * MaxStep
      BY <1>0, <2>3, SpanFacts, Constants
    <3>3. (Freshness + MaxDt) * MaxStep \in Nat
      BY SpanFacts, Constants
    <3>4. gap < Half
      BY <1>0, <2>2, <3>1, <3>2, <3>3, Constants
    <3> QED BY <1>0, <2>1, <2>3, <3>1, <3>4, TurnFacts
  <2> QED BY <2>1, <2>2, <2>3 DEF JobOK
<1>4. CASE BadFeedback
  BY <1>4, Constants DEF JobOK, BadFeedback, dock, gripper
<1>5. CASE Elapse
  <2>1. /\ UNCHANGED <<job, result, travel, truly>> /\ late' = late + 1
        /\ age' = IF age < Freshness THEN age + 1 ELSE age
    BY <1>5 DEF Elapse
  <2>2. gap' \in Nat /\ gap' <= gap + MaxStep
    BY <1>0, <1>5, Constants DEF Elapse
  <2>3. /\ (age + 1) * MaxStep = age * MaxStep + MaxStep
        /\ (Freshness + late + 1) * MaxStep = (Freshness + late) * MaxStep + MaxStep
        /\ age * MaxStep \in Nat /\ (Freshness + late) * MaxStep \in Nat
    BY <1>0, SpanFacts, Constants
  <2>4. age' < Freshness => gap' <= age' * MaxStep
    BY <1>0, <2>1, <2>2, <2>3, Constants DEF JobOK
  <2>5. (Freshness + late') = Freshness + late + 1
    BY <1>0, <2>1, Constants
  <2>6. ASSUME job = "dock", ~(late' > MaxDt) PROVE gap' <= (Freshness + late') * MaxStep
    <3>1. gap <= (Freshness + late) * MaxStep
      BY <1>0, <2>1, <2>6, Constants DEF JobOK
    <3> QED BY <1>0, <2>2, <2>3, <2>5, <3>1, Constants
  <2>7. ~(late' > MaxDt) => ~(late > MaxDt)
    BY <1>0, <2>1, Constants
  <2> QED BY <2>1, <2>4, <2>6, <2>7 DEF JobOK
<1>6. CASE Tick
  <2>1. late' = 0 /\ UNCHANGED <<age, gap, truly>>
    BY <1>6 DEF Tick, gripper
  <2>2. \/ job' = "none"
        \/ job' = job /\ result' = result /\ travel' = travel
           /\ (job = "dock" => age < Freshness /\ ~(late > MaxDt))
    <3>1. CASE job = "none" /\ UNCHANGED job
      BY <3>1
    <3>2. CASE job # "none" /\ End("aborted")
      BY <3>2 DEF End
    <3>3. CASE job = "dock" /\ ~Late /\ RunDock
      BY <1>0, <3>3, Constants DEF RunDock, Stale, End, dock
    <3>4. CASE job = "close" /\ RunClose /\ UNCHANGED dock
      BY <3>4 DEF RunClose, End, dock
    <3> QED BY <1>6, <3>1, <3>2, <3>3, <3>4 DEF Tick
  <2>3. age < Freshness => gap <= age * MaxStep
    BY DEF JobOK
  <2>4. age < Freshness => age * MaxStep <= (Freshness + 0) * MaxStep
    BY <1>0, SpanFacts, Constants
  <2>5. age * MaxStep \in Nat /\ (Freshness + 0) * MaxStep \in Nat
    BY <1>0, SpanFacts, Constants
  <2>6. CASE job' = "none"
    BY <2>1, <2>3, <2>6
  <2>7. CASE /\ job' = job /\ result' = result /\ travel' = travel
             /\ (job = "dock" => age < Freshness /\ ~(late > MaxDt))
    BY <1>0, <2>1, <2>3, <2>4, <2>5, <2>7 DEF JobOK
  <2> QED BY <2>2, <2>6, <2>7
<1> QED BY <1>1, <1>2, <1>3, <1>4, <1>5, <1>6 DEF Next

-----------------------------------------------------------------------------
(* The theorems *)

LEMMA JobStart == ASSUME Init PROVE JobOK
<1>1. TypeOK
  <2>1. 0 \in 0 .. Wrap - 1 /\ Freshness \in 0 .. Freshness /\ 0 \in 0 .. Stall /\ 0 \in 0 .. Far
    BY Constants
  <2>2. /\ read \in 0 .. Wrap - 1 /\ age \in 0 .. Freshness /\ late \in 0 .. Stall
        /\ left \in 0 .. Far /\ best \in 0 .. Far
    BY <2>1 DEF Init
  <2>3. {left, best} \subseteq 0 .. Far /\ {progress, settled, gap, truly} \subseteq Nat
    BY <2>2 DEF Init
  <2>4. on \in BOOLEAN /\ moving \in BOOLEAN /\ ~on
    BY DEF Init
  <2>5. since \in Nat /\ travel \in Int /\ standing \in {None} \cup Nat
    BY DEF Init
  <2> QED BY <2>2, <2>3, <2>4, <2>5 DEF Init, TypeOK
<1>2. GapOK
  BY Constants DEF Init, GapOK
<1> QED BY <1>1, <1>2 DEF JobOK

\* The state of a gripper job keeps its types, and no job turns the gripper after its end.
THEOREM JobInvariant == Spec => []JobOK
<1>1. JobOK /\ [Next]_vars => JobOK'
  BY TypeStep, GapStep DEF JobOK
<1> QED BY JobStart, <1>1, PTL DEF Spec

\* The travel measured is the way the gripper really turned (ee_feedback, run_ee, tick).
THEOREM TravelMeasured == Spec => []TravelIsReal
<1>1. JobOK => TravelIsReal
  BY DEF JobOK, GapOK, TravelIsReal
<1> QED BY <1>1, JobInvariant, PTL

Fastening == job = "dock" /\ result' = "succeeded" => truly >= Need /\ since >= TurnFor

\* A tool counts as fastened only after a real turn of 9 rad and the whole time to turn.
THEOREM FastenedOnlyByTurning == Spec => FastenedForReal
<1>1. ASSUME JobOK, [Next]_vars PROVE [Fastening]_vars
  <2> SUFFICES ASSUME job = "dock", result' = "succeeded"
               PROVE  truly >= Need /\ since >= TurnFor
    BY DEF Fastening
  <2>1. result = "none"
    BY <1>1 DEF JobOK, GapOK
  <2>2. ~Late /\ RunDock
    BY <1>1, <2>1 DEF Next, vars, Start, Feedback, BadFeedback, Elapse, Tick, End
  <2>3. ~Turning /\ Fastened
    BY <2>1, <2>2 DEF RunDock, End
  <2>4. travel = truly
    BY <1>1, <2>2 DEF JobOK, GapOK
  <2>5. since \in Nat /\ TurnFor \in Nat
    BY <1>1, Constants DEF JobOK, TypeOK
  <2> QED BY <2>3, <2>4, <2>5 DEF Turning, Fastened
<1>2. JobOK /\ [Next]_vars => [Fastening]_vars
  BY <1>1
<1>3. Spec => [][Fastening]_vars
  BY JobInvariant, <1>2, PTL DEF Spec
<1> QED BY <1>3 DEF FastenedForReal, Fastening
=============================================================================
