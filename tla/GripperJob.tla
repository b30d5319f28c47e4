------------------------------ MODULE GripperJob ------------------------------
(***************************************************************************)
(* The gripper jobs of ModeCore (close_ee, timed_docking_ee, run_ee): turn *)
(* the gripper to a goal, or fasten a tool by turning it at full speed for *)
(* a fixed time and then making sure that it turned far enough and stands. *)
(* ArmModeCore!RunEE leaves the outcome of a period open; this module says *)
(* what it depends on.                                                     *)
(*                                                                         *)
(* The encoder has Wrap positions, so a reading tells a turn only up to    *)
(* whole revolutions.  The gripper itself is external: it follows its      *)
(* command, lags, sticks or runs on, at most MaxStep positions a period.   *)
(***************************************************************************)
EXTENDS Integers

CONSTANTS Wrap,        \* positions of the encoder
          MaxStep,     \* furthest turn in a period
          Freshness,   \* gripper feedback is fresh for less than this
          MaxDt,       \* longest control period (tick faults above it)
          Stall,       \* how late a tick may be
          TurnFor,     \* docking_ee_end: how long it is told to turn
          StopLimit,   \* 3 s for it to stand after that
          StandFor,    \* 0.3 s: how long it must be seen standing
          Need,        \* 9 rad: the turn that fastens a tool
          CloseLimit, ProgressLimit, Settle, \* close_ee: 60 s, 3 s, 5 samples
          Far          \* largest distance of a goal of close_ee

None == -1
Half == Wrap \div 2

ASSUME JobAssumption ==
  /\ {Wrap, MaxStep, Freshness, MaxDt, Stall, TurnFor, StopLimit, StandFor,
      Need, CloseLimit, ProgressLimit, Settle, Far} \subseteq Nat
  /\ Wrap > 0 /\ Settle > 0 /\ Freshness > 0
  \* 5 rad/s for 0.3 s and a period of at most 0.2 s is less than half a turn.
  /\ (Freshness + MaxDt) * MaxStep < Half

VARIABLES
  job,      \* the job, "close" or "dock", or "none"; its result when it ended
  result,
  on,       \* what the gripper is told: self.ee # 0
  since,    \* age of started
  read,     \* ee_position, the encoder's
  moving,   \* |ee_velocity| > 0.02, as read
  age,      \* age of ee_state_time
  late,     \* periods since the last tick
  travel,   \* docking_ee_travel
  standing, \* age of docking_ee_stopped_since, or None
  left,     \* distance to the goal of close_ee, as read
  best, progress, settled,  \* ee_best_error, age of ee_progress_time, settled
  gap,      \* external: how far it turned since the reading; while there is no job
            \* and the reading is too old for one, nothing depends on it
  truly     \* external: how far it had turned in this job at that reading

dock == <<travel, standing>>
closing == <<left, best, progress, settled>>
gripper == <<gap, truly>>
vars == <<job, result, on, since, read, moving, age, late, dock, closing, gripper>>

Init ==
  /\ job = "none" /\ result = "none" /\ on = FALSE /\ since = 0
  /\ read = 0 /\ moving = FALSE /\ age = Freshness /\ late = 0
  /\ travel = 0 /\ standing = None
  /\ left = 0 /\ best = 0 /\ progress = 0 /\ settled = 0
  /\ gap = 0 /\ truly = 0

Older(a, bound) == IF a = None THEN None ELSE IF a > bound THEN a ELSE a + 1

\* close_ee, and timed_docking_ee which adds its own counters; the core asks for
\* fresh feedback of the gripper.
Start(kind) ==
  /\ job = "none" /\ age < Freshness
  /\ job' = kind /\ result' = "none" /\ since' = 0
  /\ travel' = 0 /\ standing' = None /\ settled' = 0 /\ progress' = 0
  /\ left' \in IF kind = "close" THEN 0 .. Far ELSE {0}
  /\ best' = left' /\ truly' = 0
  /\ UNCHANGED <<on, read, moving, age, late, gap>>

\* variant: the turn is taken as the encoder's difference
PlainTurn(from, to) == to - from

\* The turn between two readings, by the shorter way.
Turn(from, to) == ((to - from + Half) % Wrap) - Half

\* ee_feedback
Feedback ==
  /\ read' = (read + gap) % Wrap
  /\ moving' \in BOOLEAN /\ age' = 0
  /\ travel' = IF job = "dock" THEN travel + Turn(read, read') ELSE travel
  /\ left' = IF job = "close" THEN (IF left > gap THEN left - gap ELSE 0) ELSE left
  /\ truly' = IF job = "dock" THEN truly + gap ELSE truly
  /\ gap' = 0
  /\ UNCHANGED <<job, result, on, since, late, standing, best, progress, settled>>

\* A nonfinite reading.
BadFeedback ==
  /\ age' = Freshness
  /\ UNCHANGED <<job, result, on, since, read, moving, late, dock, closing, gripper>>

End(r) == job' = "none" /\ result' = r /\ on' = FALSE

Stale == age >= Freshness

\* variant: it is told to turn until it has turned far enough
TurnUntilFar == travel < Need

Turning == since < TurnFor

\* variant: having stood is enough
StoodOnly == standing # None /\ standing >= StandFor

Fastened == standing # None /\ standing >= StandFor /\ travel >= Need

\* run_ee for a docking turn, while the arm stays where it was.
RunDock ==
  IF Stale THEN End("aborted") /\ UNCHANGED dock
  ELSE IF Turning THEN on' = TRUE /\ UNCHANGED <<job, result, dock>>
  ELSE IF since > TurnFor + StopLimit THEN End("aborted") /\ UNCHANGED dock
  ELSE IF moving
  THEN standing' = None /\ on' = FALSE /\ UNCHANGED <<job, result, travel>>
  ELSE IF standing = None
  THEN standing' = 0 /\ on' = FALSE /\ UNCHANGED <<job, result, travel>>
  ELSE IF standing < StandFor THEN on' = FALSE /\ UNCHANGED <<job, result, dock>>
  ELSE End(IF Fastened THEN "succeeded" ELSE "aborted") /\ UNCHANGED dock

\* run_ee for a goal: told to turn until it is there and stands for Settle ticks.
RunClose ==
  LET nearer == left < best
      stuck == (IF nearer THEN 0 ELSE progress) > ProgressLimit
  IN /\ best' = IF nearer THEN left ELSE best
     /\ progress' = IF nearer THEN 0 ELSE progress
     /\ UNCHANGED left
     /\ IF Stale \/ since > CloseLimit THEN End("aborted") /\ UNCHANGED settled
        ELSE IF left = 0 /\ ~moving
        THEN /\ settled' = settled + 1
             /\ IF settled' >= Settle THEN End("succeeded")
                ELSE on' = FALSE /\ UNCHANGED <<job, result>>
        ELSE IF stuck THEN End("aborted") /\ UNCHANGED settled
        ELSE settled' = 0 /\ on' = (left > 0) /\ UNCHANGED <<job, result>>

Late == late > MaxDt

\* tick: a late one faults, and an arm that is pushed away ends the job.
Tick ==
  /\ late > 0 /\ late' = 0
  /\ UNCHANGED <<since, read, moving, age, gripper>>
  /\ \/ job = "none" /\ on' = FALSE /\ UNCHANGED <<job, result, dock, closing>>
     \/ job # "none" /\ End("aborted") /\ UNCHANGED <<dock, closing>>
     \/ job = "dock" /\ ~Late /\ RunDock /\ UNCHANGED closing
     \/ job = "close" /\ ~Late /\ RunClose /\ UNCHANGED dock

\* A period passes; the gripper may turn, told to or not.
Elapse ==
  /\ late < Stall /\ late' = late + 1
  /\ since' = Older(since, IF job = "dock" THEN TurnFor + StopLimit ELSE CloseLimit)
  /\ age' = IF age < Freshness THEN age + 1 ELSE age
  /\ standing' = Older(standing, StandFor)
  /\ progress' = Older(progress, ProgressLimit)
  /\ \E turn \in 0 .. MaxStep :
       gap' = IF job = "none" /\ age >= Freshness THEN 0 ELSE gap + turn
  /\ UNCHANGED <<job, result, on, read, moving, travel, left, best, settled, truly>>

Next ==
  \/ Start("close") \/ Start("dock") \/ Feedback \/ BadFeedback \/ Tick \/ Elapse

Fairness == WF_late(late > 0 /\ late' = 0) /\ WF_late(late < Stall /\ late' = late + 1)

Spec == Init /\ [][Next]_vars /\ Fairness

-----------------------------------------------------------------------------
\* The state is well typed; without a job the gripper is not told to turn.
TypeOK ==
  /\ job \in {"none", "close", "dock"} /\ result \in {"none", "succeeded", "aborted"}
  /\ on \in BOOLEAN /\ moving \in BOOLEAN /\ read \in 0 .. Wrap - 1
  /\ since \in Nat /\ age \in 0 .. Freshness /\ late \in 0 .. Stall
  /\ travel \in Int /\ standing \in {None} \cup Nat
  /\ {left, best} \subseteq 0 .. Far /\ {progress, settled, gap, truly} \subseteq Nat
  /\ job = "none" => ~on

\* The travel that decides whether a tool is fastened is the way the gripper
\* really turned, over any number of revolutions of its encoder and however
\* late readings and ticks come: a gap that could hide half a turn is never
\* used, because the next tick ends the job (ee_feedback, run_ee, tick).
TravelIsReal == job = "dock" /\ ~Late => travel = truly

\* A tool counts as fastened only when the gripper really turned by the 9 rad
\* and the time to turn was over (run_ee).
FastenedForReal ==
  [][job = "dock" /\ result' = "succeeded" => truly >= Need /\ since >= TurnFor]_vars

\* Every job ends, on a stuck gripper and without feedback too (run_ee).
JobsEnd == (job # "none") ~> (job = "none")
=============================================================================
