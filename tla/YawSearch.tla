------------------------------ MODULE YawSearch ------------------------------
(***************************************************************************)
(* The bounded yaw search of return_navigation/recovery.py: stop and dwell *)
(* at the headings 0, +angle, -angle, 0 relative to the heading at which   *)
(* the search began.  A heading is a point of a circle divided in Circle   *)
(* steps; "within 2 degrees of the target" is "at the target", and "more   *)
(* than 5 degrees outside the envelope" is "outside the envelope".         *)
(***************************************************************************)
EXTENDS Integers

CONSTANTS Circle,         \* heading steps in a full turn
          SearchAngle,    \* landmark_search_angle_deg, in heading steps
          SearchDwell,    \* landmark_search_dwell_s, in control periods
          SearchTimeout   \* landmark_search_timeout_s, in control periods

ASSUME CircleAssumption == Circle \in Nat /\ Circle > 1 /\ Circle % 2 = 0

\* The range the constructor accepts: 0 < angle <= pi/2, dwell >= 1 s,
\* timeout > dwell.
ASSUME SearchAssumption ==
  /\ SearchAngle \in Nat /\ 0 < SearchAngle /\ 4 * SearchAngle <= Circle
  /\ SearchDwell \in Nat /\ 0 < SearchDwell
  /\ SearchTimeout \in Nat /\ SearchDwell < SearchTimeout

None == -1        \* Python's None, for a heading or an age that is not set

Half == Circle \div 2
Yaws == 0 .. Circle - 1

\* se2.normalize_angle: the representative of d in (-Half, Half].
Norm(d) == LET m == d % Circle IN IF m > Half THEN m - Circle ELSE m

AbsVal(d) == IF d < 0 THEN -d ELSE d

Targets == <<0, SearchAngle, -SearchAngle, 0>>

Search == [start : Yaws, index : 1 .. 4, candidate : Yaws \cup {None}]

\* YawSearch.__init__; the ages of `started` and `hold_since` live with the
\* other timers of the node that owns the search.
NewSearch(yaw) == [start |-> yaw, index |-> 1, candidate |-> None]

\* YawSearch.candidate: a sighting redirects the sweep, unless it is dwelling
\* or already heading for another sighting.
Candidate(s, hold, yaw) ==
  IF hold = None /\ s.candidate = None THEN [s EXCEPT !.candidate = yaw] ELSE s

Target(s) ==
  IF s.candidate # None THEN s.candidate
  ELSE (s.start + Targets[s.index]) % Circle

OutsideEnvelope(s, yaw) == AbsVal(Norm(yaw - s.start)) > SearchAngle

NeverTimedOut(started) == FALSE
TimedOut(started) == started >= SearchTimeout

\* What one tick does, as the phase it reports: s is the search, started and
\* hold the ages of its two timers, yaw and slow the latest odometry.  "moving"
\* and "dwelt" are both reported as 'settling'.
Phase(s, started, hold, yaw, slow) ==
  LET away == yaw # Target(s)
  IN  CASE TimedOut(started) -> "timeout"
        [] ~TimedOut(started) /\ away ->
             IF OutsideEnvelope(s, yaw) THEN "angle_limit" ELSE "turning"
        [] ~TimedOut(started) /\ ~away /\ ~slow -> "moving"
        [] ~TimedOut(started) /\ ~away /\ slow /\ hold < SearchDwell -> "observing"
        [] OTHER -> IF s.candidate = None /\ s.index = 4 THEN "not_found"
                    ELSE "dwelt"

Failed == {"timeout", "angle_limit", "not_found"}

\* hold_since after the tick, as an age.  The two failures that return before
\* touching it keep it.
HoldAfter(phase, hold) ==
  CASE phase = "observing" -> IF hold = None THEN 0 ELSE hold
    [] phase \in {"timeout", "not_found"} -> hold
    [] OTHER -> None

\* After a full dwell: a sighting is dropped and the sweep continues, else the
\* next target is taken.
SearchAfter(s, phase) ==
  CASE phase = "dwelt" /\ s.candidate # None -> [s EXCEPT !.candidate = None]
    [] phase = "dwelt" /\ s.candidate = None -> [s EXCEPT !.index = @ + 1]
    [] OTHER -> s
=============================================================================
