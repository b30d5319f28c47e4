----------------------------- MODULE DriveArbiter -----------------------------
(***************************************************************************)
(* What drive_cmd_mux promises, abstractly: at every moment one source, or *)
(* nobody, owns the wheels.  A handover stops the robot, and a source moves *)
(* it only while it owns the wheels and only with a command it has given   *)
(* since it got them; a source that falls silent is forgotten.             *)
(***************************************************************************)
CONSTANT Sources  \* their names; "nobody" is not one of them

VARIABLES owner,   \* a source, or "nobody"
          spoken,  \* sources that gave a command since the last handover
          moving   \* the source that moves the robot, or "nobody"

vars == <<owner, spoken, moving>>

Init == owner \in Sources \cup {"nobody"} /\ spoken = {} /\ moving = "nobody"

\* Control is announced to pass to o, possibly the present owner.
Handover(o) == owner' = o /\ spoken' = {} /\ moving' = "nobody"

Speak(s) == spoken' = spoken \cup {s} /\ UNCHANGED <<owner, moving>>

Drive ==
  /\ moving' \in (spoken \cap {owner}) \cup {"nobody"}
  /\ UNCHANGED <<owner, spoken>>

Next == \/ \E o \in Sources \cup {"nobody"} : Handover(o)
        \/ \E s \in Sources : Speak(s)
        \/ Drive

Spec == Init /\ [][Next]_vars
=============================================================================
