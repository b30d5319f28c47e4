------------------------------- MODULE ArmOwner -------------------------------
(***************************************************************************)
(* What the arm's mode manager promises: the arm has one owner at a time,  *)
(* it is handed over only from nobody, and only its owner -- or the        *)
(* manager itself, while it recovers or aligns the arm -- gives it a goal. *)
(* Without an owner its goal is the place where it was seen, and a fault   *)
(* is left for nobody, never for an owner.                                 *)
(***************************************************************************)
CONSTANTS Owners, Places, None

VARIABLES owner,  \* one of Owners, "self", "none" or "fault"
          seen,   \* where the arm was last seen
          aim     \* where it is told to go

vars == <<owner, seen, aim>>

Init == owner = "none" /\ seen = None /\ aim = None

\* Where the arm is, or nowhere in particular: the last command stays.
AtRest == aim' \in {None, seen}

See == seen' \in Places /\ UNCHANGED <<owner, aim>>

Aim ==
  /\ owner \in Owners \cup {"self"} /\ aim' \in Places
  /\ UNCHANGED <<owner, seen>>

Hand ==
  /\ owner = "none" /\ owner' \in Owners
  /\ aim \in {None, seen} /\ UNCHANGED <<aim, seen>>

\* The manager begins, and ends, a motion of its own.
Begin ==
  /\ owner = "none" /\ owner' = "self" /\ aim' \in Places \cup {aim}
  /\ UNCHANGED seen

Release == owner # "fault" /\ owner' = "none" /\ AtRest /\ UNCHANGED seen

Fail == owner' = "fault" /\ AtRest /\ UNCHANGED seen

Clear == owner = "fault" /\ owner' = "none" /\ AtRest /\ UNCHANGED seen

Next == See \/ Aim \/ Hand \/ Begin \/ Release \/ Fail \/ Clear

Spec == Init /\ [][Next]_vars
=============================================================================
