-------------------------- MODULE PathFollowerHistory --------------------------
(***************************************************************************)
(* PathFollower with what its properties remember: the corner at which the *)
(* rotation in progress was begun.                                         *)
(***************************************************************************)
EXTENDS PathFollower

VARIABLES
  stoppedAt  \* the corner reached by the rotation that goes on, or None: there
             \* is none, it is a realignment, or the mission was interrupted

hvars == <<vars, stoppedAt>>

HInit == Init /\ stoppedAt = None

HNext ==
  /\ Next
  /\ stoppedAt' = CASE mission' # Following \/ path' # path -> None
                    [] drive.mode = "TRACK_PATH" ->
                         IF drive'.mode = "ROTATE_TO_PATH"
                            /\ drive'.target # None /\ drive'.corner = NextCorner
                         THEN NextCorner ELSE None
                    [] OTHER -> stoppedAt

HSpec == HInit /\ [][HNext]_hvars

-----------------------------------------------------------------------------
\* A corner counts as handled only at the end of a rotation that began when
\* that corner was reached and that no pause of the mission interrupted: a robot
\* driven elsewhere by hand in a rotation does not skip the corner.
CornerHandledWhereReached ==
  [][ptr' > ptr => stoppedAt = NextCorner /\ ptr' = ptr + 1]_hvars
=============================================================================
