------------------------------ MODULE DriveChain ------------------------------
(***************************************************************************)
(* DriveMux with the nodes that feed it: the joystick node, and the capture *)
(* node that asks it to hold the robot still for a picture.  `part` is     *)
(* chosen once and says which of them is there: "driving", "capturing", or *)
(* "none", when the mux is fed with anything at any time.                  *)
(*                                                                         *)
(* The joystick's commands reach the mux before its next period.  Messages *)
(* on the landmark and hold topics may be late, at most two and Late of    *)
(* them on their way, and each subscriber has its own queue.  The picture  *)
(* is on its way for a period or more, and a motion has been reported by   *)
(* odometry before a picture taken during it arrives.                      *)
(***************************************************************************)
EXTENDS DriveMux, JoyTeleop, LandmarkCapture

CONSTANTS ChainStates,  \* mission states announced to the capture node
          Late          \* bound of the hold messages on their way

ASSUME ChainAssumption ==
  /\ ChainStates \subseteq MissionStates
  /\ Late \in Nat
  /\ StopMode = StopToCapture

VARIABLES
  part,
  joy,    \* the joystick node
  hand,   \* the operator: directions pressed, those of them pressed since the node
          \* is in drive focus, and the ages of a stick moved and of the focus
  cap,    \* the capture node
  robot,  \* whether it moves, and what has come of this period's odometry and timer
  shot,   \* the picture on its way, and its age
  post    \* messages on their way: landmark to either node, hold, mission state

nodes == <<joy, hand, cap, robot, shot, post>>
chainVars == <<vars, part, nodes>>

HandCap == JoyTimeout + SourceTimeout + 1
NoMail == <<>>
NoShot == [kind |-> "none", age |-> 0]

ChainInit ==
  /\ Init
  /\ part \in {"none", "driving", "capturing"}
  /\ joy = NewTeleop
  /\ hand = [pressed |-> {}, due |-> {}, stick |-> HandCap, away |-> 0]
  /\ cap = NewCapture
  /\ robot = [moving |-> FALSE, told |-> TRUE, ticked |-> FALSE]
  /\ shot = NoShot
  /\ post = [mux |-> <<>>, cap |-> <<>>, hold |-> <<>>, state |-> <<>>]

Older(n, bound) == IF n < bound THEN n + 1 ELSE n

\* A period: the robot moves by the command, or comes to rest some time after it.
Move ==
  \E m \in IF out' \in Sources THEN BOOLEAN ELSE {FALSE, robot.moving} :
    robot' = [moving |-> m, told |-> FALSE, ticked |-> FALSE]

Tick ==
  /\ PublishCmd
  /\ CASE part = "driving" ->
            /\ joy' = JoyAged(joy)
            /\ hand' = [hand EXCEPT !.stick = Older(@, HandCap),
                                    !.away = IF joy.focus = "drive" THEN @
                                             ELSE Older(@, HandCap)]
            /\ UNCHANGED <<cap, robot, shot>>
       [] part = "capturing" ->
            /\ robot.told /\ (Busy(cap) => robot.ticked) /\ age.manual = 0
            /\ <<post.mux, post.cap, post.state>> = <<NoMail, NoMail, NoMail>>
            /\ Move
            /\ cap' = CaptureAged(cap)
            /\ shot' = IF shot.kind = "none" THEN shot
                       ELSE IF shot.age = ImageStale THEN NoShot
                       ELSE [shot EXCEPT !.age = @ + 1]
            /\ UNCHANGED <<joy, hand>>
       [] OTHER -> UNCHANGED <<joy, hand, cap, robot, shot>>
  /\ UNCHANGED <<part, post>>

-----------------------------------------------------------------------------
(* The joystick node *)

Press ==
  /\ part = "driving"
  /\ \E p \in SUBSET Modes :
       /\ p # hand.pressed
       /\ hand' = [hand EXCEPT !.pressed = p,
            !.due = (@ \cap p) \cup (IF joy.focus = "drive" THEN p \ hand.pressed ELSE {})]
  /\ UNCHANGED <<vars, part, joy, cap, robot, shot, post>>

FocusHeard ==
  /\ part = "driving"
  /\ \E f \in {"drive", "arm"} :
       /\ joy' = OnActiveTarget(joy, f)
       /\ hand' = [hand EXCEPT !.due = IF f = "drive" THEN @ ELSE {},
                               !.away = IF f = "drive" THEN 0 ELSE @]
  /\ UNCHANGED <<vars, part, cap, robot, shot, post>>

\* /joy arrives: of each press the node takes notice once.
JoyHeard ==
  /\ part = "driving"
  /\ \E stick \in {"zero", "move"} :
       /\ joy' = JoyCallback(joy, hand.pressed, stick)
       /\ hand' = [hand EXCEPT
            !.due = IF joy.focus = "drive" THEN {} ELSE @,
            !.stick = IF joy.focus = "drive" /\ stick = "move" THEN 0 ELSE @]
  /\ UNCHANGED <<vars, part, cap, robot, shot, post>>

StickPublished ==
  /\ part = "driving"
  /\ joy' = PublishStick(joy)
  /\ OnManual(PublishStick(joy).latest)
  /\ UNCHANGED <<part, hand, cap, robot, shot, post>>

-----------------------------------------------------------------------------
(* The capture node *)

\* What a handler of the node leaves and publishes
Leaves(x) ==
  /\ Len(post.hold) + Len(x.holds) <= Late
  /\ cap' = x.c
  /\ post' = [post EXCEPT !.hold = @ \o x.holds]

\* The landmark button, of the UI or of the joystick
ButtonPressed ==
  /\ part = "capturing" /\ post.mux = <<>> /\ post.cap = <<>>
  /\ \E v \in BOOLEAN : post' = [post EXCEPT !.mux = <<v>>, !.cap = <<v>>]
  /\ UNCHANGED <<vars, part, joy, hand, cap, robot, shot>>

TriggerHeard ==
  /\ part = "capturing" /\ post.cap # <<>>
  /\ \E ready \in BOOLEAN :
       LET x == OnTrigger(cap, Head(post.cap), ready)
       IN  /\ Len(post.hold) + Len(x.holds) <= Late
           /\ cap' = x.c
           /\ post' = [post EXCEPT !.cap = Tail(@), !.hold = @ \o x.holds]
  /\ UNCHANGED <<vars, part, joy, hand, robot, shot>>

StateHeard ==
  /\ part = "capturing" /\ post.state # <<>>
  /\ LET x == OnCaptureState(cap, Head(post.state))
     IN  /\ Len(post.hold) + Len(x.holds) <= Late
         /\ cap' = x.c
         /\ post' = [post EXCEPT !.state = <<>>, !.hold = @ \o x.holds]
  /\ UNCHANGED <<vars, part, joy, hand, robot, shot>>

OdomHeard ==
  /\ part = "capturing" /\ ~robot.told
  /\ cap' = OnOdom(cap, ~robot.moving)
  /\ robot' = [robot EXCEPT !.told = TRUE]
  /\ UNCHANGED <<vars, part, joy, hand, shot, post>>

CaptureTimer ==
  /\ part = "capturing" /\ Busy(cap) /\ ~robot.ticked
  /\ Leaves(CaptureTick(cap))
  /\ robot' = [robot EXCEPT !.ticked = TRUE]
  /\ UNCHANGED <<vars, part, joy, hand, shot>>

\* The camera takes a picture; one is on its way at a time.  A picture at rest that
\* comes before a frame is waited for would be refused, and is left out.
Shutter ==
  /\ part = "capturing" /\ shot.kind = "none"
  /\ robot.moving \/ cap.phase = "WAIT_FRAME"
  /\ shot' = [kind |-> IF robot.moving THEN "moving" ELSE "sharp", age |-> 0]
  /\ UNCHANGED <<vars, part, joy, hand, cap, robot, post>>

PictureHeard ==
  /\ part = "capturing" /\ shot.kind # "none" /\ shot.age > 0
  /\ IF Takes(cap, shot.age) THEN \E x \in OnImage(cap) : Leaves(x)
     ELSE UNCHANGED <<cap, post>>
  /\ shot' = NoShot
  /\ UNCHANGED <<vars, part, joy, hand, robot>>

-----------------------------------------------------------------------------
(* The mux among them *)

MissionSays ==
  /\ part = "capturing" /\ post.state = <<>>
  /\ \E s \in ChainStates \ {state} :
       /\ OnState(s)
       /\ post' = [post EXCEPT !.state = <<s>>]
  /\ UNCHANGED <<part, joy, hand, cap, robot, shot>>

LandmarkHeard ==
  /\ post.mux # <<>>
  /\ OnLandmarkTrigger(Head(post.mux))
  /\ post' = [post EXCEPT !.mux = Tail(@)]
  /\ UNCHANGED <<part, joy, hand, cap, robot, shot>>

HoldHeard ==
  /\ post.hold # <<>>
  /\ OnLandmarkHold(Head(post.hold))
  /\ post' = [post EXCEPT !.hold = Tail(@)]
  /\ UNCHANGED <<part, joy, hand, cap, robot, shot>>

StickHeard ==
  /\ part = "capturing" /\ age.manual # 0
  /\ OnManual("move")
  /\ UNCHANGED <<part, nodes>>

Anything == part = "none" /\ Callback /\ UNCHANGED <<part, nodes>>

ChainNext ==
  \/ Tick \/ Anything
  \/ Press \/ FocusHeard \/ JoyHeard \/ StickPublished
  \/ ButtonPressed \/ TriggerHeard \/ StateHeard \/ OdomHeard \/ CaptureTimer
  \/ Shutter \/ PictureHeard
  \/ MissionSays \/ LandmarkHeard \/ HoldHeard \/ StickHeard

ChainSpec == ChainInit /\ [][ChainNext]_chainVars

-----------------------------------------------------------------------------
(* What the chain promises *)

\* The mode that /joy would ask for now is one whose direction was pressed while the
\* joystick was the drive's, not one still held from the arm's time.
ModePressedInDrive ==
  joy.focus = "drive" => ModeRequest(joy, hand.pressed) \subseteq hand.due

\* The joystick moves the robot only within the two timeouts of a /joy that moved the
\* stick, and only until the mux forgets the last command once the focus is lost.
WheelsFollowTheHand ==
  part = "driving" /\ out = "manual" =>
    /\ hand.stick <= JoyTimeout + SourceTimeout
    /\ hand.away <= SourceTimeout

\* The picture stored in 'stop' mode was not taken while the robot moved, however
\* late a hold of an earlier capture is given up.
PictureAtRest ==
  StopMode /\ shot.kind = "moving" /\ shot.age > 0 => ~Takes(cap, shot.age)
=============================================================================
