--------------------------- MODULE LandmarkCapture ---------------------------
(***************************************************************************)
(* The capture of a landmark on a press: CaptureSequencer, and             *)
(* visual_landmark_node, which asks the mux for a hold while it captures.  *)
(* Each handler is an operator on the node's record c.  Times are ages,    *)
(* cut off at the bound they are compared with; those that no handler will *)
(* look at are Never.                                                      *)
(*                                                                         *)
(* Left out: what is stored, and the pictures taken on its own.            *)
(***************************************************************************)
EXTENDS Integers, Sequences

CONSTANTS StopMode,        \* capture_mode = 'stop'
          StillTime,       \* still_time_s
          SettleTime,      \* settle_s
          CaptureTimeout,  \* capture_timeout_s
          ImageStale,      \* image_stale_s
          OdomStale,       \* _select_image_odom: the age of the live odometry
          RearmAfter       \* rearm_s

ASSUME CaptureAssumption ==
  /\ StopMode \in BOOLEAN
  /\ {StillTime, SettleTime, CaptureTimeout, ImageStale, OdomStale, RearmAfter} \subseteq Nat

Never == -1
CaptureTimers == {"start", "still", "settle", "frame", "odom", "press"}
CaptureCap == [start |-> CaptureTimeout, still |-> StillTime, settle |-> SettleTime,
               frame |-> ImageStale, odom |-> OdomStale + 1, press |-> RearmAfter]
RecordingStates == {"MANUAL_RECORDING", "WAIT_RETURN_COMMAND"}

NewCapture ==
  [state |-> "", phase |-> "IDLE", on |-> FALSE, age |-> [t \in CaptureTimers |-> Never]]

CaptureAged(c) ==
  [c EXCEPT !.age = [t \in CaptureTimers |->
     IF c.age[t] # Never /\ c.age[t] < CaptureCap[t] THEN c.age[t] + 1 ELSE c.age[t]]]

Busy(c) == c.phase # "IDLE"

\* finish, and the end of tick on a timeout
Idle(c) ==
  [c EXCEPT !.phase = "IDLE",
            !.age = [t \in CaptureTimers |-> IF t \in {"odom", "press"} THEN @[t] ELSE Never]]

\* What a handler leaves, and what it publishes on the hold topic, in order.
Say(c, holds) == [c |-> c, holds |-> holds]
Holding == IF StopMode THEN <<TRUE>> ELSE <<>>

\* _fail
CaptureFail(c, started) == Say(IF started THEN Idle(c) ELSE c, <<FALSE>>)

\* start
Start(c) ==
  IF StopMode THEN [Idle(c) EXCEPT !.phase = "WAIT_STILL", !.age.start = 0]
  ELSE [Idle(c) EXCEPT !.phase = "WAIT_FRAME", !.age.start = 0, !.age.frame = 0]

\* _on_trigger.  ready: there are an origin, odometry and a recent image.
OnTrigger(c, value, ready) ==
  LET press == value /\ (~c.on \/ (c.age.press # Never /\ c.age.press >= RearmAfter))
      d == [c EXCEPT !.on = value, !.age.press = IF value THEN 0 ELSE @]
  IN  IF ~press \/ Busy(c) THEN Say(d, <<>>)
      ELSE IF c.state \notin RecordingStates \/ ~ready THEN CaptureFail(d, FALSE)
      ELSE Say(Start(d), Holding)

\* _on_state
OnCaptureState(c, s) ==
  LET d == [c EXCEPT !.state = s]
  IN  IF s \notin RecordingStates /\ Busy(c) THEN CaptureFail(d, TRUE) ELSE Say(d, <<>>)

\* _on_odom: a robot that moves again has to come to rest again.
OnOdom(c, still) ==
  LET d == [c EXCEPT !.age.odom = 0]
  IN  IF ~StopMode \/ ~Busy(c) THEN d
      ELSE IF still
      THEN [d EXCEPT !.age.still = IF @ = Never THEN 0 ELSE @]
      ELSE [d EXCEPT !.phase = "WAIT_STILL", !.age.still = Never, !.age.settle = Never,
                     !.age.frame = Never]

\* CaptureSequencer.tick
Settling(c) ==
  IF c.phase = "WAIT_STILL" /\ c.age.still # Never /\ c.age.still >= StillTime
  THEN [c EXCEPT !.phase = "SETTLE", !.age.settle = 0]
  ELSE c
Settled(c) ==
  IF c.phase = "SETTLE" /\ c.age.settle >= SettleTime
  THEN [c EXCEPT !.phase = "WAIT_FRAME", !.age.frame = 0, !.age.settle = Never]
  ELSE c

\* _tick: the hold is asked for again, or given up.
CaptureTick(c) ==
  IF ~Busy(c) THEN Say(c, <<>>)
  ELSE IF c.age.start >= CaptureTimeout THEN Say(Idle(c), Append(Holding, FALSE))
  ELSE Say(Settled(Settling(c)), Holding)

\* variant: any recent image will do once a frame is waited for
TakesAny(c, taken) == c.phase = "WAIT_FRAME" /\ taken <= ImageStale

\* accept_frame and the age of an image taken so long ago: it is recent, and taken
\* since the frame is waited for.
Takes(c, taken) ==
  c.phase = "WAIT_FRAME" /\ taken <= ImageStale /\ taken <= c.age.frame

\* _on_image, of an image that is taken: it is stored, or fails for want of recent
\* odometry, of features or of a transform.
OnImage(c) ==
  {CaptureFail(c, TRUE)}
  \cup (IF c.age.odom <= OdomStale
        THEN {Say(Idle(c), IF StopMode THEN <<FALSE>> ELSE <<>>)} ELSE {})
=============================================================================
