---------------------------- MODULE DriveChainProofs ----------------------------
(***************************************************************************)
(* DriveMux implements DriveArbiter; among the nodes that feed it the mux  *)
(* keeps its promises, and these keep theirs: for every value of the       *)
(* constants.                                                              *)
(***************************************************************************)
EXTENDS DriveChain, SequenceTheorems, TLAPS

-----------------------------------------------------------------------------
(* The mux by itself *)

Ages == [Timers -> Nat \cup {None}]

LEMMA AgedType == ASSUME age \in Ages PROVE Aged \in Ages
  BY DEF Aged, Ages, None

\* What CaptureHold does to the ages leaves those of the commands alone.
LEMMA HoldFrame ==
  ASSUME NEW a \in Ages, NEW h \in BOOLEAN
  PROVE  /\ HoldPressed(a) \in Ages /\ HoldLeased(a, h) \in Ages
         /\ Checked(a) \in Ages
         /\ \A s \in Sources : /\ HoldPressed(a)[s] = a[s]
                               /\ HoldLeased(a, h)[s] = a[s]
                               /\ Checked(a)[s] = a[s]
<1>1. Released(a) \in Ages /\ \A s \in Sources : Released(a)[s] = a[s]
  BY DEF Released, Ages, Timers, Sources
<1>2. /\ [a EXCEPT !.hold = 0, !.lease = None] \in Ages
      /\ [a EXCEPT !.lease = 0] \in Ages
      /\ \A s \in Sources : /\ [a EXCEPT !.hold = 0, !.lease = None][s] = a[s]
                            /\ [a EXCEPT !.lease = 0][s] = a[s]
  BY DEF Ages, Timers, Sources
<1>3. HoldPressed(a) \in {a, [a EXCEPT !.hold = 0, !.lease = None]}
  BY DEF HoldPressed
<1>4. HoldLeased(a, h) \in {a, [a EXCEPT !.lease = 0], Released(a)}
  BY DEF HoldLeased
<1>5. Checked(a) \in {a, Released(a)}
  BY DEF Checked
<1> QED BY <1>1, <1>2, <1>3, <1>4, <1>5

\* The three ways the timer publishes, as one
LEMMA PublishFrame ==
  ASSUME TypeOK, PublishCmd
  PROVE  /\ UNCHANGED <<state, cmd, prev>>
         /\ age' \in Ages
         /\ \A s \in Sources : age'[s] = None <=> age[s] = None
         /\ out' \in {"zero", "held"}
            \/ \E s \in Sources : out' = s /\ s = Owner(state) /\ age[s] # None
<1>1. age \in Ages /\ Aged \in Ages
  BY AgedType DEF TypeOK, Ages
<1>2. \A s \in Sources : Aged[s] = None <=> age[s] = None
  BY <1>1 DEF Aged, Ages, Timers, None
<1>3. Checked(Aged) \in Ages /\ \A s \in Sources : Checked(Aged)[s] = Aged[s]
  BY <1>1, HoldFrame
<1>4. age' = Aged \/ age' = Checked(Aged)
  BY DEF PublishCmd, PublishReturn, PublishZero, PublishManual
<1>5. UNCHANGED <<state, cmd, prev>>
  BY DEF PublishCmd
<1>6. \A s \in Sources : Pass(s, Aged) = s => age[s] # None
  BY <1>2 DEF Pass, Fresh, Sources
<1>7. \A s \in Sources : Pass(s, Aged) \in {s, "zero"}
  BY DEF Pass
<1>8. /\ state \in ReturnStates => Owner(state) = "return"
      /\ state \notin ReturnStates \cup ZeroStates => Owner(state) = "manual"
  BY DEF Owner, ReturnStates, ZeroStates
<1>9. out' \in {"zero", "held"}
      \/ \E s \in Sources : out' = s /\ s = Owner(state) /\ age[s] # None
  <2>1. CASE PublishReturn
    <3>1. Pass("return", Aged) \in {"return", "zero"} /\ "return" \in Sources
      BY <1>7 DEF Sources
    <3>2. out' = Pass("return", Aged) /\ Owner(state) = "return"
      BY <2>1, <1>8 DEF PublishReturn
    <3> QED BY <3>1, <3>2, <1>6
  <2>2. CASE PublishZero
    BY <2>2 DEF PublishZero
  <2>3. CASE PublishManual
    BY <2>3, <1>6, <1>7, <1>8 DEF PublishManual, Sources
  <2> QED BY <2>1, <2>2, <2>3 DEF PublishCmd
<1> QED BY <1>2, <1>3, <1>1, <1>4, <1>5, <1>9

-----------------------------------------------------------------------------
(* Types *)

LEMMA CallbackType == ASSUME TypeOK, Callback PROVE TypeOK'
<1>0. age \in Ages
  BY DEF TypeOK, Ages
<1>1. ASSUME NEW c \in {"zero", "move"}, OnManual(c) \/ OnReturn(c) PROVE TypeOK'
  <2>1. cmd' \in [Sources -> {"zero", "move"}]
    BY <1>1 DEF OnManual, OnReturn, TypeOK
  <2>2. age' \in Ages
    BY <1>0, <1>1 DEF OnManual, OnReturn, Ages
  <2> QED BY <1>1, <2>1, <2>2 DEF OnManual, OnReturn, TypeOK, Ages
<1>2. ASSUME NEW s \in MissionStates, OnState(s) PROVE TypeOK'
  <2>1. Forgotten \in Ages
    BY <1>0 DEF Forgotten, Ages
  <2> QED BY <1>2, <2>1 DEF OnState, TypeOK, Ages
<1>3. ASSUME NEW v \in BOOLEAN, OnLandmarkTrigger(v) PROVE TypeOK'
  <2> DEFINE seen == [age EXCEPT !["true"] = IF v THEN 0 ELSE @]
  <2>1. seen \in Ages
    BY <1>0 DEF Ages, Timers
  <2>2. age' \in {seen, HoldPressed(seen)}
    BY <1>3 DEF OnLandmarkTrigger
  <2> HIDE DEF seen
  <2>3. age' \in Ages
    BY <2>1, <2>2, HoldFrame
  <2> QED BY <1>3, <2>3 DEF OnLandmarkTrigger, TypeOK, Ages
<1>4. ASSUME NEW h \in BOOLEAN, OnLandmarkHold(h) PROVE TypeOK'
  <2>1. age' \in Ages
    BY <1>0, <1>4, HoldFrame DEF OnLandmarkHold
  <2> QED BY <1>4, <2>1 DEF OnLandmarkHold, TypeOK, Ages
<1> QED BY <1>1, <1>2, <1>3, <1>4 DEF Callback

LEMMA InitType == ASSUME Init PROVE TypeOK
  BY DEF Init, TypeOK, Timers, None

LEMMA TypeStep == ASSUME TypeOK, [Next]_vars PROVE TypeOK'
<1>1. CASE UNCHANGED vars
  BY <1>1 DEF vars, TypeOK
<1>2. CASE PublishCmd
  BY <1>2, PublishFrame DEF TypeOK, Ages
<1> QED BY <1>1, <1>2, CallbackType DEF Next

\* The mux publishes and stores only what its readers know.
THEOREM TypeCorrect == Spec => []TypeOK
  BY InitType, TypeStep, PTL DEF Spec

-----------------------------------------------------------------------------
(* The refinement *)

\* Every step of the mux is a step of the arbiter, or none: a change of state a
\* handover, a command a Speak, a publication a Drive.
LEMMA ArbiterStep == ASSUME TypeOK, [Next]_vars PROVE [Arbiter!Next]_(Arbiter!vars)
<1> DEFINE spoken == {s \in Sources : age[s] # None}
           moving == IF out \in Sources THEN out ELSE "nobody"
<1> USE DEF Arbiter!vars, Arbiter!Next
<1>0. age \in Ages
  BY DEF TypeOK, Ages
<1>1. CASE UNCHANGED vars
  BY <1>1 DEF vars
<1>2. ASSUME NEW c \in {"zero", "move"}, OnManual(c) PROVE Arbiter!Next
  <2>1. spoken' = spoken \cup {"manual"}
    BY <1>0, <1>2 DEF OnManual, Sources, Ages, Timers, None
  <2>2. UNCHANGED <<state, out>>
    BY <1>2 DEF OnManual
  <2> QED BY <2>1, <2>2 DEF Arbiter!Speak, Sources
<1>3. ASSUME NEW c \in {"zero", "move"}, OnReturn(c) PROVE Arbiter!Next
  <2>1. spoken' = spoken \cup {"return"}
    BY <1>0, <1>3 DEF OnReturn, Sources, Ages, Timers, None
  <2>2. UNCHANGED <<state, out>>
    BY <1>3 DEF OnReturn
  <2> QED BY <2>1, <2>2 DEF Arbiter!Speak, Sources
<1>4. ASSUME NEW s \in MissionStates, OnState(s), s # state PROVE Arbiter!Next
  <2>1. spoken' = {} /\ moving' = "nobody" /\ state' = s
    BY <1>0, <1>4 DEF OnState, Forgotten, Sources, Ages, Timers
  <2>2. Owner(state) \in Sources \cup {"nobody"} /\ Owner(state)' \in Sources \cup {"nobody"}
    BY DEF Owner, Sources
  <2> QED BY <2>1, <2>2 DEF Arbiter!Handover
<1>5. ASSUME NEW s \in MissionStates, OnState(s), s = state
      PROVE  UNCHANGED Arbiter!vars
  BY <1>5 DEF OnState
<1>6. ASSUME NEW v \in BOOLEAN, OnLandmarkTrigger(v) \/ OnLandmarkHold(v)
      PROVE  UNCHANGED Arbiter!vars
  <2> DEFINE seen == [age EXCEPT !["true"] = IF v THEN 0 ELSE @]
  <2>1. seen \in Ages /\ \A s \in Sources : seen[s] = age[s]
    BY <1>0 DEF Ages, Timers, Sources
  <2>2. age' \in {seen, HoldPressed(seen), HoldLeased(age, v)}
    BY <1>6 DEF OnLandmarkTrigger, OnLandmarkHold
  <2> HIDE DEF seen
  <2>3. \A s \in Sources : age'[s] = age[s]
    BY <2>1, <2>2, <1>0, HoldFrame
  <2>4. UNCHANGED <<state, out>>
    BY <1>6 DEF OnLandmarkTrigger, OnLandmarkHold
  <2> QED BY <2>3, <2>4
<1>7. ASSUME PublishCmd PROVE Arbiter!Next
  <2>1. spoken' = spoken /\ state' = state
    BY <1>7, PublishFrame
  <2>2. moving' \in (spoken \cap {Owner(state)}) \cup {"nobody"}
    BY <1>7, PublishFrame DEF Sources
  <2> QED BY <2>1, <2>2 DEF Arbiter!Drive
<1> QED
  BY <1>1, <1>2, <1>3, <1>4, <1>5, <1>6, <1>7 DEF Next, Callback

LEMMA ArbiterInit == ASSUME Init PROVE Arbiter!Init
  BY DEF Init, Arbiter!Init, Owner, Sources, ReturnStates, ZeroStates, Timers

\* Only the source that owns the wheels moves the robot, with a command given
\* since the handover, and every handover stops it.
THEOREM MuxImplementsArbiter == Spec => ImplementsArbiter
<1>1. Spec => Arbiter!Spec
  BY TypeCorrect, ArbiterInit, ArbiterStep, PTL DEF Spec, Arbiter!Spec
<1> QED BY <1>1 DEF ImplementsArbiter

-----------------------------------------------------------------------------
(* The capture hold *)

HoldKept == age.hold # None /\ HoldActive(age) /\ age'.hold # None
              => age'.hold >= age.hold

LEMMA HoldStep == ASSUME TypeOK, [Next]_vars PROVE HoldKept
<1> SUFFICES ASSUME age.hold # None, HoldActive(age), age'.hold # None
             PROVE  age'.hold >= age.hold
  BY DEF HoldKept
<1>0. age \in Ages /\ age.hold \in Nat
  BY DEF TypeOK, Ages, Timers, None
<1>1. CASE UNCHANGED vars \/ \E s \in MissionStates : OnState(s)
  <2>1. age' \in {age, Forgotten}
    BY <1>1 DEF vars, OnState
  <2>2. Forgotten.hold = age.hold
    BY <1>0 DEF Forgotten, Ages, Timers
  <2> QED BY <1>0, <2>1, <2>2
<1>2. CASE \E c \in {"zero", "move"} : OnManual(c) \/ OnReturn(c)
  BY <1>0, <1>2 DEF OnManual, OnReturn, Ages, Timers
<1>3. ASSUME NEW v \in BOOLEAN, OnLandmarkTrigger(v) PROVE age'.hold >= age.hold
  <2> DEFINE seen == [age EXCEPT !["true"] = IF v THEN 0 ELSE @]
  <2>1. HoldActive(seen) /\ seen.hold = age.hold
    BY <1>0 DEF HoldActive, Ages, Timers
  <2>2. age' \in {seen, HoldPressed(seen)}
    BY <1>3 DEF OnLandmarkTrigger
  <2> HIDE DEF seen
  <2>3. age' = seen
    BY <2>1, <2>2 DEF HoldPressed
  <2> QED BY <2>1, <2>3, <1>0
<1>4. ASSUME NEW h \in BOOLEAN, OnLandmarkHold(h) PROVE age'.hold >= age.hold
  <2>1. age' \in {age, [age EXCEPT !.lease = 0], Released(age)}
    BY <1>4 DEF OnLandmarkHold, HoldLeased
  <2>2. Released(age).hold = None
    BY <1>0 DEF Released, Ages, Timers
  <2> QED BY <1>0, <2>1, <2>2 DEF Ages, Timers
<1>5. CASE PublishCmd
  <2>1. age' \in {Aged, Released(Aged)}
    BY <1>5 DEF PublishCmd, PublishReturn, PublishZero, PublishManual, Checked
  <2>2. Aged \in Ages
    BY <1>0, AgedType
  <2>3. Released(Aged).hold = None
    BY <2>2 DEF Released, Ages, Timers
  <2>4. Aged.hold >= age.hold
    BY <1>0 DEF Aged, Ages, Timers
  <2> QED BY <2>1, <2>3, <2>4
<1> QED BY <1>1, <1>2, <1>3, <1>4, <1>5 DEF Next, Callback

\* While a hold runs, nothing the operator or the camera sends moves its end.
THEOREM NoHoldExtended == Spec => HoldNotExtended
<1>1. TypeOK /\ [Next]_vars => [HoldKept]_vars
  BY HoldStep
<1>2. Spec => [][HoldKept]_vars
  BY TypeCorrect, <1>1, PTL DEF Spec
<1> QED BY <1>2 DEF HoldNotExtended, HoldKept

-----------------------------------------------------------------------------
(* Messages on their way *)

Signals == Seq(BOOLEAN)
MailOK == post \in [mux : Signals, cap : Signals, hold : Signals, state : Seq(MissionStates)]

LEMMA SignalFacts ==
  /\ <<>> \in Signals
  /\ \A v \in BOOLEAN : <<v>> \in Signals
  /\ \A s, t \in Signals : s \o t \in Signals
  /\ \A s \in Signals, v \in BOOLEAN : Append(s, v) \in Signals
  /\ \A s \in Signals : s # <<>> => Head(s) \in BOOLEAN /\ Tail(s) \in Signals
<1>1. \A s, t \in Signals : s \o t \in Signals
  BY ConcatProperties DEF Signals
<1>2. \A s \in Signals : s # <<>> => Head(s) \in BOOLEAN /\ Tail(s) \in Signals
  BY HeadTailProperties DEF Signals
<1>3. <<>> \in Signals /\ \A v \in BOOLEAN : <<v>> \in Signals
  BY EmptySeq DEF Signals
<1>4. \A s \in Signals, v \in BOOLEAN : Append(s, v) \in Signals
  BY AppendProperties DEF Signals
<1> QED BY <1>1, <1>2, <1>3, <1>4

LEMMA HoldsType ==
  ASSUME NEW c
  PROVE  /\ \A v, r \in BOOLEAN : OnTrigger(c, v, r).holds \in Signals
         /\ \A s : OnCaptureState(c, s).holds \in Signals
         /\ CaptureTick(c).holds \in Signals
         /\ \A x \in OnImage(c) : x.holds \in Signals
<1>1. Holding \in Signals /\ Append(Holding, FALSE) \in Signals /\ <<>> \in Signals /\ <<FALSE>> \in Signals
  <2>1. Holding \in Signals
    BY SignalFacts DEF Holding
  <2> QED BY <2>1, SignalFacts
<1>2. \A d, h : Say(d, h).holds = h
  BY DEF Say
<1>3. \A d, b : CaptureFail(d, b).holds \in Signals
  BY <1>1, <1>2 DEF CaptureFail
<1>4. \A v, r \in BOOLEAN : OnTrigger(c, v, r).holds \in Signals
  BY <1>1, <1>2, <1>3 DEF OnTrigger
<1>5. \A s : OnCaptureState(c, s).holds \in Signals
  BY <1>1, <1>2, <1>3 DEF OnCaptureState
<1>6. CaptureTick(c).holds \in Signals
  BY <1>1, <1>2 DEF CaptureTick
<1>7. \A x \in OnImage(c) : x.holds \in Signals
  BY <1>1, <1>2, <1>3 DEF OnImage
<1> QED BY <1>4, <1>5, <1>6, <1>7

LEMMA MailStep == ASSUME MailOK, [ChainNext]_chainVars PROVE MailOK'
<1> USE DEF MailOK
<1>1. CASE ButtonPressed
  BY <1>1, SignalFacts DEF ButtonPressed
<1>2. CASE TriggerHeard
  <2>1. PICK r \in BOOLEAN :
          post' = [post EXCEPT !.cap = Tail(post.cap),
                               !.hold = post.hold \o OnTrigger(cap, Head(post.cap), r).holds]
    BY <1>2 DEF TriggerHeard
  <2>2. post.cap # <<>> /\ Head(post.cap) \in BOOLEAN /\ Tail(post.cap) \in Signals
    BY <1>2, SignalFacts DEF TriggerHeard
  <2>3. OnTrigger(cap, Head(post.cap), r).holds \in Signals
    BY <2>2, HoldsType
  <2> QED BY <2>1, <2>2, <2>3, SignalFacts
<1>3. CASE StateHeard
  <2>1. post' = [post EXCEPT !.state = <<>>,
                             !.hold = post.hold \o OnCaptureState(cap, Head(post.state)).holds]
    BY <1>3 DEF StateHeard
  <2>2. OnCaptureState(cap, Head(post.state)).holds \in Signals
    BY HoldsType
  <2> QED BY <2>1, <2>2, SignalFacts, EmptySeq
<1>4. CASE CaptureTimer
  <2>1. post' = [post EXCEPT !.hold = post.hold \o CaptureTick(cap).holds]
    BY <1>4 DEF CaptureTimer, Leaves
  <2> QED BY <2>1, HoldsType, SignalFacts
<1>5. CASE PictureHeard
  <2>1. ASSUME NEW x \in OnImage(cap), Leaves(x) PROVE MailOK'
    <3>1. post' = [post EXCEPT !.hold = post.hold \o x.holds]
      BY <2>1 DEF Leaves
    <3> QED BY <3>1, HoldsType, SignalFacts
  <2>2. (\E x \in OnImage(cap) : Leaves(x)) \/ UNCHANGED post
    BY <1>5 DEF PictureHeard
  <2> QED BY <2>1, <2>2
<1>6. CASE MissionSays
  <2>1. PICK s \in MissionStates : post' = [post EXCEPT !.state = <<s>>]
    BY <1>6, ChainAssumption DEF MissionSays
  <2>2. <<s>> \in Seq(MissionStates)
    OBVIOUS
  <2> QED BY <2>1, <2>2
<1>7. CASE LandmarkHeard \/ HoldHeard
  BY <1>7, SignalFacts DEF LandmarkHeard, HoldHeard
<1>8. CASE UNCHANGED post
  BY <1>8
<1> QED
  BY <1>1, <1>2, <1>3, <1>4, <1>5, <1>6, <1>7, <1>8 DEF ChainNext, chainVars, nodes, Tick, Anything,
    Press, FocusHeard, JoyHeard, StickPublished, OdomHeard, Shutter, StickHeard

-----------------------------------------------------------------------------
(* The mux *)

JoyState == [focus : {"drive", "arm"}, rearm : BOOLEAN, held : SUBSET Modes,
             latest : {"zero", "move"}, age : 0 .. JoyTimeout + 1]

LEMMA TeleopType ==
  ASSUME NEW j \in JoyState
  PROVE  /\ \A f \in {"drive", "arm"} : OnActiveTarget(j, f) \in JoyState
         /\ \A p \in SUBSET Modes, s \in {"zero", "move"} : JoyCallback(j, p, s) \in JoyState
         /\ PublishStick(j) \in JoyState /\ JoyAged(j) \in JoyState
<1>1. \A f \in {"drive", "arm"} : OnActiveTarget(j, f) \in JoyState
  BY DEF OnActiveTarget, JoyState
<1>2. 0 \in 0 .. JoyTimeout + 1 /\ j.age \in 0 .. JoyTimeout + 1
  BY JoyAssumption DEF JoyState
<1>3. ASSUME NEW p \in SUBSET Modes, NEW s \in {"zero", "move"}
      PROVE  JoyCallback(j, p, s) \in JoyState
  BY <1>2 DEF JoyCallback, JoyState
<1>4. PublishStick(j) \in JoyState
  BY DEF PublishStick, JoyState
<1>5. JoyAged(j) \in JoyState
  <2>1. (IF j.age > JoyTimeout THEN j.age ELSE j.age + 1) \in 0 .. JoyTimeout + 1
    BY <1>2, JoyAssumption
  <2> QED BY <2>1 DEF JoyAged, JoyState
<1> QED BY <1>1, <1>3, <1>4, <1>5

\* Every step of the chain is one of the mux, or leaves it alone.
LEMMA MuxStep ==
  ASSUME MailOK, joy \in JoyState, [ChainNext]_chainVars PROVE [Next]_vars
<1>1. CASE Tick \/ Anything
  BY <1>1 DEF Tick, Anything, Next
<1>2. CASE StickPublished \/ StickHeard
  <2>1. PublishStick(joy).latest \in {"zero", "move"}
    BY TeleopType DEF JoyState
  <2>2. \E c \in {"zero", "move"} : OnManual(c)
    BY <1>2, <2>1 DEF StickPublished, StickHeard
  <2> QED BY <2>2 DEF Next, Callback
<1>3. CASE MissionSays
  BY <1>3, ChainAssumption DEF MissionSays, Next, Callback
<1>4. CASE LandmarkHeard \/ HoldHeard
  <2>1. \E v \in BOOLEAN : OnLandmarkTrigger(v) \/ OnLandmarkHold(v)
    BY <1>4, SignalFacts DEF LandmarkHeard, HoldHeard, MailOK
  <2> QED BY <2>1 DEF Next, Callback
<1>5. CASE UNCHANGED vars
  BY <1>5
<1> QED
  BY <1>1, <1>2, <1>3, <1>4, <1>5 DEF ChainNext, chainVars, Press, FocusHeard, JoyHeard,
    ButtonPressed, TriggerHeard, StateHeard, OdomHeard, CaptureTimer, Shutter, PictureHeard

-----------------------------------------------------------------------------
(* The joystick *)

HandState == [pressed : SUBSET Modes, due : SUBSET Modes, stick : 0 .. HandCap, away : 0 .. HandCap]

\* A direction held from the arm's time has to be released; one pressed in the drive's
\* is due until the node takes notice.
PressOK ==
  /\ joy \in JoyState /\ hand \in HandState
  /\ joy.focus # "drive" => joy.rearm
  /\ joy.focus = "drive" /\ ~joy.rearm => hand.pressed \ joy.held \subseteq hand.due

\* A motion kept by the joystick node, by the mux and by the wheels is so recent.
StickOK ==
  part = "driving" =>
    /\ joy.latest = "move" => joy.focus = "drive"
    /\ joy.focus = "drive" => hand.away = 0
    /\ joy.latest = "move" /\ joy.age <= JoyTimeout => hand.stick <= joy.age
    /\ cmd.manual = "move" /\ Fresh("manual", age) =>
         hand.stick <= JoyTimeout + age.manual /\ hand.away <= age.manual
    /\ out = "manual" => hand.stick <= JoyTimeout + SourceTimeout /\ hand.away <= SourceTimeout

LEMMA HandFrame ==
  ASSUME [ChainNext]_chainVars
  PROVE  UNCHANGED <<joy, hand>> \/ Tick \/ Press \/ FocusHeard \/ JoyHeard \/ StickPublished
  BY DEF ChainNext, chainVars, nodes, Anything, ButtonPressed, TriggerHeard, StateHeard, OdomHeard,
    CaptureTimer, Shutter, PictureHeard, MissionSays, LandmarkHeard, HoldHeard, StickHeard

LEMMA PressStep == ASSUME PressOK, [ChainNext]_chainVars PROVE PressOK'
<1>0. joy \in JoyState /\ hand \in HandState /\ 0 \in 0 .. HandCap
  BY JoyAssumption, MuxAssumption DEF PressOK, HandCap
<1>1. CASE Tick
  <2>1. joy' \in {joy, JoyAged(joy)}
    BY <1>1 DEF Tick
  <2>2. joy' \in JoyState
    BY <1>0, <2>1, TeleopType
  <2>3. /\ joy'.focus = joy.focus /\ joy'.rearm = joy.rearm /\ joy'.held = joy.held
    BY <1>0, <2>1 DEF JoyAged, JoyState
  <2>4. hand' \in HandState /\ hand'.pressed = hand.pressed /\ hand'.due = hand.due
    <3> DEFINE s == Older(hand.stick, HandCap)
               w == IF joy.focus = "drive" THEN hand.away ELSE Older(hand.away, HandCap)
    <3>1. s \in 0 .. HandCap /\ w \in 0 .. HandCap
      BY <1>0, JoyAssumption, MuxAssumption DEF Older, HandState, HandCap
    <3>2. hand' = hand \/ hand' = [hand EXCEPT !.stick = s, !.away = w]
      BY <1>1 DEF Tick
    <3> HIDE DEF s, w
    <3> QED BY <1>0, <3>1, <3>2 DEF HandState
  <2> QED BY <2>2, <2>3, <2>4 DEF PressOK
<1>2. CASE Press
  <2>1. PICK p \in SUBSET Modes :
          hand' = [hand EXCEPT !.pressed = p, !.due =
            (hand.due \cap p) \cup (IF joy.focus = "drive" THEN p \ hand.pressed ELSE {})]
    BY <1>2 DEF Press
  <2>2. hand' \in HandState
    BY <1>0, <2>1 DEF HandState
  <2>3. joy' = joy
    BY <1>2 DEF Press
  <2> QED BY <1>0, <2>1, <2>2, <2>3 DEF PressOK, HandState
<1>3. CASE FocusHeard
  <2>1. PICK f \in {"drive", "arm"} :
          /\ joy' = OnActiveTarget(joy, f)
          /\ hand' = [hand EXCEPT !.due = IF f = "drive" THEN hand.due ELSE {},
                                  !.away = IF f = "drive" THEN 0 ELSE hand.away]
    BY <1>3 DEF FocusHeard
  <2>2. joy' \in JoyState
    BY <1>0, <2>1, TeleopType
  <2>3. hand' \in HandState
    BY <1>0, <2>1 DEF HandState
  <2> QED BY <1>0, <2>1, <2>2, <2>3 DEF PressOK, OnActiveTarget, JoyState, HandState
<1>4. CASE JoyHeard
  <2>1. PICK s \in {"zero", "move"} :
          /\ joy' = JoyCallback(joy, hand.pressed, s)
          /\ hand' = [hand EXCEPT !.due = IF joy.focus = "drive" THEN {} ELSE hand.due,
                       !.stick = IF joy.focus = "drive" /\ s = "move" THEN 0 ELSE hand.stick]
    BY <1>4 DEF JoyHeard
  <2>2. hand.pressed \in SUBSET Modes
    BY <1>0 DEF HandState
  <2>3. joy' \in JoyState
    BY <1>0, <2>1, <2>2, TeleopType
  <2>4. hand' \in HandState
    BY <1>0, <2>1 DEF HandState
  <2> QED BY <1>0, <2>1, <2>3, <2>4 DEF PressOK, JoyCallback, JoyState, HandState
<1>5. CASE StickPublished
  <2>1. joy' = PublishStick(joy) /\ hand' = hand
    BY <1>5 DEF StickPublished
  <2>2. joy' \in JoyState
    BY <1>0, <2>1, TeleopType
  <2> QED BY <1>0, <2>1, <2>2 DEF PressOK, PublishStick, JoyState
<1>6. CASE UNCHANGED <<joy, hand>>
  BY <1>6 DEF PressOK
<1> QED BY <1>1, <1>2, <1>3, <1>4, <1>5, <1>6, HandFrame

\* What the mux does with the joystick's command
LEMMA LandmarkFrame ==
  ASSUME TypeOK, MailOK, LandmarkHeard \/ HoldHeard
  PROVE  UNCHANGED <<joy, hand, cmd, out>> /\ age'.manual = age.manual
<1>0. age \in Ages /\ "manual" \in Sources
  <2>1. age \in Ages
    BY DEF TypeOK, Ages
  <2> QED BY <2>1 DEF Sources
<1>1. UNCHANGED <<joy, hand, cmd, out>>
  BY DEF LandmarkHeard, HoldHeard, OnLandmarkTrigger, OnLandmarkHold
<1>2. CASE LandmarkHeard
  <2>1. PICK v \in BOOLEAN : OnLandmarkTrigger(v)
    BY <1>2, SignalFacts DEF LandmarkHeard, MailOK
  <2> DEFINE seen == [age EXCEPT !["true"] = IF v THEN 0 ELSE @]
  <2>2. seen \in Ages /\ seen["manual"] = age["manual"]
    BY <1>0 DEF Ages, Timers, Sources
  <2>3. age' \in {seen, HoldPressed(seen)}
    BY <2>1 DEF OnLandmarkTrigger
  <2> HIDE DEF seen
  <2>4. HoldPressed(seen)["manual"] = seen["manual"]
    BY <1>0, <2>2, HoldFrame
  <2> QED BY <1>1, <2>2, <2>3, <2>4
<1>3. CASE HoldHeard
  <2>1. PICK v \in BOOLEAN : age' = HoldLeased(age, v)
    BY <1>3, SignalFacts DEF HoldHeard, MailOK, OnLandmarkHold
  <2> QED BY <1>0, <1>1, <2>1, HoldFrame
<1> QED BY <1>2, <1>3

LEMMA DriveFrame ==
  ASSUME TypeOK, Tick
  PROVE  /\ cmd' = cmd /\ age'.manual = Aged.manual
         /\ out' = "manual" => cmd.manual = "move" /\ Fresh("manual", Aged)
<1>0. Aged \in Ages /\ "manual" \in Sources
  <2>1. age \in Ages
    BY DEF TypeOK, Ages
  <2> QED BY <2>1, AgedType DEF Sources
<1>1. PublishCmd
  BY DEF Tick
<1>2. cmd' = cmd /\ age' \in {Aged, Checked(Aged)}
  BY <1>1 DEF PublishCmd, PublishReturn, PublishZero, PublishManual
<1>3. age'.manual = Aged.manual
  BY <1>0, <1>2, HoldFrame
<1>4. out' = "manual" => out' = Pass("manual", Aged)
  BY <1>1 DEF PublishCmd, PublishReturn, PublishZero, PublishManual, Pass
<1> QED BY <1>2, <1>3, <1>4 DEF Pass

LEMMA ManualFrame ==
  ASSUME TypeOK, MailOK, [ChainNext]_chainVars, part = "driving"
  PROVE  \/ Tick \/ StickPublished
         \/ /\ UNCHANGED <<cmd, out>> /\ age'.manual = age.manual
            /\ Press \/ FocusHeard \/ JoyHeard \/ UNCHANGED <<joy, hand>>
<1>1. CASE LandmarkHeard \/ HoldHeard
  BY <1>1, LandmarkFrame
<1>2. CASE Press \/ FocusHeard \/ JoyHeard
  BY <1>2 DEF Press, FocusHeard, JoyHeard, vars
<1>3. CASE UNCHANGED <<vars, joy, hand>>
  BY <1>3 DEF vars
<1> QED
  BY <1>1, <1>2, <1>3 DEF ChainNext, chainVars, nodes, Anything, ButtonPressed, TriggerHeard,
    StateHeard, OdomHeard, CaptureTimer, Shutter, PictureHeard, MissionSays, StickHeard

\* What the timeouts make of the age of the joystick's command
LEMMA AgedManual ==
  ASSUME TypeOK
  PROVE  /\ age.manual \in Nat \cup {None}
         /\ Fresh("manual", Aged) => /\ Fresh("manual", age) /\ Aged.manual = age.manual + 1
                                    /\ Aged.manual <= SourceTimeout
<1>1. age \in [Timers -> Nat \cup {None}] /\ "manual" \in Timers
  BY DEF TypeOK, Timers, Sources
<1>2. Cap["manual"] = SourceTimeout + 1
  BY <1>1 DEF Cap, Sources
<1>3. Aged["manual"] = IF age["manual"] # None /\ age["manual"] < SourceTimeout + 1
                       THEN age["manual"] + 1 ELSE age["manual"]
  BY <1>1, <1>2 DEF Aged
<1>4. SourceTimeout \in Nat /\ age["manual"] \in Nat \cup {None}
  BY <1>1, MuxAssumption
<1> QED BY <1>3, <1>4 DEF Fresh, None

LEMMA StickStep ==
  ASSUME TypeOK, MailOK, PressOK, StickOK, [ChainNext]_chainVars PROVE StickOK'
<1> SUFFICES ASSUME part' = "driving" PROVE StickOK'
  BY DEF StickOK
<1>0. part = "driving"
  BY DEF ChainNext, chainVars, nodes, Tick, Anything, Press, FocusHeard, JoyHeard, StickPublished,
    ButtonPressed, TriggerHeard, StateHeard, OdomHeard, CaptureTimer, Shutter, PictureHeard,
    MissionSays, LandmarkHeard, HoldHeard, StickHeard
<1>1. JoyTimeout \in Nat /\ SourceTimeout \in Nat /\ HandCap = JoyTimeout + SourceTimeout + 1
  BY JoyAssumption, MuxAssumption DEF HandCap
<1>2. joy \in JoyState /\ hand \in HandState
  BY DEF PressOK
<1>3. hand.stick \in Nat /\ hand.away \in Nat /\ joy.age \in Nat
  BY <1>1, <1>2 DEF JoyState, HandState
<1>4. age.manual \in Nat \cup {None}
  BY AgedManual
<1>5. CASE Tick
  <2>1. /\ joy' = JoyAged(joy)
        /\ hand' = [hand EXCEPT !.stick = Older(hand.stick, HandCap),
                     !.away = IF joy.focus = "drive" THEN hand.away ELSE Older(hand.away, HandCap)]
    BY <1>0, <1>5 DEF Tick
  <2>2. /\ joy'.latest = joy.latest /\ joy'.focus = joy.focus
        /\ joy'.age = IF joy.age > JoyTimeout THEN joy.age ELSE joy.age + 1
    BY <1>2, <2>1 DEF JoyAged, JoyState
  <2>3. /\ hand'.stick \in Nat /\ hand'.stick <= hand.stick + 1
        /\ hand'.away \in Nat /\ hand'.away <= hand.away + 1
        /\ joy.focus = "drive" => hand'.away = hand.away
    BY <1>1, <1>2, <1>3, <2>1 DEF Older, HandState
  <2>4. /\ cmd' = cmd /\ age'.manual = Aged.manual
        /\ out' = "manual" => cmd.manual = "move" /\ Fresh("manual", Aged)
    BY <1>5, DriveFrame
  <2>5. Fresh("manual", age)' <=> Fresh("manual", Aged)
    BY <2>4 DEF Fresh
  <2>6. cmd.manual = "move" /\ Fresh("manual", Aged) =>
          /\ hand'.stick <= JoyTimeout + age'.manual /\ hand'.away <= age'.manual
          /\ age'.manual <= SourceTimeout
    <3> SUFFICES ASSUME cmd.manual = "move", Fresh("manual", Aged)
                 PROVE  /\ hand'.stick <= JoyTimeout + age'.manual /\ hand'.away <= age'.manual
                        /\ age'.manual <= SourceTimeout
      OBVIOUS
    <3>1. Fresh("manual", age) /\ age'.manual = age.manual + 1 /\ age'.manual <= SourceTimeout
      BY <2>4, AgedManual
    <3>2. age.manual \in Nat
      BY <1>4, <3>1 DEF Fresh
    <3>3. hand.stick <= JoyTimeout + age.manual /\ hand.away <= age.manual
      BY <1>0, <3>1 DEF StickOK
    <3> QED BY <1>1, <1>3, <2>3, <3>1, <3>2, <3>3
  <2>7. out' = "manual" => /\ hand'.stick <= JoyTimeout + SourceTimeout
                           /\ hand'.away <= SourceTimeout
    <3>1. Aged.manual \in Nat \cup {None}
      BY AgedManual, <1>4 DEF Fresh, Aged, Timers, Sources, None
    <3> QED BY <1>1, <2>3, <2>4, <2>6, <3>1 DEF Fresh, None
  <2>8. /\ joy'.latest = "move" => joy'.focus = "drive"
        /\ joy'.focus = "drive" => hand'.away = 0
        /\ joy'.latest = "move" /\ joy'.age <= JoyTimeout => hand'.stick <= joy'.age
    BY <1>0, <1>1, <1>3, <2>2, <2>3 DEF StickOK
  <2> QED BY <2>4, <2>5, <2>6, <2>7, <2>8 DEF StickOK
<1>6. CASE StickPublished
  <2>1. joy' = PublishStick(joy) /\ OnManual(PublishStick(joy).latest) /\ hand' = hand
    BY <1>6 DEF StickPublished
  <2>2. cmd'.manual = joy'.latest /\ age'.manual = 0 /\ out' = out
    <3>1. "manual" \in DOMAIN cmd /\ "manual" \in DOMAIN age
      BY DEF TypeOK, Timers, Sources
    <3> QED BY <2>1, <3>1 DEF OnManual
  <2>3. /\ joy'.focus = joy.focus /\ joy'.age = joy.age
        /\ joy'.latest = "move" => joy.latest = "move" /\ joy.age <= JoyTimeout
    BY <1>1, <1>2, <1>3, <2>1 DEF PublishStick, JoyState
  <2>4. joy'.latest = "move" => hand.stick <= JoyTimeout /\ hand.away = 0
    BY <1>0, <1>1, <1>3, <2>3 DEF StickOK
  <2> QED BY <1>0, <1>1, <1>3, <2>1, <2>2, <2>3, <2>4 DEF StickOK
<1>7. CASE UNCHANGED <<cmd, out>> /\ age'.manual = age.manual /\ UNCHANGED <<joy, hand>>
  BY <1>0, <1>7 DEF StickOK, Fresh
<1>8. ASSUME UNCHANGED <<cmd, out>>, age'.manual = age.manual,
             hand'.stick <= hand.stick, hand'.away <= hand.away,
             hand'.stick \in Nat, hand'.away \in Nat,
             joy'.latest = "move" => joy'.focus = "drive",
             joy'.focus = "drive" => hand'.away = 0,
             joy'.latest = "move" /\ joy'.age <= JoyTimeout => hand'.stick <= joy'.age
      PROVE  StickOK'
  BY <1>0, <1>1, <1>3, <1>4, <1>8 DEF StickOK, Fresh, None
<1>9. CASE UNCHANGED <<cmd, out>> /\ age'.manual = age.manual /\ Press
  <2>1. hand'.stick = hand.stick /\ hand'.away = hand.away /\ joy' = joy
    BY <1>2, <1>9 DEF Press, HandState
  <2> QED BY <1>0, <1>3, <1>8, <1>9, <2>1 DEF StickOK
<1>10. CASE UNCHANGED <<cmd, out>> /\ age'.manual = age.manual /\ FocusHeard
  <2>1. PICK f \in {"drive", "arm"} :
          /\ joy' = OnActiveTarget(joy, f)
          /\ hand' = [hand EXCEPT !.due = IF f = "drive" THEN hand.due ELSE {},
                                  !.away = IF f = "drive" THEN 0 ELSE hand.away]
    BY <1>10 DEF FocusHeard
  <2>2. /\ hand'.stick = hand.stick
        /\ hand'.away = IF f = "drive" THEN 0 ELSE hand.away
    BY <1>2, <2>1 DEF HandState
  <2>3. /\ joy'.focus = f /\ joy'.age = joy.age
        /\ joy'.latest = IF f = "drive" THEN joy.latest ELSE "zero"
    BY <1>2, <2>1 DEF OnActiveTarget, JoyState
  <2>4. joy'.latest = "move" => joy'.focus = "drive"
    BY <2>3
  <2> QED BY <1>0, <1>3, <1>8, <1>10, <2>2, <2>3, <2>4 DEF StickOK
<1>11. CASE UNCHANGED <<cmd, out>> /\ age'.manual = age.manual /\ JoyHeard
  <2>1. PICK s \in {"zero", "move"} :
          /\ joy' = JoyCallback(joy, hand.pressed, s)
          /\ hand' = [hand EXCEPT !.due = IF joy.focus = "drive" THEN {} ELSE hand.due,
                       !.stick = IF joy.focus = "drive" /\ s = "move" THEN 0 ELSE hand.stick]
    BY <1>11 DEF JoyHeard
  <2>2. /\ hand'.stick = IF joy.focus = "drive" /\ s = "move" THEN 0 ELSE hand.stick
        /\ hand'.away = hand.away
    BY <1>2, <2>1 DEF HandState
  <2>3. /\ joy'.focus = joy.focus /\ joy'.age = 0
        /\ joy'.latest = IF joy.focus = "drive" THEN s ELSE "zero"
    BY <1>2, <2>1 DEF JoyCallback, JoyState
  <2> QED BY <1>0, <1>3, <1>8, <1>11, <2>2, <2>3 DEF StickOK
<1> QED
  BY <1>0, <1>5, <1>6, <1>7, <1>9, <1>10, <1>11, ManualFrame

-----------------------------------------------------------------------------
(* The camera *)

CaptureAges == [CaptureTimers -> Nat \cup {Never}]
CaptureState == [state : MissionStates \cup {""}, phase : {"IDLE", "WAIT_STILL", "SETTLE", "WAIT_FRAME"},
                 on : BOOLEAN, age : CaptureAges]

\* Odometry of a motion sends the capture back to waiting for rest, and a picture of
\* it is older than any frame waited for since.
PictureOK ==
  /\ cap \in CaptureState
  /\ robot \in [moving : BOOLEAN, told : BOOLEAN, ticked : BOOLEAN]
  /\ shot \in [kind : {"none", "moving", "sharp"}, age : Nat]
  /\ StopMode /\ robot.moving /\ robot.told =>
       cap.phase \in {"IDLE", "WAIT_STILL"} /\ cap.age.still = Never
  /\ cap.phase = "IDLE" => cap.age.still = Never
  /\ shot.kind = "moving" /\ shot.age = 0 => robot.moving
  /\ StopMode /\ shot.kind = "moving" /\ shot.age > 0 /\ cap.phase = "WAIT_FRAME"
       => cap.age.frame < shot.age

\* What the proof has to know of a handler of the capture node
Kept(c, d) == d.phase = c.phase /\ d.age.still = c.age.still /\ d.age.frame = c.age.frame
AtIdle(d) == d.phase = "IDLE" /\ d.age.still = Never

LEMMA FrameType == ASSUME NEW c \in CaptureState PROVE c.age.frame \in Int
<1>1. c.age \in [CaptureTimers -> Nat \cup {Never}]
  BY DEF CaptureState, CaptureAges
<1>2. c.age["frame"] \in Nat \cup {Never}
  BY <1>1 DEF CaptureTimers
<1> QED BY <1>2 DEF Never

LEMMA CaptureBasics ==
  ASSUME NEW c \in CaptureState
  PROVE  /\ Idle(c) \in CaptureState /\ AtIdle(Idle(c))
         /\ \A h : Say(c, h).c = c
         /\ CaptureFail(c, TRUE).c = Idle(c) /\ CaptureFail(c, FALSE).c = c
<1>1. \A h : Say(c, h).c = c /\ Say(Idle(c), h).c = Idle(c)
  BY DEF Say
<1>2. CaptureFail(c, TRUE).c = Idle(c) /\ CaptureFail(c, FALSE).c = c
  BY <1>1 DEF CaptureFail
<1>3. Idle(c) \in CaptureState /\ AtIdle(Idle(c))
  <2> DEFINE a == [t \in CaptureTimers |-> IF t \in {"odom", "press"} THEN c.age[t] ELSE Never]
  <2>1. Idle(c) = [c EXCEPT !.phase = "IDLE", !.age = a]
    BY DEF Idle
  <2>2. a \in CaptureAges /\ a.still = Never
    BY DEF CaptureState, CaptureAges, CaptureTimers
  <2> HIDE DEF a
  <2> QED BY <2>1, <2>2 DEF CaptureState, AtIdle
<1> QED BY <1>1, <1>2, <1>3

LEMMA TriggerMoves ==
  ASSUME NEW c \in CaptureState, NEW v \in BOOLEAN, NEW r \in BOOLEAN
  PROVE  LET d == OnTrigger(c, v, r).c
         IN  /\ d \in CaptureState
             /\ \/ Kept(c, d)
                \/ ~Busy(c) /\ d.phase # "IDLE"
                   /\ (StopMode => d.phase = "WAIT_STILL" /\ d.age.still = Never)
<1> DEFINE d == [c EXCEPT !.on = v, !.age.press = IF v THEN 0 ELSE c.age.press]
<1>1. d \in CaptureState /\ Kept(c, d)
  BY DEF CaptureState, CaptureAges, CaptureTimers, Kept
<1>2. OnTrigger(c, v, r).c \in {d, Start(d)} /\ (Busy(c) => OnTrigger(c, v, r).c = d)
  <2>1. \A h : Say(d, h).c = d /\ Say(Start(d), h).c = Start(d)
    BY DEF Say
  <2>2. CaptureFail(d, FALSE).c = d
    BY <1>1, CaptureBasics
  <2>3. Busy(d) <=> Busy(c)
    BY <1>1 DEF Busy, Kept
  <2> HIDE DEF d
  <2>4. OnTrigger(c, v, r) \in {Say(d, <<>>), CaptureFail(d, FALSE), Say(Start(d), Holding)}
        /\ (Busy(c) => OnTrigger(c, v, r) = Say(d, <<>>))
    BY <2>3 DEF OnTrigger, d
  <2> QED BY <2>1, <2>2, <2>4
<1> HIDE DEF d
<1>3. /\ Start(d) \in CaptureState /\ Start(d).phase # "IDLE"
      /\ StopMode => Start(d).phase = "WAIT_STILL" /\ Start(d).age.still = Never
  <2>1. Idle(d) \in CaptureState /\ AtIdle(Idle(d))
    BY <1>1, CaptureBasics
  <2>2. PICK e \in CaptureState : e = Idle(d) /\ AtIdle(e)
    BY <2>1
  <2>3. /\ [e EXCEPT !.phase = "WAIT_STILL", !.age.start = 0] \in CaptureState
        /\ [e EXCEPT !.phase = "WAIT_STILL", !.age.start = 0].age.still = Never
        /\ [e EXCEPT !.phase = "WAIT_STILL", !.age.start = 0].phase = "WAIT_STILL"
    BY <2>2 DEF CaptureState, CaptureAges, CaptureTimers, AtIdle
  <2>4. /\ [e EXCEPT !.phase = "WAIT_FRAME", !.age.start = 0, !.age.frame = 0] \in CaptureState
        /\ [e EXCEPT !.phase = "WAIT_FRAME", !.age.start = 0, !.age.frame = 0].phase = "WAIT_FRAME"
    BY <2>2 DEF CaptureState, CaptureAges, CaptureTimers
  <2> QED BY <2>2, <2>3, <2>4 DEF Start
<1> QED BY <1>1, <1>2, <1>3

LEMMA StateMoves ==
  ASSUME NEW c \in CaptureState, NEW s \in MissionStates
  PROVE  LET d == OnCaptureState(c, s).c
         IN  d \in CaptureState /\ (Kept(c, d) \/ AtIdle(d))
<1> DEFINE d == [c EXCEPT !.state = s]
<1>1. d \in CaptureState /\ Kept(c, d)
  BY DEF CaptureState, Kept
<1>2. OnCaptureState(c, s) \in {CaptureFail(d, TRUE), Say(d, <<>>)}
  BY DEF OnCaptureState
<1> HIDE DEF d
<1> QED BY <1>1, <1>2, CaptureBasics

LEMMA OdomMoves ==
  ASSUME NEW c \in CaptureState, NEW b \in BOOLEAN
  PROVE  LET d == OnOdom(c, b)
         IN  /\ d \in CaptureState
             /\ d.phase = c.phase \/ d.phase = "WAIT_STILL"
             /\ d.phase = c.phase => d.age.frame = c.age.frame \/ d.phase = "WAIT_STILL"
             /\ ~Busy(c) => Kept(c, d)
             /\ StopMode /\ Busy(c) /\ ~b => d.phase = "WAIT_STILL" /\ d.age.still = Never
             /\ Busy(c) => d.phase # "IDLE"
<1> DEFINE d == [c EXCEPT !.age.odom = 0]
<1>1. d \in CaptureState /\ Kept(c, d)
  BY DEF CaptureState, CaptureAges, CaptureTimers, Kept
<1>2. OnOdom(c, b) = IF ~StopMode \/ ~Busy(c) THEN d
                     ELSE IF b
                     THEN [d EXCEPT !.age.still = IF d.age.still = Never THEN 0 ELSE d.age.still]
                     ELSE [d EXCEPT !.phase = "WAIT_STILL", !.age.still = Never,
                                    !.age.settle = Never, !.age.frame = Never]
  BY DEF OnOdom
<1> HIDE DEF d
<1>3. CASE ~StopMode \/ ~Busy(c)
  BY <1>1, <1>2, <1>3 DEF Kept, Busy
<1>4. CASE StopMode /\ Busy(c) /\ b
  <2> DEFINE w == IF d.age.still = Never THEN 0 ELSE d.age.still
             e == [d EXCEPT !.age.still = w]
  <2>1. w \in Nat \cup {Never}
    BY <1>1 DEF CaptureState, CaptureAges, CaptureTimers
  <2> HIDE DEF w
  <2>2. e \in CaptureState /\ e.phase = d.phase /\ e.age.frame = d.age.frame
    BY <1>1, <2>1 DEF CaptureState, CaptureAges, CaptureTimers
  <2>3. OnOdom(c, b) = e
    BY <1>2, <1>4 DEF w
  <2> HIDE DEF e
  <2> QED BY <1>1, <1>4, <2>2, <2>3 DEF Kept, Busy
<1>5. CASE StopMode /\ Busy(c) /\ ~b
  <2> DEFINE e == [d EXCEPT !.phase = "WAIT_STILL", !.age.still = Never,
                            !.age.settle = Never, !.age.frame = Never]
  <2>1. e \in CaptureState /\ e.phase = "WAIT_STILL" /\ e.age.still = Never
    BY <1>1 DEF CaptureState, CaptureAges, CaptureTimers
  <2>2. OnOdom(c, b) = e
    BY <1>2, <1>5
  <2> HIDE DEF e
  <2> QED BY <1>5, <2>1, <2>2 DEF Busy
<1> QED BY <1>3, <1>4, <1>5

LEMMA TickMoves ==
  ASSUME NEW c \in CaptureState
  PROVE  LET d == CaptureTick(c).c
         IN  /\ d \in CaptureState
             /\ d.phase = "IDLE" => Kept(c, d) \/ AtIdle(d)
             /\ d.phase = "WAIT_FRAME" => Kept(c, d) \/ d.age.frame = 0
             /\ c.phase \in {"IDLE", "WAIT_STILL"} /\ c.age.still = Never
                  => Kept(c, d) \/ AtIdle(d)
<1> DEFINE Moved(b, d) == /\ d \in CaptureState
                          /\ d.phase = "IDLE" => Kept(b, d)
                          /\ d.phase = "WAIT_FRAME" => Kept(b, d) \/ d.age.frame = 0
                          /\ b.phase \in {"IDLE", "WAIT_STILL"} /\ b.age.still = Never => Kept(b, d)
<1>1. Moved(c, Settling(c)) /\ (Settling(c) = c \/ Settling(c).phase = "SETTLE")
  <2> DEFINE e == [c EXCEPT !.phase = "SETTLE", !.age.settle = 0]
  <2>1. e \in CaptureState /\ e.phase = "SETTLE"
    BY DEF CaptureState, CaptureAges, CaptureTimers
  <2>2. \/ Settling(c) = c
        \/ Settling(c) = e /\ c.phase = "WAIT_STILL" /\ c.age.still # Never
    BY DEF Settling
  <2> HIDE DEF e
  <2> QED BY <2>1, <2>2 DEF Kept
<1>2. PICK b \in CaptureState : b = Settling(c)
  BY <1>1
<1>3. /\ Settled(b) \in CaptureState
      /\ \/ Settled(b) = b
         \/ Settled(b).phase = "WAIT_FRAME" /\ Settled(b).age.frame = 0 /\ b.phase = "SETTLE"
  <2> DEFINE e == [b EXCEPT !.phase = "WAIT_FRAME", !.age.frame = 0, !.age.settle = Never]
  <2>1. e \in CaptureState /\ e.phase = "WAIT_FRAME" /\ e.age.frame = 0
    BY DEF CaptureState, CaptureAges, CaptureTimers
  <2>2. \/ Settled(b) = b
        \/ Settled(b) = e /\ b.phase = "SETTLE"
    BY DEF Settled
  <2> HIDE DEF e
  <2> QED BY <2>1, <2>2
<1>4. Moved(c, Settled(b))
  BY <1>1, <1>2, <1>3 DEF Kept
<1>5. CaptureTick(c).c \in {c, Idle(c), Settled(b)}
  BY <1>2 DEF CaptureTick, Say
<1> HIDE DEF Moved
<1>6. CASE CaptureTick(c).c = c
  <2>1. Kept(c, c)
    BY DEF Kept
  <2> QED BY <1>6, <2>1
<1>7. CASE CaptureTick(c).c = Idle(c)
  <2>1. Idle(c) \in CaptureState /\ AtIdle(Idle(c))
    BY CaptureBasics
  <2>2. Idle(c).phase = "IDLE"
    BY <2>1 DEF AtIdle
  <2> QED BY <1>7, <2>1, <2>2
<1>8. CASE CaptureTick(c).c = Settled(b)
  BY <1>4, <1>8 DEF Moved
<1> QED BY <1>5, <1>6, <1>7, <1>8

LEMMA ImageMoves ==
  ASSUME NEW c \in CaptureState, NEW x \in OnImage(c)
  PROVE  x.c = Idle(c)
<1>1. x = CaptureFail(c, TRUE) \/ \E h : x = Say(Idle(c), h)
  BY DEF OnImage
<1>2. \A h : Say(Idle(c), h).c = Idle(c)
  BY DEF Say
<1> QED BY <1>1, <1>2, CaptureBasics

LEMMA AgedMoves ==
  ASSUME NEW c \in CaptureState
  PROVE  LET d == CaptureAged(c)
         IN  /\ d \in CaptureState /\ d.phase = c.phase
             /\ c.age.still = Never => d.age.still = Never
             /\ d.age.frame <= c.age.frame + 1
<1> DEFINE a == [t \in CaptureTimers |->
                  IF c.age[t] # Never /\ c.age[t] < CaptureCap[t] THEN c.age[t] + 1 ELSE c.age[t]]
<1>0. c.age \in CaptureAges
  BY DEF CaptureState
<1>1. \A t \in CaptureTimers : c.age[t] \in Nat \cup {Never}
  BY <1>0 DEF CaptureAges
<1>2. \A t \in CaptureTimers : a[t] \in Nat \cup {Never}
  BY <1>1 DEF Never
<1>3. a \in CaptureAges
  BY <1>2 DEF CaptureAges
<1>4. \A t \in CaptureTimers : a[t] <= c.age[t] + 1 /\ (c.age[t] = Never => a[t] = Never)
  BY <1>1 DEF Never
<1>5. CaptureAged(c) = [c EXCEPT !.age = a]
  BY DEF CaptureAged
<1> HIDE DEF a
<1>6. a["still"] = a.still /\ {"still", "frame"} \subseteq CaptureTimers
  BY DEF CaptureTimers
<1> QED BY <1>3, <1>4, <1>5, <1>6 DEF CaptureState

LEMMA CaptureFrame ==
  ASSUME [ChainNext]_chainVars
  PROVE  UNCHANGED <<cap, robot, shot>> \/ Tick \/ TriggerHeard \/ StateHeard \/ OdomHeard
         \/ CaptureTimer \/ Shutter \/ PictureHeard
  BY DEF ChainNext, chainVars, nodes, Anything, Press, FocusHeard, JoyHeard, StickPublished,
    ButtonPressed, MissionSays, LandmarkHeard, HoldHeard, StickHeard

LEMMA PictureStep == ASSUME MailOK, PictureOK, [ChainNext]_chainVars PROVE PictureOK'
<1>0. /\ cap \in CaptureState /\ robot \in [moving : BOOLEAN, told : BOOLEAN, ticked : BOOLEAN]
      /\ shot \in [kind : {"none", "moving", "sharp"}, age : Nat]
  BY DEF PictureOK
<1>1. CASE UNCHANGED <<cap, robot, shot>>
  BY <1>1 DEF PictureOK
<1>2. CASE Tick
  <2>1. CASE part # "capturing"
    BY <1>1, <1>2, <2>1 DEF Tick
  <2>2. CASE part = "capturing"
    <3>1. /\ robot.told /\ Move /\ cap' = CaptureAged(cap)
          /\ shot' = IF shot.kind = "none" THEN shot
                     ELSE IF shot.age = ImageStale THEN NoShot ELSE [shot EXCEPT !.age = shot.age + 1]
      BY <1>2, <2>2 DEF Tick
    <3>2. \E m \in BOOLEAN : robot' = [moving |-> m, told |-> FALSE, ticked |-> FALSE]
      BY <1>0, <3>1 DEF Move
    <3>3. /\ shot' \in [kind : {"none", "moving", "sharp"}, age : Nat]
          /\ shot'.kind = "moving" => shot.kind = "moving" /\ shot'.age = shot.age + 1
      BY <1>0, <3>1 DEF NoShot
    <3>4. /\ cap' \in CaptureState /\ cap'.phase = cap.phase
          /\ cap.age.still = Never => cap'.age.still = Never
          /\ cap'.age.frame <= cap.age.frame + 1
      BY <1>0, <3>1, AgedMoves
    <3>5. cap.age.frame \in Int /\ cap'.age.frame \in Int /\ shot.age \in Nat
      BY <1>0, <3>4, FrameType
    <3>6. ASSUME StopMode, shot'.kind = "moving", cap'.phase = "WAIT_FRAME"
          PROVE  cap'.age.frame < shot'.age
      <4>1. shot.age # 0
        BY <3>1, <3>3, <3>4, <3>6 DEF PictureOK
      <4>2. cap.age.frame < shot.age
        BY <3>3, <3>4, <3>5, <3>6, <4>1 DEF PictureOK
      <4> QED BY <3>3, <3>4, <3>5, <3>6, <4>2
    <3>7. ~robot'.told /\ (shot'.kind = "moving" => shot'.age > 0)
      BY <3>2, <3>3, <3>5
    <3>8. robot' \in [moving : BOOLEAN, told : BOOLEAN, ticked : BOOLEAN]
      BY <3>2
    <3> QED BY <3>3, <3>4, <3>6, <3>7, <3>8 DEF PictureOK
  <2> QED BY <2>1, <2>2
<1>3. CASE TriggerHeard
  <2>1. post.cap # <<>> /\ Head(post.cap) \in BOOLEAN
    BY <1>3, SignalFacts DEF TriggerHeard, MailOK
  <2>2. PICK v, r \in BOOLEAN : cap' = OnTrigger(cap, v, r).c
    BY <1>3, <2>1 DEF TriggerHeard
  <2>3. /\ cap' \in CaptureState
        /\ \/ Kept(cap, cap')
           \/ ~Busy(cap) /\ cap'.phase # "IDLE"
              /\ (StopMode => cap'.phase = "WAIT_STILL" /\ cap'.age.still = Never)
    BY <1>0, <2>2, TriggerMoves
  <2>4. UNCHANGED <<robot, shot>>
    BY <1>3 DEF TriggerHeard
  <2> QED BY <1>0, <2>3, <2>4 DEF PictureOK, Kept
<1>4. CASE StateHeard
  <2>1. post.state # <<>> /\ Head(post.state) \in MissionStates
    BY <1>4, HeadTailProperties DEF StateHeard, MailOK
  <2>2. cap' \in CaptureState /\ (Kept(cap, cap') \/ AtIdle(cap'))
    BY <1>0, <1>4, <2>1, StateMoves DEF StateHeard
  <2>3. UNCHANGED <<robot, shot>>
    BY <1>4 DEF StateHeard
  <2> QED BY <1>0, <2>2, <2>3 DEF PictureOK, Kept, AtIdle
<1>5. CASE OdomHeard
  <2>1. /\ cap' = OnOdom(cap, ~robot.moving) /\ robot' = [robot EXCEPT !.told = TRUE]
        /\ shot' = shot
    BY <1>5 DEF OdomHeard
  <2>2. /\ cap' \in CaptureState
        /\ cap'.phase = cap.phase \/ cap'.phase = "WAIT_STILL"
        /\ cap'.phase = cap.phase => cap'.age.frame = cap.age.frame \/ cap'.phase = "WAIT_STILL"
        /\ ~Busy(cap) => Kept(cap, cap')
        /\ StopMode /\ Busy(cap) /\ robot.moving => cap'.phase = "WAIT_STILL" /\ cap'.age.still = Never
        /\ Busy(cap) => cap'.phase # "IDLE"
    <3>1. CASE robot.moving
      BY <1>0, <2>1, <3>1, OdomMoves
    <3>2. CASE ~robot.moving
      BY <1>0, <2>1, <3>2, OdomMoves
    <3> QED BY <3>1, <3>2
  <2>3. /\ robot' \in [moving : BOOLEAN, told : BOOLEAN, ticked : BOOLEAN]
        /\ robot'.moving = robot.moving
    BY <1>0, <2>1
  <2>4. CASE Busy(cap)
    BY <1>0, <2>1, <2>2, <2>3, <2>4 DEF PictureOK
  <2>5. CASE ~Busy(cap)
    BY <1>0, <2>1, <2>2, <2>3, <2>5 DEF PictureOK, Kept, Busy
  <2> QED BY <2>4, <2>5
<1>6. CASE CaptureTimer
  <2>1. /\ cap' = CaptureTick(cap).c /\ robot' = [robot EXCEPT !.ticked = TRUE]
        /\ shot' = shot
    BY <1>6 DEF CaptureTimer, Leaves
  <2>2. /\ cap' \in CaptureState
        /\ cap'.phase = "IDLE" => Kept(cap, cap') \/ AtIdle(cap')
        /\ cap'.phase = "WAIT_FRAME" => Kept(cap, cap') \/ cap'.age.frame = 0
        /\ cap.phase \in {"IDLE", "WAIT_STILL"} /\ cap.age.still = Never
             => Kept(cap, cap') \/ AtIdle(cap')
    BY <1>0, <2>1, TickMoves
  <2>3. /\ robot' \in [moving : BOOLEAN, told : BOOLEAN, ticked : BOOLEAN]
        /\ robot'.moving = robot.moving /\ robot'.told = robot.told
    BY <1>0, <2>1
  <2> QED BY <1>0, <2>1, <2>2, <2>3 DEF PictureOK, Kept, AtIdle
<1>7. CASE Shutter
  <2>1. shot' = [kind |-> IF robot.moving THEN "moving" ELSE "sharp", age |-> 0]
    BY <1>7 DEF Shutter
  <2> QED BY <1>0, <1>7, <2>1 DEF Shutter, PictureOK
<1>8. CASE PictureHeard
  <2>1. shot' = NoShot /\ robot' = robot
    BY <1>8 DEF PictureHeard
  <2>2. cap' = cap \/ cap' = Idle(cap)
    BY <1>0, <1>8, ImageMoves DEF PictureHeard, Leaves
  <2>3. cap' \in CaptureState /\ (cap' = cap \/ AtIdle(cap'))
    BY <1>0, <2>2, CaptureBasics
  <2> QED BY <1>0, <2>1, <2>3 DEF PictureOK, NoShot, AtIdle
<1> QED BY <1>1, <1>2, <1>3, <1>4, <1>5, <1>6, <1>7, <1>8, CaptureFrame

-----------------------------------------------------------------------------
(* What the chain promises *)

ChainOK == TypeOK /\ MailOK /\ PressOK /\ StickOK /\ PictureOK

LEMMA ChainStart == ASSUME ChainInit PROVE ChainOK
<1>1. TypeOK
  BY InitType DEF ChainInit
<1>2. MailOK
  <2>1. <<>> \in Seq(MissionStates)
    BY EmptySeq
  <2> QED BY <2>1, SignalFacts DEF ChainInit, MailOK
<1>3. 0 \in 0 .. HandCap /\ HandCap \in 0 .. HandCap /\ 0 \in 0 .. JoyTimeout + 1
  BY JoyAssumption, MuxAssumption DEF HandCap
<1>4. joy \in JoyState /\ hand \in HandState
  BY <1>3 DEF ChainInit, NewTeleop, JoyState, HandState
<1>5. PressOK
  BY <1>4 DEF PressOK, ChainInit, NewTeleop
<1>6. StickOK
  <2>1. cmd.manual = "zero" /\ out = "zero"
    BY DEF ChainInit, Init, Sources
  <2> QED BY <2>1 DEF StickOK, ChainInit, NewTeleop
<1>7. PictureOK
  <2>1. NewCapture \in CaptureState /\ AtIdle(NewCapture)
    BY DEF NewCapture, CaptureState, CaptureAges, CaptureTimers, AtIdle
  <2> QED BY <2>1 DEF PictureOK, ChainInit, NoShot, AtIdle
<1> QED BY <1>1, <1>2, <1>5, <1>6, <1>7 DEF ChainOK

LEMMA ChainStep == ASSUME ChainOK, [ChainNext]_chainVars PROVE ChainOK'
<1>1. joy \in JoyState
  BY DEF ChainOK, PressOK
<1>2. TypeOK'
  BY <1>1, MuxStep, TypeStep DEF ChainOK
<1> QED BY <1>2, MailStep, PressStep, StickStep, PictureStep DEF ChainOK

THEOREM ChainInvariant == ChainSpec => []ChainOK
  BY ChainStart, ChainStep, PTL DEF ChainSpec

LEMMA ChainMuxStep == ASSUME ChainOK, [ChainNext]_chainVars PROVE TypeOK /\ [Next]_vars
  BY MuxStep DEF ChainOK, PressOK

\* Fed by its nodes, the mux is still the arbiter.
THEOREM ChainArbitrates == ChainSpec => ImplementsArbiter
<1>1. ChainInit => Arbiter!Init
  BY ArbiterInit DEF ChainInit
<1>2. ChainOK /\ [ChainNext]_chainVars => [Arbiter!Next]_(Arbiter!vars)
  BY ChainMuxStep, ArbiterStep
<1>3. ChainSpec => Arbiter!Spec
  BY <1>1, <1>2, ChainInvariant, PTL DEF ChainSpec, Arbiter!Spec
<1> QED BY <1>3 DEF ImplementsArbiter

\* No order in which the landmark button and the capture's holds arrive moves the end
\* of a hold that runs.
THEOREM ChainKeepsHold == ChainSpec => HoldNotExtended
<1>1. ChainOK /\ [ChainNext]_chainVars => [HoldKept]_vars
  BY ChainMuxStep, HoldStep
<1>2. ChainSpec => [][HoldKept]_vars
  BY ChainInvariant, <1>1, PTL DEF ChainSpec
<1> QED BY <1>2 DEF HoldNotExtended, HoldKept

\* A mode is asked for by a direction pressed while the joystick is the drive's.
THEOREM ModeByPress == ChainSpec => []ModePressedInDrive
<1>1. PressOK => ModePressedInDrive
  BY DEF PressOK, ModePressedInDrive, ModeRequest, JoyState
<1> QED BY <1>1, ChainInvariant, PTL DEF ChainOK

\* The wheels follow the hand on the stick within the two timeouts, and leave it soon
\* after the focus does.
THEOREM HandIsFollowed == ChainSpec => []WheelsFollowTheHand
<1>1. StickOK => WheelsFollowTheHand
  BY DEF StickOK, WheelsFollowTheHand
<1> QED BY <1>1, ChainInvariant, PTL DEF ChainOK

\* In 'stop' mode no picture of a moving robot is stored.
THEOREM NoBlurredPicture == ChainSpec => []PictureAtRest
<1>1. PictureOK => PictureAtRest
  <2> SUFFICES ASSUME PictureOK, StopMode, shot.kind = "moving", shot.age > 0,
                      cap.phase = "WAIT_FRAME", shot.age <= cap.age.frame
               PROVE  FALSE
    BY DEF PictureAtRest, Takes
  <2>1. cap.age.frame \in Int /\ shot.age \in Nat
    BY FrameType DEF PictureOK
  <2> QED BY <2>1 DEF PictureOK
<1> QED BY <1>1, ChainInvariant, PTL DEF ChainOK
=============================================================================
