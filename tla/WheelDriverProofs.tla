--------------------------- MODULE WheelDriverProofs ---------------------------
(***************************************************************************)
(* The wheels of WheelDriver obey no old command and lose no watchdog, for *)
(* every value of its timeouts.                                            *)
(*                                                                         *)
(* Inductive says why.  An acknowledgement on the way, or taken, is of the *)
(* present connection, so a motor taken for guarded has its watchdog; the  *)
(* watchdogs are cleared only after the stop frames, which the wheels in   *)
(* `missed` alone did not get.  And a command gets older than its timeout  *)
(* only while the executor waits for acknowledgements, which it does once  *)
(* in a cooldown.                                                          *)
(***************************************************************************)
EXTENDS WheelDriver, TLAPS

Waits == {"send", "wait"}
Closes == {"stop", "clear", "stop again", "closed"}

\* The first opening of the bus, with nobody subscribed yet
Starting == at \in {"open", "ready"} \/ (at \in Waits /\ back = "ready")

\* The timers, each in its range; age.poll counts a wait only.
TimersOK ==
  /\ age.cmd \in 0 .. CmdTimeout + 1
  /\ age.retry \in 0 .. Cooldown \cup {None}
  /\ age.poll \in 0 .. PollTimeout
  /\ at # "wait" => age.poll = 0

\* The executor is in a loop with the watchdogs asked for, or closes.
PlaceOK ==
  /\ asking = 0 => \/ at \in {"stop again", "closed"}
                   \/ at \in Waits /\ back = "stop again"
  /\ back = "stop again" => at \in Waits /\ asking = 0
  /\ closing <=> at \in Closes \/ (at \in Waits /\ back = "stop again")
  /\ at \notin Waits => back = "idle"
  /\ at \in {"open", "ready", "idle"} \/ (at \in Waits /\ back \in {"ready", "idle"})
       => order = Zero

\* An acknowledgement is under way, or was taken, only from a motor that has been
\* sent the setting on the present connection, and has it unless power dipped.
AcksOK ==
  /\ bus = "live" => link
  /\ at = "open" \/ (at = "send" /\ asking = Watchdog) => acks = Silence
  /\ bus = "live" /\ asking = Watchdog /\ ~dipped =>
       \A m \in Motors :
         acks[m] # <<>> \/ (at # "send" /\ confirmed[m] # None)
           => power /\ motor[m].limit = Watchdog

\* A motor that moves under a watchdog is powered, and stands before the watchdogs
\* are cleared, if its stop frames got through.
GuardOK ==
  /\ \A m \in Motors : motor[m].guarded =>
       motor[m].speed = "move" /\ power /\ (m \notin missed => motor[m].limit = Watchdog)
  /\ bus = "live" /\ (at = "clear" \/ asking = 0) =>
       \A m \in Motors \ missed : ~motor[m].guarded

\* How old a command is, that waits in the queue, is kept, is obeyed in a loop and by
\* a motor: older than its timeout only through one wait for acknowledgements,
\* after which the bus is not reopened for a while.
RecentRetry(bound) == age.retry # None /\ age.retry <= bound

NobodyServed == /\ inbox["safety"].speed # "move" /\ held["safety"].speed # "move"
                /\ Starting => \A t \in Topics : inbox[t] = Nothing /\ held[t] = Zero

WaitOK == ~closing /\ ~Starting => /\ at = "wait" => age.retry = age.poll
                                   /\ at = "send" => age.retry = 0

QueueOK ==
  ~closing /\ inbox["cmd"].speed = "move" =>
    /\ at = "send" => inbox["cmd"].born = 0
    /\ at = "wait" => inbox["cmd"].born <= age.poll
    /\ at \notin Waits => \/ inbox["cmd"].born = 0
                          \/ inbox["cmd"].born <= PollTimeout /\ RecentRetry(PollTimeout)

HeldOK ==
  ~closing /\ held["cmd"].speed = "move" /\ age.cmd <= CmdTimeout =>
    \/ held["cmd"].born <= age.cmd
    \/ held["cmd"].born <= PollTimeout + age.cmd /\ RecentRetry(PollTimeout + age.cmd)

OrderOK ==
  ~closing /\ order.speed = "move" =>
    /\ at = "send" => order.born <= CmdTimeout
    /\ at = "wait" => order.born <= CmdTimeout + age.poll
    /\ at \notin Waits =>
         \/ order.born <= CmdTimeout
         \/ /\ order.born <= PollTimeout + CmdTimeout
            /\ RecentRetry(PollTimeout + CmdTimeout)

MotorOK ==
  \A m \in Motors \ missed : motor[m].guarded =>
    /\ motor[m].quiet < Watchdog
    /\ motor[m].born <= PollTimeout + CmdTimeout + motor[m].quiet

Inductive ==
  /\ TypeOK /\ TimersOK /\ PlaceOK /\ AcksOK /\ GuardOK
  /\ NobodyServed /\ WaitOK /\ QueueOK /\ HeldOK /\ OrderOK /\ MotorOK

-----------------------------------------------------------------------------
(* Types *)

LEMMA NoneFacts ==
  /\ None = -1 /\ None \notin Nat /\ Watchdog # None /\ Watchdog # 0 /\ 0 # None
  /\ CmdTimeout \in Nat /\ SafetyTimeout \in Nat /\ Watchdog \in Nat /\ PollTimeout \in Nat
  /\ Cooldown \in Nat /\ ReconnectAfter \in Nat /\ MaxAge \in Nat
  /\ MaxAge = PollTimeout + CmdTimeout + Watchdog /\ PollTimeout + CmdTimeout < Cooldown
  BY DriverAssumption DEF None, MaxAge

LEMMA OlderOrder == ASSUME NEW o \in Order PROVE Older(o) \in Order
  BY NoneFacts DEF Older, Order, Upto, Zero

\* Which actions change what
LEMMA QueueFrame ==
  ASSUME [Next]_vars
  PROVE  \/ UNCHANGED <<inbox, held, order>> \/ Decide \/ SendFrame \/ Clock \/ BeginShutdown
         \/ \E t \in Topics : Receive(t) \/ \E o \in Sent(t) : Publish(t, o)
  BY DEF Next, Executor, Hardware, vars, executor, can, hardware, Open, Ready, SendSetting, Waited,
    StopFrames, ClearWatchdog, Closed, Acknowledge, Unplug, Plug, PowerOn, PowerOff

LEMMA AgeFrame ==
  ASSUME [Next]_vars
  PROVE  \/ UNCHANGED age \/ Ready \/ SendSetting \/ Waited \/ SendFrame \/ Clock
         \/ \E t \in Topics : Receive(t)
  BY DEF Next, Executor, Hardware, vars, executor, can, hardware, Open, Decide, Publish,
    StopFrames, ClearWatchdog, BeginShutdown, Closed, Acknowledge, Unplug, Plug, PowerOn, PowerOff

LEMMA AcksFrame ==
  ASSUME [Next]_vars
  PROVE  \/ UNCHANGED <<confirmed, acks>> \/ SendSetting \/ SendFrame \/ Acknowledge \/ Unplug
  BY DEF Next, Executor, Hardware, vars, executor, can, hardware, Open, Ready, Waited, Decide, Publish,
    StopFrames, ClearWatchdog, BeginShutdown, Closed, Receive, Clock, Plug, PowerOn, PowerOff

LEMMA MotorFrame ==
  ASSUME [Next]_vars
  PROVE  \/ UNCHANGED motor \/ SendSetting \/ SendFrame \/ StopFrames \/ Clock \/ PowerOff
  BY DEF Next, Executor, Hardware, vars, executor, can, hardware, Open, Ready, Waited, Decide, Publish,
    ClearWatchdog, BeginShutdown, Closed, Receive, Acknowledge, Unplug, Plug, PowerOn

LEMMA BusFrame ==
  ASSUME [Next]_vars
  PROVE  \/ UNCHANGED <<bus, link, power>> \/ Open \/ SendFrame \/ Hardware
  BY DEF Next, Executor, vars, executor, can, hardware, Ready, SendSetting, Waited, Decide, Publish,
    StopFrames, ClearWatchdog, BeginShutdown, Closed, Receive, Acknowledge, Clock

LEMMA DipFrame ==
  ASSUME [Next]_vars
  PROVE  /\ UNCHANGED dipped \/ SendSetting \/ PowerOff
         /\ UNCHANGED missed \/ StopFrames
  BY DEF Next, Executor, Hardware, vars, executor, can, hardware, Open, Ready, SendSetting, Waited, Decide,
    Publish, SendFrame, StopFrames, ClearWatchdog, BeginShutdown, Closed, Receive, Acknowledge, Clock,
    Unplug, Plug, PowerOn, PowerOff

LEMMA MissedGrows == ASSUME [Next]_vars PROVE missed \subseteq missed'
  BY DipFrame DEF StopFrames

LEMMA PlaceFrame ==
  ASSUME [Next]_vars
  PROVE  \/ UNCHANGED <<at, back, asking, closing>> \/ Open \/ Ready \/ SendSetting \/ Waited
         \/ Decide \/ SendFrame \/ StopFrames \/ ClearWatchdog \/ BeginShutdown
  BY DEF Next, Executor, Hardware, vars, executor, can, hardware, Publish,
    Closed, Receive, Acknowledge, Clock, Unplug, Plug, PowerOn, PowerOff

\* The ways a frame goes: to the motor, nowhere, or with the bus opened anew, or
\* found to be gone.
FrameSent ==
  /\ bus = "live" /\ at' \in After(at) /\ order' = IF at' = "idle" THEN Zero ELSE order
  /\ motor' = IF at \in Reached
              THEN [motor EXCEPT ![at] = Obey(motor[at], order, Sure)]
              ELSE motor
  /\ UNCHANGED <<age, bus, acks, back, asking>>
FrameLost ==
  /\ at' \in After(at) /\ order' = IF at' = "idle" THEN Zero ELSE order
  /\ UNCHANGED <<age, bus, acks, back, asking, motor>>
BusReopened ==
  /\ age.retry = None \/ age.retry >= Cooldown
  /\ link /\ bus' = "live" /\ age' = [age EXCEPT !.retry = 0] /\ acks' = Silence
  /\ at' = "send" /\ back' \in After(at) /\ asking' = Watchdog
  /\ order' = IF back' = "idle" THEN Zero ELSE order
  /\ UNCHANGED motor
BusGone ==
  /\ bus' = "none" /\ age' = [age EXCEPT !.retry = 0] /\ acks' = Silence
  /\ at' \in After(at) /\ order' = IF at' = "idle" THEN Zero ELSE order
  /\ UNCHANGED <<back, asking, motor>>

LEMMA SendFrameSplit ==
  ASSUME age \in Ages, SendFrame
  PROVE  /\ at \in Frames
         /\ UNCHANGED <<inbox, held, due, closing, confirmed, link, power, dipped, missed>>
         /\ FrameSent \/ FrameLost \/ BusReopened \/ BusGone
<1>1. PICK l \in After(at) : SendFrame!2!(l)
  BY DEF SendFrame
<1>2. /\ at \in Frames
      /\ UNCHANGED <<inbox, held, due, closing, confirmed, link, power, dipped, missed>>
  BY DEF SendFrame
<1>3. l \in After(at) /\ order' = IF l = "idle" THEN Zero ELSE order
  BY <1>1
<1>4. ASSUME bus = "live", at' = l, UNCHANGED <<age, bus, acks, back, asking>>,
             motor' = IF at \in Reached
                      THEN [motor EXCEPT ![at] = Obey(motor[at], order, Sure)] ELSE motor
      PROVE  FrameSent
  BY <1>3, <1>4 DEF FrameSent
<1>5. ASSUME at' = l, UNCHANGED <<age, bus, acks, back, asking, motor>> PROVE FrameLost
  BY <1>3, <1>5 DEF FrameLost
<1>6. ASSUME AttemptReconnect(l), UNCHANGED motor PROVE FrameLost \/ BusReopened \/ BusGone
  <2>1. CASE age.retry # None /\ age.retry < Cooldown
    BY <1>3, <1>6, <2>1 DEF AttemptReconnect, FrameLost
  <2>2. CASE ~(age.retry # None /\ age.retry < Cooldown)
    <3>1. age.retry = None \/ age.retry >= Cooldown
      BY <2>2, NoneFacts DEF Ages
    <3>2. CASE link
      BY <1>3, <1>6, <2>2, <3>1, <3>2 DEF AttemptReconnect, Configure, BusReopened
    <3>3. CASE ~link
      BY <1>3, <1>6, <2>2, <3>3 DEF AttemptReconnect, BusGone
    <3> QED BY <3>2, <3>3
  <2> QED BY <2>1, <2>2
<1>7. \/ /\ bus = "live" /\ at' = l /\ UNCHANGED <<age, bus, acks, back, asking>>
         /\ motor' = IF at \in Reached
                     THEN [motor EXCEPT ![at] = Obey(motor[at], order, Sure)] ELSE motor
      \/ at' = l /\ UNCHANGED <<age, bus, acks, back, asking, motor>>
      \/ AttemptReconnect(l) /\ UNCHANGED motor
  BY <1>1
<1> QED BY <1>2, <1>4, <1>5, <1>6, <1>7

-----------------------------------------------------------------------------
(* Types *)

MotorState == [speed : Speeds, limit : {0, Watchdog}, quiet : 0 .. Watchdog,
               born : 0 .. MaxAge + 1, guarded : BOOLEAN]
ControlType ==
  /\ at \in Frames \cup {"open", "ready", "send", "wait", "idle", "stop",
                         "clear", "stop again", "closed"}
  /\ back \in Frames \cup {"ready", "idle", "stop again"} /\ asking \in {0, Watchdog}
  /\ due \in BOOLEAN /\ closing \in BOOLEAN

LEMMA ControlStep == ASSUME TypeOK, [Next]_vars PROVE ControlType'
<1> USE DEF ControlType, Frames, executor
<1>1. CASE Open
  BY <1>1 DEF Open, TypeOK, Configure
<1>2. CASE Ready \/ SendSetting \/ Waited
  BY <1>2 DEF Ready, SendSetting, Waited, TypeOK
<1>3. CASE Decide
  BY <1>3 DEF Decide, TypeOK
<1>4. CASE SendFrame
  <2>1. /\ at \in Frames /\ UNCHANGED <<due, closing>>
        /\ FrameSent \/ FrameLost \/ BusReopened \/ BusGone
    BY <1>4, SendFrameSplit DEF TypeOK
  <2>2. After(at) \subseteq Frames \cup {"idle"}
    BY <2>1 DEF After
  <2> QED BY <2>1, <2>2 DEF FrameSent, FrameLost, BusReopened, BusGone, TypeOK
<1>5. CASE StopFrames \/ ClearWatchdog \/ BeginShutdown
  BY <1>5 DEF StopFrames, ClearWatchdog, BeginShutdown, Configure, StopFirst, MarkClosing, TypeOK
<1>6. CASE UNCHANGED executor
  BY <1>6 DEF TypeOK
<1>7. CASE Clock
  BY <1>7 DEF Clock, TypeOK
<1> QED
  BY <1>1, <1>2, <1>3, <1>4, <1>5, <1>6, <1>7 DEF Next, Executor, Hardware, vars, can, hardware,
    Receive, Publish, Closed, Acknowledge, Unplug, Plug, PowerOn, PowerOff

LEMMA BusStep ==
  ASSUME TypeOK, [Next]_vars
  PROVE  /\ link' \in BOOLEAN /\ power' \in BOOLEAN
         /\ bus' \in {"none", "live", "dead"} /\ failures' \in Nat
         /\ dipped' \in BOOLEAN /\ missed' \subseteq Motors
<1> USE DEF can, hardware
<1>1. CASE Open \/ Ready \/ SendSetting \/ Waited \/ Decide
  BY <1>1 DEF Open, Ready, SendSetting, Waited, Decide, TypeOK
<1>2. CASE SendFrame
  <2>1. UNCHANGED <<link, power, dipped, missed>>
    BY <1>2 DEF SendFrame
  <2>2. bus' \in {"none", "live", "dead"}
    BY <1>2, SendFrameSplit DEF FrameSent, FrameLost, BusReopened, BusGone, TypeOK
  <2>3. failures' \in {0, failures, failures + 1}
    <3>1. PICK l \in After(at) : SendFrame!2!(l)
      BY <1>2 DEF SendFrame
    <3> QED BY <3>1 DEF AttemptReconnect
  <2>4. /\ link \in BOOLEAN /\ power \in BOOLEAN /\ failures \in Nat
        /\ dipped \in BOOLEAN /\ missed \subseteq Motors
    BY DEF TypeOK
  <2> QED BY <2>1, <2>2, <2>3, <2>4
<1>3. CASE StopFrames \/ ClearWatchdog \/ BeginShutdown \/ Clock \/ Hardware
  BY <1>3 DEF StopFrames, ClearWatchdog, BeginShutdown, Clock, Hardware, Unplug, Plug, PowerOn,
    PowerOff, TypeOK, Reached
<1>4. CASE UNCHANGED <<can, hardware>> \/ Acknowledge
  BY <1>4 DEF Acknowledge, TypeOK
<1> QED
  BY <1>1, <1>2, <1>3, <1>4 DEF Next, Executor, vars, Receive, Publish, Closed

QueueType ==
  /\ inbox \in [Topics -> Order \cup {Nothing}]
  /\ held \in [Topics -> Order] /\ order \in Order

LEMMA QueueStep ==
  ASSUME TypeOK, [Next]_vars
  PROVE  QueueType'
<1> USE DEF QueueType
<1>0. Zero \in Order
  BY DEF Order
<1>1. CASE Decide
  BY <1>1, <1>0 DEF Decide, TypeOK, Topics
<1>2. CASE SendFrame
  BY <1>2, <1>0, SendFrameSplit DEF FrameSent, FrameLost, BusReopened, BusGone, TypeOK
<1>3. CASE Clock
  <2>1. \A t \in Topics : Older(inbox[t]) \in Order \cup {Nothing}
    <3>1. Older(Nothing) = Nothing
      BY DEF Older, Nothing
    <3> QED BY <3>1, OlderOrder DEF TypeOK
  <2>2. \A t \in Topics : Older(held[t]) \in Order
    BY OlderOrder DEF TypeOK
  <2> QED BY <1>3, <2>1, <2>2, OlderOrder DEF Clock, TypeOK
<1>4. ASSUME NEW t \in Topics, Receive(t) PROVE QueueType'
  BY <1>4 DEF Receive, executor, TypeOK
<1>5. ASSUME NEW t \in Topics, NEW o \in Sent(t), Publish(t, o) PROVE QueueType'
  <2>1. o \in Order
    BY <1>0, NoneFacts DEF Sent, Order
  <2> QED BY <1>5, <2>1 DEF Publish, executor, TypeOK
<1>6. CASE BeginShutdown
  BY <1>0, <1>6 DEF BeginShutdown, TypeOK
<1> QED BY <1>1, <1>2, <1>3, <1>4, <1>5, <1>6, QueueFrame DEF TypeOK

LEMMA UptoFacts ==
  ASSUME NEW a \in Nat \cup {None}, NEW b \in Nat
  PROVE  /\ Upto(a, b) \in Nat \cup {None}
         /\ a = None => Upto(a, b) = None
         /\ a # None => Upto(a, b) # None /\ a <= Upto(a, b) /\ Upto(a, b) <= a + 1
         /\ a # None /\ a <= b => Upto(a, b) <= b
         /\ a # None /\ a < b => Upto(a, b) = a + 1
<1>1. CASE a = None
  BY <1>1 DEF Upto
<1>2. CASE a \in Nat /\ a < b
  <2>1. Upto(a, b) = a + 1
    BY <1>2, NoneFacts DEF Upto
  <2> QED BY <1>2, <2>1, NoneFacts DEF None
<1>3. CASE a \in Nat /\ ~(a < b)
  <2>1. Upto(a, b) = a
    BY <1>3 DEF Upto
  <2> QED BY <1>3, <2>1, NoneFacts DEF None
<1> QED BY <1>1, <1>2, <1>3

LEMMA WaitIsEntered ==
  ASSUME TypeOK, [Next]_vars, at # "wait" PROVE at' # "wait" \/ SendSetting
<1>1. CASE SendFrame
  <2>1. at \in Frames /\ (FrameSent \/ FrameLost \/ BusReopened \/ BusGone)
    BY <1>1, SendFrameSplit DEF TypeOK
  <2>2. After(at) \subseteq Frames \cup {"idle"}
    BY <2>1 DEF After, Frames
  <2> QED BY <2>1, <2>2 DEF FrameSent, FrameLost, BusReopened, BusGone, Frames
<1>2. CASE Open \/ Ready \/ Decide \/ StopFrames \/ ClearWatchdog \/ BeginShutdown
  BY <1>2 DEF Open, Ready, Decide, StopFrames, ClearWatchdog, BeginShutdown, Configure, StopFirst
<1>3. CASE UNCHANGED at
  BY <1>3
<1> QED BY <1>1, <1>2, <1>3, PlaceFrame DEF Waited

LEMMA WaitIsLeft == ASSUME [Next]_vars, at = "wait" PROVE at' = "wait" \/ Waited
  BY PlaceFrame DEF Open, Ready, SendSetting, Decide, SendFrame, StopFrames, ClearWatchdog,
    BeginShutdown, Frames

\* The ages after an action, field by field
LEMMA AgeStep ==
  ASSUME TypeOK, TimersOK, [Next]_vars
  PROVE  age' \in Ages /\ TimersOK'
<1>0. age \in Ages
  BY DEF TypeOK
<1>1. CASE Ready
  <2>1. age' = [age EXCEPT !.cmd = 0] /\ at' = "idle" /\ at = "ready"
    BY <1>1 DEF Ready
  <2>2. age'.cmd = 0 /\ age'.safety = age.safety /\ age'.retry = age.retry /\ age'.poll = age.poll
    BY <1>0, <2>1 DEF Ages
  <2>3. age' \in Ages
    BY <1>0, <2>1 DEF Ages
  <2> QED BY <2>1, <2>2, <2>3, NoneFacts DEF TimersOK
<1>2. CASE SendSetting \/ Waited
  <2>1. age' = [age EXCEPT !.poll = 0]
    BY <1>2 DEF SendSetting, Waited
  <2>2. age'.cmd = age.cmd /\ age'.retry = age.retry /\ age'.poll = 0
    BY <1>0, <2>1 DEF Ages
  <2>3. age' \in Ages
    BY <1>0, <2>1 DEF Ages
  <2> QED BY <2>1, <2>2, <2>3, NoneFacts DEF TimersOK
<1>4. CASE SendFrame
  <2>1. at # "wait" /\ at' # "wait" /\ age.poll = 0
    BY <1>4, WaitIsEntered DEF SendFrame, Frames, TimersOK, SendSetting
  <2>2. age' = age \/ age' = [age EXCEPT !.retry = 0]
    BY <1>4, SendFrameSplit DEF FrameSent, FrameLost, BusReopened, BusGone, TypeOK
  <2>3. age'.cmd = age.cmd /\ age'.retry \in {0, age.retry} /\ age'.poll = age.poll
    BY <1>0, <2>2 DEF Ages
  <2>4. age' \in Ages
    BY <1>0, <2>2 DEF Ages
  <2> QED BY <2>1, <2>3, <2>4, NoneFacts DEF TimersOK
<1>5. CASE Clock
  <2> DEFINE poll == IF at = "wait" THEN age.poll + 1 ELSE 0
  <2>1. poll \in 0 .. PollTimeout /\ (at # "wait" => poll = 0)
    <3>1. age.poll \in 0 .. PollTimeout /\ (at = "wait" => age.poll < PollTimeout)
      BY <1>5 DEF Clock, TimersOK
    <3> QED BY <3>1, NoneFacts
  <2>2. age' = [cmd |-> Upto(age.cmd, CmdTimeout + 1),
                safety |-> Upto(age.safety, SafetyTimeout + 1),
                retry |-> Upto(age.retry, Cooldown), poll |-> poll]
        /\ at' = at
    BY <1>5 DEF Clock
  <2> HIDE DEF poll
  <2>3. /\ age'.cmd = Upto(age.cmd, CmdTimeout + 1) /\ age'.safety = Upto(age.safety, SafetyTimeout + 1)
        /\ age'.retry = Upto(age.retry, Cooldown) /\ age'.poll = poll
    BY <1>0, <2>2 DEF Ages
  <2>4. age.cmd \in Nat /\ age.cmd <= CmdTimeout + 1 /\ CmdTimeout + 1 \in Nat
    BY NoneFacts DEF TimersOK
  <2>5. age.retry = None \/ (age.retry \in Nat /\ age.retry <= Cooldown)
    BY NoneFacts DEF TimersOK
  <2>6. age'.cmd \in 0 .. CmdTimeout + 1
    BY <2>3, <2>4, NoneFacts DEF Upto
  <2>7. age'.retry \in 0 .. Cooldown \cup {None}
    BY <2>3, <2>5, NoneFacts DEF Upto
  <2>8. age'.safety \in Nat \cup {None}
    <3>1. age.safety \in Nat \cup {None} /\ SafetyTimeout + 1 \in Nat
      BY <1>0, NoneFacts DEF Ages
    <3> QED BY <2>3, <3>1, NoneFacts DEF Upto
  <2>9. age' \in Ages
    <3>1. /\ age'.cmd \in Nat /\ age'.retry \in Nat \cup {None} /\ age'.poll \in Nat
      BY <2>1, <2>3, <2>6, <2>7, NoneFacts
    <3> QED BY <2>2, <2>3, <2>8, <3>1 DEF Ages
  <2> QED BY <2>1, <2>2, <2>3, <2>6, <2>7, <2>9 DEF Ages, TimersOK
<1>6. ASSUME NEW t \in Topics, Receive(t) PROVE age' \in Ages /\ TimersOK'
  <2>1. age' \in {[age EXCEPT !.cmd = 0], [age EXCEPT !.safety = 0]} /\ at' = at
    BY <1>6 DEF Receive, executor
  <2>2. age'.cmd \in {0, age.cmd} /\ age'.retry = age.retry /\ age'.poll = age.poll
    BY <1>0, <2>1 DEF Ages, Topics
  <2>3. age' \in Ages
    BY <1>0, <2>1 DEF Ages, Topics
  <2> QED BY <2>1, <2>2, <2>3, NoneFacts DEF TimersOK
<1>7. CASE UNCHANGED age
  BY <1>0, <1>2, <1>7, WaitIsLeft DEF TimersOK
<1> QED BY <1>1, <1>2, <1>4, <1>5, <1>6, <1>7, AgeFrame

AcksType == /\ confirmed \in [Motors -> {None, 0, Watchdog}]
            /\ acks \in [Motors -> Seq({0, Watchdog})]

LEMMA SilenceType == Silence \in [Motors -> Seq({0, Watchdog})]
  BY DEF Silence

LEMMA AcksStep == ASSUME TypeOK, [Next]_vars PROVE AcksType'
<1> USE DEF AcksType
<1>0. AcksType /\ asking \in {0, Watchdog}
  BY DEF TypeOK
<1>1. CASE SendSetting
  <2>1. NoneConfirmed \in [Motors -> {None, 0, Watchdog}]
    BY DEF NoneConfirmed
  <2>2. ASSUME NEW m \in Motors PROVE Append(acks[m], asking) \in Seq({0, Watchdog})
    BY <1>0
  <2> QED BY <1>0, <1>1, <2>1, <2>2 DEF SendSetting
<1>2. CASE SendFrame
  <2>1. UNCHANGED confirmed /\ acks' \in {acks, Silence}
    BY <1>2, SendFrameSplit DEF FrameSent, FrameLost, BusReopened, BusGone, TypeOK
  <2> QED BY <1>0, <2>1, SilenceType
<1>3. CASE Acknowledge
  <2>1. PICK m \in Motors : /\ acks[m] # <<>>
                            /\ confirmed' = [confirmed EXCEPT ![m] = Head(acks[m])]
                            /\ acks' = [acks EXCEPT ![m] = Tail(acks[m])]
    BY <1>3 DEF Acknowledge
  <2>2. Head(acks[m]) \in {0, Watchdog} /\ Tail(acks[m]) \in Seq({0, Watchdog})
    BY <1>0, <2>1
  <2> QED BY <1>0, <2>1, <2>2
<1>4. CASE Unplug
  BY <1>0, <1>4, SilenceType DEF Unplug
<1> QED BY <1>0, <1>1, <1>2, <1>3, <1>4, AcksFrame

LEMMA MotorStep == ASSUME TypeOK, [Next]_vars PROVE motor' \in [Motors -> MotorState]
<1>0. /\ motor \in [Motors -> MotorState] /\ asking \in {0, Watchdog} /\ order \in Order
      /\ Reached \subseteq Motors /\ 0 \in 0 .. Watchdog /\ 0 \in 0 .. MaxAge + 1
  <2>1. motor \in [Motors -> MotorState] /\ asking \in {0, Watchdog} /\ order \in Order
    BY DEF TypeOK, MotorState
  <2>2. Reached \subseteq Motors
    BY DEF Reached
  <2> QED BY <2>1, <2>2, NoneFacts
<1>1. CASE SendSetting
  <2>1. ASSUME NEW m \in Motors PROVE [motor[m] EXCEPT !.limit = asking] \in MotorState
    BY <1>0 DEF MotorState
  <2> QED BY <1>0, <1>1, <2>1 DEF SendSetting
<1>2. ASSUME NEW m \in MotorState, NEW o \in Order, NEW b \in BOOLEAN
      PROVE  Obey(m, o, b) \in MotorState
  <2>1. o.speed \in Speeds /\ o.born \in 0 .. MaxAge + 1
    BY <1>0 DEF Order, Zero, Speeds
  <2> QED BY <1>0, <2>1 DEF Obey, MotorState
<1>3. CASE SendFrame
  <2>1. \/ UNCHANGED motor
        \/ /\ at \in Motors
           /\ motor' = [motor EXCEPT ![at] = Obey(motor[at], order, Sure)]
    BY <1>0, <1>3, SendFrameSplit DEF FrameSent, FrameLost, BusReopened, BusGone, TypeOK
  <2>2. CASE UNCHANGED motor
    BY <1>0, <2>2
  <2>3. CASE ~UNCHANGED motor
    <3>1. Obey(motor[at], order, Sure) \in MotorState
      BY <1>0, <1>2, <2>1, <2>3 DEF Sure
    <3> QED BY <1>0, <2>1, <2>3, <3>1
  <2> QED BY <2>2, <2>3
<1>4. CASE StopFrames
  <2>1. \A m \in Motors : Obey(motor[m], Zero, FALSE) \in MotorState
    BY <1>0, <1>2 DEF Order
  <2> QED BY <1>0, <1>4, <2>1 DEF StopFrames
<1>5. CASE Clock
  <2>1. ASSUME NEW m \in MotorState PROVE Wait(m) \in MotorState
    <3> DEFINE b == IF m.guarded THEN Upto(m.born, MaxAge + 1) ELSE m.born
    <3>1. Upto(m.born, MaxAge + 1) \in 0 .. MaxAge + 1
      BY NoneFacts DEF MotorState, Upto
    <3>2. b \in 0 .. MaxAge + 1
      BY <3>1 DEF MotorState
    <3>3. m.limit > 0 /\ m.quiet + 1 < m.limit => m.quiet + 1 \in 0 .. Watchdog
      BY NoneFacts DEF MotorState
    <3>4. m.limit = 0 \/ (m.limit = Watchdog /\ Watchdog > 0)
      BY DriverAssumption DEF MotorState
    <3>5. "zero" \in Speeds /\ m.quiet \in Nat /\ m.limit \in Nat
      BY <3>4, NoneFacts DEF MotorState, Speeds
    <3>6. CASE m.speed = "move" /\ m.limit > 0 /\ m.quiet + 1 >= m.limit
      <4>1. Wait(m) = [m EXCEPT !.speed = "zero", !.quiet = 0, !.born = 0, !.guarded = FALSE]
        BY <3>6 DEF Wait
      <4> QED BY <1>0, <3>5, <4>1 DEF MotorState
    <3>7. CASE ~(m.speed = "move" /\ m.limit > 0 /\ m.quiet + 1 >= m.limit)
      <4> DEFINE q == IF m.speed = "move" /\ m.limit > 0 THEN m.quiet + 1 ELSE 0
      <4>1. Wait(m) = [m EXCEPT !.born = b, !.quiet = q]
        BY <3>7 DEF Wait
      <4>2. q \in 0 .. Watchdog
        BY <1>0, <3>3, <3>5, <3>7
      <4> HIDE DEF b, q
      <4> QED BY <3>2, <4>1, <4>2 DEF MotorState
    <3> QED BY <3>6, <3>7
  <2> QED BY <1>0, <1>5, <2>1 DEF Clock
<1>6. CASE PowerOff
  <2>1. Rest \in MotorState
    BY <1>0 DEF Rest, MotorState, Speeds
  <2> QED BY <1>6, <2>1 DEF PowerOff
<1> QED BY <1>0, <1>1, <1>3, <1>4, <1>5, <1>6, MotorFrame

LEMMA TypeStep ==
  ASSUME TypeOK, TimersOK, [Next]_vars PROVE TypeOK' /\ TimersOK'
<1>1. ControlType' /\ AcksType' /\ QueueType'
  BY ControlStep, AcksStep, QueueStep
<1>2. motor' \in [Motors -> MotorState] /\ age' \in Ages /\ TimersOK'
  BY MotorStep, AgeStep
<1>3. /\ link' \in BOOLEAN /\ power' \in BOOLEAN
      /\ bus' \in {"none", "live", "dead"} /\ failures' \in Nat
      /\ dipped' \in BOOLEAN /\ missed' \subseteq Motors
  BY BusStep
<1> QED BY <1>1, <1>2, <1>3 DEF TypeOK, ControlType, AcksType, QueueType, MotorState

-----------------------------------------------------------------------------
(* Where the executor is *)

LEMMA OlderFacts ==
  ASSUME NEW o \in Order
  PROVE  /\ Older(Zero) = Zero /\ Older(Nothing) = Nothing
         /\ Older(o).speed = o.speed /\ Older(o).born <= o.born + 1 /\ o.born \in Nat
  BY NoneFacts DEF Older, Zero, Nothing, Order, Upto

LEMMA PlaceStep ==
  ASSUME TypeOK, PlaceOK, [Next]_vars PROVE PlaceOK'
<1> USE DEF PlaceOK, Waits, Closes
<1>0. asking \in {0, Watchdog} /\ Watchdog # 0 /\ order \in Order
  BY NoneFacts DEF TypeOK
<1>1. CASE Open
  BY <1>0, <1>1 DEF Open, Configure
<1>2. CASE Ready
  BY <1>2 DEF Ready
<1>3. CASE SendSetting
  BY <1>3 DEF SendSetting
<1>4. CASE Waited
  <2>1. back \in Frames \cup {"ready", "idle", "stop again"}
    BY DEF TypeOK
  <2> QED BY <1>4, <2>1 DEF Waited, Frames
<1>5. CASE Decide
  BY <1>5 DEF Decide
<1>6. CASE SendFrame
  <2>1. /\ at \in Frames /\ UNCHANGED closing
        /\ FrameSent \/ FrameLost \/ BusReopened \/ BusGone
    BY <1>6, SendFrameSplit DEF TypeOK
  <2>2. After(at) \subseteq Frames \cup {"idle"}
    BY <2>1 DEF After, Frames
  <2>3. ~closing /\ back = "idle" /\ asking = Watchdog
    BY <1>0, <2>1 DEF Frames
  <2>4. CASE BusReopened
    BY <1>0, <2>1, <2>2, <2>3, <2>4 DEF BusReopened, Frames
  <2>5. CASE FrameSent \/ FrameLost \/ BusGone
    BY <1>0, <2>1, <2>2, <2>3, <2>5 DEF FrameSent, FrameLost, BusGone, Frames
  <2> QED BY <2>1, <2>4, <2>5
<1>7. CASE StopFrames
  BY <1>7 DEF StopFrames
<1>8. CASE ClearWatchdog
  BY <1>8 DEF ClearWatchdog, Configure
<1>9. CASE BeginShutdown
  BY <1>9 DEF BeginShutdown, MarkClosing, StopFirst
<1>10. CASE Clock
  <2>1. Older(Zero) = Zero
    BY <1>0, OlderFacts
  <2> QED BY <1>10, <2>1 DEF Clock
<1>11. CASE UNCHANGED <<at, back, asking, closing, order>>
  BY <1>11
<1> QED
  BY <1>1, <1>2, <1>3, <1>4, <1>5, <1>6, <1>7, <1>8, <1>9, <1>10, <1>11 DEF Next, Executor, Hardware,
    vars, executor, can, hardware, Receive, Publish, Closed, Acknowledge, Unplug, Plug, PowerOn, PowerOff

-----------------------------------------------------------------------------
(* Acknowledgements and watchdogs *)

\* What becomes of the setting of a motor's watchdog
LEMMA LimitStep ==
  ASSUME TypeOK, [Next]_vars, NEW m \in Motors
  PROVE  motor'[m].limit = motor[m].limit \/ SendSetting \/ PowerOff
<1>0. motor \in [Motors -> MotorState] /\ Reached \subseteq Motors
  BY DEF TypeOK, MotorState, Reached
<1>1. ASSUME NEW s \in MotorState, NEW o, NEW b PROVE Obey(s, o, b).limit = s.limit
  BY DEF Obey, MotorState
<1>2. CASE SendFrame
  <2>1. \/ UNCHANGED motor
        \/ at \in Motors /\ motor' = [motor EXCEPT ![at] = Obey(motor[at], order, Sure)]
    BY <1>0, <1>2, SendFrameSplit DEF FrameSent, FrameLost, BusReopened, BusGone, TypeOK
  <2> QED BY <1>0, <1>1, <2>1
<1>3. CASE StopFrames
  <2>1. Obey(motor[m], Zero, FALSE).limit = motor[m].limit
    BY <1>0 DEF Obey, MotorState
  <2>2. motor'[m] = Obey(motor[m], Zero, FALSE) \/ motor'[m] = motor[m]
    BY <1>3 DEF StopFrames
  <2> QED BY <2>1, <2>2
<1>4. CASE Clock
  <2>1. motor'[m] = Wait(motor[m])
    BY <1>4 DEF Clock
  <2>2. \A s \in MotorState : Wait(s).limit = s.limit
    BY DEF Wait, MotorState
  <2> QED BY <1>0, <2>1, <2>2
<1> QED BY <1>2, <1>3, <1>4, MotorFrame

LEMMA LiveStep ==
  ASSUME TypeOK, AcksOK, [Next]_vars PROVE (bus = "live" => link)'
<1>1. CASE Open
  BY <1>1 DEF Open, AcksOK, hardware, Configure
<1>2. CASE SendFrame
  <2>1. UNCHANGED link /\ (FrameSent \/ FrameLost \/ BusReopened \/ BusGone)
    BY <1>2, SendFrameSplit DEF TypeOK
  <2> QED BY <2>1 DEF FrameSent, FrameLost, BusReopened, BusGone, AcksOK
<1>3. CASE Hardware
  BY <1>3 DEF Hardware, Unplug, Plug, PowerOn, PowerOff, AcksOK, can, TypeOK
<1> QED BY <1>1, <1>2, <1>3, BusFrame DEF AcksOK

LEMMA SendAcksStep ==
  ASSUME TypeOK, PlaceOK, AcksOK, [Next]_vars
  PROVE  (at = "open" \/ (at = "send" /\ asking = Watchdog) => acks = Silence)'
<1> USE DEF AcksOK
<1>1. CASE SendFrame
  <2>1. /\ at \in Frames
        /\ FrameSent \/ FrameLost \/ BusReopened \/ BusGone
    BY <1>1, SendFrameSplit DEF TypeOK
  <2>2. After(at) \subseteq Frames \cup {"idle"}
    BY <2>1 DEF After, Frames
  <2> QED BY <2>1, <2>2 DEF FrameSent, FrameLost, BusReopened, BusGone, Frames
<1>2. CASE Open \/ Ready \/ SendSetting \/ Waited
  <2>1. back # "open" /\ back # "send"
    BY DEF TypeOK, Frames
  <2> QED BY <1>2, <2>1 DEF Open, Ready, SendSetting, Waited, Configure, can
<1>3. CASE Decide \/ StopFrames \/ ClearWatchdog \/ BeginShutdown
  BY <1>3, NoneFacts DEF Decide, StopFrames, ClearWatchdog, BeginShutdown, StopFirst, Configure, can
<1>4. CASE UNCHANGED <<at, asking>> /\ (UNCHANGED acks \/ Acknowledge \/ Unplug)
  <2>1. ASSUME Acknowledge, acks = Silence PROVE FALSE
    BY <2>1 DEF Acknowledge, Silence
  <2> QED BY <1>4, <2>1 DEF Unplug
<1> QED
  BY <1>1, <1>2, <1>3, <1>4 DEF Next, Executor, Hardware, vars, executor, can, hardware, Receive,
    Publish, Closed, Acknowledge, Clock, Unplug, Plug, PowerOn, PowerOff

\* A motor that has acknowledged, or has sent to be heard, has the setting.
AckedSet ==
  bus = "live" /\ asking = Watchdog /\ ~dipped =>
    \A m \in Motors :
      acks[m] # <<>> \/ (at # "send" /\ confirmed[m] # None)
        => power /\ motor[m].limit = Watchdog

LEMMA AckedStep ==
  ASSUME TypeOK, PlaceOK, AcksOK, [Next]_vars
  PROVE  AckedSet'
<1>0. AckedSet /\ (bus = "live" => link)
  BY DEF AcksOK, AckedSet
<1> USE DEF AckedSet
<1>1. ASSUME acks' = Silence, at' = "send" PROVE AckedSet'
  BY <1>1 DEF Silence
<1>2. CASE Open
  BY <1>0, <1>1, <1>2, SendAcksStep DEF Open, Configure, AcksOK, hardware
<1>3. CASE SendSetting
  <2>1. CASE asking = 0
    BY <1>3, <2>1, NoneFacts DEF SendSetting
  <2>2. CASE asking = Watchdog
    <3>1. acks = Silence
      BY <1>3, <2>2 DEF SendSetting, AcksOK
    <3> PICK heard \in SUBSET Reached :
             /\ motor' = [m \in Motors |->
                            IF m \in heard THEN [motor[m] EXCEPT !.limit = asking] ELSE motor[m]]
             /\ acks' = [m \in Motors |->
                            IF m \in heard THEN Append(acks[m], asking) ELSE acks[m]]
      BY <1>3 DEF SendSetting
    <3>2. ASSUME NEW m \in Motors, m \notin heard PROVE acks'[m] = <<>> /\ confirmed'[m] = None
      BY <1>3, <3>1, <3>2 DEF SendSetting, Silence, NoneConfirmed
    <3>3. ASSUME NEW m \in Motors, m \in heard PROVE power' /\ motor'[m].limit = Watchdog
      <4>1. motor'[m] = [motor[m] EXCEPT !.limit = Watchdog] /\ power'
        BY <1>3, <2>2, <3>3 DEF SendSetting, Reached
      <4>2. motor[m] \in MotorState
        BY DEF TypeOK, MotorState
      <4> QED BY <4>1, <4>2 DEF MotorState
    <3> QED BY <3>2, <3>3
  <2> QED BY <2>1, <2>2 DEF TypeOK
<1>4. CASE SendFrame
  <2>1. /\ at \in Frames /\ at # "send" /\ UNCHANGED <<confirmed, power, dipped>>
        /\ FrameSent \/ FrameLost \/ BusReopened \/ BusGone
    BY <1>4, SendFrameSplit DEF TypeOK, Frames
  <2>2. \A m \in Motors : motor'[m].limit = motor[m].limit
    BY <1>4, LimitStep DEF SendFrame, SendSetting, PowerOff, Frames, executor
  <2>3. CASE UNCHANGED <<bus, acks, asking>>
    BY <1>0, <2>1, <2>2, <2>3
  <2> QED BY <1>1, <2>1, <2>3 DEF FrameSent, FrameLost, BusReopened, BusGone
<1>5. CASE PowerOff \/ Unplug
  BY <1>0, <1>5 DEF PowerOff, Unplug, can
<1>6. CASE Acknowledge
  <2>1. PICK m \in Motors : /\ acks[m] # <<>>
                            /\ confirmed' = [confirmed EXCEPT ![m] = Head(acks[m])]
                            /\ acks' = [acks EXCEPT ![m] = Tail(acks[m])]
                            /\ UNCHANGED <<executor, bus, hardware>>
    BY <1>6 DEF Acknowledge
  <2>2. \A n \in Motors : n # m => acks'[n] = acks[n] /\ confirmed'[n] = confirmed[n]
    BY <2>1 DEF TypeOK
  <2> QED BY <1>0, <2>1, <2>2 DEF executor, hardware
<1>7. CASE ~SendSetting /\ ~PowerOff /\ UNCHANGED <<bus, acks, confirmed, dipped>> /\ (power => power')
            /\ (asking' = Watchdog => asking = Watchdog /\ (at = "send" => at' = "send"))
  BY <1>0, <1>7, LimitStep
<1>8. at' # "send" /\ at = "send" => SendSetting
  BY PlaceFrame DEF Open, Ready, Waited, Decide, SendFrame, StopFrames, ClearWatchdog,
    BeginShutdown, Frames
<1>9. UNCHANGED asking \/ Open \/ SendFrame \/ asking' = 0
  BY PlaceFrame DEF Ready, SendSetting, Waited, Decide, StopFrames, ClearWatchdog, Configure,
    BeginShutdown, StopFirst
<1>10. UNCHANGED <<bus, acks, confirmed>> \/ Open \/ SendSetting \/ SendFrame \/ Acknowledge \/ Unplug
  BY AcksFrame, BusFrame DEF Hardware, Plug, PowerOn, PowerOff, can
<1>11. (power => power') \/ PowerOff
  BY BusFrame DEF Hardware, Plug, PowerOn, Unplug, Open, SendFrame, hardware
<1> QED BY <1>2, <1>3, <1>4, <1>5, <1>6, <1>7, <1>8, <1>9, <1>10, <1>11, DipFrame, NoneFacts

LEMMA AcksOKStep ==
  ASSUME TypeOK, PlaceOK, AcksOK, [Next]_vars PROVE AcksOK'
  BY LiveStep, SendAcksStep, AckedStep DEF AcksOK, AckedSet

-----------------------------------------------------------------------------
(* The motors that move under their watchdog *)

\* A motor that is guarded after an action was so before, or has just been told to
\* move, by a bus that is live.
Told(m) ==
  /\ at = m /\ SendFrame /\ FrameSent /\ m \in Reached
  /\ confirmed[m] = Watchdog /\ ~dipped /\ order.speed = "move"
  /\ motor'[m].speed = "move" /\ motor'[m].quiet = 0 /\ motor'[m].born = order.born

Kept(m) == /\ motor[m].guarded /\ motor'[m].speed = motor[m].speed
           /\ ~PowerOff
           /\ \/ Clock /\ motor'[m] = Wait(motor[m])
              \/ /\ motor'[m].quiet = motor[m].quiet /\ motor'[m].born = motor[m].born
                 /\ ~Clock

LEMMA ObeyFacts ==
  ASSUME NEW m \in MotorState, NEW o \in Order, NEW b \in BOOLEAN
  PROVE  /\ Obey(m, o, b).speed = o.speed /\ Obey(m, o, b).quiet = 0
         /\ b => Obey(m, o, b).born = o.born
         /\ Obey(m, o, b).limit = m.limit
         /\ Obey(m, o, b).guarded <=> b /\ o.speed = "move"
  BY DEF Obey, MotorState

LEMMA WaitFacts ==
  ASSUME NEW m \in MotorState, Wait(m).guarded
  PROVE  /\ m.guarded /\ Wait(m).speed = m.speed
         /\ m.speed = "move" /\ m.limit > 0 =>
              /\ m.quiet + 1 < m.limit /\ Wait(m).quiet = m.quiet + 1
              /\ Wait(m).born <= m.born + 1
<1>1. CASE m.speed = "move" /\ m.limit > 0 /\ m.quiet + 1 >= m.limit
  BY <1>1 DEF Wait, MotorState
<1>2. CASE ~(m.speed = "move" /\ m.limit > 0 /\ m.quiet + 1 >= m.limit)
  <2> DEFINE b == IF m.guarded THEN Upto(m.born, MaxAge + 1) ELSE m.born
             q == IF m.speed = "move" /\ m.limit > 0 THEN m.quiet + 1 ELSE 0
  <2>1. Wait(m) = [m EXCEPT !.born = b, !.quiet = q]
    BY <1>2 DEF Wait
  <2>2. b <= m.born + 1
    BY NoneFacts DEF MotorState, Upto
  <2>3. m.speed = "move" /\ m.limit > 0 => q = m.quiet + 1
    OBVIOUS
  <2> HIDE DEF b, q
  <2>4. /\ Wait(m).guarded = m.guarded /\ Wait(m).speed = m.speed
        /\ Wait(m).born = b /\ Wait(m).quiet = q
    BY <2>1 DEF MotorState
  <2>6. m.limit \in Nat /\ m.quiet \in Nat
    BY NoneFacts DEF MotorState
  <2> QED BY <1>2, <2>2, <2>3, <2>4, <2>6
<1> QED BY <1>1, <1>2

LEMMA GuardFrame ==
  ASSUME TypeOK, [Next]_vars, NEW m \in Motors, motor'[m].guarded
  PROVE  Told(m) \/ Kept(m)
<1>0. motor \in [Motors -> MotorState] /\ motor[m] \in MotorState /\ order \in Order
  BY DEF TypeOK, MotorState
<1>1. CASE SendSetting
  <2>1. motor'[m] = motor[m] \/ motor'[m] = [motor[m] EXCEPT !.limit = asking]
    BY <1>1 DEF SendSetting
  <2>2. at = "send" /\ at' = "wait"
    BY <1>1 DEF SendSetting
  <2> QED BY <1>0, <2>1, <2>2, <1>1 DEF Kept, MotorState, PowerOff, Clock, executor
<1>2. CASE SendFrame
  <2>1. /\ at \in Frames /\ (FrameSent \/ FrameLost \/ BusReopened \/ BusGone) /\ at' # at
        /\ ~Clock /\ ~PowerOff
    <3>1. at \in Frames /\ (FrameSent \/ FrameLost \/ BusReopened \/ BusGone)
      BY <1>2, SendFrameSplit DEF TypeOK
    <3>2. at \notin After(at) /\ at # "send"
      BY <3>1 DEF After, Frames
    <3> QED BY <3>1, <3>2 DEF FrameSent, FrameLost, BusReopened, BusGone, Clock, PowerOff, executor
  <2>2. CASE FrameSent /\ at = m /\ m \in Reached
    <3>1. motor'[at] = Obey(motor[at], order, Sure)
      BY <1>0, <2>2 DEF FrameSent
    <3>2. Sure \in BOOLEAN /\ motor[at] \in MotorState
      BY <1>0, <2>2 DEF Sure
    <3>3. /\ motor'[at].speed = order.speed /\ motor'[at].quiet = 0
          /\ motor'[at].guarded <=> Sure /\ order.speed = "move"
          /\ Sure => motor'[at].born = order.born
      BY <1>0, <3>1, <3>2 DEF Obey, MotorState
    <3> QED BY <1>2, <2>2, <3>3 DEF Told, Sure
  <2>3. CASE motor'[m] = motor[m]
    BY <2>1, <2>3 DEF Kept
  <2> QED BY <1>0, <2>1, <2>2, <2>3 DEF FrameSent, FrameLost, BusReopened, BusGone
<1>3. CASE StopFrames
  <2>1. ~Obey(motor[m], Zero, FALSE).guarded
    BY <1>0 DEF Obey, MotorState
  <2>2. motor'[m] = motor[m]
    BY <1>3, <2>1 DEF StopFrames
  <2> QED BY <1>3, <2>2 DEF Kept, StopFrames, Clock, PowerOff, executor
<1>4. CASE Clock
  <2>1. motor'[m] = Wait(motor[m])
    BY <1>4 DEF Clock
  <2> QED BY <1>0, <1>4, <2>1, WaitFacts DEF Kept, Clock, PowerOff
<1>5. CASE PowerOff
  BY <1>5 DEF PowerOff, Rest
<1>6. CASE UNCHANGED motor /\ ~Clock /\ ~PowerOff
  BY <1>6 DEF Kept
<1> QED BY <1>1, <1>2, <1>3, <1>4, <1>5, <1>6, MotorFrame

LEMMA GuardStep ==
  ASSUME TypeOK, PlaceOK, AcksOK, GuardOK, [Next]_vars PROVE GuardOK'
<1>0. motor \in [Motors -> MotorState] /\ asking \in {0, Watchdog} /\ Watchdog # 0
  BY NoneFacts DEF TypeOK, MotorState
<1>1. ASSUME NEW m \in Motors, motor'[m].guarded
      PROVE  /\ motor'[m].speed = "move" /\ power'
             /\ m \notin missed' => motor'[m].limit = Watchdog
  <2>1. CASE Told(m)
    <3>1. asking = Watchdog /\ bus = "live" /\ ~dipped /\ at # "send" /\ confirmed[m] # None
      BY <1>0, <2>1, NoneFacts DEF Told, FrameSent, PlaceOK, SendFrame, Frames, Waits
    <3>2. power /\ motor[m].limit = Watchdog
      BY <3>1 DEF AcksOK
    <3>3. power' = power /\ motor'[m].limit = motor[m].limit
      BY <2>1, LimitStep DEF Told, SendFrame, SendSetting, PowerOff, executor, Frames
    <3> QED BY <2>1, <3>2, <3>3 DEF Told
  <2>2. CASE Kept(m)
    <3>1. /\ motor[m].speed = "move" /\ power
          /\ m \notin missed => motor[m].limit = Watchdog
      BY <2>2 DEF Kept, GuardOK
    <3>2. power'
      BY <2>2, <3>1, BusFrame DEF Kept, Hardware, Unplug, Plug, PowerOn, Open, SendFrame, hardware
    <3>3. ASSUME SendSetting, m \notin missed PROVE motor'[m].limit = Watchdog
      <4>1. PICK heard \in SUBSET Reached :
               motor' = [n \in Motors |->
                           IF n \in heard THEN [motor[n] EXCEPT !.limit = asking] ELSE motor[n]]
        BY <3>3 DEF SendSetting
      <4>2. m \in heard => asking = Watchdog
        BY <1>0, <2>2, <3>3 DEF GuardOK, Reached, Kept
      <4> QED BY <1>0, <3>1, <3>3, <4>1, <4>2 DEF MotorState
    <3> QED BY <2>2, <3>1, <3>2, <3>3, LimitStep, MissedGrows DEF Kept
  <2> QED BY <1>1, <2>1, <2>2, GuardFrame
<1>2. ASSUME bus' = "live", at' = "clear" \/ asking' = 0,
             NEW m \in Motors, m \notin missed', motor'[m].guarded
      PROVE  FALSE
  <2>1. CASE Told(m)
    <3>1. asking = Watchdog /\ asking' = asking /\ at \in Frames /\ at' # "clear"
      BY <1>0, <2>1 DEF Told, FrameSent, PlaceOK, SendFrame, Frames, Waits, After
    <3> QED BY <1>0, <1>2, <3>1
  <2>2. CASE Kept(m)
    <3>1. motor[m].guarded /\ power /\ m \notin missed
      BY <1>2, <2>2, MissedGrows DEF Kept, GuardOK
    <3>2. ~(bus = "live" /\ (at = "clear" \/ asking = 0))
      BY <3>1 DEF GuardOK
    <3>3. CASE StopFrames
      <4>1. bus = "live"
        BY <1>2, <3>3 DEF StopFrames, can
      <4>2. m \in Reached
        BY <3>1, <4>1 DEF Reached
      <4>3. motor'[m] = Obey(motor[m], Zero, FALSE)
        BY <1>2, <3>3, <4>2 DEF StopFrames
      <4> QED BY <1>0, <1>2, <4>3 DEF Obey, MotorState
    <3>4. CASE Open \/ SendFrame
      <4>1. at' # "clear"
        BY <3>4, SendFrameSplit DEF Open, Configure, FrameSent, FrameLost, BusReopened, BusGone, After, TypeOK, Frames
      <4>2. asking' = 0 => asking = 0 /\ bus' = bus
        <5>1. SendFrame => asking = Watchdog
          BY <1>0 DEF SendFrame, PlaceOK, Frames, Waits
        <5> QED BY <1>0, <3>4, <5>1, SendFrameSplit DEF Open, Configure, FrameSent, FrameLost,
              BusReopened, BusGone, TypeOK
      <4> QED BY <1>2, <3>2, <4>1, <4>2
    <3>5. bus' = "live" => bus = "live" \/ Open \/ SendFrame
      BY BusFrame DEF Hardware, Unplug, Plug, PowerOn, PowerOff, can
    <3>6. at' = "clear" => at = "clear" \/ StopFrames
      <4>1. back # "clear"
        BY DEF TypeOK, Frames
      <4> QED BY <3>4, <4>1, PlaceFrame, SendFrameSplit DEF Open, Ready, SendSetting, Waited, Decide,
            ClearWatchdog, BeginShutdown, Configure, StopFirst, FrameSent, FrameLost, BusReopened,
            BusGone, After, TypeOK, Frames
    <3>7. asking' = 0 => asking = 0 \/ at = "clear" \/ Open \/ SendFrame
      BY PlaceFrame DEF Ready, SendSetting, Waited, Decide, StopFrames, ClearWatchdog, BeginShutdown,
        StopFirst
    <3> QED BY <1>2, <3>2, <3>3, <3>4, <3>5, <3>6, <3>7
  <2> QED BY <1>2, <2>1, <2>2, GuardFrame
<1> QED BY <1>1, <1>2 DEF GuardOK

-----------------------------------------------------------------------------
(* How old the commands are *)

\* What an action does to the age of the last attempt to reopen the bus
LEMMA RetryStep ==
  ASSUME TypeOK, TimersOK, [Next]_vars
  PROVE  \/ UNCHANGED <<age>>
         \/ age'.retry = age.retry /\ ~Clock
         \/ age'.retry = 0 /\ SendFrame /\ (BusReopened \/ BusGone)
         \/ Clock /\ age'.retry = Upto(age.retry, Cooldown)
<1>0. age \in Ages
  BY DEF TypeOK
<1>1. CASE Ready \/ SendSetting \/ Waited
  BY <1>0, <1>1 DEF Ready, SendSetting, Waited, Ages, Clock
<1>2. CASE SendFrame
  BY <1>0, <1>2, SendFrameSplit DEF FrameSent, FrameLost, BusReopened, BusGone, Ages
<1>3. CASE Clock
  BY <1>3 DEF Clock
<1>4. ASSUME NEW t \in Topics, Receive(t) PROVE age'.retry = age.retry /\ ~Clock
  BY <1>0, <1>4 DEF Receive, Ages, Clock, Served
<1> QED BY <1>1, <1>2, <1>3, <1>4, AgeFrame

\* A recent attempt stays recent, one period older at most when the clock ticks.
LEMMA RecentStep ==
  ASSUME TypeOK, TimersOK, [Next]_vars, NEW b \in Nat, b < Cooldown, RecentRetry(b)
  PROVE  /\ ~Clock => RecentRetry(b)'
         /\ Clock => RecentRetry(b + 1)'
         /\ ~(SendFrame /\ BusReopened)
<1>0. age \in Ages /\ age.retry # None /\ age.retry \in Nat /\ age.retry <= b
  BY NoneFacts DEF TypeOK, Ages, RecentRetry
<1>1. ~BusReopened
  BY <1>0, NoneFacts DEF BusReopened
<1>2. age'.retry = Upto(age.retry, Cooldown) => age'.retry \in Nat /\ age'.retry <= b + 1
  BY <1>0, NoneFacts DEF Upto
<1> QED BY <1>0, <1>1, <1>2, RetryStep, NoneFacts DEF RecentRetry

\* The ways from place to place
LEMMA PlaceSteps ==
  ASSUME TypeOK, PlaceOK, [Next]_vars
  PROVE  /\ ~closing' => ~closing
         /\ Starting' => Starting
         /\ Starting /\ ~Starting' => Ready
         /\ at' = "send" =>
              (at = "send" /\ UNCHANGED age) \/ Open \/ (SendFrame /\ BusReopened) \/ ClearWatchdog
         /\ at' = "wait" => (at = "wait" /\ (UNCHANGED age \/ Clock)) \/ SendSetting
         /\ at' \notin Waits /\ at \in Waits => Waited
<1> USE DEF Starting, Waits
<1>0. back \in Frames \cup {"ready", "idle", "stop again"} /\ (at \notin Waits => back = "idle")
  BY DEF TypeOK, PlaceOK
<1>1. CASE Open \/ Ready \/ SendSetting \/ Waited
  <2>1. CASE Open
    BY <1>0, <2>1 DEF Open, Configure, Frames
  <2>2. CASE Ready
    BY <1>0, <2>2 DEF Ready, Frames
  <2>3. CASE SendSetting
    BY <1>0, <2>3 DEF SendSetting, Frames
  <2>4. CASE Waited
    BY <1>0, <2>4 DEF Waited, Frames
  <2> QED BY <1>1, <2>1, <2>2, <2>3, <2>4
<1>2. CASE SendFrame
  <2>1. /\ at \in Frames /\ UNCHANGED closing
        /\ FrameSent \/ FrameLost \/ BusReopened \/ BusGone
    BY <1>2, SendFrameSplit DEF TypeOK
  <2>2. After(at) \subseteq Frames \cup {"idle"}
    BY <2>1 DEF After, Frames
  <2>3. CASE BusReopened
    BY <1>0, <1>2, <2>1, <2>2, <2>3 DEF BusReopened, Frames
  <2>4. CASE FrameSent \/ FrameLost \/ BusGone
    BY <1>0, <1>2, <2>1, <2>2, <2>4 DEF FrameSent, FrameLost, BusGone, Frames
  <2> QED BY <2>1, <2>3, <2>4
<1>3. CASE Decide \/ StopFrames \/ ClearWatchdog \/ BeginShutdown
  <2>1. CASE Decide
    BY <1>0, <2>1 DEF Decide
  <2>2. CASE StopFrames
    BY <1>0, <2>2 DEF StopFrames
  <2>3. CASE ClearWatchdog
    BY <1>0, <2>3 DEF ClearWatchdog, Configure
  <2>4. CASE BeginShutdown
    BY <1>0, <2>4 DEF BeginShutdown, StopFirst, MarkClosing
  <2> QED BY <1>3, <2>1, <2>2, <2>3, <2>4
<1>4. CASE UNCHANGED <<at, back, closing>> /\ (UNCHANGED age \/ Clock \/ \E t \in Topics : Receive(t))
  BY <1>4 DEF Clock, Receive
<1> QED BY <1>1, <1>2, <1>3, <1>4, PlaceFrame, AgeFrame

LEMMA NobodyServedStep ==
  ASSUME TypeOK, PlaceOK, NobodyServed, [Next]_vars PROVE NobodyServed'
<1>0. /\ inbox \in [Topics -> Order \cup {Nothing}] /\ held \in [Topics -> Order]
      /\ "safety" \in Topics /\ Nothing.speed # "move" /\ Zero.speed # "move" /\ Zero \in Order
  BY DEF TypeOK, Topics, Nothing, Zero, Order
<1>1. Starting' => Starting
  BY PlaceSteps
<1>2. CASE Clock
  <2>1. \A o \in Order \cup {Nothing} : Older(o).speed = o.speed
    <3>1. ASSUME NEW o \in Order PROVE Older(o).speed = o.speed
      BY OlderFacts
    <3>2. Older(Nothing) = Nothing
      BY <1>0, OlderFacts
    <3> QED BY <3>1, <3>2
  <2>2. Older(Nothing) = Nothing /\ Older(Zero) = Zero
    BY <1>0, OlderFacts
  <2> QED BY <1>0, <1>1, <1>2, <2>1, <2>2 DEF Clock, NobodyServed
<1>3. ASSUME NEW t \in Topics, Receive(t) PROVE NobodyServed'
  BY <1>0, <1>1, <1>3 DEF Receive, NobodyServed
<1>4. ASSUME NEW t \in Topics, NEW o \in Sent(t), Publish(t, o) PROVE NobodyServed'
  <2>1. ~Starting
    BY <1>4 DEF Publish, Subscribed, Starting
  <2>2. t = "safety" => o = Zero
    BY DEF Sent
  <2> QED BY <1>0, <1>1, <1>4, <2>1, <2>2 DEF Publish, NobodyServed
<1>5. CASE UNCHANGED <<inbox, held>>
  BY <1>1, <1>5 DEF NobodyServed
<1>6. CASE BeginShutdown
  BY <1>0, <1>1, <1>6 DEF BeginShutdown, NobodyServed
<1> QED BY <1>2, <1>3, <1>4, <1>5, <1>6, QueueFrame DEF Decide, SendFrame

LEMMA WaitStep ==
  ASSUME TypeOK, TimersOK, PlaceOK, WaitOK, [Next]_vars PROVE WaitOK'
<1> SUFFICES ASSUME ~closing', ~Starting'
             PROVE  /\ at' = "wait" => age'.retry = age'.poll
                    /\ at' = "send" => age'.retry = 0
  BY DEF WaitOK
<1>0. ~closing /\ age \in Ages
  BY PlaceSteps DEF TypeOK
<1>1. ASSUME at' = "wait" PROVE age'.retry = age'.poll
  <2>1. ~Starting
    BY <1>1, PlaceSteps DEF Ready
  <2>2. CASE SendSetting
    BY <1>0, <2>1, <2>2 DEF SendSetting, WaitOK, Ages
  <2>3. CASE at = "wait" /\ Clock
    <3>1. /\ age'.retry = Upto(age.retry, Cooldown) /\ age'.poll = age.poll + 1
          /\ age.retry = age.poll /\ age.poll < PollTimeout /\ age.poll \in Nat
      BY <1>0, <2>1, <2>3 DEF Clock, WaitOK, Ages
    <3> QED BY <3>1, NoneFacts DEF Upto
  <2>4. CASE at = "wait" /\ UNCHANGED age
    BY <1>0, <2>1, <2>4 DEF WaitOK
  <2> QED BY <1>1, <2>2, <2>3, <2>4, PlaceSteps
<1>2. ASSUME at' = "send" PROVE age'.retry = 0
  <2>1. CASE SendFrame /\ BusReopened
    BY <1>0, <2>1 DEF BusReopened, Ages
  <2>2. CASE at = "send" /\ UNCHANGED age
    <3>1. ~Starting
      BY <2>2, PlaceSteps DEF Ready
    <3> QED BY <1>0, <2>2, <3>1 DEF WaitOK
  <2>3. ~Open \/ at' # "send"
    BY DEF Open, Configure, Starting, Waits
  <2>4. ~ClearWatchdog
    BY <1>0 DEF ClearWatchdog, PlaceOK, Closes
  <2> QED BY <1>2, <2>1, <2>2, <2>3, <2>4, PlaceSteps
<1> QED BY <1>1, <1>2

\* What an action does to the message that waits on /cmd_vel, if it is one to move
LEMMA InboxStep ==
  ASSUME TypeOK, [Next]_vars, inbox'["cmd"].speed = "move"
  PROVE  \/ /\ inbox'["cmd"].born = 0 /\ UNCHANGED <<at, age>> /\ at \in {"idle", "wait"}
         \/ /\ inbox["cmd"].speed = "move" /\ inbox'["cmd"].born <= inbox["cmd"].born + 1
            /\ Clock /\ at \in {"wait", "closed"} /\ UNCHANGED at
         \/ inbox'["cmd"] = inbox["cmd"] /\ ~Clock
<1>0. inbox \in [Topics -> Order \cup {Nothing}] /\ "cmd" \in Topics /\ Nothing.speed # "move"
  BY DEF TypeOK, Topics, Nothing
<1>1. CASE Clock
  <2>1. inbox'["cmd"] = Older(inbox["cmd"])
    BY <1>0, <1>1 DEF Clock
  <2>2. inbox["cmd"] \in Order
    <3>1. Zero \in Order
      BY DEF Order
    <3>2. Older(Nothing) = Nothing
      BY <3>1, OlderFacts
    <3> QED BY <1>0, <2>1, <3>2
  <2>3. /\ inbox["cmd"].speed = "move" /\ inbox'["cmd"].born <= inbox["cmd"].born + 1
    BY <2>1, <2>2, OlderFacts
  <2>4. at # "idle"
    BY <1>0, <1>1, <2>3 DEF Clock, Served
  <2> QED BY <1>1, <2>3, <2>4 DEF Clock
<1>2. ASSUME NEW t \in Topics, Receive(t) PROVE inbox'["cmd"] = inbox["cmd"]
  BY <1>0, <1>2 DEF Receive
<1>3. ASSUME NEW t \in Topics, NEW o \in Sent(t), Publish(t, o)
      PROVE  \/ inbox'["cmd"] = inbox["cmd"]
             \/ /\ inbox'["cmd"].born = 0 /\ UNCHANGED <<at, age>> /\ at \in {"idle", "wait"}
  <2>1. o.born = 0
    BY DEF Sent, Zero
  <2> QED BY <1>0, <1>3, <2>1 DEF Publish, executor
<1>4. ~BeginShutdown
  BY <1>0 DEF BeginShutdown
<1> QED BY <1>1, <1>2, <1>3, <1>4, QueueFrame DEF Decide, SendFrame

LEMMA QueueOKStep ==
  ASSUME TypeOK, TimersOK, PlaceOK, NobodyServed, WaitOK, QueueOK, [Next]_vars PROVE QueueOK'
<1> SUFFICES ASSUME ~closing', inbox'["cmd"].speed = "move"
             PROVE  /\ at' = "send" => inbox'["cmd"].born = 0
                    /\ at' = "wait" => inbox'["cmd"].born <= age'.poll
                    /\ at' \notin Waits =>
                         \/ inbox'["cmd"].born = 0
                         \/ inbox'["cmd"].born <= PollTimeout /\ RecentRetry(PollTimeout)'
  BY DEF QueueOK
<1>0. ~closing /\ age \in Ages /\ TimersOK'
  BY PlaceSteps, AgeStep DEF TypeOK
<1>1. CASE inbox'["cmd"].born = 0 /\ UNCHANGED <<at, age>> /\ at \in {"idle", "wait"}
  BY <1>0, <1>1, NoneFacts DEF Waits, Ages
<1>2. CASE /\ inbox["cmd"].speed = "move" /\ inbox'["cmd"].born <= inbox["cmd"].born + 1
           /\ Clock /\ at \in {"wait", "closed"} /\ UNCHANGED at
  <2>1. at = "wait"
    BY <1>0, <1>2 DEF PlaceOK, Closes
  <2>2. age'.poll = age.poll + 1 /\ inbox["cmd"].born <= age.poll
    BY <1>0, <1>2, <2>1 DEF Clock, QueueOK
  <2>3. inbox["cmd"].born \in Nat /\ inbox'["cmd"].born \in Nat /\ age.poll \in Nat
    <3>1. inbox'["cmd"] \in Order \cup {Nothing} /\ inbox["cmd"] \in Order \cup {Nothing}
      BY QueueStep DEF QueueType, TypeOK, Topics
    <3> QED BY <1>0, <3>1, NoneFacts DEF Order, Zero, Nothing, Ages
  <2> QED BY <1>2, <2>1, <2>2, <2>3 DEF Waits
<1>3. CASE inbox'["cmd"] = inbox["cmd"] /\ ~Clock
  <2> DEFINE b == inbox["cmd"].born
  <2>1. inbox["cmd"].speed = "move" /\ b \in Nat
    <3>1. inbox["cmd"] \in Order \cup {Nothing}
      BY DEF TypeOK, Topics
    <3> QED BY <1>3, <3>1, NoneFacts DEF Order, Zero, Nothing
  <2>2. ~Starting
    BY <2>1 DEF NobodyServed, Topics, Nothing
  <2>3. at \notin Waits => b = 0 \/ (b <= PollTimeout /\ RecentRetry(PollTimeout))
    BY <1>0, <2>1 DEF QueueOK
  <2>4. at' = "send" => b = 0
    <3>1. CASE at = "send"
      BY <1>0, <2>1, <3>1 DEF QueueOK
    <3>2. CASE Open \/ ClearWatchdog
      BY <1>0, <2>2, <3>2 DEF Open, ClearWatchdog, Starting, PlaceOK, Closes
    <3>3. CASE SendFrame /\ BusReopened
      <4>1. ~RecentRetry(PollTimeout)
        BY <3>3, RecentStep, NoneFacts
      <4> QED BY <2>3, <3>3, <4>1 DEF SendFrame, Frames, Waits
    <3> QED BY <3>1, <3>2, <3>3, PlaceSteps
  <2>5. at' = "wait" => b <= age'.poll
    <3>1. CASE SendSetting
      <4>1. b = 0
        BY <1>0, <2>1, <3>1 DEF QueueOK, SendSetting
      <4>2. age'.poll = 0
        BY <1>0, <3>1 DEF SendSetting, Ages
      <4> QED BY <4>1, <4>2
    <3>2. CASE at = "wait" /\ UNCHANGED age
      BY <1>0, <2>1, <3>2 DEF QueueOK
    <3> QED BY <1>3, <3>1, <3>2, PlaceSteps
  <2>6. ASSUME at' \notin Waits PROVE b = 0 \/ (b <= PollTimeout /\ RecentRetry(PollTimeout)')
    <3>1. CASE Waited
      <4>1. age'.retry = age.retry /\ at = "wait" /\ b <= age.poll /\ age.retry = age.poll
        BY <1>0, <2>1, <2>2, <3>1 DEF Waited, QueueOK, WaitOK, Ages
      <4>2. age.poll \in Nat /\ age.poll <= PollTimeout
        BY NoneFacts DEF TimersOK
      <4> QED BY <2>1, <4>1, <4>2, NoneFacts DEF RecentRetry
    <3>2. CASE at \notin Waits
      BY <1>3, <2>3, <3>2, RecentStep, NoneFacts
    <3> QED BY <2>6, <3>1, <3>2, PlaceSteps
  <2> QED BY <1>3, <2>4, <2>5, <2>6
<1> QED BY <1>1, <1>2, <1>3, InboxStep

LEMMA HeldFrame ==
  ASSUME TypeOK, [Next]_vars
  PROVE  \/ held'["cmd"] = held["cmd"] /\ age'.cmd = age.cmd /\ ~Clock
         \/ Ready \/ Receive("cmd") \/ Clock \/ closing'
<1>0. age \in Ages /\ held \in [Topics -> Order]
  BY DEF TypeOK
<1>1. ASSUME NEW t \in Topics, Receive(t), t # "cmd"
      PROVE  held'["cmd"] = held["cmd"] /\ age'.cmd = age.cmd
  BY <1>0, <1>1 DEF Receive, Topics, Ages
<1>2. CASE UNCHANGED age \/ SendSetting \/ Waited \/ SendFrame
  <2>1. age'.cmd = age.cmd
    BY <1>0, <1>2, SendFrameSplit DEF SendSetting, Waited, FrameSent, FrameLost, BusReopened, BusGone, Ages
  <2> QED BY <2>1, <1>1, QueueFrame DEF Decide, SendFrame, Publish, BeginShutdown, MarkClosing
<1> QED BY <1>1, <1>2, AgeFrame

LEMMA HeldOKStep ==
  ASSUME TypeOK, TimersOK, PlaceOK, NobodyServed, QueueOK, HeldOK, [Next]_vars PROVE HeldOK'
<1> SUFFICES ASSUME ~closing', held'["cmd"].speed = "move", age'.cmd <= CmdTimeout
             PROVE  \/ held'["cmd"].born <= age'.cmd
                    \/ /\ held'["cmd"].born <= PollTimeout + age'.cmd
                       /\ RecentRetry(PollTimeout + age.cmd)'
  BY DEF HeldOK
<1>0. ~closing /\ age \in Ages /\ age.cmd \in Nat /\ held \in [Topics -> Order] /\ "cmd" \in Topics
  BY PlaceSteps DEF TypeOK, Ages, Topics
<1>1. CASE held'["cmd"] = held["cmd"] /\ age'.cmd = age.cmd /\ ~Clock
  <2>1. PICK b \in Nat : b = PollTimeout + age.cmd
    BY <1>0, NoneFacts
  <2>2. RecentRetry(b) => RecentRetry(b)'
    BY <1>0, <1>1, <2>1, RecentStep, NoneFacts
  <2>3. RecentRetry(PollTimeout + age.cmd) => RecentRetry(PollTimeout + age.cmd)'
    BY <1>1, <2>1, <2>2 DEF RecentRetry
  <2> QED BY <1>0, <1>1, <2>3 DEF HeldOK
<1>2. CASE Ready
  BY <1>0, <1>2 DEF Ready, NobodyServed, Starting, Zero
<1>3. CASE Receive("cmd")
  <2>1. held'["cmd"] = inbox["cmd"] /\ at = "idle" /\ age'.cmd = 0
    BY <1>0, <1>3 DEF Receive, Ages
  <2>2. inbox["cmd"].born = 0 \/ (inbox["cmd"].born <= PollTimeout /\ RecentRetry(PollTimeout))
    BY <1>0, <2>1 DEF QueueOK, Waits
  <2>3. RecentRetry(PollTimeout) => RecentRetry(PollTimeout)'
    <3>1. ~Clock
      BY <1>0, <1>3 DEF Clock, Receive, Served
    <3> QED BY <3>1, RecentStep, NoneFacts
  <2> QED BY <2>1, <2>2, <2>3, NoneFacts DEF RecentRetry
<1>4. CASE Clock
  <2>1. held'["cmd"] = Older(held["cmd"]) /\ age'.cmd = Upto(age.cmd, CmdTimeout + 1)
    BY <1>0, <1>4 DEF Clock
  <2>2. age.cmd < CmdTimeout /\ age'.cmd = age.cmd + 1
    BY <1>0, <2>1, NoneFacts DEF Upto
  <2>3. /\ held["cmd"].speed = "move" /\ held'["cmd"].born <= held["cmd"].born + 1
        /\ held["cmd"].born \in Nat /\ held'["cmd"].born \in Nat
    <3>1. held["cmd"] \in Order /\ held'["cmd"] \in Order
      BY <1>0, <2>1, OlderOrder
    <3>2. held'["cmd"].born \in Nat
      BY <3>1, NoneFacts DEF Order, Zero
    <3> QED BY <2>1, <3>1, <3>2, OlderFacts
  <2>4. \/ held["cmd"].born <= age.cmd
        \/ held["cmd"].born <= PollTimeout + age.cmd /\ RecentRetry(PollTimeout + age.cmd)
    BY <1>0, <2>2, <2>3, NoneFacts DEF HeldOK
  <2>5. PICK b \in Nat : b = PollTimeout + age.cmd
    BY <1>0, NoneFacts
  <2>6. RecentRetry(b) => RecentRetry(b + 1)'
    BY <1>0, <1>4, <2>2, <2>5, RecentStep, NoneFacts
  <2>7. RecentRetry(PollTimeout + age.cmd) => RecentRetry(PollTimeout + age.cmd)'
    <3>1. b + 1 = PollTimeout + age'.cmd
      BY <1>0, <2>2, <2>5, NoneFacts
    <3> QED BY <2>5, <2>6, <3>1 DEF RecentRetry
  <2> QED BY <1>0, <2>2, <2>3, <2>4, <2>7, NoneFacts
<1> QED BY <1>1, <1>2, <1>3, <1>4, HeldFrame

LEMMA OrderOKStep ==
  ASSUME TypeOK, TimersOK, PlaceOK, NobodyServed, WaitOK, HeldOK, OrderOK, [Next]_vars
  PROVE  OrderOK'
<1> SUFFICES ASSUME ~closing', order'.speed = "move"
             PROVE  /\ at' = "send" => order'.born <= CmdTimeout
                    /\ at' = "wait" => order'.born <= CmdTimeout + age'.poll
                    /\ at' \notin Waits =>
                         \/ order'.born <= CmdTimeout
                         \/ /\ order'.born <= PollTimeout + CmdTimeout
                            /\ RecentRetry(PollTimeout + CmdTimeout)'
  BY DEF OrderOK
<1>0. /\ ~closing /\ age \in Ages /\ TimersOK' /\ order \in Order /\ held \in [Topics -> Order]
      /\ PollTimeout + CmdTimeout \in Nat /\ PollTimeout + CmdTimeout < Cooldown
      /\ Zero.speed # "move"
  <2>1. ~closing /\ TimersOK'
    BY PlaceSteps, AgeStep
  <2>2. age \in Ages /\ order \in Order /\ held \in [Topics -> Order]
    BY DEF TypeOK
  <2>3. Zero.speed # "move"
    BY DEF Zero
  <2> QED BY <2>1, <2>2, <2>3, NoneFacts
<1>1. CASE Decide
  <2>1. order' = held["cmd"] /\ age.cmd <= CmdTimeout
    BY <1>0, <1>1 DEF Decide, CmdFresh, NobodyServed
  <2>2. UNCHANGED age /\ at' = "left"
    BY <1>1 DEF Decide
  <2>3. held["cmd"].born \in Nat /\ age.cmd \in Nat
    <3>1. held["cmd"] \in Order
      BY <1>0 DEF Topics
    <3> QED BY <1>0, <3>1, NoneFacts DEF Order, Zero, Ages
  <2>4. \/ held["cmd"].born <= age.cmd
        \/ held["cmd"].born <= PollTimeout + age.cmd /\ RecentRetry(PollTimeout + age.cmd)
    BY <1>0, <2>1 DEF HeldOK
  <2>5. RecentRetry(PollTimeout + age.cmd) => RecentRetry(PollTimeout + CmdTimeout)'
    BY <1>0, <2>1, <2>2, <2>3, NoneFacts DEF RecentRetry, Ages
  <2> QED BY <2>1, <2>2, <2>3, <2>4, <2>5, NoneFacts DEF Waits
<1>2. CASE Clock
  <2>1. order' = Older(order) /\ at' = at
    BY <1>2 DEF Clock
  <2>2. /\ order.speed = "move" /\ order'.born <= order.born + 1
        /\ order.born \in Nat /\ order'.born \in Nat
    <3>1. order' \in Order
      BY <1>0, <2>1, OlderOrder
    <3>2. order'.born \in Nat
      BY <3>1, NoneFacts DEF Order, Zero
    <3> QED BY <1>0, <2>1, <3>2, OlderFacts
  <2>3. at = "wait"
    BY <1>0, <1>2, <2>2 DEF Clock, PlaceOK, Closes
  <2>4. age'.poll = age.poll + 1 /\ age.poll \in Nat /\ order.born <= CmdTimeout + age.poll
    BY <1>0, <1>2, <2>2, <2>3 DEF Clock, OrderOK, Ages
  <2> QED BY <2>1, <2>2, <2>3, <2>4, NoneFacts DEF Waits
<1>3. CASE order' = order /\ ~Clock
  <2> DEFINE b == order.born
  <2>1. order.speed = "move" /\ b \in Nat /\ at # "open" /\ ~(at \in Waits /\ back = "ready")
    <3>1. b \in Nat
      BY <1>0, NoneFacts DEF Order, Zero
    <3> QED BY <1>0, <1>3, <3>1 DEF PlaceOK
  <2>3. at \notin Waits => \/ b <= CmdTimeout
                           \/ b <= PollTimeout + CmdTimeout /\ RecentRetry(PollTimeout + CmdTimeout)
    BY <1>0, <2>1 DEF OrderOK
  <2>4. at' = "send" => b <= CmdTimeout
    <3>1. CASE at = "send"
      BY <1>0, <2>1, <3>1 DEF OrderOK
    <3>2. CASE Open \/ ClearWatchdog
      BY <1>0, <2>1, <3>2 DEF Open, ClearWatchdog, PlaceOK, Closes
    <3>3. CASE SendFrame /\ BusReopened
      <4>1. ~RecentRetry(PollTimeout + CmdTimeout)
        BY <1>0, <3>3, RecentStep
      <4> QED BY <2>3, <3>3, <4>1 DEF SendFrame, Frames, Waits
    <3> QED BY <3>1, <3>2, <3>3, PlaceSteps
  <2>5. at' = "wait" => b <= CmdTimeout + age'.poll
    <3>1. CASE SendSetting
      <4>1. b <= CmdTimeout
        BY <1>0, <2>1, <3>1 DEF OrderOK, SendSetting
      <4>2. age'.poll = 0
        BY <1>0, <3>1 DEF SendSetting, Ages
      <4> QED BY <4>1, <4>2, NoneFacts
    <3>2. CASE at = "wait" /\ UNCHANGED age
      BY <1>0, <2>1, <3>2 DEF OrderOK
    <3> QED BY <1>3, <3>1, <3>2, PlaceSteps
  <2>6. ASSUME at' \notin Waits
        PROVE  \/ b <= CmdTimeout
               \/ b <= PollTimeout + CmdTimeout /\ RecentRetry(PollTimeout + CmdTimeout)'
    <3>1. CASE Waited
      <4>1. at = "wait" /\ ~Starting
        BY <2>1, <3>1 DEF Waited, Starting, Waits
      <4>2. age'.retry = age.retry /\ b <= CmdTimeout + age.poll /\ age.retry = age.poll
        BY <1>0, <2>1, <3>1, <4>1 DEF Waited, OrderOK, WaitOK, Ages
      <4>3. age.poll \in Nat /\ age.poll <= PollTimeout
        BY NoneFacts DEF TimersOK
      <4> QED BY <2>1, <4>2, <4>3, NoneFacts DEF RecentRetry
    <3>2. CASE at \notin Waits
      BY <1>0, <1>3, <2>3, <3>2, RecentStep
    <3> QED BY <2>6, <3>1, <3>2, PlaceSteps
  <2> QED BY <1>3, <2>4, <2>5, <2>6
<1>4. order' = order \/ order' = Zero \/ Decide \/ Clock
  <2>1. CASE SendFrame
    BY <2>1 DEF SendFrame
  <2> QED BY <2>1, QueueFrame DEF Receive, Publish, BeginShutdown, executor
<1> QED BY <1>0, <1>1, <1>2, <1>3, <1>4

LEMMA MotorOKStep ==
  ASSUME TypeOK, PlaceOK, GuardOK, OrderOK, MotorOK, [Next]_vars PROVE MotorOK'
<1> SUFFICES ASSUME NEW m \in Motors, m \notin missed', motor'[m].guarded
             PROVE  /\ motor'[m].quiet < Watchdog
                    /\ motor'[m].born <= PollTimeout + CmdTimeout + motor'[m].quiet
  BY DEF MotorOK
<1>0. /\ motor[m] \in MotorState /\ order \in Order /\ Watchdog > 0
      /\ motor[m].born \in Nat /\ motor[m].quiet \in Nat
  <2>1. motor[m] \in MotorState /\ order \in Order
    BY DEF TypeOK, MotorState
  <2>2. motor[m].born \in Nat /\ motor[m].quiet \in Nat
    BY <2>1, NoneFacts DEF MotorState
  <2> QED BY <2>1, <2>2, DriverAssumption
<1>1. CASE Told(m)
  <2>1. ~closing /\ at \notin Waits
    BY <1>1 DEF Told, PlaceOK, Closes, Waits, SendFrame, Frames
  <2>2. order.born <= PollTimeout + CmdTimeout
    <3>1. order.born \in Nat
      BY <1>0, NoneFacts DEF Order, Zero
    <3> QED BY <1>1, <2>1, <3>1, NoneFacts DEF Told, OrderOK
  <2> QED BY <1>0, <1>1, <2>2, NoneFacts DEF Told
<1>2. CASE Kept(m)
  <2>1. /\ motor[m].quiet < Watchdog /\ motor[m].born <= PollTimeout + CmdTimeout + motor[m].quiet
        /\ motor[m].speed = "move" /\ motor[m].limit = Watchdog
    BY <1>2, MissedGrows DEF Kept, MotorOK, GuardOK
  <2>2. CASE Clock /\ motor'[m] = Wait(motor[m])
    <3>1. /\ motor[m].quiet + 1 < Watchdog /\ motor'[m].quiet = motor[m].quiet + 1
          /\ motor'[m].born <= motor[m].born + 1
      BY <1>0, <2>1, <2>2, WaitFacts
    <3>2. motor'[m].born \in Nat
      <4>1. motor'[m] \in MotorState
        BY MotorStep
      <4> QED BY <4>1, NoneFacts DEF MotorState
    <3> QED BY <1>0, <2>1, <3>1, <3>2, NoneFacts
  <2> QED BY <1>2, <2>1, <2>2 DEF Kept
<1> QED BY <1>1, <1>2, GuardFrame

-----------------------------------------------------------------------------
(* The invariant *)

LEMMA InitInductive == Init => Inductive
<1> SUFFICES ASSUME Init PROVE Inductive
  OBVIOUS
<1>1. TypeOK
  <2>1. Zero \in Order
    BY DEF Order
  <2>2. age \in Ages
    BY NoneFacts DEF Init, Ages
  <2>3. motor \in [Motors -> MotorState]
    <3>1. Rest \in MotorState
      BY NoneFacts DEF Rest, MotorState, Speeds
    <3> QED BY <3>1 DEF Init
  <2>4. inbox \in [Topics -> Order \cup {Nothing}] /\ held \in [Topics -> Order] /\ order \in Order
    BY <2>1 DEF Init
  <2>5. acks \in [Motors -> Seq({0, Watchdog})] /\ confirmed \in [Motors -> {None, 0, Watchdog}]
    BY SilenceType DEF Init
  <2> QED BY <2>2, <2>3, <2>4, <2>5 DEF Init, TypeOK, MotorState
<1>2. TimersOK /\ PlaceOK
  BY NoneFacts DEF Init, TimersOK, PlaceOK, Waits, Closes
<1>3. AcksOK /\ NobodyServed
  BY DEF Init, AcksOK, NobodyServed, Zero, Nothing, Topics
<1>4. WaitOK /\ QueueOK /\ HeldOK /\ OrderOK
  BY DEF Init, WaitOK, QueueOK, HeldOK, OrderOK, Zero, Nothing, Topics
<1>5. GuardOK /\ MotorOK
  BY DEF Init, GuardOK, MotorOK, Rest
<1> QED BY <1>1, <1>2, <1>3, <1>4, <1>5 DEF Inductive

LEMMA StepInductive == Inductive /\ [Next]_vars => Inductive'
<1> SUFFICES ASSUME Inductive, [Next]_vars PROVE Inductive'
  OBVIOUS
<1> USE DEF Inductive
<1>1. TypeOK' /\ TimersOK'
  BY TypeStep
<1>2. PlaceOK' /\ AcksOK' /\ GuardOK'
  BY PlaceStep, AcksOKStep, GuardStep
<1>3. NobodyServed' /\ WaitOK' /\ QueueOK'
  BY NobodyServedStep, WaitStep, QueueOKStep
<1>4. HeldOK' /\ OrderOK' /\ MotorOK'
  BY HeldOKStep, OrderOKStep, MotorOKStep
<1> QED BY <1>1, <1>2, <1>3, <1>4

LEMMA Invariance == Spec => []Inductive
  BY InitInductive, StepInductive, PTL DEF Spec

\* A wheel told to move under a confirmed watchdog keeps that watchdog, whatever frames
\* fail and whatever is unplugged, reconnected or shut down.  Not so a wheel that is
\* reset with the bus up, which is `dipped` and no longer guarded in what follows, nor
\* one in `missed`, which did not hear the stop of the shutdown.
THEOREM WatchdogStays == Spec => []NoRunaway
<1>1. Inductive => NoRunaway
  BY DEF Inductive, GuardOK, NoRunaway
<1> QED BY <1>1, Invariance, PTL

\* A wheel told to move under a confirmed watchdog obeys no command older than one wait
\* for acknowledgements, the timeout of the command and the watchdog together; with
\* the two exceptions of WatchdogStays.
THEOREM NoOldMotion == Spec => []MotionIsRecent
<1>1. Inductive => MotionIsRecent
  <2> SUFFICES ASSUME Inductive, NEW m \in Motors \ missed, motor[m].guarded
               PROVE  motor[m].born <= MaxAge
    BY DEF MotionIsRecent
  <2>1. /\ motor[m].quiet < Watchdog /\ motor[m].born <= PollTimeout + CmdTimeout + motor[m].quiet
    BY DEF Inductive, MotorOK
  <2>2. motor[m].quiet \in Nat /\ motor[m].born \in Nat
    <3>1. motor[m] \in MotorState
      BY DEF Inductive, TypeOK, MotorState
    <3> QED BY <3>1, NoneFacts DEF MotorState
  <2> QED BY <2>1, <2>2, NoneFacts
<1> QED BY <1>1, Invariance, PTL
=============================================================================
