------------------------------ MODULE WheelDriver ------------------------------
(***************************************************************************)
(* rmd_x8_driver_node: turns /cmd_vel and /cmd_vel_safety into speed frames *)
(* for the two wheel motors on a CAN bus, reopens the bus when it fails,   *)
(* and arms the motors' own watchdog.                                      *)
(*                                                                         *)
(* Two threads: the executor, which runs the control loop, the callbacks   *)
(* and the shutdown one after the other, and which blocks while it waits   *)
(* for acknowledgements; and the CAN thread, which delivers them.  `at` is *)
(* where the executor is.  One unit of time is a period of the 50 Hz loop. *)
(* The motors and the adapter are external: what the protocol module and   *)
(* the comments of the driver say of them.                                 *)
(***************************************************************************)
EXTENDS Integers, Sequences

CONSTANTS CmdTimeout,      \* cmd_vel_timeout_s
          SafetyTimeout,   \* cmd_vel_safety_timeout_s
          Watchdog,        \* comm_timeout_protection_ms
          PollTimeout,     \* how long an acknowledgement is waited for
          Cooldown,        \* reconnect_cooldown_sec
          ReconnectAfter   \* reconnect_after_failures

Motors == {"left", "right"}
Topics == {"cmd", "safety"}
Speeds == {"zero", "move"}
None == -1
Silence == [m \in Motors |-> <<>>]
Nothing == [speed |-> "nothing", born |-> 0]

ASSUME DriverAssumption ==
  /\ {CmdTimeout, SafetyTimeout, Watchdog, PollTimeout, Cooldown,
      ReconnectAfter} \subseteq Nat
  /\ Watchdog > 0 /\ ReconnectAfter > 0
  /\ PollTimeout + CmdTimeout < Cooldown

\* The longest a wheel may go on after its command was published: queued while
\* the executor waits for acknowledgements, obeyed until it times out, and held
\* by the motor until its watchdog stops it.
MaxAge == PollTimeout + CmdTimeout + Watchdog

VARIABLES
  inbox,      \* queued message of each topic and its age, or Nothing
  held,       \* _desired_v/_w and _safety_v/_w: speed and age since publication
  age,        \* _last_cmd_vel_time, _last_safety_time, _last_reconnect_attempt,
              \* and the time waited for acknowledgements
  at, back,   \* where the executor is, and where it goes on after a wait
  asking,     \* the watchdog setting it waits for
  order,      \* v, w of the running loop
  due,        \* the control timer has fired
  closing,    \* _closing
  bus,        \* self.bus: "none", "live", or "dead" (its adapter is gone)
  failures,   \* _consecutive_send_failures
  confirmed,  \* comm_timeout_confirmed_ms of each channel
  acks,       \* acknowledgements of each motor under way to the CAN thread
  link,       \* external: the adapter is plugged in
  power,      \* external: the motors have power
  dipped,     \* the motors lost power with the bus up since their watchdogs
              \* were last armed; the driver is not told
  missed,     \* motors that did not get a stop frame of the shutdown although
              \* bus and power were up
  motor       \* external: each motor's speed, watchdog, while it moves the age
              \* of its last frame, whether that was sent with the watchdog
              \* confirmed and not lost in a dip (guarded), and then the
              \* age of the command it obeys

executor == <<at, back, asking, order, due, closing>>
can == <<bus, failures, confirmed, acks>>
hardware == <<link, power, dipped, missed, motor>>
vars == <<inbox, held, age, executor, can, hardware>>

\* The age is told of a command to move only.
Zero == [speed |-> "zero", born |-> 0]
Order == [speed : {"move"}, born : 0 .. MaxAge + 1] \cup {Zero}
Ages == [cmd : Nat, safety : Nat \cup {None}, retry : Nat \cup {None}, poll : Nat]
Rest == [speed |-> "zero", limit |-> 0, quiet |-> 0, born |-> 0,
         guarded |-> FALSE]

Init ==
  /\ inbox = [t \in Topics |-> Nothing]
  /\ held = [t \in Topics |-> Zero]
  /\ age = [cmd |-> 0, safety |-> None, retry |-> None, poll |-> 0]
  /\ at = "open" /\ back = "idle" /\ asking = Watchdog
  /\ order = Zero
  /\ due = FALSE /\ closing = FALSE
  /\ bus = "none" /\ failures = 0
  /\ confirmed = [m \in Motors |-> None] /\ acks = Silence
  /\ link \in BOOLEAN
  /\ power \in BOOLEAN /\ dipped = FALSE /\ missed = {}
  /\ motor = [m \in Motors |-> Rest]

-----------------------------------------------------------------------------
(* Opening the bus, and arming or clearing the watchdogs *)

\* Wait for both motors to acknowledge a setting, then go on at label l.
Configure(value, l) ==
  /\ at' = "send" /\ back' = l /\ asking' = value

\* __init__: the first _open_bus ...
Open ==
  /\ at = "open"
  /\ IF link THEN bus' = "live" /\ Configure(Watchdog, "ready")
     ELSE at' = "ready" /\ UNCHANGED <<bus, back, asking>>
  /\ UNCHANGED <<inbox, held, age, order, due, closing, failures, confirmed,
                 acks, hardware>>

\* ... and, once that is done, the subscriptions and the timer.
Ready ==
  /\ at = "ready" /\ at' = "idle"
  /\ age' = [age EXCEPT !.cmd = 0]
  /\ UNCHANGED <<inbox, held, back, asking, order, due, closing, can, hardware>>

Subscribed == at \notin {"open", "ready", "closed"} /\ back # "ready"

\* variant: an attempt that the cooldown refuses starts the cooldown anew
RetryStamped(l) ==
  IF age.retry # None /\ age.retry < Cooldown
  THEN /\ at' = l /\ age' = [age EXCEPT !.retry = 0]
       /\ UNCHANGED <<bus, failures, acks, back, asking>>
  ELSE /\ age' = [age EXCEPT !.retry = 0]
       /\ acks' = Silence
       /\ IF link
          THEN bus' = "live" /\ failures' = 0 /\ Configure(Watchdog, l)
          ELSE bus' = "none" /\ at' = l /\ UNCHANGED <<failures, back, asking>>

\* _attempt_reconnect: unless it was tried a short while ago, close the bus,
\* open it again and arm the watchdogs, which the motors may have lost.
AttemptReconnect(l) ==
  IF age.retry # None /\ age.retry < Cooldown
  THEN at' = l /\ UNCHANGED <<age, bus, failures, acks, back, asking>>
  ELSE /\ age' = [age EXCEPT !.retry = 0]
       /\ acks' = Silence
       /\ IF link
          THEN bus' = "live" /\ failures' = 0 /\ Configure(Watchdog, l)
          ELSE bus' = "none" /\ at' = l /\ UNCHANGED <<failures, back, asking>>

Reached == IF bus = "live" /\ power THEN Motors ELSE {}

NoneConfirmed == [m \in Motors |-> None]

\* _configure_comm_timeout_protection: forget what was acknowledged, send the
\* setting to both motors, of which any may fail ...
SendSetting ==
  /\ at = "send"
  /\ confirmed' = NoneConfirmed
  /\ \E heard \in SUBSET Reached :
     /\ motor' = [m \in Motors |->
                    IF m \in heard THEN [motor[m] EXCEPT !.limit = asking]
                                   ELSE motor[m]]
     /\ acks' = [m \in Motors |-> IF m \in heard THEN Append(acks[m], asking)
                                                ELSE acks[m]]
  /\ dipped' = (dipped /\ asking # Watchdog)
  /\ age' = [age EXCEPT !.poll = 0]
  /\ at' = "wait"
  /\ UNCHANGED <<inbox, held, back, asking, order, due, closing, bus, failures,
                 link, power, missed>>

\* ... and wait until both have acknowledged it, or too long.
Waited ==
  /\ at = "wait"
  /\ age.poll >= PollTimeout \/ \A m \in Motors : confirmed[m] = asking
  /\ at' = back /\ back' = "idle" /\ age' = [age EXCEPT !.poll = 0]
  /\ UNCHANGED <<inbox, held, asking, order, due, closing, can, hardware>>

-----------------------------------------------------------------------------
(* The control loop *)

SafetyFresh == age.safety # None /\ age.safety <= SafetyTimeout

\* variant: the last command is repeated for ever
CmdEver == TRUE
CmdFresh == age.cmd <= CmdTimeout

\* No time passes in a loop: a message published in it, or as old as it, is as good
\* as one published after it, and only those are kept.
Young(o) == o # Nothing /\ o.born = 0

Decide ==
  /\ at = "idle" /\ due /\ ~closing
  /\ \A t \in Topics : ~Young(inbox[t])
  /\ due' = FALSE
  /\ order' = CASE SafetyFresh -> held.safety
                [] ~SafetyFresh /\ CmdFresh -> held.cmd
                [] OTHER -> Zero
  /\ at' = "left"
  /\ UNCHANGED <<inbox, held, age, back, asking, closing, can, hardware>>

\* The frames of a loop, in order; the status frames go out now and then.
After(l) == CASE l = "left"       -> {"right"}
              [] l = "right"      -> {"idle", "status left"}
              [] l = "status left" -> {"status right"}
              [] OTHER            -> {"idle"}
Frames == {"left", "right", "status left", "status right"}

\* A motor m takes the order o, while its watchdog is confirmed or not.
Obey(m, o, sure) ==
  [m EXCEPT !.speed = o.speed, !.quiet = 0,
            !.born = IF sure THEN o.born ELSE 0,
            !.guarded = (sure /\ o.speed = "move")]

\* What the driver may go by: the watchdog was confirmed, and is still on.
Sure == confirmed[at] = Watchdog /\ ~dipped

\* _send_can_message: a frame may fail on any bus; with no bus, or one that has
\* failed too often in a row, it is lost and the bus is reopened.  The count of
\* failures stops below its bound.
SendFrame ==
  /\ at \in Frames
  /\ \E l \in After(at) :
     /\ order' = IF l = "idle" THEN Zero ELSE order
     /\ \/ /\ bus = "live"
           /\ failures' = 0 /\ at' = l
           /\ motor' = IF at \in Reached
                       THEN [motor EXCEPT ![at] = Obey(motor[at], order, Sure)]
                       ELSE motor
           /\ UNCHANGED <<age, bus, acks, back, asking>>
        \/ /\ bus # "none" /\ failures + 1 < ReconnectAfter
           /\ failures' = failures + 1 /\ at' = l
           /\ UNCHANGED <<age, bus, acks, back, asking, motor>>
        \/ /\ bus = "none" \/ failures + 1 >= ReconnectAfter
           /\ AttemptReconnect(l)
           /\ UNCHANGED motor
  /\ UNCHANGED <<inbox, held, due, closing, confirmed, link, power, dipped,
                 missed>>

\* _on_cmd_vel and _on_cmd_vel_safety: the time stored is that of the callback.
Receive(t) ==
  /\ at = "idle" /\ ~closing /\ inbox[t] # Nothing
  /\ held' = [held EXCEPT ![t] = inbox[t]]
  /\ inbox' = [inbox EXCEPT ![t] = Nothing]
  /\ age' = IF t = "cmd" THEN [age EXCEPT !.cmd = 0] ELSE [age EXCEPT !.safety = 0]
  /\ UNCHANGED <<executor, can, hardware>>

-----------------------------------------------------------------------------
(* _prepare_motor_shutdown: stop, clear the watchdogs, stop again. *)

\* variant: the watchdogs are cleared before the wheels are stopped
ClearFirst == at' = "clear" /\ UNCHANGED <<back, asking>>
StopFirst == at' = "stop" /\ UNCHANGED <<back, asking>>

MarkClosing == closing' = TRUE

\* The timer is cancelled, and no message or command is looked at again.
BeginShutdown ==
  /\ at = "idle" /\ ~closing
  /\ MarkClosing
  /\ due' = FALSE
  /\ inbox' = [t \in Topics |-> Nothing] /\ held' = [t \in Topics |-> Zero]
  /\ IF bus = "none" THEN at' = "closed" /\ UNCHANGED <<back, asking>>
     ELSE StopFirst
  /\ UNCHANGED <<age, order, can, hardware>>

\* The two stop frames of each motor, which may both fail.
StopFrames ==
  /\ at \in {"stop", "stop again"}
  /\ \E heard \in SUBSET Reached :
     /\ motor' = [m \in Motors |->
                    IF m \in heard THEN Obey(motor[m], Zero, FALSE) ELSE motor[m]]
     /\ missed' = missed \cup (Reached \ heard)
  /\ at' = IF at = "stop" THEN "clear" ELSE "closed"
  /\ UNCHANGED <<inbox, held, age, back, asking, order, due, closing, can,
                 link, power, dipped>>

ClearWatchdog ==
  /\ at = "clear"
  /\ Configure(0, "stop again")
  /\ UNCHANGED <<inbox, held, age, order, due, closing, can, hardware>>

\* The process is gone; only the motors are left.
Closed == at = "closed" /\ UNCHANGED vars

-----------------------------------------------------------------------------
(* The CAN thread, the publishers, the clock, and the hardware *)

Acknowledge ==
  \E m \in Motors :
    /\ acks[m] # <<>>
    /\ confirmed' = [confirmed EXCEPT ![m] = Head(acks[m])]
    /\ acks' = [acks EXCEPT ![m] = Tail(@)]
    /\ UNCHANGED <<inbox, held, age, executor, bus, failures, hardware>>

\* Every publisher of /cmd_vel_safety in the repository sends a zero Twist.
Sent(t) == IF t = "safety" THEN {Zero} ELSE {Zero, [speed |-> "move", born |-> 0]}

Publish(t, o) ==
  /\ Subscribed /\ ~closing /\ at \in {"idle", "wait"}
  /\ inbox' = [inbox EXCEPT ![t] = o]
  /\ UNCHANGED <<held, age, executor, can, hardware>>

Upto(a, bound) == IF a # None /\ a < bound THEN a + 1 ELSE a
Older(o) == IF o.speed = "move" THEN [o EXCEPT !.born = Upto(@, MaxAge + 1)] ELSE o

\* A motor whose watchdog hears no frame for its limit stops by itself.
Wait(m) ==
  IF m.speed = "move" /\ m.limit > 0 /\ m.quiet + 1 >= m.limit
  THEN [m EXCEPT !.speed = "zero", !.quiet = 0, !.born = 0, !.guarded = FALSE]
  ELSE [m EXCEPT !.born = IF m.guarded THEN Upto(@, MaxAge + 1) ELSE @,
                 !.quiet = IF m.speed = "move" /\ m.limit > 0 THEN @ + 1 ELSE 0]

Served == \A t \in Topics : inbox[t] = Nothing

\* One period passes: the executor is idle with no work left, or waits.
Clock ==
  /\ \/ at = "idle" /\ ~due /\ Served
     \/ (at = "wait" /\ age.poll < PollTimeout) \/ at = "closed"
  /\ due' = (at \in {"idle", "wait"} /\ back # "ready" /\ ~closing)
  /\ age' = [cmd |-> Upto(age.cmd, CmdTimeout + 1),
              safety |-> Upto(age.safety, SafetyTimeout + 1),
              retry |-> Upto(age.retry, Cooldown),
              poll |-> IF at = "wait" THEN age.poll + 1 ELSE 0]
  /\ inbox' = [t \in Topics |-> Older(inbox[t])]
  /\ held' = [t \in Topics |-> Older(held[t])]
  /\ order' = Older(order)
  /\ motor' = [m \in Motors |-> Wait(motor[m])]
  /\ UNCHANGED <<at, back, asking, closing, can, link, power, dipped, missed>>

\* The adapter is pulled out: its socket is dead for good, what was on the
\* wire is lost.
Unplug ==
  /\ link /\ link' = FALSE
  /\ bus' = IF bus = "live" THEN "dead" ELSE bus
  /\ acks' = Silence
  /\ UNCHANGED <<inbox, held, age, executor, failures, confirmed, power, dipped,
                 missed, motor>>

Plug ==
  /\ ~link /\ link' = TRUE
  /\ UNCHANGED <<inbox, held, age, executor, can, power, dipped, missed, motor>>

\* The motors get power, with their watchdogs off; they may lose it at any time,
\* with the adapter or without it.
PowerOn ==
  /\ ~power /\ power' = TRUE
  /\ UNCHANGED <<inbox, held, age, executor, can, link, dipped, missed, motor>>

PowerOff ==
  /\ power /\ power' = FALSE
  /\ dipped' = (dipped \/ bus = "live")
  /\ motor' = [m \in Motors |-> Rest]
  /\ UNCHANGED <<inbox, held, age, executor, can, link, missed>>

-----------------------------------------------------------------------------
Executor == \/ Open \/ Ready \/ SendSetting \/ Waited \/ Decide \/ SendFrame
            \/ StopFrames \/ ClearWatchdog
            \/ \E t \in Topics : Receive(t)

Hardware == \/ Unplug \/ Plug
            \/ PowerOn \/ PowerOff

Next == \/ Executor \/ BeginShutdown \/ Closed \/ Acknowledge \/ Clock \/ Hardware
        \/ \E t \in Topics : \E o \in Sent(t) : Publish(t, o)

\* The executor serves its timer and time goes on, although messages keep
\* arriving.
Spec == /\ Init /\ [][Next]_vars
        /\ WF_vars(\/ Open \/ Ready \/ SendSetting \/ Waited \/ SendFrame
                   \/ StopFrames \/ ClearWatchdog)
        /\ SF_vars(Decide) /\ SF_vars(Clock)

-----------------------------------------------------------------------------
(* What the driver promises *)

TypeOK ==
  /\ inbox \in [Topics -> Order \cup {Nothing}]
  /\ held \in [Topics -> Order] /\ order \in Order
  /\ age \in Ages
  /\ at \in Frames \cup {"open", "ready", "send", "wait", "idle", "stop",
                         "clear", "stop again", "closed"}
  /\ back \in Frames \cup {"ready", "idle", "stop again"} /\ asking \in {0, Watchdog}
  /\ due \in BOOLEAN /\ closing \in BOOLEAN /\ link \in BOOLEAN /\ power \in BOOLEAN
  /\ dipped \in BOOLEAN /\ missed \subseteq Motors
  /\ bus \in {"none", "live", "dead"} /\ failures \in Nat
  /\ confirmed \in [Motors -> {None, 0, Watchdog}]
  /\ acks \in [Motors -> Seq({0, Watchdog})]
  /\ motor \in [Motors -> [speed : Speeds, limit : {0, Watchdog},
                           quiet : 0 .. Watchdog, born : 0 .. MaxAge + 1,
                           guarded : BOOLEAN]]

\* A wheel told to move while its watchdog was confirmed never obeys a command
\* older than MaxAge, whatever is unplugged, reconnected, blocked or lost on the
\* way.  Two wheels are excepted: one reset with the bus up, which the driver
\* takes for guarded until it reconnects, and one whose stop frames both failed
\* in the shutdown, which clears its watchdog all the same.
MotionIsRecent ==
  \A m \in Motors \ missed : motor[m].guarded => motor[m].born <= MaxAge

\* A wheel told to move while its watchdog was confirmed has that watchdog for
\* as long as it moves: failing frames, an adapter pulled out, power lost while
\* the bus is down, an acknowledgement of an earlier connection, a reconnection
\* that arms one motor only, or the shutdown, which clears the watchdogs, leave
\* nothing turning with no one to stop it.  The wheels excepted are those of
\* MotionIsRecent: the driver does not protect them.
NoRunaway ==
  \A m \in Motors \ missed : motor[m].guarded => motor[m].limit = Watchdog

\* Once the adapter stays plugged in, the driver gets the bus back or is closed,
\* unless messages come faster than the executor takes them.
Reconnects == <>[]link /\ []<>Served => <>[](bus = "live" \/ at = "closed")
=============================================================================
