---------------------------- MODULE ArmModeManager ----------------------------
(***************************************************************************)
(* arm_control_mode_manager.py: the one node that writes to the arm's      *)
(* controllers.  It holds a ModeCore, brings the position controller up    *)
(* through the controller manager, follows the focus and the hardware      *)
(* faults, takes the producers' messages and ticks at 100 Hz.              *)
(*                                                                         *)
(* The node has one thread: a callback or a tick is one action, and a tick *)
(* may be late by the callbacks before it.  The producers copy the epoch   *)
(* from the status and write to a topic of depth one each.  The controller *)
(* manager, the joints and the gripper are external.                       *)
(***************************************************************************)
EXTENDS ArmModeCore, FiniteSets

CONSTANTS Surroundings,   \* what the rest of the robot may do: see Surrounding
          SeenFor,        \* 0.75 s: a controller list is good for this long
          ActivateLimit,  \* 5 s to activate the position controller
          JogFor,         \* 0.25 s: a gripper jog is good for less than this
          Stall           \* how late a tick may be, in periods

\* The kinds of message on_command tells apart on each producer's topic.
Kinds == [manual    |-> {"move", "fault"},
          tcp_ik    |-> {"move", "pause", "stop", "jog", "fault"},
          tool_auto |-> {"path", "ee", "cancel", "fault"}]

\* What one robot may do, as sets its inputs are taken from.
Surrounding(e) ==
  /\ e.readings \subseteq Int               \* positions the joint may report
  /\ e.speeds \subseteq Velocities          \* velocities the joint may report
  /\ DOMAIN e.messages = Clients            \* what each producer may send
  /\ \A s \in Clients : \A m \in e.messages[s] : m.kind \in Kinds[s]
  /\ \A m \in e.messages["tool_auto"] :
       m.kind = "path" => m.ways \in Seq([at : Int, stop : BOOLEAN])
  /\ \A a \in e.assessments :              \* what the TCP producer says of a pose
       a = None \/ (a.safe \in BOOLEAN /\ a.at \in Positions)
  /\ e.requests \subseteq Clients \cup {"hold"}  \* modes the services are asked for
  /\ e.focuses \subseteq {"arm", "drive"}   \* targets /control/active_target names
  /\ e.focusMode \in Streams \cup {""}      \* focus_arm_mode, or "" for none
  /\ e.replies \subseteq                    \* what a controller list may say
       {"none", "inactive", "active", "down", "wrong", "failed"}
  /\ e.switches \subseteq {"ok", "refused"} \* what an activation may return

ASSUME ManagerAssumption ==
  /\ \A e \in Surroundings : Surrounding(e)
  /\ \A e \in Surroundings, s \in Clients :  \* None is not a message in a queue
       None \notin [cur : BOOLEAN, turn : BOOLEAN, body : e.messages[s]]
  /\ {SeenFor, ActivateLimit, JogFor, Stall} \subseteq Nat
  /\ Stall > 0

VARIABLES
  env,         \* the surroundings of this behaviour, which do not change
  core,        \* self.core
  late,        \* periods since the last tick
  inbox,       \* queued message of each producer, whether its epoch is current
               \* and whether it was written in the present turn of its sender
  faults,      \* hardware_faults
  pending,     \* focus_activation_pending
  seen,        \* controllers and controller_time: last list and its age
  activation,  \* age of activation_started
  switching,   \* switch_future is outstanding
  activated,
  jog,         \* age of the gripper jog while independent_ee_velocity # 0
  gripper      \* what the last tick sent to the gripper: "zero", "jog" or "own"

controllers == <<seen, activation, switching, activated>>
vars == <<env, core, late, inbox, faults, pending, controllers, jog, gripper>>

Init ==
  /\ env \in Surroundings
  /\ core = Start /\ late = 0
  /\ inbox = [s \in Clients |-> None]
  /\ faults = {} /\ pending = FALSE
  /\ seen = [state |-> "none", age |-> SeenFor]
  /\ activation = None /\ switching = FALSE /\ activated = FALSE
  /\ jog = None /\ gripper = "zero"

\* s has owned the arm, or is the one it is stopping for, all along.
SameTurn(s, c) ==
  \/ core.mode = s /\ c.mode = s
  \/ core.requested = s /\ core.transitioning
     /\ c.requested = s /\ (c.transitioning \/ c.mode = s)

\* The call is over: what it leaves of the core and of the queues.
Commit(c, box) ==
  /\ core' = [c EXCEPT !.renewed = FALSE]
  /\ inbox' = [s \in Clients |->
       IF box[s] = None THEN None
       ELSE [box[s] EXCEPT !.cur = @ /\ ~c.renewed,
                           !.turn = @ /\ SameTurn(s, c)]]

-----------------------------------------------------------------------------
(* Callbacks *)

\* on_state, with all joints.
OnState ==
  /\ \E p \in env.readings, v \in env.speeds : Commit(Feedback(core, p, v), inbox)
  /\ UNCHANGED <<late, faults, pending, controllers, jog, gripper>>

\* on_state with joints missing, or more names than values.
OnBadState ==
  /\ Commit(Fault(core), inbox)
  /\ UNCHANGED <<late, faults, pending, controllers, jog, gripper>>

\* variant: leaving the arm does not stop what is under way
FocusOnly(c, f) == [c EXCEPT !.focus = f]

\* The arm stops when the focus leaves it.
Focused(c, f) ==
  LET there == [c EXCEPT !.focus = f,
                         !.aligning = IF f = "arm" THEN @ ELSE None]
  IN IF f # "arm" /\ c.mode # "fault" /\ c.startup = "complete"
     THEN Request(there, "hold") ELSE there

OnFocus(f) ==
  /\ Commit(Focused(core, f), inbox)
  /\ pending' = IF f # "arm" THEN FALSE
                ELSE pending \/ (core.focus # "arm" /\ env.focusMode # "")
  /\ UNCHANGED <<late, faults, controllers, jog, gripper>>

\* on_tcp_entry: an assessment under another epoch is not taken, and a malformed
\* one voids the last.
OnTcpEntry ==
  /\ \E a \in env.assessments :
       Commit([core EXCEPT !.proof =
                 IF a = None THEN None
                 ELSE [cur |-> TRUE, age |-> 0, safe |-> a.safe, at |-> a.at]], inbox)
  /\ UNCHANGED <<late, faults, pending, controllers, jog, gripper>>

\* on_fault: one status per component; any new one stops the arm.
OnFault(joint) ==
  /\ faults' = faults \cup {joint}
  /\ \E again \in {core, Fault(core)} :  \* the reason may have changed
       Commit(IF joint \in faults THEN again ELSE Fault(core), inbox)
  /\ UNCHANGED <<late, pending, controllers, jog, gripper>>

OnFaultOver(joint) ==
  /\ joint \in faults /\ faults' = faults \ {joint}
  /\ Commit(IF faults' # {} THEN Fault(core) ELSE core, inbox)
  /\ UNCHANGED <<late, pending, controllers, jog, gripper>>

\* on_rmd_diagnostic: a joint is relaxing its target.
OnCurrentProtection ==
  /\ core.mode = "tool_auto" /\ core.job # None
  /\ Commit(AbortToHold(core), inbox)
  /\ UNCHANGED <<late, faults, pending, controllers, jog, gripper>>

\* set_mode and /arm/cancel
SetMode(m) ==
  /\ pending' = FALSE
  /\ Commit(Request(core, m), inbox)
  /\ UNCHANGED <<late, faults, controllers, jog, gripper>>

ResetAllowed(c) == IF faults = {} THEN Reset(c) ELSE c

ResetFault ==
  /\ Commit(ResetAllowed(core), inbox)
  /\ UNCHANGED <<late, faults, pending, controllers, jog, gripper>>

-----------------------------------------------------------------------------
(* The producers *)

\* A producer writes with the current epoch, or with one it copied before.
Send(s) ==
  /\ \E m \in env.messages[s], cur \in BOOLEAN :
       inbox' = [inbox EXCEPT ![s] =
         [cur |-> cur, turn |-> s \in {core.mode, core.requested}, body |-> m]]
  /\ UNCHANGED <<core, late, faults, pending, controllers, jog, gripper>>

\* What a message may do to the core: a gripper goal also needs fresh feedback of
\* the gripper.
Handled(c, s, m) ==
  LET b == m.body
  IN CASE b.kind = "fault"  -> {IF c.mode = s /\ m.cur THEN Fault(c) ELSE c}
       [] b.kind = "move"   -> {Command(c, s, m.cur, b)}
       [] b.kind = "pause"  -> {PauseTcp(c, m.cur)}
       [] b.kind = "stop"   -> {StopTcp(c, m.cur)}
       [] b.kind = "path"   -> {Path(c, m.cur, b)}
       [] b.kind = "ee"     -> {c, StartEE(c, m.cur, b)}
       [] b.kind = "cancel" -> {CancelPath(c, m.cur, b)}
       [] b.kind = "jog"    -> {c}

\* A jog is taken in any mode, given the focus and a healthy gripper; the TCP
\* producer's other messages end it, all but a fault that is taken, and so does a
\* timed turn of the gripper, but not a closing.
JogOf(s, m, c) ==
  IF m.body.kind = "jog"
  THEN IF core.focus = "arm" /\ core.ready /\ seen.state = "active"
       THEN {jog, 0} ELSE {jog}
  ELSE IF s = "tcp_ik"
  THEN IF m.body.kind = "fault" /\ m.cur /\ core.mode = s THEN {jog} ELSE {None}
  ELSE IF m.body.kind = "ee" /\ core.job = None /\ c.job # None
  THEN {jog, None} ELSE {jog}

\* on_command
OnCommand(s) ==
  /\ inbox[s] # None
  /\ \E c \in Handled(core, s, inbox[s]) :
       /\ Commit(c, [inbox EXCEPT ![s] = None])
       /\ jog' \in JogOf(s, inbox[s], c)
  /\ UNCHANGED <<late, faults, pending, controllers, gripper>>

-----------------------------------------------------------------------------
(* The tick *)

\* What poll makes of a list r and of the reply w to the switch, either of which
\* may be missing ("none"); `clear` when service and subscriber are there.
Poll(r, w, clear) ==
  LET heard == IF r \in {"none", "failed"} THEN seen
               ELSE [state |-> IF r = "wrong" THEN "active" ELSE r, age |-> 0]
      recent == heard.age < SeenFor
      active == recent /\ heard.state = "active"
      listed == IF r \in {"wrong", "failed"} THEN Fault(core) ELSE core
      switched == IF /\ switching
                     /\ \/ w = "refused"
                        \/ w = "none" /\ ~active /\ activation > ActivateLimit
                  THEN Fault(listed) ELSE listed
      found == IF ~activated /\ active /\ activation = None
               THEN Fault(switched) ELSE switched
      up == activated \/ (active /\ activation # None)
      begin == /\ activation = None /\ found.mode # "fault"
               /\ recent /\ heard.state = "inactive"
               /\ Fresh(found) /\ Stopped(found) /\ clear
      begun == [(IF begin THEN BeginStartup(found) ELSE found)
                  EXCEPT !.ready = up /\ active]
      since == IF begin THEN 0 ELSE activation
      failed == \/ since # None /\ ~up /\ since > ActivateLimit
                \/ up /\ ~active
  IN [core |-> IF failed THEN Fault(begun) ELSE begun,
      seen |-> heard, activation |-> since, activated |-> up,
      switching |-> begin \/ (switching /\ w = "none")]

\* activate_pending_focus
FocusDue(c) ==
  /\ pending /\ c.mode = "hold" /\ c.focus = "arm" /\ ~c.transitioning /\ c.ready
  /\ c.startup = "complete" /\ c.aligned /\ Fresh(c)

\* variant: a jog that was held back goes on
JogKept(on) == jog

\* A jog that cannot be sent now is forgotten.
JogAfter(on) == IF on THEN jog ELSE None

\* The gripper turns for the owner: a stream's command or a job.
OwnTurn(c) ==
  /\ c.ready /\ ~c.transitioning /\ c.ee
  /\ \/ c.mode \in Streams
     \/ c.mode = "tool_auto" /\ c.job # None /\ c.job.kind = "ee"

\* ... or for a jog, if its feedback is fresh.
JogTurn(c, list) ==
  /\ c.job = None /\ c.focus = "arm" /\ c.ready /\ list.state = "active"
  /\ jog # None /\ jog < JogFor

Tick ==
  /\ late > 0 /\ late' = 0
  /\ \E r \in env.replies, w \in {"none"} \cup (IF switching THEN env.switches ELSE {}),
        clear \in {TRUE, activation # None} :
       LET polled == Poll(r, w, clear)
           focused == IF FocusDue(polled.core)
                      THEN Request(polled.core, env.focusMode) ELSE polled.core
       IN /\ seen' = polled.seen /\ activation' = polled.activation
          /\ activated' = polled.activated /\ switching' = polled.switching
          /\ pending' = (pending /\ polled.core.mode # "fault"
                           /\ ~FocusDue(polled.core))
          /\ \E c \in Ticked(focused, late) :
               \E jogging \in {FALSE, JogTurn(c, polled.seen)} :
                 /\ Commit(c, inbox)
                 /\ jog' = JogAfter(jogging)
                 /\ gripper' = IF jogging THEN "jog"
                               ELSE IF OwnTurn(c) THEN "own" ELSE "zero"
  /\ UNCHANGED faults

\* A period passes.
Elapse ==
  /\ late < Stall /\ late' = late + 1
  /\ core' = Aged(core)
  /\ seen' = [seen EXCEPT !.age = IF @ < SeenFor THEN @ + 1 ELSE @]
  /\ activation' = Older(activation, ActivateLimit)
  /\ jog' = Older(jog, JogFor)
  /\ UNCHANGED <<inbox, faults, pending, switching, activated, gripper>>

Step ==
  \/ OnState \/ OnBadState \/ OnTcpEntry \/ OnCurrentProtection \/ ResetFault
  \/ Tick \/ Elapse
  \/ \E f \in env.focuses : OnFocus(f)
  \/ \E joint \in env.components : OnFault(joint) \/ OnFaultOver(joint)
  \/ \E m \in env.requests : SetMode(m)
  \/ \E s \in Clients : Send(s) \/ OnCommand(s)

Next == Step /\ UNCHANGED env

\* The timer of the tick, and time.  Only Tick makes late 0 and only Elapse makes
\* it larger, so these are the weak fairness of Tick and of Elapse.
Spec == Init /\ [][Next]_vars /\ WF_late(late > 0 /\ late' = 0)
             /\ WF_late(late < Stall /\ late' = late + 1)

-----------------------------------------------------------------------------
\* The state is well typed; once the startup is complete the arm is told only places
\* within its soft limits.
TypeOK ==
  /\ core.mode \in Modes /\ core.requested \in Modes
  /\ core.transitioning \in BOOLEAN /\ ~core.renewed
  /\ core.focus \in {"arm", "drive"} /\ core.ready \in BOOLEAN
  /\ core.position \in Positions \cup {None} /\ core.velocity \in Velocities
  /\ core.age \in 0 .. FreshFor
  /\ core.target \in Positions \cup {None} /\ core.goal \in Positions \cup {None}
  /\ core.command \in 0 .. CommandLimit + 1 /\ core.settled \in 0 .. Settle
  /\ core.startup \in {"pending", "recovering", "complete"}
  /\ core.startup = "complete" =>
       core.target \in Within /\ core.goal \in Within \cup {None}
  /\ late \in 0 .. Stall
  /\ faults \subseteq env.components /\ pending \in BOOLEAN
  /\ seen.age \in 0 .. SeenFor /\ switching \in BOOLEAN /\ activated \in BOOLEAN
  /\ gripper \in {"zero", "jog", "own"}

\* Whoever owns the arm, or is about to, does so with the focus on the arm, the
\* controllers up, the startup and the alignment done and no component at fault,
\* whatever callbacks came since it asked (on_focus, on_fault, poll).
OwnerIsEntitled ==
  \A s \in Clients :
    core.mode = s \/ (core.transitioning /\ core.requested = s) =>
      /\ core.focus = "arm" /\ core.ready /\ activated
      /\ core.startup = "complete" /\ core.aligned
      /\ faults = {}

\* The arm is handed to the TCP producer only in a pose that was assessed as safe
\* under the epoch it gets and that the arm has not left since, however often the
\* epoch was renewed and the arm moved in between.
TcpEntryIsSafe ==
  [][core.mode # "tcp_ik" /\ core'.mode = "tcp_ik" =>
       /\ core'.proof # None /\ core'.proof.safe /\ core'.proof.cur
       /\ core'.position = core'.proof.at
       /\ 0 < core'.position /\ core'.position < Top
       /\ core'.velocity = 0]_vars

\* A message written before its sender's present turn changes nothing about the
\* arm: not after a cancel, a fault, a focus change or a finished path, and not
\* when the same sender has the arm again.
OldMessagesAreIgnored ==
  [][\A s \in Clients :
       inbox[s] # None /\ inbox'[s] = None /\ ~inbox[s].turn => core' = core]_vars

\* The manager keeps what ArmOwner promises: one owner at a time, and no goal but
\* the arm's own place for an arm that has none.  Recovery and alignment are the
\* manager's own motions.
owner == CASE core.mode = "fault" -> "fault"
           [] core.mode \in Clients -> core.mode
           [] core.mode = "hold" ->
                IF \/ core.startup = "recovering"
                   \/ core.aligning # None /\ ~core.transitioning
                THEN "self" ELSE "none"

Promise == INSTANCE ArmOwner WITH
  owner <- owner, seen <- core.position, aim <- core.goal,
  Owners <- Clients, Places <- Positions

OneOwner == Promise!Spec

\* An execution that ends is told with its own id, and as succeeded only at the
\* end of its path with the arm standing at the last waypoint.
OutcomeIsTold ==
  [][core.job # None /\ core'.job = None =>
       \E r \in {"aborted", "succeeded"} :
         /\ core'.last = [id |-> core.job.id, result |-> r]
         /\ r = "succeeded" /\ core.job.kind = "path" =>
              /\ core.queue = <<>> /\ core.position = core.goal /\ Stopped(core)]_vars

\* A jog that a tick did not send is forgotten: what it sends later came in a
\* newer message.
JogIsNotResumed == gripper # "jog" /\ jog # None => jog <= late

\* A change of mode comes to an end, in the mode asked for, HOLD or FAULT, or is
\* begun anew by another request: though the arm may never settle, its feedback or
\* a controller may go away and the activation may not be over.  Only the startup's
\* recovery has no such end: without feedback it waits (run_startup).
TransitionsEnd ==
  []<>(~core.transitioning \/ core.started = 0 \/ core.startup = "recovering")
=============================================================================
