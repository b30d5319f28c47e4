------------------------------ MODULE ToolChange ------------------------------
(***************************************************************************)
(* tool_change_fsm.py and changer_protocol.py: one procedure takes the arm *)
(* home, to the docking pose and to the tool, has an Arduino lock it, and  *)
(* retreats.  Every stage is a service of motion_executor.py, which hands  *)
(* a goal to the arm's controller.                                         *)
(*                                                                         *)
(* The procedure runs in the callback of the request, on one thread; the   *)
(* requests' callback group runs one callback at a time.  Feedback, status *)
(* of the Arduino and of the controllers, hardware faults and cancels come *)
(* on other threads and share changer_guard with it, so a block under the  *)
(* guard is one action and the steps of the procedure outside it are       *)
(* actions of their own.                                                   *)
(*                                                                         *)
(* The arm is controlled by its trajectory controller (control_backend     *)
(* 'jtc').  A managed arm is refused unless the procedure stops at home or *)
(* at the docking pose, before anything that is in question here.          *)
(***************************************************************************)
EXTENDS Integers, Sequences, FiniteSets

CONSTANTS StopAfter,     \* development.stop_after_state, a stage or "done"
          Samples,       \* settled_samples
          FeedbackFor,   \* joint_state_max_age_s
          ControllerFor, \* 0.75 s
          LockFor,       \* timeouts_s.lock
          MaxRequests,   \* bound: requests not taken yet
          MaxCalls       \* bound: calls the executor has not begun

Stages == <<"home", "docking_wait", "pre", "target", "lock",
            "return_docking_wait", "return_home">>
Lock == 5

ASSUME ToolChangeAssumption ==
  /\ StopAfter \in {Stages[k] : k \in 1 .. Len(Stages)} \cup {"done"}
  /\ {Samples, FeedbackFor, ControllerFor, LockFor, MaxRequests, MaxCalls} \subseteq Nat \ {0}

VARIABLES
  requests,   \* how many requests are queued
  pc,         \* where the procedure's thread is
  stage,      \* the stage it is in
  state,      \* self.state, as published
  answer,     \* of the service it waits for
  cancelled, error,  \* cancelled; hardware_error is not empty
  goal,       \* docking_goal is set
  snapshot,   \* feedback_snapshot: docked, and for how long it counts
  news,       \* feedback_sequence has changed since the loop looked
  settled,
  active,     \* for how long a list with the right controllers counts
  transaction, \* complete, failed, stopped and its age; "live" while it is held
  wire,       \* external: commands of the present transaction on their way; what
              \* comes of an earlier one's carries another id
  tool,       \* external: what the Arduino does for the present transaction
  replies,    \* external: its status messages under way: "LOCKED" or "ERROR" of the
              \* present transaction, "foreign" ones with another id
  calls,      \* external to the FSM: queue of the executor, a call waited for or not
  job,        \* the executor's goal: "none", "asked" or "running", and waited for
  loose,      \* goals the executor gave up and that may still move the arm
  fault       \* motion_fault of the executor

procedure == <<pc, stage, state, answer>>
safety == <<cancelled, error, goal, snapshot, active>>
looked == <<news, settled>>
arduino == <<wire, tool, replies>>
executor == <<calls, job, loose, fault>>
vars == <<requests, procedure, safety, looked, transaction, arduino, executor>>

NoTransaction == [live |-> FALSE, complete |-> FALSE, failed |-> FALSE,
                  stopped |-> FALSE, age |-> 0]
NoJob == [goal |-> "none", live |-> FALSE]

Init ==
  /\ requests = 0 /\ pc = "idle" /\ stage = 1 /\ state = "IDLE" /\ answer = "none"
  /\ cancelled = FALSE /\ error = FALSE /\ goal = FALSE
  /\ snapshot = [left |-> 0, docked |-> FALSE]
  /\ news = FALSE /\ settled = 0
  /\ active = 0
  /\ transaction = NoTransaction
  /\ wire = <<>> /\ tool = "idle" /\ replies = {}
  /\ calls = <<>> /\ job = NoJob /\ loose = 0 /\ fault = FALSE

-----------------------------------------------------------------------------
(* Requests and the stages of the procedure *)

\* A request is queued, by a client that need not look at the state.
Request ==
  /\ requests < MaxRequests /\ Len(calls) < MaxCalls
  /\ requests' = requests + 1
  /\ UNCHANGED <<procedure, safety, looked, transaction, arduino, executor>>

\* _request: the callback runs when the one before it is over, so the state it
\* looks at is never that of a procedure under way.  What was kept in an earlier lock
\* is not looked at before the next one: here it has run out.
Take ==
  /\ pc = "idle" /\ requests > 0 /\ requests' = requests - 1
  /\ active + snapshot.left = 0
  /\ \/ /\ state \in {"IDLE", "DONE", "HOLD"}
        /\ cancelled' = FALSE /\ goal' = FALSE
        /\ IF error THEN state' = "HOLD" /\ UNCHANGED <<pc, stage>>
           ELSE pc' = "gate" /\ stage' = 1 /\ UNCHANGED state
     \/ /\ state \in {"IDLE", "DONE", "HOLD"}  \* its configuration is not valid
        /\ state' = "HOLD" /\ UNCHANGED <<pc, stage, cancelled, goal>>
     \/ /\ state \notin {"IDLE", "DONE", "HOLD"}
        /\ UNCHANGED <<pc, stage, state, cancelled, goal>>
  /\ UNCHANGED <<answer, error, snapshot, active, looked, transaction,
                 arduino, executor>>

\* The except clause of _run.
Hold == pc' = "idle" /\ state' = "HOLD" /\ answer' = "none" /\ UNCHANGED stage

\* What keeps _named from the next pose; _cartesian_target does not ask.
Refused == stage # 4 /\ (cancelled \/ error)

\* _named looks at the latches, before it does anything ...
Gate ==
  /\ pc = "gate"
  /\ IF Refused THEN Hold
     ELSE pc' = "ask" /\ UNCHANGED <<stage, state, answer>>
  /\ UNCHANGED <<requests, safety, looked, transaction, arduino, executor>>

\* ... and publishes its state and calls the executor; for the target the call to
\* the inverse kinematics may fail, and its path ends at the docking goal.
Ask ==
  /\ pc = "ask" /\ state' = Stages[stage]
  /\ \/ /\ pc' = "called" /\ answer' = "none" /\ UNCHANGED stage
        /\ goal' = (goal \/ Stages[stage] = "target")
        /\ calls' = Append(calls, TRUE)
     \/ /\ pc' = "failed"  \* no service, no path
        /\ UNCHANGED <<stage, answer, goal, calls>>
  /\ UNCHANGED <<requests, cancelled, error, snapshot, active, looked,
                 transaction, arduino, job, loose, fault>>

\* _run after a stage: pause, end, or go on; the lock begins with what it has seen.
After(k) ==
  IF StopAfter = Stages[k] THEN pc' = "idle" /\ state' = "PAUSED" /\ UNCHANGED <<stage, looked>>
  ELSE IF k = Len(Stages) THEN pc' = "idle" /\ state' = "DONE" /\ UNCHANGED <<stage, looked>>
  ELSE IF k + 1 = Lock
  THEN pc' = "settle" /\ stage' = Lock /\ state' = "lock" /\ news' = FALSE /\ settled' = 0
  ELSE pc' = "gate" /\ stage' = k + 1 /\ UNCHANGED <<state, looked>>

\* The calls waited for are given up at their deadline; the executor goes on.
Abandoned == [i \in DOMAIN calls |-> FALSE]

\* _call
Answered ==
  /\ pc = "called"
  /\ \/ answer = "ok" /\ After(stage) /\ answer' = "none" /\ UNCHANGED <<calls, job>>
     \/ answer = "failed" /\ Hold /\ UNCHANGED <<looked, calls, job>>
     \/ answer = "none" /\ Hold /\ UNCHANGED looked
        /\ calls' = Abandoned /\ job' = [job EXCEPT !.live = FALSE]
  /\ UNCHANGED <<requests, safety, transaction, arduino, loose, fault>>

Failed ==
  /\ pc = "failed" /\ Hold
  /\ UNCHANGED <<requests, safety, looked, transaction, arduino, executor>>

-----------------------------------------------------------------------------
(* _arduino_lock *)

\* _check_changer_safety
Safe ==
  /\ ~cancelled /\ ~error
  /\ active > 0 /\ snapshot.left > 0

\* _docked
Docked == goal /\ snapshot.docked

\* variant: a status of another transaction counts
AnyId(r) == TRUE

OwnId(r) == r # "foreign"

Foreign == {"foreign" : r \in replies}

\* The first loop: the arm must be seen docked and standing in Samples readings
\* made since the motion ended; then the command is sent once.
Settle ==
  /\ pc = "settle"
  /\ LET n == IF ~news THEN settled ELSE IF Docked THEN settled + 1 ELSE 0
     IN IF ~Safe
        THEN Hold /\ UNCHANGED <<looked, transaction, arduino>>
        ELSE /\ news' = FALSE
             /\ IF n >= Samples
                THEN /\ settled' = 0 /\ pc' = "wait"
                     /\ transaction' = [NoTransaction EXCEPT !.live = TRUE]
                     /\ wire' = <<"LOCK">>
                     /\ tool' = "idle" /\ replies' = Foreign
                ELSE settled' = n /\ UNCHANGED <<pc, transaction, arduino>>
             /\ UNCHANGED <<stage, state, answer>>
  /\ UNCHANGED <<requests, safety, executor>>

\* The docking deadline, or nobody listens to the commands.
SettleFails ==
  /\ pc = "settle" /\ Hold
  /\ UNCHANGED <<requests, safety, looked, transaction, arduino, executor>>

\* variant: the answer is waited for as long as it takes
NeverLate(t) == FALSE

\* check and receive: the deadline is passed with no answer.
Overdue(t) == ~t.complete /\ ~t.failed /\ t.age >= LockFor

\* The second loop.
Wait ==
  /\ pc = "wait"
  /\ LET t == IF Safe /\ Docked /\ Overdue(transaction)
              THEN [transaction EXCEPT !.failed = TRUE] ELSE transaction
     IN IF ~Safe \/ ~Docked \/ t.failed
        THEN pc' = "abort" /\ transaction' = t /\ UNCHANGED <<stage, state, answer, looked>>
        ELSE IF t.complete
        THEN transaction' = NoTransaction /\ After(Lock) /\ UNCHANGED answer
        ELSE UNCHANGED <<procedure, looked, transaction>>
  /\ UNCHANGED <<requests, safety, arduino, executor>>

\* One STOP per transaction
StopDue(t) == ~t.stopped

\* variant: an abort leaves the completion
FailKeepingResult(t) == [t EXCEPT !.stopped = TRUE]

\* ChangerTransaction.abort: it wins over a completion.
Fail(t) == [t EXCEPT !.failed = TRUE, !.complete = FALSE, !.stopped = TRUE]

\* _abort_changer: one STOP for a transaction.
Abort(t) ==
  IF ~t.live THEN transaction' = t /\ UNCHANGED wire
  ELSE /\ transaction' = Fail(t)
       /\ wire' = IF StopDue(t) THEN Append(wire, "STOP") ELSE wire

\* variant: the transaction is aborted and kept
Kept == Fail(transaction)

Released == NoTransaction

\* Its except clause: the guard was free since the loop raised.
AbortLock ==
  /\ pc = "abort" /\ Hold
  /\ transaction' = Released
  /\ wire' = IF StopDue(transaction) THEN Append(wire, "STOP") ELSE wire
  /\ UNCHANGED <<requests, safety, looked, tool, replies, executor>>

-----------------------------------------------------------------------------
(* Callbacks on other threads *)

\* What these callbacks keep is looked at only during the lock: one that came before
\* is left out, for it might as well come when the lock begins.
Watched == pc \in {"settle", "wait", "abort"}

\* _feedback
OnFeedback ==
  /\ Watched
  /\ \E left \in {0, FeedbackFor} : \E docked \in {FALSE, left > 0} :
       /\ snapshot' = [left |-> left, docked |-> docked]
       /\ IF ~snapshot'.docked \/ ~goal THEN Abort(transaction)
          ELSE UNCHANGED <<transaction, wire>>
  /\ news' = TRUE
  /\ UNCHANGED <<requests, procedure, cancelled, error, goal, active, settled,
                 tool, replies, executor>>

\* _controller_health: a list has come, or not.
OnControllers ==
  /\ Watched
  /\ active' \in {0, ControllerFor, active}
  /\ IF active' = 0 THEN Abort(transaction)
     ELSE UNCHANGED <<transaction, wire>>
  /\ UNCHANGED <<requests, procedure, cancelled, error, goal, snapshot, looked,
                 tool, replies, executor>>

\* _hardware_fault
OnHardwareFault ==
  /\ error' = TRUE /\ Abort(transaction)
  /\ UNCHANGED <<requests, procedure, cancelled, goal, snapshot, active,
                 looked, tool, replies, executor>>

\* _cancel_changer
Cancel ==
  /\ state = "lock"
  /\ cancelled' = TRUE /\ Abort(transaction)
  /\ UNCHANGED <<requests, procedure, error, goal, snapshot, active, looked,
                 tool, replies, executor>>

\* _changer_status: a message may come again, and late.
OnStatus(r) ==
  /\ r \in replies
  /\ replies' \in {replies, replies \ {r}}
  /\ transaction' =
       LET t == transaction
       IN IF ~t.live \/ t.complete \/ t.failed THEN t
          ELSE IF Overdue(t) THEN [t EXCEPT !.failed = TRUE]
          ELSE IF ~OwnId(r) THEN t
          ELSE IF r = "ERROR" THEN [t EXCEPT !.failed = TRUE]
          ELSE [t EXCEPT !.complete = TRUE]
  /\ UNCHANGED <<requests, procedure, safety, looked, wire, tool, executor>>

-----------------------------------------------------------------------------
(* External: the Arduino, the executor and time *)

\* A command reaches the Arduino, or is lost; STOP ends what it does.
Deliver ==
  /\ wire # <<>> /\ wire' = Tail(wire)
  /\ \/ tool' = IF Head(wire) = "STOP" THEN "stopped"
                ELSE IF Head(wire) = "LOCK" /\ tool = "idle" THEN "moving" ELSE tool
     \/ UNCHANGED tool
  /\ UNCHANGED <<requests, procedure, safety, looked, transaction, replies, executor>>

\* It locks, or fails, and tells so.
ToolEnds ==
  /\ tool = "moving"
  /\ \E s \in {"LOCKED", "ERROR"} :
       /\ tool' = IF s = "LOCKED" THEN "locked" ELSE "failed"
       /\ replies' = replies \cup {s}
  /\ UNCHANGED <<requests, procedure, safety, looked, transaction, wire, executor>>

\* variant: a goal that was given up is forgotten
GiveUpQuietly == UNCHANGED fault

GiveUp == fault' = TRUE

Answer(live, a) == answer' = IF live THEN a ELSE answer

\* _send, _send_action: a call begins when the one before it has been answered.
Begin ==
  /\ job.goal = "none" /\ calls # <<>> /\ calls' = Tail(calls)
  /\ \/ fault /\ Answer(Head(calls), "failed") /\ UNCHANGED job
     \/ ~fault /\ job' = [goal |-> "asked", live |-> Head(calls)] /\ UNCHANGED answer
     \/ ~fault /\ Answer(Head(calls), "failed") /\ UNCHANGED job  \* invalid
  /\ UNCHANGED <<requests, pc, stage, state, safety, looked, transaction, arduino,
                 loose, fault>>

\* The controller takes the goal, or rejects it.
Accept ==
  /\ job.goal = "asked"
  /\ \/ job' = [job EXCEPT !.goal = "running"] /\ UNCHANGED answer
     \/ job' = NoJob /\ Answer(job.live, "failed")
  /\ UNCHANGED <<requests, pc, stage, state, safety, looked, transaction, arduino,
                 calls, loose, fault>>

\* It ends the goal, or reports a failure.
Result ==
  /\ job.goal = "running" /\ job' = NoJob
  /\ \/ Answer(job.live, "ok") /\ UNCHANGED fault
     \/ Answer(job.live, "failed") /\ fault' = TRUE
  /\ UNCHANGED <<requests, pc, stage, state, safety, looked, transaction, arduino,
                 calls, loose>>

\* No answer by the deadline: the goal may run, or begin to run, all the same.
Unresolved ==
  /\ job.goal # "none" /\ job' = NoJob /\ loose' = loose + 1
  /\ GiveUp /\ Answer(job.live, "failed")
  /\ UNCHANGED <<requests, pc, stage, state, safety, looked, transaction, arduino, calls>>

Less(n) == IF n = 0 THEN 0 ELSE n - 1

Elapse ==
  /\ snapshot' = [left |-> Less(snapshot.left),
                  docked |-> snapshot.docked /\ snapshot.left > 1]
  /\ active' = Less(active)
  /\ transaction' = IF transaction.live /\ transaction.age < LockFor
                    THEN [transaction EXCEPT !.age = @ + 1] ELSE transaction
  /\ UNCHANGED <<requests, procedure, cancelled, error, goal, looked, arduino, executor>>

-----------------------------------------------------------------------------
Procedure ==
  Take \/ Gate \/ Ask \/ Answered \/ Failed \/ Settle \/ Wait \/ AbortLock

Next ==
  \/ Request \/ Procedure \/ SettleFails
  \/ OnFeedback \/ OnControllers \/ OnHardwareFault \/ Cancel
  \/ \E r \in replies : OnStatus(r)
  \/ Deliver \/ ToolEnds \/ Begin \/ Accept \/ Result \/ Unresolved \/ Elapse

\* The procedure's thread, its deadlines, and time.
Fairness == WF_vars(Procedure) /\ WF_vars(SettleFails) /\ WF_vars(Elapse)

Spec == Init /\ [][Next]_vars /\ Fairness

-----------------------------------------------------------------------------
\* The state is well typed.
TypeOK ==
  /\ pc \in {"idle", "gate", "ask", "called", "failed", "settle", "wait", "abort"}
  /\ stage \in 1 .. Len(Stages) /\ answer \in {"none", "ok", "failed"}
  /\ settled \in 0 .. Samples - 1 /\ tool \in {"idle", "moving", "locked", "failed", "stopped"}
  /\ job.goal \in {"none", "asked", "running"} /\ loose \in 0 .. 1
  /\ requests \in 0 .. MaxRequests
  \* a transaction is held exactly while its answer is waited for
  /\ transaction.live <=> pc \in {"wait", "abort"}

\* A tool is left only when the Arduino really has locked it for this procedure:
\* not on a repeated or late status of an earlier transaction, not after an error,
\* a STOP or a deadline (receive, abort, _arduino_lock).
LeavesLockedTool ==
  [][stage <= Lock /\ stage' > Lock => tool = "locked"]_vars

\* Aborted is aborted: after STOP has been sent the transaction ends in HOLD, also
\* when the completion has come before it or comes after it (abort, receive).
StopIsFinal ==
  [][transaction.live /\ transaction.stopped /\ ~transaction'.live =>
       state' = "HOLD" /\ stage' = Lock]_vars

\* The controller never gets a goal while one that was given up may still move the
\* arm: however calls were abandoned by the procedure and a new one begun
\* (_call, _send_action, motion_fault).
NoSecondMotion == [][job.goal = "none" /\ job'.goal = "asked" => loose = 0]_vars

\* A procedure comes to an end though the services, the Arduino, the feedback and
\* the controllers may fall silent.
ProcedureEnds == (pc # "idle") ~> (pc = "idle")

-----------------------------------------------------------------------------
\* The answer of _cancel_changer is "cancel latched; no retreat": once a cancel is
\* accepted the arm is not told to leave the tool.
CancelKeepsTheArm ==
  [][cancelled /\ stage > Lock => Len(calls') <= Len(calls)]_vars
=============================================================================
