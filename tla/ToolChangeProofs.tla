--------------------------- MODULE ToolChangeProofs ---------------------------
(***************************************************************************)
(* Safety of ToolChange for every value of its constants: a tool is left   *)
(* only locked, an aborted lock stays aborted, and the arm never gets two  *)
(* goals.                                                                  *)
(***************************************************************************)
EXTENDS ToolChange, SequenceTheorems, TLAPS

-----------------------------------------------------------------------------
(* The inductive invariant, in three parts *)

Moving == {"gate", "ask", "called", "failed"}
Locking == {"settle", "wait", "abort"}
Waiting == {"wait", "abort"}

\* The thread is in the lock exactly in the stage of that name, and holds a
\* transaction exactly while it waits for the answer.
ProcedureInv ==
  /\ pc \in {"idle"} \cup Moving \cup Locking
  /\ stage \in 1 .. 7 /\ answer \in {"none", "ok", "failed"}
  /\ requests \in 0 .. MaxRequests /\ settled \in 0 .. Samples - 1
  /\ pc \in Moving => stage # Lock
  /\ pc \in Locking => stage = Lock
  /\ transaction.live <=> pc \in Waiting

Transactions == [live : BOOLEAN, complete : BOOLEAN, failed : BOOLEAN,
                 stopped : BOOLEAN, age : Nat]

\* While a transaction has not been stopped nothing on the wire stops the tool, and
\* what it is told of the tool is still so.
Attended(t, w, d, r) ==
  /\ t \in Transactions /\ w \in Seq({"LOCK", "STOP"})
  /\ d \in {"idle", "moving", "locked", "failed", "stopped"}
  /\ r \subseteq {"LOCKED", "ERROR", "foreign"}
  /\ t.stopped => t.failed
  /\ ~(t.failed /\ t.complete)
  /\ t.live /\ ~t.stopped => w \in Seq({"LOCK"}) /\ d # "stopped"
  /\ "LOCKED" \in r => d \in {"locked", "stopped"}
  /\ t.live /\ t.complete => d = "locked"

LockInv == Attended(transaction, wire, tool, replies)

\* A goal that was given up has left its fault, and after a fault none is handed on.
ExecutorInv ==
  /\ calls \in Seq(BOOLEAN) /\ fault \in BOOLEAN
  /\ job \in [goal : {"none", "asked", "running"}, live : BOOLEAN]
  /\ loose \in 0 .. 1
  /\ loose > 0 => fault
  /\ job.goal # "none" => ~fault

Inv == ProcedureInv /\ LockInv /\ ExecutorInv

LEMMA SevenStages == Len(Stages) = 7
  BY DEF Stages

LEMMA WireFacts ==
  ASSUME NEW S, NEW w \in Seq(S)
  PROVE  /\ \A v \in S : Append(w, v) \in Seq(S)
         /\ w # <<>> => Head(w) \in S /\ Tail(w) \in Seq(S)
  BY AppendProperties, HeadTailProperties

LEMMA WireEmpty == ASSUME NEW S PROVE <<>> \in Seq(S) /\ \A v \in S : <<v>> \in Seq(S)
  BY EmptySeq

\* What an abort makes of the transaction, and of the wire.
LEMMA AbortFacts ==
  ASSUME Inv, Abort(transaction)
  PROVE  /\ transaction' \in Transactions /\ transaction'.live = transaction.live
         /\ Attended(transaction', wire', tool, replies)
         /\ transaction' = transaction \/ transaction'.failed
<1>1. transaction \in Transactions /\ wire \in Seq({"LOCK", "STOP"})
  BY DEF Inv, LockInv, Attended
<1>2. CASE ~transaction.live
  BY <1>1, <1>2 DEF Abort, Inv, LockInv
<1>3. CASE transaction.live
  <2>1. /\ transaction' = Fail(transaction)
        /\ wire' = wire \/ wire' = Append(wire, "STOP")
    BY <1>3 DEF Abort
  <2>2. /\ transaction' \in Transactions /\ transaction'.live /\ transaction'.stopped
        /\ transaction'.failed /\ ~transaction'.complete
    BY <1>1, <1>3, <2>1 DEF Fail, Transactions
  <2>3. wire' \in Seq({"LOCK", "STOP"})
    BY <1>1, <2>1, WireFacts
  <2> QED BY <1>3, <2>2, <2>3 DEF Inv, LockInv, Attended
<1> QED BY <1>2, <1>3

-----------------------------------------------------------------------------
(* Where the thread is *)

LEMMA AfterFacts ==
  ASSUME NEW k \in 1 .. 7, After(k)
  PROVE  /\ pc' \in {"idle", "settle", "gate"}
         /\ pc' = "idle" => stage' = stage
         /\ pc' = "settle" => stage' = Lock
         /\ pc' = "gate" => stage' = k + 1 /\ k + 1 # Lock /\ k < 7
         /\ settled' = 0 \/ settled' = settled
  BY SevenStages DEF After, looked, Lock

LEMMA ProcedureStep ==
  ASSUME Inv, [Next]_vars PROVE ProcedureInv'
<1>0. /\ pc \in {"idle"} \cup Moving \cup Locking
      /\ stage \in 1 .. 7 /\ answer \in {"none", "ok", "failed"}
      /\ requests \in 0 .. MaxRequests /\ settled \in 0 .. Samples - 1
      /\ pc \in Moving => stage # Lock
      /\ pc \in Locking => stage = Lock
      /\ transaction.live <=> pc \in Waiting
  BY DEF Inv, ProcedureInv
<1>a. \* The thread and its transaction are left alone.
      ASSUME UNCHANGED <<pc, stage, settled, requests>>, transaction'.live = transaction.live,
             answer' \in {"none", "ok", "failed"}
      PROVE  ProcedureInv'
  BY <1>0, <1>a DEF ProcedureInv
<1>b. Samples \in Nat \ {0} /\ MaxRequests \in Nat
  BY ToolChangeAssumption
<1>1. CASE UNCHANGED vars
  BY <1>0, <1>1, <1>a DEF vars, procedure, looked
<1>2. CASE Request
  BY <1>0, <1>2, <1>b DEF Request, procedure, looked, ProcedureInv
<1>3. CASE Take
  BY <1>0, <1>3, <1>b DEF Take, looked, ProcedureInv, Moving, Locking, Waiting, Lock
<1>4. CASE Gate
  BY <1>0, <1>4 DEF Gate, Hold, looked, ProcedureInv, Moving, Locking, Waiting
<1>5. CASE Ask
  BY <1>0, <1>5 DEF Ask, looked, ProcedureInv, Moving, Locking, Waiting
<1>6. CASE Answered
  <2>1. /\ pc = "called" /\ requests' = requests /\ transaction' = transaction
        /\ answer' = "none"
        /\ After(stage) \/ (pc' = "idle" /\ stage' = stage /\ settled' = settled)
    BY <1>6 DEF Answered, Hold, looked
  <2>2. CASE After(stage)
    BY <1>0, <1>b, <2>1, <2>2, AfterFacts DEF ProcedureInv, Moving, Locking, Waiting, Lock
  <2>3. CASE pc' = "idle" /\ stage' = stage /\ settled' = settled
    BY <1>0, <2>1, <2>3 DEF ProcedureInv, Moving, Locking, Waiting
  <2> QED BY <2>1, <2>2, <2>3
<1>7. CASE Failed
  BY <1>0, <1>7 DEF Failed, Hold, looked, ProcedureInv, Moving, Locking, Waiting
<1>8. CASE Settle
  <2>1. NoTransaction.live = FALSE /\ [NoTransaction EXCEPT !.live = TRUE].live = TRUE
    BY DEF NoTransaction
  <2>2. pc = "settle" /\ requests' = requests
    BY <1>8 DEF Settle
  <2>3. \/ /\ pc' = "idle" /\ stage' = stage /\ answer' = "none" /\ settled' = settled
           /\ transaction' = transaction
        \/ /\ pc' = "wait" /\ stage' = stage /\ answer' = answer /\ settled' = 0
           /\ transaction'.live = TRUE
        \/ /\ pc' = pc /\ stage' = stage /\ answer' = answer /\ settled' \in 0 .. Samples - 1
           /\ transaction' = transaction
    <3> DEFINE n == IF ~news THEN settled ELSE IF Docked THEN settled + 1 ELSE 0
    <3>1. n \in Nat
      BY <1>0, <1>b
    <3>2. n < Samples => n \in 0 .. Samples - 1
      BY <1>b, <3>1
    <3>3. \/ Hold /\ UNCHANGED <<looked, transaction>>
          \/ /\ n >= Samples /\ settled' = 0 /\ pc' = "wait"
             /\ transaction' = [NoTransaction EXCEPT !.live = TRUE]
             /\ UNCHANGED <<stage, answer>>
          \/ ~(n >= Samples) /\ settled' = n /\ UNCHANGED <<pc, transaction, stage, answer>>
      BY <1>8 DEF Settle
    <3> HIDE DEF n
    <3>4. ~(n >= Samples) => n < Samples
      BY <1>b, <3>1
    <3> QED BY <2>1, <3>2, <3>3, <3>4 DEF Hold, looked
  <2> QED BY <1>0, <1>b, <2>2, <2>3 DEF ProcedureInv, Moving, Locking, Waiting
<1>9. CASE SettleFails
  BY <1>0, <1>9 DEF SettleFails, Hold, looked, ProcedureInv, Moving, Locking, Waiting
<1>10. CASE Wait
  <2> DEFINE t == IF Safe /\ Docked /\ Overdue(transaction)
                  THEN [transaction EXCEPT !.failed = TRUE] ELSE transaction
  <2>1. t.live = transaction.live
    BY DEF Inv, LockInv, Attended, Transactions
  <2>2. /\ pc = "wait" /\ requests' = requests
        /\ \/ pc' = "abort" /\ transaction' = t /\ UNCHANGED <<stage, answer, settled>>
           \/ transaction' = NoTransaction /\ After(Lock) /\ answer' = answer
           \/ UNCHANGED <<pc, stage, answer, settled, transaction>>
    BY <1>10 DEF Wait, procedure, looked
  <2> HIDE DEF t
  <2>3. CASE pc' = "abort" /\ transaction' = t /\ UNCHANGED <<stage, answer, settled>>
    BY <1>0, <2>1, <2>2, <2>3 DEF ProcedureInv, Moving, Locking, Waiting
  <2>4. CASE transaction' = NoTransaction /\ After(Lock) /\ answer' = answer
    <3>1. Lock \in 1 .. 7 /\ Lock + 1 \in 1 .. 7 /\ Lock + 1 # Lock
      BY DEF Lock
    <3>2. pc' \in {"idle", "gate"}
      BY <2>4, SevenStages DEF After, Lock
    <3>3. NoTransaction.live = FALSE
      BY DEF NoTransaction
    <3>4. /\ pc' = "idle" => stage' = stage
          /\ pc' = "gate" => stage' = Lock + 1
          /\ settled' = 0 \/ settled' = settled
      BY <2>4, <3>1, AfterFacts
    <3> QED BY <1>0, <1>b, <2>2, <2>4, <3>1, <3>2, <3>3, <3>4
            DEF ProcedureInv, Moving, Locking, Waiting
  <2> QED BY <1>0, <1>a, <2>2, <2>3, <2>4
<1>11. CASE AbortLock
  <2>1. Released.live = FALSE
    BY DEF Released, NoTransaction
  <2> QED BY <1>0, <1>11, <2>1
          DEF AbortLock, Hold, looked, ProcedureInv, Moving, Locking, Waiting
<1>12. CASE OnFeedback \/ OnControllers \/ OnHardwareFault \/ Cancel
  <2>1. UNCHANGED <<pc, stage, answer, settled, requests>>
    BY <1>12 DEF OnFeedback, OnControllers, OnHardwareFault, Cancel,
       procedure, looked
  <2>2. Abort(transaction) \/ transaction' = transaction
    BY <1>12 DEF OnFeedback, OnControllers, OnHardwareFault, Cancel
  <2> QED BY <1>0, <1>a, <2>1, <2>2, AbortFacts
<1>13. CASE \E r \in replies : OnStatus(r)
  <2>1. PICK r \in replies : OnStatus(r)
    BY <1>13
  <2>2. transaction'.live = transaction.live
    BY <2>1 DEF OnStatus, Inv, LockInv, Attended, Transactions
  <2> QED BY <1>0, <1>a, <2>1, <2>2 DEF OnStatus, procedure, looked
<1>14. CASE Deliver \/ ToolEnds
  BY <1>0, <1>14, <1>a DEF Deliver, ToolEnds, procedure, looked
<1>15. CASE Begin \/ Accept \/ Result \/ Unresolved
  BY <1>0, <1>15, <1>a DEF Begin, Accept, Result, Unresolved, Answer, looked
<1>16. CASE Elapse
  <2>1. transaction'.live = transaction.live
    BY <1>16 DEF Elapse, Inv, LockInv, Attended, Transactions
  <2> QED BY <1>0, <1>16, <1>a, <2>1 DEF Elapse, procedure, looked
<1> QED BY <1>1, <1>2, <1>3, <1>4, <1>5, <1>6, <1>7, <1>8, <1>9, <1>10, <1>11, <1>12,
           <1>13, <1>14, <1>15, <1>16 DEF Next, Procedure

-----------------------------------------------------------------------------
(* The lock *)

LEMMA LockStep == ASSUME Inv, [Next]_vars PROVE LockInv'
<1>0. Attended(transaction, wire, tool, replies)
  BY DEF Inv, LockInv
<1>t. transaction \in Transactions
  BY <1>0 DEF Attended
<1>n. /\ NoTransaction \in Transactions
      /\ ~NoTransaction.live /\ ~NoTransaction.stopped /\ ~NoTransaction.failed
      /\ ~NoTransaction.complete
  BY DEF NoTransaction, Transactions
<1>e. \* Without a transaction only the wire and the tool are to be looked at.
      ASSUME transaction' = NoTransaction, tool' = tool, replies' = replies,
             wire' \in Seq({"LOCK", "STOP"})
      PROVE  LockInv'
  BY <1>0, <1>n, <1>e DEF LockInv, Attended
<1>1. CASE UNCHANGED <<transaction, wire, tool, replies>>
  BY <1>0, <1>1 DEF LockInv
<1>2. CASE Settle
  <2>1. \/ UNCHANGED <<transaction, wire, tool, replies>>
        \/ /\ transaction' = [NoTransaction EXCEPT !.live = TRUE]
           /\ wire' = <<"LOCK">> /\ tool' = "idle" /\ replies' = Foreign
    BY <1>2 DEF Settle, arduino
  <2>2. CASE /\ transaction' = [NoTransaction EXCEPT !.live = TRUE]
             /\ wire' = <<"LOCK">> /\ tool' = "idle" /\ replies' = Foreign
    <3>1. <<"LOCK">> \in Seq({"LOCK"}) /\ <<"LOCK">> \in Seq({"LOCK", "STOP"})
      BY WireEmpty
    <3>2. Foreign \subseteq {"foreign"}
      BY DEF Foreign
    <3>3. /\ transaction' \in Transactions /\ transaction'.live /\ ~transaction'.stopped
          /\ ~transaction'.failed /\ ~transaction'.complete
      BY <2>2 DEF NoTransaction, Transactions
    <3>4. replies' \subseteq {"foreign"} /\ tool' = "idle" /\ wire' = <<"LOCK">>
      BY <2>2, <3>2
    <3> QED BY <3>1, <3>3, <3>4 DEF LockInv, Attended
  <2> QED BY <1>1, <2>1, <2>2
<1>3. CASE Wait
  <2> DEFINE t == IF Safe /\ Docked /\ Overdue(transaction)
                  THEN [transaction EXCEPT !.failed = TRUE] ELSE transaction
  <2>1. /\ UNCHANGED <<wire, tool, replies>>
        /\ transaction' = t \/ transaction' = NoTransaction \/ transaction' = transaction
    BY <1>3 DEF Wait, arduino
  <2>2. CASE transaction' = t
    <3>1. Overdue(transaction) => ~transaction.complete
      BY DEF Overdue
    <3> QED BY <1>0, <1>t, <2>1, <2>2, <3>1 DEF LockInv, Attended, Transactions
  <2>3. CASE transaction' = NoTransaction
    BY <1>0, <1>e, <2>1, <2>3 DEF Attended
  <2> QED BY <1>1, <2>1, <2>2, <2>3
<1>4. CASE AbortLock
  <2>1. /\ transaction' = NoTransaction /\ UNCHANGED <<tool, replies>>
        /\ wire' = wire \/ wire' = Append(wire, "STOP")
    BY <1>4 DEF AbortLock, Released
  <2>2. wire' \in Seq({"LOCK", "STOP"})
    BY <1>0, <2>1, WireFacts DEF Attended
  <2> QED BY <1>e, <2>1, <2>2
<1>5. CASE OnFeedback \/ OnControllers \/ OnHardwareFault \/ Cancel
  <2>1. UNCHANGED <<tool, replies>> /\ (Abort(transaction) \/ UNCHANGED <<transaction, wire>>)
    BY <1>5 DEF OnFeedback, OnControllers, OnHardwareFault, Cancel
  <2> QED BY <1>1, <2>1, AbortFacts DEF LockInv
<1>6. CASE \E r \in replies : OnStatus(r)
  <2>1. PICK r \in replies : OnStatus(r)
    BY <1>6
  <2>2. /\ UNCHANGED <<wire, tool>> /\ replies' \subseteq replies
        /\ "LOCKED" \in replies' => "LOCKED" \in replies
    BY <2>1 DEF OnStatus
  <2>3. r \in {"LOCKED", "ERROR", "foreign"}
    BY <1>0 DEF Attended
  <2>4. \/ transaction' = transaction
        \/ /\ transaction' = [transaction EXCEPT !.failed = TRUE]
           /\ ~transaction.complete
        \/ /\ transaction' = [transaction EXCEPT !.complete = TRUE]
           /\ transaction.live /\ ~transaction.failed /\ r = "LOCKED"
    BY <2>1, <2>3 DEF OnStatus, OwnId
  <2>5. CASE transaction' = transaction
    BY <1>0, <2>2, <2>5 DEF LockInv, Attended
  <2>6. CASE /\ transaction' = [transaction EXCEPT !.failed = TRUE]
             /\ ~transaction.complete
    BY <1>0, <1>t, <2>2, <2>6 DEF LockInv, Attended, Transactions
  <2>7. CASE /\ transaction' = [transaction EXCEPT !.complete = TRUE]
             /\ transaction.live /\ ~transaction.failed /\ r = "LOCKED"
    <3>1. /\ transaction' \in Transactions
          /\ transaction'.stopped = transaction.stopped /\ ~transaction.stopped
          /\ ~transaction'.failed
      BY <1>0, <1>t, <2>7 DEF Attended, Transactions
    <3>2. tool = "locked"
      BY <1>0, <2>7, <3>1 DEF Attended
    <3> QED BY <1>0, <2>2, <2>7, <3>1, <3>2 DEF LockInv, Attended
  <2> QED BY <2>4, <2>5, <2>6, <2>7
<1>7. CASE Deliver
  <2>1. /\ wire # <<>> /\ wire' = Tail(wire) /\ UNCHANGED <<transaction, replies>>
        /\ \/ tool' = IF Head(wire) = "STOP" THEN "stopped"
                      ELSE IF Head(wire) = "LOCK" /\ tool = "idle" THEN "moving" ELSE tool
           \/ tool' = tool
    BY <1>7 DEF Deliver
  <2>2. wire' \in Seq({"LOCK", "STOP"}) /\ Head(wire) \in {"LOCK", "STOP"}
    BY <1>0, <2>1, WireFacts DEF Attended
  <2>3. wire \in Seq({"LOCK"}) => wire' \in Seq({"LOCK"}) /\ Head(wire) = "LOCK"
    BY <2>1, WireFacts
  <2> QED BY <1>0, <2>1, <2>2, <2>3 DEF LockInv, Attended
<1>8. CASE ToolEnds
  <2>1. PICK s \in {"LOCKED", "ERROR"} :
          /\ tool = "moving" /\ tool' = IF s = "LOCKED" THEN "locked" ELSE "failed"
          /\ replies' = replies \cup {s} /\ UNCHANGED <<transaction, wire>>
    BY <1>8 DEF ToolEnds
  <2> QED BY <1>0, <2>1 DEF LockInv, Attended
<1>9. CASE Elapse
  <2>1. /\ UNCHANGED <<wire, tool, replies>>
        /\ transaction' = transaction \/ transaction' = [transaction EXCEPT !.age = @ + 1]
    BY <1>9 DEF Elapse, arduino
  <2> QED BY <1>0, <1>t, <2>1 DEF LockInv, Attended, Transactions
<1>10. CASE Request \/ Take \/ Gate \/ Ask \/ Answered \/ Failed \/ SettleFails
            \/ Begin \/ Accept \/ Result \/ Unresolved \/ UNCHANGED vars
  <2>1. UNCHANGED <<transaction, wire, tool, replies>>
    BY <1>10 DEF Request, Take, Gate, Ask, Answered, Failed, SettleFails, Begin, Accept,
       Result, Unresolved, vars, arduino
  <2> QED BY <1>1, <2>1
<1> QED BY <1>2, <1>3, <1>4, <1>5, <1>6, <1>7, <1>8, <1>9, <1>10 DEF Next, Procedure

-----------------------------------------------------------------------------
(* The executor *)

LEMMA ExecutorStep == ASSUME Inv, [Next]_vars PROVE ExecutorInv'
<1>0. /\ calls \in Seq(BOOLEAN) /\ fault \in BOOLEAN
      /\ job \in [goal : {"none", "asked", "running"}, live : BOOLEAN]
      /\ loose \in 0 .. 1
      /\ loose > 0 => fault
      /\ job.goal # "none" => ~fault
  BY DEF Inv, ExecutorInv
<1>n. NoJob \in [goal : {"none", "asked", "running"}, live : BOOLEAN] /\ NoJob.goal = "none"
  BY DEF NoJob
<1>1. CASE UNCHANGED executor
  BY <1>0, <1>1 DEF executor, ExecutorInv
<1>2. CASE Ask
  <2>1. UNCHANGED <<job, loose, fault>> /\ (calls' = Append(calls, TRUE) \/ calls' = calls)
    BY <1>2 DEF Ask
  <2>2. calls' \in Seq(BOOLEAN)
    <3>1. Append(calls, TRUE) \in Seq(BOOLEAN)
      BY <1>0, AppendProperties
    <3> QED BY <1>0, <2>1, <3>1
  <2> QED BY <1>0, <2>1, <2>2 DEF ExecutorInv
<1>3. CASE Answered
  <2>1. /\ UNCHANGED <<loose, fault>>
        /\ \/ UNCHANGED <<calls, job>>
           \/ calls' = Abandoned /\ job' = [job EXCEPT !.live = FALSE]
    BY <1>3 DEF Answered
  <2>2. Abandoned \in Seq(BOOLEAN)
    <3>1. Len(calls) \in Nat /\ DOMAIN calls = 1 .. Len(calls)
      BY <1>0, LenProperties
    <3>2. Abandoned \in [1 .. Len(calls) -> BOOLEAN]
      BY <3>1 DEF Abandoned
    <3> QED BY <3>1, <3>2, SeqDef
  <2> QED BY <1>0, <2>1, <2>2 DEF ExecutorInv
<1>4. CASE Begin
  <2>1. /\ calls # <<>> /\ calls' = Tail(calls) /\ UNCHANGED <<loose, fault>>
        /\ \/ job' = job
           \/ ~fault /\ job' = [goal |-> "asked", live |-> Head(calls)]
    BY <1>4 DEF Begin
  <2>2. calls' \in Seq(BOOLEAN) /\ Head(calls) \in BOOLEAN
    BY <1>0, <2>1, WireFacts
  <2> QED BY <1>0, <2>1, <2>2 DEF ExecutorInv
<1>5. CASE Accept
  <2>1. /\ job.goal = "asked" /\ UNCHANGED <<calls, loose, fault>>
        /\ job' = [job EXCEPT !.goal = "running"] \/ job' = NoJob
    BY <1>5 DEF Accept
  <2> QED BY <1>0, <1>n, <2>1 DEF ExecutorInv
<1>6. CASE Result
  <2>1. job' = NoJob /\ UNCHANGED <<calls, loose>> /\ (fault' = fault \/ fault' = TRUE)
    BY <1>6 DEF Result
  <2> QED BY <1>0, <1>n, <2>1 DEF ExecutorInv
<1>7. CASE Unresolved
  <2>1. /\ job.goal # "none" /\ job' = NoJob /\ loose' = loose + 1 /\ fault' = TRUE
        /\ calls' = calls
    BY <1>7 DEF Unresolved, GiveUp
  <2>2. loose = 0
    BY <1>0, <2>1
  <2>3. loose' = 1
    BY <2>1, <2>2
  <2> QED BY <1>0, <1>n, <2>1, <2>3 DEF ExecutorInv
<1>8. CASE Request \/ Take \/ Gate \/ Failed \/ Settle \/ SettleFails \/ Wait \/ AbortLock
           \/ OnFeedback \/ OnControllers \/ OnHardwareFault \/ Cancel
           \/ (\E r \in replies : OnStatus(r)) \/ Deliver \/ ToolEnds \/ Elapse
           \/ UNCHANGED vars
  <2>1. UNCHANGED executor
    BY <1>8 DEF Request, Take, Gate, Failed, Settle, SettleFails, Wait, AbortLock,
       OnFeedback, OnControllers, OnHardwareFault, Cancel, OnStatus, Deliver,
       ToolEnds, Elapse, vars
  <2> QED BY <1>1, <2>1
<1> QED BY <1>2, <1>3, <1>4, <1>5, <1>6, <1>7, <1>8 DEF Next, Procedure

LEMMA InvStart == Init => Inv
<1> SUFFICES ASSUME Init PROVE Inv
  OBVIOUS
<1>1. ProcedureInv
  BY ToolChangeAssumption DEF Init, ProcedureInv, NoTransaction, Moving, Locking, Waiting
<1>2. LockInv
  <2>1. transaction \in Transactions /\ ~transaction.live /\ ~transaction.stopped
        /\ ~transaction.failed /\ ~transaction.complete
    BY DEF Init, NoTransaction, Transactions
  <2>2. wire \in Seq({"LOCK", "STOP"})
    BY WireEmpty DEF Init
  <2> QED BY <2>1, <2>2 DEF Init, LockInv, Attended
<1>3. ExecutorInv
  <2>1. calls \in Seq(BOOLEAN)
    BY WireEmpty DEF Init
  <2>2. job = NoJob /\ loose = 0 /\ fault = FALSE
    BY DEF Init
  <2>3. /\ job \in [goal : {"none", "asked", "running"}, live : BOOLEAN]
        /\ job.goal = "none"
    BY <2>2 DEF NoJob
  <2>4. loose \in 0 .. 1 /\ ~(loose > 0)
    BY <2>2
  <2>5. fault \in BOOLEAN
    BY <2>2
  <2> QED BY <2>1, <2>3, <2>4, <2>5 DEF ExecutorInv
<1> QED BY <1>1, <1>2, <1>3 DEF Inv

LEMMA InvAlways == Spec => []Inv
<1>1. Inv /\ [Next]_vars => Inv'
  BY ProcedureStep, LockStep, ExecutorStep DEF Inv
<1> QED BY InvStart, <1>1, PTL DEF Spec

-----------------------------------------------------------------------------
(* What the procedure promises *)

\* The thread, the transaction it holds and the executor's goals fit together.
THEOREM TypeCorrect == Spec => []TypeOK
<1>1. Inv => TypeOK
  BY SevenStages DEF Inv, ProcedureInv, LockInv, Attended, ExecutorInv, TypeOK,
     Moving, Locking, Waiting
<1> QED BY InvAlways, <1>1, PTL

\* The stage after the lock is reached from the loop that waits for the Arduino alone,
\* with a completion that no STOP has gone out against.
THEOREM ToolIsLeftLocked == Spec => LeavesLockedTool
<1> DEFINE Step == stage <= Lock /\ stage' > Lock => tool = "locked"
<1>1. Inv /\ [Next]_vars => [Step]_vars
  <2> SUFFICES ASSUME Inv, Next, stage <= Lock, stage' > Lock PROVE tool = "locked"
    OBVIOUS
  <2>0. stage \in 1 .. 7 /\ (pc \in Moving => stage # Lock)
    BY DEF Inv, ProcedureInv
  <2>1. CASE Answered
    <3>1. pc = "called" /\ (After(stage) \/ stage' = stage)
      BY <2>1 DEF Answered, Hold
    <3>2. stage + 1 <= Lock
      BY <2>0, <3>1 DEF Lock, Moving
    <3>3. stage' \in {stage, Lock, stage + 1}
      BY <3>1 DEF After
    <3> QED BY <2>0, <3>2, <3>3 DEF Lock
  <2>2. CASE Wait
    <3>1. transaction.complete \/ stage' = stage
      BY <2>2 DEF Wait, procedure, Overdue
    <3>2. pc = "wait"
      BY <2>2 DEF Wait
    <3> QED BY <2>0, <3>1, <3>2 DEF Inv, ProcedureInv, Waiting, LockInv, Attended, Lock
  <2>3. CASE Take
    <3>1. stage' \in {1, stage}
      BY <2>3 DEF Take
    <3> QED BY <2>0, <3>1 DEF Lock
  <2>4. CASE ~(Answered \/ Wait \/ Take)
    <3>1. stage' = stage
      BY <2>4 DEF Next, Procedure, Request, Gate, Ask, Failed, Settle, SettleFails,
         AbortLock, OnFeedback, OnControllers, OnHardwareFault, Cancel, OnStatus,
         Deliver, ToolEnds, Begin, Accept, Result, Unresolved, Elapse, Hold, procedure
    <3> QED BY <2>0, <3>1 DEF Lock
  <2> QED BY <2>1, <2>2, <2>3, <2>4
<1>2. Spec => [][Step]_vars
  BY InvAlways, <1>1, PTL DEF Spec
<1> QED BY <1>2 DEF LeavesLockedTool

\* A transaction that has been stopped has failed, so the loop can only raise.
THEOREM StoppedIsHeld == Spec => StopIsFinal
<1> DEFINE Step == transaction.live /\ transaction.stopped /\ ~transaction'.live
                   => state' = "HOLD" /\ stage' = Lock
<1>1. Inv /\ [Next]_vars => [Step]_vars
  <2> SUFFICES ASSUME Inv, Next, transaction.live, transaction.stopped, ~transaction'.live
               PROVE  state' = "HOLD" /\ stage' = Lock
    OBVIOUS
  <2>0. /\ transaction \in Transactions /\ transaction.failed /\ ~transaction.complete
        /\ pc \in Waiting /\ stage = Lock
    BY DEF Inv, ProcedureInv, LockInv, Attended, Waiting, Locking
  <2>1. CASE AbortLock
    BY <2>0, <2>1 DEF AbortLock, Hold
  <2>2. CASE Wait
    <3>1. ~Overdue(transaction)
      BY <2>0 DEF Overdue
    <3>2. transaction' = transaction
      BY <2>0, <2>2, <3>1 DEF Wait
    <3> QED BY <3>2
  <2>3. CASE Settle
    BY <2>0, <2>3 DEF Settle, Waiting
  <2>4. CASE OnFeedback \/ OnControllers \/ OnHardwareFault \/ Cancel
    <3>1. Abort(transaction) \/ transaction' = transaction
      BY <2>4 DEF OnFeedback, OnControllers, OnHardwareFault, Cancel
    <3> QED BY <3>1, AbortFacts
  <2>5. CASE \E r \in replies : OnStatus(r)
    BY <2>0, <2>5 DEF OnStatus, Transactions
  <2>6. CASE Elapse
    BY <2>0, <2>6 DEF Elapse, Transactions
  <2>7. CASE ~(\/ AbortLock \/ Wait \/ Settle \/ OnFeedback \/ OnControllers
               \/ OnHardwareFault \/ Cancel \/ (\E r \in replies : OnStatus(r)) \/ Elapse)
    <3>1. transaction' = transaction
      BY <2>7 DEF Next, Procedure, Request, Take, Gate, Ask, Answered, Failed, SettleFails,
         Deliver, ToolEnds, Begin, Accept, Result, Unresolved, arduino
    <3> QED BY <3>1
  <2> QED BY <2>1, <2>2, <2>3, <2>4, <2>5, <2>6, <2>7
<1>2. Spec => [][Step]_vars
  BY InvAlways, <1>1, PTL DEF Spec
<1> QED BY <1>2 DEF StopIsFinal

\* A goal is handed on only without a fault, and one that was given up has left one.
THEOREM OneMotionAtATime == Spec => NoSecondMotion
<1> DEFINE Step == job.goal = "none" /\ job'.goal = "asked" => loose = 0
<1>1. Inv /\ [Next]_vars => [Step]_vars
  <2> SUFFICES ASSUME Inv, Next, job.goal = "none", job'.goal = "asked" PROVE loose = 0
    OBVIOUS
  <2>0. loose \in 0 .. 1 /\ (loose > 0 => fault)
        /\ job \in [goal : {"none", "asked", "running"}, live : BOOLEAN]
    BY DEF Inv, ExecutorInv
  <2>1. CASE Begin
    <3>1. ~fault
      BY <2>1 DEF Begin
    <3> QED BY <2>0, <3>1
  <2>2. CASE Answered
    <3>1. job'.goal = job.goal
      BY <2>0, <2>2 DEF Answered
    <3> QED BY <3>1
  <2>3. CASE Accept \/ Result \/ Unresolved
    BY <2>3 DEF Accept, Result, Unresolved
  <2>4. CASE ~(Begin \/ Answered \/ Accept \/ Result \/ Unresolved)
    <3>1. job' = job
      BY <2>4 DEF Next, Procedure, Request, Take, Gate, Ask, Failed, Settle, SettleFails,
         Wait, AbortLock, OnFeedback, OnControllers, OnHardwareFault, Cancel,
         OnStatus, Deliver, ToolEnds, Elapse, executor
    <3> QED BY <3>1
  <2> QED BY <2>1, <2>2, <2>3, <2>4
<1>2. Spec => [][Step]_vars
  BY InvAlways, <1>1, PTL DEF Spec
<1> QED BY <1>2 DEF NoSecondMotion
=============================================================================
