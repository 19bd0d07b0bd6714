----------------------- MODULE DurableRuntime_proofs -----------------------
(***************************************************************************)
(* Theorems about DurableRuntime, for any pods, invocations, sessions and  *)
(* any number of faults.  The argument goes through the rows alone: every  *)
(* step of the runtime is one of four kinds of change of `row` (RowStep),  *)
(* and the order of a session is kept by each of the four.                 *)
(***************************************************************************)
EXTENDS DurableRuntime, TLAPS

USE RuntimeAssumption, StoreAssumption

-----------------------------------------------------------------------------
(* The maximum that accept computes is a number, and no order exceeds it.   *)
LEMMA NextOrderIsNew ==
  ASSUME StoreTypeOK, NEW s \in Sessions,
         \E m \in Orders(s) : \A n \in Orders(s) : m >= n
  PROVE  /\ NextOrder(s) \in Nat \ {0}
         /\ \A i \in InSession(s) : row[i].order < NextOrder(s)
<1>1. Orders(s) \subseteq Nat
  BY DEF Orders, InSession, StoreTypeOK, Row
<1>2. PICK m \in Orders(s) : \A n \in Orders(s) : m >= n
  OBVIOUS
<1>3. /\ Max(Orders(s)) \in Orders(s)
      /\ \A n \in Orders(s) : Max(Orders(s)) >= n
  BY <1>2 DEF Max
<1>4. \A i \in InSession(s) : row[i].order \in Orders(s)
  BY DEF Orders
<1>. QED
  BY <1>1, <1>3, <1>4 DEF NextOrder

(* Every row change keeps the types of the store.                           *)
LEMMA AcceptType ==
  ASSUME StoreTypeOK, OrdersBounded, NEW i \in Invocations,
         NEW s \in Sessions \cup {NoSession}, NEW r \in Requests, Accept(i, s, r)
  PROVE  StoreTypeOK'
<1>1. s # NoSession => NextOrder(s) \in Nat
  BY NextOrderIsNew DEF OrdersBounded
<1>. QED
  BY <1>1 DEF StoreTypeOK, Accept, Row, Status

(* A claim keeps the store's types, and its attempt is a number. *)
LEMMA TakeOverType ==
  ASSUME StoreTypeOK, NEW i \in Invocations, TakeOver(i)
  PROVE  StoreTypeOK' /\ row'[i].attempt \in Nat
<1>1. row' \in [Invocations -> Row] /\ row'[i].attempt \in Nat
  <2>1. row[i] \in Row
    BY DEF StoreTypeOK
  <2>2. [row[i] EXCEPT !.status = "ACTIVE", !.attempt = row[i].attempt + 1, !.fresh = TRUE] \in Row
    <3>1. row[i].attempt + 1 \in Nat /\ "ACTIVE" \in Status /\ TRUE \in BOOLEAN
      BY <2>1 DEF Row, Status
    <3>. QED
      BY <2>1, <3>1 DEF Row
  <2>3. row' \in [Invocations -> Row]
    BY <2>2 DEF StoreTypeOK, TakeOver
  <2>. QED
    BY <2>3 DEF Row
<1>2. [attempt |-> row[i].attempt + 1, type |-> "run.started"] \in Event
  BY DEF StoreTypeOK, Row, Event
<1>3. log' \in [Invocations -> Seq(Event)]
  BY <1>2 DEF StoreTypeOK, TakeOver
<1>. QED
  BY <1>1, <1>3 DEF StoreTypeOK

(* Completion and failure keep the store's types. *)
LEMMA FinishType ==
  ASSUME StoreTypeOK, NEW i \in Invocations, NEW a \in Nat, Complete(i, a) \/ Fail(i, a)
  PROVE  StoreTypeOK'
<1>1. PICK st \in Terminal, e \in {"run.completed", "run.failed"} : Finish(i, a, st, e)
  BY DEF Complete, Fail, Terminal
<1>2. row' \in [Invocations -> Row]
  BY <1>1 DEF StoreTypeOK, Finish, Row, Status, Terminal
<1>3. [attempt |-> a, type |-> e] \in Event
  BY <1>1 DEF Event
<1>4. log' \in [Invocations -> Seq(Event)]
  BY <1>1, <1>3 DEF StoreTypeOK, Finish
<1>. QED
  BY <1>2, <1>4 DEF StoreTypeOK

(* An emitted event keeps the store's types. *)
LEMMA AppendType ==
  ASSUME StoreTypeOK, NEW i \in Invocations, NEW a \in Nat, AppendEvent(i, a)
  PROVE  StoreTypeOK'
<1>1. [attempt |-> a, type |-> "emitted"] \in Event
  BY DEF Event
<1>. QED
  BY <1>1 DEF StoreTypeOK, AppendEvent

(* A heartbeat and its lapse keep the store's types. *)
LEMMA FreshnessType ==
  ASSUME StoreTypeOK, NEW i \in Invocations,
         (\E a \in Nat : Heartbeat(i, a)) \/ Expire(i)
  PROVE  StoreTypeOK'
<1>1. row[i] \in Row /\ \A b \in BOOLEAN : [row[i] EXCEPT !.fresh = b] \in Row
  BY DEF StoreTypeOK, Row
<1>2. row' = row \/ \E b \in BOOLEAN : row' = [row EXCEPT ![i] = [row[i] EXCEPT !.fresh = b]]
  BY DEF Heartbeat, Expire
<1>3. log' = log
  BY DEF Heartbeat, Expire
<1>. QED
  BY <1>1, <1>2, <1>3 DEF StoreTypeOK

-----------------------------------------------------------------------------
(* The bookkeeping of the pods.                                             *)
PodTypeOK ==
  /\ task \in [Pods -> [Invocations -> Task]]
  /\ retry \in [Pods -> SUBSET Invocations]
  /\ faults \in 0..MaxFaults

(* An empty entry of `_tasks` and a new task are tasks. *)
LEMMA NewTaskType == NoTask \in Task /\ \A b \in BOOLEAN : NewTask(b) \in Task
BY DEF NoTask, NewTask, Task

(* Scheduling any invocations keeps the tasks in their type. *)
LEMMA ScheduleAllType ==
  ASSUME PodTypeOK, NEW p \in Pods, NEW ids, NEW b \in BOOLEAN, ScheduleAll(p, ids, b)
  PROVE  task' \in [Pods -> [Invocations -> Task]]
BY NewTaskType DEF PodTypeOK, ScheduleAll

(* A task that ends, or is scheduled again for a claim that came in between, keeps the types. *)
LEMMA EndTaskType ==
  ASSUME PodTypeOK, NEW p \in Pods, NEW i \in Invocations, EndTask(p, i)
  PROVE  /\ task' \in [Pods -> [Invocations -> Task]]
         /\ retry' \in [Pods -> SUBSET Invocations]
BY NewTaskType DEF PodTypeOK, EndTask

(* A task that goes on without its attempt keeps the types. *)
LEMMA MoveTaskType ==
  ASSUME PodTypeOK, NEW p \in Pods, NEW i \in Invocations,
         NEW pc \in {"claim", "denied", "failing"},
         MoveTask(p, i, pc)
  PROVE  task' \in [Pods -> [Invocations -> Task]]
<1>0. task[p][i] \in Task
  BY DEF PodTypeOK
<1>1. [task[p][i] EXCEPT !.pc = pc] \in Task
  BY <1>0 DEF Task
<1>2. [task[p] EXCEPT ![i] = [task[p][i] EXCEPT !.pc = pc]] \in [Invocations -> Task]
  BY <1>1 DEF PodTypeOK
<1>. QED
  BY <1>2 DEF PodTypeOK, MoveTask

(* Any task may stand where a task stood. *)
LEMMA ReplaceTaskType ==
  ASSUME PodTypeOK, NEW p \in Pods, NEW i \in Invocations, NEW t \in Task,
         task' = [task EXCEPT ![p][i] = t]
  PROVE  task' \in [Pods -> [Invocations -> Task]]
<1>1. [task[p] EXCEPT ![i] = t] \in [Invocations -> Task]
  BY DEF PodTypeOK
<1>. QED
  BY <1>1 DEF PodTypeOK

(* A hook that ends keeps the tasks in their type. *)
LEMMA LeaveHookType ==
  ASSUME PodTypeOK, NEW p \in Pods, NEW i \in Invocations, LeaveHook(p, i)
  PROVE  task' \in [Pods -> [Invocations -> Task]]
<1>. DEFINE t == [task[p][i] EXCEPT !.pc = "lookup", !.beating = FALSE]
<1>1. t \in Task
  <2>1. task[p][i] \in Task
    BY DEF PodTypeOK
  <2>. QED
    BY <2>1 DEF Task
<1>2. task' = [task EXCEPT ![p][i] = t]
  BY DEF LeaveHook
<1>. HIDE DEF t
<1>. QED
  BY <1>1, <1>2, ReplaceTaskType

(* A hook that starts with an attempt keeps the tasks in their type. *)
LEMMA EnterHookType ==
  ASSUME PodTypeOK, NEW p \in Pods, NEW i \in Invocations, NEW a \in Nat,
         task' = [task EXCEPT ![p][i] = [task[p][i] EXCEPT !.pc = "run", !.beating = TRUE,
                                                          !.attempt = a]]
  PROVE  task' \in [Pods -> [Invocations -> Task]]
<1>. DEFINE t == [task[p][i] EXCEPT !.pc = "run", !.beating = TRUE, !.attempt = a]
<1>1. t \in Task
  <2>1. task[p][i] \in Task
    BY DEF PodTypeOK
  <2>. QED
    BY <2>1 DEF Task
<1>2. task' = [task EXCEPT ![p][i] = t]
  OBVIOUS
<1>. HIDE DEF t
<1>. QED
  BY <1>1, <1>2, ReplaceTaskType

(* A task that has found its session's next work keeps its attempt, and the tasks their type. *)
LEMMA FindNext ==
  ASSUME PodTypeOK, NEW p \in Pods, NEW i \in Invocations,
         task' = [task EXCEPT ![p][i] = [task[p][i] EXCEPT !.pc = "handover",
                                                          !.next = NextInSession(i)]]
  PROVE  /\ task' \in [Pods -> [Invocations -> Task]]
         /\ task'[p][i].pc = "handover" /\ task'[p][i].attempt = task[p][i].attempt
         /\ \A q \in Pods, j \in Invocations : <<q, j>> # <<p, i>> => task'[q][j] = task[q][j]
<1>. DEFINE t == [task[p][i] EXCEPT !.pc = "handover", !.next = NextInSession(i)]
<1>1. NextInSession(i) \in SUBSET Invocations
  BY DEF NextInSession, WithStatus
<1>2. t \in Task /\ t.pc = "handover" /\ t.attempt = task[p][i].attempt
  <2>1. task[p][i] \in Task
    BY DEF PodTypeOK
  <2>. QED
    BY <1>1, <2>1 DEF Task
<1>3. task' = [task EXCEPT ![p][i] = t]
  OBVIOUS
<1>. HIDE DEF t
<1>4. task' \in [Pods -> [Invocations -> Task]]
  BY <1>2, <1>3, ReplaceTaskType
<1>. QED
  BY <1>2, <1>3, <1>4 DEF PodTypeOK

(* An attempt a task holds is a number.                                     *)
LEMMA AttemptIsNat ==
  ASSUME PodTypeOK, NEW p \in Pods, NEW i \in Invocations
  PROVE  task[p][i] \in Task /\ task[p][i].attempt \in Nat /\ task[p][i].recovery \in BOOLEAN
BY DEF PodTypeOK, Task

(* The hand-over keeps the types. *)
LEMMA HandOffType ==
  ASSUME PodTypeOK, NEW p \in Pods, NEW i \in Invocations, HandOff(p, i)
  PROVE  /\ task' \in [Pods -> [Invocations -> Task]]
         /\ retry' \in [Pods -> SUBSET Invocations]
<1>1. CASE LookUp(p, i)
  <2>1. CASE EndTask(p, i)
    BY <2>1, EndTaskType
  <2>2. CASE ~EndTask(p, i)
    <3>1. task' = [task EXCEPT ![p][i] = [task[p][i] EXCEPT !.pc = "handover",
                                                            !.next = NextInSession(i)]]
          /\ retry' = retry
      BY <1>1, <2>2 DEF LookUp
    <3>. QED
      BY <3>1, FindNext DEF PodTypeOK
  <2>. QED
    BY <2>1, <2>2
<1>2. CASE HandOver(p, i)
  <2>1. task' \in [Pods -> [Invocations -> Task]]
    BY <1>2, NewTaskType DEF HandOver, PodTypeOK
  <2>2. retry' \in [Pods -> SUBSET Invocations]
    <3>1. {j \in task[p][i].next : Live(p, j)} \subseteq Invocations
      BY AttemptIsNat DEF Task
    <3>. QED
      BY <1>2, <3>1 DEF HandOver, PodTypeOK
  <2>. QED
    BY <2>1, <2>2
<1>. QED
  BY <1>1, <1>2 DEF HandOff

(* Faults are counted up to their bound. *)
LEMMA FaultType == ASSUME PodTypeOK, Fault PROVE faults' \in 0..MaxFaults
BY DEF PodTypeOK, Fault

(* The runtime's types are those of the store and those of the pods. *)
LEMMA TypeSplit == TypeOK <=> StoreTypeOK /\ PodTypeOK
BY DEF TypeOK, PodTypeOK

(* Every step keeps the types; MAX + 1 is a number because the orders are bounded. *)
LEMMA NextType ==
  ASSUME TypeOK, OrdersBounded, [Next]_vars
  PROVE  TypeOK'
<1>. USE DEF PodTypeOK
<1>1. StoreTypeOK /\ PodTypeOK
  BY TypeSplit
<1>a. UNCHANGED storeVars => StoreTypeOK'
  BY <1>1 DEF storeVars, StoreTypeOK
<1>b. UNCHANGED row /\ UNCHANGED log => StoreTypeOK'
  BY <1>1 DEF StoreTypeOK
<1>2. ASSUME NEW p \in Pods, Schedule(p) PROVE TypeOK'
  <2>1. CASE \E i \in Invocations, s \in Sessions \cup {NoSession}, r \in Requests : Submit(p, i, s, r)
    <3>1. PICK i \in Invocations, s \in Sessions \cup {NoSession}, r \in Requests : Submit(p, i, s, r)
      BY <2>1
    <3>2. StoreTypeOK'
      BY <1>1, <3>1, AcceptType DEF Submit
    <3>3. PodTypeOK'
      BY <1>1, <3>1, ScheduleAllType DEF Submit
    <3>. QED
      BY <3>2, <3>3 DEF TypeOK
  <2>2. CASE \E i \in Invocations : GetInvocation(p, i)
    <3>1. PICK i \in Invocations : GetInvocation(p, i)
      BY <2>2
    <3>. QED
      BY <1>1, <1>b, <3>1, ScheduleAllType DEF GetInvocation, TypeOK
  <2>3. CASE ScanQueued(p)
    BY <1>1, <1>b, <2>3, ScheduleAllType DEF ScanQueued, TypeOK
  <2>4. CASE ScanStale(p)
    BY <1>1, <1>b, <2>4, ScheduleAllType DEF ScanStale, TypeOK
  <2>. QED
    BY <1>2, <2>1, <2>2, <2>3, <2>4 DEF Schedule
<1>3. ASSUME NEW p \in Pods, Crash(p) PROVE TypeOK'
  <2>1. task' \in [Pods -> [Invocations -> Task]] /\ retry' \in [Pods -> SUBSET Invocations]
    BY <1>1, <1>3, NewTaskType DEF Crash
  <2>. QED
    BY <1>1, <1>b, <1>3, <2>1, FaultType DEF Crash, TypeOK
<1>4. ASSUME NEW p \in Pods, NEW i \in Invocations, RunTask(p, i) PROVE TypeOK'
  <2>0. task[p][i] \in Task /\ task[p][i].attempt \in Nat /\ task[p][i].recovery \in BOOLEAN
    BY <1>1, AttemptIsNat
  <2>1. CASE ClaimGranted(p, i)
    <3>1. StoreTypeOK' /\ row'[i].attempt \in Nat
      BY <1>1, <2>1, TakeOverType DEF ClaimGranted
    <3>2. task' \in [Pods -> [Invocations -> Task]]
      BY <1>1, <2>1, <3>1, EnterHookType DEF ClaimGranted
    <3>3. retry' \in [Pods -> SUBSET Invocations] /\ faults' \in 0..MaxFaults
      BY <1>1, <2>1 DEF ClaimGranted
    <3>. QED
      BY <3>1, <3>2, <3>3 DEF TypeOK
  <2>2. CASE ClaimDenied(p, i)
    BY <1>1, <1>b, <2>2, MoveTaskType DEF ClaimDenied, TypeOK
  <2>3. CASE ClaimError(p, i)
    <3>1. StoreTypeOK'
      BY <1>1, <1>a, <2>3, TakeOverType DEF ClaimError
    <3>. QED
      BY <1>1, <2>3, <3>1, MoveTaskType, FaultType DEF ClaimError, TypeOK
  <2>4. CASE ClaimAgain(p, i)
    <3>1. retry' \in [Pods -> SUBSET Invocations]
      BY <1>1, <2>4 DEF ClaimAgain
    <3>. QED
      BY <1>1, <1>b, <2>4, <3>1, MoveTaskType DEF ClaimAgain, TypeOK
  <2>5. CASE GiveUp(p, i)
    BY <1>1, <1>b, <2>5, EndTaskType DEF GiveUp, TypeOK
  <2>6. CASE Beat(p, i)
    <3>1. StoreTypeOK'
      BY <1>1, <2>0, <2>6, FreshnessType DEF Beat
    <3>2. [task[p][i] EXCEPT !.beating = Owns(i, task[p][i].attempt)] \in Task
      BY <2>0 DEF Task, Owns
    <3>3. [task[p] EXCEPT ![i] = [task[p][i] EXCEPT !.beating = Owns(i, task[p][i].attempt)]]
            \in [Invocations -> Task]
      BY <1>1, <3>2
    <3>4. task' \in [Pods -> [Invocations -> Task]]
      BY <1>1, <2>6, <3>3 DEF Beat
    <3>. QED
      BY <1>1, <2>6, <3>1, <3>4 DEF Beat, TypeOK
  <2>7. CASE Emit(p, i)
    BY <1>1, <2>0, <2>7, AppendType DEF Emit, TypeOK
  <2>8. CASE EndHook(p, i)
    <3>1. CASE HookReturns(p, i)
      <4>1. StoreTypeOK'
        BY <1>1, <2>0, <3>1, FinishType DEF HookReturns
      <4>. QED
        BY <1>1, <3>1, <4>1, LeaveHookType DEF HookReturns, TypeOK
    <3>2. CASE HookRaises(p, i)
      BY <1>1, <1>b, <3>2, MoveTaskType DEF HookRaises, TypeOK
    <3>. QED
      BY <2>8, <3>1, <3>2 DEF EndHook
  <2>9. CASE CompleteError(p, i)
    <3>1. StoreTypeOK'
      BY <1>1, <1>a, <2>0, <2>9, FinishType DEF CompleteError
    <3>. QED
      BY <1>1, <2>9, <3>1, MoveTaskType, FaultType DEF CompleteError, TypeOK
  <2>10. CASE PersistFailure(p, i)
    <3>1. StoreTypeOK'
      BY <1>1, <2>0, <2>10, FinishType DEF PersistFailure
    <3>. QED
      BY <1>1, <2>10, <3>1, LeaveHookType DEF PersistFailure, TypeOK
  <2>11. CASE PersistFailureError(p, i)
    <3>1. StoreTypeOK'
      BY <1>1, <1>a, <2>0, <2>11, FinishType DEF PersistFailureError
    <3>. QED
      BY <1>1, <2>11, <3>1, LeaveHookType, FaultType DEF PersistFailureError, TypeOK
  <2>12. CASE HookCancelled(p, i)
    BY <1>1, <1>b, <2>12, EndTaskType, FaultType DEF HookCancelled, TypeOK
  <2>13. CASE HandOff(p, i)
    <3>1. UNCHANGED <<row, log, faults>>
      BY <2>13 DEF HandOff, LookUp, HandOver
    <3>2. /\ task' \in [Pods -> [Invocations -> Task]]
          /\ retry' \in [Pods -> SUBSET Invocations]
      BY <1>1, <2>13, HandOffType
    <3>. QED
      BY <1>1, <1>b, <3>1, <3>2 DEF TypeOK
  <2>14. CASE LookUpError(p, i)
    BY <1>1, <1>b, <2>14, EndTaskType, FaultType DEF LookUpError, TypeOK
  <2>. QED
    BY <1>4, <2>1, <2>2, <2>3, <2>4, <2>5, <2>6, <2>7, <2>8, <2>9, <2>10, <2>11, <2>12, <2>13, <2>14
       DEF RunTask, ClaimStep, Resume
<1>5. ASSUME NEW i \in Invocations, Lapse(i) \/ Stall(i) PROVE TypeOK'
  <2>1. StoreTypeOK'
    BY <1>1, <1>5, FreshnessType DEF Lapse, Stall
  <2>. QED
    BY <1>1, <1>5, <2>1, FaultType DEF Lapse, Stall, TypeOK
<1>6. CASE UNCHANGED vars
  BY <1>1, <1>b, <1>6 DEF vars, TypeOK
<1>. QED
  BY <1>2, <1>3, <1>4, <1>5, <1>6 DEF Next

(* The types hold at first. *)
LEMMA InitType == Init => TypeOK
BY NewTaskType DEF Init, StoreInit, TypeOK, StoreTypeOK, AbsentRow, Row, Status

-----------------------------------------------------------------------------
(* The four ways a step changes the rows.                                   *)
Enqueued(i) ==
  /\ row[i].status = "ABSENT"
  /\ \E s \in Sessions \cup {NoSession}, r \in Requests :
       row' = [row EXCEPT ![i] =
                [status |-> "QUEUED", session |-> s, request |-> r,
                 order |-> IF s = NoSession THEN 0 ELSE NextOrder(s),
                 attempt |-> 0, fresh |-> FALSE]]

Started(i) ==
  /\ Startable(i)
  /\ row'[i].status = "ACTIVE" /\ row'[i].attempt = row[i].attempt + 1
  /\ row'[i].session = row[i].session /\ row'[i].request = row[i].request
  /\ row'[i].order = row[i].order
  /\ \A j \in Invocations \ {i} : row'[j] = row[j]

Ended(i) ==
  /\ row[i].status = "ACTIVE"
  /\ \E st \in Terminal : row' = [row EXCEPT ![i].status = st]

Kept ==
  \A i \in Invocations :
    /\ row'[i].status = row[i].status /\ row'[i].session = row[i].session
    /\ row'[i].request = row[i].request /\ row'[i].order = row[i].order
    /\ row'[i].attempt >= row[i].attempt
    /\ row'[i].attempt > row[i].attempt => row[i].status = "ACTIVE"
    /\ row[i].status \in Terminal => row'[i] = row[i]

RowStep == (\E i \in Invocations : Enqueued(i) \/ Started(i) \/ Ended(i)) \/ Kept

(* A granted claim starts an invocation, or takes an ACTIVE one over, which keeps the row. *)
LEMMA TakeOverStep ==
  ASSUME StoreTypeOK, NEW i \in Invocations, NEW b \in BOOLEAN, Claimable(i, b), TakeOver(i)
  PROVE  RowStep
<1>1. row[i] \in Row /\ row[i].attempt \in Nat
  BY DEF StoreTypeOK, Row
<1>2. /\ row'[i].status = "ACTIVE" /\ row'[i].attempt = row[i].attempt + 1
      /\ row'[i].session = row[i].session /\ row'[i].request = row[i].request
      /\ row'[i].order = row[i].order
      /\ \A j \in Invocations \ {i} : row'[j] = row[j]
  BY <1>1 DEF StoreTypeOK, TakeOver, Row
<1>3. CASE Startable(i)
  BY <1>2, <1>3 DEF RowStep, Started
<1>4. CASE StaleActive(i)
  <2>1. \A j \in Invocations : row[j].attempt \in Nat
    BY DEF StoreTypeOK, Row
  <2>2. Kept
    BY <1>1, <1>2, <1>4, <2>1 DEF Kept, StaleActive, Terminal
  <2>. QED
    BY <2>2 DEF RowStep
<1>. QED
  BY <1>3, <1>4 DEF Claimable

(* A step that leaves the rows alone keeps them. *)
LEMMA KeptWhenUnchanged == ASSUME StoreTypeOK, row' = row PROVE RowStep
<1>1. \A i \in Invocations : row[i].attempt \in Nat
  BY DEF StoreTypeOK, Row
<1>. QED
  BY <1>1 DEF RowStep, Kept

(* Completion and failure end a row, or do nothing when the attempt has been lost. *)
LEMMA FinishStep ==
  ASSUME StoreTypeOK, NEW i \in Invocations, NEW a \in Nat, Complete(i, a) \/ Fail(i, a)
  PROVE  RowStep
<1>1. PICK st \in Terminal, e \in {"run.completed", "run.failed"} : Finish(i, a, st, e)
  BY DEF Complete, Fail, Terminal
<1>2. CASE Owns(i, a)
  BY <1>1, <1>2 DEF RowStep, Ended, Finish, Owns
<1>3. CASE ~Owns(i, a)
  BY <1>1, <1>3, KeptWhenUnchanged DEF Finish
<1>. QED
  BY <1>2, <1>3

(* A heartbeat and its lapse keep the rows up to their heartbeat bit. *)
LEMMA FreshnessStep ==
  ASSUME StoreTypeOK, NEW i \in Invocations,
         (\E a \in Nat : Heartbeat(i, a)) \/ Expire(i)
  PROVE  RowStep
<1>1. CASE row' = row
  BY <1>1, KeptWhenUnchanged
<1>2. CASE \E b \in BOOLEAN : row' = [row EXCEPT ![i] = [row[i] EXCEPT !.fresh = b]]
                               /\ row[i].status = "ACTIVE"
  <2>1. \A j \in Invocations : row[j] \in Row /\ row[j].attempt \in Nat
    BY DEF StoreTypeOK, Row
  <2>2. \A j \in Invocations \ {i} : row'[j] = row[j]
    BY <1>2 DEF StoreTypeOK
  <2>3. /\ row'[i].status = row[i].status /\ row'[i].session = row[i].session
        /\ row'[i].request = row[i].request /\ row'[i].order = row[i].order
        /\ row'[i].attempt = row[i].attempt
    BY <1>2, <2>1 DEF StoreTypeOK, Row
  <2>4. Kept
    BY <1>2, <2>1, <2>2, <2>3 DEF Kept, Terminal
  <2>. QED
    BY <2>4 DEF RowStep
<1>. QED
  BY <1>1, <1>2 DEF Heartbeat, Expire, Owns

(* Every step of the runtime is one of the four row steps. *)
LEMMA NextRowStep == ASSUME TypeOK, [Next]_vars PROVE RowStep
<1>1. StoreTypeOK /\ PodTypeOK
  BY TypeSplit
<1>2. ASSUME NEW p \in Pods, NEW i \in Invocations,
             NEW s \in Sessions \cup {NoSession}, NEW r \in Requests, Submit(p, i, s, r)
      PROVE  RowStep
  <2>1. CASE row[i].status = "ABSENT"
    BY <1>2, <2>1 DEF Submit, Accept, RowStep, Enqueued
  <2>2. CASE row[i].status # "ABSENT"
    BY <1>1, <1>2, <2>2, KeptWhenUnchanged DEF Submit, Accept
  <2>. QED
    BY <2>1, <2>2
<1>3. ASSUME NEW p \in Pods, Schedule(p) \/ Crash(p) PROVE RowStep
  BY <1>1, <1>2, <1>3, KeptWhenUnchanged DEF Schedule, GetInvocation, ScanQueued, ScanStale, Crash
<1>4. ASSUME NEW p \in Pods, NEW i \in Invocations, RunTask(p, i) PROVE RowStep
  <2>0. task[p][i].attempt \in Nat /\ task[p][i].recovery \in BOOLEAN
    BY <1>1, AttemptIsNat
  <2>1. CASE ClaimGranted(p, i)
    BY <1>1, <2>0, <2>1, TakeOverStep DEF ClaimGranted
  <2>2. CASE ClaimError(p, i)
    BY <1>1, <2>0, <2>2, TakeOverStep, KeptWhenUnchanged DEF ClaimError, storeVars
  <2>3. CASE Beat(p, i)
    BY <1>1, <2>0, <2>3, FreshnessStep DEF Beat
  <2>4. CASE HookReturns(p, i) \/ PersistFailure(p, i)
    BY <1>1, <2>0, <2>4, FinishStep DEF HookReturns, PersistFailure
  <2>5. CASE CompleteError(p, i) \/ PersistFailureError(p, i)
    BY <1>1, <2>0, <2>5, FinishStep, KeptWhenUnchanged
       DEF CompleteError, PersistFailureError, storeVars
  <2>6. CASE \/ ClaimDenied(p, i) \/ ClaimAgain(p, i) \/ GiveUp(p, i) \/ Emit(p, i)
             \/ HookRaises(p, i) \/ HookCancelled(p, i) \/ HandOff(p, i) \/ LookUpError(p, i)
    BY <1>1, <2>6, KeptWhenUnchanged
       DEF ClaimDenied, ClaimAgain, GiveUp, Emit, AppendEvent, HookRaises, HookCancelled,
           HandOff, LookUp, HandOver, LookUpError
  <2>. QED
    BY <1>4, <2>1, <2>2, <2>3, <2>4, <2>5, <2>6 DEF RunTask, ClaimStep, Resume, EndHook
<1>5. ASSUME NEW i \in Invocations, Lapse(i) \/ Stall(i) PROVE RowStep
  BY <1>1, <1>5, FreshnessStep DEF Lapse, Stall
<1>6. CASE UNCHANGED vars
  BY <1>1, <1>6, KeptWhenUnchanged DEF vars
<1>. QED
  BY <1>3, <1>4, <1>5, <1>6 DEF Next

-----------------------------------------------------------------------------
(* The order of a session survives each of the four.                        *)
LEMMA EnqueueKeepsQueue ==
  ASSUME StoreTypeOK, QueueInv, NEW i \in Invocations, Enqueued(i)
  PROVE  QueueInv'
<1>1. PICK s \in Sessions \cup {NoSession}, r \in Requests :
        row' = [row EXCEPT ![i] =
                 [status |-> "QUEUED", session |-> s, request |-> r,
                  order |-> IF s = NoSession THEN 0 ELSE NextOrder(s),
                  attempt |-> 0, fresh |-> FALSE]]
  BY DEF Enqueued
<1>2. /\ row'[i].status = "QUEUED" /\ row'[i].session = s /\ row'[i].attempt = 0
      /\ s # NoSession => row'[i].order = NextOrder(s)
      /\ \A j \in Invocations \ {i} : row'[j] = row[j]
  BY <1>1 DEF StoreTypeOK
<1>3. row[i].status = "ABSENT" /\ row[i].session = NoSession
  BY DEF Enqueued, QueueInv, RowsConsistent
<1>4. s # NoSession =>
        /\ NextOrder(s) \in Nat
        /\ \A j \in InSession(s) : row[j].order < NextOrder(s)
  BY NextOrderIsNew DEF QueueInv, OrdersBounded
<1>5. \A j \in Invocations : row[j].order \in Nat
  BY DEF StoreTypeOK, Row
<1>6. \A j \in Invocations : row[j].session # NoSession => row[j].status # "ABSENT"
  BY DEF QueueInv, RowsConsistent
<1>7. OrdersBounded'
  <2>. SUFFICES ASSUME NEW t \in Sessions
                PROVE  \E m \in Orders(t)' : \A n \in Orders(t)' : m >= n
    BY DEF OrdersBounded
  <2>1. PICK m \in Orders(t) : \A n \in Orders(t) : m >= n
    BY DEF QueueInv, OrdersBounded
  <2>2. CASE t # s
    <3>1. InSession(t)' = InSession(t)
      BY <1>2, <1>3, <2>2 DEF InSession
    <3>2. Orders(t)' = Orders(t)
      BY <1>2, <1>3, <3>1 DEF Orders, InSession
    <3>. QED
      BY <2>1, <3>2
  <2>3. CASE t = s
    <3>0. s # NoSession
      BY <2>3, StoreAssumption
    <3>1. InSession(t)' = InSession(t) \cup {i}
      BY <1>2, <1>3, <2>3 DEF InSession
    <3>2. NextOrder(s) \in Orders(t)'
      BY <1>2, <2>3, <3>0, <3>1 DEF Orders
    <3>3. \A n \in Orders(t)' : n \in Nat /\ NextOrder(s) >= n
      BY <1>2, <1>3, <1>4, <1>5, <2>3, <3>0, <3>1 DEF Orders, InSession
    <3>. QED
      BY <3>2, <3>3
  <2>. QED
    BY <2>2, <2>3
<1>8. OrdersDistinct'
  BY <1>2, <1>3, <1>4, <1>5, <1>6 DEF QueueInv, OrdersDistinct, SameSession, InSession
<1>9. RowsConsistent'
  BY <1>2 DEF QueueInv, RowsConsistent
<1>10. ServedInOrder'
  BY <1>2, <1>3, <1>4, <1>5, <1>6 DEF QueueInv, ServedInOrder, SameSession, InSession
<1>. QED
  BY <1>7, <1>8, <1>9, <1>10 DEF QueueInv

(* A step that leaves sessions, orders and acceptance alone.                *)
LEMMA OrdersKept ==
  ASSUME QueueInv,
         \A i \in Invocations : /\ row'[i].session = row[i].session
                                /\ row'[i].order = row[i].order
                                /\ row'[i].status = "ABSENT" <=> row[i].status = "ABSENT"
  PROVE  OrdersBounded' /\ OrdersDistinct'
<1>1. \A s : InSession(s)' = InSession(s)
  BY DEF InSession
<1>2. \A s : Orders(s)' = Orders(s)
  BY <1>1 DEF Orders, InSession
<1>3. OrdersBounded'
  BY <1>2 DEF QueueInv, OrdersBounded
<1>. QED
  BY <1>3 DEF QueueInv, OrdersDistinct, SameSession

(* A start keeps the order of service: the claim saw no unfinished predecessor. *)
LEMMA StartKeepsQueue ==
  ASSUME StoreTypeOK, QueueInv, NEW i \in Invocations, Started(i)
  PROVE  QueueInv'
<1>1. \A j \in Invocations : row[j].order \in Nat /\ row[j].attempt \in Nat
                             /\ row[j].status \in Status
  BY DEF StoreTypeOK, Row
<1>2. row[i].status = "QUEUED"
  BY DEF Started, Startable
<1>3. OrdersBounded' /\ OrdersDistinct'
  BY <1>2, OrdersKept DEF Started
<1>4. RowsConsistent'
  BY <1>1, <1>2 DEF Started, QueueInv, RowsConsistent
<1>5. ServedInOrder'
  <2>. SUFFICES ASSUME NEW a \in Invocations, NEW b \in Invocations, SameSession(a, b)',
                       row'[a].order < row'[b].order, row'[b].attempt > 0
                PROVE  row'[a].status \in Terminal
    BY DEF ServedInOrder
  <2>1. SameSession(a, b) /\ row[a].order < row[b].order /\ a # b
    BY <1>1 DEF Started, SameSession
  <2>2. CASE b = i
    <3>1. a \in InSession(row[i].session) /\ row[i].session # NoSession
      BY <2>1, <2>2 DEF SameSession, InSession, QueueInv, RowsConsistent
    <3>2. row[a].status # "ACTIVE" /\ row[a].status # "QUEUED" /\ row[a].status # "ABSENT"
      BY <1>1, <2>1, <2>2, <3>1 DEF Started, Startable, InSession
    <3>. QED
      BY <1>1, <2>1, <2>2, <3>2 DEF Started, Status, Terminal
  <2>3. CASE b # i
    <3>1. row[b].attempt > 0
      BY <2>3 DEF Started
    <3>2. row[a].status \in Terminal
      BY <2>1, <3>1 DEF QueueInv, ServedInOrder
    <3>. QED
      BY <1>2, <3>2 DEF Started, Terminal
  <2>. QED
    BY <2>2, <2>3
<1>. QED
  BY <1>3, <1>4, <1>5 DEF QueueInv

(* An end keeps the order of service: a terminal row blocks nobody. *)
LEMMA EndKeepsQueue ==
  ASSUME StoreTypeOK, QueueInv, NEW i \in Invocations, Ended(i)
  PROVE  QueueInv'
<1>1. PICK st \in Terminal : row' = [row EXCEPT ![i].status = st]
  BY DEF Ended
<1>2. /\ row'[i].status = st /\ row[i].status = "ACTIVE"
      /\ \A j \in Invocations : /\ row'[j].session = row[j].session
                                /\ row'[j].order = row[j].order
                                /\ row'[j].attempt = row[j].attempt
                                /\ j # i => row'[j].status = row[j].status
  BY <1>1 DEF StoreTypeOK, Row, Ended
<1>3. OrdersBounded' /\ OrdersDistinct'
  BY <1>2, OrdersKept DEF Terminal
<1>4. RowsConsistent'
  BY <1>2 DEF QueueInv, RowsConsistent, Terminal
<1>5. ServedInOrder'
  BY <1>2 DEF QueueInv, ServedInOrder, SameSession
<1>. QED
  BY <1>3, <1>4, <1>5 DEF QueueInv

(* A heartbeat cannot change the order of service. *)
LEMMA KeptKeepsQueue == ASSUME StoreTypeOK, StoreTypeOK', QueueInv, Kept PROVE QueueInv'
<1>1. \A j \in Invocations : row[j].attempt \in Nat /\ row'[j].attempt \in Nat
  BY DEF StoreTypeOK, Row
<1>2. OrdersBounded' /\ OrdersDistinct'
  BY OrdersKept DEF Kept
<1>3. \A j \in Invocations : row'[j].attempt > 0 <=> row[j].attempt > 0
  BY <1>1 DEF Kept, QueueInv, RowsConsistent
<1>4. RowsConsistent'
  BY <1>1, <1>3 DEF Kept, QueueInv, RowsConsistent
<1>5. ServedInOrder'
  BY <1>3 DEF Kept, QueueInv, ServedInOrder, SameSession
<1>. QED
  BY <1>2, <1>4, <1>5 DEF QueueInv

(* Every step keeps the order of service. *)
LEMMA NextQueue == ASSUME TypeOK, TypeOK', QueueInv, [Next]_vars PROVE QueueInv'
<1>1. StoreTypeOK /\ StoreTypeOK'
  BY DEF TypeOK
<1>2. RowStep
  BY NextRowStep
<1>. QED
  BY <1>1, <1>2, EnqueueKeepsQueue, StartKeepsQueue, EndKeepsQueue, KeptKeepsQueue DEF RowStep

(* There are no rows at first. *)
LEMMA InitQueue == Init => QueueInv
<1>. SUFFICES ASSUME Init PROVE QueueInv
  OBVIOUS
<1>1. \A i \in Invocations : row[i] = AbsentRow
  BY DEF Init, StoreInit
<1>2. \A i \in Invocations : /\ row[i].status = "ABSENT" /\ row[i].session = NoSession
                             /\ row[i].attempt = 0
  <2>1. AbsentRow.status = "ABSENT" /\ AbsentRow.session = NoSession /\ AbsentRow.attempt = 0
    BY DEF AbsentRow
  <2>. QED
    BY <1>1, <2>1
<1>3. \A s \in Sessions : Orders(s) = {0}
  BY <1>2 DEF Orders, InSession
<1>. QED
  BY <1>2, <1>3 DEF QueueInv, OrdersBounded, OrdersDistinct, RowsConsistent, ServedInOrder,
                    SameSession

-----------------------------------------------------------------------------
(* Every reachable state is well typed and its sessions are in order.       *)
THEOREM TypeAndQueue == Spec => [](TypeOK /\ QueueInv)
<1>1. Init => TypeOK /\ QueueInv
  BY InitType, InitQueue
<1>2. TypeOK /\ QueueInv /\ [Next]_vars => (TypeOK /\ QueueInv)'
  <2>. SUFFICES ASSUME TypeOK, QueueInv, [Next]_vars PROVE TypeOK' /\ QueueInv'
    OBVIOUS
  <2>1. TypeOK'
    BY NextType DEF QueueInv
  <2>. QED
    BY <2>1, NextQueue
<1>. QED
  BY <1>1, <1>2, PTL DEF Spec

(* Variables stay in their types (RuntimeStore tables, executor fields).    *)
THEOREM TypeCorrect == Spec => []TypeOK
BY TypeAndQueue, PTL

(* Acceptance order is execution order in every session: _claim starts an   *)
(* invocation only after all earlier ones of its session are terminal.      *)
THEOREM SessionsServedInOrder == Spec => []ServedInOrder
<1>1. QueueInv => ServedInOrder
  BY DEF QueueInv
<1>. QED
  BY <1>1, TypeAndQueue, PTL

(* No session has two ACTIVE rows: the partial unique index of initialize   *)
(* is never violated, because _claim checks the session under its lock.     *)
THEOREM MutualExclusion == Spec => []OneActivePerSession
<1>1. TypeOK /\ QueueInv => OneActivePerSession
  <2>. SUFFICES ASSUME TypeOK, QueueInv, NEW i \in Invocations, NEW j \in Invocations,
                       row[i].status = "ACTIVE", row[j].status = "ACTIVE",
                       SameSession(i, j), i # j
                PROVE  FALSE
    BY DEF OneActivePerSession
  <2>1. row[i].order \in Nat /\ row[j].order \in Nat
        /\ row[i].attempt \in Nat /\ row[j].attempt \in Nat
    BY DEF TypeOK, StoreTypeOK, Row
  <2>2. row[i].attempt > 0 /\ row[j].attempt > 0
    BY <2>1 DEF QueueInv, RowsConsistent
  <2>3. row[i].order < row[j].order \/ row[j].order < row[i].order
    BY <2>1 DEF QueueInv, OrdersDistinct
  <2>. QED
    BY <2>2, <2>3 DEF QueueInv, ServedInOrder, SameSession, Terminal
<1>. QED
  BY <1>1, TypeAndQueue, PTL

-----------------------------------------------------------------------------
(* Session, request and order of an accepted invocation never change and    *)
(* its attempt never goes back, whatever accept, _claim, complete and fail  *)
(* do next.                                                                 *)
THEOREM AcceptanceIsImmutable == Spec => AcceptedIsKept
<1>1. TypeOK /\ QueueInv /\ [Next]_vars =>
        \A i \in Invocations : row[i].status # "ABSENT" =>
          /\ row'[i].status # "ABSENT"
          /\ row'[i].session = row[i].session
          /\ row'[i].request = row[i].request
          /\ row'[i].order = row[i].order
          /\ row'[i].attempt >= row[i].attempt
  <2>. SUFFICES ASSUME TypeOK, QueueInv, [Next]_vars, NEW i \in Invocations,
                       row[i].status # "ABSENT"
                PROVE  /\ row'[i].status # "ABSENT"
                       /\ row'[i].session = row[i].session
                       /\ row'[i].request = row[i].request
                       /\ row'[i].order = row[i].order
                       /\ row'[i].attempt >= row[i].attempt
    OBVIOUS
  <2>0. RowStep
    BY NextRowStep
  <2>1. row[i] \in Row /\ row[i].attempt \in Nat
    BY DEF TypeOK, StoreTypeOK, Row
  <2>2. CASE \E j \in Invocations : Enqueued(j)
    <3>1. row'[i] = row[i]
      BY <2>2 DEF Enqueued
    <3>. QED
      BY <2>1, <3>1
  <2>3. CASE \E j \in Invocations : Started(j)
    BY <2>1, <2>3 DEF Started
  <2>4. CASE \E j \in Invocations : Ended(j)
    <3>1. PICK j \in Invocations, st \in Terminal : row' = [row EXCEPT ![j].status = st]
      BY <2>4 DEF Ended
    <3>2. /\ row'[i].session = row[i].session /\ row'[i].request = row[i].request
          /\ row'[i].order = row[i].order /\ row'[i].attempt = row[i].attempt
          /\ row'[i].status \in {row[i].status, st}
      BY <2>1, <3>1 DEF TypeOK, StoreTypeOK, Row
    <3>. QED
      BY <2>1, <3>2 DEF Terminal
  <2>5. CASE Kept
    BY <2>5 DEF Kept
  <2>. QED
    BY <2>0, <2>2, <2>3, <2>4, <2>5 DEF RowStep
<1>. QED
  BY <1>1, TypeAndQueue, PTL DEF Spec, AcceptedIsKept

-----------------------------------------------------------------------------
(* The log of an invocation grows only while its row is open.               *)
LEMMA TakeOverLog ==
  ASSUME StoreTypeOK, NEW i \in Invocations, NEW b \in BOOLEAN, Claimable(i, b), TakeOver(i)
  PROVE  \A j \in Invocations : row[j].status \in Terminal => log'[j] = log[j]
BY DEF StoreTypeOK, Claimable, Startable, StaleActive, TakeOver, Terminal

(* A write that is fenced by its attempt never reaches the log of a terminal row. *)
LEMMA FinishLog ==
  ASSUME StoreTypeOK, NEW i \in Invocations, NEW a \in Nat,
         Complete(i, a) \/ Fail(i, a) \/ AppendEvent(i, a)
  PROVE  \A j \in Invocations : row[j].status \in Terminal => log'[j] = log[j]
BY DEF StoreTypeOK, Complete, Fail, Finish, AppendEvent, Owns, Terminal

(* No step adds to the log of a terminal row. *)
LEMMA NextLog ==
  ASSUME TypeOK, [Next]_vars
  PROVE  \A j \in Invocations : row[j].status \in Terminal => log'[j] = log[j]
<1>1. StoreTypeOK /\ PodTypeOK
  BY TypeSplit
<1>2. ASSUME NEW p \in Pods, Schedule(p) \/ Crash(p) PROVE log' = log
  BY <1>2 DEF Schedule, Submit, Accept, GetInvocation, ScanQueued, ScanStale, Crash
<1>3. ASSUME NEW p \in Pods, NEW i \in Invocations, RunTask(p, i)
      PROVE  \A j \in Invocations : row[j].status \in Terminal => log'[j] = log[j]
  <2>0. task[p][i].attempt \in Nat /\ task[p][i].recovery \in BOOLEAN
    BY <1>1, AttemptIsNat
  <2>1. CASE ClaimGranted(p, i) \/ ClaimError(p, i)
    BY <1>1, <2>0, <2>1, TakeOverLog DEF ClaimGranted, ClaimError, storeVars
  <2>2. CASE \/ HookReturns(p, i) \/ PersistFailure(p, i) \/ Emit(p, i)
             \/ CompleteError(p, i) \/ PersistFailureError(p, i)
    BY <1>1, <2>0, <2>2, FinishLog
       DEF HookReturns, PersistFailure, Emit, CompleteError, PersistFailureError, storeVars
  <2>3. CASE \/ ClaimDenied(p, i) \/ ClaimAgain(p, i) \/ GiveUp(p, i) \/ Beat(p, i)
             \/ HookRaises(p, i) \/ HookCancelled(p, i) \/ HandOff(p, i) \/ LookUpError(p, i)
    BY <2>3 DEF ClaimDenied, ClaimAgain, GiveUp, Beat, Heartbeat, HookRaises, HookCancelled,
                HandOff, LookUp, HandOver, LookUpError
  <2>. QED
    BY <1>3, <2>1, <2>2, <2>3 DEF RunTask, ClaimStep, Resume, EndHook
<1>4. ASSUME NEW i \in Invocations, Lapse(i) \/ Stall(i) PROVE log' = log
  BY <1>4 DEF Lapse, Stall, Expire
<1>5. CASE UNCHANGED vars
  BY <1>5 DEF vars
<1>. QED
  BY <1>2, <1>3, <1>4, <1>5 DEF Next

(* Invocation.is_terminal: a completed or failed invocation can no longer   *)
(* transition or emit events, not even through an attempt that outlived it. *)
THEOREM TerminalCanNoLongerChange == Spec => TerminalIsFinal
<1>1. TypeOK /\ QueueInv /\ [Next]_vars =>
        \A i \in Invocations : row[i].status \in Terminal =>
          row'[i] = row[i] /\ log'[i] = log[i]
  <2>. SUFFICES ASSUME TypeOK, QueueInv, [Next]_vars, NEW i \in Invocations,
                       row[i].status \in Terminal
                PROVE  row'[i] = row[i]
    BY NextLog
  <2>1. RowStep
    BY NextRowStep
  <2>2. CASE \E j \in Invocations : Enqueued(j)
    BY <2>2 DEF Enqueued, Terminal
  <2>3. CASE \E j \in Invocations : Started(j)
    BY <2>3 DEF Started, Startable, Terminal
  <2>4. CASE \E j \in Invocations : Ended(j)
    BY <2>4 DEF Ended, Terminal
  <2>5. CASE Kept
    BY <2>5 DEF Kept
  <2>. QED
    BY <2>1, <2>2, <2>3, <2>4, <2>5 DEF RowStep
<1>. QED
  BY <1>1, TypeAndQueue, PTL DEF Spec, TerminalIsFinal

-----------------------------------------------------------------------------
(* The runtime implements the line of SessionQueue: accept joins it, the    *)
(* first claim serves its head, complete and fail leave it, and recoveries, *)
(* heartbeats and events are invisible.                                     *)
LEMMA EnqueueJoins ==
  ASSUME StoreTypeOK, QueueInv, NEW i \in Invocations, Enqueued(i)
  PROVE  Queue!Next
<1>1. PICK s \in Sessions \cup {NoSession}, r \in Requests :
        row' = [row EXCEPT ![i] =
                 [status |-> "QUEUED", session |-> s, request |-> r,
                  order |-> IF s = NoSession THEN 0 ELSE NextOrder(s),
                  attempt |-> 0, fresh |-> FALSE]]
  BY DEF Enqueued
<1>2. /\ row'[i].status = "QUEUED" /\ row'[i].session = s
      /\ row'[i].order = IF s = NoSession THEN 0 ELSE NextOrder(s)
      /\ \A j \in Invocations \ {i} : row'[j] = row[j]
  BY <1>1 DEF StoreTypeOK
<1>3. row[i].status = "ABSENT"
  BY DEF Enqueued
<1>4. s # NoSession =>
        /\ NextOrder(s) \in Nat
        /\ \A j \in InSession(s) : row[j].order < NextOrder(s)
  BY NextOrderIsNew DEF QueueInv, OrdersBounded
<1>5. row'[i].order \in Nat
  BY <1>2, <1>4
<1>6. \A j \in Invocations : j \in Queue!Line(s) => j \in InSession(s)
  BY DEF Queue!Line, PhaseOf, InSession
<1>7. Queue!Join(i, s)
  BY <1>2, <1>3, <1>4, <1>5, <1>6 DEF Queue!Join, Queue!Line, PhaseOf
<1>. QED
  BY <1>7 DEF Queue!Next

(* A start is the abstract queue serving the first of a line. *)
LEMMA StartServes ==
  ASSUME StoreTypeOK, QueueInv, NEW i \in Invocations, Started(i)
  PROVE  Queue!Next
<1>1. \A j \in Invocations : row[j].order \in Nat /\ row[j].status \in Status
  BY DEF StoreTypeOK, Row
<1>2. row[i].status = "QUEUED"
  BY DEF Started, Startable
<1>3. \A j \in Queue!Ahead(i) : Queue!Done(j)
  <2>. SUFFICES ASSUME NEW j \in Queue!Ahead(i) PROVE Queue!Done(j)
    OBVIOUS
  <2>1. /\ j \in InSession(row[i].session) /\ row[i].session # NoSession
        /\ row[j].order < row[i].order
    BY DEF Queue!Ahead, Queue!Line, PhaseOf, InSession
  <2>2. row[j].status \in Terminal
    BY <1>1, <2>1 DEF Started, Startable, InSession, Status, Terminal
  <2>. QED
    BY <2>1, <2>2 DEF Queue!Done, PhaseOf, Terminal, InSession
<1>4. Queue!Serve(i)
  BY <1>2, <1>3 DEF Queue!Serve, Started, PhaseOf
<1>. QED
  BY <1>4 DEF Queue!Next

(* An end is the abstract queue letting one go. *)
LEMMA EndLeaves ==
  ASSUME StoreTypeOK, NEW i \in Invocations, Ended(i)
  PROVE  Queue!Next
<1>1. PICK st \in Terminal : row' = [row EXCEPT ![i].status = st]
  BY DEF Ended
<1>2. /\ row'[i].status = st /\ row[i].status = "ACTIVE"
      /\ \A j \in Invocations : /\ row'[j].session = row[j].session
                                /\ row'[j].order = row[j].order
                                /\ j # i => row'[j].status = row[j].status
  BY <1>1 DEF StoreTypeOK, Row, Ended
<1>3. Queue!Leave(i)
  <2>1. PhaseOf(st) \in {"completed", "failed"}
    BY DEF PhaseOf, Terminal
  <2>2. PhaseOf(row[i].status) = "served"
    BY <1>2 DEF PhaseOf
  <2>3. [j \in Invocations |-> PhaseOf(row'[j].status)]
          = [[j \in Invocations |-> PhaseOf(row[j].status)] EXCEPT ![i] = PhaseOf(st)]
    BY <1>2
  <2>4. /\ [j \in Invocations |-> row'[j].session] = [j \in Invocations |-> row[j].session]
        /\ [j \in Invocations |-> row'[j].order] = [j \in Invocations |-> row[j].order]
    BY <1>2
  <2>. QED
    BY <2>1, <2>2, <2>3, <2>4 DEF Queue!Leave
<1>. QED
  BY <1>3 DEF Queue!Next

(* A kept row is a stutter of the abstract queue. *)
LEMMA KeptStutters == ASSUME Kept PROVE UNCHANGED Queue!qvars
BY DEF Kept, Queue!qvars

(* The runtime of any number of pods implements the abstract session queue: a caller cannot *)
(* tell the pods, claims, heartbeats and crashes from one line per session.                 *)
THEOREM RuntimeIsASessionQueue == Spec => ImplementsSessionQueue
<1>1. Init => Queue!Init
  <2>. SUFFICES ASSUME Init PROVE Queue!Init
    OBVIOUS
  <2>1. \A i \in Invocations : row[i] = AbsentRow
    BY DEF Init, StoreInit
  <2>2. AbsentRow.status = "ABSENT" /\ AbsentRow.session = NoSession /\ AbsentRow.order = 0
    BY DEF AbsentRow
  <2>. QED
    BY <2>1, <2>2 DEF Queue!Init, PhaseOf
<1>2. TypeOK /\ QueueInv /\ [Next]_vars => [Queue!Next]_(Queue!qvars)
  <2>. SUFFICES ASSUME TypeOK, QueueInv, [Next]_vars PROVE [Queue!Next]_(Queue!qvars)
    OBVIOUS
  <2>1. StoreTypeOK /\ RowStep
    BY NextRowStep DEF TypeOK
  <2>. QED
    BY <2>1, EnqueueJoins, StartServes, EndLeaves, KeptStutters DEF RowStep
<1>. QED
  BY <1>1, <1>2, TypeAndQueue, PTL DEF Spec, ImplementsSessionQueue, Queue!Spec

-----------------------------------------------------------------------------
(* Attempts as fencing tokens.  A step either hands out no attempt, or one  *)
(* task gets the attempt number the row just received.                      *)
NoneTaken ==
  \A p \in Pods, i \in Invocations : task'[p][i].attempt \in {0, task[p][i].attempt}

Taken(p, i) ==
  /\ task'[p][i].attempt = row[i].attempt + 1
  /\ row'[i].attempt = row[i].attempt + 1
  /\ \A q \in Pods, j \in Invocations : <<q, j>> # <<p, i>> => task'[q][j] = task[q][j]

(* A task that goes on or leaves its hook gets no attempt. *)
LEMMA MoveTaskHolds ==
  ASSUME PodTypeOK, NEW p \in Pods, NEW i \in Invocations, NEW pc,
         MoveTask(p, i, pc) \/ LeaveHook(p, i)
  PROVE  NoneTaken
<1>1. PICK t : /\ task' = [task EXCEPT ![p][i] = t]
               /\ t.attempt = task[p][i].attempt
  <2>1. task[p][i] \in Task
    BY DEF PodTypeOK
  <2>2. CASE MoveTask(p, i, pc)
    <3>1. [task[p][i] EXCEPT !.pc = pc].attempt = task[p][i].attempt
      BY <2>1 DEF Task
    <3>. QED
      BY <2>2, <3>1 DEF MoveTask
  <2>3. CASE LeaveHook(p, i)
    <3>1. [task[p][i] EXCEPT !.pc = "lookup", !.beating = FALSE].attempt = task[p][i].attempt
      BY <2>1 DEF Task
    <3>. QED
      BY <2>3, <3>1 DEF LeaveHook
  <2>. QED
    BY <2>2, <2>3
<1>. QED
  BY <1>1 DEF NoneTaken, PodTypeOK

(* Entries of `_tasks` that are emptied or new hold no attempt. *)
LEMMA NoTaskHolds ==
  ASSUME PodTypeOK,
         \A p \in Pods, i \in Invocations :
            task'[p][i] \in {task[p][i], NoTask, NewTask(TRUE), NewTask(FALSE)}
  PROVE  NoneTaken
<1>1. NoTask.attempt = 0 /\ \A b \in BOOLEAN : NewTask(b).attempt = 0
  BY DEF NoTask, NewTask
<1>. QED
  BY <1>1 DEF NoneTaken

(* A task that ends gets no attempt. *)
LEMMA EndTaskHolds ==
  ASSUME PodTypeOK, NEW p \in Pods, NEW i \in Invocations, EndTask(p, i)
  PROVE  NoneTaken
BY NoTaskHolds DEF PodTypeOK, EndTask

(* A task that is scheduled has no attempt yet. *)
LEMMA ScheduleHolds ==
  ASSUME PodTypeOK, NEW p \in Pods, NEW ids, NEW b \in BOOLEAN, ScheduleAll(p, ids, b)
  PROVE  NoneTaken
BY NoTaskHolds DEF PodTypeOK, ScheduleAll

(* A task gets an attempt only by a claim, and then the newest. *)
LEMMA NextHolds ==
  ASSUME TypeOK, [Next]_vars
  PROVE  NoneTaken \/ \E p \in Pods, i \in Invocations : Taken(p, i)
<1>1. StoreTypeOK /\ PodTypeOK
  BY TypeSplit
<1>2. ASSUME task' = task PROVE NoneTaken
  BY <1>2 DEF NoneTaken
<1>3. ASSUME NEW p \in Pods, Schedule(p) PROVE NoneTaken
  BY <1>1, <1>2, <1>3, ScheduleHolds DEF Schedule, Submit, GetInvocation, ScanQueued, ScanStale
<1>4. ASSUME NEW p \in Pods, Crash(p) PROVE NoneTaken
  BY <1>1, <1>4, NoTaskHolds DEF Crash, PodTypeOK
<1>5. ASSUME NEW p \in Pods, NEW i \in Invocations, RunTask(p, i)
      PROVE  NoneTaken \/ Taken(p, i)
  <2>1. CASE ClaimGranted(p, i)
    <3>1. row'[i].attempt = row[i].attempt + 1
      <4>1. row[i] \in Row
        BY <1>1 DEF StoreTypeOK
      <4>. QED
        BY <1>1, <2>1, <4>1 DEF ClaimGranted, TakeOver, StoreTypeOK, Row
    <3>. DEFINE t == [task[p][i] EXCEPT !.pc = "run", !.beating = TRUE, !.attempt = row'[i].attempt]
    <3>2. t.attempt = row'[i].attempt
      <4>1. task[p][i] \in Task
        BY <1>1 DEF PodTypeOK
      <4>. QED
        BY <4>1 DEF Task
    <3>3. task' = [task EXCEPT ![p][i] = t]
      BY <2>1 DEF ClaimGranted
    <3>. HIDE DEF t
    <3>4. task'[p][i] = t
      BY <1>1, <3>3 DEF PodTypeOK
    <3>5. \A q \in Pods, j \in Invocations : <<q, j>> # <<p, i>> => task'[q][j] = task[q][j]
      BY <1>1, <3>3 DEF PodTypeOK
    <3>. QED
      BY <3>1, <3>2, <3>4, <3>5 DEF Taken
  <2>2. CASE \/ ClaimDenied(p, i) \/ ClaimError(p, i) \/ ClaimAgain(p, i) \/ HookRaises(p, i)
             \/ CompleteError(p, i) \/ HookReturns(p, i) \/ PersistFailure(p, i)
             \/ PersistFailureError(p, i)
    BY <1>1, <2>2, MoveTaskHolds
       DEF ClaimDenied, ClaimError, ClaimAgain, HookRaises, CompleteError, HookReturns,
           PersistFailure, PersistFailureError
  <2>3. CASE GiveUp(p, i) \/ HookCancelled(p, i) \/ LookUpError(p, i)
    BY <1>1, <2>3, EndTaskHolds DEF GiveUp, HookCancelled, LookUpError
  <2>4. CASE Emit(p, i)
    BY <1>2, <2>4 DEF Emit
  <2>5. CASE Beat(p, i)
    <3>1. task[p][i] \in Task
      BY <1>1 DEF PodTypeOK
    <3>2. [task[p][i] EXCEPT !.beating = Owns(i, task[p][i].attempt)].attempt = task[p][i].attempt
      BY <3>1 DEF Task
    <3>. QED
      BY <1>1, <2>5, <3>2 DEF Beat, NoneTaken, PodTypeOK
  <2>6. CASE HandOff(p, i)
    <3>1. CASE EndTask(p, i)
      BY <1>1, <3>1, EndTaskHolds
    <3>2. CASE LookUp(p, i) /\ ~EndTask(p, i)
      <4>1. task' = [task EXCEPT ![p][i] = [task[p][i] EXCEPT !.pc = "handover",
                                                              !.next = NextInSession(i)]]
        BY <3>2 DEF LookUp
      <4>. QED
        BY <1>1, <4>1, FindNext DEF NoneTaken
    <3>3. CASE HandOver(p, i)
      BY <1>1, <3>3, NoTaskHolds DEF HandOver, PodTypeOK
    <3>. QED
      BY <2>6, <3>1, <3>2, <3>3 DEF HandOff
  <2>. QED
    BY <1>5, <2>1, <2>2, <2>3, <2>4, <2>5, <2>6 DEF RunTask, ClaimStep, Resume, EndHook
<1>6. ASSUME NEW i \in Invocations, Lapse(i) \/ Stall(i) PROVE NoneTaken
  BY <1>2, <1>6 DEF Lapse, Stall
<1>7. CASE UNCHANGED vars
  <2>1. task' = task
    BY <1>7 DEF vars
  <2>. QED
    BY <1>2, <2>1
<1>. QED
  BY <1>3, <1>4, <1>5, <1>6, <1>7 DEF Next

(* No step lowers the attempt of a row. *)
LEMMA AttemptsGrow ==
  ASSUME TypeOK, QueueInv, [Next]_vars, NEW i \in Invocations
  PROVE  row'[i].attempt >= row[i].attempt
<1>0. RowStep
  BY NextRowStep
<1>1. /\ row[i] \in Row /\ row[i].attempt \in Nat
      /\ \A j \in Invocations : row[j].status = "ABSENT" => row[j].attempt = 0
  BY DEF TypeOK, StoreTypeOK, Row, QueueInv, RowsConsistent
<1>2. CASE \E j \in Invocations : Enqueued(j)
  <2>1. PICK j \in Invocations : Enqueued(j)
    BY <1>2
  <2>2. CASE i = j
    BY <1>1, <2>1, <2>2 DEF Enqueued, TypeOK, StoreTypeOK
  <2>3. CASE i # j
    BY <1>1, <2>1, <2>3 DEF Enqueued
  <2>. QED
    BY <2>2, <2>3
<1>3. CASE \E j \in Invocations : Started(j)
  BY <1>1, <1>3 DEF Started
<1>4. CASE \E j \in Invocations : Ended(j)
  BY <1>1, <1>4 DEF Ended, TypeOK, StoreTypeOK, Row
<1>5. CASE Kept
  BY <1>5 DEF Kept
<1>. QED
  BY <1>0, <1>2, <1>3, <1>4, <1>5 DEF RowStep

(* No two pods ever hold the same attempt of an invocation: the number      *)
(* _claim returns is handed to one task only, so complete, fail, heartbeat  *)
(* and append_event, which compare it, serve one owner at a time.           *)
THEOREM AttemptsFence == Spec => []AttemptHeldOnce
<1>1. Init => AttemptHeldOnce
  <2>. SUFFICES ASSUME Init PROVE AttemptHeldOnce
    OBVIOUS
  <2>1. \A i \in Invocations : row[i].attempt = 0
    <3>1. AbsentRow.attempt = 0
      BY DEF AbsentRow
    <3>. QED
      BY <3>1 DEF Init, StoreInit
  <2>2. \A p \in Pods, i \in Invocations : task[p][i].attempt = 0
    BY DEF Init, NoTask
  <2>. QED
    BY <2>1, <2>2 DEF AttemptHeldOnce
<1>2. TypeOK /\ QueueInv /\ AttemptHeldOnce /\ [Next]_vars => AttemptHeldOnce'
  <2>. SUFFICES ASSUME TypeOK, QueueInv, AttemptHeldOnce, [Next]_vars,
                       NEW i \in Invocations, NEW p \in Pods, NEW q \in Pods
                PROVE  /\ task'[p][i].attempt <= row'[i].attempt
                       /\ task'[p][i].attempt = task'[q][i].attempt
                            /\ task'[p][i].attempt > 0 => p = q
    BY DEF AttemptHeldOnce
  <2>1. /\ row[i].attempt \in Nat /\ row'[i].attempt \in Nat
        /\ task[p][i].attempt \in Nat /\ task[q][i].attempt \in Nat
    <3>1. TypeOK'
      BY NextType DEF QueueInv
    <3>. QED
      BY <3>1 DEF TypeOK, StoreTypeOK, Row, Task
  <2>2. row'[i].attempt >= row[i].attempt
    BY AttemptsGrow
  <2>3. /\ task[p][i].attempt <= row[i].attempt /\ task[q][i].attempt <= row[i].attempt
        /\ task[p][i].attempt = task[q][i].attempt /\ task[p][i].attempt > 0 => p = q
    BY DEF AttemptHeldOnce
  <2>4. CASE NoneTaken
    <3>1. /\ task'[p][i].attempt \in {0, task[p][i].attempt}
          /\ task'[q][i].attempt \in {0, task[q][i].attempt}
      BY <2>4 DEF NoneTaken
    <3>. QED
      BY <2>1, <2>2, <2>3, <3>1
  <2>5. CASE \E o \in Pods, j \in Invocations : Taken(o, j)
    <3>1. PICK o \in Pods, j \in Invocations : Taken(o, j)
      BY <2>5
    <3>2. CASE j # i
      BY <2>1, <2>2, <2>3, <3>1, <3>2 DEF Taken
    <3>3. CASE j = i
      BY <2>1, <2>3, <3>1, <3>3 DEF Taken
    <3>. QED
      BY <3>2, <3>3
  <2>. QED
    BY <2>4, <2>5, NextHolds
<1>. QED
  BY <1>1, <1>2, TypeAndQueue, PTL DEF Spec

-----------------------------------------------------------------------------
(* The event log mirrors the row.                                           *)
LEMMA Appended ==
  ASSUME StoreTypeOK, NEW i \in Invocations, NEW e \in Event,
         log' = [log EXCEPT ![i] = Append(log[i], e)]
  PROVE  /\ Len(log'[i]) = Len(log[i]) + 1
         /\ \A k \in 1..Len(log[i]) : log'[i][k] = log[i][k]
         /\ log'[i][Len(log[i]) + 1] = e
         /\ \A j \in Invocations \ {i} : log'[j] = log[j]
<1>1. log[i] \in Seq(Event)
  BY DEF StoreTypeOK
<1>2. log'[i] = Append(log[i], e)
  BY DEF StoreTypeOK
<1>. QED
  BY <1>1, <1>2 DEF StoreTypeOK

(* One more event on an open row: its attempt and the row's new state fit.  *)
LEMMA GrowLog ==
  ASSUME StoreTypeOK, StoreTypeOK', NEW i \in Invocations, NEW e \in Event,
         LogOf(i), row[i].status \notin Terminal,
         log' = [log EXCEPT ![i] = Append(log[i], e)],
         e.attempt = row[i].attempt + (IF e.type = "run.started" THEN 1 ELSE 0),
         row'[i].attempt = e.attempt,
         row'[i].status \in Terminal <=> e.type \in Closing,
         row'[i].status \in Terminal => e.type = ClosingOf(row'[i].status)
  PROVE  LogOf(i)'
<1>1. log[i] \in Seq(Event) /\ Len(log[i]) \in Nat
  BY DEF StoreTypeOK
<1>n. PICK n \in Nat : n = Len(log[i])
  BY <1>1
<1>2. /\ Len(log'[i]) = n + 1
      /\ \A k \in 1..n : log'[i][k] = log[i][k]
      /\ log'[i][n + 1] = e
  <2>1. /\ Len(log'[i]) = Len(log[i]) + 1
        /\ \A k \in 1..Len(log[i]) : log'[i][k] = log[i][k]
        /\ log'[i][Len(log[i]) + 1] = e
    BY Appended
  <2>. QED
    BY <1>n, <2>1
<1>3. \A k \in 0..n : AttemptAt(i, k)' = AttemptAt(i, k)
  BY <1>1, <1>2 DEF AttemptAt
<1>4. AttemptAt(i, n + 1)' = e.attempt
  BY <1>1, <1>2 DEF AttemptAt
<1>5. row'[i].attempt = AttemptAt(i, n + 1)'
  BY <1>4
<1>6. ASSUME NEW k \in 1..(n + 1)
      PROVE  /\ AttemptAt(i, k)' = AttemptAt(i, k-1)'
                   + (IF log'[i][k].type = "run.started" THEN 1 ELSE 0)
             /\ log'[i][k].type \in Closing => k = n + 1
  <2>1. CASE k = n + 1
    <3>1. k - 1 = n /\ n \in 0..n
      BY <2>1
    <3>2. AttemptAt(i, k-1)' = row[i].attempt
      BY <1>n, <1>3, <3>1 DEF LogOf
    <3>. QED
      BY <1>2, <1>4, <2>1, <3>2
  <2>2. CASE k \in 1..n
    <3>1. /\ AttemptAt(i, k) = AttemptAt(i, k-1)
                 + (IF log[i][k].type = "run.started" THEN 1 ELSE 0)
          /\ log[i][k].type \in Closing => k = n
      BY <1>n, <2>2 DEF LogOf
    <3>2. log[i][k].type \notin Closing
      BY <1>n, <2>2, <3>1 DEF LogOf
    <3>0. k \in 0..n /\ k-1 \in 0..n
      BY <2>2
    <3>3. AttemptAt(i, k-1)' = AttemptAt(i, k-1) /\ AttemptAt(i, k)' = AttemptAt(i, k)
      BY <1>3, <3>0
    <3>. QED
      BY <1>2, <2>2, <3>1, <3>2, <3>3
  <2>3. k = n + 1 \/ k \in 1..n
    BY <1>n
  <2>. QED
    BY <2>1, <2>2, <2>3
<1>7. row'[i].status \in Terminal <=> n + 1 > 0 /\ log'[i][n + 1].type \in Closing
  BY <1>2
<1>8. row'[i].status \in Terminal => log'[i][n + 1].type = ClosingOf(row'[i].status)
  BY <1>2
<1>. QED
  BY <1>2, <1>5, <1>6, <1>7, <1>8 DEF LogOf, ClosingOf, Closing, Terminal

(* A log tells the same story while it and its row stay. *)
LEMMA SameLog ==
  ASSUME NEW i \in Invocations, LogOf(i), log'[i] = log[i],
         row'[i].attempt = row[i].attempt, row'[i].status = row[i].status
  PROVE  LogOf(i)'
BY DEF LogOf, AttemptAt

(* Each store operation keeps every log.                                    *)
LEMMA TakeOverKeepsLog ==
  ASSUME StoreTypeOK, QueueInv, LogMatchesRow,
         NEW i \in Invocations, NEW b \in BOOLEAN, Claimable(i, b), TakeOver(i)
  PROVE  LogMatchesRow'
<1>1. StoreTypeOK'
  BY TakeOverType
<1>2. row[i] \in Row /\ row[i].attempt \in Nat
  BY DEF StoreTypeOK, Row
<1>3. /\ row'[i].status = "ACTIVE" /\ row'[i].attempt = row[i].attempt + 1
      /\ \A j \in Invocations \ {i} : row'[j] = row[j]
  BY <1>2 DEF StoreTypeOK, TakeOver, Row
<1>. DEFINE e == [attempt |-> row[i].attempt + 1, type |-> "run.started"]
<1>4. e \in Event /\ e.attempt = row[i].attempt + 1 /\ e.type = "run.started"
  BY <1>2 DEF Event
<1>5. log' = [log EXCEPT ![i] = Append(log[i], e)]
  BY DEF TakeOver
<1>6. row[i].status \notin Terminal
  BY DEF Claimable, Startable, StaleActive, Terminal
<1>. HIDE DEF e
<1>7. LogOf(i)'
  BY <1>1, <1>3, <1>4, <1>5, <1>6, GrowLog DEF LogMatchesRow, Terminal, Closing
<1>8. \A j \in Invocations \ {i} : log'[j] = log[j]
  BY <1>5 DEF StoreTypeOK
<1>9. \A j \in Invocations \ {i} : LogOf(j)'
  BY <1>3, <1>8, SameLog DEF LogMatchesRow
<1>. QED
  BY <1>7, <1>9 DEF LogMatchesRow

(* So do all logs when none of them, and no status or attempt, changes. *)
LEMMA UnchangedKeepsLog ==
  ASSUME LogMatchesRow, log' = log,
         \A i \in Invocations : /\ row'[i].attempt = row[i].attempt
                                /\ row'[i].status = row[i].status
  PROVE  LogMatchesRow'
BY SameLog DEF LogMatchesRow

(* Completion and failure write the row and its last event together. *)
LEMMA FinishKeepsLog ==
  ASSUME StoreTypeOK, LogMatchesRow, NEW i \in Invocations, NEW a \in Nat,
         Complete(i, a) \/ Fail(i, a)
  PROVE  LogMatchesRow'
<1>1. StoreTypeOK'
  BY FinishType
<1>2. PICK st \in Terminal, ev \in Closing : Finish(i, a, st, ev) /\ ev = ClosingOf(st)
  BY DEF Complete, Fail, Terminal, Closing, ClosingOf
<1>3. CASE ~Owns(i, a)
  BY <1>2, <1>3, UnchangedKeepsLog DEF Finish
<1>4. CASE Owns(i, a)
  <2>1. /\ row'[i].status = st /\ row'[i].attempt = row[i].attempt /\ row[i].attempt = a
        /\ row[i].status = "ACTIVE"
        /\ \A j \in Invocations \ {i} : row'[j] = row[j]
    BY <1>2, <1>4 DEF Finish, Owns, StoreTypeOK, Row
  <2>. DEFINE e == [attempt |-> a, type |-> ev]
  <2>2. e \in Event /\ e.attempt = a /\ e.type = ev
    BY <1>2 DEF Event, Closing
  <2>3. log' = [log EXCEPT ![i] = Append(log[i], e)]
    BY <1>2, <1>4 DEF Finish
  <2>. HIDE DEF e
  <2>4. ev # "run.started" /\ row[i].status \notin Terminal
    BY <1>2, <2>1 DEF Closing, Terminal
  <2>5. LogOf(i)'
    <3>1. e.attempt = row[i].attempt + (IF e.type = "run.started" THEN 1 ELSE 0)
      BY <2>1, <2>2, <2>4
    <3>2. row'[i].attempt = e.attempt /\ row'[i].status \in Terminal /\ e.type \in Closing
          /\ e.type = ClosingOf(row'[i].status)
      BY <1>2, <2>1, <2>2
    <3>. QED
      BY <1>1, <2>2, <2>3, <2>4, <3>1, <3>2, GrowLog DEF LogMatchesRow
  <2>6. \A j \in Invocations \ {i} : log'[j] = log[j]
    BY <2>3 DEF StoreTypeOK
  <2>7. \A j \in Invocations \ {i} : LogOf(j)'
    BY <2>1, <2>6, SameLog DEF LogMatchesRow
  <2>. QED
    BY <2>5, <2>7 DEF LogMatchesRow
<1>. QED
  BY <1>3, <1>4

(* An emit adds an event of the current attempt, or nothing. *)
LEMMA AppendKeepsLog ==
  ASSUME StoreTypeOK, LogMatchesRow, NEW i \in Invocations, NEW a \in Nat, AppendEvent(i, a)
  PROVE  LogMatchesRow'
<1>1. StoreTypeOK' /\ row' = row
  BY AppendType DEF AppendEvent
<1>2. CASE ~Owns(i, a)
  BY <1>1, <1>2, UnchangedKeepsLog DEF AppendEvent
<1>3. CASE Owns(i, a)
  <2>. DEFINE e == [attempt |-> a, type |-> "emitted"]
  <2>1. e \in Event /\ e.attempt = a /\ e.type = "emitted"
    BY DEF Event
  <2>2. log' = [log EXCEPT ![i] = Append(log[i], e)]
    BY <1>3 DEF AppendEvent
  <2>. HIDE DEF e
  <2>3. row[i].attempt = a /\ row[i].status = "ACTIVE"
    BY <1>3 DEF Owns
  <2>4. LogOf(i)'
    <3>1. e.attempt = row[i].attempt + (IF e.type = "run.started" THEN 1 ELSE 0)
      BY <2>1, <2>3
    <3>2. row[i].status \notin Terminal /\ row'[i].status \notin Terminal
          /\ e.type \notin Closing /\ row'[i].attempt = e.attempt
      BY <1>1, <2>1, <2>3 DEF Terminal, Closing
    <3>. QED
      BY <1>1, <2>1, <2>2, <3>1, <3>2, GrowLog DEF LogMatchesRow
  <2>5. \A j \in Invocations \ {i} : log'[j] = log[j]
    BY <2>2 DEF StoreTypeOK
  <2>6. \A j \in Invocations \ {i} : LogOf(j)'
    BY <1>1, <2>5, SameLog DEF LogMatchesRow
  <2>. QED
    BY <2>4, <2>6 DEF LogMatchesRow
<1>. QED
  BY <1>2, <1>3

(* A heartbeat and its lapse are not told in the log. *)
LEMMA FreshnessKeepsLog ==
  ASSUME StoreTypeOK, LogMatchesRow, NEW i \in Invocations,
         (\E a \in Nat : Heartbeat(i, a)) \/ Expire(i)
  PROVE  LogMatchesRow'
<1>1. log' = log
  BY DEF Heartbeat, Expire
<1>2. \A j \in Invocations : row[j] \in Row
  BY DEF StoreTypeOK
<1>3. row' = row \/ \E b \in BOOLEAN : row' = [row EXCEPT ![i] = [row[i] EXCEPT !.fresh = b]]
  BY DEF Heartbeat, Expire
<1>4. \A j \in Invocations : row'[j].attempt = row[j].attempt /\ row'[j].status = row[j].status
  <2>1. CASE row' = row
    BY <2>1
  <2>2. CASE \E b \in BOOLEAN : row' = [row EXCEPT ![i] = [row[i] EXCEPT !.fresh = b]]
    BY <1>2, <2>2 DEF StoreTypeOK, Row
  <2>. QED
    BY <1>3, <2>1, <2>2
<1>. QED
  BY <1>1, <1>4, UnchangedKeepsLog

(* An accepted invocation has an empty log; a repeated one keeps what it has. *)
LEMMA AcceptKeepsLog ==
  ASSUME StoreTypeOK, QueueInv, LogMatchesRow, NEW i \in Invocations,
         NEW s \in Sessions \cup {NoSession}, NEW r \in Requests, Accept(i, s, r)
  PROVE  LogMatchesRow'
<1>1. CASE row[i].status # "ABSENT"
  BY <1>1, UnchangedKeepsLog DEF Accept
<1>2. CASE row[i].status = "ABSENT"
  <2>1. row'[i].attempt = 0 /\ row'[i].status = "QUEUED" /\ log' = log
    BY <1>2 DEF Accept, StoreTypeOK
  <2>2. row[i].attempt = 0
    BY <1>2 DEF QueueInv, RowsConsistent
  <2>3. \A j \in Invocations \ {i} : row'[j] = row[j]
    BY <1>2 DEF Accept, StoreTypeOK
  <2>4. \A j \in Invocations \ {i} : LogOf(j)'
    BY <2>1, <2>3, SameLog DEF LogMatchesRow
  <2>5. LogOf(i)'
    BY <1>2, <2>1, <2>2 DEF LogMatchesRow, LogOf, AttemptAt, Terminal
  <2>. QED
    BY <2>4, <2>5 DEF LogMatchesRow
<1>. QED
  BY <1>1, <1>2

(* Every step keeps the story of every log. *)
LEMMA NextKeepsLog == ASSUME TypeOK, QueueInv, LogMatchesRow, [Next]_vars PROVE LogMatchesRow'
<1>1. StoreTypeOK /\ PodTypeOK
  BY TypeSplit
<1>2. ASSUME UNCHANGED storeVars PROVE LogMatchesRow'
  BY <1>2, UnchangedKeepsLog DEF storeVars
<1>3. ASSUME NEW p \in Pods, Schedule(p) \/ Crash(p) PROVE LogMatchesRow'
  BY <1>1, <1>2, <1>3, AcceptKeepsLog
     DEF Schedule, Submit, GetInvocation, ScanQueued, ScanStale, Crash, storeVars
<1>4. ASSUME NEW p \in Pods, NEW i \in Invocations, RunTask(p, i) PROVE LogMatchesRow'
  <2>0. task[p][i].attempt \in Nat /\ task[p][i].recovery \in BOOLEAN
    BY <1>1, AttemptIsNat
  <2>1. CASE ClaimGranted(p, i) \/ ClaimError(p, i)
    BY <1>1, <1>2, <2>0, <2>1, TakeOverKeepsLog DEF ClaimGranted, ClaimError
  <2>2. CASE \/ HookReturns(p, i) \/ PersistFailure(p, i)
             \/ CompleteError(p, i) \/ PersistFailureError(p, i)
    BY <1>1, <1>2, <2>0, <2>2, FinishKeepsLog
       DEF HookReturns, PersistFailure, CompleteError, PersistFailureError
  <2>3. CASE Emit(p, i)
    BY <1>1, <2>0, <2>3, AppendKeepsLog DEF Emit
  <2>4. CASE Beat(p, i)
    BY <1>1, <2>0, <2>4, FreshnessKeepsLog DEF Beat
  <2>5. CASE \/ ClaimDenied(p, i) \/ ClaimAgain(p, i) \/ GiveUp(p, i)
             \/ HookRaises(p, i) \/ HookCancelled(p, i) \/ HandOff(p, i) \/ LookUpError(p, i)
    BY <1>2, <2>5
       DEF ClaimDenied, ClaimAgain, GiveUp, HookRaises, HookCancelled, HandOff, LookUp,
           HandOver, LookUpError, storeVars
  <2>. QED
    BY <1>4, <2>1, <2>2, <2>3, <2>4, <2>5 DEF RunTask, ClaimStep, Resume, EndHook
<1>5. ASSUME NEW i \in Invocations, Lapse(i) \/ Stall(i) PROVE LogMatchesRow'
  BY <1>1, <1>5, FreshnessKeepsLog DEF Lapse, Stall
<1>6. CASE UNCHANGED vars
  BY <1>2, <1>6 DEF vars, storeVars
<1>. QED
  BY <1>3, <1>4, <1>5, <1>6 DEF Next

(* The persisted events of an invocation tell its whole story: replaying    *)
(* them gives the attempt and the terminal status of its row, because       *)
(* _claim, complete and fail write row and event in one transaction and     *)
(* append_event is fenced.                                                  *)
THEOREM EventsTellTheStory == Spec => []LogMatchesRow
<1>1. Init => LogMatchesRow
  <2>. SUFFICES ASSUME Init, NEW i \in Invocations PROVE LogOf(i)
    BY DEF LogMatchesRow
  <2>1. log[i] = <<>> /\ row[i] = AbsentRow
    BY DEF Init, StoreInit
  <2>2. AbsentRow.attempt = 0 /\ AbsentRow.status = "ABSENT"
    BY DEF AbsentRow
  <2>. QED
    BY <2>1, <2>2 DEF LogOf, AttemptAt, Terminal
<1>2. TypeOK /\ QueueInv /\ LogMatchesRow /\ [Next]_vars => LogMatchesRow'
  BY NextKeepsLog
<1>. QED
  BY <1>1, <1>2, TypeAndQueue, PTL DEF Spec

(* What was accepted and what has ended never changes (accept, _claim,      *)
(* _finish).                                                                *)
THEOREM RowsStay == Spec => RowsAreKept
<1>. QED
  BY TerminalCanNoLongerChange, AcceptanceIsImmutable DEF RowsAreKept
=============================================================================
