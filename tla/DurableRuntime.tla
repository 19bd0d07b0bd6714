--------------------------- MODULE DurableRuntime ---------------------------
(***************************************************************************)
(* Agent processes ("pods") that share one Runtime Store.  Each pod runs a *)
(* Runtime with a DurableInvocationExecutor: API calls and two scanners    *)
(* schedule asyncio tasks, a task claims an invocation, runs the agent     *)
(* hook under a heartbeat, persists the outcome, and hands the session     *)
(* over to its next queued invocation.                                     *)
(*                                                                         *)
(* What a task knows is its own record; the row it claimed may have moved  *)
(* on since.  An action is the code between two awaits, together with the  *)
(* store transaction it awaits.                                            *)
(***************************************************************************)
EXTENDS RuntimeStore

CONSTANTS Pods,
          RecoveryEnabled,  \* an @app.recover hook is registered
          MaxEmits,         \* bound: events an attempt emits
          MaxFaults         \* bound: crashes, stalls and database errors in a behaviour

ASSUME RuntimeAssumption ==
  RecoveryEnabled \in BOOLEAN /\ MaxEmits \in Nat /\ MaxFaults \in Nat

VARIABLES task,    \* task[p][i]: the task `_tasks` of pod p holds for invocation i
          retry,   \* retry[p]: `_claim_retries` of pod p
          faults   \* faults so far

vars == <<row, log, task, retry, faults>>

(* none     no live task                                                    *)
(* claim    about to call claim / claim_recoverable                         *)
(* denied   the claim returned None or raised; the coroutine did not resume *)
(* run      inside AttemptExecution.run, the hook is executing              *)
(* failing  an exception was caught; about to persist the failure           *)
(* lookup   the attempt is over; about to look for the session's next work  *)
(* handover about to schedule what it found                                 *)
Task == [pc       : {"none", "claim", "denied", "run", "failing", "lookup", "handover"},
         recovery : BOOLEAN,
         attempt  : Nat,       \* claimed.attempt, 0 before the claim
         beating  : BOOLEAN,   \* the Heartbeat task is alive
         next     : SUBSET Invocations]  \* next_state, when it is QUEUED

NoTask == [pc |-> "none", recovery |-> FALSE, attempt |-> 0, beating |-> FALSE, next |-> {}]
NewTask(recovery) == [NoTask EXCEPT !.pc = "claim", !.recovery = recovery]

Live(p, i)      == task[p][i].pc # "none"
Executing(p, i) == task[p][i].pc \in {"run", "failing"}
Fault           == faults < MaxFaults /\ faults' = faults + 1

Init ==
  /\ StoreInit
  /\ task = [p \in Pods |-> [i \in Invocations |-> NoTask]]
  /\ retry = [p \in Pods |-> {}]
  /\ faults = 0

-----------------------------------------------------------------------------
(* _schedule: at most one live task per invocation and pod. *)
ScheduleAll(p, ids, recovery) ==
  task' = [task EXCEPT ![p] = [i \in Invocations |->
             IF i \in ids /\ ~Live(p, i) THEN NewTask(recovery) ELSE task[p][i]]]

(* The task returns: _discard_task forgets it and its pending claim retry.  *)
EndTask(p, i) ==
  /\ task' = [task EXCEPT ![p][i] = NoTask]
  /\ retry' = [retry EXCEPT ![p] = @ \ {i}]

MoveTask(p, i, pc) == task' = [task EXCEPT ![p][i].pc = pc]

(* The hook is over, so `async with Heartbeat` cancels the heartbeat task.  *)
LeaveHook(p, i) ==
  task' = [task EXCEPT ![p][i] = [task[p][i] EXCEPT !.pc = "lookup", !.beating = FALSE]]

(* Runtime.submit: accept, then ensure_scheduled on the returned state.  A  *)
(* conflicting reuse of the id raises before anything is scheduled.         *)
Submit(p, i, s, r) ==
  /\ Accept(i, s, r)
  /\ IF ~Conflicts(i, s, r) /\ row'[i].status = "QUEUED"
     THEN ScheduleAll(p, {i}, FALSE)
     ELSE UNCHANGED task
  /\ UNCHANGED <<retry, faults>>

(* Runtime.get_invocation, and wait and the event stream that poll it: a    *)
(* read schedules queued work on the pod that served it.                    *)
GetInvocation(p, i) ==
  /\ row[i].status = "QUEUED"
  /\ ScheduleAll(p, {i}, FALSE)
  /\ UNCHANGED <<row, log, retry, faults>>

ScanQueued(p) ==
  /\ \E i \in QueuedIds : ~Live(p, i)
  /\ ScheduleAll(p, QueuedIds, FALSE)
  /\ UNCHANGED <<row, log, retry, faults>>

ScanStale(p) ==
  /\ RecoveryEnabled
  /\ \E i \in StaleIds : ~Live(p, i)
  /\ ScheduleAll(p, StaleIds, TRUE)
  /\ UNCHANGED <<row, log, retry, faults>>

-----------------------------------------------------------------------------
(* _run, first part: the claim is granted.  The task enters the hook with   *)
(* the attempt it was given and its heartbeat started.                      *)
ClaimGranted(p, i) ==
  /\ task[p][i].pc = "claim"
  /\ Claimable(i, task[p][i].recovery)
  /\ TakeOver(i)
  /\ task' = [task EXCEPT ![p][i] = [task[p][i] EXCEPT !.pc = "run", !.beating = TRUE,
                                                       !.attempt = row'[i].attempt]]
  /\ retry' = [retry EXCEPT ![p] = @ \ {i}]
  /\ UNCHANGED faults

ClaimDenied(p, i) ==
  /\ task[p][i].pc = "claim"
  /\ ~Claimable(i, task[p][i].recovery)
  /\ MoveTask(p, i, "denied")
  /\ UNCHANGED <<row, log, retry, faults>>

(* The claim raised: the transaction committed or it did not, and the task  *)
(* cannot tell.                                                             *)
ClaimError(p, i) ==
  /\ task[p][i].pc = "claim"
  /\ \/ Claimable(i, task[p][i].recovery) /\ TakeOver(i)
     \/ UNCHANGED storeVars
  /\ MoveTask(p, i, "denied")
  /\ Fault
  /\ UNCHANGED retry

(* claimed is None: try once more if a hand-over asked for it meanwhile.    *)
ClaimAgain(p, i) ==
  /\ task[p][i].pc = "denied"
  /\ ~task[p][i].recovery /\ i \in retry[p]
  /\ retry' = [retry EXCEPT ![p] = @ \ {i}]
  /\ MoveTask(p, i, "claim")
  /\ UNCHANGED <<row, log, faults>>

GiveUp(p, i) ==
  /\ task[p][i].pc = "denied"
  /\ task[p][i].recovery \/ i \notin retry[p]
  /\ EndTask(p, i)
  /\ UNCHANGED <<row, log, faults>>

-----------------------------------------------------------------------------
(* One round of Heartbeat._run.  Losing the row ends the heartbeat only:    *)
(* the hook is not told.                                                    *)
Beat(p, i) ==
  /\ task[p][i].beating
  /\ Heartbeat(i, task[p][i].attempt)
  /\ task' = [task EXCEPT ![p][i].beating = Owns(i, task[p][i].attempt)]
  /\ UNCHANGED <<retry, faults>>

(* stale_seconds pass on a row no heartbeat refreshes any more.             *)
Lapse(i) ==
  /\ ~\E p \in Pods : task[p][i].beating /\ Owns(i, task[p][i].attempt)
  /\ Expire(i)
  /\ UNCHANGED <<task, retry, faults>>

(* ... or on a row whose owner is alive but could not write its heartbeat:  *)
(* a blocked event loop, a database outage.                                 *)
Stall(i) ==
  /\ \E p \in Pods : task[p][i].beating /\ Owns(i, task[p][i].attempt)
  /\ Expire(i)
  /\ Fault
  /\ UNCHANGED <<task, retry>>

-----------------------------------------------------------------------------
EmittedBy(i, a) == {k \in DOMAIN log[i] : log[i][k] = [attempt |-> a, type |-> "emitted"]}

(* The agent hook (user code: it may emit, return or raise at any time).    *)
(* An emit that finds the attempt lost raises into the hook, which may do   *)
(* any of these next.                                                       *)
Emit(p, i) ==
  /\ task[p][i].pc = "run"
  /\ Cardinality(EmittedBy(i, task[p][i].attempt)) < MaxEmits
  /\ AppendEvent(i, task[p][i].attempt)
  /\ UNCHANGED <<task, retry, faults>>

HookReturns(p, i) ==
  /\ task[p][i].pc = "run"
  /\ Complete(i, task[p][i].attempt)
  /\ LeaveHook(p, i)
  /\ UNCHANGED <<retry, faults>>

HookRaises(p, i) ==
  /\ task[p][i].pc = "run"
  /\ MoveTask(p, i, "failing")
  /\ UNCHANGED <<row, log, retry, faults>>

(* complete raised, before or after its commit: handled as a failed attempt *)
CompleteError(p, i) ==
  /\ task[p][i].pc = "run"
  /\ Complete(i, task[p][i].attempt) \/ UNCHANGED storeVars
  /\ MoveTask(p, i, "failing")
  /\ Fault
  /\ UNCHANGED retry

PersistFailure(p, i) ==
  /\ task[p][i].pc = "failing"
  /\ Fail(i, task[p][i].attempt)
  /\ LeaveHook(p, i)
  /\ UNCHANGED <<retry, faults>>

(* fail raised as well: only logged, and the attempt is over all the same   *)
PersistFailureError(p, i) ==
  /\ task[p][i].pc = "failing"
  /\ Fail(i, task[p][i].attempt) \/ UNCHANGED storeVars
  /\ LeaveHook(p, i)
  /\ Fault
  /\ UNCHANGED retry

(* CancelledError out of the hook is re-raised: no outcome, no hand-over.   *)
HookCancelled(p, i) ==
  /\ task[p][i].pc = "run"
  /\ EndTask(p, i)
  /\ Fault
  /\ UNCHANGED <<row, log>>

NextInSession(i) == IF row[i].session = NoSession THEN {}
                    ELSE SessionHead(row[i].session) \cap WithStatus("QUEUED")

(* _run, last part: what is the session's next queued invocation?           *)
LookUp(p, i) ==
  /\ task[p][i].pc = "lookup"
  /\ IF NextInSession(i) = {} THEN EndTask(p, i)
     ELSE /\ task' = [task EXCEPT ![p][i] = [task[p][i] EXCEPT !.pc = "handover",
                                                               !.next = NextInSession(i)]]
          /\ UNCHANGED retry
  /\ UNCHANGED <<row, log, faults>>

(* get raised: only logged, and nobody is handed the session                *)
LookUpError(p, i) ==
  /\ task[p][i].pc = "lookup" /\ row[i].session # NoSession
  /\ EndTask(p, i)
  /\ Fault
  /\ UNCHANGED <<row, log>>

(* Schedule it on this pod, or ask a task of it that is still claiming to   *)
(* try again.  The row may have moved on since it was read.                 *)
HandOver(p, i) ==
  /\ task[p][i].pc = "handover"
  /\ task' = [task EXCEPT ![p] = [j \in Invocations |->
                IF j = i THEN NoTask
                ELSE IF j \in task[p][i].next /\ ~Live(p, j) THEN NewTask(FALSE)
                ELSE task[p][j]]]
  /\ retry' = [retry EXCEPT ![p] = (@ \ {i}) \cup {j \in task[p][i].next : Live(p, j)}]
  /\ UNCHANGED <<row, log, faults>>

(* The pod dies, or stops: its tasks are gone, the rows they held remain    *)
(* ACTIVE.  It is back at once, with nothing scheduled.                     *)
Crash(p) ==
  /\ \E i \in Invocations : Live(p, i)
  /\ task' = [task EXCEPT ![p] = [i \in Invocations |-> NoTask]]
  /\ retry' = [retry EXCEPT ![p] = {}]
  /\ Fault
  /\ UNCHANGED <<row, log>>

-----------------------------------------------------------------------------
Schedule(p) ==
  \/ \E i \in Invocations, s \in Sessions \cup {NoSession}, r \in Requests : Submit(p, i, s, r)
  \/ \E i \in Invocations : GetInvocation(p, i)
  \/ ScanQueued(p)
  \/ ScanStale(p)

ClaimStep(p, i) == ClaimGranted(p, i) \/ ClaimDenied(p, i)
Resume(p, i)    == ClaimAgain(p, i) \/ GiveUp(p, i)
EndHook(p, i)   == HookReturns(p, i) \/ HookRaises(p, i)
HandOff(p, i)   == LookUp(p, i) \/ HandOver(p, i)

RunTask(p, i) ==
  \/ ClaimStep(p, i) \/ ClaimError(p, i) \/ Resume(p, i)
  \/ Beat(p, i) \/ Emit(p, i) \/ EndHook(p, i) \/ CompleteError(p, i)
  \/ PersistFailure(p, i) \/ PersistFailureError(p, i) \/ HookCancelled(p, i)
  \/ HandOff(p, i) \/ LookUpError(p, i)

Next ==
  \/ \E p \in Pods : Schedule(p) \/ Crash(p)
  \/ \E p \in Pods, i \in Invocations : RunTask(p, i)
  \/ \E i \in Invocations : Lapse(i) \/ Stall(i)

Spec == Init /\ [][Next]_vars

(* The event loop runs every task that can run, the scanners wake every     *)
(* scan_seconds, an agent hook ends, and time passes.  Clients owe nothing. *)
Fairness ==
  /\ \A p \in Pods : WF_vars(ScanQueued(p)) /\ WF_vars(ScanStale(p))
  /\ \A p \in Pods, i \in Invocations :
       /\ WF_vars(ClaimStep(p, i)) /\ WF_vars(Resume(p, i))
       /\ WF_vars(EndHook(p, i)) /\ WF_vars(PersistFailure(p, i))
       /\ WF_vars(HandOff(p, i))
  /\ \A i \in Invocations : WF_vars(Lapse(i))

FairSpec == Spec /\ Fairness

-----------------------------------------------------------------------------
TypeOK ==
  /\ StoreTypeOK
  /\ task \in [Pods -> [Invocations -> Task]]
  /\ retry \in [Pods -> SUBSET Invocations]
  /\ faults \in 0..MaxFaults

SameSession(i, j) == row[i].session = row[j].session /\ row[i].session # NoSession

(* A session never has two ACTIVE invocations, whatever pods, scanners and  *)
(* retries race for it (the partial unique index would make a claim raise). *)
OneActivePerSession ==
  \A i, j \in Invocations :
     row[i].status = "ACTIVE" /\ row[j].status = "ACTIVE" /\ SameSession(i, j) => i = j

(* Acceptance order is execution order: once an invocation has started,     *)
(* every one accepted before it in its session has reached its end.         *)
ServedInOrder ==
  \A i, j \in Invocations :
     SameSession(i, j) /\ row[i].order < row[j].order /\ row[j].attempt > 0
       => row[i].status \in Terminal

(* What ServedInOrder rests on: the orders of a session are distinct and    *)
(* have a maximum for MAX(...) + 1 to exceed, and a row has an attempt      *)
(* exactly when it has been claimed.                                        *)
OrdersBounded ==
  \A s \in Sessions : \E m \in Orders(s) : \A n \in Orders(s) : m >= n

OrdersDistinct ==
  \A i, j \in Invocations : SameSession(i, j) /\ row[i].order = row[j].order => i = j

RowsConsistent ==
  \A i \in Invocations :
     /\ row[i].attempt = 0 <=> row[i].status \in {"ABSENT", "QUEUED"}
     /\ row[i].status = "ABSENT" => row[i].session = NoSession

QueueInv == OrdersBounded /\ OrdersDistinct /\ RowsConsistent /\ ServedInOrder

(* An attempt number is a fencing token: no two pods ever hold the same one *)
(* for an invocation, and nobody holds one the store has not given out.     *)
AttemptHeldOnce ==
  \A i \in Invocations, p, q \in Pods :
     /\ task[p][i].attempt <= row[i].attempt
     /\ task[p][i].attempt = task[q][i].attempt /\ task[p][i].attempt > 0 => p = q

(* The event log of an invocation can be replayed into its row: attempts    *)
(* appear in order, each opened by one run.started, and a closing event is  *)
(* there exactly when the row is terminal, and is the last one.             *)
Closing        == {"run.completed", "run.failed"}
ClosingOf(st)  == IF st = "COMPLETED" THEN "run.completed" ELSE "run.failed"
AttemptAt(i, k) == IF k = 0 THEN 0 ELSE log[i][k].attempt

LogOf(i) ==
  LET n == Len(log[i]) IN
  /\ row[i].attempt = AttemptAt(i, n)
  /\ \A k \in 1..n :
       /\ AttemptAt(i, k) = AttemptAt(i, k-1) + (IF log[i][k].type = "run.started" THEN 1 ELSE 0)
       /\ log[i][k].type \in Closing => k = n
  /\ row[i].status \in Terminal <=> n > 0 /\ log[i][n].type \in Closing
  /\ row[i].status \in Terminal => log[i][n].type = ClosingOf(row[i].status)

LogMatchesRow == \A i \in Invocations : LogOf(i)

(* is_terminal: "can no longer transition or emit events".                  *)
TerminalIsFinal ==
  [][\A i \in Invocations : row[i].status \in Terminal =>
       row'[i] = row[i] /\ log'[i] = log[i]]_vars

(* What was accepted under an id stays: session, request and order.         *)
AcceptedIsKept ==
  [][\A i \in Invocations : row[i].status # "ABSENT" =>
       /\ row'[i].status # "ABSENT"
       /\ row'[i].session = row[i].session
       /\ row'[i].request = row[i].request
       /\ row'[i].order = row[i].order
       /\ row'[i].attempt >= row[i].attempt]_vars

(* What was accepted and what has ended never changes.                      *)
RowsAreKept == TerminalIsFinal /\ AcceptedIsKept

(* The runtime implements the line of SessionQueue.                         *)
PhaseOf(st) == CASE st = "ABSENT" -> "new" [] st = "QUEUED" -> "waiting"
                 [] st = "ACTIVE" -> "served" [] st = "COMPLETED" -> "completed"
                 [] OTHER -> "failed"

Queue == INSTANCE SessionQueue WITH
           session <- [i \in Invocations |-> row[i].session],
           place   <- [i \in Invocations |-> row[i].order],
           phase   <- [i \in Invocations |-> PhaseOf(row[i].status)]

ImplementsSessionQueue == Queue!Spec

(* ARCHITECTURE.md: "Invocations in one session execute serially."  Read of *)
(* the hooks that execute, not of the rows: two hooks of different          *)
(* invocations of one session never run at the same time.                   *)
SessionHooksSerial ==
  \A p, q \in Pods, i, j \in Invocations :
     task[p][i].pc = "run" /\ task[q][j].pc = "run" /\ SameSession(i, j) => i = j

(* Every accepted invocation ends, through crashes, stalls and lost writes, *)
(* when a recovery hook is registered.                                      *)
EveryInvocationEnds ==
  \A i \in Invocations : row[i].status = "QUEUED" ~> row[i].status \in Terminal
=============================================================================
