---------------------------- MODULE LocalRuntime ----------------------------
(***************************************************************************)
(* One process with a Runtime and a LocalInvocationExecutor: no heartbeat, *)
(* no scanner and no recovery.  Nothing looks for queued work, so every    *)
(* queued invocation depends on being handed on: by the call that accepted *)
(* it, or by the attempt that ran before it in its session.                *)
(*                                                                         *)
(* The executor is written for any RuntimeStore whose operations await, so *)
(* a call or a task is cut at every await: what it read may be old by the  *)
(* time it resumes.  InMemoryRuntimeStore happens never to suspend, which  *)
(* leaves it a subset of these behaviours.                                 *)
(***************************************************************************)
EXTENDS MemoryStore

CONSTANTS MaxEmits,    \* bound: events an attempt emits
          MaxFaults    \* bound: store errors and cancelled hooks in a behaviour

ASSUME LocalAssumption == MaxEmits \in Nat /\ MaxFaults \in Nat

VARIABLES task,    \* task[i]: the task `_tasks` holds for i
          retry,   \* `_claim_retries`
          calls,   \* calls that got i back QUEUED and have not scheduled it yet
          phase,   \* of the Runtime: "up", "stopping" (inside stop), "down"
          faults

vars == <<states, persisted, task, retry, calls, phase, faults>>

(* none       no live task                                                 *)
(* claim      about to claim                                               *)
(* denied     the claim gave None; the coroutine has not resumed           *)
(* run        inside AttemptExecution.run, the agent's hook executes       *)
(* failing    an exception was caught; about to persist the failure        *)
(* lookup     the attempt is over; about to read the session               *)
(* handover   the session's next invocation was read; about to schedule it *)
Task == [pc      : {"none", "claim", "denied", "run", "failing", "lookup", "handover"},
         attempt : Nat,
         next    : SUBSET Invocations,               \* what the lookup returned
         stop    : {"no", "cancelled", "ignored"}]   \* stop() waits for it unless "no"

NoTask  == [pc |-> "none", attempt |-> 0, next |-> {}, stop |-> "no"]
NewTask == [NoTask EXCEPT !.pc = "claim"]

Live(i)   == task[i].pc # "none"
At(i, pc) == task[i].pc = pc /\ task[i].stop # "cancelled"
InHook(i) == task[i].pc = "run"
Fault     == faults < MaxFaults /\ faults' = faults + 1

Init ==
  /\ StoreInit
  /\ task = [i \in Invocations |-> NoTask]
  /\ retry = {}
  /\ calls = {}
  /\ phase = "up"
  /\ faults = 0

-----------------------------------------------------------------------------
(* _schedule(i, retry_if_running=False) *)
Schedule(i) == task' = IF Live(i) THEN task ELSE [task EXCEPT ![i] = NewTask]

Move(i, pc) == task' = [task EXCEPT ![i].pc = pc]

(* The coroutine returns and _discard_task forgets it. *)
End(i) ==
  /\ task' = [task EXCEPT ![i] = NoTask]
  /\ retry' = retry \ {i}

(* Runtime.submit up to the await of accept.  A conflict raises. *)
Submit(i, s, r) ==
  /\ Accept(i, s, r)
  /\ calls' = IF ~Conflicts(i, s, r) /\ states'[i].status = "QUEUED"
              THEN calls \cup {i} ELSE calls
  /\ UNCHANGED <<task, retry, phase, faults>>

(* Runtime.get_invocation, behind GET, wait and the event stream *)
Read(i) ==
  /\ states[i].status = "QUEUED"
  /\ calls' = calls \cup {i}
  /\ UNCHANGED <<states, persisted, task, retry, phase, faults>>

(* The call resumes: ensure_scheduled on the state it was given. *)
EnsureScheduled(i) ==
  /\ i \in calls
  /\ calls' = calls \ {i}
  /\ Schedule(i)
  /\ UNCHANGED <<states, persisted, retry, phase, faults>>

-----------------------------------------------------------------------------
ClaimGranted(i) ==
  /\ At(i, "claim") /\ Claimable(i)
  /\ Claim(i)
  /\ task' = [task EXCEPT ![i] = [task[i] EXCEPT !.pc = "run",
                                                 !.attempt = states[i].attempt + 1]]
  /\ retry' = retry \ {i}
  /\ UNCHANGED <<calls, phase, faults>>

ClaimDenied(i) ==
  /\ At(i, "claim") /\ ~Claimable(i)
  /\ Move(i, "denied")
  /\ UNCHANGED <<states, persisted, retry, calls, phase, faults>>

(* claim raised, before or after it took effect: treated as None *)
ClaimError(i) ==
  /\ At(i, "claim")
  /\ (Claimable(i) /\ Claim(i)) \/ UNCHANGED storeVars
  /\ Move(i, "denied")
  /\ Fault
  /\ UNCHANGED <<retry, calls, phase>>

ClaimAgain(i) ==
  /\ At(i, "denied") /\ i \in retry
  /\ retry' = retry \ {i}
  /\ Move(i, "claim")
  /\ UNCHANGED <<states, persisted, calls, phase, faults>>

GiveUp(i) ==
  /\ At(i, "denied") /\ i \notin retry
  /\ End(i)
  /\ UNCHANGED <<states, persisted, calls, phase, faults>>

-----------------------------------------------------------------------------
Emitted(i, a) == {k \in DOMAIN persisted :
                    persisted[k] = [inv |-> i, attempt |-> a, type |-> "emitted"]}

(* The agent's hook is user code: it emits, returns or raises at any time. *)
Emit(i) ==
  /\ At(i, "run")
  /\ Cardinality(Emitted(i, task[i].attempt)) < MaxEmits
  /\ EmitEvent(i, task[i].attempt)
  /\ UNCHANGED <<task, retry, calls, phase, faults>>

HookReturns(i) ==
  /\ At(i, "run")
  /\ Complete(i, task[i].attempt)
  /\ Move(i, "lookup")
  /\ UNCHANGED <<retry, calls, phase, faults>>

HookRaises(i) ==
  /\ At(i, "run")
  /\ Move(i, "failing")
  /\ UNCHANGED <<states, persisted, retry, calls, phase, faults>>

PersistFailure_NoHandOff(i) ==
  /\ At(i, "failing")
  /\ Fail(i, task[i].attempt)
  /\ End(i)
  /\ UNCHANGED <<calls, phase, faults>>

PersistFailure(i) ==
  /\ At(i, "failing")
  /\ Fail(i, task[i].attempt)
  /\ Move(i, "lookup")
  /\ UNCHANGED <<retry, calls, phase, faults>>

(* complete raised: the attempt is failed.  fail raised: only logged.       *)
PersistError(i) ==
  /\ \/ /\ At(i, "run")
        /\ Complete(i, task[i].attempt) \/ UNCHANGED storeVars
        /\ Move(i, "failing")
     \/ /\ At(i, "failing")
        /\ Fail(i, task[i].attempt) \/ UNCHANGED storeVars
        /\ Move(i, "lookup")
  /\ Fault
  /\ UNCHANGED <<retry, calls, phase>>

(* A CancelledError out of the hook passes every handler. *)
HookCancelled(i) ==
  /\ At(i, "run")
  /\ End(i)
  /\ Fault
  /\ UNCHANGED <<states, persisted, calls, phase>>

-----------------------------------------------------------------------------
NextInSession(i) == IF states[i].session = NoSession THEN {}
                    ELSE SessionHead(states[i].session) \cap With("QUEUED")

(* The session hand-off reads the session ... *)
LookUp(i) ==
  /\ At(i, "lookup")
  /\ IF NextInSession(i) = {} THEN End(i)
     ELSE /\ task' = [task EXCEPT ![i] = [task[i] EXCEPT !.pc = "handover",
                                                         !.next = NextInSession(i)]]
          /\ UNCHANGED retry
  /\ UNCHANGED <<states, persisted, calls, phase, faults>>

LookUpError(i) ==
  /\ At(i, "lookup")
  /\ states[i].session # NoSession
  /\ End(i)
  /\ Fault
  /\ UNCHANGED <<states, persisted, calls, phase>>

HandOver_NoRetry(i) ==
  /\ At(i, "handover")
  /\ task' = [j \in Invocations |-> IF j = i THEN NoTask
                ELSE IF j \in task[i].next /\ ~Live(j) THEN NewTask ELSE task[j]]
  /\ retry' = retry \ {i}
  /\ UNCHANGED <<states, persisted, calls, phase, faults>>

(* ... and schedules what it read, with retry_if_running: a task of that    *)
(* invocation which was denied and has yet to notice must claim again.      *)
HandOver(i) ==
  /\ At(i, "handover")
  /\ task' = [j \in Invocations |-> IF j = i THEN NoTask
                ELSE IF j \in task[i].next /\ ~Live(j) THEN NewTask ELSE task[j]]
  /\ retry' = (retry \cup {j \in task[i].next : Live(j)}) \ {i}
  /\ UNCHANGED <<states, persisted, calls, phase, faults>>

-----------------------------------------------------------------------------
(* LocalInvocationExecutor.stop, called by Runtime.stop, cancels the tasks  *)
(* it finds and waits for these; a gather of no tasks does not wait at all. *)
StopBegins ==
  /\ phase = "up"
  /\ phase' = IF \E i \in Invocations : Live(i) THEN "stopping" ELSE "down"
  /\ retry' = {}
  /\ task' = [i \in Invocations |-> IF Live(i) THEN [task[i] EXCEPT !.stop = "cancelled"]
                                    ELSE task[i]]
  /\ UNCHANGED <<states, persisted, calls, faults>>

(* CancelledError reaches the task at its await; a store operation it was   *)
(* waiting for may have taken effect.                                       *)
Cancel(i) ==
  /\ task[i].stop = "cancelled"
  /\ \/ UNCHANGED storeVars
     \/ task[i].pc = "claim" /\ Claimable(i) /\ Claim(i)
     \/ task[i].pc = "run" /\ Complete(i, task[i].attempt)
     \/ task[i].pc = "failing" /\ Fail(i, task[i].attempt)
  /\ End(i)
  /\ UNCHANGED <<calls, phase, faults>>

(* The hook catches it and carries on. *)
IgnoreCancel(i) ==
  /\ task[i].stop = "cancelled" /\ task[i].pc = "run"
  /\ task' = [task EXCEPT ![i].stop = "ignored"]
  /\ UNCHANGED <<states, persisted, retry, calls, phase, faults>>

StopReturns ==
  /\ phase = "stopping"
  /\ \A i \in Invocations : task[i].stop = "no"
  /\ phase' = "down"
  /\ UNCHANGED <<states, persisted, task, retry, calls, faults>>

-----------------------------------------------------------------------------
Client ==
  \/ \E i \in Invocations, s \in Sessions \cup {NoSession}, r \in Requests : Submit(i, s, r)
  \/ \E i \in Invocations : Read(i)

ClaimStep(i) == ClaimGranted(i) \/ ClaimDenied(i)
Resume(i)    == ClaimAgain(i) \/ GiveUp(i)
EndHook(i)   == HookReturns(i) \/ HookRaises(i)

RunTask(i) ==
  \/ EnsureScheduled(i)
  \/ ClaimStep(i) \/ ClaimError(i) \/ Resume(i)
  \/ Emit(i) \/ EndHook(i) \/ PersistFailure(i) \/ PersistError(i) \/ HookCancelled(i)
  \/ LookUp(i) \/ LookUpError(i) \/ HandOver(i)
  \/ Cancel(i) \/ IgnoreCancel(i)

(* What happens after stop has returned is not modelled. *)
Next ==
  /\ phase # "down"
  /\ \/ Client
     \/ \E i \in Invocations : RunTask(i)
     \/ StopBegins
     \/ StopReturns

Spec == Init /\ [][Next]_vars

(* The event loop resumes what can resume, and hooks end.  Nobody has to    *)
(* submit, to poll or to stop.                                              *)
Fairness ==
  \A i \in Invocations :
    /\ WF_vars(EnsureScheduled(i)) /\ WF_vars(ClaimStep(i)) /\ WF_vars(Resume(i))
    /\ WF_vars(EndHook(i)) /\ WF_vars(PersistFailure(i))
    /\ WF_vars(LookUp(i)) /\ WF_vars(HandOver(i))

FairSpec == Spec /\ Fairness

-----------------------------------------------------------------------------
TypeOK ==
  /\ StoreTypeOK
  /\ task \in [Invocations -> Task]
  /\ retry \subseteq Invocations
  /\ calls \subseteq Invocations
  /\ phase \in {"up", "stopping", "down"}
  /\ faults \in 0..MaxFaults

SameSession(i, j) == states[i].session = states[j].session /\ states[i].session # NoSession

(* ARCHITECTURE.md, "Invocations in one session execute serially": in a     *)
(* process without recovery it holds of the hooks themselves, whatever      *)
(* errors, cancellations and stops happen.                                  *)
HooksSerial ==
  \A i, j \in Invocations : InHook(i) /\ InHook(j) /\ SameSession(i, j) => i = j

(* A replay of a session by cursor shows its invocations one after another, *)
(* in the order in which they were accepted.                                *)
SessionReplaysInOrder ==
  \A k, l \in DOMAIN persisted :
    k < l /\ SameSession(persisted[k].inv, persisted[l].inv)
      => states[persisted[k].inv].order <= states[persisted[l].inv].order

(* A session's invocations run one at a time, and in order.                 *)
SessionsRunSerially == TypeOK /\ HooksSerial /\ SessionReplaysInOrder

(* No lost hand-over: while nothing has gone wrong, an invocation that      *)
(* could start is on somebody's mind: a call or a task about to claim it,   *)
(* or an attempt of its session that has yet to read the session.           *)
Attended(i) ==
  \/ i \in calls
  \/ task[i].pc = "claim"
  \/ task[i].pc = "denied" /\ i \in retry
  \/ \E j \in Invocations :
       /\ SameSession(i, j)
       /\ \/ task[j].pc = "lookup"
          \/ task[j].pc = "handover" /\ i \in task[j].next

NoLostHandOver ==
  faults = 0 /\ phase = "up" => \A i \in Invocations : Claimable(i) => Attended(i)

(* Nothing but hand-overs drives a session, and they are enough: without a  *)
(* fault every queued invocation ends, unless the runtime is stopped first. *)
EveryInvocationEnds ==
  \A i \in Invocations :
    states[i].status = "QUEUED" ~> states[i].status \in Terminal \/ phase # "up" \/ faults > 0

(* The process-local runtime keeps the promise of SessionQueue as well.     *)
PhaseOf(st) == CASE st = "ABSENT" -> "new" [] st = "QUEUED" -> "waiting"
                 [] st = "ACTIVE" -> "served" [] st = "COMPLETED" -> "completed"
                 [] OTHER -> "failed"

Queue == INSTANCE SessionQueue WITH
           session <- [i \in Invocations |-> states[i].session],
           place   <- [i \in Invocations |-> states[i].order],
           phase   <- [i \in Invocations |-> PhaseOf(states[i].status)]

ImplementsSessionQueue == Queue!Spec

(* Runtime.stop: "Stop local work and close the Runtime Store."             *)
StopLeavesNothing == phase = "down" => \A i \in Invocations : ~Live(i)
=============================================================================
