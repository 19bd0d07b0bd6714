---------------------------- MODULE LongRunning ----------------------------
(***************************************************************************)
(* LongRunningAgentServer: one background response, the pods that run its  *)
(* attempts, and the retrieve requests and scanners that resume or time    *)
(* out a run whose pod went silent.  Pods are told apart only by what they *)
(* run: the claim that bumps attempt_number to a gives birth to task a,    *)
(* which lives on the pod that won it, and no other.                       *)
(*                                                                         *)
(* An action is the code between two awaits with the one transaction it    *)
(* awaits.  What a task read earlier is in its record; the tables may have *)
(* moved on since.                                                         *)
(***************************************************************************)
EXTENDS ResponseStore

CONSTANTS Handlers,     \* functions the agent registers, of {"invoke", "stream"}
          MaxAttempts,  \* bound: attempts of the response
          MaxEmits,     \* bound: messages an attempt's handler emits
          MaxFaults     \* bound: crashes, stalls and database errors

ASSUME ServerAssumption ==
  /\ Handlers \subseteq {"invoke", "stream"}
  /\ MaxAttempts \in Nat \ {0} /\ MaxEmits \in Nat /\ MaxFaults \in Nat

VARIABLES mode,    \* what the POST asked for: "invoke" or "stream"
          task,    \* task[a]: the coroutine working for attempt a
          sweep,   \* the retrieve request that timed the response out
          faults   \* faults so far

vars == <<resp, msgs, mode, task, sweep, faults>>

Attempts == 1..MaxAttempts

(* none       not born                                                      *)
(* claimed    _try_claim_and_resume won the claim; about to read the log    *)
(* resuming   about to append response.resumed at seq                       *)
(* starting   the background task is created                                *)
(* running    the handler executes; its next message goes to seq            *)
(* raised     an exception reached _task_scope; about to read the log       *)
(* reporting  about to append the error at seq                              *)
(* failing    about to set the status to failed                             *)
(* deferred   _deferred_mark_failed sleeps                                  *)
(* checking, late, closing: it has read the log, compared the attempt,      *)
(*            appended the error                                            *)
(* over       nothing is left of it                                         *)
Phases == {"none", "claimed", "resuming", "starting", "running", "raised", "reporting",
           "failing", "deferred", "checking", "late", "closing", "over"}

Task == [pc : Phases, seq : Nat,
         beating  : BOOLEAN,    \* its heartbeat task is alive
         collided : BOOLEAN,    \* a message of its handler met a taken number
         returned : BOOLEAN]    \* its handler ended normally

NoTask == [pc |-> "none", seq |-> 0, beating |-> FALSE, collided |-> FALSE, returned |-> FALSE]

Sweeper == [pc : {"idle", "swept", "reporting", "over"}, seq : Nat]

Init ==
  /\ StoreInit
  /\ mode \in {"invoke", "stream"}
  /\ task = [a \in Attempts |-> NoTask]
  /\ sweep = [pc |-> "idle", seq |-> 0]
  /\ faults = 0

Fault == faults < MaxFaults /\ faults' = faults + 1

(* A number is kept only while a phase is about to use it.                  *)
MoveWith(a, pc, n) == task' = [task EXCEPT ![a] = [task[a] EXCEPT !.pc = pc, !.seq = n]]
Move(a, pc)        == MoveWith(a, pc, 0)

(* The body of `async with self._heartbeat(...)` is left for phase pc.      *)
LeaveBody(a, pc, collided, returned) ==
  task' = [task EXCEPT ![a] = [pc |-> pc, seq |-> 0, beating |-> FALSE,
                               collided |-> collided, returned |-> returned]]
Leave(a, pc) == LeaveBody(a, pc, task[a].collided, task[a].returned)

-----------------------------------------------------------------------------
(* POST with background=true: the row, then attempt 1.                      *)
HandleBackground ==
  /\ resp.status = "none"
  /\ CreateResponse
  /\ Move(1, "starting")
  /\ UNCHANGED <<msgs, mode, sweep, faults>>

(* _try_claim_and_resume, called by the scanner, by every retrieve and by   *)
(* every poll of every stream.  The checks on the row its caller had read   *)
(* only spare the UPDATE, which makes the same ones again.                  *)
Claim ==
  /\ resp.attempt < MaxAttempts
  /\ ClaimStaleResponse
  /\ Move(resp'.attempt, "claimed")
  /\ UNCHANGED <<msgs, mode, sweep, faults>>

ReadPriorAttempt(a) ==
  /\ task[a].pc = "claimed"
  /\ MoveWith(a, "resuming", NextSeq)
  /\ UNCHANGED <<resp, msgs, mode, sweep, faults>>

(* Append response.resumed and create the background task.  A taken number  *)
(* raises out of the caller: the attempt was claimed and nobody runs it.    *)
AnnounceResume(a) ==
  /\ task[a].pc = "resuming"
  /\ AppendMessage(task[a].seq, a, "resumed")
  /\ Move(a, IF Vacant(task[a].seq) THEN "starting" ELSE "over")
  /\ UNCHANGED <<resp, mode, sweep, faults>>

(* A resumed run is always streamed, whatever the POST asked for.           *)
Kind(a) == IF a = 1 THEN mode ELSE "stream"

(* The first attempt starts at 0 without reading the log.                   *)
FirstSeq(a) == IF a = 1 THEN 0 ELSE NextSeq

StartHandler(a) ==
  /\ task[a].pc = "starting"
  /\ Kind(a) \in Handlers
  /\ task' = [task EXCEPT ![a] = [task[a] EXCEPT !.pc = "running", !.beating = TRUE,
                                                 !.seq = FirstSeq(a)]]
  /\ UNCHANGED <<resp, msgs, mode, sweep, faults>>

(* No function registered: the status first, then the exception.            *)
NoHandler(a) ==
  /\ task[a].pc = "starting"
  /\ Kind(a) \notin Handlers
  /\ SetStatus(a, "failed")
  /\ Move(a, "raised")
  /\ UNCHANGED <<msgs, mode, sweep, faults>>

-----------------------------------------------------------------------------
Emit_NumberedByDatabase(a) ==
  /\ task[a].pc = "running"
  /\ Cardinality(MessagesOf(a, "item")) < MaxEmits
  /\ AppendMessage(NextSeq, a, "item")
  /\ UNCHANGED <<resp, mode, task, sweep, faults>>

(* One message of the handler.  A taken number raises IntegrityError.       *)
Emit(a) ==
  /\ task[a].pc = "running"
  /\ Cardinality(MessagesOf(a, "item")) < MaxEmits
  /\ AppendMessage(task[a].seq, a, "item")
  /\ IF Vacant(task[a].seq) THEN MoveWith(a, "running", task[a].seq + 1)
     ELSE LeaveBody(a, "raised", TRUE, FALSE)
  /\ UNCHANGED <<resp, mode, sweep, faults>>

HandlerReturns(a) ==
  /\ task[a].pc = "running"
  /\ SetStatus(a, "completed")
  /\ LeaveBody(a, "over", FALSE, TRUE)
  /\ UNCHANGED <<msgs, mode, sweep, faults>>

(* The handler, its validation or the read of the log raises.               *)
HandlerRaises(a) ==
  /\ task[a].pc \in {"starting", "running"}
  /\ Leave(a, "raised")
  /\ UNCHANGED <<resp, msgs, mode, sweep, faults>>

(* asyncio.timeout(task_timeout_seconds) of _task_scope                     *)
TaskTimeout(a) ==
  /\ task[a].pc \in {"starting", "running"}
  /\ Leave(a, "deferred")
  /\ UNCHANGED <<resp, msgs, mode, sweep, faults>>

(* A write of the running task raises, or is cut by the timeout, before or  *)
(* after its commit.                                                        *)
WriteError(a) ==
  /\ task[a].pc = "running"
  /\ \/ /\ Cardinality(MessagesOf(a, "item")) < MaxEmits
        /\ AppendMessage(task[a].seq, a, "item")
        /\ UNCHANGED resp
        /\ \E pc \in {"raised", "deferred"} : Leave(a, pc)
     \/ /\ SetStatus(a, "completed")
        /\ UNCHANGED msgs
        /\ \E pc \in {"raised", "deferred"} : LeaveBody(a, pc, FALSE, TRUE)
  /\ Fault
  /\ UNCHANGED <<mode, sweep>>

-----------------------------------------------------------------------------
(* _task_scope, except Exception: read the log, append the error, then set  *)
(* the status.  Anything that goes wrong here defers the whole of it.       *)
ReadForReport(a) ==
  /\ task[a].pc = "raised"
  /\ MoveWith(a, "reporting", NextSeq)
  /\ UNCHANGED <<resp, msgs, mode, sweep, faults>>

ReportError(a) ==
  /\ task[a].pc = "reporting"
  /\ AppendMessage(task[a].seq, a, "error")
  /\ Move(a, IF Vacant(task[a].seq) THEN "failing" ELSE "deferred")
  /\ UNCHANGED <<resp, mode, sweep, faults>>

MarkFailed(a) ==
  /\ task[a].pc = "failing"
  /\ SetStatus(a, "failed")
  /\ Move(a, "over")
  /\ UNCHANGED <<msgs, mode, sweep, faults>>

(* A step of the report raises, or is cut by its time limit.  The status    *)
(* may have been written for all that.                                      *)
CleanupError(a) ==
  /\ \/ task[a].pc \in {"raised", "reporting", "failing"} /\ UNCHANGED resp
     \/ task[a].pc = "failing" /\ SetStatus(a, "failed")
  /\ Move(a, "deferred")
  /\ Fault
  /\ UNCHANGED <<msgs, mode, sweep>>

(* _deferred_mark_failed, after its delay: read the log, compare the        *)
(* attempt, append, set the status.                                         *)
DeferredRead(a) ==
  /\ task[a].pc = "deferred"
  /\ MoveWith(a, "checking", NextSeq)
  /\ UNCHANGED <<resp, msgs, mode, sweep, faults>>

DeferredCheck(a) ==
  /\ task[a].pc = "checking"
  /\ IF Owns(a) THEN MoveWith(a, "late", task[a].seq) ELSE Move(a, "over")
  /\ UNCHANGED <<resp, msgs, mode, sweep, faults>>

DeferredReport(a) ==
  /\ task[a].pc = "late"
  /\ AppendMessage(task[a].seq, a, "error")
  /\ Move(a, IF Vacant(task[a].seq) THEN "closing" ELSE "over")
  /\ UNCHANGED <<resp, mode, sweep, faults>>

DeferredMarkFailed(a) ==
  /\ task[a].pc = "closing"
  /\ SetStatus(a, "failed")
  /\ Move(a, "over")
  /\ UNCHANGED <<msgs, mode, sweep, faults>>

(* The pod dies, the task is killed by the debug endpoint, or a deferred    *)
(* report runs out of its own time: no cleanup is left.                     *)
Crash(a) ==
  /\ task[a].pc \notin {"none", "over"}
  /\ Leave(a, "over")
  /\ Fault
  /\ UNCHANGED <<resp, msgs, mode, sweep>>

-----------------------------------------------------------------------------
(* One round of _beat.  A lost attempt ends the heartbeat, not the handler. *)
Beat(a) ==
  /\ task[a].beating
  /\ HeartbeatResponse(a)
  /\ task' = [task EXCEPT ![a] = [task[a] EXCEPT !.beating = Owns(a)]]
  /\ UNCHANGED <<msgs, mode, sweep, faults>>

(* The stale threshold passes.  While anything of the current attempt is    *)
(* alive that counts as a fault: its heartbeat stalled, or its cleanup,     *)
(* which no heartbeat covers, took longer than the threshold.               *)
Lapse ==
  /\ resp.status = "in_progress" /\ resp.fresh
  /\ resp' = [resp EXCEPT !.fresh = FALSE]
  /\ IF task[resp.attempt].pc = "over" THEN UNCHANGED faults ELSE Fault
  /\ UNCHANGED <<msgs, mode, task, sweep>>

(* task_timeout_seconds pass since created_at.                              *)
Age ==
  /\ resp.status # "none" /\ ~resp.aged
  /\ resp' = [resp EXCEPT !.aged = TRUE]
  /\ UNCHANGED <<msgs, mode, task, sweep, faults>>

(* _handle_retrieve_request on an aged run: one request wins the            *)
(* conditional update, and reports after it.  It is not fenced by attempt.  *)
Sweep ==
  /\ resp.aged
  /\ FailIfInProgress
  /\ sweep' = [sweep EXCEPT !.pc = "swept"]
  /\ UNCHANGED <<msgs, mode, task, faults>>

SweepRead ==
  /\ sweep.pc = "swept"
  /\ sweep' = [pc |-> "reporting", seq |-> NextSeq]
  /\ UNCHANGED <<resp, msgs, mode, task, faults>>

SweepReport ==
  /\ sweep.pc = "reporting"
  /\ AppendMessage(sweep.seq, resp.attempt, "error")
  /\ sweep' = [sweep EXCEPT !.pc = "over"]
  /\ UNCHANGED <<resp, mode, task, faults>>

-----------------------------------------------------------------------------
Resume(a)  == ReadPriorAttempt(a) \/ AnnounceResume(a)
Start(a)   == StartHandler(a) \/ NoHandler(a)
End(a)     == HandlerReturns(a) \/ HandlerRaises(a) \/ TaskTimeout(a)
Cleanup(a) == \/ ReadForReport(a) \/ ReportError(a) \/ MarkFailed(a)
              \/ DeferredRead(a) \/ DeferredCheck(a) \/ DeferredReport(a)
              \/ DeferredMarkFailed(a)

RunTask(a) ==
  \/ Resume(a) \/ Start(a) \/ Emit(a) \/ End(a) \/ WriteError(a)
  \/ Cleanup(a) \/ CleanupError(a) \/ Crash(a) \/ Beat(a)

Retrieve == Sweep \/ SweepRead \/ SweepReport

Next ==
  \/ HandleBackground \/ Claim \/ Lapse \/ Age \/ Retrieve
  \/ \E a \in Attempts : RunTask(a)

Spec == Init /\ [][Next]_vars

(* Tasks run, a handler ends or times out, time passes, and the scanner     *)
(* comes round.  No client has to ask again.                                *)
Fairness ==
  /\ WF_vars(Claim) /\ WF_vars(Lapse /\ UNCHANGED faults)
  /\ \A a \in Attempts :
       WF_vars(Resume(a)) /\ WF_vars(Start(a)) /\ WF_vars(End(a)) /\ WF_vars(Cleanup(a))

FairSpec == Spec /\ Fairness
-----------------------------------------------------------------------------
TypeOK ==
  /\ StoreTypeOK
  /\ resp.attempt <= MaxAttempts
  /\ mode \in {"invoke", "stream"}
  /\ task \in [Attempts -> Task]
  /\ sweep \in Sweeper
  /\ faults \in 0..MaxFaults

(* A client's cursor is sound: although nothing orders the writers of       *)
(* messages, a message is only ever added after all the others, and none is *)
(* overwritten.  A stale number that a writer still holds is always taken.  *)
LogGrowsAtItsEnd ==
  [][/\ DOMAIN msgs \subseteq DOMAIN msgs'
     /\ \A n \in DOMAIN msgs' :
          IF n \in DOMAIN msgs THEN msgs'[n] = msgs[n]
          ELSE \A k \in DOMAIN msgs : k < n]_vars

(* Writers of one log that nothing orders or fences never interleave: what  *)
(* the handler of an attempt wrote is one unbroken block of the log, after  *)
(* that attempt's response.resumed.  Anyone who writes past a handler takes *)
(* the handler's next number, so the handler's next message raises.         *)
HandlersWriteBlocks ==
  \A a \in Attempts :
    /\ \A m, n \in MessagesOf(a, "item") : m..n \subseteq MessagesOf(a, "item")
    /\ a > 1 => \A n \in MessagesOf(a, "item") :
                  \E k \in MessagesOf(a, "resumed") : k < n

(* `completed` is the word of the attempt that the row names: its handler   *)
(* ended normally and lost no message to another writer.                    *)
CompletedByItsOwner ==
  resp.status = "completed" =>
    task[resp.attempt].returned /\ ~task[resp.attempt].collided

(* A response that says `failed` has its error in the log before, so a      *)
(* stream that ends on the status has it.  Two are left out: the timeout    *)
(* sweep sets the status first, and so does a run that finds no function    *)
(* registered for its kind (NoHandler).                                     *)
FailureIsExplained ==
  resp.status = "failed" /\ sweep.pc = "idle" /\ Kind(resp.attempt) \in Handlers =>
    MessagesOf(resp.attempt, "error") # {}

(* What the row says a response came to is what its log tells.              *)
OutcomeMatchesLog == HandlersWriteBlocks /\ CompletedByItsOwner /\ FailureIsExplained

(* A response that has ended is not resumed and never in progress again.    *)
EndedIsNotResumed ==
  [][resp.status \in Terminal =>
       resp'.status \in Terminal /\ resp'.attempt = resp.attempt]_vars

(* Status writes compare the attempt and not the status, so an outcome is   *)
(* not final.  But only the attempt that the row names can revise it, in    *)
(* two ways: `completed` becomes `failed` where that attempt cleans up      *)
(* after a status write that took effect and raised all the same, never     *)
(* without such a fault; and `failed` becomes `completed` where the sweep   *)
(* failed a response whose handler was at work.                             *)
OnlyItsAttemptRevises ==
  [][resp.status \in Terminal /\ resp'.status # resp.status =>
       LET owner == task[resp.attempt]
       IN  \/ /\ resp'.status = "failed" /\ faults > 0
              /\ owner.returned /\ owner.pc \in {"failing", "closing"}
           \/ /\ resp'.status = "completed" /\ sweep.pc # "idle"
              /\ owner.pc = "running"]_vars

(* A response ends once, and no attempt but the last has a say in how.      *)
OutcomeIsItsAttempts == EndedIsNotResumed /\ OnlyItsAttemptRevises

(* Every background response ends, through crashes, stalls, failed writes   *)
(* and collisions, with no client asking for it.                            *)
EveryResponseEnds == resp.status = "in_progress" ~> resp.status \in Terminal

-----------------------------------------------------------------------------
(* What comments of server.py say, and the code does not do.                *)

(* "attempt_number is CAS-checked on terminal-status writes so a deferred   *)
(* fail / cleanup that fires after another pod has claimed the row for      *)
(* resume doesn't clobber the new owner's in-progress state": without a     *)
(* sweep the owner of the row would lose no number to anyone.               *)
CleanupSparesNewOwner ==
  sweep.pc = "idle" => \A a \in Attempts : task[a].collided => a # resp.attempt

(* "the handler is still running but its emissions to the message log will  *)
(* be tagged with this attempt and ignored": a superseded handler could     *)
(* still write.                                                             *)
LateEmissionsAreTagged ==
  \A a \in Attempts : a < resp.attempt => ~task[a].collided

(* "re-invokes the registered handler": a resumed attempt of a response     *)
(* whose handler is registered finds a handler.                             *)
RegisteredHandlerIsReinvoked ==
  mode \in Handlers => \A a \in Attempts : task[a].pc = "starting" => Kind(a) \in Handlers
=============================================================================
