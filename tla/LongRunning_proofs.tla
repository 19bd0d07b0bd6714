------------------------ MODULE LongRunning_proofs ------------------------
(***************************************************************************)
(* Theorems about LongRunning, for any number of attempts, messages and    *)
(* faults.  The argument: sequence numbers are handed out without a lock,  *)
(* but a number that a writer holds is never beyond the end of the log,    *)
(* so an INSERT that does not collide is an INSERT at the end.             *)
(***************************************************************************)
EXTENDS LongRunning, TLAPS

USE ServerAssumption DEF ServerAssumption

-----------------------------------------------------------------------------
(* NextSeq of a log that is numbered 0..n-1 is n.                           *)
LEMMA MaxOfPrefix ==
  ASSUME NEW n \in Nat
  PROVE  Max((0..(n-1)) \cup {-1}) + 1 = n
<1>. DEFINE S == (0..(n-1)) \cup {-1}
<1>1. n-1 \in S /\ \A y \in S : n-1 >= y
  OBVIOUS
<1>2. Max(S) \in S /\ \A y \in S : Max(S) >= y
  BY <1>1 DEF Max
<1>. QED
  BY <1>1, <1>2

(* The log is numbered from 0 without a gap.                                *)
Contiguous == NextSeq \in Nat /\ DOMAIN msgs = 0..(NextSeq - 1)

(* An INSERT at a number that is not beyond the end adds one message at the *)
(* end, or finds the number taken and adds nothing.                         *)
AddsAtEnd(a, type) ==
  /\ DOMAIN msgs' = 0..NextSeq
  /\ msgs' = [k \in 0..NextSeq |-> IF k = NextSeq THEN [attempt |-> a, type |-> type] ELSE msgs[k]]
  /\ NextSeq' = NextSeq + 1

(* An INSERT with a number that is not beyond the end of a gapless log collides or appends. *)
LEMMA AppendShape ==
  ASSUME StoreTypeOK, Contiguous, NEW k \in Nat, k <= NextSeq, NEW a, NEW type,
         AppendMessage(k, a, type)
  PROVE  /\ ~Vacant(k) => msgs' = msgs
         /\ Vacant(k) => k = NextSeq /\ AddsAtEnd(a, type)
<1>1. CASE ~Vacant(k)
  <2>1. DOMAIN msgs \cup {k} = DOMAIN msgs
    BY <1>1 DEF Vacant
  <2>. QED
    BY <1>1, <2>1 DEF AppendMessage, StoreTypeOK
<1>2. CASE Vacant(k)
  <2>1. k = NextSeq
    BY <1>2 DEF Vacant, Contiguous
  <2>2. DOMAIN msgs \cup {k} = 0..NextSeq
    BY <2>1 DEF Contiguous
  <2>3. DOMAIN msgs' = 0..NextSeq
    BY <2>2 DEF AppendMessage
  <2>4. NextSeq' = NextSeq + 1
    <3>1. PICK n \in Nat : n = NextSeq + 1
      BY DEF Contiguous
    <3>2. DOMAIN msgs' = 0..(n-1)
      BY <2>3, <3>1 DEF Contiguous
    <3>. QED
      BY <3>1, <3>2, MaxOfPrefix DEF NextSeq
  <2>5. msgs' = [j \in 0..NextSeq |-> IF j = NextSeq THEN [attempt |-> a, type |-> type] ELSE msgs[j]]
    <3>1. msgs' = [j \in 0..NextSeq |->
                     IF j \in DOMAIN msgs THEN msgs[j] ELSE [attempt |-> a, type |-> type]]
      BY <2>2 DEF AppendMessage
    <3>2. \A j \in 0..NextSeq : j \in DOMAIN msgs <=> j # NextSeq
      BY DEF Contiguous
    <3>. QED
      BY <3>1, <3>2
  <2>. QED
    BY <1>2, <2>1, <2>3, <2>4, <2>5 DEF AddsAtEnd
<1>. QED
  BY <1>1, <1>2

-----------------------------------------------------------------------------
(* What the building blocks of the actions do to a typed state.             *)
LEMMA MoveWithFacts ==
  ASSUME TypeOK, NEW a \in Attempts, NEW pc \in Phases, NEW n \in Nat, MoveWith(a, pc, n)
  PROVE  /\ task' \in [Attempts -> Task]
         /\ task'[a].pc = pc /\ task'[a].seq = n
         /\ task'[a].collided = task[a].collided /\ task'[a].returned = task[a].returned
         /\ \A b \in Attempts : b # a => task'[b] = task[b]
<1>. DEFINE r == [task[a] EXCEPT !.pc = pc, !.seq = n]
<1>1. task[a] \in Task
  BY DEF TypeOK
<1>2. r \in Task
  BY <1>1 DEF Task
<1>3. /\ r.pc = pc /\ r.seq = n
      /\ r.collided = task[a].collided /\ r.returned = task[a].returned
  BY <1>1 DEF Task
<1>4. task' = [task EXCEPT ![a] = r]
  BY DEF MoveWith
<1>. HIDE DEF r
<1>. QED
  BY <1>2, <1>3, <1>4 DEF TypeOK

(* What an attempt that leaves its handler keeps of its task, and that no other task moves. *)
LEMMA LeaveBodyFacts ==
  ASSUME TypeOK, NEW a \in Attempts, NEW pc \in Phases,
         NEW c \in BOOLEAN, NEW d \in BOOLEAN, LeaveBody(a, pc, c, d)
  PROVE  /\ task' \in [Attempts -> Task]
         /\ task'[a].pc = pc /\ task'[a].seq = 0
         /\ task'[a].collided = c /\ task'[a].returned = d
         /\ \A b \in Attempts : b # a => task'[b] = task[b]
BY DEF LeaveBody, TypeOK, Task

(* A status write is fenced by the attempt: of another attempt's row it changes nothing. *)
LEMMA SetStatusFacts ==
  ASSUME TypeOK, NEW a \in Attempts, NEW st \in Terminal, SetStatus(a, st)
  PROVE  /\ resp' \in Response
         /\ resp'.attempt = resp.attempt
         /\ resp'.status = IF resp.attempt = a THEN st ELSE resp.status
BY DEF SetStatus, TypeOK, StoreTypeOK, Response, Terminal

(* An INSERT keeps the messages in their type. *)
LEMMA AppendType ==
  ASSUME StoreTypeOK, NEW k \in Nat, NEW a \in Nat, NEW type \in {"item", "resumed", "error"},
         AppendMessage(k, a, type)
  PROVE  DOMAIN msgs' \subseteq Nat /\ msgs' \in [DOMAIN msgs' -> Message]
<1>1. [attempt |-> a, type |-> type] \in Message
  BY DEF Message
<1>2. msgs' \in [DOMAIN msgs \cup {k} -> Message]
  BY <1>1 DEF AppendMessage, StoreTypeOK
<1>3. DOMAIN msgs' = DOMAIN msgs \cup {k}
  BY DEF AppendMessage
<1>. QED
  BY <1>2, <1>3 DEF StoreTypeOK

(* Every step of the server, by who takes it.                               *)
ServerStep == HandleBackground \/ Claim \/ Lapse \/ Age \/ Retrieve

(* Every step is the server's, or that of the task of one attempt. *)
LEMMA StepsAreActions ==
  ASSUME [Next]_vars
  PROVE  UNCHANGED vars \/ ServerStep \/ \E a \in Attempts : RunTask(a)
BY DEF Next, ServerStep

-----------------------------------------------------------------------------
(* Type correctness.                                                        *)
LEMMA TypeInit == Init => TypeOK
<1>. SUFFICES ASSUME Init PROVE TypeOK
  OBVIOUS
<1>1. StoreTypeOK
  BY DEF Init, StoreInit, StoreTypeOK, Response, Message
<1>. QED
  BY <1>1 DEF Init, StoreInit, TypeOK, NoTask, Task, Phases, Sweeper

(* The server's steps keep the types. *)
LEMMA TypeServer ==
  ASSUME TypeOK, NextSeq \in Nat, ServerStep
  PROVE  TypeOK'
<1>0. /\ resp \in Response /\ resp.attempt \in Nat /\ 1 \in Attempts
      /\ "starting" \in Phases /\ "claimed" \in Phases
  BY DEF TypeOK, StoreTypeOK, Response, Attempts, Phases
<1>1. CASE HandleBackground
  <2>1. task' \in [Attempts -> Task]
    BY <1>0, <1>1, MoveWithFacts DEF HandleBackground, Move
  <2>2. resp' \in Response /\ resp'.attempt = 1
    BY <1>1 DEF HandleBackground, CreateResponse, Response
  <2>. QED
    BY <1>1, <2>1, <2>2 DEF HandleBackground, TypeOK, StoreTypeOK
<1>2. CASE Claim
  <2>1. resp' \in Response /\ resp'.attempt = resp.attempt + 1 /\ resp'.attempt \in Attempts
    <3>1. resp.attempt + 1 \in Nat /\ resp.attempt + 1 \in Attempts
      BY <1>0, <1>2 DEF Claim, Attempts
    <3>2. resp' = [resp EXCEPT !.attempt = resp.attempt + 1, !.fresh = TRUE]
      BY <1>2 DEF Claim, ClaimStaleResponse
    <3>3. resp' \in Response
      BY <1>0, <3>1, <3>2 DEF Response
    <3>4. resp'.attempt = resp.attempt + 1
      BY <1>0, <3>2 DEF Response
    <3>. QED
      BY <3>1, <3>3, <3>4
  <2>2. PICK a \in Attempts : a = resp'.attempt
    BY <2>1
  <2>3. task' \in [Attempts -> Task]
    BY <1>0, <1>2, <2>2, MoveWithFacts DEF Claim, Move
  <2>. QED
    BY <1>2, <2>1, <2>3 DEF Claim, TypeOK, StoreTypeOK, Attempts
<1>3. CASE Lapse
  <2>1. resp' \in Response /\ resp'.attempt = resp.attempt
    BY <1>0, <1>3 DEF Lapse, Response
  <2>2. faults' \in 0..MaxFaults
    BY <1>3 DEF Lapse, Fault, TypeOK
  <2>. QED
    BY <1>3, <2>1, <2>2 DEF Lapse, TypeOK, StoreTypeOK
<1>4. CASE Age
  <2>1. resp' \in Response /\ resp'.attempt = resp.attempt
    BY <1>0, <1>4 DEF Age, Response
  <2>. QED
    BY <1>4, <2>1 DEF Age, TypeOK, StoreTypeOK
<1>5. CASE Sweep
  <2>1. resp' \in Response /\ resp'.attempt = resp.attempt
    BY <1>0, <1>5 DEF Sweep, FailIfInProgress, Response
  <2>2. sweep' \in Sweeper
    BY <1>5 DEF Sweep, TypeOK, Sweeper
  <2>. QED
    BY <1>5, <2>1, <2>2 DEF Sweep, TypeOK, StoreTypeOK
<1>6. CASE SweepRead
  BY <1>6 DEF SweepRead, TypeOK, StoreTypeOK, Sweeper
<1>7. CASE SweepReport
  <2>1. sweep.seq \in Nat /\ sweep' \in Sweeper
    BY <1>7 DEF SweepReport, TypeOK, Sweeper
  <2>2. DOMAIN msgs' \subseteq Nat /\ msgs' \in [DOMAIN msgs' -> Message]
    BY <1>0, <1>7, <2>1, AppendType DEF SweepReport, TypeOK
  <2>. QED
    BY <1>7, <2>1, <2>2 DEF SweepReport, TypeOK, StoreTypeOK
<1>. QED
  BY <1>1, <1>2, <1>3, <1>4, <1>5, <1>6, <1>7 DEF ServerStep, Retrieve

(* The steps of an attempt's task keep the types. *)
LEMMA TypeTask ==
  ASSUME TypeOK, NextSeq \in Nat, NEW a \in Attempts, RunTask(a)
  PROVE  TypeOK'
<1>0. /\ resp \in Response /\ task[a] \in Task /\ task[a].seq \in Nat /\ a \in Nat
      /\ task[a].collided \in BOOLEAN /\ task[a].returned \in BOOLEAN
  BY DEF TypeOK, StoreTypeOK, Task, Attempts
<1>1. CASE ReadPriorAttempt(a)
  <2>1. task' \in [Attempts -> Task]
    BY <1>0, <1>1, MoveWithFacts DEF ReadPriorAttempt, Move, Phases
  <2>. QED
    BY <1>1, <2>1 DEF ReadPriorAttempt, TypeOK, StoreTypeOK
<1>2. CASE AnnounceResume(a)
  <2>1. task' \in [Attempts -> Task]
    BY <1>0, <1>2, MoveWithFacts DEF AnnounceResume, Move, Phases
  <2>2. DOMAIN msgs' \subseteq Nat /\ msgs' \in [DOMAIN msgs' -> Message]
    BY <1>0, <1>2, AppendType DEF AnnounceResume, TypeOK
  <2>. QED
    BY <1>2, <2>1, <2>2 DEF AnnounceResume, TypeOK, StoreTypeOK
<1>3. CASE StartHandler(a)
  <2>1. FirstSeq(a) \in Nat
    BY DEF FirstSeq
  <2>2. [task[a] EXCEPT !.pc = "running", !.beating = TRUE, !.seq = FirstSeq(a)] \in Task
    BY <1>0, <2>1 DEF Task, Phases
  <2>3. task' \in [Attempts -> Task]
    BY <1>3, <2>2 DEF StartHandler, TypeOK
  <2>. QED
    BY <1>3, <2>3 DEF StartHandler, TypeOK, StoreTypeOK
<1>4. CASE NoHandler(a)
  <2>1. task' \in [Attempts -> Task]
    BY <1>0, <1>4, MoveWithFacts DEF NoHandler, Move, Phases
  <2>2. resp' \in Response /\ resp'.attempt = resp.attempt
    BY <1>4, SetStatusFacts DEF NoHandler, Terminal
  <2>. QED
    BY <1>4, <2>1, <2>2 DEF NoHandler, TypeOK, StoreTypeOK
<1>5. CASE Emit(a)
  <2>1. task' \in [Attempts -> Task]
    <3>1. CASE Vacant(task[a].seq)
      <4>1. MoveWith(a, "running", task[a].seq + 1)
        BY <1>5, <3>1 DEF Emit
      <4>. QED
        BY <1>0, <4>1, MoveWithFacts DEF Phases
    <3>2. CASE ~Vacant(task[a].seq)
      BY <1>5, <3>2, LeaveBodyFacts DEF Emit, Phases
    <3>. QED
      BY <3>1, <3>2
  <2>2. DOMAIN msgs' \subseteq Nat /\ msgs' \in [DOMAIN msgs' -> Message]
    BY <1>0, <1>5, AppendType DEF Emit, TypeOK
  <2>. QED
    BY <1>5, <2>1, <2>2 DEF Emit, TypeOK, StoreTypeOK
<1>6. CASE HandlerReturns(a)
  <2>1. task' \in [Attempts -> Task]
    BY <1>0, <1>6, LeaveBodyFacts DEF HandlerReturns, Phases
  <2>2. resp' \in Response /\ resp'.attempt = resp.attempt
    BY <1>6, SetStatusFacts DEF HandlerReturns, Terminal
  <2>. QED
    BY <1>6, <2>1, <2>2 DEF HandlerReturns, TypeOK, StoreTypeOK
<1>7. CASE HandlerRaises(a)
  <2>1. task' \in [Attempts -> Task]
    BY <1>0, <1>7, LeaveBodyFacts DEF HandlerRaises, Leave, Phases
  <2>. QED
    BY <1>7, <2>1 DEF HandlerRaises, TypeOK, StoreTypeOK
<1>8. CASE TaskTimeout(a)
  <2>1. task' \in [Attempts -> Task]
    BY <1>0, <1>8, LeaveBodyFacts DEF TaskTimeout, Leave, Phases
  <2>. QED
    BY <1>8, <2>1 DEF TaskTimeout, TypeOK, StoreTypeOK
<1>9. CASE WriteError(a)
  <2>1. PICK pc \in {"raised", "deferred"}, d \in BOOLEAN : LeaveBody(a, pc, IF d THEN FALSE ELSE task[a].collided, IF d THEN TRUE ELSE task[a].returned)
    BY <1>9 DEF WriteError, Leave
  <2>2. task' \in [Attempts -> Task]
    BY <1>0, <2>1, LeaveBodyFacts DEF Phases
  <2>3. DOMAIN msgs' \subseteq Nat /\ msgs' \in [DOMAIN msgs' -> Message]
    BY <1>0, <1>9, AppendType DEF WriteError, TypeOK, StoreTypeOK
  <2>4. resp' \in Response /\ resp'.attempt = resp.attempt
    BY <1>0, <1>9, SetStatusFacts DEF WriteError, Terminal
  <2>5. faults' \in 0..MaxFaults
    BY <1>9 DEF WriteError, Fault, TypeOK
  <2>. QED
    BY <1>9, <2>2, <2>3, <2>4, <2>5 DEF WriteError, TypeOK, StoreTypeOK
<1>10. CASE ReadForReport(a)
  <2>1. task' \in [Attempts -> Task]
    BY <1>0, <1>10, MoveWithFacts DEF ReadForReport, Move, Phases
  <2>. QED
    BY <1>10, <2>1 DEF ReadForReport, TypeOK, StoreTypeOK
<1>11. CASE ReportError(a)
  <2>1. task' \in [Attempts -> Task]
    BY <1>0, <1>11, MoveWithFacts DEF ReportError, Move, Phases
  <2>2. DOMAIN msgs' \subseteq Nat /\ msgs' \in [DOMAIN msgs' -> Message]
    BY <1>0, <1>11, AppendType DEF ReportError, TypeOK
  <2>. QED
    BY <1>11, <2>1, <2>2 DEF ReportError, TypeOK, StoreTypeOK
<1>12. CASE MarkFailed(a)
  <2>1. task' \in [Attempts -> Task]
    BY <1>0, <1>12, MoveWithFacts DEF MarkFailed, Move, Phases
  <2>2. resp' \in Response /\ resp'.attempt = resp.attempt
    BY <1>12, SetStatusFacts DEF MarkFailed, Terminal
  <2>. QED
    BY <1>12, <2>1, <2>2 DEF MarkFailed, TypeOK, StoreTypeOK
<1>13. CASE CleanupError(a)
  <2>1. task' \in [Attempts -> Task]
    BY <1>0, <1>13, MoveWithFacts DEF CleanupError, Move, Phases
  <2>2. faults' \in 0..MaxFaults
    BY <1>13 DEF CleanupError, Fault, TypeOK
  <2>3. resp' \in Response /\ resp'.attempt = resp.attempt
    BY <1>0, <1>13, SetStatusFacts DEF CleanupError, Terminal
  <2>. QED
    BY <1>13, <2>1, <2>2, <2>3 DEF CleanupError, TypeOK, StoreTypeOK
<1>14. CASE DeferredRead(a)
  <2>1. task' \in [Attempts -> Task]
    BY <1>0, <1>14, MoveWithFacts DEF DeferredRead, Move, Phases
  <2>. QED
    BY <1>14, <2>1 DEF DeferredRead, TypeOK, StoreTypeOK
<1>15. CASE DeferredCheck(a)
  <2>1. task' \in [Attempts -> Task]
    BY <1>0, <1>15, MoveWithFacts DEF DeferredCheck, Move, Phases
  <2>. QED
    BY <1>15, <2>1 DEF DeferredCheck, TypeOK, StoreTypeOK
<1>16. CASE DeferredReport(a)
  <2>1. task' \in [Attempts -> Task]
    BY <1>0, <1>16, MoveWithFacts DEF DeferredReport, Move, Phases
  <2>2. DOMAIN msgs' \subseteq Nat /\ msgs' \in [DOMAIN msgs' -> Message]
    BY <1>0, <1>16, AppendType DEF DeferredReport, TypeOK
  <2>. QED
    BY <1>16, <2>1, <2>2 DEF DeferredReport, TypeOK, StoreTypeOK
<1>17. CASE DeferredMarkFailed(a)
  <2>1. task' \in [Attempts -> Task]
    BY <1>0, <1>17, MoveWithFacts DEF DeferredMarkFailed, Move, Phases
  <2>2. resp' \in Response /\ resp'.attempt = resp.attempt
    BY <1>17, SetStatusFacts DEF DeferredMarkFailed, Terminal
  <2>. QED
    BY <1>17, <2>1, <2>2 DEF DeferredMarkFailed, TypeOK, StoreTypeOK
<1>18. CASE Crash(a)
  <2>1. task' \in [Attempts -> Task]
    BY <1>0, <1>18, LeaveBodyFacts DEF Crash, Leave, Phases
  <2>2. faults' \in 0..MaxFaults
    BY <1>18 DEF Crash, Fault, TypeOK
  <2>. QED
    BY <1>18, <2>1, <2>2 DEF Crash, TypeOK, StoreTypeOK
<1>19. CASE Beat(a)
  <2>1. [task[a] EXCEPT !.beating = Owns(a)] \in Task
    BY <1>0 DEF Task, Owns
  <2>2. task' \in [Attempts -> Task]
    BY <1>19, <2>1 DEF Beat, TypeOK
  <2>3. resp' \in Response /\ resp'.attempt = resp.attempt
    BY <1>0, <1>19 DEF Beat, HeartbeatResponse, Response
  <2>. QED
    BY <1>19, <2>2, <2>3 DEF Beat, TypeOK, StoreTypeOK
<1>. QED
  BY <1>1, <1>2, <1>3, <1>4, <1>5, <1>6, <1>7, <1>8, <1>9, <1>10, <1>11, <1>12, <1>13, <1>14, <1>15, <1>16, <1>17, <1>18, <1>19
  DEF RunTask, Resume, Start, End, Cleanup

-----------------------------------------------------------------------------
(* The end of the log: no writer holds a number beyond it.                  *)
LogInv ==
  /\ Contiguous
  /\ \A a \in Attempts : task[a].seq <= NextSeq
  /\ sweep.seq <= NextSeq

GrowsAtItsEnd ==
  /\ DOMAIN msgs \subseteq DOMAIN msgs'
  /\ \A n \in DOMAIN msgs' :
       IF n \in DOMAIN msgs THEN msgs'[n] = msgs[n]
       ELSE \A k \in DOMAIN msgs : k < n

(* A step that writes no message hands out at most the number of the end.   *)
Quiet ==
  /\ msgs' = msgs
  /\ \A a \in Attempts : task'[a].seq \in {task[a].seq, 0, NextSeq}
  /\ sweep'.seq \in {sweep.seq, NextSeq}

(* A step that writes no message and takes no larger number keeps the log as it is. *)
LEMMA QuietKeepsLog ==
  ASSUME TypeOK, LogInv, Quiet
  PROVE  LogInv' /\ GrowsAtItsEnd
<1>1. NextSeq' = NextSeq
  BY DEF Quiet, NextSeq
<1>. QED
  BY <1>1 DEF Quiet, LogInv, Contiguous, GrowsAtItsEnd

(* A step that writes one message at a number its writer held.              *)
LEMMA AppendKeepsLog ==
  ASSUME TypeOK, TypeOK', LogInv, NEW k \in Nat, k <= NextSeq, NEW a, NEW type,
         AppendMessage(k, a, type),
         \A b \in Attempts : \/ task'[b].seq \in {task[b].seq, 0}
                             \/ Vacant(k) /\ task'[b].seq = k + 1,
         sweep'.seq = sweep.seq
  PROVE  LogInv' /\ GrowsAtItsEnd
<1>1. CASE ~Vacant(k)
  <2>1. Quiet
    BY <1>1, AppendShape DEF Quiet, LogInv, TypeOK
  <2>. QED
    BY <2>1, QuietKeepsLog
<1>2. CASE Vacant(k)
  <2>1. k = NextSeq /\ AddsAtEnd(a, type)
    BY <1>2, AppendShape DEF LogInv, TypeOK
  <2>2. PICK n \in Nat : n = NextSeq
    BY DEF LogInv, Contiguous
  <2>3. DOMAIN msgs = 0..(n-1) /\ DOMAIN msgs' = 0..n /\ NextSeq' = n + 1
    BY <2>1, <2>2 DEF AddsAtEnd, LogInv, Contiguous
  <2>4. Contiguous'
    BY <2>3 DEF Contiguous
  <2>5. \A b \in Attempts : task[b].seq \in Nat /\ task'[b].seq \in Nat
    BY DEF TypeOK, Task
  <2>6. sweep.seq \in Nat
    BY DEF TypeOK, Sweeper
  <2>7. GrowsAtItsEnd
    BY <2>1, <2>2, <2>3 DEF GrowsAtItsEnd, AddsAtEnd
  <2>. QED
    BY <2>1, <2>2, <2>3, <2>4, <2>5, <2>6, <2>7 DEF LogInv
<1>. QED
  BY <1>1, <1>2

(* The log is empty at first. *)
LEMMA LogInit == Init => LogInv
<1>. SUFFICES ASSUME Init PROVE LogInv
  OBVIOUS
<1>1. DOMAIN msgs = 0..(0-1)
  BY DEF Init, StoreInit
<1>2. NextSeq = 0
  BY <1>1, MaxOfPrefix DEF NextSeq
<1>. QED
  BY <1>1, <1>2 DEF Init, LogInv, Contiguous, NoTask

(* The server's steps add to the log at its end, whatever number its writer held. *)
LEMMA LogServer ==
  ASSUME TypeOK, TypeOK', LogInv, ServerStep
  PROVE  LogInv' /\ GrowsAtItsEnd
<1>0. resp.attempt + 1 \in Int /\ 1 \in Attempts /\ resp.attempt \in Nat
  BY DEF TypeOK, StoreTypeOK, Response, Attempts
<1>1. CASE HandleBackground
  <2>1. \A b \in Attempts : task'[b].seq \in {task[b].seq, 0}
    BY <1>0, <1>1, MoveWithFacts DEF HandleBackground, Move, Phases
  <2>. QED
    BY <1>1, <2>1, QuietKeepsLog DEF Quiet, HandleBackground
<1>2. CASE Claim
  <2>1. PICK a \in Attempts : a = resp'.attempt
    BY <1>0, <1>2 DEF Claim, ClaimStaleResponse, TypeOK, StoreTypeOK, Response, Attempts
  <2>2. \A b \in Attempts : task'[b].seq \in {task[b].seq, 0}
    BY <1>2, <2>1, MoveWithFacts DEF Claim, Move, Phases
  <2>. QED
    BY <1>2, <2>2, QuietKeepsLog DEF Quiet, Claim
<1>3. CASE Lapse \/ Age \/ Sweep \/ SweepRead
  BY <1>3, QuietKeepsLog DEF Quiet, Lapse, Age, Sweep, SweepRead, TypeOK, Sweeper
<1>4. CASE SweepReport
  <2>1. sweep.seq \in Nat /\ sweep.seq <= NextSeq /\ sweep'.seq = sweep.seq
    BY <1>4 DEF SweepReport, TypeOK, Sweeper, LogInv
  <2>2. AppendMessage(sweep.seq, resp.attempt, "error") /\ task' = task
    BY <1>4 DEF SweepReport
  <2>. QED
    BY <2>1, <2>2, AppendKeepsLog
<1>. QED
  BY <1>1, <1>2, <1>3, <1>4 DEF ServerStep, Retrieve

(* So do the steps of every attempt's task. *)
LEMMA LogTask ==
  ASSUME TypeOK, TypeOK', LogInv, NEW a \in Attempts, RunTask(a)
  PROVE  LogInv' /\ GrowsAtItsEnd
<1>0. /\ task[a] \in Task /\ task[a].seq \in Nat /\ NextSeq \in Nat /\ task[a].seq <= NextSeq
      /\ task[a].collided \in BOOLEAN /\ task[a].returned \in BOOLEAN
  BY DEF TypeOK, Task, LogInv, Contiguous
<1>1. CASE ReadPriorAttempt(a)
  <2>1. \A b \in Attempts : task'[b].seq \in {task[b].seq, 0, NextSeq}
    BY <1>0, <1>1, MoveWithFacts, LeaveBodyFacts DEF ReadPriorAttempt, Move, Leave, Phases
  <2>. QED
    BY <1>1, <2>1, QuietKeepsLog DEF Quiet, ReadPriorAttempt
<1>2. CASE AnnounceResume(a)
  <2>1. \A b \in Attempts : task'[b].seq \in {task[b].seq, 0}
    BY <1>0, <1>2, MoveWithFacts DEF AnnounceResume, Move, Phases
  <2>2. AppendMessage(task[a].seq, a, "resumed") /\ sweep'.seq = sweep.seq
    BY <1>2 DEF AnnounceResume
  <2>. QED
    BY <1>0, <2>1, <2>2, AppendKeepsLog
<1>3. CASE StartHandler(a)
  <2>1. FirstSeq(a) \in {0, NextSeq}
    BY DEF FirstSeq
  <2>2. \A b \in Attempts : task'[b].seq \in {task[b].seq, 0, NextSeq}
    BY <1>0, <1>3, <2>1 DEF StartHandler, TypeOK, Task
  <2>. QED
    BY <1>3, <2>2, QuietKeepsLog DEF Quiet, StartHandler
<1>4. CASE NoHandler(a)
  <2>1. \A b \in Attempts : task'[b].seq \in {task[b].seq, 0, NextSeq}
    BY <1>0, <1>4, MoveWithFacts, LeaveBodyFacts DEF NoHandler, Move, Leave, Phases
  <2>. QED
    BY <1>4, <2>1, QuietKeepsLog DEF Quiet, NoHandler
<1>5. CASE Emit(a)
  <2>1. AppendMessage(task[a].seq, a, "item") /\ sweep'.seq = sweep.seq
    BY <1>5 DEF Emit
  <2>2. CASE Vacant(task[a].seq)
    <3>1. MoveWith(a, "running", task[a].seq + 1)
      BY <1>5, <2>2 DEF Emit
    <3>2. \A b \in Attempts : task'[b].seq \in {task[b].seq, task[a].seq + 1}
      BY <1>0, <3>1, MoveWithFacts DEF Phases
    <3>. QED
      BY <1>0, <2>1, <2>2, <3>2, AppendKeepsLog
  <2>3. CASE ~Vacant(task[a].seq)
    <3>1. LeaveBody(a, "raised", TRUE, FALSE)
      BY <1>5, <2>3 DEF Emit
    <3>2. \A b \in Attempts : task'[b].seq \in {task[b].seq, 0}
      BY <3>1, LeaveBodyFacts DEF Phases
    <3>. QED
      BY <1>0, <2>1, <3>2, AppendKeepsLog
  <2>. QED
    BY <2>2, <2>3
<1>6. CASE HandlerReturns(a)
  <2>1. \A b \in Attempts : task'[b].seq \in {task[b].seq, 0, NextSeq}
    BY <1>0, <1>6, MoveWithFacts, LeaveBodyFacts DEF HandlerReturns, Move, Leave, Phases
  <2>. QED
    BY <1>6, <2>1, QuietKeepsLog DEF Quiet, HandlerReturns
<1>7. CASE HandlerRaises(a)
  <2>1. \A b \in Attempts : task'[b].seq \in {task[b].seq, 0, NextSeq}
    BY <1>0, <1>7, MoveWithFacts, LeaveBodyFacts DEF HandlerRaises, Move, Leave, Phases
  <2>. QED
    BY <1>7, <2>1, QuietKeepsLog DEF Quiet, HandlerRaises
<1>8. CASE TaskTimeout(a)
  <2>1. \A b \in Attempts : task'[b].seq \in {task[b].seq, 0, NextSeq}
    BY <1>0, <1>8, MoveWithFacts, LeaveBodyFacts DEF TaskTimeout, Move, Leave, Phases
  <2>. QED
    BY <1>8, <2>1, QuietKeepsLog DEF Quiet, TaskTimeout
<1>9. CASE WriteError(a)
  <2>1. PICK pc \in {"raised", "deferred"}, c \in BOOLEAN, d \in BOOLEAN : LeaveBody(a, pc, c, d)
    BY <1>0, <1>9 DEF WriteError, Leave
  <2>2. \A b \in Attempts : task'[b].seq \in {task[b].seq, 0}
    BY <2>1, LeaveBodyFacts DEF Phases
  <2>3. sweep' = sweep
    BY <1>9 DEF WriteError
  <2>4. msgs' = msgs \/ AppendMessage(task[a].seq, a, "item")
    BY <1>9 DEF WriteError
  <2>. QED
    BY <1>0, <2>2, <2>3, <2>4, QuietKeepsLog, AppendKeepsLog DEF Quiet
<1>10. CASE ReadForReport(a)
  <2>1. \A b \in Attempts : task'[b].seq \in {task[b].seq, 0, NextSeq}
    BY <1>0, <1>10, MoveWithFacts, LeaveBodyFacts DEF ReadForReport, Move, Leave, Phases
  <2>. QED
    BY <1>10, <2>1, QuietKeepsLog DEF Quiet, ReadForReport
<1>11. CASE ReportError(a)
  <2>1. \A b \in Attempts : task'[b].seq \in {task[b].seq, 0}
    BY <1>0, <1>11, MoveWithFacts DEF ReportError, Move, Phases
  <2>2. AppendMessage(task[a].seq, a, "error") /\ sweep'.seq = sweep.seq
    BY <1>11 DEF ReportError
  <2>. QED
    BY <1>0, <2>1, <2>2, AppendKeepsLog
<1>12. CASE MarkFailed(a)
  <2>1. \A b \in Attempts : task'[b].seq \in {task[b].seq, 0, NextSeq}
    BY <1>0, <1>12, MoveWithFacts, LeaveBodyFacts DEF MarkFailed, Move, Leave, Phases
  <2>. QED
    BY <1>12, <2>1, QuietKeepsLog DEF Quiet, MarkFailed
<1>13. CASE CleanupError(a)
  <2>1. \A b \in Attempts : task'[b].seq \in {task[b].seq, 0, NextSeq}
    BY <1>0, <1>13, MoveWithFacts, LeaveBodyFacts DEF CleanupError, Move, Leave, Phases
  <2>. QED
    BY <1>13, <2>1, QuietKeepsLog DEF Quiet, CleanupError
<1>14. CASE DeferredRead(a)
  <2>1. \A b \in Attempts : task'[b].seq \in {task[b].seq, 0, NextSeq}
    BY <1>0, <1>14, MoveWithFacts, LeaveBodyFacts DEF DeferredRead, Move, Leave, Phases
  <2>. QED
    BY <1>14, <2>1, QuietKeepsLog DEF Quiet, DeferredRead
<1>15. CASE DeferredCheck(a)
  <2>1. \A b \in Attempts : task'[b].seq \in {task[b].seq, 0, NextSeq}
    BY <1>0, <1>15, MoveWithFacts, LeaveBodyFacts DEF DeferredCheck, Move, Leave, Phases
  <2>. QED
    BY <1>15, <2>1, QuietKeepsLog DEF Quiet, DeferredCheck
<1>16. CASE DeferredReport(a)
  <2>1. \A b \in Attempts : task'[b].seq \in {task[b].seq, 0}
    BY <1>0, <1>16, MoveWithFacts DEF DeferredReport, Move, Phases
  <2>2. AppendMessage(task[a].seq, a, "error") /\ sweep'.seq = sweep.seq
    BY <1>16 DEF DeferredReport
  <2>. QED
    BY <1>0, <2>1, <2>2, AppendKeepsLog
<1>17. CASE DeferredMarkFailed(a)
  <2>1. \A b \in Attempts : task'[b].seq \in {task[b].seq, 0, NextSeq}
    BY <1>0, <1>17, MoveWithFacts, LeaveBodyFacts DEF DeferredMarkFailed, Move, Leave, Phases
  <2>. QED
    BY <1>17, <2>1, QuietKeepsLog DEF Quiet, DeferredMarkFailed
<1>18. CASE Crash(a)
  <2>1. \A b \in Attempts : task'[b].seq \in {task[b].seq, 0, NextSeq}
    BY <1>0, <1>18, MoveWithFacts, LeaveBodyFacts DEF Crash, Move, Leave, Phases
  <2>. QED
    BY <1>18, <2>1, QuietKeepsLog DEF Quiet, Crash
<1>19. CASE Beat(a)
  <2>1. \A b \in Attempts : task'[b].seq = task[b].seq
    BY <1>0, <1>19 DEF Beat, TypeOK, Task
  <2>. QED
    BY <1>19, <2>1, QuietKeepsLog DEF Quiet, Beat
<1>. QED
  BY <1>1, <1>2, <1>3, <1>4, <1>5, <1>6, <1>7, <1>8, <1>9, <1>10, <1>11, <1>12, <1>13, <1>14, <1>15, <1>16, <1>17, <1>18, <1>19
  DEF RunTask, Resume, Start, End, Cleanup

-----------------------------------------------------------------------------
(* The life of an attempt: what its task and the row say of each other.     *)
Early == {"none", "claimed", "resuming", "starting", "running"}

LifeInv ==
  /\ resp.status = "none" <=> resp.attempt = 0
  /\ \A a \in Attempts : a > resp.attempt => task[a].pc = "none"
  /\ \A a \in Attempts : task[a].pc \in Early => ~task[a].collided /\ ~task[a].returned
  /\ CompletedByItsOwner
  /\ resp.status = "failed" /\ sweep.pc = "idle" => task[resp.attempt].pc \notin Early

(* How a step may change the outcome.                                       *)
OutcomeStep ==
  /\ resp.status \in Terminal => resp'.status \in Terminal /\ resp'.attempt = resp.attempt
  /\ resp.status \in Terminal /\ resp'.status # resp.status =>
       \/ resp'.status = "failed" /\ task[resp.attempt].pc \in {"failing", "closing"}
       \/ resp'.status = "completed" /\ task[resp.attempt].pc = "running" /\ sweep.pc # "idle"

(* No attempt has begun at first. *)
LEMMA LifeInit == Init => LifeInv
BY DEF Init, StoreInit, LifeInv, NoTask, CompletedByItsOwner

(* The server's steps keep the life of the attempts, and never take an outcome back. *)
LEMMA LifeServer ==
  ASSUME TypeOK, LifeInv, ServerStep
  PROVE  LifeInv' /\ OutcomeStep
<1>0. /\ resp \in Response /\ resp.attempt \in Nat /\ resp.attempt <= MaxAttempts /\ 1 \in Attempts
      /\ resp.status # "none" => resp.attempt \in Attempts
      /\ "starting" \in Phases /\ "claimed" \in Phases
  BY DEF TypeOK, StoreTypeOK, Response, Attempts, Phases, LifeInv
<1>1. CASE HandleBackground
  <2>1. /\ task'[1].pc = "starting"
        /\ task'[1].collided = task[1].collided /\ task'[1].returned = task[1].returned
        /\ \A b \in Attempts : b # 1 => task'[b] = task[b]
    BY <1>0, <1>1, MoveWithFacts DEF HandleBackground, Move
  <2>2. resp.attempt = 0 /\ resp.status = "none" /\ task[1].pc = "none"
    BY <1>0, <1>1 DEF HandleBackground, LifeInv
  <2>3. resp'.status = "in_progress" /\ resp'.attempt = 1
    BY <1>1 DEF HandleBackground, CreateResponse
  <2>. QED
    BY <1>0, <2>1, <2>2, <2>3 DEF LifeInv, CompletedByItsOwner, Early, Attempts, OutcomeStep, Terminal
<1>2. CASE Claim
  <2>1. /\ resp'.attempt = resp.attempt + 1 /\ resp'.status = "in_progress"
        /\ resp.status = "in_progress"
    BY <1>0, <1>2 DEF Claim, ClaimStaleResponse, Stale, Response
  <2>2. PICK a \in Attempts : a = resp'.attempt
    BY <1>0, <1>2, <2>1 DEF Claim, Attempts
  <2>3. /\ task'[a].pc = "claimed"
        /\ task'[a].collided = task[a].collided /\ task'[a].returned = task[a].returned
        /\ \A b \in Attempts : b # a => task'[b] = task[b]
    BY <1>0, <1>2, <2>2, MoveWithFacts DEF Claim, Move
  <2>4. task[a].pc = "none" /\ a \in Nat
    BY <1>0, <2>1, <2>2 DEF LifeInv, Attempts
  <2>. QED
    BY <1>0, <2>1, <2>2, <2>3, <2>4 DEF LifeInv, CompletedByItsOwner, Early, Attempts, OutcomeStep, Terminal
<1>3. CASE Lapse \/ Age
  <2>1. resp'.attempt = resp.attempt /\ resp'.status = resp.status
    BY <1>0, <1>3 DEF Lapse, Age, Response
  <2>2. task' = task /\ sweep' = sweep
    BY <1>3 DEF Lapse, Age
  <2>. QED
    BY <2>1, <2>2 DEF LifeInv, CompletedByItsOwner, OutcomeStep, Terminal
<1>4. CASE Sweep
  <2>1. resp'.attempt = resp.attempt /\ resp'.status = "failed" /\ resp.status = "in_progress"
    BY <1>0, <1>4 DEF Sweep, FailIfInProgress, Response
  <2>2. task' = task /\ sweep'.pc = "swept"
    BY <1>4 DEF Sweep, TypeOK, Sweeper
  <2>. QED
    BY <2>1, <2>2 DEF LifeInv, CompletedByItsOwner, OutcomeStep, Terminal
<1>5. CASE SweepRead \/ SweepReport
  <2>1. resp' = resp /\ task' = task /\ sweep.pc # "idle" /\ sweep'.pc # "idle"
    BY <1>5 DEF SweepRead, SweepReport, TypeOK, Sweeper
  <2>. QED
    BY <2>1 DEF LifeInv, CompletedByItsOwner, OutcomeStep, Terminal
<1>. QED
  BY <1>1, <1>2, <1>3, <1>4, <1>5 DEF ServerStep, Retrieve

(* A step of task a that leaves the row alone and does not bring it back    *)
(* among the early phases.                                                  *)
LEMMA PhaseKeepsLife ==
  ASSUME TypeOK, LifeInv, NEW a \in Attempts, task[a].pc # "none",
         resp' = resp, sweep' = sweep,
         task'[a].pc \in Early =>
            task[a].pc \in Early /\ ~task'[a].collided /\ ~task'[a].returned,
         task[a].pc \in Early \/ (task'[a].collided = task[a].collided
                                /\ task'[a].returned = task[a].returned),
         \A b \in Attempts : b # a => task'[b] = task[b]
  PROVE  LifeInv' /\ OutcomeStep
<1>1. resp.attempt \in Nat /\ (resp.status # "none" => resp.attempt \in Attempts)
  BY DEF TypeOK, StoreTypeOK, Response, LifeInv, Attempts
<1>2. CompletedByItsOwner'
  BY <1>1 DEF LifeInv, CompletedByItsOwner, Early
<1>. QED
  BY <1>1, <1>2 DEF LifeInv, OutcomeStep, Early

(* A step of task a that ends it with a status write.                       *)
LEMMA WriteKeepsLife ==
  ASSUME TypeOK, LifeInv, NEW a \in Attempts, task[a].pc # "none",
         NEW st \in Terminal, SetStatus(a, st), sweep' = sweep,
         task'[a].pc \notin Early,
         st = "completed" => task[a].pc = "running" /\ task'[a].returned /\ ~task'[a].collided,
         st = "failed" => task'[a].collided = task[a].collided
                       /\ task'[a].returned = task[a].returned
                       /\ task[a].pc \in Early \cup {"failing", "closing"},
         \A b \in Attempts : b # a => task'[b] = task[b]
  PROVE  LifeInv' /\ OutcomeStep
<1>1. resp.attempt \in Nat /\ (resp.status # "none" => resp.attempt \in Attempts)
  BY DEF TypeOK, StoreTypeOK, Response, LifeInv, Attempts
<1>2. /\ resp'.attempt = resp.attempt
      /\ resp'.status = IF resp.attempt = a THEN st ELSE resp.status
  BY SetStatusFacts
<1>3. resp.attempt = a => resp.status # "none"
  BY <1>1 DEF LifeInv, Attempts
<1>4. st \in {"completed", "failed"}
  BY DEF Terminal
<1>5. CASE resp.attempt = a
  BY <1>1, <1>2, <1>3, <1>4, <1>5 DEF LifeInv, CompletedByItsOwner, OutcomeStep, Early, Terminal
<1>6. CASE resp.attempt # a
  BY <1>1, <1>2, <1>3, <1>4, <1>6 DEF LifeInv, CompletedByItsOwner, OutcomeStep, Early, Terminal
<1>. QED
  BY <1>5, <1>6

(* So do the steps of every attempt's task. *)
LEMMA LifeTask ==
  ASSUME TypeOK, LogInv, LifeInv, NEW a \in Attempts, RunTask(a)
  PROVE  LifeInv' /\ OutcomeStep
<1>0. /\ task[a] \in Task /\ task[a].seq \in Nat /\ NextSeq \in Nat
      /\ task[a].collided \in BOOLEAN /\ task[a].returned \in BOOLEAN
      /\ task[a].pc \in Early => ~task[a].collided /\ ~task[a].returned
  BY DEF TypeOK, Task, LogInv, Contiguous, LifeInv
<1>1. CASE ReadPriorAttempt(a)
  BY <1>0, <1>1, MoveWithFacts, LeaveBodyFacts, PhaseKeepsLife
     DEF ReadPriorAttempt, Move, Leave, Phases, Early
<1>2. CASE AnnounceResume(a)
  BY <1>0, <1>2, MoveWithFacts, LeaveBodyFacts, PhaseKeepsLife
     DEF AnnounceResume, Move, Leave, Phases, Early
<1>3. CASE StartHandler(a)
  <2>1. /\ task'[a].pc = "running" /\ task'[a].collided = task[a].collided
        /\ task'[a].returned = task[a].returned
        /\ \A b \in Attempts : b # a => task'[b] = task[b]
    BY <1>0, <1>3 DEF StartHandler, TypeOK, Task
  <2>. QED
    BY <1>0, <1>3, <2>1, PhaseKeepsLife DEF StartHandler, Early
<1>4. CASE NoHandler(a)
  <2>1. SetStatus(a, "failed") /\ "failed" \in Terminal /\ sweep' = sweep /\ task[a].pc # "none"
    BY <1>4 DEF NoHandler, Terminal
  <2>. QED
    BY <1>0, <1>4, <2>1, MoveWithFacts, LeaveBodyFacts, WriteKeepsLife
    DEF NoHandler, Move, Phases, Early
<1>5. CASE Emit(a)
  <2>1. CASE Vacant(task[a].seq)
    <3>1. MoveWith(a, "running", task[a].seq + 1)
      BY <1>5, <2>1 DEF Emit
    <3>. QED
      BY <1>0, <1>5, <3>1, MoveWithFacts, PhaseKeepsLife DEF Emit, Phases, Early
  <2>2. CASE ~Vacant(task[a].seq)
    <3>1. LeaveBody(a, "raised", TRUE, FALSE)
      BY <1>5, <2>2 DEF Emit
    <3>. QED
      BY <1>0, <1>5, <3>1, LeaveBodyFacts, PhaseKeepsLife DEF Emit, Phases, Early
  <2>. QED
    BY <2>1, <2>2
<1>6. CASE HandlerReturns(a)
  <2>1. SetStatus(a, "completed") /\ "completed" \in Terminal /\ sweep' = sweep /\ task[a].pc # "none"
    BY <1>6 DEF HandlerReturns, Terminal
  <2>. QED
    BY <1>0, <1>6, <2>1, MoveWithFacts, LeaveBodyFacts, WriteKeepsLife
    DEF HandlerReturns, Move, Phases, Early
<1>7. CASE HandlerRaises(a)
  BY <1>0, <1>7, MoveWithFacts, LeaveBodyFacts, PhaseKeepsLife
     DEF HandlerRaises, Move, Leave, Phases, Early
<1>8. CASE TaskTimeout(a)
  BY <1>0, <1>8, MoveWithFacts, LeaveBodyFacts, PhaseKeepsLife
     DEF TaskTimeout, Move, Leave, Phases, Early
<1>9. CASE WriteError(a)
  <2>1. CASE UNCHANGED resp /\ \E pc \in {"raised", "deferred"} : Leave(a, pc)
    <3>1. PICK pc \in {"raised", "deferred"} : LeaveBody(a, pc, task[a].collided, task[a].returned)
      BY <2>1 DEF Leave
    <3>2. /\ task'[a].pc = pc /\ \A b \in Attempts : b # a => task'[b] = task[b]
      BY <1>0, <3>1, LeaveBodyFacts DEF Phases
    <3>. QED
      BY <1>9, <2>1, <3>2, PhaseKeepsLife DEF WriteError, Early
  <2>2. CASE /\ SetStatus(a, "completed")
             /\ \E pc \in {"raised", "deferred"} : LeaveBody(a, pc, FALSE, TRUE)
    <3>1. PICK pc \in {"raised", "deferred"} : LeaveBody(a, pc, FALSE, TRUE)
      BY <2>2
    <3>2. /\ task'[a].pc = pc /\ ~task'[a].collided /\ task'[a].returned
          /\ \A b \in Attempts : b # a => task'[b] = task[b]
      BY <3>1, LeaveBodyFacts DEF Phases
    <3>3. task[a].pc = "running" /\ sweep' = sweep /\ "completed" \in Terminal
      BY <1>9 DEF WriteError, Terminal
    <3>. QED
      BY <2>2, <3>2, <3>3, WriteKeepsLife DEF Early
  <2>. QED
    BY <1>9, <2>1, <2>2 DEF WriteError
<1>10. CASE ReadForReport(a)
  BY <1>0, <1>10, MoveWithFacts, LeaveBodyFacts, PhaseKeepsLife
     DEF ReadForReport, Move, Leave, Phases, Early
<1>11. CASE ReportError(a)
  BY <1>0, <1>11, MoveWithFacts, LeaveBodyFacts, PhaseKeepsLife
     DEF ReportError, Move, Leave, Phases, Early
<1>12. CASE MarkFailed(a)
  <2>1. SetStatus(a, "failed") /\ "failed" \in Terminal /\ sweep' = sweep /\ task[a].pc # "none"
    BY <1>12 DEF MarkFailed, Terminal
  <2>. QED
    BY <1>0, <1>12, <2>1, MoveWithFacts, LeaveBodyFacts, WriteKeepsLife
    DEF MarkFailed, Move, Phases, Early
<1>13. CASE CleanupError(a)
  <2>1. /\ task'[a].pc = "deferred"
        /\ task'[a].collided = task[a].collided /\ task'[a].returned = task[a].returned
        /\ \A b \in Attempts : b # a => task'[b] = task[b]
        /\ sweep' = sweep /\ task[a].pc # "none"
    BY <1>0, <1>13, MoveWithFacts DEF CleanupError, Move, Phases
  <2>2. CASE UNCHANGED resp
    BY <1>0, <1>13, <2>1, <2>2, PhaseKeepsLife DEF CleanupError, Early
  <2>3. CASE task[a].pc = "failing" /\ SetStatus(a, "failed")
    BY <2>1, <2>3, WriteKeepsLife DEF Early, Terminal
  <2>. QED
    BY <1>13, <2>2, <2>3 DEF CleanupError
<1>14. CASE DeferredRead(a)
  BY <1>0, <1>14, MoveWithFacts, LeaveBodyFacts, PhaseKeepsLife
     DEF DeferredRead, Move, Leave, Phases, Early
<1>15. CASE DeferredCheck(a)
  BY <1>0, <1>15, MoveWithFacts, LeaveBodyFacts, PhaseKeepsLife
     DEF DeferredCheck, Move, Leave, Phases, Early
<1>16. CASE DeferredReport(a)
  BY <1>0, <1>16, MoveWithFacts, LeaveBodyFacts, PhaseKeepsLife
     DEF DeferredReport, Move, Leave, Phases, Early
<1>17. CASE DeferredMarkFailed(a)
  <2>1. SetStatus(a, "failed") /\ "failed" \in Terminal /\ sweep' = sweep /\ task[a].pc # "none"
    BY <1>17 DEF DeferredMarkFailed, Terminal
  <2>. QED
    BY <1>0, <1>17, <2>1, MoveWithFacts, LeaveBodyFacts, WriteKeepsLife
    DEF DeferredMarkFailed, Move, Phases, Early
<1>18. CASE Crash(a)
  BY <1>0, <1>18, MoveWithFacts, LeaveBodyFacts, PhaseKeepsLife
     DEF Crash, Move, Leave, Phases, Early
<1>19. CASE Beat(a)
  <2>1. /\ \A b \in Attempts : task'[b].pc = task[b].pc
        /\ \A b \in Attempts : task'[b].collided = task[b].collided
        /\ \A b \in Attempts : task'[b].returned = task[b].returned
    BY <1>0, <1>19 DEF Beat, TypeOK, Task
  <2>2. resp'.status = resp.status /\ resp'.attempt = resp.attempt /\ sweep' = sweep
    BY <1>19 DEF Beat, HeartbeatResponse, TypeOK, StoreTypeOK, Response
  <2>3. resp.attempt \in Nat /\ (resp.status # "none" => resp.attempt \in Attempts)
    BY DEF TypeOK, StoreTypeOK, Response, LifeInv, Attempts
  <2>. QED
    BY <2>1, <2>2, <2>3 DEF LifeInv, CompletedByItsOwner, OutcomeStep, Terminal
<1>. QED
  BY <1>1, <1>2, <1>3, <1>4, <1>5, <1>6, <1>7, <1>8, <1>9, <1>10, <1>11, <1>12, <1>13, <1>14, <1>15, <1>16, <1>17, <1>18, <1>19
  DEF RunTask, Resume, Start, End, Cleanup

-----------------------------------------------------------------------------
(* What stands in the log: where a handler's items lie, that its resume was *)
(* announced before them, and that a failure was reported before the row    *)
(* says so.                                                                 *)
Items(a) == MessagesOf(a, "item")

Before == {"none", "claimed", "resuming", "starting"}

BlocksInv ==
  \A a \in Attempts :
    /\ task[a].pc \in Before => Items(a) = {}
    /\ task[a].pc = "running" /\ Items(a) # {} => task[a].seq - 1 \in Items(a)
    /\ task[a].pc \in {"starting", "running"} /\ a > 1 => MessagesOf(a, "resumed") # {}
    /\ \A m, n \in Items(a) : m..n \subseteq Items(a)
    /\ a > 1 => \A n \in Items(a) : \E k \in MessagesOf(a, "resumed") : k < n

ReportInv ==
  /\ \A a \in Attempts : task[a].pc \in {"failing", "closing"} => MessagesOf(a, "error") # {}
  /\ FailureIsExplained

StoryInv == BlocksInv /\ ReportInv

(* What one INSERT does to the messages of an attempt.                      *)
LEMMA MessagesAfterAppend ==
  ASSUME TypeOK, LogInv, NEW k \in Nat, k <= NextSeq, NEW a \in Nat,
         NEW type \in {"item", "resumed", "error"}, AppendMessage(k, a, type)
  PROVE  /\ ~Vacant(k) => \A b \in Nat, t \in {"item", "resumed", "error"} :
                             MessagesOf(b, t)' = MessagesOf(b, t)
         /\ Vacant(k) =>
              /\ k = NextSeq
              /\ MessagesOf(a, type)' = MessagesOf(a, type) \cup {k}
              /\ \A b \in Nat, t \in {"item", "resumed", "error"} :
                   b # a \/ t # type => MessagesOf(b, t)' = MessagesOf(b, t)
<1>1. CASE ~Vacant(k)
  <2>1. msgs' = msgs
    BY <1>1, AppendShape DEF LogInv, TypeOK
  <2>. QED
    BY <1>1, <2>1 DEF MessagesOf
<1>2. CASE Vacant(k)
  <2>1. k = NextSeq /\ AddsAtEnd(a, type)
    BY <1>2, AppendShape DEF LogInv, TypeOK
  <2>2. /\ DOMAIN msgs = 0..(k-1) /\ DOMAIN msgs' = 0..k
        /\ msgs'[k] = [attempt |-> a, type |-> type]
        /\ \A j \in 0..(k-1) : msgs'[j] = msgs[j]
    BY <2>1 DEF LogInv, Contiguous, AddsAtEnd
  <2>3. MessagesOf(a, type)' = MessagesOf(a, type) \cup {k}
    BY <2>2 DEF MessagesOf
  <2>4. ASSUME NEW b \in Nat, NEW t \in {"item", "resumed", "error"}, b # a \/ t # type
        PROVE  MessagesOf(b, t)' = MessagesOf(b, t)
    <3>1. [attempt |-> a, type |-> type] # [attempt |-> b, type |-> t]
      BY <2>4
    <3>. QED
      BY <2>2, <3>1 DEF MessagesOf
  <2>. QED
    BY <1>2, <2>1, <2>3, <2>4
<1>. QED
  BY <1>1, <1>2

(* Messages are never lost, so a step that writes no item keeps the blocks  *)
(* unless it moves a task into a phase that promises something.             *)
LEMMA BlocksKept ==
  ASSUME TypeOK, BlocksInv,
         \A b \in Attempts : Items(b)' = Items(b),
         \A b \in Attempts : MessagesOf(b, "resumed") \subseteq MessagesOf(b, "resumed")',
         \A b \in Attempts : task'[b].pc \in Before => task[b].pc \in Before,
         \A b \in Attempts : task'[b].pc = "running" =>
            \/ task[b].pc = "running" /\ task'[b].seq = task[b].seq
            \/ task[b].pc \in Before,
         \A b \in Attempts : task'[b].pc \in {"starting", "running"} /\ b > 1 =>
            task[b].pc \in {"starting", "running"} \/ MessagesOf(b, "resumed")' # {}
  PROVE  BlocksInv'
BY DEF BlocksInv

(* A failure stays explained by a step that takes no error out of the log and fails nobody *)
(* unexplained.                                                                            *)
LEMMA ReportKept ==
  ASSUME TypeOK, ReportInv, mode' = mode,
         \A b \in Attempts : MessagesOf(b, "error") \subseteq MessagesOf(b, "error")',
         \A b \in Attempts : task'[b].pc \in {"failing", "closing"} =>
            task[b].pc \in {"failing", "closing"} \/ MessagesOf(b, "error")' # {},
         sweep.pc # "idle" => sweep'.pc # "idle",
         resp'.status = "failed" /\ sweep'.pc = "idle" /\ Kind(resp.attempt)' \in Handlers =>
            \/ resp.status = "failed" /\ resp'.attempt = resp.attempt /\ resp.attempt \in Attempts
            \/ MessagesOf(resp.attempt, "error")' # {}
  PROVE  ReportInv'
<1>1. \A a \in Attempts : task'[a].pc \in {"failing", "closing"} => MessagesOf(a, "error")' # {}
  BY DEF ReportInv
<1>2. FailureIsExplained'
  <2>. SUFFICES ASSUME resp'.status = "failed", sweep'.pc = "idle", Kind(resp.attempt)' \in Handlers,
                       resp.status = "failed", resp'.attempt = resp.attempt, resp.attempt \in Attempts
                PROVE  MessagesOf(resp.attempt, "error")' # {}
    BY DEF FailureIsExplained
  <2>1. PICK a \in Attempts : a = resp.attempt /\ a = resp'.attempt
    OBVIOUS
  <2>2. MessagesOf(a, "error") # {}
    BY <2>1 DEF ReportInv, FailureIsExplained, Kind
  <2>3. MessagesOf(a, "error")' # {}
    BY <2>2
  <2>. QED
    BY <2>1, <2>3 DEF MessagesOf
<1>. QED
  BY <1>1, <1>2 DEF ReportInv

(* A step of task a that writes no item.                                    *)
LEMMA StoryKept ==
  ASSUME TypeOK, LifeInv, StoryInv, NEW a \in Attempts,
         mode' = mode, sweep' = sweep,
         \A b \in Attempts : b # a => task'[b] = task[b],
         \A b \in Attempts : Items(b)' = Items(b),
         \A b \in Attempts, t \in {"resumed", "error"} : MessagesOf(b, t) \subseteq MessagesOf(b, t)',
         task'[a].pc \in Before => task[a].pc \in Before,
         task'[a].pc = "running" =>
            \/ task[a].pc = "running" /\ task'[a].seq = task[a].seq
            \/ task[a].pc \in Before,
         task'[a].pc \in {"starting", "running"} /\ a > 1 =>
            task[a].pc \in {"starting", "running"} \/ MessagesOf(a, "resumed")' # {},
         task'[a].pc \in {"failing", "closing"} =>
            task[a].pc \in {"failing", "closing"} \/ MessagesOf(a, "error")' # {},
         \/ resp'.attempt = resp.attempt /\ resp'.status = resp.status
         \/ SetStatus(a, "completed")
         \/ SetStatus(a, "failed") /\ (Kind(a) \in Handlers => MessagesOf(a, "error")' # {})
  PROVE  StoryInv'
<1>1. BlocksInv'
  BY BlocksKept DEF StoryInv
<1>2. resp.attempt \in Nat /\ (resp.status = "failed" => resp.attempt \in Attempts)
  BY DEF TypeOK, StoreTypeOK, Response, LifeInv, Attempts
<1>3. ASSUME resp'.status = "failed", sweep'.pc = "idle", Kind(resp.attempt)' \in Handlers
      PROVE  \/ resp.status = "failed" /\ resp'.attempt = resp.attempt /\ resp.attempt \in Attempts
             \/ MessagesOf(resp.attempt, "error")' # {}
  <2>1. CASE resp'.attempt = resp.attempt /\ resp'.status = resp.status
    BY <1>2, <1>3, <2>1
  <2>2. CASE SetStatus(a, "completed")
    <3>1. /\ resp'.attempt = resp.attempt
          /\ resp'.status = IF resp.attempt = a THEN "completed" ELSE resp.status
      BY <2>2, SetStatusFacts DEF Terminal
    <3>. QED
      BY <1>2, <1>3, <3>1
  <2>3. CASE SetStatus(a, "failed") /\ (Kind(a) \in Handlers => MessagesOf(a, "error")' # {})
    <3>1. /\ resp'.attempt = resp.attempt
          /\ resp'.status = IF resp.attempt = a THEN "failed" ELSE resp.status
      BY <2>3, SetStatusFacts DEF Terminal
    <3>2. CASE resp.attempt # a
      BY <1>2, <1>3, <3>1, <3>2
    <3>3. CASE resp.attempt = a
      <4>1. resp'.attempt = a
        BY <3>1, <3>3
      <4>2. Kind(a) \in Handlers
        BY <1>3, <4>1 DEF Kind
      <4>3. MessagesOf(a, "error")' # {}
        BY <2>3, <4>2
      <4>. QED
        BY <4>1, <4>3 DEF MessagesOf
    <3>. QED
      BY <3>2, <3>3
  <2>. QED
    BY <2>1, <2>2, <2>3
<1>4. ReportInv'
  BY <1>3, ReportKept DEF StoryInv
<1>. QED
  BY <1>1, <1>4 DEF StoryInv

(* The log has nothing to tell at first. *)
LEMMA StoryInit == Init => StoryInv
BY DEF Init, StoreInit, StoryInv, BlocksInv, ReportInv, FailureIsExplained, Items, MessagesOf, NoTask, Attempts

(* The server's steps keep blocks whole and failures explained. *)
LEMMA StoryServer ==
  ASSUME TypeOK, LogInv, LifeInv, StoryInv, ServerStep
  PROVE  StoryInv'
<1>0. /\ resp \in Response /\ resp.attempt \in Nat /\ 1 \in Attempts /\ "starting" \in Phases
      /\ "claimed" \in Phases /\ (resp.status # "none" => resp.attempt \in Attempts)
      /\ resp.status = "none" => resp.attempt = 0
  BY DEF TypeOK, StoreTypeOK, Response, Attempts, Phases, LifeInv
<1>1. CASE HandleBackground
  <2>1. task'[1].pc = "starting" /\ \A b \in Attempts : b # 1 => task'[b] = task[b]
    BY <1>0, <1>1, MoveWithFacts DEF HandleBackground, Move
  <2>2. task[1].pc = "none"
    BY <1>0, <1>1 DEF HandleBackground, LifeInv
  <2>3. \A b \in Attempts, t \in {"item", "resumed", "error"} : MessagesOf(b, t)' = MessagesOf(b, t)
    BY <1>1 DEF HandleBackground, MessagesOf
  <2>4. resp'.status = "in_progress" /\ mode' = mode /\ sweep' = sweep
    BY <1>1 DEF HandleBackground, CreateResponse
  <2>5. BlocksInv'
    BY <2>1, <2>2, <2>3, BlocksKept DEF StoryInv, Items, Before, Attempts
  <2>6. ReportInv'
    BY <2>1, <2>3, <2>4, ReportKept DEF StoryInv
  <2>. QED
    BY <2>5, <2>6 DEF StoryInv
<1>2. CASE Claim
  <2>1. /\ resp'.attempt = resp.attempt + 1 /\ resp'.status = "in_progress"
    BY <1>0, <1>2 DEF Claim, ClaimStaleResponse, Stale, Response
  <2>2. PICK a \in Attempts : a = resp'.attempt
    BY <1>0, <1>2, <2>1 DEF Claim, Attempts
  <2>3. task'[a].pc = "claimed" /\ \A b \in Attempts : b # a => task'[b] = task[b]
    BY <1>0, <1>2, <2>2, MoveWithFacts DEF Claim, Move
  <2>4. task[a].pc = "none"
    BY <1>0, <2>1, <2>2 DEF LifeInv, Attempts
  <2>5. \A b \in Attempts, t \in {"item", "resumed", "error"} : MessagesOf(b, t)' = MessagesOf(b, t)
    BY <1>2 DEF Claim, MessagesOf
  <2>6. mode' = mode /\ sweep' = sweep
    BY <1>2 DEF Claim
  <2>7. BlocksInv'
    BY <2>3, <2>4, <2>5, BlocksKept DEF StoryInv, Items, Before
  <2>8. ReportInv'
    BY <2>1, <2>3, <2>5, <2>6, ReportKept DEF StoryInv
  <2>. QED
    BY <2>7, <2>8 DEF StoryInv
<1>3. CASE Lapse \/ Age
  <2>1. /\ resp'.attempt = resp.attempt /\ resp'.status = resp.status
        /\ task' = task /\ sweep' = sweep /\ mode' = mode
    BY <1>0, <1>3 DEF Lapse, Age, Response
  <2>2. \A b \in Attempts, t \in {"item", "resumed", "error"} : MessagesOf(b, t)' = MessagesOf(b, t)
    BY <1>3 DEF Lapse, Age, MessagesOf
  <2>. QED
    BY <1>0, <2>1, <2>2, StoryKept DEF Items
<1>4. CASE Sweep \/ SweepRead
  <2>1. task' = task /\ sweep'.pc # "idle" /\ mode' = mode
    BY <1>4 DEF Sweep, SweepRead, TypeOK, Sweeper
  <2>2. \A b \in Attempts, t \in {"item", "resumed", "error"} : MessagesOf(b, t)' = MessagesOf(b, t)
    BY <1>4 DEF Sweep, SweepRead, MessagesOf
  <2>3. BlocksInv'
    BY <2>1, <2>2, BlocksKept DEF StoryInv, Items
  <2>4. ReportInv'
    BY <2>1, <2>2, ReportKept DEF StoryInv
  <2>. QED
    BY <2>3, <2>4 DEF StoryInv
<1>5. CASE SweepReport
  <2>1. /\ task' = task /\ sweep'.pc # "idle" /\ mode' = mode
        /\ sweep.seq \in Nat /\ sweep.seq <= NextSeq
        /\ AppendMessage(sweep.seq, resp.attempt, "error")
    BY <1>5 DEF SweepReport, TypeOK, Sweeper, LogInv
  <2>2. /\ \A b \in Nat : Items(b)' = Items(b) /\ MessagesOf(b, "resumed")' = MessagesOf(b, "resumed")
        /\ \A b \in Nat : MessagesOf(b, "error") \subseteq MessagesOf(b, "error")'
    BY <1>0, <2>1, MessagesAfterAppend DEF Items
  <2>3. BlocksInv'
    BY <2>1, <2>2, BlocksKept DEF StoryInv, Attempts
  <2>4. ReportInv'
    BY <2>1, <2>2, ReportKept DEF StoryInv, Attempts
  <2>. QED
    BY <2>3, <2>4 DEF StoryInv
<1>. QED
  BY <1>1, <1>2, <1>3, <1>4, <1>5 DEF ServerStep, Retrieve

(* A step of task a that writes no message at all.                          *)
LEMMA Silent ==
  ASSUME msgs' = msgs
  PROVE  /\ \A b \in Attempts : Items(b)' = Items(b)
         /\ \A b \in Attempts, t \in {"resumed", "error"} : MessagesOf(b, t) \subseteq MessagesOf(b, t)'
BY DEF Items, MessagesOf

(* A step of task a that writes its announcement or its report.             *)
LEMMA Noted ==
  ASSUME TypeOK, LogInv, NEW a \in Attempts, NEW type \in {"resumed", "error"},
         AppendMessage(task[a].seq, a, type)
  PROVE  /\ \A b \in Attempts : Items(b)' = Items(b)
         /\ \A b \in Attempts, t \in {"resumed", "error"} : MessagesOf(b, t) \subseteq MessagesOf(b, t)'
         /\ Vacant(task[a].seq) => MessagesOf(a, type)' # {}
<1>1. task[a].seq \in Nat /\ task[a].seq <= NextSeq
  BY DEF TypeOK, Task, LogInv
<1>2. \A b \in Attempts : b \in Nat
  BY DEF Attempts
<1>. QED
  BY <1>1, <1>2, MessagesAfterAppend DEF Items

(* A step of task a that writes an item, at the end of the log or not at    *)
(* all.  A handler that writes again continues its block, for its number is *)
(* the one after its last item and is also the end of the log.              *)
LEMMA ItemKeepsStory ==
  ASSUME TypeOK, LogInv, LifeInv, StoryInv, NEW a \in Attempts, task[a].pc = "running",
         AppendMessage(task[a].seq, a, "item"),
         resp' = resp, mode' = mode, sweep' = sweep,
         \A b \in Attempts : b # a => task'[b] = task[b],
         \/ task'[a].pc \in {"raised", "deferred"}
         \/ Vacant(task[a].seq) /\ task'[a].pc = "running" /\ task'[a].seq = task[a].seq + 1
  PROVE  StoryInv'
<1>0. /\ task[a].seq \in Nat /\ task[a].seq <= NextSeq
      /\ \A b \in Attempts : b \in Nat
  BY DEF TypeOK, Task, LogInv, Attempts
<1>1. CASE ~Vacant(task[a].seq)
  <2>1. msgs' = msgs
    BY <1>0, <1>1, AppendShape DEF LogInv, TypeOK
  <2>. QED
    BY <1>1, <2>1, Silent, StoryKept DEF Before
<1>2. CASE Vacant(task[a].seq)
  <2>1. PICK n \in Nat : n = task[a].seq
    BY <1>0
  <2>2. /\ n = NextSeq
        /\ Items(a)' = Items(a) \cup {n}
        /\ MessagesOf(a, "resumed")' = MessagesOf(a, "resumed")
        /\ \A b \in Attempts : MessagesOf(b, "error")' = MessagesOf(b, "error")
        /\ \A b \in Attempts : b # a => /\ Items(b)' = Items(b)
                                        /\ MessagesOf(b, "resumed")' = MessagesOf(b, "resumed")
    BY <1>0, <1>2, <2>1, MessagesAfterAppend DEF Items
  <2>3. DOMAIN msgs = 0..(n-1)
    BY <2>2 DEF LogInv, Contiguous
  <2>4. Items(a) \subseteq 0..(n-1) /\ MessagesOf(a, "resumed") \subseteq 0..(n-1)
    BY <2>3 DEF Items, MessagesOf
  <2>5. Items(a) # {} => n - 1 \in Items(a)
    BY <2>1 DEF StoryInv, BlocksInv
  <2>6. \A i, j \in Items(a) \cup {n} : i..j \subseteq Items(a) \cup {n}
    <3>. SUFFICES ASSUME NEW i \in Items(a) \cup {n}, NEW j \in Items(a) \cup {n}, NEW x \in i..j
                  PROVE  x \in Items(a) \cup {n}
      OBVIOUS
    <3>1. i \in 0..n /\ j \in 0..n
      BY <2>4
    <3>2. CASE j # n
      BY <2>4, <3>1, <3>2 DEF StoryInv, BlocksInv
    <3>3. CASE j = n /\ x # n
      <4>1. x \in i..(n-1) /\ i \in Items(a)
        BY <3>1, <3>3
      <4>2. n - 1 \in Items(a)
        BY <2>5, <4>1
      <4>. QED
        BY <4>1, <4>2 DEF StoryInv, BlocksInv
    <3>4. CASE x = n
      BY <3>4
    <3>. QED
      BY <3>2, <3>3, <3>4
  <2>7. a > 1 => \A i \in Items(a) \cup {n} : \E k \in MessagesOf(a, "resumed") : k < i
    <3>1. a > 1 => \E k \in MessagesOf(a, "resumed") : k < n
      BY <2>4 DEF StoryInv, BlocksInv
    <3>. QED
      BY <3>1 DEF StoryInv, BlocksInv
  <2>8. BlocksInv'
    <3>1. ASSUME NEW b \in Attempts, b # a
          PROVE  (/\ task[b].pc \in Before => Items(b) = {}
                  /\ task[b].pc = "running" /\ Items(b) # {} => task[b].seq - 1 \in Items(b)
                  /\ task[b].pc \in {"starting", "running"} /\ b > 1 => MessagesOf(b, "resumed") # {}
                  /\ \A m, k \in Items(b) : m..k \subseteq Items(b)
                  /\ b > 1 => \A k \in Items(b) : \E j \in MessagesOf(b, "resumed") : j < k)'
      BY <2>2, <3>1 DEF StoryInv, BlocksInv
    <3>2. (/\ task[a].pc \in Before => Items(a) = {}
           /\ task[a].pc = "running" /\ Items(a) # {} => task[a].seq - 1 \in Items(a)
           /\ task[a].pc \in {"starting", "running"} /\ a > 1 => MessagesOf(a, "resumed") # {}
           /\ \A m, k \in Items(a) : m..k \subseteq Items(a)
           /\ a > 1 => \A k \in Items(a) : \E j \in MessagesOf(a, "resumed") : j < k)'
      <4>1. task'[a].pc \notin Before
        BY DEF Before
      <4>2. task'[a].pc = "running" => task'[a].seq - 1 \in Items(a)'
        <5>1. task'[a].pc = "running" => task'[a].seq = n + 1
          BY <2>1
        <5>. QED
          BY <2>2, <5>1
      <4>3. task'[a].pc \in {"starting", "running"} /\ a > 1 => MessagesOf(a, "resumed")' # {}
        BY <2>2 DEF StoryInv, BlocksInv
      <4>. QED
        BY <2>2, <2>6, <2>7, <4>1, <4>2, <4>3
    <3>. QED
      BY <3>1, <3>2 DEF BlocksInv
  <2>9. ReportInv'
    <3>1. resp.status = "failed" => resp.attempt \in Attempts
      BY DEF TypeOK, StoreTypeOK, Response, LifeInv, Attempts
    <3>. QED
      BY <2>2, <3>1, ReportKept DEF StoryInv
  <2>. QED
    BY <2>8, <2>9 DEF StoryInv
<1>. QED
  BY <1>1, <1>2

(* So do the steps of every attempt's task. *)
LEMMA StoryTask ==
  ASSUME TypeOK, LogInv, LifeInv, StoryInv, NEW a \in Attempts, RunTask(a)
  PROVE  StoryInv'
<1>0. /\ task[a] \in Task /\ task[a].seq \in Nat /\ NextSeq \in Nat /\ FirstSeq(a) \in Nat
      /\ task[a].collided \in BOOLEAN /\ task[a].returned \in BOOLEAN
  BY DEF TypeOK, Task, LogInv, Contiguous, FirstSeq
<1>1. CASE ReadPriorAttempt(a)
  BY <1>0, <1>1, MoveWithFacts, LeaveBodyFacts, Silent, StoryKept
     DEF ReadPriorAttempt, Move, Leave, Phases, Before
<1>2. CASE AnnounceResume(a)
  <2>1. AppendMessage(task[a].seq, a, "resumed")
    BY <1>2 DEF AnnounceResume
  <2>. QED
    BY <1>0, <1>2, <2>1, Noted, MoveWithFacts, StoryKept DEF AnnounceResume, Move, Phases, Before
<1>3. CASE StartHandler(a)
  <2>1. /\ task'[a].pc = "running" /\ task[a].pc = "starting"
        /\ \A b \in Attempts : b # a => task'[b] = task[b]
    BY <1>0, <1>3 DEF StartHandler, TypeOK, Task
  <2>. QED
    BY <1>3, <2>1, Silent, StoryKept DEF StartHandler, Before
<1>4. CASE NoHandler(a)
  <2>1. SetStatus(a, "failed") /\ Kind(a) \notin Handlers
    BY <1>4 DEF NoHandler
  <2>. QED
    BY <1>0, <1>4, <2>1, MoveWithFacts, Silent, StoryKept DEF NoHandler, Move, Phases, Before
<1>5. CASE Emit(a)
  <2>1. CASE Vacant(task[a].seq)
    <3>1. MoveWith(a, "running", task[a].seq + 1)
      BY <1>5, <2>1 DEF Emit
    <3>. QED
      BY <1>0, <1>5, <2>1, <3>1, MoveWithFacts, ItemKeepsStory DEF Emit, Phases
  <2>2. CASE ~Vacant(task[a].seq)
    <3>1. LeaveBody(a, "raised", TRUE, FALSE)
      BY <1>5, <2>2 DEF Emit
    <3>. QED
      BY <1>5, <3>1, LeaveBodyFacts, ItemKeepsStory DEF Emit, Phases
  <2>. QED
    BY <2>1, <2>2
<1>6. CASE HandlerReturns(a)
  <2>1. SetStatus(a, "completed")
    BY <1>6 DEF HandlerReturns
  <2>. QED
    BY <1>6, <2>1, LeaveBodyFacts, Silent, StoryKept DEF HandlerReturns, Phases, Before
<1>7. CASE HandlerRaises(a)
  BY <1>0, <1>7, MoveWithFacts, LeaveBodyFacts, Silent, StoryKept
     DEF HandlerRaises, Move, Leave, Phases, Before
<1>8. CASE TaskTimeout(a)
  BY <1>0, <1>8, MoveWithFacts, LeaveBodyFacts, Silent, StoryKept
     DEF TaskTimeout, Move, Leave, Phases, Before
<1>9. CASE WriteError(a)
  <2>1. PICK pc \in {"raised", "deferred"}, c \in BOOLEAN, d \in BOOLEAN : LeaveBody(a, pc, c, d)
    BY <1>0, <1>9 DEF WriteError, Leave
  <2>2. task'[a].pc = pc /\ \A b \in Attempts : b # a => task'[b] = task[b]
    BY <2>1, LeaveBodyFacts DEF Phases
  <2>3. task[a].pc = "running" /\ mode' = mode /\ sweep' = sweep
    BY <1>9 DEF WriteError
  <2>4. CASE AppendMessage(task[a].seq, a, "item") /\ resp' = resp
    BY <2>2, <2>3, <2>4, ItemKeepsStory
  <2>5. CASE SetStatus(a, "completed") /\ msgs' = msgs
    BY <2>2, <2>3, <2>5, Silent, StoryKept DEF Before
  <2>. QED
    BY <1>9, <2>4, <2>5 DEF WriteError
<1>10. CASE ReadForReport(a)
  BY <1>0, <1>10, MoveWithFacts, LeaveBodyFacts, Silent, StoryKept
     DEF ReadForReport, Move, Leave, Phases, Before
<1>11. CASE ReportError(a)
  <2>1. AppendMessage(task[a].seq, a, "error")
    BY <1>11 DEF ReportError
  <2>. QED
    BY <1>0, <1>11, <2>1, Noted, MoveWithFacts, StoryKept DEF ReportError, Move, Phases, Before
<1>12. CASE MarkFailed(a)
  <2>1. task[a].pc = "failing" /\ SetStatus(a, "failed") /\ msgs' = msgs
    BY <1>12 DEF MarkFailed
  <2>2. MessagesOf(a, "error")' # {}
    BY <2>1 DEF StoryInv, ReportInv, MessagesOf
  <2>. QED
    BY <1>0, <1>12, <2>1, <2>2, MoveWithFacts, Silent, StoryKept DEF MarkFailed, Move, Phases, Before
<1>13. CASE CleanupError(a)
  <2>1. CASE UNCHANGED resp
    BY <1>0, <1>13, <2>1, MoveWithFacts, Silent, StoryKept DEF CleanupError, Move, Phases, Before
  <2>2. CASE task[a].pc = "failing" /\ SetStatus(a, "failed")
    <3>1. MessagesOf(a, "error")' # {}
      BY <1>13, <2>2 DEF CleanupError, StoryInv, ReportInv, MessagesOf
    <3>. QED
      BY <1>0, <1>13, <2>2, <3>1, MoveWithFacts, Silent, StoryKept
      DEF CleanupError, Move, Phases, Before
  <2>. QED
    BY <1>13, <2>1, <2>2 DEF CleanupError
<1>14. CASE DeferredRead(a)
  BY <1>0, <1>14, MoveWithFacts, LeaveBodyFacts, Silent, StoryKept
     DEF DeferredRead, Move, Leave, Phases, Before
<1>15. CASE DeferredCheck(a)
  BY <1>0, <1>15, MoveWithFacts, LeaveBodyFacts, Silent, StoryKept
     DEF DeferredCheck, Move, Leave, Phases, Before
<1>16. CASE DeferredReport(a)
  <2>1. AppendMessage(task[a].seq, a, "error")
    BY <1>16 DEF DeferredReport
  <2>. QED
    BY <1>0, <1>16, <2>1, Noted, MoveWithFacts, StoryKept DEF DeferredReport, Move, Phases, Before
<1>17. CASE DeferredMarkFailed(a)
  <2>1. task[a].pc = "closing" /\ SetStatus(a, "failed") /\ msgs' = msgs
    BY <1>17 DEF DeferredMarkFailed
  <2>2. MessagesOf(a, "error")' # {}
    BY <2>1 DEF StoryInv, ReportInv, MessagesOf
  <2>. QED
    BY <1>0, <1>17, <2>1, <2>2, MoveWithFacts, Silent, StoryKept DEF DeferredMarkFailed, Move, Phases, Before
<1>18. CASE Crash(a)
  BY <1>0, <1>18, MoveWithFacts, LeaveBodyFacts, Silent, StoryKept
     DEF Crash, Move, Leave, Phases, Before
<1>19. CASE Beat(a)
  <2>1. \A b \in Attempts : task'[b].pc = task[b].pc /\ task'[b].seq = task[b].seq
    BY <1>0, <1>19 DEF Beat, TypeOK, Task
  <2>2. /\ resp'.attempt = resp.attempt /\ resp'.status = resp.status
        /\ \A b \in Attempts : b # a => task'[b] = task[b]
    BY <1>19 DEF Beat, HeartbeatResponse, TypeOK, StoreTypeOK, Response
  <2>. QED
    BY <1>19, <2>1, <2>2, Silent, StoryKept DEF Beat
<1>. QED
  BY <1>1, <1>2, <1>3, <1>4, <1>5, <1>6, <1>7, <1>8, <1>9, <1>10, <1>11, <1>12, <1>13, <1>14, <1>15, <1>16, <1>17, <1>18, <1>19
  DEF RunTask, Resume, Start, End, Cleanup

-----------------------------------------------------------------------------
(* A handler that ended normally and is not over yet has met a fault: its   *)
(* status write raised.                                                     *)
FaultInv == \A a \in Attempts : task[a].returned /\ task[a].pc # "over" => faults > 0

(* Faults are only ever added, so a step of one task that did not end       *)
(* normally in it keeps that.                                               *)
LEMMA FaultKept ==
  ASSUME TypeOK, FaultInv, NEW a \in Attempts, faults' \in {faults, faults + 1},
         task'[a].returned /\ task'[a].pc # "over" =>
            (task[a].returned /\ task[a].pc # "over") \/ faults' = faults + 1,
         \A b \in Attempts : b # a => task'[b] = task[b]
  PROVE  FaultInv'
<1>1. faults \in Nat
  BY ServerAssumption DEF TypeOK
<1>. QED
  BY <1>1 DEF FaultInv

(* The server's steps keep it. *)
LEMMA FaultServer ==
  ASSUME TypeOK, LifeInv, FaultInv, ServerStep
  PROVE  FaultInv'
<1>0. /\ resp.attempt \in Nat /\ 1 \in Attempts /\ faults \in Nat
      /\ "starting" \in Phases /\ "claimed" \in Phases
  BY ServerAssumption DEF TypeOK, StoreTypeOK, Response, Attempts, Phases
<1>1. CASE HandleBackground
  <2>1. ~task[1].returned
    BY <1>0, <1>1 DEF HandleBackground, LifeInv, Early
  <2>. QED
    BY <1>0, <1>1, <2>1, MoveWithFacts, FaultKept DEF HandleBackground, Move
<1>2. CASE Claim
  <2>1. resp'.attempt = resp.attempt + 1
    BY <1>0, <1>2 DEF Claim, ClaimStaleResponse, TypeOK, StoreTypeOK, Response
  <2>2. PICK a \in Attempts : a = resp'.attempt /\ a > resp.attempt
    BY <1>0, <1>2, <2>1 DEF Claim, Attempts
  <2>3. ~task[a].returned
    BY <2>2 DEF LifeInv, Early
  <2>. QED
    BY <1>0, <1>2, <2>2, <2>3, MoveWithFacts, FaultKept DEF Claim, Move
<1>3. CASE Lapse \/ Age \/ Retrieve
  <2>1. task' = task /\ faults' \in {faults, faults + 1}
    BY <1>3 DEF Lapse, Fault, Age, Retrieve, Sweep, SweepRead, SweepReport
  <2>. QED
    BY <1>0, <2>1, FaultKept
<1>. QED
  BY <1>1, <1>2, <1>3 DEF ServerStep

(* So do those of a task: only a status write that raises leaves one alive. *)
LEMMA FaultTask ==
  ASSUME TypeOK, FaultInv, NextSeq \in Nat, NEW a \in Attempts, RunTask(a)
  PROVE  FaultInv'
<1>0. /\ task[a] \in Task /\ task[a].seq \in Nat /\ task[a].seq + 1 \in Nat
      /\ task[a].collided \in BOOLEAN /\ task[a].returned \in BOOLEAN
  BY DEF TypeOK, Task
<1>1. ASSUME NEW pc \in Phases, NEW n \in Nat, MoveWith(a, pc, n), task[a].pc # "over",
             faults' \in {faults, faults + 1}
      PROVE  FaultInv'
  BY <1>1, MoveWithFacts, FaultKept
<1>2. ASSUME NEW pc \in Phases, NEW c \in BOOLEAN, NEW d \in BOOLEAN, LeaveBody(a, pc, c, d),
             task[a].pc # "over", faults' \in {faults, faults + 1},
             d => task[a].returned \/ pc = "over" \/ faults' = faults + 1
      PROVE  FaultInv'
  BY <1>2, LeaveBodyFacts, FaultKept
<1>3. CASE Resume(a)
  BY <1>0, <1>1, <1>3 DEF Resume, ReadPriorAttempt, AnnounceResume, Move, Phases
<1>4. CASE StartHandler(a)
  <2>1. task'[a].returned = task[a].returned /\ \A b \in Attempts : b # a => task'[b] = task[b]
    BY <1>0, <1>4 DEF StartHandler, TypeOK, Task
  <2>. QED
    BY <1>4, <2>1, FaultKept DEF StartHandler
<1>5. CASE NoHandler(a)
  BY <1>0, <1>1, <1>5 DEF NoHandler, Move, Phases
<1>6. CASE Emit(a)
  <2>1. CASE Vacant(task[a].seq)
    BY <1>0, <1>1, <1>6, <2>1 DEF Emit, Phases
  <2>2. CASE ~Vacant(task[a].seq)
    BY <1>0, <1>2, <1>6, <2>2 DEF Emit, Phases
  <2>. QED
    BY <2>1, <2>2
<1>7. CASE End(a)
  BY <1>0, <1>2, <1>7 DEF End, HandlerReturns, HandlerRaises, TaskTimeout, Leave, Phases
<1>8. CASE WriteError(a)
  <2>1. task[a].pc = "running" /\ faults' = faults + 1
    BY <1>8 DEF WriteError, Fault
  <2>2. PICK pc \in {"raised", "deferred"} : Leave(a, pc) \/ LeaveBody(a, pc, FALSE, TRUE)
    BY <1>8 DEF WriteError
  <2>. QED
    BY <1>0, <1>2, <2>1, <2>2 DEF Leave, Phases
<1>9. CASE Cleanup(a)
  <2>1. PICK pc \in Phases, n \in Nat : MoveWith(a, pc, n)
    BY <1>0, <1>9
       DEF Cleanup, ReadForReport, ReportError, MarkFailed, DeferredRead, DeferredCheck, DeferredReport,
           DeferredMarkFailed, Move, Phases
  <2>2. task[a].pc # "over" /\ faults' = faults
    BY <1>9
       DEF Cleanup, ReadForReport, ReportError, MarkFailed, DeferredRead, DeferredCheck, DeferredReport,
           DeferredMarkFailed
  <2>. QED
    BY <1>1, <2>1, <2>2
<1>10. CASE CleanupError(a)
  BY <1>0, <1>1, <1>10 DEF CleanupError, Fault, Move, Phases
<1>11. CASE Crash(a)
  BY <1>0, <1>2, <1>11 DEF Crash, Fault, Leave, Phases
<1>12. CASE Beat(a)
  <2>1. /\ task'[a].returned = task[a].returned /\ task'[a].pc = task[a].pc
        /\ \A b \in Attempts : b # a => task'[b] = task[b]
    BY <1>0, <1>12 DEF Beat, TypeOK, Task
  <2>. QED
    BY <1>12, <2>1, FaultKept DEF Beat
<1>. QED
  BY <1>3, <1>4, <1>5, <1>6, <1>7, <1>8, <1>9, <1>10, <1>11, <1>12 DEF RunTask, Start

-----------------------------------------------------------------------------
(* The inductive invariant.  Types are not inductive alone: a number read   *)
(* from the log is a number because the log is contiguous.  The log's part  *)
(* and the life of the attempts do not depend on each other; what the log   *)
(* tells of an attempt rests on both.  That a normal end is revised only    *)
(* after a fault rests on the types alone.                                  *)
IInv == TypeOK /\ LogInv /\ LifeInv /\ StoryInv /\ FaultInv

(* The invariant holds at first. *)
LEMMA IInvInit == Init => IInv
<1>1. Init => FaultInv
  BY DEF Init, FaultInv, NoTask
<1>. QED
  BY <1>1, TypeInit, LogInit, LifeInit, StoryInit DEF IInv

(* Every step keeps the invariant, grows the log at its end and keeps the outcome. *)
LEMMA IInvNext ==
  ASSUME IInv, [Next]_vars
  PROVE  IInv' /\ GrowsAtItsEnd /\ OutcomeStep
<1>0. NextSeq \in Nat
  BY DEF IInv, LogInv, Contiguous
<1>1. CASE UNCHANGED vars
  <2>1. /\ resp' = resp /\ msgs' = msgs /\ mode' = mode
        /\ task' = task /\ sweep' = sweep /\ faults' = faults
    BY <1>1 DEF vars
  <2>2. NextSeq' = NextSeq
    BY <2>1 DEF NextSeq
  <2>3. TypeOK' /\ LogInv'
    BY <2>1, <2>2 DEF IInv, TypeOK, StoreTypeOK, LogInv, Contiguous
  <2>4. LifeInv'
    BY <2>1 DEF IInv, LifeInv, CompletedByItsOwner
  <2>5. StoryInv'
    BY <2>1 DEF IInv, StoryInv, BlocksInv, ReportInv, FailureIsExplained, Kind, Items, MessagesOf
  <2>. QED
    BY <2>1, <2>3, <2>4, <2>5 DEF IInv, FaultInv, GrowsAtItsEnd, OutcomeStep
<1>2. CASE ServerStep
  <2>1. TypeOK'
    BY <1>0, <1>2, TypeServer DEF IInv
  <2>. QED
    BY <1>2, <2>1, LogServer, LifeServer, StoryServer, FaultServer DEF IInv
<1>3. CASE \E a \in Attempts : RunTask(a)
  <2>1. PICK a \in Attempts : RunTask(a)
    BY <1>3
  <2>2. TypeOK'
    BY <1>0, <2>1, TypeTask DEF IInv
  <2>. QED
    BY <1>0, <2>1, <2>2, LogTask, LifeTask, StoryTask, FaultTask DEF IInv
<1>. QED
  BY <1>1, <1>2, <1>3, StepsAreActions

(* IInv holds of every reachable state of the server.                       *)
THEOREM ServerInvariant == Spec => []IInv
<1>1. IInv /\ [Next]_vars => IInv'
  BY IInvNext
<1>. QED
  BY <1>1, IInvInit, PTL DEF Spec

(* Every variable of the server stays in its type.                          *)
THEOREM ServerTypeCorrect == Spec => []TypeOK
<1>1. IInv => TypeOK
  BY DEF IInv
<1>. QED
  BY <1>1, ServerInvariant, PTL

(* append_message: a message is only ever added after all the others and    *)
(* none is overwritten, whatever numbers attempts, sweeps and cleanups hold.*)
THEOREM CursorsAreSound == Spec => LogGrowsAtItsEnd
<1>1. IInv /\ [Next]_vars =>
        [/\ DOMAIN msgs \subseteq DOMAIN msgs'
         /\ \A n \in DOMAIN msgs' :
              IF n \in DOMAIN msgs THEN msgs'[n] = msgs[n]
              ELSE \A k \in DOMAIN msgs : k < n]_vars
  BY IInvNext DEF GrowsAtItsEnd
<1>. QED
  BY <1>1, ServerInvariant, PTL DEF Spec, LogGrowsAtItsEnd

(* update_response_status: a completed response was completed by the        *)
(* attempt that its row names, whose handler lost no message.               *)
THEOREM CompletionIsFenced == Spec => []CompletedByItsOwner
<1>1. IInv => CompletedByItsOwner
  BY DEF IInv, LifeInv
<1>. QED
  BY <1>1, ServerInvariant, PTL

(* claim_stale_response: a response that ended is never resumed and never   *)
(* in progress again.                                                       *)
THEOREM EndsOnce == Spec => EndedIsNotResumed
<1>1. IInv /\ [Next]_vars =>
        [resp.status \in Terminal =>
           resp'.status \in Terminal /\ resp'.attempt = resp.attempt]_vars
  BY IInvNext DEF OutcomeStep
<1>. QED
  BY <1>1, ServerInvariant, PTL DEF Spec, EndedIsNotResumed

(* update_response_status compares the attempt only: an outcome is revised  *)
(* by the attempt the row names, after a fault of its own status write, or  *)
(* where the sweep failed the response while its handler was at work.       *)
THEOREM RevisionsAreOwned == Spec => OnlyItsAttemptRevises
<1>. DEFINE Revises ==
       resp.status \in Terminal /\ resp'.status # resp.status =>
         LET owner == task[resp.attempt]
         IN  \/ /\ resp'.status = "failed" /\ faults > 0
                /\ owner.returned /\ owner.pc \in {"failing", "closing"}
             \/ /\ resp'.status = "completed" /\ sweep.pc # "idle"
                /\ owner.pc = "running"
<1>1. IInv /\ [Next]_vars => [Revises]_vars
  <2>. SUFFICES ASSUME IInv, [Next]_vars, resp.status \in Terminal, resp'.status # resp.status,
                       resp'.status = "failed", task[resp.attempt].pc \in {"failing", "closing"}
                PROVE  task[resp.attempt].returned /\ faults > 0
    BY IInvNext DEF OutcomeStep
  <2>1. resp.status = "completed" /\ resp.attempt \in Attempts
    BY DEF Terminal, IInv, LifeInv, TypeOK, StoreTypeOK, Response, Attempts
  <2>2. task[resp.attempt].returned
    BY <2>1 DEF IInv, LifeInv, CompletedByItsOwner
  <2>. QED
    BY <2>1, <2>2 DEF IInv, FaultInv
<1>. QED
  BY <1>1, ServerInvariant, PTL DEF Spec, OnlyItsAttemptRevises

(* _do_background_stream and _try_claim_and_resume: what the handler of an  *)
(* attempt wrote is one unbroken block after that attempt's announcement,   *)
(* however many superseded handlers, cleanups and sweeps write beside it.   *)
THEOREM HandlersDoNotInterleave == Spec => []HandlersWriteBlocks
<1>1. IInv => HandlersWriteBlocks
  BY DEF IInv, StoryInv, BlocksInv, HandlersWriteBlocks, Items
<1>. QED
  BY <1>1, ServerInvariant, PTL

(* _task_scope and _deferred_mark_failed append the error before they set   *)
(* the status: whoever reads `failed` finds the error in the log.           *)
THEOREM FailuresAreReportedFirst == Spec => []FailureIsExplained
<1>1. IInv => FailureIsExplained
  BY DEF IInv, StoryInv, ReportInv
<1>. QED
  BY <1>1, ServerInvariant, PTL

(* What the row says a response came to is what its log tells               *)
(* (_do_background_stream, _task_scope, _deferred_mark_failed).             *)
THEOREM OutcomesAreTold == Spec => []OutcomeMatchesLog
<1>. QED
  BY HandlersDoNotInterleave, CompletionIsFenced, FailuresAreReportedFirst, PTL DEF OutcomeMatchesLog

(* A response ends once, and no attempt but the last has a say in how       *)
(* (update_response_status, claim_stale_response).                          *)
THEOREM OutcomesAreOwned == Spec => OutcomeIsItsAttempts
<1>. QED
  BY RevisionsAreOwned, EndsOnce DEF OutcomeIsItsAttempts
=============================================================================
