------------------------- MODULE AgentServer_proofs -------------------------
(***************************************************************************)
(* Theorems about what DurableAgentServer puts on top of the runtime, and  *)
(* about what a deployed agent is given to serve with.                     *)
(*                                                                         *)
(* First the event streams: whatever the server does is a step of          *)
(* DurableRuntime or leaves it alone, so everything proved of the runtime  *)
(* holds under the streams, and their own invariant needs two facts only:  *)
(* a log never gets shorter, and a terminal row's log never changes.       *)
(*                                                                         *)
(* Last the bindings of agent.toml: a command or a deploy that nobody has  *)
(* overtaken knows the file as it is, and the env of a version is followed *)
(* from the deploy that writes it to the version that runs.                *)
(***************************************************************************)
EXTENDS EventStream, RequestAuth, Bindings, FiniteSetTheorems, DurableRuntime_proofs

USE RuntimeAssumption, StoreAssumption, StreamAssumption

-----------------------------------------------------------------------------
(* Every step of the server is a step of the runtime under it.              *)
LEMMA StreamStepsRuntime ==
  ASSUME StreamTypeOK, [SNext]_allVars
  PROVE  [Next]_vars
<1>1. CASE Background
  BY <1>1 DEF Background, OtherTaskStep, Next, RunTask
<1>2. ASSUME NEW p \in Pods, NEW i \in Invocations, EmitOn(p, i) \/ Wake(p, i) PROVE [Next]_vars
  BY <1>2 DEF EmitOn, Wake, Next, RunTask
<1>3. ASSUME NEW p \in Pods, CrashOn(p) PROVE [Next]_vars
  BY <1>3 DEF CrashOn, Next
<1>4. ASSUME NEW c \in Clients, Serve(c) \/ Disconnect(c) PROVE [Next]_vars
  <2>1. CASE ReadState(c)
    <3>1. reader[c].pod \in Pods /\ reader[c].inv \in Invocations
      BY DEF StreamTypeOK, Reader
    <3>2. CASE row[reader[c].inv].status = "QUEUED"
      <4>1. GetInvocation(reader[c].pod, reader[c].inv)
        BY <2>1, <3>2 DEF ReadState, GetInvocation
      <4>. QED
        BY <3>1, <4>1 DEF Next, Schedule
    <3>3. CASE row[reader[c].inv].status # "QUEUED"
      BY <2>1, <3>3 DEF ReadState, vars
    <3>. QED
      BY <3>2, <3>3
  <2>2. CASE ~ReadState(c)
    BY <1>4, <2>2 DEF Serve, Clear, ReadEvents, Deliver, Drained, Again, Disconnect
  <2>. QED
    BY <2>1, <2>2
<1>5. ASSUME NEW c \in Clients, NEW p \in Pods, NEW i \in Invocations, Open(c, p, i)
      PROVE  [Next]_vars
  BY <1>5 DEF Open
<1>6. CASE UNCHANGED allVars
  BY <1>6 DEF allVars, vars
<1>. QED
  BY <1>1, <1>2, <1>3, <1>4, <1>5, <1>6 DEF SNext

(* Logs only grow, and not at all once the row is terminal.                 *)
LogsGrow ==
  \A i \in Invocations :
    /\ Len(log[i]) \in Nat /\ Len(log'[i]) \in Nat
    /\ Len(log'[i]) >= Len(log[i])
    /\ row[i].status \in Terminal =>
         row'[i].status \in Terminal /\ Len(log'[i]) = Len(log[i])

(* An append to one log makes no log shorter. *)
LEMMA AppendLonger ==
  ASSUME StoreTypeOK, StoreTypeOK', NEW i \in Invocations, NEW e,
         log' = [log EXCEPT ![i] = Append(@, e)]
  PROVE  \A j \in Invocations : Len(log'[j]) >= Len(log[j])
<1>. SUFFICES ASSUME NEW j \in Invocations PROVE Len(log'[j]) >= Len(log[j])
  OBVIOUS
<1>1. log[j] \in Seq(Event) /\ log'[j] \in Seq(Event)
  BY DEF StoreTypeOK
<1>2. CASE j = i
  <2>1. log'[j] = Append(log[j], e)
    BY <1>2 DEF StoreTypeOK
  <2>. QED
    BY <1>1, <2>1
<1>3. CASE j # i
  <2>1. log'[j] = log[j]
    BY <1>3 DEF StoreTypeOK
  <2>. QED
    BY <1>1, <2>1
<1>. QED
  BY <1>2, <1>3

(* No step of the runtime takes an event back: logs only grow, and that of a terminal row *)
(* stays.                                                                                 *)
LEMMA RuntimeLogsGrow == ASSUME TypeOK, TypeOK', QueueInv, [Next]_vars PROVE LogsGrow
<1>1. StoreTypeOK /\ StoreTypeOK'
  BY DEF TypeOK
<1>2. \A j \in Invocations : Len(log[j]) \in Nat /\ Len(log'[j]) \in Nat
  BY <1>1 DEF StoreTypeOK
<1>3. \A j \in Invocations : row[j].status \in Terminal => log'[j] = log[j]
  BY NextLog
<1>4. \A j \in Invocations : row[j].status \in Terminal => row'[j].status \in Terminal
  <2>1. RowStep
    BY NextRowStep
  <2>2. ASSUME NEW i \in Invocations, Enqueued(i) \/ Started(i) \/ Ended(i),
               NEW j \in Invocations, row[j].status \in Terminal
        PROVE  row'[j] = row[j]
    <3>1. j # i
      BY <2>2 DEF Enqueued, Started, Startable, Ended, Terminal
    <3>. QED
      BY <1>1, <2>2, <3>1 DEF Enqueued, Started, Ended, StoreTypeOK
  <2>3. Kept => \A j \in Invocations : row'[j].status = row[j].status
    BY DEF Kept
  <2>. QED
    BY <2>1, <2>2, <2>3 DEF RowStep
<1>5. \/ log' = log
      \/ \E i \in Invocations : \E e : log' = [log EXCEPT ![i] = Append(@, e)]
  <2>1. ASSUME NEW p \in Pods, Schedule(p) \/ Crash(p) PROVE log' = log
    BY <2>1 DEF Schedule, Submit, Accept, GetInvocation, ScanQueued, ScanStale, Crash
  <2>2. ASSUME NEW p \in Pods, NEW i \in Invocations, RunTask(p, i)
        PROVE  log' = log \/ \E e : log' = [log EXCEPT ![i] = Append(@, e)]
    <3>1. CASE ClaimGranted(p, i) \/ ClaimError(p, i)
      BY <3>1 DEF ClaimGranted, ClaimError, TakeOver, storeVars
    <3>2. CASE \/ HookReturns(p, i) \/ PersistFailure(p, i)
               \/ CompleteError(p, i) \/ PersistFailureError(p, i)
      BY <3>2 DEF HookReturns, PersistFailure, CompleteError, PersistFailureError,
                  Complete, Fail, Finish, storeVars
    <3>3. CASE Emit(p, i)
      BY <3>3 DEF Emit, AppendEvent
    <3>4. CASE \/ Beat(p, i) \/ ClaimDenied(p, i) \/ ClaimAgain(p, i) \/ GiveUp(p, i)
               \/ HookRaises(p, i) \/ HookCancelled(p, i) \/ HandOff(p, i) \/ LookUpError(p, i)
      BY <3>4 DEF Beat, Heartbeat, ClaimDenied, ClaimAgain, GiveUp, HookRaises,
                  HookCancelled, HandOff, LookUp, HandOver, LookUpError
    <3>. QED
      BY <2>2, <3>1, <3>2, <3>3, <3>4 DEF RunTask, ClaimStep, Resume, EndHook
  <2>3. ASSUME NEW i \in Invocations, Lapse(i) \/ Stall(i) PROVE log' = log
    BY <2>3 DEF Lapse, Stall, Expire
  <2>4. UNCHANGED vars => log' = log
    BY DEF vars
  <2>. QED
    BY <2>1, <2>2, <2>3, <2>4 DEF Next
<1>6. \A j \in Invocations : Len(log'[j]) >= Len(log[j])
  <2>1. CASE log' = log
    BY <1>2, <2>1
  <2>2. ASSUME NEW i \in Invocations, NEW e, log' = [log EXCEPT ![i] = Append(@, e)]
        PROVE  \A j \in Invocations : Len(log'[j]) >= Len(log[j])
    BY <1>1, <2>2, AppendLonger
  <2>. QED
    BY <1>5, <2>1, <2>2
<1>. QED
  BY <1>2, <1>3, <1>4, <1>6 DEF LogsGrow

-----------------------------------------------------------------------------
(* What a reader knows at each point of its loop.                           *)
ReaderKnows(c) ==
  LET r == reader[c]
      n == Len(got[c])
      m == Len(log[r.inv])
  IN  /\ \A k \in 1..n : got[c][k] = k
      /\ n <= m
      /\ r.pc # "off" => r.cursor = n
      /\ r.terminal => row[r.inv].status \in Terminal
      /\ r.pc = "drain" => n <= r.upTo /\ r.upTo <= m
      /\ r.pc = "drain" /\ r.terminal => r.upTo = m
      /\ r.pc = "ended" => r.terminal /\ n = m

(* What its `changed` event has yet to tell it: a wake of its process that  *)
(* it cannot know of has already been covered by the batch it read.         *)
WakesCovered(c) ==
  LET r == reader[c] IN
  /\ r.pc = "drain" /\ ~r.changed => woken[r.pod][r.inv] <= r.upTo
  /\ r.pc = "wait" /\ ~r.changed => woken[r.pod][r.inv] <= r.cursor

WakesAreOfEvents ==
  \A p \in Pods, i \in Invocations :
    waking[p][i] <= Len(log[i]) /\ woken[p][i] <= Len(log[i])

StreamInv ==
  /\ WakesAreOfEvents
  /\ \A c \in Clients : ReaderKnows(c) /\ WakesCovered(c)

(* The fields of a reader and of what its client holds, for the arithmetic on cursors. *)
LEMMA ReaderFacts ==
  ASSUME TypeOK, StreamTypeOK, NEW c \in Clients
  PROVE  /\ reader[c].pod \in Pods /\ reader[c].inv \in Invocations
         /\ reader[c].cursor \in Nat /\ reader[c].upTo \in Nat
         /\ reader[c].terminal \in BOOLEAN /\ reader[c].changed \in BOOLEAN
         /\ got[c] \in Seq(Nat) /\ Len(got[c]) \in Nat
         /\ Len(log[reader[c].inv]) \in Nat
         /\ \A p \in Pods, i \in Invocations : woken[p][i] \in Nat /\ waking[p][i] \in Nat
<1>1. /\ reader[c].pod \in Pods /\ reader[c].inv \in Invocations
      /\ reader[c].cursor \in Nat /\ reader[c].upTo \in Nat
      /\ reader[c].terminal \in BOOLEAN /\ reader[c].changed \in BOOLEAN
  BY DEF StreamTypeOK, Reader
<1>2. got[c] \in Seq(Nat) /\ Len(got[c]) \in Nat
  BY DEF StreamTypeOK
<1>3. log[reader[c].inv] \in Seq(Event)
  BY <1>1 DEF TypeOK, StoreTypeOK
<1>4. \A p \in Pods, i \in Invocations : woken[p][i] \in Nat /\ waking[p][i] \in Nat
  BY DEF StreamTypeOK
<1>. QED
  BY <1>1, <1>2, <1>3, <1>4

(* A reader that does nothing, is woken or is cut off still knows all this. *)
LEMMA ReaderStays ==
  ASSUME TypeOK, StreamTypeOK, LogsGrow, NEW c \in Clients, ReaderKnows(c),
         got'[c] = got[c], reader'[c].pc \in {reader[c].pc, "off"},
         reader'[c].inv = reader[c].inv, reader'[c].cursor = reader[c].cursor,
         reader'[c].upTo = reader[c].upTo, reader'[c].terminal = reader[c].terminal
  PROVE  ReaderKnows(c)'
<1>1. /\ Len(log[reader[c].inv]) \in Nat /\ Len(log'[reader[c].inv]) \in Nat
      /\ Len(log'[reader[c].inv]) >= Len(log[reader[c].inv])
      /\ row[reader[c].inv].status \in Terminal =>
           /\ row'[reader[c].inv].status \in Terminal
           /\ Len(log'[reader[c].inv]) = Len(log[reader[c].inv])
  BY ReaderFacts DEF LogsGrow
<1>2. Len(got[c]) \in Nat /\ reader[c].upTo \in Nat
  BY ReaderFacts
<1>. QED
  BY <1>1, <1>2 DEF ReaderKnows

(* Every step of the server, and every step of the runtime under it, keeps the streams' *)
(* invariant.                                                                           *)
LEMMA NextStreamInv ==
  ASSUME TypeOK, TypeOK', StreamTypeOK, StreamTypeOK', LogsGrow, StreamInv, [SNext]_allVars
  PROVE  StreamInv'
<1>a. \A p \in Pods, i \in Invocations :
        /\ waking[p][i] \in Nat /\ woken[p][i] \in Nat
        /\ waking[p][i] <= Len(log[i]) /\ woken[p][i] <= Len(log[i])
        /\ Len(log[i]) \in Nat /\ Len(log'[i]) \in Nat /\ Len(log'[i]) >= Len(log[i])
  BY DEF StreamInv, WakesAreOfEvents, StreamTypeOK, LogsGrow
<1>b. ASSUME UNCHANGED <<waking, woken>> PROVE WakesAreOfEvents'
  BY <1>a, <1>b DEF WakesAreOfEvents
<1>c. ASSUME NEW c \in Clients, UNCHANGED <<reader, got, woken>>
      PROVE  ReaderKnows(c)' /\ WakesCovered(c)'
  <2>1. ReaderKnows(c) /\ WakesCovered(c)
    BY DEF StreamInv
  <2>. QED
    BY <1>c, <2>1, ReaderStays DEF WakesCovered
<1>1. CASE Background \/ UNCHANGED allVars
  BY <1>1, <1>b, <1>c DEF Background, streamVars, allVars, StreamInv
<1>2. ASSUME NEW p \in Pods, NEW i \in Invocations, EmitOn(p, i) PROVE StreamInv'
  <2>1. WakesAreOfEvents'
    <3>1. ASSUME NEW q \in Pods, NEW j \in Invocations
          PROVE  waking'[q][j] <= Len(log'[j])
      <4>1. waking'[q][j] = waking[q][j] \/ waking'[q][j] = Len(log'[j])
        BY <1>2 DEF EmitOn, StreamTypeOK
      <4>2. waking[q][j] <= Len(log[j]) /\ Len(log'[j]) >= Len(log[j]) /\ waking[q][j] \in Nat
            /\ Len(log[j]) \in Nat /\ Len(log'[j]) \in Nat
        BY <1>a
      <4>. QED
        BY <4>1, <4>2
    <3>2. woken' = woken
      BY <1>2 DEF EmitOn
    <3>. QED
      BY <1>a, <3>1, <3>2 DEF WakesAreOfEvents
  <2>. QED
    BY <1>2, <1>c, <2>1 DEF EmitOn, StreamInv
<1>3. ASSUME NEW p \in Pods, NEW i \in Invocations, Wake(p, i) PROVE StreamInv'
  <2>1. WakesAreOfEvents'
    <3>1. ASSUME NEW q \in Pods, NEW j \in Invocations
          PROVE  /\ waking'[q][j] \in {0, waking[q][j]}
                 /\ woken'[q][j] \in {waking[q][j], woken[q][j]}
      BY <1>3 DEF Wake, StreamTypeOK
    <3>2. log' = log
      BY <1>3 DEF Wake, vars
    <3>3. ASSUME NEW q \in Pods, NEW j \in Invocations
          PROVE  waking'[q][j] <= Len(log'[j]) /\ woken'[q][j] <= Len(log'[j])
      <4>1. /\ waking[q][j] \in Nat /\ woken[q][j] \in Nat /\ Len(log[j]) \in Nat
            /\ waking[q][j] <= Len(log[j]) /\ woken[q][j] <= Len(log[j])
        BY <1>a
      <4>. QED
        BY <3>1, <3>2, <4>1
    <3>. QED
      BY <3>3 DEF WakesAreOfEvents
  <2>2. ASSUME NEW c \in Clients PROVE ReaderKnows(c)' /\ WakesCovered(c)'
    <3>0. ReaderKnows(c) /\ WakesCovered(c)
      BY DEF StreamInv
    <3>1. CASE Serving(c) /\ reader[c].pod = p /\ reader[c].inv = i
      <4>1. reader'[c] = [reader[c] EXCEPT !.changed = TRUE] /\ got' = got
        BY <1>3, <3>1 DEF Wake
      <4>2. /\ reader'[c].pc = reader[c].pc /\ reader'[c].inv = reader[c].inv
            /\ reader'[c].cursor = reader[c].cursor /\ reader'[c].upTo = reader[c].upTo
            /\ reader'[c].terminal = reader[c].terminal /\ reader'[c].changed
        BY <4>1 DEF StreamTypeOK, Reader
      <4>. QED
        BY <3>0, <4>1, <4>2, ReaderStays DEF WakesCovered
    <3>2. CASE ~(Serving(c) /\ reader[c].pod = p /\ reader[c].inv = i)
      <4>1. reader'[c] = reader[c] /\ got' = got
        BY <1>3, <3>2 DEF Wake
      <4>2. ReaderKnows(c)'
        BY <3>0, <4>1, ReaderStays
      <4>3. CASE reader[c].pod = p /\ reader[c].inv = i
        BY <3>2, <4>1, <4>2, <4>3 DEF WakesCovered, Serving
      <4>4. CASE ~(reader[c].pod = p /\ reader[c].inv = i)
        <5>1. woken'[reader[c].pod][reader[c].inv] = woken[reader[c].pod][reader[c].inv]
          BY <1>3, <4>4, ReaderFacts DEF Wake, StreamTypeOK
        <5>. QED
          BY <3>0, <4>1, <4>2, <5>1 DEF WakesCovered
      <4>. QED
        BY <4>2, <4>3, <4>4
    <3>. QED
      BY <3>1, <3>2
  <2>. QED
    BY <2>1, <2>2 DEF StreamInv
<1>4. ASSUME NEW p \in Pods, CrashOn(p) PROVE StreamInv'
  <2>1. WakesAreOfEvents'
    <3>1. ASSUME NEW q \in Pods, NEW j \in Invocations
          PROVE  waking'[q][j] \in {0, waking[q][j]} /\ woken'[q][j] = woken[q][j]
      BY <1>4 DEF CrashOn, StreamTypeOK
    <3>. QED
      BY <1>a, <3>1 DEF WakesAreOfEvents
  <2>2. ASSUME NEW c \in Clients PROVE ReaderKnows(c)' /\ WakesCovered(c)'
    <3>0. ReaderKnows(c) /\ WakesCovered(c)
      BY DEF StreamInv
    <3>1. /\ \/ reader'[c] = reader[c]
             \/ reader'[c] = [reader[c] EXCEPT !.pc = "off"]
          /\ got' = got /\ woken' = woken
      BY <1>4 DEF CrashOn
    <3>2. /\ reader'[c].pc \in {reader[c].pc, "off"}
          /\ reader'[c].inv = reader[c].inv /\ reader'[c].pod = reader[c].pod
          /\ reader'[c].cursor = reader[c].cursor /\ reader'[c].upTo = reader[c].upTo
          /\ reader'[c].terminal = reader[c].terminal
          /\ reader'[c].changed = reader[c].changed
      BY <3>1 DEF StreamTypeOK, Reader
    <3>. QED
      BY <3>0, <3>1, <3>2, ReaderStays DEF WakesCovered
  <2>. QED
    BY <2>1, <2>2 DEF StreamInv
<1>5. ASSUME NEW c \in Clients, Serve(c) \/ Disconnect(c)
             \/ \E p \in Pods, i \in Invocations : Open(c, p, i)
      PROVE  StreamInv'
  <2>1. UNCHANGED <<row, log, waking, woken>>
    BY <1>5 DEF Serve, Clear, ReadState, ReadEvents, Deliver, Drained, Again, Disconnect, Open, vars
  <2>2. \A o \in Clients \ {c} : reader'[o] = reader[o] /\ got'[o] = got[o]
    BY <1>5 DEF Serve, Clear, ReadState, ReadEvents, Deliver, Drained, Again, Disconnect, Open,
                Go, StreamTypeOK
  <2>3. \A o \in Clients \ {c} : ReaderKnows(o)' /\ WakesCovered(o)'
    BY <2>1, <2>2, ReaderStays DEF StreamInv, WakesCovered
  <2>4. ReaderKnows(c)' /\ WakesCovered(c)'
    <3>0. ReaderKnows(c) /\ WakesCovered(c) /\ log' = log /\ row' = row /\ woken' = woken
      BY <2>1 DEF StreamInv
    <3>n. /\ reader[c].pod \in Pods /\ reader[c].inv \in Invocations
          /\ reader[c].cursor \in Nat /\ reader[c].upTo \in Nat
          /\ Len(got[c]) \in Nat /\ Len(log[reader[c].inv]) \in Nat
          /\ reader[c] \in Reader /\ reader'[c] \in Reader
          /\ woken[reader[c].pod][reader[c].inv] \in Nat
          /\ woken[reader[c].pod][reader[c].inv] <= Len(log[reader[c].inv])
      BY <1>a, ReaderFacts DEF StreamTypeOK
    <3>1. CASE Clear(c)
      <4>1. reader'[c] = [reader[c] EXCEPT !.pc = "state", !.changed = FALSE] /\ got' = got
            /\ reader[c].pc = "clear"
        BY <3>1 DEF Clear, At, StreamTypeOK
      <4>. QED
        BY <3>0, <3>n, <4>1 DEF ReaderKnows, WakesCovered, Reader
    <3>2. CASE ReadState(c)
      <4>1. /\ got' = got /\ reader[c].pc = "state"
            /\ reader'[c] = [reader[c] EXCEPT !.pc = "events",
                                !.terminal = row[reader[c].inv].status \in Terminal]
        BY <3>2 DEF ReadState, At, StreamTypeOK
      <4>2. /\ reader'[c].pc = "events" /\ reader'[c].inv = reader[c].inv
            /\ reader'[c].cursor = reader[c].cursor
            /\ reader'[c].terminal = (row[reader[c].inv].status \in Terminal)
        BY <3>n, <4>1 DEF Reader
      <4>. QED
        BY <3>0, <3>n, <4>1, <4>2 DEF ReaderKnows, WakesCovered
    <3>3. CASE ReadEvents(c)
      <4>1. /\ got' = got /\ reader[c].pc = "events"
            /\ reader'[c] = [reader[c] EXCEPT !.pc = "drain", !.upTo = Len(log[reader[c].inv])]
        BY <3>3 DEF ReadEvents, At, StreamTypeOK
      <4>. QED
        BY <3>0, <3>n, <4>1 DEF ReaderKnows, WakesCovered, Reader
    <3>4. CASE Deliver(c)
      <4>1. /\ reader'[c] = [reader[c] EXCEPT !.cursor = reader[c].cursor + 1]
            /\ got'[c] = Append(got[c], reader[c].cursor + 1)
            /\ reader[c].pc = "drain" /\ reader[c].cursor < reader[c].upTo
        BY <3>4 DEF Deliver, At, StreamTypeOK
      <4>2. /\ reader'[c].pc = "drain" /\ reader'[c].inv = reader[c].inv
            /\ reader'[c].pod = reader[c].pod /\ reader'[c].changed = reader[c].changed
            /\ reader'[c].upTo = reader[c].upTo /\ reader'[c].terminal = reader[c].terminal
            /\ reader'[c].cursor = reader[c].cursor + 1
        BY <3>n, <4>1 DEF Reader
      <4>3. /\ Len(got'[c]) = Len(got[c]) + 1
            /\ \A k \in 1..Len(got[c]) : got'[c][k] = got[c][k]
            /\ got'[c][Len(got[c]) + 1] = reader[c].cursor + 1
        BY <4>1, ReaderFacts
      <4>4. reader[c].cursor = Len(got[c])
        BY <3>0, <4>1 DEF ReaderKnows
      <4>5. \A k \in 1..(Len(got[c]) + 1) : got'[c][k] = k
        <5>1. \A k \in 1..Len(got[c]) : got[c][k] = k
          BY <3>0 DEF ReaderKnows
        <5>2. Len(got[c]) \in Nat
          BY ReaderFacts
        <5>3. got'[c][Len(got[c]) + 1] = Len(got[c]) + 1
          BY <4>3, <4>4
        <5>4. \A k \in 1..Len(got[c]) : got'[c][k] = k
          BY <4>3, <5>1
        <5>5. \A k \in 1..(Len(got[c]) + 1) : k \in 1..Len(got[c]) \/ k = Len(got[c]) + 1
          BY <5>2
        <5>. QED
          BY <5>3, <5>4, <5>5
      <4>6. WakesCovered(c)'
        BY <3>0, <4>1, <4>2 DEF WakesCovered
      <4>7. reader'[c].inv = reader[c].inv /\ row' = row /\ log' = log
            /\ Len(got'[c]) = Len(got[c]) + 1
        BY <3>0, <4>2, <4>3
      <4>8. /\ reader[c].upTo <= Len(log[reader[c].inv])
            /\ reader[c].terminal => row[reader[c].inv].status \in Terminal
            /\ reader[c].terminal => reader[c].upTo = Len(log[reader[c].inv])
        BY <3>0, <4>1 DEF ReaderKnows
      <4>9. Len(got'[c]) <= reader[c].upTo /\ reader'[c].cursor = Len(got'[c])
        <5>1. reader[c].cursor < reader[c].upTo
          BY <4>1
        <5>. QED
          BY <3>n, <5>1, <4>2, <4>4, <4>7
      <4>10. Len(got'[c]) <= Len(log[reader[c].inv])
        BY <3>n, <4>7, <4>8, <4>9
      <4>11. \A k \in 1..Len(got'[c]) : got'[c][k] = k
        BY <4>5, <4>7
      <4>12. ReaderKnows(c)'
        BY <4>2, <4>7, <4>8, <4>9, <4>10, <4>11 DEF ReaderKnows
      <4>. QED
        BY <4>6, <4>12
    <3>5. CASE Drained(c)
      <4>1. /\ reader'[c] = [reader[c] EXCEPT !.pc = IF reader[c].terminal THEN "ended" ELSE "wait"]
            /\ got' = got /\ reader[c].pc = "drain" /\ reader[c].cursor >= reader[c].upTo
        BY <3>5 DEF Drained, Go, At, StreamTypeOK
      <4>2. /\ reader'[c].pc = (IF reader[c].terminal THEN "ended" ELSE "wait")
            /\ reader'[c].pod = reader[c].pod /\ reader'[c].changed = reader[c].changed
            /\ reader'[c].inv = reader[c].inv /\ reader'[c].cursor = reader[c].cursor
            /\ reader'[c].upTo = reader[c].upTo /\ reader'[c].terminal = reader[c].terminal
        BY <3>n, <4>1 DEF Reader
      <4>. QED
        BY <3>0, <3>n, <4>1, <4>2 DEF ReaderKnows, WakesCovered
    <3>6. CASE Again(c)
      <4>1. reader'[c] = [reader[c] EXCEPT !.pc = "clear"] /\ got' = got /\ reader[c].pc = "wait"
        BY <3>6 DEF Again, Go, At, StreamTypeOK
      <4>. QED
        BY <3>0, <3>n, <4>1 DEF ReaderKnows, WakesCovered, Reader
    <3>7. CASE Disconnect(c)
      <4>1. reader'[c] = [reader[c] EXCEPT !.pc = "off"] /\ got' = got
        BY <3>7 DEF Disconnect, Go, StreamTypeOK
      <4>. QED
        BY <3>0, <3>n, <4>1 DEF ReaderKnows, WakesCovered, Reader
    <3>8. ASSUME NEW p \in Pods, NEW i \in Invocations, Open(c, p, i)
          PROVE  ReaderKnows(c)' /\ WakesCovered(c)'
      <4>1. /\ reader'[c] = [Off EXCEPT !.pc = "clear", !.pod = p, !.inv = i, !.cursor = LastGot(c)]
            /\ got' = got /\ (got[c] # <<>> => i = reader[c].inv)
        BY <3>8 DEF Open, StreamTypeOK
      <4>2. /\ reader'[c].pc = "clear" /\ reader'[c].inv = i /\ reader'[c].cursor = LastGot(c)
            /\ reader'[c].terminal = FALSE
        BY <4>1 DEF Off
      <4>3. LastGot(c) = Len(got[c])
        BY <3>0, ReaderFacts DEF LastGot, ReaderKnows
      <4>4. Len(got[c]) <= Len(log[i])
        <5>1. Len(log[i]) \in Nat
          BY <1>a
        <5>. QED
          BY <3>0, <4>1, <5>1, ReaderFacts DEF ReaderKnows
      <4>. QED
        BY <3>0, <4>1, <4>2, <4>3, <4>4 DEF ReaderKnows, WakesCovered
    <3>. QED
      BY <1>5, <3>1, <3>2, <3>3, <3>4, <3>5, <3>6, <3>7, <3>8 DEF Serve
  <2>. QED
    BY <1>b, <2>1, <2>3, <2>4 DEF StreamInv
<1>. QED
  BY <1>1, <1>2, <1>3, <1>4, <1>5 DEF SNext

-----------------------------------------------------------------------------
(* Every step of the server keeps the types of the readers and their wake-ups. *)
LEMMA NextStreamType ==
  ASSUME TypeOK, TypeOK', StreamTypeOK, StreamInv, [SNext]_allVars
  PROVE  StreamTypeOK'
<1>a. \A c \in Clients : reader[c] \in Reader /\ got[c] \in Seq(Nat)
  BY DEF StreamTypeOK
<1>b. \A i \in Invocations : Len(log[i]) \in Nat /\ Len(log'[i]) \in Nat
  BY DEF TypeOK, StoreTypeOK
<1>1. CASE Background \/ UNCHANGED allVars
  BY <1>1 DEF Background, streamVars, allVars, StreamTypeOK
<1>2. ASSUME NEW p \in Pods, NEW i \in Invocations, EmitOn(p, i) PROVE StreamTypeOK'
  <2>1. waking' \in [Pods -> [Invocations -> Nat]]
    BY <1>2, <1>b DEF EmitOn, StreamTypeOK
  <2>. QED
    BY <1>2, <2>1 DEF EmitOn, StreamTypeOK
<1>3. ASSUME NEW p \in Pods, NEW i \in Invocations, Wake(p, i) PROVE StreamTypeOK'
  <2>1. waking' \in [Pods -> [Invocations -> Nat]] /\ woken' \in [Pods -> [Invocations -> Nat]]
    BY <1>3 DEF Wake, StreamTypeOK
  <2>2. \A c \in Clients : [reader[c] EXCEPT !.changed = TRUE] \in Reader
    BY <1>a DEF Reader
  <2>3. reader' \in [Clients -> Reader]
    BY <1>3, <1>a, <2>2 DEF Wake
  <2>. QED
    BY <1>3, <2>1, <2>3 DEF Wake, StreamTypeOK
<1>4. ASSUME NEW p \in Pods, CrashOn(p) PROVE StreamTypeOK'
  <2>1. waking' \in [Pods -> [Invocations -> Nat]]
    BY <1>4 DEF CrashOn, StreamTypeOK
  <2>2. \A c \in Clients : [reader[c] EXCEPT !.pc = "off"] \in Reader
    BY <1>a DEF Reader
  <2>3. reader' \in [Clients -> Reader]
    BY <1>4, <1>a, <2>2 DEF CrashOn
  <2>. QED
    BY <1>4, <2>1, <2>3 DEF CrashOn, StreamTypeOK
<1>5. ASSUME NEW c \in Clients, NEW r \in Reader, reader' = [reader EXCEPT ![c] = r],
             UNCHANGED <<waking, woken>>, drops' \in 0..MaxDrops, got' \in [Clients -> Seq(Nat)]
      PROVE  StreamTypeOK'
  BY <1>5 DEF StreamTypeOK
<1>p. ASSUME NEW c \in Clients, NEW pc \in {"off", "clear", "wait", "ended"}
      PROVE  [reader[c] EXCEPT !.pc = pc] \in Reader
  BY <1>a DEF Reader
<1>6. ASSUME NEW c \in Clients, Clear(c) PROVE StreamTypeOK'
  <2>1. [reader[c] EXCEPT !.pc = "state", !.changed = FALSE] \in Reader
    BY <1>a DEF Reader
  <2>. QED
    BY <1>6, <1>5, <2>1 DEF Clear, StreamTypeOK
<1>7. ASSUME NEW c \in Clients, ReadState(c) PROVE StreamTypeOK'
  <2>1. \A b \in BOOLEAN : [reader[c] EXCEPT !.pc = "events", !.terminal = b] \in Reader
    BY <1>a DEF Reader
  <2>2. (row[reader[c].inv].status \in Terminal) \in BOOLEAN
    OBVIOUS
  <2>. DEFINE r == [reader[c] EXCEPT !.pc = "events",
                                     !.terminal = row[reader[c].inv].status \in Terminal]
  <2>3. r \in Reader
    BY <2>1, <2>2
  <2>4. reader' = [reader EXCEPT ![c] = r]
    BY <1>7 DEF ReadState
  <2>. HIDE DEF r
  <2>5. UNCHANGED <<got, waking, woken, drops>>
    BY <1>7 DEF ReadState
  <2>. QED
    BY <1>5, <2>3, <2>4, <2>5 DEF StreamTypeOK
<1>8. ASSUME NEW c \in Clients, ReadEvents(c) PROVE StreamTypeOK'
  <2>1. reader[c].inv \in Invocations
    BY <1>a DEF Reader
  <2>2. [reader[c] EXCEPT !.pc = "drain", !.upTo = Len(log[reader[c].inv])] \in Reader
    BY <1>a, <1>b, <2>1 DEF Reader
  <2>. QED
    BY <1>8, <1>5, <2>2 DEF ReadEvents, StreamTypeOK
<1>9. ASSUME NEW c \in Clients, Deliver(c) PROVE StreamTypeOK'
  <2>1. reader[c].cursor + 1 \in Nat
    BY <1>a DEF Reader
  <2>2. [reader[c] EXCEPT !.cursor = reader[c].cursor + 1] \in Reader
    BY <1>a, <2>1 DEF Reader
  <2>3. reader' = [reader EXCEPT ![c] = [reader[c] EXCEPT !.cursor = reader[c].cursor + 1]]
    BY <1>9 DEF Deliver
  <2>4. got' \in [Clients -> Seq(Nat)]
    BY <1>9, <1>a, <2>1 DEF Deliver, StreamTypeOK
  <2>5. UNCHANGED <<waking, woken, drops>>
    BY <1>9 DEF Deliver
  <2>. QED
    BY <1>5, <2>2, <2>3, <2>4, <2>5 DEF StreamTypeOK
<1>10. ASSUME NEW c \in Clients, Drained(c) \/ Again(c) \/ Disconnect(c) PROVE StreamTypeOK'
  <2>1. PICK pc \in {"off", "clear", "wait", "ended"} : Go(c, pc)
    BY <1>10 DEF Drained, Again, Disconnect
  <2>2. /\ UNCHANGED <<waking, woken, got>>
        /\ drops' = drops \/ (drops < MaxDrops /\ drops' = drops + 1)
    BY <1>10 DEF Drained, Again, Disconnect
  <2>3. drops' \in 0..MaxDrops
    BY <2>2 DEF StreamTypeOK
  <2>4. reader' = [reader EXCEPT ![c] = [reader[c] EXCEPT !.pc = pc]]
    BY <2>1 DEF Go
  <2>. QED
    BY <1>5, <1>p, <2>2, <2>3, <2>4 DEF StreamTypeOK
<1>11. ASSUME NEW c \in Clients, NEW p \in Pods, NEW i \in Invocations, Open(c, p, i)
       PROVE  StreamTypeOK'
  <2>1. LastGot(c) \in Nat
    BY <1>a DEF LastGot
  <2>2. Off \in Reader
    BY DEF Off, Reader
  <2>3. [Off EXCEPT !.pc = "clear", !.pod = p, !.inv = i, !.cursor = LastGot(c)] \in Reader
    BY <2>1, <2>2 DEF Reader
  <2>. QED
    BY <1>5, <1>11, <2>3 DEF Open, StreamTypeOK
<1>. QED
  BY <1>1, <1>2, <1>3, <1>4, <1>6, <1>7, <1>8, <1>9, <1>10, <1>11 DEF SNext, Serve

(* Nobody reads anything at first. *)
LEMMA InitStream == SInit => StreamTypeOK /\ StreamInv
<1>. SUFFICES ASSUME SInit PROVE StreamTypeOK /\ StreamInv
  OBVIOUS
<1>1. Off \in Reader /\ Off.pc = "off" /\ Off.terminal = FALSE
  BY DEF Off, Reader
<1>2. StreamTypeOK
  BY <1>1 DEF SInit, StreamTypeOK
<1>3. \A i \in Invocations : Len(log[i]) = 0
  BY DEF SInit, Init, StoreInit
<1>4. WakesAreOfEvents
  BY <1>3 DEF SInit, WakesAreOfEvents
<1>5. ASSUME NEW c \in Clients PROVE ReaderKnows(c) /\ WakesCovered(c)
  <2>1. reader[c] = Off /\ got[c] = <<>> /\ Len(log[reader[c].inv]) = 0
    BY <1>1, <1>3 DEF SInit, Reader
  <2>. QED
    BY <1>1, <2>1 DEF ReaderKnows, WakesCovered
<1>. QED
  BY <1>2, <1>4, <1>5 DEF StreamInv

(* The invariant of the streams, with the runtime's under it: what a reader *)
(* has received is the prefix of the log up to its cursor, and each point   *)
(* of its loop knows how much of the log and of the wakes it has covered.   *)
THEOREM StreamInvariant == SSpec => [](TypeOK /\ QueueInv /\ StreamTypeOK /\ StreamInv)
<1>. DEFINE Inv == TypeOK /\ QueueInv /\ StreamTypeOK /\ StreamInv
<1>1. SInit => Inv
  BY InitType, InitQueue, InitStream DEF SInit
<1>2. Inv /\ [SNext]_allVars => Inv'
  <2>. SUFFICES ASSUME Inv, [SNext]_allVars PROVE Inv'
    OBVIOUS
  <2>1. [Next]_vars
    BY StreamStepsRuntime
  <2>2. TypeOK'
    BY <2>1, NextType DEF QueueInv
  <2>3. QueueInv'
    BY <2>1, <2>2, NextQueue
  <2>4. LogsGrow
    BY <2>1, <2>2, RuntimeLogsGrow
  <2>5. StreamTypeOK'
    BY <2>2, NextStreamType
  <2>6. StreamInv'
    BY <2>2, <2>4, <2>5, NextStreamInv
  <2>. QED
    BY <2>2, <2>3, <2>5, <2>6
<1>. QED
  BY <1>1, <1>2, PTL DEF SSpec

(* Serving streams takes nothing from the runtime: every behaviour of the   *)
(* server is one of DurableRuntime, so what is proved of it holds here.     *)
THEOREM ServerIsARuntime == SSpec => Spec
<1>1. SInit => Init
  BY DEF SInit
<1>2. StreamTypeOK /\ [SNext]_allVars => [Next]_vars
  BY StreamStepsRuntime
<1>. QED
  BY <1>1, <1>2, StreamInvariant, PTL DEF SSpec, Spec

(* A response that ended has carried every event of its invocation once and *)
(* in order, over however many connections, pods and crashes; and no event  *)
(* its own process emitted waits for the poll (_event_stream: the state is  *)
(* read before the events, `changed` is cleared before both).               *)
THEOREM StreamsMissNothing == SSpec => []ReadersMissNothing
<1>1. TypeOK /\ QueueInv /\ StreamTypeOK /\ StreamInv => ReadersMissNothing
  <2>. SUFFICES ASSUME TypeOK, StreamTypeOK, StreamInv PROVE EndedMeansAll /\ NoLostWake
    BY DEF ReadersMissNothing
  <2>1. ASSUME NEW c \in Clients, At(c, "ended")
        PROVE  /\ row[reader[c].inv].status \in Terminal
               /\ got[c] = [k \in 1..Len(log[reader[c].inv]) |-> k]
    <3>1. /\ reader[c].terminal /\ Len(got[c]) = Len(log[reader[c].inv])
          /\ \A k \in 1..Len(got[c]) : got[c][k] = k
          /\ row[reader[c].inv].status \in Terminal
      BY <2>1 DEF StreamInv, ReaderKnows, At
    <3>2. got[c] \in Seq(Nat)
      BY ReaderFacts
    <3>. QED
      BY <3>1, <3>2
  <2>2. NoLostWake
    BY DEF StreamInv, WakesCovered, NoLostWake, At
  <2>. QED
    BY <2>1, <2>2 DEF EndedMeansAll
<1>. QED
  BY <1>1, StreamInvariant, PTL

-----------------------------------------------------------------------------
USE AuthAssumption

(* Credentials.  In a single process a registered credential is the one its *)
(* request brought, and stays open until an attempt has taken it.           *)
OneProcess == \A p, o \in Pods : p = o

BroughtBy(q, p, i) ==
  /\ post[q].pc # "new" /\ post[q].registered
  /\ post[q].pod = p /\ post[q].inv = i

CredentialsTraced ==
  /\ \A q \in Posts : post[q].pc # "new" => post[q].inv \in Invocations
  /\ \A p \in Pods, i \in Invocations :
       /\ reg[p][i] # NoPost => BroughtBy(reg[p][i], p, i) /\ reg[p][i] \in open
       /\ hook[p][i] # NoPost => BroughtBy(hook[p][i], p, i) /\ reg[p][i] # hook[p][i]
  /\ \A q \in open :
       \E p \in Pods, i \in Invocations : BroughtBy(q, p, i) /\ q \in {reg[p][i], hook[p][i]}

(* A task that runs owns its row, and only an attempt past its start has    *)
(* the credential.                                                          *)
TasksOwnRows ==
  \A p \in Pods, i \in Invocations :
    /\ <<p, i>> \in starting => task[p][i].pc = "run" /\ hook[p][i] = NoPost
    /\ hook[p][i] # NoPost => task[p][i].pc = "run"
    /\ task[p][i].pc = "run" => row[i].status = "ACTIVE"
    /\ task[p][i].pc = "failing" => row[i].status \notin {"ABSENT", "QUEUED"}

(* A credential that waits for an attempt: the invocation is not over, and  *)
(* no attempt is past the point where it would have taken it.               *)
WaitingIsWanted ==
  \A p \in Pods, i \in Invocations : reg[p][i] # NoPost =>
    /\ ~InFlight(reg[p][i]) => post[reg[p][i]].queued
    /\ post[reg[p][i]].queued =>
         /\ row[i].status \notin Terminal
         /\ Executing(p, i) => <<p, i>> \in starting

AcceptedByAPost ==
  \A i \in Invocations : row[i].status # "ABSENT" =>
    \E q \in Posts : post[q].inv = i /\ post[q].pc \notin {"new", "accept"}

(* While no client repeats an id and no request is cut short.               *)
PlainRequests ==
  NoRepeats /\ cancels = 0 =>
    /\ \A q \in Posts :
         /\ post[q].pc = "accept" => post[q].registered /\ reg[post[q].pod][post[q].inv] = q
         /\ post[q].pc \in {"answer", "wait"} => post[q].queued
    /\ HookAuthOpen
    /\ faults = 0 =>
         \A p \in Pods, i \in Invocations :
           row[i].status = "QUEUED" \/ (<<p, i>> \in starting /\ task[p][i].attempt = 1)
             => reg[p][i] # NoPost

AuthInv == /\ CredentialsTraced /\ TasksOwnRows /\ WaitingIsWanted
           /\ AcceptedByAPost /\ PlainRequests

(* The steps of the handlers that are not steps of DurableRuntime: accept   *)
(* and the scheduling that follows it are two, with an await between them.  *)
AcceptStep == /\ \E i \in Invocations, s \in Sessions \cup {NoSession}, r \in Requests : Accept(i, s, r)
              /\ UNCHANGED <<task, retry, faults>>
ScheduleStep == /\ \E p \in Pods, i \in Invocations : ScheduleAll(p, {i}, FALSE)
                /\ UNCHANGED <<row, log, retry, faults>>

(* Beside the runtime's own steps, request handling adds two: a POST that accepts, and one that *)
(* schedules.                                                                                   *)
LEMMA AuthStepsRuntime ==
  ASSUME AuthTypeOK, CredentialsTraced, [ANext]_requestVars
  PROVE  [Next]_vars \/ AcceptStep \/ ScheduleStep
<1>1. CASE Unrelated
  <2>1. ASSUME NEW p \in Pods, ScanQueued(p) \/ ScanStale(p) PROVE Next
    BY <2>1 DEF Next, Schedule
  <2>2. ASSUME NEW p \in Pods, NEW i \in Invocations, GetInvocation(p, i) PROVE Next
    BY <2>2 DEF Next, Schedule
  <2>3. ASSUME NEW p \in Pods, NEW i \in Invocations,
               \/ ClaimDenied(p, i) \/ ClaimError(p, i) \/ Resume(p, i) \/ Beat(p, i)
               \/ PersistFailure(p, i) \/ PersistFailureError(p, i)
               \/ HandOff(p, i) \/ LookUpError(p, i)
        PROVE  Next
    <3>1. RunTask(p, i)
      BY <2>3 DEF RunTask, ClaimStep
    <3>. QED
      BY <3>1 DEF Next
  <2>4. ASSUME NEW i \in Invocations, Lapse(i) \/ Stall(i) PROVE Next
    BY <2>4 DEF Next
  <2>. QED
    BY <1>1, <2>1, <2>2, <2>3, <2>4 DEF Unrelated
<1>2. ASSUME NEW q \in Posts, Handler(q) PROVE [Next]_vars \/ AcceptStep \/ ScheduleStep
  <2>1. post[q].pc # "new" => post[q].inv \in Invocations /\ post[q].pod \in Pods
    BY DEF AuthTypeOK, CredentialsTraced, Post
  <2>2. CASE Accepted(q)
    BY <2>1, <2>2 DEF Accepted, AcceptStep
  <2>3. CASE Answer(q)
    <3>1. CASE post[q].queued
      BY <2>1, <2>3, <3>1 DEF Answer, ScheduleStep
    <3>2. CASE ~post[q].queued
      BY <2>3, <3>2 DEF Answer, vars
    <3>. QED
      BY <3>1, <3>2
  <2>4. CASE WaitOver(q) \/ CancelPost(q)
    BY <2>4 DEF WaitOver, CancelPost
  <2>. QED
    BY <1>2, <2>2, <2>3, <2>4 DEF Handler
<1>3. ASSUME NEW q \in Posts, NEW p \in Pods, NEW i \in Invocations, NEW sync \in BOOLEAN,
             Arrive(q, p, i, sync)
      PROVE  [Next]_vars
  BY <1>3 DEF Arrive
<1>4. ASSUME NEW p \in Pods, NEW i \in Invocations,
             \/ ClaimTask(p, i) \/ StartHook(p, i) \/ EmitAuth(p, i)
             \/ LeaveAuth(p, i) \/ CancelStart(p, i)
      PROVE  [Next]_vars
  BY <1>4 DEF ClaimTask, StartHook, EmitAuth, LeaveAuth, CancelStart, Next, RunTask, ClaimStep,
              EndHook
<1>5. ASSUME NEW p \in Pods, CrashAuth(p) PROVE [Next]_vars
  BY <1>5 DEF CrashAuth, Next
<1>6. CASE UNCHANGED requestVars
  BY <1>6 DEF requestVars, vars
<1>. QED
  BY <1>1, <1>2, <1>3, <1>4, <1>5, <1>6 DEF ANext

(* Hence types and the order of service survive POSTs, hooks and their credentials. *)
LEMMA AuthKeepsQueue ==
  ASSUME TypeOK, QueueInv, AuthTypeOK, CredentialsTraced, [ANext]_requestVars
  PROVE  TypeOK' /\ QueueInv'
<1>0. StoreTypeOK /\ PodTypeOK
  BY TypeSplit
<1>1. CASE [Next]_vars
  <2>1. TypeOK'
    BY <1>1, NextType DEF QueueInv
  <2>. QED
    BY <1>1, <2>1, NextQueue
<1>2. CASE AcceptStep
  <2>1. PICK i \in Invocations, s \in Sessions \cup {NoSession}, r \in Requests : Accept(i, s, r)
    BY <1>2 DEF AcceptStep
  <2>2. StoreTypeOK'
    BY <1>0, <2>1, AcceptType DEF QueueInv
  <2>3. TypeOK'
    BY <1>0, <1>2, <2>2 DEF AcceptStep, TypeOK, PodTypeOK
  <2>4. RowStep
    <3>1. CASE row[i].status # "ABSENT"
      BY <1>0, <2>1, <3>1, KeptWhenUnchanged DEF Accept
    <3>2. CASE row[i].status = "ABSENT"
      BY <2>1, <3>2 DEF Accept, RowStep, Enqueued
    <3>. QED
      BY <3>1, <3>2
  <2>. QED
    BY <1>0, <2>2, <2>3, <2>4, EnqueueKeepsQueue, StartKeepsQueue, EndKeepsQueue, KeptKeepsQueue
       DEF RowStep
<1>3. CASE ScheduleStep
  <2>1. task' \in [Pods -> [Invocations -> Task]]
    BY <1>0, <1>3, ScheduleAllType DEF ScheduleStep
  <2>2. TypeOK'
    BY <1>0, <1>3, <2>1 DEF ScheduleStep, TypeOK, PodTypeOK, StoreTypeOK
  <2>3. RowStep
    BY <1>0, <1>3, KeptWhenUnchanged DEF ScheduleStep
  <2>4. StoreTypeOK'
    BY <2>2 DEF TypeOK
  <2>. QED
    BY <1>0, <2>2, <2>3, <2>4, EnqueueKeepsQueue, StartKeepsQueue, EndKeepsQueue, KeptKeepsQueue
       DEF RowStep
<1>. QED
  BY <1>1, <1>2, <1>3, AuthStepsRuntime

(* What the runtime does besides starting and ending hooks.                 *)
Quiet ==
  /\ \A p \in Pods, i \in Invocations :
       /\ task'[p][i].pc = "run" <=> task[p][i].pc = "run"
       /\ task[p][i].pc = "run" => task'[p][i].attempt = task[p][i].attempt
       /\ task'[p][i].pc = "failing" => task[p][i].pc = "failing"
  /\ \A i \in Invocations :
       \/ row'[i].status = row[i].status
       \/ row[i].status \in {"QUEUED", "ACTIVE"} /\ row'[i].status = "ACTIVE"
       \/ /\ row[i].status = "ACTIVE" /\ row'[i].status \in Terminal
          /\ \E p \in Pods : task[p][i].pc = "failing"
  /\ faults' = 0 => faults = 0

(* A step that leaves the rows alone and begins or ends no hook is Quiet. *)
LEMMA SameRowsQuiet ==
  ASSUME row' = row, faults' = faults \/ (faults \in Nat /\ faults' = faults + 1),
         \A p \in Pods, i \in Invocations :
           \/ task'[p][i] = task[p][i]
           \/ /\ task[p][i].pc \notin {"run"} /\ task'[p][i].pc \notin {"run", "failing"}
  PROVE  Quiet
BY DEF Quiet

(* Scheduling tasks begins and ends no hook. *)
LEMMA ScheduleIsQuiet ==
  ASSUME PodTypeOK, NEW p \in Pods, NEW ids, NEW b \in BOOLEAN, ScheduleAll(p, ids, b),
         row' = row, faults' = faults
  PROVE  Quiet
<1>1. \A o \in Pods, j \in Invocations :
        \/ task'[o][j] = task[o][j]
        \/ task[o][j].pc = "none" /\ task'[o][j] = NewTask(b)
  BY DEF PodTypeOK, ScheduleAll, Live
<1>2. NewTask(b).pc = "claim"
  BY DEF NewTask, NoTask
<1>. QED
  BY <1>1, <1>2, SameRowsQuiet

(* The steps of the runtime that no credential takes part in are Quiet. *)
LEMMA UnrelatedIsQuiet == ASSUME TypeOK, Unrelated PROVE Quiet
<1>0. PodTypeOK /\ StoreTypeOK /\ faults \in Nat
  BY TypeSplit DEF PodTypeOK
<1>1. ASSUME NEW p \in Pods,
             ScanQueued(p) \/ ScanStale(p) \/ \E i \in Invocations : GetInvocation(p, i)
      PROVE  Quiet
  BY <1>0, <1>1, ScheduleIsQuiet DEF ScanQueued, ScanStale, GetInvocation
<1>2. ASSUME NEW p \in Pods, NEW i \in Invocations,
             ClaimDenied(p, i) \/ Resume(p, i) \/ HandOff(p, i) \/ LookUpError(p, i)
      PROVE  Quiet
  <2>0. NoTask.pc = "none" /\ NewTask(FALSE).pc = "claim"
    BY DEF NoTask, NewTask
  <2>1. row' = row /\ (faults' = faults \/ faults' = faults + 1)
    BY <1>2 DEF ClaimDenied, Resume, ClaimAgain, GiveUp, HandOff, LookUp, HandOver, LookUpError,
                Fault
  <2>2. ASSUME NEW o \in Pods, NEW j \in Invocations
        PROVE  \/ task'[o][j] = task[o][j]
               \/ task[o][j].pc # "run" /\ task'[o][j].pc \notin {"run", "failing"}
    <3>1. CASE ClaimDenied(p, i) \/ Resume(p, i)
      <4>1. \A k \in Pods, l \in Invocations : task[k][l] \in Task
        BY <1>0, AttemptIsNat
      <4>2. /\ task[p][i].pc \in {"claim", "denied"}
            /\ \/ \E pc \in {"claim", "denied"} : MoveTask(p, i, pc)
               \/ EndTask(p, i)
        BY <3>1 DEF ClaimDenied, Resume, ClaimAgain, GiveUp
      <4>3. o = p /\ j = i => task'[o][j].pc \in {"claim", "denied", "none"}
        BY <1>0, <2>0, <4>1, <4>2 DEF MoveTask, EndTask, PodTypeOK, Task
      <4>4. ~(o = p /\ j = i) => task'[o][j] = task[o][j]
        BY <1>0, <4>2 DEF MoveTask, EndTask, PodTypeOK
      <4>. QED
        BY <4>2, <4>3, <4>4
    <3>2. CASE HandOver(p, i)
      <4>1. \/ task'[o][j] = task[o][j]
            \/ o = p /\ j = i /\ task'[o][j] = NoTask /\ task[p][i].pc = "handover"
            \/ o = p /\ ~Live(p, j) /\ task'[o][j] = NewTask(FALSE)
        BY <1>0, <3>2 DEF HandOver, PodTypeOK
      <4>. QED
        BY <2>0, <4>1 DEF Live
    <3>3. CASE LookUp(p, i) \/ LookUpError(p, i)
      <4>1. CASE EndTask(p, i)
        <5>1. task[p][i].pc = "lookup"
          BY <3>3 DEF LookUp, LookUpError
        <5>2. task'[p][i] = NoTask /\ (~(o = p /\ j = i) => task'[o][j] = task[o][j])
          BY <1>0, <4>1 DEF EndTask, PodTypeOK
        <5>. QED
          BY <2>0, <5>1, <5>2
      <4>2. CASE ~EndTask(p, i)
        <5>1. /\ task[p][i].pc = "lookup"
              /\ task' = [task EXCEPT ![p][i] = [task[p][i] EXCEPT !.pc = "handover",
                                                                   !.next = NextInSession(i)]]
          BY <3>3, <4>2 DEF LookUp, LookUpError
        <5>2. /\ task'[p][i].pc = "handover"
              /\ \A q \in Pods, k \in Invocations : <<q, k>> # <<p, i>> => task'[q][k] = task[q][k]
          BY <1>0, <5>1, FindNext
        <5>3. CASE <<o, j>> = <<p, i>>
          BY <5>1, <5>2, <5>3
        <5>4. CASE <<o, j>> # <<p, i>>
          BY <5>2, <5>4
        <5>. QED
          BY <5>3, <5>4
      <4>. QED
        BY <4>1, <4>2
    <3>. QED
      BY <1>2, <3>1, <3>2, <3>3 DEF HandOff
  <2>. QED
    BY <1>0, <2>1, <2>2, SameRowsQuiet
<1>3. ASSUME NEW p \in Pods, NEW i \in Invocations, Beat(p, i) PROVE Quiet
  <2>0. \A k \in Pods, l \in Invocations : task[k][l] \in Task
    BY <1>0, AttemptIsNat
  <2>1. \A o \in Pods, j \in Invocations :
          task'[o][j].pc = task[o][j].pc /\ task'[o][j].attempt = task[o][j].attempt
    BY <1>0, <1>3, <2>0 DEF Beat, PodTypeOK, Task
  <2>2. \A j \in Invocations : row'[j].status = row[j].status
    BY <1>0, <1>3 DEF Beat, Heartbeat, StoreTypeOK, Row
  <2>. QED
    BY <1>3, <2>1, <2>2 DEF Quiet, Beat
<1>4. ASSUME NEW i \in Invocations, Lapse(i) \/ Stall(i) PROVE Quiet
  <2>1. \A j \in Invocations : row'[j].status = row[j].status
    BY <1>0, <1>4 DEF Lapse, Stall, Expire, StoreTypeOK, Row
  <2>. QED
    BY <1>0, <1>4, <2>1 DEF Quiet, Lapse, Stall, Fault
<1>5. ASSUME NEW p \in Pods, NEW i \in Invocations, ClaimError(p, i) PROVE Quiet
  <2>0. \A k \in Pods, l \in Invocations : task[k][l] \in Task
    BY <1>0, AttemptIsNat
  <2>1. task'[p][i].pc = "denied" /\ task[p][i].pc = "claim"
    BY <1>0, <1>5, <2>0 DEF ClaimError, MoveTask, PodTypeOK, Task
  <2>2. \A o \in Pods, j \in Invocations : task'[o][j] = task[o][j] \/ (o = p /\ j = i)
    BY <1>0, <1>5 DEF ClaimError, MoveTask, PodTypeOK
  <2>3. \A j \in Invocations :
          \/ row'[j] = row[j]
          \/ row[j].status \in {"QUEUED", "ACTIVE"} /\ row'[j].status = "ACTIVE"
    <3>1. CASE UNCHANGED storeVars
      BY <3>1 DEF storeVars
    <3>2. CASE Claimable(i, task[p][i].recovery) /\ TakeOver(i)
      <4>1. row[i].status \in {"QUEUED", "ACTIVE"}
        BY <3>2 DEF Claimable, Startable, StaleActive
      <4>2. row'[i].status = "ACTIVE" /\ \A j \in Invocations \ {i} : row'[j] = row[j]
        BY <1>0, <3>2 DEF TakeOver, StoreTypeOK, Row
      <4>. QED
        BY <4>1, <4>2
    <3>. QED
      BY <1>5, <3>1, <3>2 DEF ClaimError
  <2>4. faults' = 0 => faults = 0
    BY <1>0, <1>5 DEF ClaimError, Fault
  <2>. QED
    BY <2>1, <2>2, <2>3, <2>4 DEF Quiet
<1>6. ASSUME NEW p \in Pods, NEW i \in Invocations, PersistFailure(p, i) \/ PersistFailureError(p, i)
      PROVE  Quiet
  <2>0. \A k \in Pods, l \in Invocations : task[k][l] \in Task
    BY <1>0, AttemptIsNat
  <2>1. task'[p][i].pc = "lookup" /\ task[p][i].pc = "failing"
    <3>1. LeaveHook(p, i) /\ task[p][i].pc = "failing"
      BY <1>6 DEF PersistFailure, PersistFailureError
    <3>2. task'[p][i] = [task[p][i] EXCEPT !.pc = "lookup", !.beating = FALSE]
      BY <1>0, <3>1 DEF LeaveHook, PodTypeOK
    <3>. QED
      BY <2>0, <3>1, <3>2 DEF Task
  <2>2. \A o \in Pods, j \in Invocations : task'[o][j] = task[o][j] \/ (o = p /\ j = i)
    BY <1>0, <1>6 DEF PersistFailure, PersistFailureError, LeaveHook, PodTypeOK
  <2>3. \A j \in Invocations :
          \/ row'[j] = row[j]
          \/ j = i /\ row[j].status = "ACTIVE" /\ row'[j].status \in Terminal
    <3>1. CASE UNCHANGED storeVars
      BY <3>1 DEF storeVars
    <3>2. CASE Fail(i, task[p][i].attempt)
      BY <1>0, <3>2 DEF Fail, Finish, Owns, Terminal, StoreTypeOK, Row
    <3>. QED
      BY <1>6, <3>1, <3>2 DEF PersistFailure, PersistFailureError
  <2>4. faults' = 0 => faults = 0
    BY <1>0, <1>6 DEF PersistFailure, PersistFailureError, Fault
  <2>. QED
    BY <2>1, <2>2, <2>3, <2>4 DEF Quiet
<1>. QED
  BY <1>1, <1>2, <1>3, <1>4, <1>5, <1>6 DEF Unrelated

(* No step of another kind disturbs the credentials.                        *)
LEMMA QuietKeeps ==
  ASSUME OneProcess, Quiet, AuthInv, UNCHANGED authVars
  PROVE  AuthInv'
<1>. USE DEF authVars
<1>1. CredentialsTraced'
  BY DEF AuthInv, CredentialsTraced, BroughtBy
<1>2. \A p \in Pods, i \in Invocations :
        /\ task'[p][i].pc = "run" <=> task[p][i].pc = "run"
        /\ task[p][i].pc = "run" => task'[p][i].attempt = task[p][i].attempt
        /\ task'[p][i].pc = "failing" => task[p][i].pc = "failing"
        /\ \/ row'[i].status = row[i].status
           \/ row[i].status \in {"QUEUED", "ACTIVE"} /\ row'[i].status = "ACTIVE"
           \/ /\ row[i].status = "ACTIVE" /\ row'[i].status \in Terminal
              /\ task[p][i].pc = "failing"
  BY DEF Quiet, OneProcess
<1>3. TasksOwnRows'
  <2>. SUFFICES ASSUME NEW p \in Pods, NEW i \in Invocations
       PROVE  /\ <<p, i>> \in starting => task'[p][i].pc = "run" /\ hook[p][i] = NoPost
              /\ hook[p][i] # NoPost => task'[p][i].pc = "run"
              /\ task'[p][i].pc = "run" => row'[i].status = "ACTIVE"
              /\ task'[p][i].pc = "failing" => row'[i].status \notin {"ABSENT", "QUEUED"}
    BY DEF TasksOwnRows
  <2>. QED
    BY <1>2 DEF AuthInv, TasksOwnRows, Terminal
<1>4. WaitingIsWanted'
  <2>. SUFFICES ASSUME NEW p \in Pods, NEW i \in Invocations, reg[p][i] # NoPost
       PROVE  /\ ~InFlight(reg[p][i]) => post[reg[p][i]].queued
              /\ post[reg[p][i]].queued =>
                   /\ row'[i].status \notin Terminal
                   /\ task'[p][i].pc \in {"run", "failing"} => <<p, i>> \in starting
    BY DEF WaitingIsWanted, InFlight, Executing
  <2>. QED
    BY <1>2 DEF AuthInv, WaitingIsWanted, TasksOwnRows, Terminal, Executing
<1>5. AcceptedByAPost'
  BY <1>2, OneProcess DEF Quiet, AuthInv, AcceptedByAPost, Terminal
<1>6. PlainRequests'
  <2>. SUFFICES ASSUME NoRepeats, cancels = 0
       PROVE  /\ \A q \in Posts :
                   /\ post[q].pc = "accept" => post[q].registered /\ reg[post[q].pod][post[q].inv] = q
                   /\ post[q].pc \in {"answer", "wait"} => post[q].queued
              /\ HookAuthOpen
              /\ faults' = 0 =>
                   \A p \in Pods, i \in Invocations :
                     row'[i].status = "QUEUED" \/ (<<p, i>> \in starting /\ task'[p][i].attempt = 1)
                       => reg[p][i] # NoPost
    BY DEF PlainRequests, NoRepeats, HookAuthOpen
  <2>1. faults' = 0 => faults = 0
    BY DEF Quiet
  <2>. QED
    BY <1>2, <2>1 DEF AuthInv, PlainRequests, TasksOwnRows, Terminal
<1>. QED
  BY <1>1, <1>3, <1>4, <1>5, <1>6 DEF AuthInv

-----------------------------------------------------------------------------
(* The handlers of requests.                                                *)
LEMMA ReleaseDoes ==
  ASSUME AuthTypeOK, CredentialsTraced, NEW q \in Posts, post[q].pc # "new", Release(q, FALSE)
  PROVE  /\ open' = open \ {q}
         /\ \A p \in Pods, i \in Invocations :
              reg'[p][i] = IF reg[p][i] = q THEN NoPost ELSE reg[p][i]
<1>1. post[q].pod \in Pods /\ post[q].inv \in Invocations
  BY DEF AuthTypeOK, Post, CredentialsTraced
<1>2. \A p \in Pods, i \in Invocations :
        reg[p][i] = q => post[q].registered /\ post[q].pod = p /\ post[q].inv = i
  BY DEF CredentialsTraced, BroughtBy
<1>3. CASE post[q].registered
  <2>1. open' = open \ {q}
    BY <1>3 DEF Release
  <2>2. ASSUME NEW p \in Pods, NEW i \in Invocations
        PROVE  reg'[p][i] = IF reg[p][i] = q THEN NoPost ELSE reg[p][i]
    <3>1. CASE reg[post[q].pod][post[q].inv] = q
      <4>1. SetReg(post[q].pod, post[q].inv, NoPost)
        BY <1>3, <3>1 DEF Release
      <4>2. CASE p = post[q].pod /\ i = post[q].inv
        BY <1>1, <3>1, <4>1, <4>2 DEF SetReg, AuthTypeOK
      <4>3. CASE ~(p = post[q].pod /\ i = post[q].inv)
        <5>1. reg'[p][i] = reg[p][i]
          BY <1>1, <4>1, <4>3 DEF SetReg, AuthTypeOK
        <5>. QED
          BY <1>2, <4>3, <5>1
      <4>. QED
        BY <4>2, <4>3
    <3>2. CASE reg[post[q].pod][post[q].inv] # q
      <4>1. reg' = reg
        BY <1>3, <3>2 DEF Release
      <4>2. reg[p][i] # q
        BY <1>2, <3>2
      <4>. QED
        BY <4>1, <4>2
    <3>. QED
      BY <3>1, <3>2
  <2>. QED
    BY <2>1, <2>2
<1>4. CASE ~post[q].registered
  <2>1. open' = open /\ reg' = reg
    BY <1>4 DEF Release
  <2>2. q \notin open
    BY <1>4 DEF CredentialsTraced, BroughtBy
  <2>. QED
    BY <1>2, <1>4, <2>1, <2>2
<1>. QED
  BY <1>3, <1>4

(* A request gives up its credential: it ended, was refused or cancelled.   *)
LEMMA DropKeeps ==
  ASSUME OneProcess, AuthTypeOK, AuthInv, Quiet, row' = row,
         NEW q \in Posts, InFlight(q), post' = [post EXCEPT ![q] = [post[q] EXCEPT !.pc = "done"]],
         Release(q, FALSE), UNCHANGED <<starting, hook>>,
         NoRepeats /\ cancels' = 0 =>
           cancels = 0 /\ post[q].pc = "wait" /\ row[post[q].inv].status \in Terminal
  PROVE  AuthInv'
<1>1. /\ post'[q].pc = "done" /\ post'[q].pod = post[q].pod /\ post'[q].inv = post[q].inv
      /\ post'[q].registered = post[q].registered /\ post'[q].queued = post[q].queued
      /\ \A o \in Posts \ {q} : post'[o] = post[o]
      /\ post[q].pc \notin {"new", "done"}
  BY DEF AuthTypeOK, Post, InFlight
<1>2. /\ open' = open \ {q}
      /\ \A p \in Pods, i \in Invocations :
           reg'[p][i] = IF reg[p][i] = q THEN NoPost ELSE reg[p][i]
  BY <1>1, ReleaseDoes DEF AuthInv
<1>3. \A o \in Posts :
        /\ post'[o].pc = "new" <=> post[o].pc = "new"
        /\ post'[o].pod = post[o].pod /\ post'[o].inv = post[o].inv
        /\ post'[o].registered = post[o].registered /\ post'[o].queued = post[o].queued
        /\ post'[o].pc = post[o].pc \/ (o = q /\ post'[o].pc = "done")
  BY <1>1
<1>4. CredentialsTraced'
  <2>1. \A o \in Posts : post'[o].pc # "new" => post'[o].inv \in Invocations
    BY <1>3 DEF AuthInv, CredentialsTraced
  <2>2. ASSUME NEW p \in Pods, NEW i \in Invocations
        PROVE  /\ reg'[p][i] # NoPost => BroughtBy(reg[p][i], p, i)' /\ reg'[p][i] \in open'
               /\ hook'[p][i] # NoPost => BroughtBy(hook[p][i], p, i)' /\ reg'[p][i] # hook'[p][i]
    <3>1. reg[p][i] \in Posts \cup {NoPost} /\ hook[p][i] \in Posts \cup {NoPost} /\ hook' = hook
      BY DEF AuthTypeOK
    <3>2. /\ reg[p][i] # NoPost => BroughtBy(reg[p][i], p, i) /\ reg[p][i] \in open
          /\ hook[p][i] # NoPost => BroughtBy(hook[p][i], p, i) /\ reg[p][i] # hook[p][i]
      BY DEF AuthInv, CredentialsTraced
    <3>3. \A o \in Posts : BroughtBy(o, p, i) => BroughtBy(o, p, i)'
      BY <1>3 DEF BroughtBy
    <3>. QED
      BY <1>2, <3>1, <3>2, <3>3
  <2>3. ASSUME NEW o \in open'
        PROVE  \E p \in Pods, i \in Invocations :
                 BroughtBy(o, p, i)' /\ o \in {reg'[p][i], hook'[p][i]}
    <3>1. o \in open /\ o # q /\ o \in Posts
      BY <1>2, <2>3 DEF AuthTypeOK
    <3>2. PICK p \in Pods, i \in Invocations : BroughtBy(o, p, i) /\ o \in {reg[p][i], hook[p][i]}
      BY <3>1 DEF AuthInv, CredentialsTraced
    <3>3. BroughtBy(o, p, i)'
      BY <1>3, <3>1, <3>2 DEF BroughtBy
    <3>. QED
      BY <1>2, <3>1, <3>2, <3>3
  <2>. QED
    BY <2>1, <2>2, <2>3 DEF CredentialsTraced
<1>5. TasksOwnRows'
  <2>. SUFFICES ASSUME NEW p \in Pods, NEW i \in Invocations
       PROVE  /\ <<p, i>> \in starting => task'[p][i].pc = "run" /\ hook[p][i] = NoPost
              /\ hook[p][i] # NoPost => task'[p][i].pc = "run"
              /\ task'[p][i].pc = "run" => row[i].status = "ACTIVE"
              /\ task'[p][i].pc = "failing" => row[i].status \notin {"ABSENT", "QUEUED"}
    BY DEF TasksOwnRows
  <2>1. /\ task'[p][i].pc = "run" <=> task[p][i].pc = "run"
        /\ task'[p][i].pc = "failing" => task[p][i].pc = "failing"
    BY DEF Quiet
  <2>. QED
    BY <2>1 DEF AuthInv, TasksOwnRows
<1>6. WaitingIsWanted'
  <2>. SUFFICES ASSUME NEW p \in Pods, NEW i \in Invocations, reg'[p][i] # NoPost
       PROVE  /\ ~InFlight(reg[p][i])' => post'[reg'[p][i]].queued
              /\ post'[reg'[p][i]].queued =>
                   /\ row'[i].status \notin Terminal
                   /\ Executing(p, i)' => <<p, i>> \in starting'
    BY DEF WaitingIsWanted
  <2>1. reg'[p][i] = reg[p][i] /\ reg[p][i] # q /\ reg[p][i] \in Posts
    BY <1>2 DEF AuthTypeOK
  <2>2. post'[reg[p][i]] = post[reg[p][i]]
    BY <1>1, <2>1
  <2>3. Executing(p, i)' => Executing(p, i)
    BY DEF Executing, Quiet
  <2>. QED
    BY <2>1, <2>2, <2>3 DEF AuthInv, WaitingIsWanted, InFlight
<1>7. AcceptedByAPost'
  <2>. SUFFICES ASSUME NEW i \in Invocations, row[i].status # "ABSENT"
       PROVE  \E o \in Posts : post'[o].inv = i /\ post'[o].pc \notin {"new", "accept"}
    BY DEF AcceptedByAPost
  <2>. QED
    BY <1>3 DEF AuthInv, AcceptedByAPost
<1>8. PlainRequests'
  <2>. SUFFICES ASSUME NoRepeats', cancels' = 0 
       PROVE  /\ \A o \in Posts :
                   /\ post'[o].pc = "accept" => post'[o].registered /\ reg'[post'[o].pod][post'[o].inv] = o
                   /\ post'[o].pc \in {"answer", "wait"} => post'[o].queued
              /\ HookAuthOpen'
              /\ faults' = 0 =>
                   \A p \in Pods, i \in Invocations :
                     row'[i].status = "QUEUED" \/ (<<p, i>> \in starting' /\ task'[p][i].attempt = 1)
                       => reg'[p][i] # NoPost
    BY DEF PlainRequests
  <2>0. NoRepeats
    BY <1>3 DEF NoRepeats
  <2>1. cancels = 0 /\ row[post[q].inv].status \in Terminal
    BY <2>0
  <2>2. \A o \in Posts \ {q} : post[o].pc # "new" => post[o].inv # post[q].inv
    BY <1>1, <2>0 DEF NoRepeats
  <2>3. ASSUME NEW o \in Posts
        PROVE  /\ post'[o].pc = "accept" => post'[o].registered /\ reg'[post'[o].pod][post'[o].inv] = o
               /\ post'[o].pc \in {"answer", "wait"} => post'[o].queued
    <3>1. CASE o = q
      BY <1>1, <3>1
    <3>2. CASE o # q
      <4>1. post'[o] = post[o]
        BY <1>1, <3>2
      <4>2. post[o].pod \in Pods /\ (post[o].pc # "new" => post[o].inv \in Invocations)
        BY DEF AuthTypeOK, Post, AuthInv, CredentialsTraced
      <4>. QED
        BY <1>2, <2>0, <2>1, <3>2, <4>1, <4>2 DEF AuthInv, PlainRequests
    <3>. QED
      BY <3>1, <3>2
  <2>4. HookAuthOpen'
    <3>. SUFFICES ASSUME NEW p \in Pods, NEW i \in Invocations, hook[p][i] # NoPost
         PROVE  hook[p][i] \in open'
      BY DEF HookAuthOpen
    <3>1. hook[p][i] \in open
      BY <2>0, <2>1 DEF AuthInv, PlainRequests, HookAuthOpen
    <3>2. hook[p][i] # q
      <4>1. row[i].status = "ACTIVE"
        BY DEF AuthInv, TasksOwnRows
      <4>2. i # post[q].inv
        BY <2>1, <4>1 DEF Terminal
      <4>. QED
        BY <4>2 DEF AuthInv, CredentialsTraced, BroughtBy
    <3>. QED
      BY <1>2, <3>1, <3>2
  <2>5. ASSUME faults' = 0, NEW p \in Pods, NEW i \in Invocations,
               row'[i].status = "QUEUED" \/ (<<p, i>> \in starting' /\ task'[p][i].attempt = 1)
        PROVE  reg'[p][i] # NoPost
    <3>1. row[i].status \in {"QUEUED", "ACTIVE"}
      BY <2>5 DEF AuthInv, TasksOwnRows
    <3>2. i # post[q].inv
      BY <2>1, <3>1 DEF Terminal
    <3>3. reg[p][i] # q
      BY <3>2, NoPost \notin Posts DEF AuthInv, CredentialsTraced, BroughtBy
    <3>4. <<p, i>> \in starting => task'[p][i].attempt = task[p][i].attempt
      BY DEF AuthInv, TasksOwnRows, Quiet
    <3>5. faults = 0
      BY <2>5 DEF Quiet
    <3>. QED
      BY <1>2, <2>0, <2>1, <2>5, <3>3, <3>4, <3>5 DEF AuthInv, PlainRequests
  <2>. QED
    BY <2>3, <2>4, <2>5
<1>. QED
  BY <1>4, <1>5, <1>6, <1>7, <1>8 DEF AuthInv

(* A handler that goes on, and keeps what it registered.                    *)
LEMMA PostMoves ==
  ASSUME AuthTypeOK, NEW q \in Posts, InFlight(q), NEW pc \in {"answer", "wait", "done"},
         NEW b \in BOOLEAN,
         post' = [post EXCEPT ![q] = [post[q] EXCEPT !.pc = pc, !.queued = b]]
  PROVE  /\ post'[q].pc = pc /\ post'[q].queued = b
         /\ \A o \in Posts \ {q} : post'[o] = post[o]
         /\ \A o \in Posts :
              /\ post'[o].pc = "new" <=> post[o].pc = "new"
              /\ post'[o].pod = post[o].pod /\ post'[o].inv = post[o].inv
              /\ post'[o].registered = post[o].registered
         /\ NoRepeats' <=> NoRepeats
<1>1. /\ post'[q].pc = pc /\ post'[q].queued = b
      /\ \A o \in Posts \ {q} : post'[o] = post[o]
      /\ post'[q].pod = post[q].pod /\ post'[q].inv = post[q].inv
      /\ post'[q].registered = post[q].registered
  BY DEF AuthTypeOK, Post
<1>2. \A o \in Posts :
        /\ post'[o].pc = "new" <=> post[o].pc = "new"
        /\ post'[o].pod = post[o].pod /\ post'[o].inv = post[o].inv
        /\ post'[o].registered = post[o].registered
  BY <1>1 DEF InFlight
<1>. QED
  BY <1>1, <1>2 DEF NoRepeats

(* Where each credential is stays right when no credential moves and no POST appears or *)
(* registers.                                                                           *)
LEMMA TracedStays ==
  ASSUME CredentialsTraced, UNCHANGED <<open, reg, hook>>, AuthTypeOK,
         \A o \in Posts :
           /\ post'[o].pc = "new" <=> post[o].pc = "new"
           /\ post'[o].pod = post[o].pod /\ post'[o].inv = post[o].inv
           /\ post'[o].registered = post[o].registered
  PROVE  CredentialsTraced'
<1>1. \A o \in Posts, p \in Pods, i \in Invocations : BroughtBy(o, p, i)' <=> BroughtBy(o, p, i)
  BY DEF BroughtBy
<1>2. \A p \in Pods, i \in Invocations :
        reg[p][i] \in Posts \cup {NoPost} /\ hook[p][i] \in Posts \cup {NoPost}
  BY DEF AuthTypeOK
<1>3. open \subseteq Posts
  BY DEF AuthTypeOK
<1>. QED
  BY <1>1, <1>2, <1>3 DEF CredentialsTraced

(* Quiet steps keep what tasks own, whatever becomes of the requests.       *)
LEMMA OwnersStay ==
  ASSUME OneProcess, Quiet, TasksOwnRows, UNCHANGED <<starting, hook>>
  PROVE  TasksOwnRows'
<1>. SUFFICES ASSUME NEW p \in Pods, NEW i \in Invocations
     PROVE  /\ <<p, i>> \in starting => task'[p][i].pc = "run" /\ hook[p][i] = NoPost
            /\ hook[p][i] # NoPost => task'[p][i].pc = "run"
            /\ task'[p][i].pc = "run" => row'[i].status = "ACTIVE"
            /\ task'[p][i].pc = "failing" => row'[i].status \notin {"ABSENT", "QUEUED"}
  BY DEF TasksOwnRows
<1>1. /\ task'[p][i].pc = "run" <=> task[p][i].pc = "run"
      /\ task'[p][i].pc = "failing" => task[p][i].pc = "failing"
      /\ \/ row'[i].status = row[i].status
         \/ row[i].status \in {"QUEUED", "ACTIVE"} /\ row'[i].status = "ACTIVE"
         \/ /\ row[i].status = "ACTIVE" /\ row'[i].status \in Terminal
            /\ task[p][i].pc = "failing"
  BY DEF Quiet, OneProcess
<1>. QED
  BY <1>1 DEF TasksOwnRows, Terminal

(* A POST that answers, or goes on to wait, keeps the invariant: its credential is by then *)
(* someone else's to close.                                                                *)
LEMMA AnswerKeeps ==
  ASSUME OneProcess, TypeOK, AuthTypeOK, AuthInv, Quiet, row' = row,
         UNCHANGED <<open, reg, starting, hook, cancels>>, NEW q \in Posts,
         post[q].pc = "answer", NEW pc \in {"wait", "done"}, pc = "done" => post[q].queued,
         post' = [post EXCEPT ![q] = [post[q] EXCEPT !.pc = pc, !.queued = post[q].queued]]
  PROVE  AuthInv'
<1>0. InFlight(q) /\ post[q].queued \in BOOLEAN
  BY DEF InFlight, AuthTypeOK, Post
<1>1. /\ post'[q].pc = pc /\ post'[q].queued = post[q].queued
      /\ \A o \in Posts \ {q} : post'[o] = post[o]
      /\ NoRepeats' <=> NoRepeats
  BY <1>0, PostMoves
<1>2. \A o \in Posts :
        /\ post'[o].pc = "new" <=> post[o].pc = "new"
        /\ post'[o].pod = post[o].pod /\ post'[o].inv = post[o].inv
        /\ post'[o].registered = post[o].registered
  BY <1>0, PostMoves
<1>3. CredentialsTraced' /\ TasksOwnRows'
  BY <1>2, TracedStays, OwnersStay DEF AuthInv
<1>4. WaitingIsWanted'
  <2>. SUFFICES ASSUME NEW p \in Pods, NEW i \in Invocations, reg[p][i] # NoPost
       PROVE  /\ ~InFlight(reg[p][i])' => post'[reg[p][i]].queued
              /\ post'[reg[p][i]].queued =>
                   /\ row[i].status \notin Terminal
                   /\ Executing(p, i)' => <<p, i>> \in starting
    BY DEF WaitingIsWanted
  <2>1. reg[p][i] \in Posts
    BY DEF AuthTypeOK
  <2>2. Executing(p, i)' => Executing(p, i)
    BY DEF Executing, Quiet
  <2>3. post'[reg[p][i]].queued = post[reg[p][i]].queued
    BY <1>1, <2>1
  <2>4. ~InFlight(reg[p][i])' => post[reg[p][i]].queued
    BY <1>0, <1>1, <2>1 DEF AuthInv, WaitingIsWanted, InFlight
  <2>. QED
    BY <2>2, <2>3, <2>4 DEF AuthInv, WaitingIsWanted
<1>5. AcceptedByAPost'
  <2>. SUFFICES ASSUME NEW i \in Invocations, row[i].status # "ABSENT"
       PROVE  \E o \in Posts : post'[o].inv = i /\ post'[o].pc \notin {"new", "accept"}
    BY DEF AcceptedByAPost
  <2>. QED
    BY <1>1, <1>2 DEF AuthInv, AcceptedByAPost
<1>6. PlainRequests'
  <2>. SUFFICES ASSUME NoRepeats, cancels = 0
       PROVE  /\ \A o \in Posts :
                   /\ post'[o].pc = "accept" => post'[o].registered /\ reg[post'[o].pod][post'[o].inv] = o
                   /\ post'[o].pc \in {"answer", "wait"} => post'[o].queued
              /\ HookAuthOpen'
              /\ faults' = 0 =>
                   \A p \in Pods, i \in Invocations :
                     row[i].status = "QUEUED" \/ (<<p, i>> \in starting /\ task'[p][i].attempt = 1)
                       => reg[p][i] # NoPost
    BY <1>1 DEF PlainRequests
  <2>1. ASSUME NEW o \in Posts
        PROVE  /\ post'[o].pc = "accept" => post'[o].registered /\ reg[post'[o].pod][post'[o].inv] = o
               /\ post'[o].pc \in {"answer", "wait"} => post'[o].queued
    BY <1>1 DEF AuthInv, PlainRequests
  <2>2. HookAuthOpen'
    BY DEF AuthInv, PlainRequests, HookAuthOpen
  <2>3. \A p \in Pods, i \in Invocations :
          <<p, i>> \in starting => task'[p][i].attempt = task[p][i].attempt
    BY DEF Quiet, AuthInv, TasksOwnRows
  <2>4. faults' = 0 => faults = 0
    BY DEF Quiet
  <2>. QED
    BY <2>1, <2>2, <2>3, <2>4 DEF AuthInv, PlainRequests
<1>. QED
  BY <1>3, <1>4, <1>5, <1>6 DEF AuthInv

(* accept returned: the state it gave is queued, or somebody posted before. *)
LEMMA AcceptedKeeps ==
  ASSUME OneProcess, TypeOK, AuthTypeOK, AuthInv, NEW q \in Posts, post[q].pc = "accept",
         NEW s \in Sessions \cup {NoSession}, NEW r \in Requests, Accept(post[q].inv, s, r),
         UNCHANGED <<task, faults, open, reg, starting, hook, cancels>>,
         post' = [post EXCEPT ![q] = [post[q] EXCEPT !.pc = "answer",
                                        !.queued = row'[post[q].inv].status = "QUEUED"]]
  PROVE  AuthInv'
<1>. DEFINE i == post[q].inv
            b == row'[i].status = "QUEUED"
<1>0. InFlight(q) /\ b \in BOOLEAN /\ i \in Invocations /\ post[q].pod \in Pods
  BY DEF InFlight, AuthInv, CredentialsTraced, AuthTypeOK, Post
<1>1. /\ post'[q].pc = "answer" /\ post'[q].queued = b
      /\ \A o \in Posts \ {q} : post'[o] = post[o]
      /\ NoRepeats' <=> NoRepeats
  <2>1. "answer" \in {"answer", "wait", "done"}
    OBVIOUS
  <2>2. post' = [post EXCEPT ![q] = [post[q] EXCEPT !.pc = "answer", !.queued = b]]
    OBVIOUS
  <2>. HIDE DEF b
  <2>. QED
    BY <1>0, <2>1, <2>2, PostMoves
<1>2. \A o \in Posts :
        /\ post'[o].pc = "new" <=> post[o].pc = "new"
        /\ post'[o].pod = post[o].pod /\ post'[o].inv = post[o].inv
        /\ post'[o].registered = post[o].registered
  BY <1>0, PostMoves
<1>3. /\ \A j \in Invocations \ {i} : row'[j] = row[j]
      /\ \/ row'[i] = row[i]
         \/ row[i].status = "ABSENT" /\ row'[i].status = "QUEUED"
  BY <1>0 DEF Accept, TypeOK, StoreTypeOK
<1>4. CredentialsTraced'
  BY <1>2, TracedStays DEF AuthInv
<1>5. TasksOwnRows'
  <2>. SUFFICES ASSUME NEW p \in Pods, NEW j \in Invocations
       PROVE  /\ <<p, j>> \in starting => task[p][j].pc = "run" /\ hook[p][j] = NoPost
              /\ hook[p][j] # NoPost => task[p][j].pc = "run"
              /\ task[p][j].pc = "run" => row'[j].status = "ACTIVE"
              /\ task[p][j].pc = "failing" => row'[j].status \notin {"ABSENT", "QUEUED"}
    BY DEF TasksOwnRows
  <2>. QED
    BY <1>3 DEF AuthInv, TasksOwnRows
<1>6. WaitingIsWanted'
  <2>. SUFFICES ASSUME NEW p \in Pods, NEW j \in Invocations, reg[p][j] # NoPost
       PROVE  /\ ~InFlight(reg[p][j])' => post'[reg[p][j]].queued
              /\ post'[reg[p][j]].queued =>
                   /\ row'[j].status \notin Terminal
                   /\ Executing(p, j) => <<p, j>> \in starting
    BY DEF WaitingIsWanted, Executing
  <2>1. reg[p][j] \in Posts
    BY DEF AuthTypeOK
  <2>2. CASE reg[p][j] = q
    <3>1. j = i
      BY <2>2 DEF AuthInv, CredentialsTraced, BroughtBy
    <3>2. b => row'[j].status \notin Terminal
      BY <3>1 DEF Terminal
    <3>3. b => ~Executing(p, j)
      BY <1>3, <3>1 DEF AuthInv, TasksOwnRows, Executing
    <3>. QED
      BY <1>1, <2>2, <3>2, <3>3 DEF InFlight
  <2>3. CASE reg[p][j] # q
    <3>1. post'[reg[p][j]] = post[reg[p][j]]
      BY <1>1, <2>1, <2>3
    <3>2. row'[j] = row[j] \/ row'[j].status \notin Terminal
      BY <1>3 DEF Terminal
    <3>. QED
      BY <3>1, <3>2 DEF AuthInv, WaitingIsWanted, InFlight
  <2>. QED
    BY <2>2, <2>3
<1>7. AcceptedByAPost'
  <2>. SUFFICES ASSUME NEW j \in Invocations, row'[j].status # "ABSENT"
       PROVE  \E o \in Posts : post'[o].inv = j /\ post'[o].pc \notin {"new", "accept"}
    BY DEF AcceptedByAPost
  <2>1. CASE j = i
    BY <1>1, <1>2, <2>1
  <2>2. CASE j # i
    <3>1. PICK o \in Posts : post[o].inv = j /\ post[o].pc \notin {"new", "accept"}
      BY <1>3, <2>2 DEF AuthInv, AcceptedByAPost
    <3>. QED
      BY <1>1, <1>2, <3>1
  <2>. QED
    BY <2>1, <2>2
<1>8. PlainRequests'
  <2>. SUFFICES ASSUME NoRepeats, cancels = 0
       PROVE  /\ \A o \in Posts :
                   /\ post'[o].pc = "accept" => post'[o].registered /\ reg[post'[o].pod][post'[o].inv] = o
                   /\ post'[o].pc \in {"answer", "wait"} => post'[o].queued
              /\ HookAuthOpen'
              /\ faults = 0 =>
                   \A p \in Pods, j \in Invocations :
                     row'[j].status = "QUEUED" \/ (<<p, j>> \in starting /\ task[p][j].attempt = 1)
                       => reg[p][j] # NoPost
    BY <1>1 DEF PlainRequests
  <2>1. row[i].status = "ABSENT" /\ b
    <3>1. row[i].status = "ABSENT"
      BY <1>0 DEF AuthInv, AcceptedByAPost, NoRepeats
    <3>. QED
      BY <1>0, <3>1 DEF Accept, TypeOK, StoreTypeOK
  <2>2. reg[post[q].pod][i] = q
    BY DEF AuthInv, PlainRequests
  <2>3. ASSUME NEW o \in Posts
        PROVE  /\ post'[o].pc = "accept" => post'[o].registered /\ reg[post'[o].pod][post'[o].inv] = o
               /\ post'[o].pc \in {"answer", "wait"} => post'[o].queued
    <3>1. CASE o = q
      BY <1>1, <2>1, <3>1
    <3>2. CASE o # q
      BY <1>1, <3>2 DEF AuthInv, PlainRequests
    <3>. QED
      BY <3>1, <3>2
  <2>4. HookAuthOpen'
    BY DEF AuthInv, PlainRequests, HookAuthOpen
  <2>5. ASSUME faults = 0, NEW p \in Pods, NEW j \in Invocations,
               row'[j].status = "QUEUED" \/ (<<p, j>> \in starting /\ task[p][j].attempt = 1)
        PROVE  reg[p][j] # NoPost
    <3>1. CASE j = i
      BY <1>0, <2>2, <3>1 DEF OneProcess
    <3>2. CASE j # i
      BY <1>3, <2>5, <3>2 DEF AuthInv, PlainRequests
    <3>. QED
      BY <3>1, <3>2
  <2>. QED
    BY <2>3, <2>4, <2>5
<1>. QED
  BY <1>4, <1>5, <1>6, <1>7, <1>8 DEF AuthInv

(* Every step of a POST's handler keeps the invariant. *)
LEMMA HandlerKeeps ==
  ASSUME OneProcess, TypeOK, AuthTypeOK, AuthTypeOK', AuthInv, NEW q \in Posts, Handler(q)
  PROVE  AuthInv'
<1>0. /\ PodTypeOK /\ StoreTypeOK /\ cancels \in Nat /\ cancels' \in Nat
      /\ post[q] \in Post
      /\ post[q].pc # "new" => post[q].inv \in Invocations /\ post[q].pod \in Pods
  BY TypeSplit DEF AuthTypeOK, AuthInv, CredentialsTraced, Post
<1>q. ASSUME row' = row, task' = task, faults' = faults PROVE Quiet
  BY <1>0, <1>q, SameRowsQuiet DEF PodTypeOK
<1>1. CASE Accepted(q)
  <2>0. post[q].pc = "accept" /\ InFlight(q) /\ CredentialsTraced
    BY <1>1 DEF Accepted, InFlight, AuthInv
  <2>1. PICK s \in Sessions \cup {NoSession}, r \in Requests :
          /\ Accept(post[q].inv, s, r)
          /\ IF Conflicts(post[q].inv, s, r)
             THEN /\ post' = [post EXCEPT ![q].pc = "done"]
                  /\ Release(q, FALSE)
             ELSE /\ post' = [post EXCEPT ![q] = [post[q] EXCEPT !.pc = "answer",
                                 !.queued = row'[post[q].inv].status = "QUEUED"]]
                  /\ UNCHANGED <<open, reg>>
    BY <1>1 DEF Accepted
  <2>2. UNCHANGED <<task, retry, faults, starting, hook, cancels>>
    BY <1>1 DEF Accepted
  <2>3. CASE Conflicts(post[q].inv, s, r)
    <3>1. row' = row /\ row[post[q].inv].status # "ABSENT"
      BY <2>1, <2>3 DEF Conflicts, Accept
    <3>2. ~NoRepeats
      <4>1. PICK o \in Posts : post[o].inv = post[q].inv /\ post[o].pc \notin {"new", "accept"}
        BY <1>0, <2>0, <3>1 DEF AuthInv, AcceptedByAPost
      <4>. QED
        BY <2>0, <4>1 DEF NoRepeats
    <3>3. post' = [post EXCEPT ![q] = [post[q] EXCEPT !.pc = "done"]] /\ Release(q, FALSE)
      BY <2>1, <2>3
    <3>. QED
      BY <1>q, <2>0, <2>2, <3>1, <3>2, <3>3, DropKeeps
  <2>4. CASE ~Conflicts(post[q].inv, s, r)
    BY <2>0, <2>1, <2>2, <2>4, AcceptedKeeps
  <2>. QED
    BY <2>3, <2>4
<1>2. CASE Answer(q)
  <2>0. post[q].pc = "answer" /\ InFlight(q) /\ post[q].queued \in BOOLEAN
    BY <1>0, <1>2 DEF Answer, InFlight, Post
  <2>1. UNCHANGED <<row, faults, starting, hook, cancels>>
    BY <1>2 DEF Answer
  <2>2. Quiet
    <3>1. CASE post[q].queued
      BY <1>0, <1>2, <2>0, <3>1, ScheduleIsQuiet DEF Answer
    <3>2. CASE ~post[q].queued
      BY <1>q, <1>2, <3>2 DEF Answer
    <3>. QED
      BY <3>1, <3>2
  <2>3. \A pc : post' = [post EXCEPT ![q].pc = pc]
          => post' = [post EXCEPT ![q] = [post[q] EXCEPT !.pc = pc, !.queued = post[q].queued]]
    BY <1>0 DEF AuthTypeOK, Post
  <2>4. CASE post[q].sync
    <3>1. post' = [post EXCEPT ![q].pc = "wait"] /\ UNCHANGED <<open, reg>>
      BY <1>2, <2>4 DEF Answer
    <3>. QED
      BY <2>0, <2>1, <2>2, <2>3, <3>1, AnswerKeeps
  <2>5. CASE ~post[q].sync /\ post[q].queued
    <3>1. post' = [post EXCEPT ![q].pc = "done"] /\ UNCHANGED <<open, reg>>
      BY <1>2, <2>5 DEF Answer, Release, KeepsAuth
    <3>. QED
      BY <2>0, <2>1, <2>2, <2>3, <2>5, <3>1, AnswerKeeps
  <2>6. CASE ~post[q].sync /\ ~post[q].queued
    <3>1. /\ post' = [post EXCEPT ![q] = [post[q] EXCEPT !.pc = "done"]]
          /\ Release(q, FALSE)
      BY <1>2, <2>6 DEF Answer, Release, KeepsAuth
    <3>2. ~(NoRepeats /\ cancels = 0)
      BY <2>0, <2>6 DEF AuthInv, PlainRequests
    <3>. QED
      BY <2>0, <2>1, <2>2, <3>1, <3>2, DropKeeps
  <2>. QED
    BY <2>4, <2>5, <2>6
<1>3. CASE WaitOver(q)
  <2>1. /\ post[q].pc = "wait" /\ row[post[q].inv].status \in Terminal /\ InFlight(q)
        /\ post' = [post EXCEPT ![q] = [post[q] EXCEPT !.pc = "done"]]
        /\ Release(q, FALSE) /\ UNCHANGED <<row, task, faults, starting, hook, cancels>>
    BY <1>3 DEF WaitOver, InFlight, vars
  <2>. QED
    BY <1>q, <2>1, DropKeeps
<1>4. CASE CancelPost(q)
  <2>1. /\ InFlight(q) /\ cancels' = cancels + 1
        /\ post' = [post EXCEPT ![q] = [post[q] EXCEPT !.pc = "done"]]
        /\ Release(q, FALSE) /\ UNCHANGED <<row, task, faults, starting, hook>>
    BY <1>4 DEF CancelPost, vars
  <2>2. cancels' # 0
    BY <1>0, <2>1
  <2>. QED
    BY <1>q, <2>1, <2>2, DropKeeps
<1>. QED
  BY <1>1, <1>2, <1>3, <1>4 DEF Handler

(* The same facts about the credentials, credential by credential.          *)
Traced ==
  /\ \A o \in Posts : post[o].pc # "new" => post[o].inv \in Invocations
  /\ \A o \in Posts, k \in Pods, j \in Invocations :
       /\ reg[k][j] = o => BroughtBy(o, k, j) /\ o \in open
       /\ hook[k][j] = o => BroughtBy(o, k, j) /\ reg[k][j] # o
  /\ \A o \in open : \E k \in Pods, j \in Invocations :
       BroughtBy(o, k, j) /\ (reg[k][j] = o \/ hook[k][j] = o)

(* CredentialsTraced can be shown one POST at a time. *)
LEMMA TracedPerPost == ASSUME AuthTypeOK PROVE CredentialsTraced <=> Traced
<1>1. \A k \in Pods, j \in Invocations :
        reg[k][j] \in Posts \cup {NoPost} /\ hook[k][j] \in Posts \cup {NoPost}
  BY DEF AuthTypeOK
<1>. QED
  BY <1>1 DEF CredentialsTraced, Traced

(* The same for the state after a step. *)
LEMMA TracedPerPostNext == ASSUME AuthTypeOK', Traced' PROVE CredentialsTraced'
<1>1. \A k \in Pods, j \in Invocations :
        reg'[k][j] \in Posts \cup {NoPost} /\ hook'[k][j] \in Posts \cup {NoPost}
  BY DEF AuthTypeOK
<1>. QED
  BY <1>1 DEF CredentialsTraced, Traced

(* A POST that arrives, with a new id or one posted before, keeps the invariant. *)
LEMMA ArriveKeeps ==
  ASSUME OneProcess, TypeOK, AuthTypeOK, AuthTypeOK', AuthInv, NEW q \in Posts, NEW p \in Pods,
         NEW i \in Invocations, NEW sync \in BOOLEAN, Arrive(q, p, i, sync)
  PROVE  AuthInv'
<1>0. UNCHANGED <<row, log, task, retry, faults, starting, hook, cancels>>
  BY DEF Arrive, vars
<1>1. /\ post[q].pc = "new"
      /\ post'[q].pc = "accept" /\ post'[q].pod = p /\ post'[q].inv = i
      /\ post'[q].registered = (reg[p][i] = NoPost) /\ post'[q].queued = FALSE
      /\ \A o \in Posts \ {q} : post'[o] = post[o]
  BY DEF Arrive, AuthTypeOK
<1>t. Traced
  BY TracedPerPost DEF AuthInv
<1>2. \A o \in Posts, k \in Pods, j \in Invocations :
        BroughtBy(o, k, j) => BroughtBy(o, k, j)' /\ o # q
  BY <1>1 DEF BroughtBy
<1>3. \/ /\ reg[p][i] = NoPost /\ reg'[p][i] = q /\ open' = open \cup {q} /\ post'[q].registered
         /\ \A o \in Pods, j \in Invocations : ~(o = p /\ j = i) => reg'[o][j] = reg[o][j]
      \/ reg[p][i] # NoPost /\ reg' = reg /\ open' = open
  <2>1. CASE reg[p][i] = NoPost
    <3>1. SetReg(p, i, q) /\ open' = open \cup {q}
      BY <2>1 DEF Arrive
    <3>2. /\ reg'[p][i] = q
          /\ \A o \in Pods, j \in Invocations : ~(o = p /\ j = i) => reg'[o][j] = reg[o][j]
      BY <3>1 DEF SetReg, AuthTypeOK
    <3>. QED
      BY <1>1, <2>1, <3>1, <3>2
  <2>2. CASE reg[p][i] # NoPost
    BY <2>2 DEF Arrive
  <2>. QED
    BY <2>1, <2>2
<1>4. Traced'
  <2>1. \A o \in Posts : post'[o].pc # "new" => post'[o].inv \in Invocations
    BY <1>1, <1>t DEF Traced
  <2>2. ASSUME NEW o \in Posts, NEW k \in Pods, NEW j \in Invocations
        PROVE  /\ reg'[k][j] = o => BroughtBy(o, k, j)' /\ o \in open'
               /\ hook'[k][j] = o => BroughtBy(o, k, j)' /\ reg'[k][j] # o
    <3>1. hook'[k][j] = o => BroughtBy(o, k, j)' /\ reg'[k][j] # o
      BY <1>0, <1>2, <1>3, <1>t DEF Traced
    <3>2. CASE reg'[k][j] = reg[k][j]
      BY <1>2, <1>3, <1>t, <3>1, <3>2 DEF Traced
    <3>3. CASE reg'[k][j] # reg[k][j]
      <4>1. k = p /\ j = i /\ reg'[k][j] = q /\ q \in open' /\ post'[q].registered
        BY <1>3, <3>3
      <4>. QED
        BY <1>1, <3>1, <4>1 DEF BroughtBy
    <3>. QED
      BY <3>2, <3>3
  <2>3. ASSUME NEW o \in open'
        PROVE  \E k \in Pods, j \in Invocations :
                 BroughtBy(o, k, j)' /\ (reg'[k][j] = o \/ hook'[k][j] = o)
    <3>1. CASE o \in open
      <4>1. PICK k \in Pods, j \in Invocations :
              BroughtBy(o, k, j) /\ (reg[k][j] = o \/ hook[k][j] = o)
        BY <1>t, <3>1 DEF Traced
      <4>2. o \in Posts
        BY <3>1 DEF AuthTypeOK
      <4>3. reg[k][j] = o => reg'[k][j] = o
        BY <1>3, <4>2
      <4>. QED
        BY <1>0, <1>2, <4>1, <4>2, <4>3
    <3>2. CASE o \notin open
      BY <1>1, <1>3, <2>3, <3>2 DEF BroughtBy
    <3>. QED
      BY <3>1, <3>2
  <2>. QED
    BY <2>1, <2>2, <2>3 DEF Traced
<1>5. TasksOwnRows'
  BY <1>0 DEF AuthInv, TasksOwnRows
<1>6. WaitingIsWanted'
  <2>. SUFFICES ASSUME NEW k \in Pods, NEW j \in Invocations, reg'[k][j] # NoPost
       PROVE  /\ ~InFlight(reg[k][j])' => post'[reg'[k][j]].queued
              /\ post'[reg'[k][j]].queued =>
                   /\ row[j].status \notin Terminal
                   /\ Executing(k, j) => <<k, j>> \in starting
    BY <1>0 DEF WaitingIsWanted, Executing
  <2>1. CASE reg'[k][j] = q
    BY <1>1, <2>1 DEF InFlight
  <2>2. CASE reg'[k][j] # q
    <3>1. reg'[k][j] = reg[k][j] /\ reg[k][j] \in Posts /\ reg[k][j] # q
      BY <1>3, <2>2 DEF AuthTypeOK
    <3>2. post'[reg[k][j]] = post[reg[k][j]]
      BY <1>1, <3>1
    <3>. QED
      BY <3>1, <3>2 DEF AuthInv, WaitingIsWanted, InFlight
  <2>. QED
    BY <2>1, <2>2
<1>7. AcceptedByAPost'
  <2>. SUFFICES ASSUME NEW j \in Invocations, row[j].status # "ABSENT"
       PROVE  \E o \in Posts : post'[o].inv = j /\ post'[o].pc \notin {"new", "accept"}
    BY <1>0 DEF AcceptedByAPost
  <2>1. PICK o \in Posts : post[o].inv = j /\ post[o].pc \notin {"new", "accept"}
    BY DEF AuthInv, AcceptedByAPost
  <2>. QED
    BY <1>1, <2>1
<1>8. PlainRequests'
  <2>. SUFFICES ASSUME NoRepeats', cancels = 0
       PROVE  /\ \A o \in Posts :
                   /\ post'[o].pc = "accept" => post'[o].registered /\ reg'[post'[o].pod][post'[o].inv] = o
                   /\ post'[o].pc \in {"answer", "wait"} => post'[o].queued
              /\ HookAuthOpen'
              /\ faults = 0 =>
                   \A k \in Pods, j \in Invocations :
                     row[j].status = "QUEUED" \/ (<<k, j>> \in starting /\ task[k][j].attempt = 1)
                       => reg'[k][j] # NoPost
    BY <1>0 DEF PlainRequests
  <2>0. NoRepeats
    BY <1>1 DEF NoRepeats
  <2>1. \A o \in Posts \ {q} : post[o].pc # "new" => post[o].inv # i
    BY <1>1 DEF NoRepeats
  <2>2. reg[p][i] = NoPost
    <3>1. \A o \in Posts : reg[p][i] = o => post[o].pc # "new" /\ post[o].inv = i
      BY <1>t DEF Traced, BroughtBy
    <3>2. reg[p][i] \in Posts \cup {NoPost}
      BY DEF AuthTypeOK
    <3>. QED
      BY <1>1, <2>1, <3>1, <3>2
  <2>3. ASSUME NEW o \in Posts
        PROVE  /\ post'[o].pc = "accept" => post'[o].registered /\ reg'[post'[o].pod][post'[o].inv] = o
               /\ post'[o].pc \in {"answer", "wait"} => post'[o].queued
    <3>1. CASE o = q
      BY <1>1, <1>3, <2>2, <3>1
    <3>2. CASE o # q
      <4>1. post'[o] = post[o]
        BY <1>1, <3>2
      <4>2. post[o].pod \in Pods /\ (post[o].pc # "new" => post[o].inv \in Invocations /\ post[o].inv # i)
        BY <2>1, <3>2 DEF AuthTypeOK, Post, AuthInv, CredentialsTraced
      <4>3. post[o].pc # "new" => reg'[post[o].pod][post[o].inv] = reg[post[o].pod][post[o].inv]
        BY <1>3, <4>2
      <4>. QED
        BY <2>0, <4>1, <4>3 DEF AuthInv, PlainRequests
    <3>. QED
      BY <3>1, <3>2
  <2>4. HookAuthOpen'
    BY <1>0, <1>3, <2>0 DEF AuthInv, PlainRequests, HookAuthOpen
  <2>5. ASSUME faults = 0, NEW k \in Pods, NEW j \in Invocations,
               row[j].status = "QUEUED" \/ (<<k, j>> \in starting /\ task[k][j].attempt = 1)
        PROVE  reg'[k][j] # NoPost
    <3>1. reg[k][j] # NoPost
      BY <2>0, <2>5 DEF AuthInv, PlainRequests
    <3>. QED
      BY <1>3, <2>2, <3>1
  <2>. QED
    BY <2>3, <2>4, <2>5
<1>9. CredentialsTraced'
  BY <1>4, TracedPerPostNext
<1>. QED
  BY <1>5, <1>6, <1>7, <1>8, <1>9 DEF AuthInv

-----------------------------------------------------------------------------
(* The attempts.                                                            *)
LEMMA ClaimKeeps ==
  ASSUME OneProcess, TypeOK, QueueInv, AuthTypeOK, AuthInv, NEW p \in Pods, NEW i \in Invocations,
         ClaimTask(p, i)
  PROVE  AuthInv'
<1>0. /\ UNCHANGED <<post, open, reg, hook, cancels, faults>>
      /\ starting' = starting \cup {<<p, i>>}
      /\ ClaimGranted(p, i)
  BY DEF ClaimTask, ClaimGranted
<1>a. /\ task[p][i] \in Task /\ row[i] \in Row /\ row[i].attempt \in Nat
      /\ task[p][i].pc = "claim" /\ task[p][i].recovery \in BOOLEAN
  BY <1>0 DEF TypeOK, StoreTypeOK, Row, Task, ClaimGranted
<1>1. /\ row'[i].status = "ACTIVE" /\ row'[i].attempt = row[i].attempt + 1
      /\ row[i].status \in {"QUEUED", "ACTIVE"}
      /\ \A j \in Invocations \ {i} : row'[j] = row[j]
  <2>1. row[i].status \in {"QUEUED", "ACTIVE"} /\ TakeOver(i)
    BY <1>0, <1>a DEF ClaimGranted, Claimable, Startable, StaleActive
  <2>. QED
    BY <1>a, <2>1 DEF TakeOver, TypeOK, StoreTypeOK, Row
<1>2. /\ task'[p][i].pc = "run" /\ task'[p][i].attempt = row[i].attempt + 1
      /\ \A o \in Pods, j \in Invocations : ~(o = p /\ j = i) => task'[o][j] = task[o][j]
  <2>1. task' = [task EXCEPT ![p][i] = [task[p][i] EXCEPT !.pc = "run", !.beating = TRUE,
                                                       !.attempt = row'[i].attempt]]
    BY <1>0 DEF ClaimGranted
  <2>2. /\ task'[p][i] = [task[p][i] EXCEPT !.pc = "run", !.beating = TRUE,
                                          !.attempt = row'[i].attempt]
        /\ \A o \in Pods, j \in Invocations : ~(o = p /\ j = i) => task'[o][j] = task[o][j]
    BY <2>1 DEF TypeOK
  <2>. QED
    BY <1>1, <1>a, <2>2 DEF Task
<1>3. CredentialsTraced'
  BY <1>0 DEF AuthInv, CredentialsTraced, BroughtBy
<1>4. TasksOwnRows'
  <2>. SUFFICES ASSUME NEW o \in Pods, NEW j \in Invocations
       PROVE  /\ <<o, j>> \in starting' => task'[o][j].pc = "run" /\ hook[o][j] = NoPost
              /\ hook[o][j] # NoPost => task'[o][j].pc = "run"
              /\ task'[o][j].pc = "run" => row'[j].status = "ACTIVE"
              /\ task'[o][j].pc = "failing" => row'[j].status \notin {"ABSENT", "QUEUED"}
    BY <1>0 DEF TasksOwnRows
  <2>1. CASE o = p /\ j = i
    <3>1. hook[o][j] = NoPost
      BY <1>a, <2>1 DEF AuthInv, TasksOwnRows
    <3>. QED
      BY <1>1, <1>2, <2>1, <3>1
  <2>2. CASE ~(o = p /\ j = i)
    <3>1. j # i
      BY <2>2 DEF OneProcess
    <3>2. <<o, j>> \in starting' => <<o, j>> \in starting
      BY <1>0, <2>2
    <3>. QED
      BY <1>1, <1>2, <3>1, <3>2 DEF AuthInv, TasksOwnRows
  <2>. QED
    BY <2>1, <2>2
<1>5. WaitingIsWanted'
  <2>. SUFFICES ASSUME NEW o \in Pods, NEW j \in Invocations, reg[o][j] # NoPost
       PROVE  /\ ~InFlight(reg[o][j]) => post[reg[o][j]].queued
              /\ post[reg[o][j]].queued =>
                   /\ row'[j].status \notin Terminal
                   /\ Executing(o, j)' => <<o, j>> \in starting'
    BY <1>0 DEF WaitingIsWanted, InFlight
  <2>1. CASE o = p /\ j = i
    BY <1>0, <1>1, <2>1 DEF AuthInv, WaitingIsWanted, Terminal
  <2>2. CASE ~(o = p /\ j = i)
    <3>1. j # i
      BY <2>2 DEF OneProcess
    <3>. QED
      BY <1>0, <1>1, <1>2, <3>1 DEF AuthInv, WaitingIsWanted, Executing
  <2>. QED
    BY <2>1, <2>2
<1>6. AcceptedByAPost'
  <2>. SUFFICES ASSUME NEW j \in Invocations, row'[j].status # "ABSENT"
       PROVE  \E o \in Posts : post[o].inv = j /\ post[o].pc \notin {"new", "accept"}
    BY <1>0 DEF AcceptedByAPost
  <2>. QED
    BY <1>1 DEF AuthInv, AcceptedByAPost
<1>7. PlainRequests'
  <2>. SUFFICES ASSUME NoRepeats, cancels = 0, faults = 0, NEW o \in Pods, NEW j \in Invocations,
                       row'[j].status = "QUEUED" \/ (<<o, j>> \in starting' /\ task'[o][j].attempt = 1)
                PROVE  reg[o][j] # NoPost
    BY <1>0 DEF AuthInv, PlainRequests, NoRepeats, HookAuthOpen
  <2>1. CASE j = i
    <3>1. o = p
      BY DEF OneProcess
    <3>2. row[i].attempt = 0
      BY <1>1, <1>2, <1>a, <2>1, <3>1
    <3>3. row[i].status = "QUEUED"
      BY <1>1, <3>2 DEF QueueInv, RowsConsistent
    <3>. QED
      BY <2>1, <3>3 DEF AuthInv, PlainRequests
  <2>2. CASE j # i
    BY <1>0, <1>1, <1>2, <2>2 DEF AuthInv, PlainRequests
  <2>. QED
    BY <2>1, <2>2
<1>. QED
  BY <1>3, <1>4, <1>5, <1>6, <1>7 DEF AuthInv

(* _execute takes the credential, or fails the attempt and closes it.       *)
LEMMA StartKeeps ==
  ASSUME OneProcess, TypeOK, AuthTypeOK, AuthTypeOK', AuthInv, NEW p \in Pods, NEW i \in Invocations,
         StartHook(p, i)
  PROVE  AuthInv'
<1>. DEFINE q == reg[p][i]
<1>0. /\ UNCHANGED <<post, cancels, row, faults>>
      /\ <<p, i>> \in starting /\ starting' = starting \ {<<p, i>>}
  BY DEF StartHook, HookRaises, vars
<1>a. task[p][i].pc = "run" /\ hook[p][i] = NoPost /\ row[i].status = "ACTIVE"
  BY <1>0 DEF AuthInv, TasksOwnRows
<1>1. /\ reg'[p][i] = NoPost
      /\ \A o \in Pods, j \in Invocations : ~(o = p /\ j = i) => reg'[o][j] = reg[o][j]
  BY DEF StartHook, SetReg, AuthTypeOK
<1>2. \/ /\ q # NoPost /\ hook'[p][i] = q /\ open' = open /\ task' = task
         /\ \A o \in Pods, j \in Invocations : ~(o = p /\ j = i) => hook'[o][j] = hook[o][j]
      \/ /\ task'[p][i].pc = "failing" /\ open' = open \ {q} /\ hook' = hook
         /\ \A o \in Pods, j \in Invocations : ~(o = p /\ j = i) => task'[o][j] = task[o][j]
  <2>1. CASE q # NoPost /\ task[p][i].attempt = 1
    <3>1. SetHook(p, i, q) /\ UNCHANGED <<vars, open>>
      BY <2>1 DEF StartHook
    <3>. QED
      BY <2>1, <3>1 DEF SetHook, AuthTypeOK, vars
  <2>2. CASE ~(q # NoPost /\ task[p][i].attempt = 1)
    <3>1. MoveTask(p, i, "failing") /\ open' = open \ {q} /\ hook' = hook
      BY <2>2 DEF StartHook, HookRaises
    <3>2. task[p][i] \in Task
      BY DEF TypeOK
    <3>3. /\ task'[p][i] = [task[p][i] EXCEPT !.pc = "failing"]
          /\ \A o \in Pods, j \in Invocations : ~(o = p /\ j = i) => task'[o][j] = task[o][j]
      BY <3>1 DEF MoveTask, TypeOK
    <3>. QED
      BY <3>1, <3>2, <3>3 DEF Task
  <2>. QED
    BY <2>1, <2>2
<1>t. Traced
  BY TracedPerPost DEF AuthInv
<1>3. Traced'
  <2>0. \A o \in Posts, k \in Pods, j \in Invocations : BroughtBy(o, k, j)' <=> BroughtBy(o, k, j)
    BY <1>0 DEF BroughtBy
  <2>1. \A o \in Posts : post'[o].pc # "new" => post'[o].inv \in Invocations
    BY <1>0, <1>t DEF Traced
  <2>2. ASSUME NEW o \in Posts, NEW k \in Pods, NEW j \in Invocations
        PROVE  /\ reg'[k][j] = o => BroughtBy(o, k, j) /\ o \in open'
               /\ hook'[k][j] = o => BroughtBy(o, k, j) /\ reg'[k][j] # o
    <3>0. NoPost \notin Posts
      OBVIOUS
    <3>1. CASE k = p /\ j = i
      BY <1>1, <1>2, <1>a, <1>t, <3>0, <3>1 DEF Traced
    <3>2. CASE ~(k = p /\ j = i)
      <4>1. reg'[k][j] = reg[k][j] /\ hook'[k][j] = hook[k][j]
        BY <1>1, <1>2, <3>2
      <4>2. reg[k][j] = o => o # q
        BY <1>t, <3>2 DEF Traced, BroughtBy
      <4>. QED
        BY <1>2, <1>t, <4>1, <4>2 DEF Traced
    <3>. QED
      BY <3>1, <3>2
  <2>3. ASSUME NEW o \in open'
        PROVE  \E k \in Pods, j \in Invocations :
                 BroughtBy(o, k, j) /\ (reg'[k][j] = o \/ hook'[k][j] = o)
    <3>1. o \in open /\ o \in Posts
      BY <1>2, <2>3 DEF AuthTypeOK
    <3>2. PICK k \in Pods, j \in Invocations :
            BroughtBy(o, k, j) /\ (reg[k][j] = o \/ hook[k][j] = o)
      BY <1>t, <3>1 DEF Traced
    <3>3. CASE k = p /\ j = i
      BY <1>2, <1>a, <2>3, <3>1, <3>2, <3>3
    <3>4. CASE ~(k = p /\ j = i)
      BY <1>1, <1>2, <3>2, <3>4
    <3>. QED
      BY <3>3, <3>4
  <2>4. \A o \in Posts, k \in Pods, j \in Invocations :
          /\ reg'[k][j] = o => BroughtBy(o, k, j)' /\ o \in open'
          /\ hook'[k][j] = o => BroughtBy(o, k, j)' /\ reg'[k][j] # o
    BY <2>0, <2>2
  <2>5. open' \subseteq Posts
    BY DEF AuthTypeOK
  <2>6. \A o \in open' : \E k \in Pods, j \in Invocations :
          BroughtBy(o, k, j)' /\ (reg'[k][j] = o \/ hook'[k][j] = o)
    BY <2>0, <2>3, <2>5
  <2>. QED
    BY <2>1, <2>4, <2>6 DEF Traced
<1>4. TasksOwnRows'
  <2>. SUFFICES ASSUME NEW o \in Pods, NEW j \in Invocations
       PROVE  /\ <<o, j>> \in starting' => task'[o][j].pc = "run" /\ hook'[o][j] = NoPost
              /\ hook'[o][j] # NoPost => task'[o][j].pc = "run"
              /\ task'[o][j].pc = "run" => row[j].status = "ACTIVE"
              /\ task'[o][j].pc = "failing" => row[j].status \notin {"ABSENT", "QUEUED"}
    BY <1>0 DEF TasksOwnRows
  <2>1. CASE o = p /\ j = i
    BY <1>0, <1>2, <1>a, <2>1
  <2>2. CASE ~(o = p /\ j = i)
    BY <1>0, <1>2, <2>2 DEF AuthInv, TasksOwnRows
  <2>. QED
    BY <2>1, <2>2
<1>5. WaitingIsWanted'
  <2>. SUFFICES ASSUME NEW o \in Pods, NEW j \in Invocations, reg'[o][j] # NoPost
       PROVE  /\ ~InFlight(reg[o][j])' => post[reg'[o][j]].queued
              /\ post[reg'[o][j]].queued =>
                   /\ row[j].status \notin Terminal
                   /\ Executing(o, j)' => <<o, j>> \in starting'
    BY <1>0 DEF WaitingIsWanted
  <2>1. ~(o = p /\ j = i) /\ reg'[o][j] = reg[o][j]
    BY <1>1
  <2>2. task'[o][j] = task[o][j] /\ (<<o, j>> \in starting => <<o, j>> \in starting')
    BY <1>0, <1>2, <2>1
  <2>. QED
    BY <1>0, <2>1, <2>2 DEF AuthInv, WaitingIsWanted, Executing, InFlight
<1>6. AcceptedByAPost'
  BY <1>0 DEF AuthInv, AcceptedByAPost
<1>7. PlainRequests'
  <2>. SUFFICES ASSUME NoRepeats, cancels = 0
       PROVE  /\ \A o \in Posts :
                   /\ post[o].pc = "accept" => post[o].registered /\ reg'[post[o].pod][post[o].inv] = o
                   /\ post[o].pc \in {"answer", "wait"} => post[o].queued
              /\ HookAuthOpen'
              /\ faults = 0 =>
                   \A k \in Pods, j \in Invocations :
                     row[j].status = "QUEUED" \/ (<<k, j>> \in starting' /\ task'[k][j].attempt = 1)
                       => reg'[k][j] # NoPost
    BY <1>0 DEF PlainRequests, NoRepeats
  <2>1. ASSUME NEW o \in Posts
        PROVE  /\ post[o].pc = "accept" => post[o].registered /\ reg'[post[o].pod][post[o].inv] = o
               /\ post[o].pc \in {"answer", "wait"} => post[o].queued
    <3>1. CASE post[o].pc = "accept"
      <4>1. post[o].registered /\ reg[post[o].pod][post[o].inv] = o
        BY <3>1 DEF AuthInv, PlainRequests
      <4>2. post[o].inv # i
        BY <1>a, <3>1 DEF AuthInv, AcceptedByAPost, NoRepeats
      <4>3. post[o].pod \in Pods /\ post[o].inv \in Invocations
        BY <1>t, <3>1 DEF Traced, AuthTypeOK, Post
      <4>. QED
        BY <1>1, <3>1, <4>1, <4>2, <4>3
    <3>2. CASE post[o].pc # "accept"
      BY <3>2 DEF AuthInv, PlainRequests
    <3>. QED
      BY <3>1, <3>2
  <2>2. HookAuthOpen'
    <3>. SUFFICES ASSUME NEW k \in Pods, NEW j \in Invocations, hook'[k][j] # NoPost
         PROVE  hook'[k][j] \in open'
      BY DEF HookAuthOpen
    <3>1. hook'[k][j] \in Posts
      BY DEF AuthTypeOK
    <3>2. CASE k = p /\ j = i
      BY <1>2, <1>a, <1>t, <3>1, <3>2 DEF Traced
    <3>3. CASE ~(k = p /\ j = i)
      <4>1. hook'[k][j] = hook[k][j] /\ hook[k][j] \in open
        BY <1>2, <3>3 DEF AuthInv, PlainRequests, HookAuthOpen
      <4>2. hook[k][j] # q
        BY <1>t, <3>1, <3>3, <4>1 DEF Traced, BroughtBy
      <4>. QED
        BY <1>2, <4>1, <4>2
    <3>. QED
      BY <3>2, <3>3
  <2>3. ASSUME faults = 0, NEW k \in Pods, NEW j \in Invocations,
               row[j].status = "QUEUED" \/ (<<k, j>> \in starting' /\ task'[k][j].attempt = 1)
        PROVE  reg'[k][j] # NoPost
    <3>1. ~(k = p /\ j = i)
      BY <1>0, <1>a, <2>3
    <3>. QED
      BY <1>0, <1>1, <1>2, <2>3, <3>1 DEF AuthInv, PlainRequests
  <2>. QED
    BY <2>1, <2>2, <2>3
<1>8. CredentialsTraced'
  BY <1>3, TracedPerPostNext
<1>. QED
  BY <1>4, <1>5, <1>6, <1>7, <1>8 DEF AuthInv

(* An attempt whose start is past leaves its hook: the credential is closed *)
(* with it, and none is left registered behind its back.                    *)
LEMMA LeaveKeeps ==
  ASSUME OneProcess, TypeOK, AuthTypeOK, AuthTypeOK', AuthInv, NEW p \in Pods, NEW i \in Invocations,
         LeaveAuth(p, i)
  PROVE  AuthInv'
<1>0. /\ UNCHANGED <<post, reg, starting, cancels>> /\ <<p, i>> \notin starting
      /\ EndHook(p, i) \/ CompleteError(p, i) \/ HookCancelled(p, i)
      /\ open' = open \ {hook[p][i]}
  BY DEF LeaveAuth
<1>a. /\ \A o \in Pods, j \in Invocations : task[o][j] \in Task
      /\ task[p][i].attempt \in Nat /\ task[p][i].pc = "run" /\ row[i].status = "ACTIVE"
      /\ PodTypeOK /\ StoreTypeOK /\ faults \in Nat
  <2>1. PodTypeOK /\ StoreTypeOK
    BY TypeSplit
  <2>2. task[p][i].pc = "run"
    BY <1>0 DEF EndHook, HookReturns, HookRaises, CompleteError, HookCancelled
  <2>3. \A o \in Pods, j \in Invocations : task[o][j] \in Task
    BY <2>1, AttemptIsNat
  <2>4. task[p][i].attempt \in Nat
    BY <2>1, AttemptIsNat
  <2>5. row[i].status = "ACTIVE"
    BY <2>2 DEF AuthInv, TasksOwnRows
  <2>6. faults \in Nat
    BY <2>1 DEF PodTypeOK
  <2>. QED
    BY <2>1, <2>2, <2>3, <2>4, <2>5, <2>6
<1>1. /\ hook'[p][i] = NoPost
      /\ \A o \in Pods, j \in Invocations : ~(o = p /\ j = i) => hook'[o][j] = hook[o][j]
  BY DEF LeaveAuth, SetHook, AuthTypeOK
<1>2. /\ task'[p][i].pc \in {"none", "failing", "lookup"}
      /\ \A o \in Pods, j \in Invocations : ~(o = p /\ j = i) => task'[o][j] = task[o][j]
  <2>1. CASE HookReturns(p, i)
    <3>1. LeaveHook(p, i)
      BY <2>1 DEF HookReturns
    <3>. QED
      BY <1>a, <3>1 DEF LeaveHook, PodTypeOK, Task
  <2>2. CASE HookRaises(p, i) \/ CompleteError(p, i)
    <3>1. MoveTask(p, i, "failing")
      BY <2>2 DEF HookRaises, CompleteError
    <3>. QED
      BY <1>a, <3>1 DEF MoveTask, PodTypeOK, Task
  <2>3. CASE HookCancelled(p, i)
    <3>1. EndTask(p, i) /\ NoTask.pc = "none"
      BY <2>3 DEF HookCancelled, NoTask
    <3>. QED
      BY <1>a, <3>1 DEF EndTask, PodTypeOK
  <2>. QED
    BY <1>0, <2>1, <2>2, <2>3 DEF EndHook
<1>3. /\ \A j \in Invocations \ {i} : row'[j] = row[j]
      /\ row'[i].status \in {"ACTIVE", "COMPLETED"}
  <2>1. CASE row' = row
    BY <1>a, <2>1
  <2>2. CASE Complete(i, task[p][i].attempt)
    BY <1>a, <2>2 DEF Complete, Finish, Owns, StoreTypeOK, Row
  <2>. QED
    BY <1>0, <2>1, <2>2 DEF EndHook, HookReturns, HookRaises, CompleteError, HookCancelled, storeVars
<1>4. faults' = 0 => faults = 0
  BY <1>0, <1>a DEF EndHook, HookReturns, HookRaises, CompleteError, HookCancelled, Fault
<1>t. Traced
  BY TracedPerPost DEF AuthInv
<1>w. ASSUME reg[p][i] # NoPost PROVE InFlight(reg[p][i]) /\ ~post[reg[p][i]].queued
  BY <1>0, <1>a, <1>w DEF AuthInv, WaitingIsWanted, Executing
<1>5. Traced'
  <2>0. \A o \in Posts, k \in Pods, j \in Invocations : BroughtBy(o, k, j)' <=> BroughtBy(o, k, j)
    BY <1>0 DEF BroughtBy
  <2>1. \A o \in Posts : post'[o].pc # "new" => post'[o].inv \in Invocations
    BY <1>0, <1>t DEF Traced
  <2>2. ASSUME NEW o \in Posts, NEW k \in Pods, NEW j \in Invocations
        PROVE  /\ reg'[k][j] = o => BroughtBy(o, k, j)' /\ o \in open'
               /\ hook'[k][j] = o => BroughtBy(o, k, j)' /\ reg'[k][j] # o
    <3>0. NoPost \notin Posts
      OBVIOUS
    <3>1. reg[k][j] = o => o # hook[p][i]
      BY <1>t DEF Traced, BroughtBy
    <3>2. hook'[k][j] = o => hook[k][j] = o
      BY <1>1, <3>0
    <3>. QED
      BY <1>0, <1>t, <2>0, <3>1, <3>2 DEF Traced
  <2>3. ASSUME NEW o \in open'
        PROVE  \E k \in Pods, j \in Invocations :
                 BroughtBy(o, k, j)' /\ (reg'[k][j] = o \/ hook'[k][j] = o)
    <3>1. o \in open /\ o \in Posts /\ o # hook[p][i]
      BY <1>0, <2>3 DEF AuthTypeOK
    <3>2. PICK k \in Pods, j \in Invocations :
            BroughtBy(o, k, j) /\ (reg[k][j] = o \/ hook[k][j] = o)
      BY <1>t, <3>1 DEF Traced
    <3>3. hook[k][j] = o => hook'[k][j] = o
      BY <1>1, <3>1
    <3>. QED
      BY <1>0, <2>0, <3>1, <3>2, <3>3
  <2>. QED
    BY <2>1, <2>2, <2>3 DEF Traced
<1>6. TasksOwnRows'
  <2>. SUFFICES ASSUME NEW o \in Pods, NEW j \in Invocations
       PROVE  /\ <<o, j>> \in starting => task'[o][j].pc = "run" /\ hook'[o][j] = NoPost
              /\ hook'[o][j] # NoPost => task'[o][j].pc = "run"
              /\ task'[o][j].pc = "run" => row'[j].status = "ACTIVE"
              /\ task'[o][j].pc = "failing" => row'[j].status \notin {"ABSENT", "QUEUED"}
    BY <1>0 DEF TasksOwnRows
  <2>1. CASE o = p /\ j = i
    BY <1>0, <1>1, <1>2, <1>3, <2>1
  <2>2. CASE ~(o = p /\ j = i)
    <3>1. j # i
      BY <2>2 DEF OneProcess
    <3>. QED
      BY <1>1, <1>2, <1>3, <2>2, <3>1 DEF AuthInv, TasksOwnRows
  <2>. QED
    BY <2>1, <2>2
<1>7. WaitingIsWanted'
  <2>. SUFFICES ASSUME NEW o \in Pods, NEW j \in Invocations, reg[o][j] # NoPost
       PROVE  /\ ~InFlight(reg[o][j]) => post[reg[o][j]].queued
              /\ post[reg[o][j]].queued =>
                   /\ row'[j].status \notin Terminal
                   /\ Executing(o, j)' => <<o, j>> \in starting
    BY <1>0 DEF WaitingIsWanted, InFlight
  <2>1. CASE o = p /\ j = i
    BY <1>w, <2>1
  <2>2. CASE ~(o = p /\ j = i)
    <3>1. j # i
      BY <2>2 DEF OneProcess
    <3>. QED
      BY <1>2, <1>3, <3>1 DEF AuthInv, WaitingIsWanted, Executing
  <2>. QED
    BY <2>1, <2>2
<1>8. AcceptedByAPost'
  <2>. SUFFICES ASSUME NEW j \in Invocations, row'[j].status # "ABSENT"
       PROVE  \E o \in Posts : post[o].inv = j /\ post[o].pc \notin {"new", "accept"}
    BY <1>0 DEF AcceptedByAPost
  <2>. QED
    BY <1>3, <1>a DEF AuthInv, AcceptedByAPost
<1>9. PlainRequests'
  <2>. SUFFICES ASSUME NoRepeats, cancels = 0
       PROVE  /\ HookAuthOpen'
              /\ faults' = 0 =>
                   \A k \in Pods, j \in Invocations :
                     row'[j].status = "QUEUED" \/ (<<k, j>> \in starting /\ task'[k][j].attempt = 1)
                       => reg[k][j] # NoPost
    BY <1>0 DEF AuthInv, PlainRequests, NoRepeats
  <2>1. HookAuthOpen'
    <3>. SUFFICES ASSUME NEW k \in Pods, NEW j \in Invocations, hook'[k][j] # NoPost
         PROVE  hook'[k][j] \in open'
      BY DEF HookAuthOpen
    <3>1. ~(k = p /\ j = i) /\ hook'[k][j] = hook[k][j] /\ hook[k][j] \in Posts
      BY <1>1 DEF AuthTypeOK
    <3>2. hook[k][j] # hook[p][i]
      BY <1>t, <3>1 DEF Traced, BroughtBy
    <3>. QED
      BY <1>0, <3>1, <3>2 DEF AuthInv, PlainRequests, HookAuthOpen
  <2>2. ASSUME faults' = 0, NEW k \in Pods, NEW j \in Invocations,
               row'[j].status = "QUEUED" \/ (<<k, j>> \in starting /\ task'[k][j].attempt = 1)
        PROVE  reg[k][j] # NoPost
    <3>1. j # i
      BY <1>0, <1>3, <2>2 DEF OneProcess
    <3>. QED
      BY <1>2, <1>3, <1>4, <2>2, <3>1 DEF AuthInv, PlainRequests
  <2>. QED
    BY <2>1, <2>2
<1>10. CredentialsTraced'
  BY <1>5, TracedPerPostNext
<1>. QED
  BY <1>6, <1>7, <1>8, <1>9, <1>10 DEF AuthInv

(* A task cancelled before its start leaves the credential to the next one. *)
LEMMA CancelStartKeeps ==
  ASSUME OneProcess, TypeOK, AuthTypeOK, AuthInv, NEW p \in Pods, NEW i \in Invocations,
         CancelStart(p, i)
  PROVE  AuthInv'
<1>0. /\ UNCHANGED <<row, post, open, reg, hook, cancels>>
      /\ starting' = starting \ {<<p, i>>} /\ <<p, i>> \in starting
      /\ EndTask(p, i) /\ faults' = faults + 1 /\ faults \in Nat
  BY DEF CancelStart, HookCancelled, Fault, TypeOK
<1>1. /\ task'[p][i].pc = "none" /\ hook[p][i] = NoPost
      /\ \A o \in Pods, j \in Invocations : ~(o = p /\ j = i) => task'[o][j] = task[o][j]
  <2>1. NoTask.pc = "none"
    BY DEF NoTask
  <2>. QED
    BY <1>0, <2>1 DEF EndTask, TypeOK, AuthInv, TasksOwnRows
<1>2. CredentialsTraced'
  BY <1>0 DEF AuthInv, CredentialsTraced, BroughtBy
<1>3. TasksOwnRows'
  <2>. SUFFICES ASSUME NEW o \in Pods, NEW j \in Invocations
       PROVE  /\ <<o, j>> \in starting' => task'[o][j].pc = "run" /\ hook[o][j] = NoPost
              /\ hook[o][j] # NoPost => task'[o][j].pc = "run"
              /\ task'[o][j].pc = "run" => row[j].status = "ACTIVE"
              /\ task'[o][j].pc = "failing" => row[j].status \notin {"ABSENT", "QUEUED"}
    BY <1>0 DEF TasksOwnRows
  <2>. QED
    BY <1>0, <1>1 DEF AuthInv, TasksOwnRows
<1>4. WaitingIsWanted'
  <2>. SUFFICES ASSUME NEW o \in Pods, NEW j \in Invocations, reg[o][j] # NoPost
       PROVE  /\ ~InFlight(reg[o][j]) => post[reg[o][j]].queued
              /\ post[reg[o][j]].queued =>
                   /\ row[j].status \notin Terminal
                   /\ Executing(o, j)' => <<o, j>> \in starting'
    BY <1>0 DEF WaitingIsWanted, InFlight
  <2>. QED
    BY <1>0, <1>1 DEF AuthInv, WaitingIsWanted, Executing
<1>5. AcceptedByAPost'
  BY <1>0 DEF AuthInv, AcceptedByAPost
<1>6. PlainRequests'
  BY <1>0 DEF AuthInv, PlainRequests, NoRepeats, HookAuthOpen
<1>. QED
  BY <1>2, <1>3, <1>4, <1>5, <1>6 DEF AuthInv

(* The only process restarts: nothing of the credentials is left.           *)
LEMMA CrashKeeps ==
  ASSUME OneProcess, TypeOK, AuthTypeOK, AuthInv, NEW p \in Pods, CrashAuth(p)
  PROVE  AuthInv'
<1>0. UNCHANGED <<row, cancels>> /\ faults' = faults + 1 /\ faults \in Nat
  BY DEF CrashAuth, Crash, Fault, TypeOK
<1>1. /\ \A o \in Pods, j \in Invocations :
           reg'[o][j] = NoPost /\ hook'[o][j] = NoPost /\ task'[o][j].pc = "none"
      /\ starting' = {} /\ open' = {}
  <2>1. NoTask.pc = "none" /\ \A o \in Pods : o = p
    BY DEF NoTask, OneProcess
  <2>2. \A o \in Pods, j \in Invocations :
          reg'[o][j] = NoPost /\ hook'[o][j] = NoPost /\ task'[o][j].pc = "none"
    BY <2>1 DEF CrashAuth, Crash, TypeOK, AuthTypeOK
  <2>3. \A q \in Posts : post[q].pod = p
    BY <2>1 DEF AuthTypeOK, Post
  <2>4. open' = {}
    BY <2>3 DEF CrashAuth, AuthTypeOK
  <2>5. starting' = {}
    BY <2>1 DEF CrashAuth, AuthTypeOK
  <2>. QED
    BY <2>2, <2>4, <2>5
<1>2. \A q \in Posts :
        /\ post'[q].inv = post[q].inv /\ (post'[q].pc = "new" <=> post[q].pc = "new")
        /\ post'[q].pc \in {"new", "done"}
  <2>1. \A q \in Posts : post[q].pod = p /\ post[q] \in Post
    BY DEF OneProcess, AuthTypeOK, Post
  <2>2. \A q \in Posts : post'[q] = IF InFlight(q) THEN [post[q] EXCEPT !.pc = "done"] ELSE post[q]
    BY <2>1 DEF CrashAuth
  <2>. QED
    BY <2>1, <2>2 DEF InFlight, Post
<1>3. CredentialsTraced'
  BY <1>1, <1>2 DEF AuthInv, CredentialsTraced
<1>4. TasksOwnRows' /\ WaitingIsWanted'
  BY <1>1 DEF TasksOwnRows, WaitingIsWanted
<1>5. AcceptedByAPost'
  <2>. SUFFICES ASSUME NEW j \in Invocations, row[j].status # "ABSENT"
       PROVE  \E o \in Posts : post'[o].inv = j /\ post'[o].pc \notin {"new", "accept"}
    BY <1>0 DEF AcceptedByAPost
  <2>1. PICK o \in Posts : post[o].inv = j /\ post[o].pc \notin {"new", "accept"}
    BY DEF AuthInv, AcceptedByAPost
  <2>. QED
    BY <1>2, <2>1
<1>6. PlainRequests'
  BY <1>0, <1>1, <1>2 DEF PlainRequests, HookAuthOpen
<1>. QED
  BY <1>3, <1>4, <1>5, <1>6 DEF AuthInv

-----------------------------------------------------------------------------
(* Types.  A table of credentials keeps its type when one entry is set.     *)
Credentials == [Pods -> [Invocations -> Posts \cup {NoPost}]]

(* Storing a credential in the registry, or giving it to a hook, keeps both tables in their *)
(* type.                                                                                    *)
LEMMA SetType ==
  ASSUME AuthTypeOK, NEW p \in Pods, NEW i, NEW q \in Posts \cup {NoPost}
  PROVE  /\ SetReg(p, i, q) => reg' \in Credentials
         /\ SetHook(p, i, q) => hook' \in Credentials
<1>1. [reg[p] EXCEPT ![i] = q] \in [Invocations -> Posts \cup {NoPost}]
  BY DEF AuthTypeOK
<1>2. [hook[p] EXCEPT ![i] = q] \in [Invocations -> Posts \cup {NoPost}]
  BY DEF AuthTypeOK
<1>3. SetReg(p, i, q) => reg' \in Credentials
  BY <1>1 DEF SetReg, Credentials, AuthTypeOK
<1>4. SetHook(p, i, q) => hook' \in Credentials
  BY <1>2 DEF SetHook, Credentials, AuthTypeOK
<1>. QED
  BY <1>3, <1>4

(* Giving up a credential removes from two tables.                          *)
LEMMA ReleaseType ==
  ASSUME AuthTypeOK, NEW q \in Posts, NEW keep, Release(q, keep)
  PROVE  open' \subseteq Posts /\ reg' \in Credentials
<1>1. post[q].pod \in Pods
  BY DEF AuthTypeOK, Post
<1>2. open' \subseteq Posts
  BY DEF AuthTypeOK, Release
<1>3. reg' = reg \/ SetReg(post[q].pod, post[q].inv, NoPost)
  BY DEF Release
<1>. QED
  BY <1>1, <1>2, <1>3, SetType DEF AuthTypeOK, Credentials

(* The handler of one request moves, and answers with the state it got.     *)
LEMMA PostType ==
  ASSUME AuthTypeOK, NEW q \in Posts, NEW pc \in {"new", "accept", "answer", "wait", "done"},
         NEW queued \in BOOLEAN
  PROVE  /\ post' = [post EXCEPT ![q].pc = pc] => post' \in [Posts -> Post]
         /\ post' = [post EXCEPT ![q] = [post[q] EXCEPT !.pc = pc, !.queued = queued]]
              => post' \in [Posts -> Post]
<1>0. post[q] \in Post
  BY DEF AuthTypeOK
<1>1. [post[q] EXCEPT !.pc = pc] \in Post
  BY <1>0 DEF Post
<1>2. [post[q] EXCEPT !.pc = pc, !.queued = queued] \in Post
  BY <1>0 DEF Post
<1>3. [post EXCEPT ![q].pc = pc] = [post EXCEPT ![q] = [post[q] EXCEPT !.pc = pc]]
  BY DEF AuthTypeOK
<1>. QED
  BY <1>1, <1>2, <1>3 DEF AuthTypeOK

(* A handler's steps keep the types. *)
LEMMA HandlerType == ASSUME AuthTypeOK, NEW q \in Posts, Handler(q) PROVE AuthTypeOK'
<1>1. starting' = starting /\ hook' = hook /\ cancels' \in 0..MaxCancels
  <2>1. UNCHANGED <<starting, hook>>
    BY DEF Handler, Accepted, Answer, WaitOver, CancelPost
  <2>2. cancels' = cancels \/ (cancels < MaxCancels /\ cancels' = cancels + 1)
    BY DEF Handler, Accepted, Answer, WaitOver, CancelPost
  <2>3. cancels \in 0..MaxCancels
    BY DEF AuthTypeOK
  <2>. QED
    BY <2>1, <2>2, <2>3
<1>2. open' \subseteq Posts /\ reg' \in Credentials
  <2>1. UNCHANGED <<open, reg>> \/ \E keep \in BOOLEAN : Release(q, keep)
    BY DEF Handler, Accepted, Answer, WaitOver, CancelPost, KeepsAuth
  <2>. QED
    BY <2>1, ReleaseType DEF AuthTypeOK, Credentials
<1>3. post' \in [Posts -> Post]
  <2>1. CASE WaitOver(q) \/ CancelPost(q)
    <3>1. post' = [post EXCEPT ![q].pc = "done"]
      BY <2>1 DEF WaitOver, CancelPost
    <3>. QED
      BY <3>1, PostType
  <2>2. CASE Answer(q)
    <3>1. \E pc \in {"wait", "done"} : post' = [post EXCEPT ![q].pc = pc]
      BY <2>2 DEF Answer
    <3>. QED
      BY <3>1, PostType
  <2>3. CASE Accepted(q)
    <3>1. \/ post' = [post EXCEPT ![q].pc = "done"]
          \/ \E queued \in BOOLEAN :
               post' = [post EXCEPT ![q] = [post[q] EXCEPT !.pc = "answer", !.queued = queued]]
      BY <2>3 DEF Accepted
    <3>. QED
      BY <3>1, PostType
  <2>. QED
    BY <2>1, <2>2, <2>3 DEF Handler
<1>. QED
  BY <1>1, <1>2, <1>3 DEF AuthTypeOK, Credentials

(* A hook that starts or ends keeps the types. *)
LEMMA HookType ==
  ASSUME AuthTypeOK, NEW p \in Pods, NEW i \in Invocations,
         StartHook(p, i) \/ LeaveAuth(p, i)
  PROVE  AuthTypeOK'
<1>1. CASE StartHook(p, i)
  <2>1. reg[p][i] \in Posts \cup {NoPost}
    BY DEF AuthTypeOK
  <2>2. /\ SetReg(p, i, NoPost)
        /\ SetHook(p, i, reg[p][i]) \/ UNCHANGED hook
        /\ starting' = starting \ {<<p, i>>} /\ open' \subseteq open /\ UNCHANGED <<post, cancels>>
    BY <1>1 DEF StartHook
  <2>3. reg' \in Credentials /\ hook' \in Credentials
    BY <2>1, <2>2, SetType DEF AuthTypeOK, Credentials
  <2>. QED
    BY <2>2, <2>3 DEF AuthTypeOK, Credentials
<1>2. CASE LeaveAuth(p, i)
  <2>1. SetHook(p, i, NoPost) /\ open' \subseteq open /\ UNCHANGED <<post, reg, starting, cancels>>
    BY <1>2 DEF LeaveAuth
  <2>2. hook' \in Credentials
    BY <2>1, SetType
  <2>. QED
    BY <2>1, <2>2 DEF AuthTypeOK, Credentials
<1>. QED
  BY <1>1, <1>2

(* Every step of request handling keeps the types. *)
LEMMA NextAuthType == ASSUME AuthTypeOK, [ANext]_requestVars PROVE AuthTypeOK'
<1>1. CASE UNCHANGED authVars
  BY <1>1 DEF authVars, AuthTypeOK
<1>2. ASSUME NEW q \in Posts, NEW p \in Pods, NEW i \in Invocations, NEW sync \in BOOLEAN,
             Arrive(q, p, i, sync)
      PROVE  AuthTypeOK'
  <2>1. open' \subseteq Posts /\ reg' \in Credentials
    BY <1>2, SetType DEF Arrive, AuthTypeOK, Credentials
  <2>2. [pc |-> "accept", pod |-> p, inv |-> i, sync |-> sync,
         registered |-> reg[p][i] = NoPost, queued |-> FALSE] \in Post
    BY DEF Post
  <2>3. post' \in [Posts -> Post]
    BY <1>2, <2>2 DEF Arrive, AuthTypeOK
  <2>. QED
    BY <1>2, <2>1, <2>3 DEF Arrive, AuthTypeOK, Credentials
<1>3. ASSUME NEW p \in Pods, NEW i \in Invocations, ClaimTask(p, i) \/ CancelStart(p, i)
      PROVE  AuthTypeOK'
  BY <1>3 DEF ClaimTask, CancelStart, AuthTypeOK
<1>4. ASSUME NEW p \in Pods, CrashAuth(p) PROVE AuthTypeOK'
  <2>1. [i \in Invocations |-> NoPost] \in [Invocations -> Posts \cup {NoPost}]
    OBVIOUS
  <2>2. reg' \in Credentials /\ hook' \in Credentials
    BY <1>4, <2>1 DEF CrashAuth, AuthTypeOK, Credentials
  <2>3. \A q \in Posts : [post[q] EXCEPT !.pc = "done"] \in Post /\ post[q] \in Post
    <3>1. \A q \in Posts : post[q] \in Post
      BY DEF AuthTypeOK
    <3>2. ASSUME NEW r \in Post PROVE [r EXCEPT !.pc = "done"] \in Post
      BY DEF Post
    <3>. QED
      BY <3>1, <3>2
  <2>4. post' \in [Posts -> Post]
    BY <1>4, <2>3 DEF CrashAuth
  <2>. QED
    BY <1>4, <2>2, <2>4 DEF CrashAuth, AuthTypeOK, Credentials
<1>5. ASSUME NEW p \in Pods, NEW i \in Invocations, EmitAuth(p, i) PROVE UNCHANGED authVars
  BY <1>5 DEF EmitAuth
<1>6. ASSUME Unrelated \/ UNCHANGED requestVars PROVE UNCHANGED authVars
  BY <1>6 DEF Unrelated, requestVars, authVars
<1>7. ASSUME NEW p \in Pods, NEW i \in Invocations,
             \/ ClaimTask(p, i) \/ StartHook(p, i) \/ EmitAuth(p, i)
             \/ LeaveAuth(p, i) \/ CancelStart(p, i)
      PROVE  AuthTypeOK'
  <2>1. CASE ClaimTask(p, i) \/ CancelStart(p, i)
    BY <1>3, <2>1
  <2>2. CASE EmitAuth(p, i)
    BY <1>1, <1>5, <2>2
  <2>3. CASE StartHook(p, i) \/ LeaveAuth(p, i)
    BY <2>3, HookType
  <2>. QED
    BY <1>7, <2>1, <2>2, <2>3
<1>8. ASSUME NEW q \in Posts, Handler(q) PROVE AuthTypeOK'
  BY <1>8, HandlerType
<1>9. CASE Unrelated \/ UNCHANGED requestVars
  BY <1>1, <1>6, <1>9
<1>10. CASE ANext /\ ~Unrelated
  BY <1>2, <1>4, <1>7, <1>8, <1>10 DEF ANext
<1>. QED
  BY <1>9, <1>10

(* Every step of request handling in one process keeps the invariant. *)
LEMMA NextAuthInv ==
  ASSUME OneProcess, TypeOK, QueueInv, AuthTypeOK, AuthTypeOK', AuthInv, [ANext]_requestVars
  PROVE  AuthInv'
<1>1. CASE Unrelated
  BY <1>1, UnrelatedIsQuiet, QuietKeeps DEF Unrelated
<1>2. CASE UNCHANGED requestVars
  <2>1. UNCHANGED authVars /\ row' = row /\ task' = task /\ faults' = faults
    BY <1>2 DEF requestVars, authVars
  <2>2. Quiet
    BY <2>1, SameRowsQuiet
  <2>. QED
    BY <2>1, <2>2, QuietKeeps
<1>3. ASSUME NEW p \in Pods, NEW i \in Invocations, EmitAuth(p, i) PROVE AuthInv'
  <2>1. UNCHANGED authVars /\ row' = row /\ task' = task /\ faults' = faults
    BY <1>3 DEF EmitAuth, Emit, AppendEvent
  <2>2. Quiet
    BY <2>1, SameRowsQuiet
  <2>. QED
    BY <2>1, <2>2, QuietKeeps
<1>. QED
  BY <1>1, <1>2, <1>3, HandlerKeeps, ArriveKeeps, ClaimKeeps, StartKeeps, LeaveKeeps,
     CancelStartKeeps, CrashKeeps
     DEF ANext

(* There are no credentials at first. *)
LEMMA InitAuth == AInit => AuthTypeOK /\ AuthInv
<1>. SUFFICES ASSUME AInit PROVE AuthTypeOK /\ AuthInv
  OBVIOUS
<1>1. \A q \in Posts : post[q] \in Post /\ post[q].pc = "new"
  BY DEF AInit, Post
<1>2. AuthTypeOK
  BY <1>1 DEF AInit, AuthTypeOK
<1>3. \A p \in Pods, i \in Invocations :
        task[p][i].pc = "none" /\ row[i].status = "ABSENT"
  BY DEF AInit, Init, StoreInit, NoTask, AbsentRow
<1>4. /\ \A p \in Pods, i \in Invocations : reg[p][i] = NoPost /\ hook[p][i] = NoPost
      /\ open = {} /\ starting = {}
  BY DEF AInit
<1>5. AuthInv
  BY <1>1, <1>3, <1>4
     DEF AuthInv, CredentialsTraced, TasksOwnRows, WaitingIsWanted, AcceptedByAPost, PlainRequests,
         HookAuthOpen
<1>. QED
  BY <1>2, <1>5

(* The invariant of the credentials in a single process: an open one is     *)
(* registered or in the hook of the invocation it was brought for; one that *)
(* is registered belongs to an invocation nobody has begun to execute.      *)
THEOREM CredentialInvariant ==
  OneProcess => (ASpec => [](TypeOK /\ QueueInv /\ AuthTypeOK /\ AuthInv))
<1>. SUFFICES ASSUME OneProcess PROVE ASpec => [](TypeOK /\ QueueInv /\ AuthTypeOK /\ AuthInv)
  OBVIOUS
<1>. DEFINE Inv == TypeOK /\ QueueInv /\ AuthTypeOK /\ AuthInv
<1>1. AInit => Inv
  BY InitType, InitQueue, InitAuth DEF AInit
<1>2. Inv /\ [ANext]_requestVars => Inv'
  <2>. SUFFICES ASSUME Inv, [ANext]_requestVars PROVE Inv'
    OBVIOUS
  <2>1. TypeOK' /\ QueueInv'
    BY AuthKeepsQueue DEF AuthInv
  <2>2. AuthTypeOK'
    BY NextAuthType
  <2>3. AuthInv'
    BY <2>2, NextAuthInv
  <2>. QED
    BY <2>1, <2>2, <2>3
<1>. QED
  BY <1>1, <1>2, PTL DEF ASpec

(* In a single process a first attempt that starts finds the credential its *)
(* request brought, and no handler closes it under the hook that runs - as  *)
(* long as no client repeats an id, no request is cut short and, for the    *)
(* first, the process does not fail (_invoke_request, _execute).            *)
THEOREM FirstAttemptsAreAuthorized == OneProcess => (ASpec => []HooksHaveTheirAuth)
<1>. SUFFICES ASSUME OneProcess PROVE ASpec => []HooksHaveTheirAuth
  OBVIOUS
<1>1. AuthTypeOK /\ AuthInv => HooksHaveTheirAuth
  BY DEF AuthInv, PlainRequests, HooksHaveTheirAuth, FirstAttemptFindsAuth, HookKeepsAuth,
         FirstAttemptAuthorized
<1>. QED
  BY <1>1, CredentialInvariant, PTL

(* In a single process no credential outlives its use, whatever clients     *)
(* repeat, whichever handlers are cancelled and wherever the process dies:  *)
(* the handler that brought it is in flight, its invocation is yet to be    *)
(* executed, or a hook runs with it.                                        *)
THEOREM NoCredentialIsLeft == OneProcess => (ASpec => []CredentialsReleased)
<1>. SUFFICES ASSUME OneProcess PROVE ASpec => []CredentialsReleased
  OBVIOUS
<1>1. AuthTypeOK /\ AuthInv => CredentialsReleased
  <2>. SUFFICES ASSUME AuthTypeOK, AuthInv, NEW q \in open,
                       ~InFlight(q), hook[post[q].pod][post[q].inv] # q
       PROVE  /\ reg[post[q].pod][post[q].inv] = q
              /\ row[post[q].inv].status \notin Terminal
    BY DEF CredentialsReleased
  <2>1. PICK p \in Pods, i \in Invocations : BroughtBy(q, p, i) /\ q \in {reg[p][i], hook[p][i]}
    BY DEF AuthInv, CredentialsTraced
  <2>2. reg[p][i] = q /\ q # NoPost
    BY <2>1 DEF BroughtBy, AuthTypeOK
  <2>3. row[i].status \notin Terminal
    BY <2>2 DEF AuthInv, WaitingIsWanted
  <2>. QED
    BY <2>1, <2>2, <2>3 DEF BroughtBy
<1>. QED
  BY <1>1, CredentialInvariant, PTL

-----------------------------------------------------------------------------
(* Bindings.                                                                  *)



EnvValues == {None, TRUE} \cup Nat \cup Names \cup ModelNames
Envs      == [EnvKeys -> EnvValues]
DepPcs    == {"idle", "prepare", "bindings", "memory", "session", "models", "yaml", "sync", "rollout", "grants"}
Deploys   == [pc : DepPcs, n : Nat, doc : Doc, read : Nat, kept : Doc,
              memory : Names \cup {None}, session : Names \cup {None}, tracing : {"bound", "unbound", "failed"},
              id : Nat \cup {None}, todo : SUBSET Roles, env : Envs, upload : Doc, raced : BOOLEAN]
Commands  == [held : BOOLEAN, doc : Doc, read : Nat]

(* One service backs one role and one prompt one key. *)
Own(doc) ==
  \A r, q \in Roles :
    r # q => /\ doc.models[r] # None => doc.models[r] # doc.models[q]
             /\ doc.prompts[r] # None => doc.prompts[r] # doc.prompts[q]

(* A name is borne by a store of its kind and name. *)
StoresAre(m, s) ==
  \A k \in Kinds, n \in Names : s[k][n] \in 0..Len(m) /\ (s[k][n] # 0 => m[s[k][n]] = <<k, n>>)

(* A command that nobody has overtaken holds an edit of the file. *)
CommandIs(c, t, e) ==
  c.read <= e /\ Own(c.doc) /\ (c.held /\ c.read = e => c.doc \in Edits(t))

(* What the second reading of a deploy took from a document. *)
BindingsOf(d, doc) ==
  d.memory = doc.memory /\ d.session = doc.session /\ (d.tracing = "unbound" <=> ~doc.tracing)

(* The env that a deploy writes, whatever was there before. *)
EnvIs(env, d) ==
  /\ \A r \in Roles : env[r] = d.doc.models[r]
  /\ env["session"] = d.session
  /\ env["memory"] = IF d.memory = None THEN None ELSE d.id
  /\ (env["cors"] # None) <=> d.doc.cors
  /\ d.tracing # "failed" => ((env["tracing"] # None) <=> d.tracing = "bound")

(* What a deploy knows of the file, unless it was overtaken. *)
ReadingIs(d, t, e) ==
  /\ d.read <= e /\ Own(d.doc)
  /\ d.pc = "prepare" => d.doc = [d.kept EXCEPT !.cors = d.doc.cors] /\ (d.read = e => t = d.kept)
  /\ d.pc \in {"bindings", "memory", "session", "models", "yaml", "sync"} /\ d.read = e => t = d.doc
  /\ d.pc \in {"memory", "session", "models", "yaml", "sync"} /\ d.read = e => BindingsOf(d, d.doc)
  /\ d.pc \in {"memory", "session", "models"} => d.tracing # "failed"
  /\ d.pc \in {"rollout", "grants"} /\ ~d.raced => d.upload = d.doc /\ BindingsOf(d, d.doc)

(* What it has made, and written for its version. *)
IsThere(d, m, ro) ==
  /\ d.pc \in {"session", "models", "yaml", "sync", "rollout", "grants"} /\ d.memory # None =>
       d.id \in DOMAIN m /\ m[d.id] = <<"memory", d.memory>>
  /\ d.pc = "models" => \A r \in Roles \ d.todo : d.doc.models[r] # None => ro[d.doc.models[r]] # "absent"
  /\ d.pc \in {"yaml", "sync", "rollout", "grants"} =>
       \A r \in Roles : d.doc.models[r] # None => ro[d.doc.models[r]] # "absent"
Written(d, y, run) ==
  /\ d.pc = "sync" => EnvIs(y, d)
  /\ d.pc \in {"rollout", "grants"} => EnvIs(d.env, d)
  /\ d.pc = "grants" => run = [env |-> d.env, doc |-> d.upload, traced |-> d.tracing, raced |-> d.raced,
                               reported |-> FALSE, told |-> {}]

(* VersionsAgree and GrantedOrTold, in their variables. *)
VersionIs(run, m, ro) ==
  /\ \A r \in Roles : run.env[r] \in ModelNames \cup {None}
  /\ run.env["memory"] # None => run.env["memory"] \in DOMAIN m
  /\ ~run.raced =>
     /\ \A r \in Roles : /\ run.env[r] = run.doc.models[r]
                         /\ run.env[r] # None => ro[run.env[r]] # "absent"
     /\ run.env["session"] = run.doc.session
     /\ (run.env["memory"] # None) <=> (run.doc.memory # None)
     /\ run.env["memory"] # None => m[run.env["memory"]] = <<"memory", run.doc.memory>>
     /\ (run.env["cors"] # None) <=> run.doc.cors
     /\ run.traced # "failed" => ((run.env["tracing"] # None) <=> run.doc.tracing)
Settled(run, m, g) ==
  run.reported =>
    LET settled == g \cup run.told IN
    /\ run.env["memory"] # None => <<"memory", run.env["memory"]>> \in settled
    /\ run.env["session"] # None =>
         \E i \in 0..Len(m) : /\ <<"session", i>> \in settled
                              /\ i # 0 => m[i] = <<"session", run.env["session"]>>
    /\ \A r \in Roles :
         /\ run.env[r] # None => <<"model", run.env[r]>> \in settled
         /\ ~run.raced /\ run.doc.prompts[r] # None =>
              <<"prompt", run.doc.prompts[r]>> \in settled

BindTypes(t, e, c, y, d, m, s, ro) ==
  /\ t \in Doc /\ e \in Nat /\ c \in Commands /\ y \in Envs /\ d \in Deploys
  /\ m \in Seq(Kinds \X Names) /\ s \in [Kinds -> [Names -> Nat]]
  /\ ro \in [ModelNames -> {"absent", "default", "other"}]

BindInv ==
  /\ BindTypes(toml, edition, cli, yaml, dep, made, store, routed)
  /\ Own(toml) /\ StoresAre(made, store) /\ CommandIs(cli, toml, edition)
  /\ ReadingIs(dep, toml, edition) /\ IsThere(dep, made, routed) /\ Written(dep, yaml, running)
  /\ VersionIs(running, made, routed) /\ Settled(running, made, granted)

(* The fields of a document. *)
LEMMA DocIs ==
  ASSUME NEW doc
  PROVE  doc \in Doc <=>
           /\ doc = [memory |-> doc.memory, session |-> doc.session, tracing |-> doc.tracing, models |-> doc.models,
                     prompts |-> doc.prompts, tool |-> doc.tool, cors |-> doc.cors, named |-> doc.named]
           /\ doc.memory \in Names \cup {None} /\ doc.session \in Names \cup {None} /\ doc.tracing \in BOOLEAN
           /\ doc.models \in [Roles -> ModelNames \cup {None}] /\ doc.prompts \in [Roles -> Prompts \cup {None}]
           /\ doc.tool \in Configs \cup {None} /\ doc.cors \in BOOLEAN /\ doc.named \in BOOLEAN
  BY DEF Doc

(* A project begins with documents that bind nothing twice. *)
LEMMA ScaffoldIs ==
  ASSUME NEW n \in Names \cup {None}
  PROVE  /\ Scaffold(n) \in Doc /\ Own(Scaffold(n))
         /\ \A doc \in Cloned(n) : doc \in Doc /\ Own(doc)
<1>1. Scaffold(n) \in Doc
  BY DEF Scaffold, Doc, Nothing
<1>2. Own(Scaffold(n))
  BY DEF Scaffold, Own, Nothing
<1>3. ASSUME NEW r \in Roles, NEW s \in ModelNames, NEW p \in Prompts
      PROVE  ClonedWith(n, r, s, p) \in Doc /\ Own(ClonedWith(n, r, s, p))
  <2>. DEFINE doc == ClonedWith(n, r, s, p)
  <2>1. doc \in Doc
    BY <1>1 DEF Doc, ClonedWith
  <2>2. doc.models = [Nothing EXCEPT ![r] = s] /\ doc.prompts = [Nothing EXCEPT ![r] = p]
    BY DEF Scaffold, ClonedWith
  <2>3. Own(doc)
    <3>. HIDE DEF doc
    <3>1. \A q \in Roles : q # r => doc.models[q] = None /\ doc.prompts[q] = None
      BY <2>2 DEF Nothing
    <3>2. doc.models[r] = s /\ doc.prompts[r] = p /\ s # None /\ p # None
      BY <2>2, BindAssumption DEF Nothing
    <3>. QED
      BY <3>1, <3>2 DEF Own
  <2>. QED
    BY <2>1, <2>3
<1>4. ASSUME NEW doc \in Cloned(n)
      PROVE  doc \in Doc /\ Own(doc)
  <2>1. PICK r \in Roles, s \in ModelNames, p \in Prompts :
          doc = ClonedWith(n, r, s, p)
    BY DEF Cloned
  <2>. QED
    BY <2>1, <1>3
<1>. QED
  BY <1>1, <1>2, <1>4

(* An edit changes one table, and binds nothing twice. *)
LEMMA EditIs ==
  ASSUME NEW doc \in Doc, Own(doc), NEW new \in Edits(doc)
  PROVE  /\ new \in Doc /\ Own(new)
         /\ \E k \in DOMAIN doc : \A j \in DOMAIN doc : j # k => new[j] = doc[j]
<1>. DEFINE Is(d) == /\ d \in Doc /\ Own(d)
                     /\ \E k \in DOMAIN doc : \A j \in DOMAIN doc : j # k => d[j] = doc[j]
<1>0. DOMAIN doc = {"memory", "session", "tracing", "models", "prompts", "tool", "cors", "named"}
  BY DEF Doc
<1>1. ASSUME NEW n \in Names \cup {None}, NEW k \in Kinds
      PROVE  Is([doc EXCEPT ![k] = n])
  <2>. DEFINE d == [doc EXCEPT ![k] = n]
  <2>1. k = "memory" \/ k = "session"
    BY DEF Kinds
  <2>2. d \in Doc /\ d.models = doc.models /\ d.prompts = doc.prompts
    BY <2>1 DEF Doc
  <2>3. k \in DOMAIN doc /\ \A j \in DOMAIN doc : j # k => d[j] = doc[j]
    BY <1>0, <2>1
  <2>4. Own(d)
    <3>. HIDE DEF d
    <3>. QED
      BY <2>2 DEF Own
  <2>. QED
    BY <2>2, <2>3, <2>4, Zenon
<1>2. CASE new \in BindStore(doc) \cup UnbindStore(doc)
  <2>1. PICK k \in Kinds, n \in Names \cup {None} : new = [doc EXCEPT ![k] = n]
    BY <1>2 DEF BindStore, UnbindStore
  <2>. QED
    BY <2>1, <1>1
<1>3. CASE new \in BindTracing(doc)
  BY <1>0, <1>3 DEF BindTracing, Doc, Own
<1>4. CASE new \in AddTool(doc) \cup RemoveTool(doc)
  BY <1>0, <1>4 DEF AddTool, RemoveTool, Doc, Own
<1>5. CASE new \in BindModel(doc)
  BY <1>0, <1>5, BindAssumption DEF BindModel, Doc, Own
<1>6. CASE new \in UnbindModel(doc)
  BY <1>0, <1>6 DEF UnbindModel, Doc, Own
<1>7. CASE new \in BindPrompt(doc)
  BY <1>0, <1>7, BindAssumption DEF BindPrompt, Doc, Own
<1>8. CASE new \in UnbindPrompt(doc)
  BY <1>0, <1>8 DEF UnbindPrompt, Doc, Own
<1>. QED
  BY <1>2, <1>3, <1>4, <1>5, <1>6, <1>7, <1>8 DEF Edits

(* What the invariant says after a step, by the fields that the step gives. *)
LEMMA BindHolds ==
  ASSUME NEW t, NEW e, NEW c, NEW y, NEW d, NEW m, NEW s, NEW ro, NEW g, NEW run,
         toml' = t, edition' = e, cli' = c, yaml' = y, dep' = d, made' = m, store' = s, routed' = ro,
         granted' = g, running' = run,
         BindTypes(t, e, c, y, d, m, s, ro), Own(t), StoresAre(m, s), CommandIs(c, t, e),
         ReadingIs(d, t, e), IsThere(d, m, ro), Written(d, y, run), VersionIs(run, m, ro), Settled(run, m, g)
  PROVE  BindInv'
  BY DEF BindInv

(* The fields of a deploy. *)
LEMMA DeployIs ==
  ASSUME BindInv
  PROVE  /\ dep \in Deploys /\ dep.pc \in DepPcs /\ dep.n \in Nat /\ dep.doc \in Doc /\ dep.read \in Nat
         /\ dep.kept \in Doc /\ dep.memory \in Names \cup {None} /\ dep.session \in Names \cup {None}
         /\ dep.tracing \in {"bound", "unbound", "failed"} /\ dep.id \in Nat \cup {None}
         /\ dep.todo \in SUBSET Roles /\ dep.env \in Envs /\ dep.upload \in Doc /\ dep.raced \in BOOLEAN
         /\ dep.doc.memory \in Names \cup {None} /\ dep.doc.session \in Names \cup {None}
         /\ dep.doc.tracing \in BOOLEAN /\ dep.doc.cors \in BOOLEAN
         /\ dep.doc.models \in [Roles -> ModelNames \cup {None}]
         /\ dep.doc.prompts \in [Roles -> Prompts \cup {None}]
<1>1. dep \in Deploys
  BY DEF BindInv, BindTypes
<1>2. dep.doc \in Doc
  BY <1>1 DEF Deploys
<1>. QED
  BY <1>1, <1>2, DocIs DEF Deploys

(* The types. *)
LEMMA TypesAre ==
  ASSUME BindInv
  PROVE  /\ toml \in Doc /\ edition \in Nat /\ cli \in Commands /\ yaml \in Envs /\ dep \in Deploys
         /\ made \in Seq(Kinds \X Names) /\ store \in [Kinds -> [Names -> Nat]]
         /\ routed \in [ModelNames -> {"absent", "default", "other"}]
         /\ cli.held \in BOOLEAN /\ cli.doc \in Doc /\ cli.read \in Nat
  BY DEF BindInv, BindTypes, Commands

(* What the edition that nobody has written says stays. *)
LEMMA WritesOvertake ==
  ASSUME NEW d, NEW t, NEW new, NEW e \in Nat, d.read \in Nat, d.read <= e, ReadingIs(d, t, e),
         d.pc # "prepare"
  PROVE  ReadingIs(d, new, e + 1)
  BY DEF ReadingIs

(* An env that is updated has what the deploy found bound, and no more. *)
LEMMA EnvWritten ==
  ASSUME BindInv, dep.pc = "yaml"
  PROVE  LET env == UpsertEnv(yaml, Updates, Removals, Roles)
         IN  env \in Envs /\ EnvIs(env, dep)
<1>. DEFINE env == UpsertEnv(yaml, Updates, Removals, Roles)
            U == Updates
            R == Removals
<1>1. /\ dep.memory # None => dep.id \in Nat
      /\ dep.memory \in Names \cup {None} /\ dep.session \in Names \cup {None}
      /\ dep.doc.models \in [Roles -> ModelNames \cup {None}]
      /\ dep.tracing \in {"bound", "unbound", "failed"} /\ dep.doc.cors \in BOOLEAN /\ yaml \in Envs
  <2>1. dep.memory # None => dep.id \in Nat
    BY TypesAre DEF BindInv, IsThere
  <2>. QED
    BY <2>1, DeployIs, TypesAre
<1>2. /\ \A r \in Roles : r \notin R
      /\ "memory" \in R <=> dep.memory = None
      /\ "session" \in R <=> dep.session = None
      /\ "tracing" \in R <=> dep.tracing = "unbound"
      /\ "cors" \in R <=> ~dep.doc.cors
  BY BindAssumption DEF Removals, Kinds
<1>3. DOMAIN U = {k \in Kinds : dep[k] # None} \cup {k \in {"tracing"} : dep.tracing = "bound"}
                 \cup {k \in {"cors"} : dep.doc.cors} \cup {r \in Roles : dep.doc.models[r] # None}
  BY DEF Updates
<1>4. /\ \A r \in Roles : r \in DOMAIN U <=> dep.doc.models[r] # None
      /\ "memory" \in DOMAIN U <=> dep.memory # None
      /\ "session" \in DOMAIN U <=> dep.session # None
      /\ "tracing" \in DOMAIN U <=> dep.tracing = "bound"
      /\ "cors" \in DOMAIN U <=> dep.doc.cors
  BY <1>3, BindAssumption DEF Kinds
<1>5. /\ \A r \in Roles : r \in DOMAIN U => U[r] = dep.doc.models[r]
      /\ "memory" \in DOMAIN U => U["memory"] = dep.id
      /\ "session" \in DOMAIN U => U["session"] = dep.session
      /\ "tracing" \in DOMAIN U => U["tracing"] = TRUE
      /\ "cors" \in DOMAIN U => U["cors"] = TRUE
  BY <1>3, BindAssumption DEF Updates, Kinds
<1>. HIDE DEF U, R
<1>6. DOMAIN env = EnvKeys /\ \A k \in EnvKeys :
        env[k] = IF k \in R THEN None ELSE IF k \in DOMAIN U THEN U[k] ELSE IF k \in Roles THEN None ELSE yaml[k]
  BY DEF UpsertEnv, U, R
<1>. HIDE DEF env
<1>7. /\ \A r \in Roles : env[r] = dep.doc.models[r]
      /\ env["session"] = dep.session
      /\ env["memory"] = IF dep.memory = None THEN None ELSE dep.id
  BY <1>1, <1>2, <1>4, <1>5, <1>6 DEF EnvKeys
<1>8. (env["cors"] # None) <=> dep.doc.cors
  BY <1>2, <1>4, <1>5, <1>6, BindAssumption DEF EnvKeys
<1>9. dep.tracing # "failed" => ((env["tracing"] # None) <=> dep.tracing = "bound")
  BY <1>1, <1>2, <1>4, <1>5, <1>6, BindAssumption DEF EnvKeys
<1>10. env["cors"] \in EnvValues /\ env["tracing"] \in EnvValues
  BY <1>1, <1>2, <1>4, <1>5, <1>6 DEF EnvKeys, EnvValues, Envs
<1>11. env \in Envs
  <2>1. \A k \in EnvKeys : env[k] \in EnvValues
    BY <1>1, <1>7, <1>10 DEF EnvKeys, EnvValues
  <2>2. env = [k \in EnvKeys |-> env[k]]
    BY DEF env, UpsertEnv
  <2>. QED
    BY <2>1, <2>2 DEF Envs
<1>. QED
  BY <1>7, <1>8, <1>9, <1>11 DEF EnvIs, env, U, R

(* No deploy knows, has made and has written nothing. *)
LEMMA NoDeployIs ==
  ASSUME NEW n \in Nat
  PROVE  /\ NoDeploy(n) \in Deploys /\ NoDeploy(n).pc = "idle"
         /\ \A t, e : e \in Nat => ReadingIs(NoDeploy(n), t, e)
         /\ \A m, ro : IsThere(NoDeploy(n), m, ro)
         /\ \A y, run : Written(NoDeploy(n), y, run)
<1>1. Scaffold(None) \in Doc /\ Own(Scaffold(None))
  BY ScaffoldIs
<1>2. NoEnv \in Envs
  BY DEF NoEnv, Envs, EnvValues
<1>3. NoDeploy(n) \in Deploys
  BY <1>1, <1>2 DEF NoDeploy, Deploys, DepPcs
<1>4. NoDeploy(n).pc = "idle" /\ NoDeploy(n).doc = Scaffold(None) /\ NoDeploy(n).read = 0
  BY DEF NoDeploy
<1>. QED
  BY <1>1, <1>3, <1>4 DEF ReadingIs, IsThere, Written

(* A step of a deploy that changes nothing else. *)
LEMMA DeployGoes ==
  ASSUME BindInv, OnlyDeploy, NEW d \in Deploys, dep' = d,
         ReadingIs(d, toml, edition), IsThere(d, made, routed), Written(d, yaml, running)
  PROVE  BindInv'
<1>1. /\ toml' = toml /\ edition' = edition /\ cli' = cli /\ yaml' = yaml /\ made' = made /\ store' = store
      /\ routed' = routed /\ granted' = granted /\ running' = running
  BY DEF OnlyDeploy
<1>2. BindTypes(toml, edition, cli, yaml, d, made, store, routed)
  BY DEF BindInv, BindTypes
<1>. QED
  BY <1>1, <1>2, BindHolds DEF BindInv

(* A command reads and edits the file. *)
LEMMA EditKeeps ==
  ASSUME BindInv, Edit
  PROVE  BindInv'
<1>1. PICK doc \in Edits(toml) : cli' = [held |-> TRUE, doc |-> doc, read |-> edition]
  BY DEF Edit
<1>2. toml \in Doc /\ Own(toml) /\ edition \in Nat
  BY TypesAre DEF BindInv
<1>3. doc \in Doc /\ Own(doc)
  BY <1>2, EditIs
<1>. DEFINE c == [held |-> TRUE, doc |-> doc, read |-> edition]
<1>4. c \in Commands /\ CommandIs(c, toml, edition)
  BY <1>2, <1>3 DEF Commands, CommandIs
<1>. HIDE DEF c
<1>5. /\ toml' = toml /\ edition' = edition /\ cli' = c /\ yaml' = yaml /\ made' = made /\ store' = store
      /\ routed' = routed /\ granted' = granted /\ running' = running /\ dep' = dep
  BY <1>1 DEF Edit, c
<1>6. BindTypes(toml, edition, c, yaml, dep, made, store, routed)
  BY <1>4 DEF BindInv, BindTypes
<1>. QED
  BY <1>4, <1>5, <1>6, BindHolds DEF BindInv

(* No command holds anything. *)
LEMMA NoCliHolds == NoCli \in Commands /\ \A t, e : e \in Nat => CommandIs(NoCli, t, e)
<1>1. Scaffold(None) \in Doc /\ Own(Scaffold(None))
  BY ScaffoldIs
<1>. QED
  BY <1>1 DEF NoCli, Commands, CommandIs

(* A command writes the file. *)
LEMMA SaveKeeps ==
  ASSUME BindInv, Save
  PROVE  BindInv'
<1>1. /\ toml' = cli.doc /\ edition' = edition + 1 /\ cli' = NoCli /\ yaml' = yaml /\ made' = made
      /\ store' = store /\ routed' = routed /\ granted' = granted /\ running' = running /\ dep' = dep
  BY DEF Save
<1>2. cli.doc \in Doc /\ edition + 1 \in Nat /\ Own(cli.doc) /\ edition \in Nat
  BY TypesAre DEF BindInv, CommandIs
<1>3. BindTypes(cli.doc, edition + 1, NoCli, yaml, dep, made, store, routed)
  BY <1>2, NoCliHolds DEF BindInv, BindTypes
<1>4. ReadingIs(dep, cli.doc, edition + 1)
  <2>1. ReadingIs(dep, toml, edition) /\ dep.read \in Nat
    BY DeployIs DEF BindInv
  <2>2. dep.read <= edition + 1 /\ dep.read # edition + 1
    BY <2>1, <1>2 DEF ReadingIs
  <2>. QED
    BY <2>1, <2>2 DEF ReadingIs
<1>. QED
  BY <1>1, <1>2, <1>3, <1>4, NoCliHolds, BindHolds DEF BindInv

(* A command that gives up. *)
LEMMA NotThereKeeps ==
  ASSUME BindInv, NotThere
  PROVE  BindInv'
<1>1. /\ toml' = toml /\ edition' = edition /\ cli' = NoCli /\ yaml' = yaml /\ made' = made
      /\ store' = store /\ routed' = routed /\ granted' = granted /\ running' = running /\ dep' = dep
  BY DEF NotThere
<1>2. BindTypes(toml, edition, NoCli, yaml, dep, made, store, routed) /\ edition \in Nat
  BY NoCliHolds DEF BindInv, BindTypes
<1>. QED
  BY <1>1, <1>2, NoCliHolds, BindHolds DEF BindInv

(* A deploy reads the file. *)
LEMMA LoadKeeps ==
  ASSUME BindInv, Load
  PROVE  BindInv'
<1>1. PICK origins \in BOOLEAN :
        dep' = [NoDeploy(dep.n + 1) EXCEPT !.pc = "prepare", !.doc = [toml EXCEPT !.cors = origins],
                                           !.read = edition, !.kept = toml]
  BY DEF Load
<1>. DEFINE doc == [toml EXCEPT !.cors = origins]
            d == [NoDeploy(dep.n + 1) EXCEPT !.pc = "prepare", !.doc = doc, !.read = edition, !.kept = toml]
<1>2. toml \in Doc /\ Own(toml) /\ edition \in Nat /\ dep.n + 1 \in Nat
  BY TypesAre, DeployIs DEF BindInv
<1>3. doc \in Doc /\ doc.models = toml.models /\ doc.prompts = toml.prompts /\ doc = [toml EXCEPT !.cors = doc.cors]
  BY <1>2 DEF Doc
<1>. HIDE DEF doc
<1>4. Own(doc)
  BY <1>2, <1>3 DEF Own
<1>5. /\ d \in Deploys /\ d.pc = "prepare" /\ d.doc = doc /\ d.read = edition /\ d.kept = toml
  <2>. DEFINE base == NoDeploy(dep.n + 1)
  <2>1. base \in Deploys
    BY <1>2, NoDeployIs
  <2>. HIDE DEF base
  <2>2. [base EXCEPT !.pc = "prepare", !.doc = doc, !.read = edition, !.kept = toml] \in Deploys
    BY <2>1, <1>2, <1>3 DEF Deploys, DepPcs
  <2>3. d = [base EXCEPT !.pc = "prepare", !.doc = doc, !.read = edition, !.kept = toml]
    BY DEF base
  <2>. HIDE DEF d
  <2>. QED
    BY <2>1, <2>2, <2>3 DEF Deploys
<1>6. dep' = d
  BY <1>1 DEF doc
<1>. HIDE DEF d
<1>7. ReadingIs(d, toml, edition) /\ IsThere(d, made, routed) /\ Written(d, yaml, running)
  BY <1>2, <1>3, <1>4, <1>5 DEF ReadingIs, IsThere, Written
<1>. QED
  BY <1>5, <1>6, <1>7, DeployGoes DEF Load

(* A deploy that fails. *)
LEMMA DeployFailsKeeps ==
  ASSUME BindInv, DeployFails
  PROVE  BindInv'
  BY NoDeployIs, DeployGoes, DeployIs, TypesAre DEF DeployFails

Grows(m, new) == Len(m) <= Len(new) /\ \A i \in DOMAIN m : i \in DOMAIN new /\ new[i] = m[i]
Stay(ro, new) == \A s \in ModelNames : ro[s] # "absent" => new[s] # "absent"

(* Stores are never forgotten, and services never vanish. *)
LEMMA StaysTrue ==
  ASSUME NEW m, NEW m2, NEW ro, NEW ro2, NEW g, NEW g2, m \in Seq(Kinds \X Names), m2 \in Seq(Kinds \X Names),
         Grows(m, m2), Stay(ro, ro2), g \subseteq g2
  PROVE  /\ \A d \in Deploys : IsThere(d, m, ro) => IsThere(d, m2, ro2)
         /\ \A run : VersionIs(run, m, ro) => VersionIs(run, m2, ro2)
         /\ \A run : Settled(run, m, g) => Settled(run, m2, g2)
<1>1. ASSUME NEW d \in Deploys, IsThere(d, m, ro)
      PROVE  IsThere(d, m2, ro2)
  <2>1. \A r \in Roles : d.doc.models[r] # None => d.doc.models[r] \in ModelNames
    BY DEF Deploys, Doc
  <2>2. \A r \in Roles : d.doc.models[r] # None /\ ro[d.doc.models[r]] # "absent" => ro2[d.doc.models[r]] # "absent"
    BY <2>1 DEF Stay
  <2>. QED
    BY <1>1, <2>2 DEF IsThere, Grows
<1>2. ASSUME NEW run, VersionIs(run, m, ro)
      PROVE  VersionIs(run, m2, ro2)
  <2>1. run.env["memory"] # None => run.env["memory"] \in DOMAIN m2 /\ m2[run.env["memory"]] = m[run.env["memory"]]
    BY <1>2 DEF VersionIs, Grows
  <2>2. ~run.raced => \A r \in Roles : run.env[r] # None => ro2[run.env[r]] # "absent"
    BY <1>2 DEF VersionIs, Stay
  <2>. QED
    BY <1>2, <2>1, <2>2 DEF VersionIs
<1>3. ASSUME NEW run, Settled(run, m, g)
      PROVE  Settled(run, m2, g2)
  <2>. SUFFICES ASSUME run.reported
                PROVE  LET settled == g2 \cup run.told IN
                       /\ run.env["memory"] # None => <<"memory", run.env["memory"]>> \in settled
                       /\ run.env["session"] # None =>
                            \E i \in 0..Len(m2) : /\ <<"session", i>> \in settled
                                                  /\ i # 0 => m2[i] = <<"session", run.env["session"]>>
                       /\ \A r \in Roles :
                            /\ run.env[r] # None => <<"model", run.env[r]>> \in settled
                            /\ ~run.raced /\ run.doc.prompts[r] # None =>
                                 <<"prompt", run.doc.prompts[r]>> \in settled
    BY DEF Settled
  <2>1. ASSUME run.env["session"] # None
        PROVE  \E i \in 0..Len(m2) : /\ <<"session", i>> \in g2 \cup run.told
                                     /\ i # 0 => m2[i] = <<"session", run.env["session"]>>
    <3>1. PICK i \in 0..Len(m) : /\ <<"session", i>> \in g \cup run.told
                                 /\ i # 0 => m[i] = <<"session", run.env["session"]>>
      BY <1>3, <2>1 DEF Settled
    <3>2. i \in 0..Len(m2) /\ (i # 0 => i \in DOMAIN m)
      BY <3>1 DEF Grows
    <3>3. i # 0 => m2[i] = m[i]
      BY <3>2 DEF Grows
    <3>. QED
      BY <3>1, <3>2, <3>3
  <2>. QED
    BY <1>3, <2>1 DEF Settled
<1>. QED
  BY <1>1, <1>2, <1>3

(* A store that is made bears its name. *)
LEMMA MadeIs ==
  ASSUME BindInv, NEW k \in Kinds, NEW n \in Names, Made(k, n)
  PROVE  /\ made' \in Seq(Kinds \X Names) /\ store' \in [Kinds -> [Names -> Nat]]
         /\ StoresAre(made', store') /\ Grows(made, made')
         /\ store'[k][n] \in DOMAIN made' /\ made'[store'[k][n]] = <<k, n>>
<1>1. made \in Seq(Kinds \X Names) /\ store \in [Kinds -> [Names -> Nat]] /\ StoresAre(made, store)
  BY TypesAre DEF BindInv
<1>2. made' = Append(made, <<k, n>>) /\ store' = [store EXCEPT ![k][n] = Len(made) + 1]
  BY DEF Made
<1>3. made' \in Seq(Kinds \X Names) /\ Len(made') = Len(made) + 1 /\ Len(made) \in Nat
      /\ DOMAIN made = 1..Len(made) /\ DOMAIN made' = 1..(Len(made) + 1)
      /\ made'[Len(made) + 1] = <<k, n>> /\ \A i \in 1..Len(made) : made'[i] = made[i]
  BY <1>1, <1>2
<1>4. /\ store' \in [Kinds -> [Names -> Nat]] /\ store'[k][n] = Len(made) + 1
      /\ \A j \in Kinds, x \in Names : ~(j = k /\ x = n) => store'[j][x] = store[j][x]
  BY <1>1, <1>2, <1>3
<1>5. StoresAre(made', store')
  <2>. SUFFICES ASSUME NEW j \in Kinds, NEW x \in Names
                PROVE  store'[j][x] \in 0..Len(made') /\ (store'[j][x] # 0 => made'[store'[j][x]] = <<j, x>>)
    BY DEF StoresAre
  <2>1. CASE j = k /\ x = n
    BY <2>1, <1>3, <1>4
  <2>2. CASE ~(j = k /\ x = n)
    <3>1. store[j][x] \in 0..Len(made) /\ (store[j][x] # 0 => made[store[j][x]] = <<j, x>>)
      BY <1>1 DEF StoresAre
    <3>2. store'[j][x] = store[j][x]
      BY <2>2, <1>4
    <3>3. store[j][x] # 0 => store[j][x] \in 1..Len(made)
      BY <3>1, <1>3
    <3>. QED
      BY <3>1, <3>2, <3>3, <1>3
  <2>. QED
    BY <2>1, <2>2
<1>6. Grows(made, made')
  BY <1>3 DEF Grows
<1>. QED
  BY <1>3, <1>4, <1>5, <1>6

(* A step of a deploy that makes stores or services, and what stays true. *)
LEMMA DeployMakes ==
  ASSUME BindInv, UNCHANGED <<toml, edition, cli, yaml, granted, running>>,
         NEW d \in Deploys, dep' = d, ReadingIs(d, toml, edition),
         NEW m \in Seq(Kinds \X Names), NEW s \in [Kinds -> [Names -> Nat]],
         NEW ro \in [ModelNames -> {"absent", "default", "other"}],
         made' = m, store' = s, routed' = ro, StoresAre(m, s), Grows(made, m), Stay(routed, ro),
         IsThere(d, m, ro), Written(d, yaml, running)
  PROVE  BindInv'
<1>1. /\ toml' = toml /\ edition' = edition /\ cli' = cli /\ yaml' = yaml
      /\ granted' = granted /\ running' = running
  OBVIOUS
<1>2. BindTypes(toml, edition, cli, yaml, d, m, s, ro)
  BY DEF BindInv, BindTypes
<1>3. VersionIs(running, m, ro) /\ Settled(running, m, granted)
  BY StaysTrue, TypesAre DEF BindInv
<1>. QED
  BY <1>1, <1>2, <1>3, BindHolds DEF BindInv

(* Nothing is made, and nothing vanishes. *)
LEMMA NothingMade ==
  ASSUME BindInv
  PROVE  /\ Grows(made, made) /\ Stay(routed, routed)
         /\ \A k \in Kinds, n \in Names : store[k][n] # 0 =>
              store[k][n] \in DOMAIN made /\ made[store[k][n]] = <<k, n>>
<1>1. made \in Seq(Kinds \X Names) /\ store \in [Kinds -> [Names -> Nat]] /\ StoresAre(made, store)
  BY TypesAre DEF BindInv
<1>2. Len(made) \in Nat /\ DOMAIN made = 1..Len(made)
  BY <1>1
<1>. QED
  BY <1>1, <1>2 DEF Grows, Stay, StoresAre

(* A deploy keeps its name and origins in the file. *)
LEMMA PersistKeeps ==
  ASSUME BindInv, Persist
  PROVE  BindInv'
<1>. DEFINE doc == [dep.doc EXCEPT !.named = TRUE]
            changed == doc # dep.kept
            read == IF changed /\ dep.read = edition THEN edition + 1 ELSE dep.read
            d == [dep EXCEPT !.pc = "bindings", !.doc = doc, !.kept = Scaffold(None), !.read = read]
<1>1. /\ dep \in Deploys /\ dep.pc = "prepare" /\ edition \in Nat /\ toml \in Doc /\ dep.doc \in Doc
      /\ Own(dep.doc) /\ dep.read <= edition /\ (dep.read = edition => toml = dep.kept) /\ dep.read \in Nat
  BY DeployIs, TypesAre DEF BindInv, ReadingIs, Persist, DepAt
<1>2. doc \in Doc /\ doc.models = dep.doc.models /\ doc.prompts = dep.doc.prompts
  BY <1>1 DEF Doc
<1>3. /\ dep' = d /\ yaml' = yaml /\ made' = made /\ store' = store /\ routed' = routed
      /\ granted' = granted /\ running' = running /\ cli' = cli
      /\ toml' = (IF changed THEN doc ELSE toml) /\ edition' = (IF changed THEN edition + 1 ELSE edition)
  BY DEF Persist
<1>. HIDE DEF doc
<1>4. Own(doc)
  BY <1>1, <1>2 DEF Own
<1>5. read \in Nat
  BY <1>1
<1>6. d \in Deploys /\ d.pc = "bindings" /\ d.doc = doc /\ d.read = read
  <2>. HIDE DEF read
  <2>1. Scaffold(None) \in Doc
    BY ScaffoldIs
  <2>. QED
    BY <2>1, <1>1, <1>2, <1>5 DEF Deploys, DepPcs
<1>. HIDE DEF d
<1>7. \A m, ro : IsThere(d, m, ro)
  BY <1>6 DEF IsThere
<1>8. \A y, run : Written(d, y, run)
  BY <1>6 DEF Written
<1>9. CASE changed
  <2>1. toml' = doc /\ edition' = edition + 1
    BY <1>3, <1>9
  <2>2. ReadingIs(d, doc, edition + 1)
    BY <1>1, <1>4, <1>6 DEF ReadingIs
  <2>3. CommandIs(cli, doc, edition + 1)
    BY <1>1, TypesAre DEF BindInv, CommandIs
  <2>4. BindTypes(doc, edition + 1, cli, yaml, d, made, store, routed)
    BY <1>1, <1>2, <1>6 DEF BindInv, BindTypes
  <2>. QED
    BY <2>1, <2>2, <2>3, <2>4, <1>3, <1>4, <1>7, <1>8, BindHolds DEF BindInv
<1>10. CASE ~changed
  <2>1. toml' = toml /\ edition' = edition
    BY <1>3, <1>10
  <2>2. ReadingIs(d, toml, edition)
    BY <1>1, <1>4, <1>6, <1>10 DEF ReadingIs
  <2>3. BindTypes(toml, edition, cli, yaml, d, made, store, routed)
    BY <1>6 DEF BindInv, BindTypes
  <2>. QED
    BY <2>1, <2>2, <2>3, <1>3, <1>7, <1>8, BindHolds DEF BindInv
<1>. QED
  BY <1>9, <1>10

(* A deploy reads the file again. *)
LEMMA ResourceBindingsKeeps ==
  ASSUME BindInv, ResourceBindings
  PROVE  BindInv'
<1>. DEFINE tracing == IF toml.tracing THEN "bound" ELSE "unbound"
            d == [dep EXCEPT !.pc = "memory", !.memory = toml.memory, !.session = toml.session, !.tracing = tracing]
<1>1. /\ dep \in Deploys /\ dep.pc = "bindings" /\ ReadingIs(dep, toml, edition) /\ dep' = d /\ OnlyDeploy
  BY DeployIs DEF ResourceBindings, DepAt, BindInv
<1>2. toml.memory \in Names \cup {None} /\ toml.session \in Names \cup {None} /\ toml.tracing \in BOOLEAN
  BY TypesAre, DocIs
<1>3. /\ d \in Deploys /\ d.pc = "memory" /\ d.doc = dep.doc /\ d.read = dep.read /\ d.memory = toml.memory
      /\ d.session = toml.session /\ d.tracing = tracing
  BY <1>1, <1>2 DEF Deploys, DepPcs
<1>. HIDE DEF d
<1>4. ReadingIs(d, toml, edition)
  BY <1>1, <1>2, <1>3 DEF ReadingIs, BindingsOf
<1>5. IsThere(d, made, routed) /\ Written(d, yaml, running)
  BY <1>3 DEF IsThere, Written
<1>. QED
  BY <1>1, <1>3, <1>4, <1>5, DeployGoes

(* The memory store that a deploy goes on with is there. *)
LEMMA ReconcileMemoryKeeps ==
  ASSUME BindInv, ReconcileMemory
  PROVE  BindInv'
<1>1. dep \in Deploys /\ dep.pc = "memory" /\ ReadingIs(dep, toml, edition) /\ dep.memory \in Names \cup {None}
  BY DeployIs DEF ReconcileMemory, DepAt, BindInv
<1>2. UNCHANGED <<toml, edition, cli, yaml, granted, running>> /\ routed' = routed
  BY DEF ReconcileMemory
<1>3. CASE dep.memory = None
  <2>. DEFINE d == [dep EXCEPT !.pc = "session"]
  <2>1. dep' = d /\ made' = made /\ store' = store
    BY <1>3 DEF ReconcileMemory, Onto
  <2>2. /\ d \in Deploys /\ d.pc = "session" /\ d.doc = dep.doc /\ d.read = dep.read /\ d.memory = dep.memory
        /\ d.session = dep.session /\ d.tracing = dep.tracing
    BY <1>1 DEF Deploys, DepPcs
  <2>. HIDE DEF d
  <2>3. ReadingIs(d, toml, edition)
    BY <1>1, <2>2 DEF ReadingIs, BindingsOf
  <2>4. IsThere(d, made, routed) /\ Written(d, yaml, running)
    BY <1>3, <2>2 DEF IsThere, Written
  <2>. QED
    BY <1>2, <2>1, <2>2, <2>3, <2>4, NothingMade, TypesAre, DeployMakes DEF BindInv
<1>4. CASE dep.memory # None
  <2>. DEFINE id == store'["memory"][dep.memory]
              d == [dep EXCEPT !.pc = "session", !.id = id]
  <2>1. /\ dep' = d
        /\ Made("memory", dep.memory) \/ (store["memory"][dep.memory] # 0 /\ UNCHANGED <<made, store>>)
    BY <1>4 DEF ReconcileMemory
  <2>2. /\ made' \in Seq(Kinds \X Names) /\ store' \in [Kinds -> [Names -> Nat]]
        /\ StoresAre(made', store') /\ Grows(made, made')
        /\ id \in DOMAIN made' /\ made'[id] = <<"memory", dep.memory>>
    <3>1. "memory" \in Kinds /\ dep.memory \in Names
      BY <1>1, <1>4 DEF Kinds
    <3>2. CASE Made("memory", dep.memory)
      BY <3>1, <3>2, MadeIs
    <3>3. CASE store["memory"][dep.memory] # 0 /\ UNCHANGED <<made, store>>
      BY <3>1, <3>3, NothingMade, TypesAre DEF BindInv
    <3>. QED
      BY <2>1, <3>2, <3>3
  <2>3. id \in Nat
    BY <2>2
  <2>. HIDE DEF id
  <2>4. /\ d \in Deploys /\ d.pc = "session" /\ d.doc = dep.doc /\ d.read = dep.read /\ d.memory = dep.memory
        /\ d.session = dep.session /\ d.tracing = dep.tracing /\ d.id = id
    BY <1>1, <2>3 DEF Deploys, DepPcs
  <2>. HIDE DEF d
  <2>5. ReadingIs(d, toml, edition)
    BY <1>1, <2>4 DEF ReadingIs, BindingsOf
  <2>6. IsThere(d, made', routed) /\ Written(d, yaml, running)
    BY <2>2, <2>4 DEF IsThere, Written
  <2>. QED
    BY <1>2, <2>1, <2>2, <2>4, <2>5, <2>6, NothingMade, TypesAre, DeployMakes
<1>. QED
  BY <1>3, <1>4

(* A session store is made for a deploy, or is there. *)
LEMMA ReconcileSessionKeeps ==
  ASSUME BindInv, ReconcileSession
  PROVE  BindInv'
<1>. DEFINE todo == {r \in Roles : dep.doc.models[r] # None}
            d == [dep EXCEPT !.pc = "models", !.todo = todo]
<1>1. /\ dep \in Deploys /\ dep.pc = "session" /\ ReadingIs(dep, toml, edition) /\ dep.session \in Names \cup {None}
      /\ IsThere(dep, made, routed)
  BY DeployIs DEF ReconcileSession, DepAt, BindInv
<1>2. UNCHANGED <<toml, edition, cli, yaml, granted, running>> /\ routed' = routed /\ dep' = d
  BY DEF ReconcileSession
<1>3. /\ made' \in Seq(Kinds \X Names) /\ store' \in [Kinds -> [Names -> Nat]]
      /\ StoresAre(made', store') /\ Grows(made, made')
  <2>1. CASE UNCHANGED <<made, store>>
    BY <2>1, NothingMade, TypesAre DEF BindInv
  <2>2. CASE dep.session # None /\ Made("session", dep.session)
    <3>1. "session" \in Kinds /\ dep.session \in Names
      BY <1>1, <2>2 DEF Kinds
    <3>. QED
      BY <3>1, <2>2, MadeIs
  <2>. QED
    BY <2>1, <2>2 DEF ReconcileSession
<1>4. /\ d \in Deploys /\ d.pc = "models" /\ d.doc = dep.doc /\ d.read = dep.read /\ d.memory = dep.memory
      /\ d.session = dep.session /\ d.tracing = dep.tracing /\ d.id = dep.id /\ d.todo = todo
  BY <1>1 DEF Deploys, DepPcs
<1>. HIDE DEF d
<1>5. ReadingIs(d, toml, edition)
  BY <1>1, <1>4 DEF ReadingIs, BindingsOf
<1>6. IsThere(d, made', routed) /\ Written(d, yaml, running)
  BY <1>1, <1>3, <1>4 DEF IsThere, Written, Grows
<1>. QED
  BY <1>2, <1>3, <1>4, <1>5, <1>6, NothingMade, TypesAre, DeployMakes

(* The model service of a role is there once the deploy has come to it. *)
LEMMA ReconcileModelKeeps ==
  ASSUME BindInv, NEW r \in Roles, ReconcileModel(r)
  PROVE  BindInv'
<1>. DEFINE d == [dep EXCEPT !.todo = dep.todo \ {r}]
            s == dep.doc.models[r]
            ro == [routed EXCEPT ![s] = Routed(routed[s])]
<1>1. /\ dep \in Deploys /\ dep.pc = "models" /\ ReadingIs(dep, toml, edition) /\ IsThere(dep, made, routed)
      /\ dep.doc.models \in [Roles -> ModelNames \cup {None}]
      /\ routed \in [ModelNames -> {"absent", "default", "other"}]
  BY DeployIs, TypesAre DEF ReconcileModel, DepAt, BindInv
<1>2. /\ UNCHANGED <<toml, edition, cli, yaml, granted, running>> /\ routed' = ro /\ dep' = d
      /\ made' = made /\ store' = store
  BY DEF ReconcileModel
<1>3. /\ d \in Deploys /\ d.pc = "models" /\ d.doc = dep.doc /\ d.read = dep.read /\ d.memory = dep.memory
      /\ d.session = dep.session /\ d.tracing = dep.tracing /\ d.id = dep.id /\ d.todo = dep.todo \ {r}
  BY <1>1 DEF Deploys
<1>. HIDE DEF d
<1>4. /\ ro \in [ModelNames -> {"absent", "default", "other"}] /\ Stay(routed, ro)
      /\ s \in ModelNames => ro[s] # "absent"
  BY <1>1 DEF Routed, Stay
<1>. HIDE DEF ro
<1>5. ReadingIs(d, toml, edition)
  BY <1>1, <1>3 DEF ReadingIs, BindingsOf
<1>6. \A q \in Roles \ d.todo : dep.doc.models[q] # None => ro[dep.doc.models[q]] # "absent"
  BY <1>1, <1>3, <1>4 DEF IsThere, Stay
<1>7. IsThere(d, made, ro) /\ Written(d, yaml, running)
  BY <1>1, <1>3, <1>6 DEF IsThere, Written
<1>. QED
  BY <1>2, <1>3, <1>4, <1>5, <1>7, NothingMade, TypesAre, DeployMakes DEF BindInv

(* An experiment may fail to resolve only where one is bound. *)
LEMMA ReconcileTracingKeeps ==
  ASSUME BindInv, ReconcileTracing
  PROVE  BindInv'
<1>1. PICK t \in IF dep.tracing = "bound" THEN {"bound", "failed"} ELSE {"unbound"} :
        dep' = [dep EXCEPT !.pc = "yaml", !.tracing = t]
  BY DEF ReconcileTracing
<1>. DEFINE d == [dep EXCEPT !.pc = "yaml", !.tracing = t]
<1>2. /\ dep \in Deploys /\ dep.pc = "models" /\ dep.todo = {} /\ ReadingIs(dep, toml, edition)
      /\ IsThere(dep, made, routed) /\ OnlyDeploy
  BY DeployIs DEF ReconcileTracing, DepAt, BindInv
<1>3. /\ d \in Deploys /\ d.pc = "yaml" /\ d.doc = dep.doc /\ d.read = dep.read /\ d.memory = dep.memory
      /\ d.session = dep.session /\ d.tracing = t /\ d.id = dep.id
  BY <1>2 DEF Deploys, DepPcs
<1>4. dep' = d
  BY <1>1
<1>. HIDE DEF d
<1>5. ReadingIs(d, toml, edition)
  <2>1. dep.tracing \in {"bound", "unbound", "failed"} /\ dep.doc.tracing \in BOOLEAN
    BY DeployIs
  <2>2. dep.tracing # "failed"
    BY <1>2 DEF ReadingIs
  <2>3. (t = "unbound") <=> (dep.tracing = "unbound")
    BY <2>1, <2>2
  <2>. QED
    BY <1>2, <1>3, <2>3 DEF ReadingIs, BindingsOf
<1>6. IsThere(d, made, routed) /\ Written(d, yaml, running)
  BY <1>2, <1>3 DEF IsThere, Written
<1>. QED
  BY <1>2, <1>3, <1>4, <1>5, <1>6, DeployGoes

(* The env is written. *)
LEMMA WriteEnvKeeps ==
  ASSUME BindInv, WriteEnv
  PROVE  BindInv'
<1>. DEFINE d == [dep EXCEPT !.pc = "sync"]
            y == UpsertEnv(yaml, Updates, Removals, Roles)
<1>1. /\ dep \in Deploys /\ dep.pc = "yaml" /\ ReadingIs(dep, toml, edition) /\ IsThere(dep, made, routed)
  BY DeployIs DEF WriteEnv, DepAt, BindInv
<1>2. /\ dep' = d /\ yaml' = y /\ toml' = toml /\ edition' = edition /\ cli' = cli /\ made' = made
      /\ store' = store /\ routed' = routed /\ granted' = granted /\ running' = running
  BY DEF WriteEnv, Onto
<1>3. y \in Envs /\ EnvIs(y, dep)
  BY <1>1, EnvWritten
<1>. HIDE DEF y
<1>4. /\ d \in Deploys /\ d.pc = "sync" /\ d.doc = dep.doc /\ d.read = dep.read /\ d.memory = dep.memory
      /\ d.session = dep.session /\ d.tracing = dep.tracing /\ d.id = dep.id
  BY <1>1 DEF Deploys, DepPcs
<1>. HIDE DEF d
<1>5. ReadingIs(d, toml, edition)
  BY <1>1, <1>4 DEF ReadingIs, BindingsOf
<1>6. IsThere(d, made, routed) /\ Written(d, y, running)
  BY <1>1, <1>3, <1>4 DEF IsThere, Written, EnvIs
<1>7. BindTypes(toml, edition, cli, y, d, made, store, routed)
  BY <1>3, <1>4 DEF BindInv, BindTypes
<1>. QED
  BY <1>2, <1>5, <1>6, <1>7, BindHolds DEF BindInv

(* Both files are uploaded as they are. *)
LEMMA SyncKeeps ==
  ASSUME BindInv, Sync
  PROVE  BindInv'
<1>. DEFINE raced == dep.read # edition
            d == [dep EXCEPT !.pc = "rollout", !.env = yaml, !.upload = toml, !.raced = raced]
<1>1. /\ dep \in Deploys /\ dep.pc = "sync" /\ ReadingIs(dep, toml, edition) /\ IsThere(dep, made, routed)
      /\ Written(dep, yaml, running) /\ dep' = d /\ OnlyDeploy /\ toml \in Doc /\ yaml \in Envs
  BY DeployIs, TypesAre DEF Sync, DepAt, BindInv
<1>2. /\ d \in Deploys /\ d.pc = "rollout" /\ d.doc = dep.doc /\ d.read = dep.read /\ d.memory = dep.memory
      /\ d.session = dep.session /\ d.tracing = dep.tracing /\ d.id = dep.id /\ d.env = yaml /\ d.upload = toml
      /\ d.raced = raced
  BY <1>1 DEF Deploys, DepPcs
<1>. HIDE DEF d
<1>3. ReadingIs(d, toml, edition)
  BY <1>1, <1>2 DEF ReadingIs, BindingsOf
<1>4. IsThere(d, made, routed) /\ Written(d, yaml, running)
  BY <1>1, <1>2 DEF IsThere, Written, EnvIs
<1>. QED
  BY <1>1, <1>2, <1>3, <1>4, DeployGoes

(* The version that is rolled out has the env that was written for it. *)
LEMMA RollOutKeeps ==
  ASSUME BindInv, RollOut
  PROVE  BindInv'
<1>. DEFINE d == [dep EXCEPT !.pc = "grants"]
            run == [env |-> dep.env, doc |-> dep.upload, traced |-> dep.tracing, raced |-> dep.raced,
                    reported |-> FALSE, told |-> {}]
<1>1. /\ dep \in Deploys /\ dep.pc = "rollout" /\ ReadingIs(dep, toml, edition) /\ IsThere(dep, made, routed)
      /\ Written(dep, yaml, running)
  BY DeployIs DEF RollOut, DepAt, BindInv
<1>2. /\ dep' = d /\ yaml' = yaml /\ toml' = toml /\ edition' = edition /\ cli' = cli /\ made' = made
      /\ store' = store /\ routed' = routed /\ granted' = granted /\ running' = run
  BY DEF RollOut, Onto
<1>3. /\ d \in Deploys /\ d.pc = "grants" /\ d.doc = dep.doc /\ d.read = dep.read /\ d.memory = dep.memory
      /\ d.session = dep.session /\ d.tracing = dep.tracing /\ d.id = dep.id /\ d.env = dep.env
      /\ d.upload = dep.upload /\ d.raced = dep.raced
  BY <1>1 DEF Deploys, DepPcs
<1>. HIDE DEF d
<1>4. ReadingIs(d, toml, edition)
  BY <1>1, <1>3 DEF ReadingIs, BindingsOf
<1>5. IsThere(d, made, routed) /\ Written(d, yaml, run)
  BY <1>1, <1>3 DEF IsThere, Written, EnvIs
<1>6. BindTypes(toml, edition, cli, yaml, d, made, store, routed)
  BY <1>3 DEF BindInv, BindTypes
<1>7. /\ run.env = dep.env /\ run.doc = dep.upload /\ run.traced = dep.tracing /\ run.raced = dep.raced
      /\ run.reported = FALSE
  OBVIOUS
<1>. HIDE DEF run
<1>8. EnvIs(dep.env, dep)
  BY <1>1 DEF Written
<1>9. dep.memory # None => dep.id \in DOMAIN made /\ made[dep.id] = <<"memory", dep.memory>> /\ dep.id # None
  <2>1. dep.memory # None => dep.id \in DOMAIN made /\ made[dep.id] = <<"memory", dep.memory>>
    BY <1>1 DEF IsThere
  <2>2. DOMAIN made \subseteq Nat
    BY TypesAre
  <2>. QED
    BY <2>1, <2>2, BindAssumption
<1>10. VersionIs(run, made, routed)
  <2>1. /\ \A r \in Roles : dep.env[r] = dep.doc.models[r] /\ dep.doc.models[r] \in ModelNames \cup {None}
        /\ \A r \in Roles : dep.doc.models[r] # None => routed[dep.doc.models[r]] # "absent"
    BY <1>1, <1>8, DeployIs DEF EnvIs, IsThere
  <2>2. dep.env["memory"] = IF dep.memory = None THEN None ELSE dep.id
    BY <1>8 DEF EnvIs
  <2>3. ASSUME ~dep.raced
        PROVE  /\ dep.upload = dep.doc /\ dep.memory = dep.doc.memory /\ dep.session = dep.doc.session
               /\ (dep.tracing = "unbound") <=> ~dep.doc.tracing
    BY <1>1, <2>3 DEF ReadingIs, BindingsOf
  <2>4. dep.tracing \in {"bound", "unbound", "failed"} /\ dep.doc.tracing \in BOOLEAN
    BY DeployIs
  <2>5. ~dep.raced => (dep.tracing # "failed" => ((dep.env["tracing"] # None) <=> dep.upload.tracing))
    BY <1>8, <2>3, <2>4 DEF EnvIs
  <2>6. ~dep.raced => /\ dep.env["session"] = dep.upload.session
                      /\ ((dep.env["cors"] # None) <=> dep.upload.cors)
    BY <1>8, <2>3 DEF EnvIs
  <2>. QED
    BY <1>7, <1>9, <2>1, <2>2, <2>3, <2>5, <2>6 DEF VersionIs
<1>11. Settled(run, made, granted)
  BY <1>7 DEF Settled
<1>. QED
  BY <1>2, <1>4, <1>5, <1>6, <1>10, <1>11, BindHolds DEF BindInv

(* What the App was not given the user is told. *)
LEMMA GrantsKeeps ==
  ASSUME BindInv, Grants
  PROVE  BindInv'
<1>1. PICK given \in {Wanted, {}} \cup {Wanted \ {w} : w \in Wanted} :
        /\ granted' = granted \cup given
        /\ running' = [running EXCEPT !.reported = TRUE, !.told = Wanted \ given]
  BY DEF Grants
<1>2. /\ dep \in Deploys /\ dep.pc = "grants" /\ ReadingIs(dep, toml, edition) /\ IsThere(dep, made, routed)
      /\ Written(dep, yaml, running) /\ dep.n \in Nat
  BY DeployIs DEF Grants, DepAt, BindInv
<1>. DEFINE run == [running EXCEPT !.reported = TRUE, !.told = Wanted \ given]
            g == granted \cup given
<1>3. /\ dep' = NoDeploy(dep.n) /\ yaml' = yaml /\ toml' = toml /\ edition' = edition /\ cli' = cli
      /\ made' = made /\ store' = store /\ routed' = routed /\ granted' = g /\ running' = run
  BY <1>1 DEF Grants
<1>4. running = [env |-> dep.env, doc |-> dep.upload, traced |-> dep.tracing, raced |-> dep.raced,
                 reported |-> FALSE, told |-> {}] /\ EnvIs(dep.env, dep)
  BY <1>2 DEF Written
<1>5. /\ run.env = dep.env /\ run.doc = dep.upload /\ run.traced = dep.tracing /\ run.raced = dep.raced
      /\ run.told = Wanted \ given /\ running.env = dep.env /\ running.doc = dep.upload
      /\ running.traced = dep.tracing /\ running.raced = dep.raced
  BY <1>4
<1>6. Wanted \subseteq g \cup run.told
  BY <1>5
<1>. HIDE DEF run, g
<1>7. VersionIs(run, made, routed)
  BY <1>5 DEF VersionIs, BindInv
<1>8. Settled(run, made, g)
  <2>1. dep.env["memory"] # None => <<"memory", dep.env["memory"]>> \in Wanted
    BY <1>4 DEF EnvIs, Wanted
  <2>2. dep.env["session"] # None =>
          \E i \in 0..Len(made) : <<"session", i>> \in Wanted /\ (i # 0 => made[i] = <<"session", dep.env["session"]>>)
    <3>. SUFFICES ASSUME dep.env["session"] # None
                  PROVE  \E i \in 0..Len(made) : <<"session", i>> \in Wanted /\ (i # 0 => made[i] = <<"session", dep.env["session"]>>)
      OBVIOUS
    <3>1. dep.session = dep.env["session"] /\ dep.session \in Names
      BY <1>4, DeployIs DEF EnvIs
    <3>2. <<"session", store["session"][dep.session]>> \in Wanted
      BY <3>1 DEF Wanted
    <3>3. /\ store["session"][dep.session] \in 0..Len(made)
          /\ store["session"][dep.session] # 0 => made[store["session"][dep.session]] = <<"session", dep.session>>
      BY <3>1 DEF BindInv, StoresAre, Kinds
    <3>. QED
      BY <3>1, <3>2, <3>3
  <2>3. ASSUME NEW r \in Roles
        PROVE  /\ dep.env[r] # None => <<"model", dep.env[r]>> \in Wanted
               /\ ~dep.raced /\ dep.upload.prompts[r] # None => <<"prompt", dep.upload.prompts[r]>> \in Wanted
    <3>1. dep.env[r] = dep.doc.models[r] /\ (~dep.raced => dep.upload = dep.doc)
      BY <1>2, <1>4 DEF EnvIs, ReadingIs
    <3>. QED
      BY <3>1 DEF Wanted
  <2>. QED
    BY <1>5, <1>6, <2>1, <2>2, <2>3 DEF Settled
<1>9. BindTypes(toml, edition, cli, yaml, NoDeploy(dep.n), made, store, routed)
  BY <1>2, NoDeployIs DEF BindInv, BindTypes
<1>10. /\ ReadingIs(NoDeploy(dep.n), toml, edition) /\ IsThere(NoDeploy(dep.n), made, routed)
       /\ Written(NoDeploy(dep.n), yaml, run)
  BY <1>2, NoDeployIs, TypesAre
<1>. QED
  BY <1>3, <1>7, <1>8, <1>9, <1>10, BindHolds DEF BindInv

(* Other owners make and delete stores, and route services elsewhere. *)
LEMMA StrangeKeeps ==
  ASSUME BindInv, Strange
  PROVE  BindInv'
<1>1. /\ UNCHANGED <<toml, edition, cli, yaml, granted, running>> /\ dep' = dep
      /\ dep \in Deploys /\ ReadingIs(dep, toml, edition) /\ IsThere(dep, made, routed) /\ Written(dep, yaml, running)
  BY DeployIs DEF Strange, BindInv
<1>2. CASE (\E k \in Kinds, n \in Names : Made(k, n)) /\ routed' = routed
  <2>1. /\ made' \in Seq(Kinds \X Names) /\ store' \in [Kinds -> [Names -> Nat]]
        /\ StoresAre(made', store') /\ Grows(made, made')
    BY <1>2, MadeIs
  <2>2. IsThere(dep, made', routed)
    BY <1>1, <2>1, NothingMade, StaysTrue, TypesAre
  <2>. QED
    BY <1>1, <1>2, <2>1, <2>2, NothingMade, TypesAre, DeployMakes
<1>3. CASE (\E k \in Kinds, n \in Names : store' = [store EXCEPT ![k][n] = 0]) /\ UNCHANGED <<made, routed>>
  <2>1. PICK k \in Kinds, n \in Names : store' = [store EXCEPT ![k][n] = 0]
    BY <1>3
  <2>2. store \in [Kinds -> [Names -> Nat]] /\ StoresAre(made, store) /\ Len(made) \in Nat
    BY TypesAre DEF BindInv
  <2>3. /\ store' \in [Kinds -> [Names -> Nat]]
        /\ \A j \in Kinds, x \in Names : store'[j][x] = store[j][x] \/ store'[j][x] = 0
    BY <2>1, <2>2
  <2>4. StoresAre(made, store')
    BY <2>2, <2>3 DEF StoresAre
  <2>. QED
    BY <1>1, <1>3, <2>3, <2>4, NothingMade, TypesAre, DeployMakes
<1>4. CASE (\E s \in ModelNames : routed' = [routed EXCEPT ![s] = "other"]) /\ UNCHANGED <<made, store>>
  <2>1. routed' \in [ModelNames -> {"absent", "default", "other"}] /\ Stay(routed, routed')
    BY <1>4, TypesAre DEF Stay
  <2>2. IsThere(dep, made, routed')
    BY <1>1, <2>1, NothingMade, StaysTrue, TypesAre
  <2>. QED
    BY <1>1, <1>4, <2>1, <2>2, NothingMade, TypesAre, DeployMakes DEF BindInv
<1>. QED
  BY <1>2, <1>3, <1>4 DEF Strange

(* A project begins with nothing made. *)
LEMMA BindInitHolds ==
  ASSUME BindInit
  PROVE  BindInv
<1>1. PICK n \in Names : toml \in {Scaffold(n), Scaffold(None)} \cup Cloned(n)
  BY DEF BindInit
<1>2. toml \in Doc /\ Own(toml)
  BY <1>1, ScaffoldIs
<1>3. /\ edition = 0 /\ cli = NoCli /\ yaml = NoEnv /\ dep = NoDeploy(0) /\ made = <<>>
      /\ store = [k \in Kinds |-> [name \in Names |-> 0]] /\ routed = [s \in ModelNames |-> "absent"]
      /\ running = NoVersion
  BY DEF BindInit
<1>4. NoEnv \in Envs
  BY DEF NoEnv, Envs, EnvValues
<1>5. BindTypes(toml, edition, cli, yaml, dep, made, store, routed)
  BY <1>2, <1>3, <1>4, NoCliHolds, NoDeployIs DEF BindTypes
<1>6. StoresAre(made, store)
  BY <1>3 DEF StoresAre
<1>7. /\ NoVersion.env = NoEnv /\ NoVersion.doc = Scaffold(None) /\ NoVersion.reported = FALSE
      /\ Scaffold(None).models = Nothing /\ Scaffold(None).session = None /\ Scaffold(None).memory = None
      /\ Scaffold(None).cors = FALSE /\ Scaffold(None).tracing = FALSE
  BY DEF NoVersion, Scaffold
<1>8. \A k \in EnvKeys : NoEnv[k] = None
  BY DEF NoEnv
<1>9. VersionIs(running, made, routed)
  BY <1>3, <1>7, <1>8 DEF VersionIs, EnvKeys, Nothing
<1>10. Settled(running, made, granted)
  BY <1>3, <1>7 DEF Settled
<1>. QED
  BY <1>2, <1>3, <1>5, <1>6, <1>9, <1>10, NoCliHolds, NoDeployIs DEF BindInv

(* Every step keeps the invariant. *)
LEMMA BindStepHolds ==
  ASSUME BindInv, [BindNext]_bindVars
  PROVE  BindInv'
<1>1. CASE UNCHANGED bindVars
  <2>1. /\ toml' = toml /\ edition' = edition /\ cli' = cli /\ yaml' = yaml /\ dep' = dep /\ made' = made
        /\ store' = store /\ routed' = routed /\ granted' = granted /\ running' = running
    BY <1>1 DEF bindVars
  <2>. QED
    BY <2>1, BindHolds DEF BindInv
<1>2. CASE Edit \/ Save \/ NotThere
  BY <1>2, EditKeeps, SaveKeeps, NotThereKeeps
<1>3. CASE Load \/ Persist \/ ResourceBindings \/ ReconcileMemory \/ ReconcileSession
  BY <1>3, LoadKeeps, PersistKeeps, ResourceBindingsKeeps, ReconcileMemoryKeeps, ReconcileSessionKeeps
<1>4. CASE \E r \in Roles : ReconcileModel(r)
  BY <1>4, ReconcileModelKeeps
<1>5. CASE ReconcileTracing \/ WriteEnv \/ Sync \/ RollOut \/ Grants \/ DeployFails \/ Strange
  BY <1>5, ReconcileTracingKeeps, WriteEnvKeeps, SyncKeeps, RollOutKeeps, GrantsKeeps, DeployFailsKeeps, StrangeKeeps
<1>. QED
  BY <1>1, <1>2, <1>3, <1>4, <1>5 DEF BindNext

(* The invariant of a project's bindings (agent_project.py, deploy_service.py): what the      *)
(* command and the deploy know of the file while nobody has overtaken them, and what the      *)
(* written, the uploaded and the running version's env say.                                   *)
THEOREM BindInvariant == BindSpec => []BindInv
  BY BindInitHolds, BindStepHolds, PTL DEF BindSpec

(* A write of the file that nobody overtook changes the tables of one command. *)
LEMMA WritesTouch ==
  ASSUME BindInv, [BindNext]_bindVars
  PROVE  WritesTouchOneTable
<1>. SUFFICES ASSUME toml' # toml
              PROVE  \/ Cardinality(Changed) = 1
                     \/ Changed \subseteq {"named", "cors"}
                     \/ cli.held /\ cli.read # edition
                     \/ DepAt("prepare") /\ dep.read # edition
  BY DEF WritesTouchOneTable
<1>1. Save \/ Persist
  BY DEF BindNext, bindVars, Edit, NotThere, Load, ResourceBindings, ReconcileMemory, ReconcileSession, ReconcileModel,
         ReconcileTracing, WriteEnv, Sync, RollOut, Grants, DeployFails, Strange, OnlyDeploy
<1>2. toml \in Doc /\ Own(toml) /\ CommandIs(cli, toml, edition) /\ ReadingIs(dep, toml, edition)
  BY TypesAre DEF BindInv
<1>3. CASE Save
  <2>. SUFFICES ASSUME cli.read = edition
                PROVE  Cardinality(Changed) = 1
    BY <1>3 DEF Save
  <2>1. toml' \in Edits(toml)
    BY <1>2, <1>3 DEF Save, CommandIs
  <2>2. PICK k \in DOMAIN toml : \A j \in DOMAIN toml : j # k => toml'[j] = toml[j]
    BY <1>2, <2>1, EditIs
  <2>3. toml' \in Doc
    BY <1>2, <2>1, EditIs
  <2>4. toml'[k] # toml[k]
    BY <1>2, <2>2, <2>3 DEF Doc
  <2>5. Changed = {k}
    BY <2>2, <2>4 DEF Changed
  <2>. QED
    BY <2>5, FS_Singleton
<1>4. CASE Persist
  <2>. SUFFICES ASSUME dep.read = edition
                PROVE  Changed \subseteq {"named", "cors"}
    BY <1>4 DEF Persist
  <2>1. dep.pc = "prepare" /\ toml' = [dep.doc EXCEPT !.named = TRUE]
    BY <1>4 DEF Persist, DepAt
  <2>2. dep.doc = [toml EXCEPT !.cors = dep.doc.cors]
    BY <1>2, <2>1 DEF ReadingIs
  <2>3. DOMAIN toml = {"memory", "session", "tracing", "models", "prompts", "tool", "cors", "named"}
    BY <1>2 DEF Doc
  <2>4. \A k \in DOMAIN toml : k # "cors" => dep.doc[k] = toml[k]
    BY <2>2
  <2>5. DOMAIN dep.doc = DOMAIN toml
    BY <2>2
  <2>6. \A k \in DOMAIN toml : k # "cors" /\ k # "named" => toml'[k] = toml[k]
    BY <2>1, <2>4, <2>5
  <2>. QED
    BY <2>6 DEF Changed
<1>. QED
  BY <1>1, <1>3, <1>4

(* Only a deploy that read no binding takes a variable away, and none routes what is routed. *)
LEMMA DeploysTake ==
  ASSUME BindInv, [BindNext]_bindVars
  PROVE  DeploysTakeNothing
<1>1. CASE WriteEnv
  <2>. DEFINE U == Updates
              R == Removals
  <2>1. yaml' = UpsertEnv(yaml, Updates, Removals, Roles) /\ routed' = routed /\ dep.pc = "yaml"
    BY <1>1 DEF WriteEnv, DepAt
  <2>2. EnvIs(yaml', dep) /\ yaml' \in Envs
    BY <2>1, EnvWritten
  <2>3. \A k \in Kinds : yaml'[k] = None => dep[k] = None
    <3>1. dep.memory # None => dep.id # None
      <4>1. IsThere(dep, made, routed) /\ made \in Seq(Kinds \X Names)
        BY TypesAre DEF BindInv
      <4>2. DOMAIN made \subseteq Nat
        BY <4>1
      <4>. QED
        BY <4>1, <4>2, <2>1, BindAssumption DEF IsThere
    <3>. QED
      BY <3>1, <2>2 DEF EnvIs, Kinds
  <2>4. yaml["tracing"] # None /\ yaml'["tracing"] = None => dep.tracing = "unbound"
    <3>1. "tracing" \in R <=> dep.tracing = "unbound"
      BY DEF Removals, Kinds
    <3>2. "tracing" \in DOMAIN U => U["tracing"] # None
      BY BindAssumption DEF Updates, Kinds
    <3>. HIDE DEF U, R
    <3>3. yaml'["tracing"] = IF "tracing" \in R THEN None ELSE IF "tracing" \in DOMAIN U THEN U["tracing"]
                             ELSE IF "tracing" \in Roles THEN None ELSE yaml["tracing"]
      BY <2>1 DEF UpsertEnv, EnvKeys, U, R
    <3>. QED
      BY <3>1, <3>2, <3>3, BindAssumption
  <2>. QED
    BY <2>1, <2>3, <2>4 DEF DeploysTakeNothing
<1>2. CASE \E r \in Roles : ReconcileModel(r)
  <2>1. PICK r \in Roles : ReconcileModel(r)
    BY <1>2
  <2>2. yaml' = yaml /\ routed' = [routed EXCEPT ![dep.doc.models[r]] = Routed(routed[dep.doc.models[r]])]
    BY <2>1 DEF ReconcileModel
  <2>3. \A s \in ModelNames : routed[s] # routed'[s] => routed[s] = "absent"
    BY <2>2, TypesAre DEF Routed
  <2>. QED
    BY <2>2, <2>3 DEF DeploysTakeNothing
<1>3. CASE ~(WriteEnv \/ \E r \in Roles : ReconcileModel(r))
  <2>1. yaml' = yaml /\ (routed' = routed \/ dep' = dep)
    BY <1>3 DEF BindNext, bindVars, Edit, NotThere, Save, Load, Persist, ResourceBindings, ReconcileMemory, ReconcileSession,
         ReconcileTracing, Sync, RollOut, Grants, DeployFails, Strange, OnlyDeploy
  <2>. QED
    BY <2>1 DEF DeploysTakeNothing
<1>. QED
  BY <1>1, <1>2, <1>3

(* BindingsAreSound (agent_project.py, deploy_service.py): a version that was uploaded with   *)
(* the agent.toml its deploy had read agrees with it, and was granted what it names or the    *)
(* user was told; a write of agent.toml that nobody overtook changes one command's tables;    *)
(* a deploy takes away nothing that is bound.                                                 *)
THEOREM BindingsStaySound == BindSpec => BindingsAreSound
<1>1. BindInv => VersionsAgree /\ RolesHaveTheirOwn /\ GrantedOrTold
  <2>1. BindInv => VersionsAgree
    BY DEF BindInv, VersionIs, VersionsAgree, Agrees
  <2>2. BindInv => RolesHaveTheirOwn
    BY DEF BindInv, Own, RolesHaveTheirOwn
  <2>3. BindInv => GrantedOrTold
    BY DEF BindInv, Settled, GrantedOrTold
  <2>. QED
    BY <2>1, <2>2, <2>3
<1>2. BindInv /\ [BindNext]_bindVars => [WritesTouchOneTable /\ DeploysTakeNothing]_bindVars
  BY WritesTouch, DeploysTake
<1>. QED
  BY <1>1, <1>2, BindInvariant, PTL DEF BindSpec, BindingsAreSound
=============================================================================
