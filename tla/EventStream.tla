---------------------------- MODULE EventStream ----------------------------
(***************************************************************************)
(* The server-sent event stream of an invocation (DurableAgentServer.      *)
(* _event_stream) on top of DurableRuntime.  A reader polls the Runtime    *)
(* Store; an emit by the pod that serves the reader also sets the reader's *)
(* `changed` event, so that the next event does not wait for the poll.     *)
(* A client that loses its connection comes back, on any pod, with the     *)
(* last cursor it received.                                                *)
(*                                                                         *)
(* Cursors are positions in the invocation's log: the order of its         *)
(* sequence_numbers, without the gaps other invocations leave.             *)
(***************************************************************************)
EXTENDS DurableRuntime

CONSTANTS Clients,
          MaxDrops      \* bound: connections lost in a behaviour

ASSUME StreamAssumption == MaxDrops \in Nat /\ Pods # {} /\ Invocations # {}

VARIABLES reader,   \* reader[c]: the generator that serves client c
          got,      \* got[c]: cursors client c received, in order
          waking,   \* waking[p][i]: cursor of an emit on p that returned but woke nobody yet
          woken,    \* woken[p][i]: cursor of the last emit on p that woke its readers
          drops

streamVars == <<reader, got, waking, woken, drops>>
allVars    == <<row, log, task, retry, faults, reader, got, waking, woken, drops>>

(* clear   about to clear `changed`       state   about to read the state   *)
(* events  about to read the events       drain   yielding what it read     *)
(* wait    waiting for `changed` or the poll timeout                        *)
(* ended   returned: the response is complete                               *)
Reader == [pc       : {"off", "clear", "state", "events", "drain", "wait", "ended"},
           pod      : Pods,
           inv      : Invocations,
           cursor   : Nat,
           upTo     : Nat,       \* cursor of the last event of the batch it read
           terminal : BOOLEAN,   \* the state it read was terminal
           changed  : BOOLEAN]

Off == [pc |-> "off", pod |-> CHOOSE p \in Pods : TRUE, inv |-> CHOOSE i \in Invocations : TRUE,
        cursor |-> 0, upTo |-> 0, terminal |-> FALSE, changed |-> FALSE]

Serving(c)   == reader[c].pc \notin {"off", "ended"}
At(c, pc)    == reader[c].pc = pc
LastGot(c) == IF got[c] = <<>> THEN 0 ELSE got[c][Len(got[c])]
Go(c, pc)    == reader' = [reader EXCEPT ![c].pc = pc]

SInit ==
  /\ Init
  /\ reader = [c \in Clients |-> Off]
  /\ got = [c \in Clients |-> <<>>]
  /\ waking = [p \in Pods |-> [i \in Invocations |-> 0]]
  /\ woken = [p \in Pods |-> [i \in Invocations |-> 0]]
  /\ drops = 0

-----------------------------------------------------------------------------
(* GET .../events?after=cursor, and the POST that streams, on any pod.  The *)
(* client keeps to the invocation it began with.                            *)
Open(c, p, i) ==
  /\ At(c, "off")
  /\ row[i].status # "ABSENT"
  /\ got[c] # <<>> => i = reader[c].inv
  /\ reader' = [reader EXCEPT ![c] = [Off EXCEPT !.pc = "clear", !.pod = p, !.inv = i,
                                                 !.cursor = LastGot(c)]]
  /\ UNCHANGED <<vars, got, waking, woken, drops>>

Clear(c) ==
  /\ At(c, "clear")
  /\ reader' = [reader EXCEPT ![c] = [reader[c] EXCEPT !.pc = "state", !.changed = FALSE]]
  /\ UNCHANGED <<vars, got, waking, woken, drops>>

ReadState_CompletedOnly(c) ==
  LET i == reader[c].inv IN
  /\ At(c, "state")
  /\ reader' = [reader EXCEPT ![c] = [reader[c] EXCEPT !.pc = "events",
                                        !.terminal = row[i].status = "COMPLETED"]]
  /\ IF row[i].status = "QUEUED" THEN ScheduleAll(reader[c].pod, {i}, FALSE) ELSE UNCHANGED task
  /\ UNCHANGED <<row, log, retry, faults, got, waking, woken, drops>>

(* get_invocation: reads the state, and schedules the invocation if it is   *)
(* still queued.                                                            *)
ReadState(c) ==
  LET i == reader[c].inv IN
  /\ At(c, "state")
  /\ reader' = [reader EXCEPT ![c] = [reader[c] EXCEPT !.pc = "events",
                                        !.terminal = row[i].status \in Terminal]]
  /\ IF row[i].status = "QUEUED" THEN ScheduleAll(reader[c].pod, {i}, FALSE) ELSE UNCHANGED task
  /\ UNCHANGED <<row, log, retry, faults, got, waking, woken, drops>>

ReadEvents(c) ==
  /\ At(c, "events")
  /\ reader' = [reader EXCEPT ![c] = [reader[c] EXCEPT !.pc = "drain",
                                        !.upTo = Len(log[reader[c].inv])]]
  /\ UNCHANGED <<vars, got, waking, woken, drops>>

(* One iteration of the for loop: the client may be slow to take it. *)
Deliver(c) ==
  /\ At(c, "drain") /\ reader[c].cursor < reader[c].upTo
  /\ reader' = [reader EXCEPT ![c].cursor = reader[c].cursor + 1]
  /\ got' = [got EXCEPT ![c] = Append(@, reader[c].cursor + 1)]
  /\ UNCHANGED <<vars, waking, woken, drops>>

Drained_FreshState(c) ==
  /\ At(c, "drain") /\ reader[c].cursor >= reader[c].upTo
  /\ Go(c, IF row[reader[c].inv].status \in Terminal THEN "ended" ELSE "wait")
  /\ UNCHANGED <<vars, got, waking, woken, drops>>

Drained(c) ==
  /\ At(c, "drain") /\ reader[c].cursor >= reader[c].upTo
  /\ Go(c, IF reader[c].terminal THEN "ended" ELSE "wait")
  /\ UNCHANGED <<vars, got, waking, woken, drops>>

(* changed.wait() returned, or poll_seconds passed *)
Again(c) ==
  /\ At(c, "wait")
  /\ Go(c, "clear")
  /\ UNCHANGED <<vars, got, waking, woken, drops>>

(* The connection is lost; the generator's finally removes the reader.      *)
Disconnect(c) ==
  /\ Serving(c)
  /\ drops < MaxDrops /\ drops' = drops + 1
  /\ Go(c, "off")
  /\ UNCHANGED <<vars, got, waking, woken>>

-----------------------------------------------------------------------------
(* The emit that DurableAgentServer gives the hook: append ...              *)
EmitOn(p, i) ==
  /\ waking[p][i] = 0
  /\ Emit(p, i)
  /\ waking' = IF Len(log'[i]) > Len(log[i])
               THEN [waking EXCEPT ![p] = [waking[p] EXCEPT ![i] = Len(log'[i])]]
               ELSE waking
  /\ UNCHANGED <<reader, got, woken, drops>>

(* ... and, once the append has returned, wake this process's readers.      *)
Wake(p, i) ==
  /\ waking[p][i] > 0
  /\ woken' = [woken EXCEPT ![p] = [woken[p] EXCEPT ![i] = waking[p][i]]]
  /\ waking' = [waking EXCEPT ![p] = [waking[p] EXCEPT ![i] = 0]]
  /\ reader' = [c \in Clients |->
                  IF Serving(c) /\ reader[c].pod = p /\ reader[c].inv = i
                  THEN [reader[c] EXCEPT !.changed = TRUE] ELSE reader[c]]
  /\ UNCHANGED <<vars, got, drops>>

CrashOn(p) ==
  /\ Crash(p)
  /\ waking' = [waking EXCEPT ![p] = [i \in Invocations |-> 0]]
  /\ reader' = [c \in Clients |-> IF Serving(c) /\ reader[c].pod = p
                                  THEN [reader[c] EXCEPT !.pc = "off"] ELSE reader[c]]
  /\ UNCHANGED <<got, woken, drops>>

(* Everything else a pod does *)
OtherTaskStep(p, i) ==
  \/ ClaimStep(p, i) \/ ClaimError(p, i) \/ Resume(p, i)
  \/ Beat(p, i) \/ EndHook(p, i) \/ CompleteError(p, i)
  \/ PersistFailure(p, i) \/ PersistFailureError(p, i) \/ HookCancelled(p, i)
  \/ HandOff(p, i) \/ LookUpError(p, i)

Background ==
  /\ \/ \E p \in Pods : Schedule(p)
     \/ \E p \in Pods, i \in Invocations : OtherTaskStep(p, i)
     \/ \E i \in Invocations : Lapse(i) \/ Stall(i)
  /\ UNCHANGED streamVars

Serve(c) == Clear(c) \/ ReadState(c) \/ ReadEvents(c) \/ Deliver(c) \/ Drained(c) \/ Again(c)

SNext ==
  \/ Background
  \/ \E p \in Pods, i \in Invocations : EmitOn(p, i) \/ Wake(p, i)
  \/ \E p \in Pods : CrashOn(p)
  \/ \E c \in Clients : Serve(c) \/ Disconnect(c)
  \/ \E c \in Clients, p \in Pods, i \in Invocations : Open(c, p, i)

SSpec == SInit /\ [][SNext]_allVars

(* On top of the fairness of DurableRuntime, whose actions are steps here:  *)
(* a generator whose client reads goes on, and poll_seconds pass.           *)
SFairSpec ==
  /\ SSpec
  /\ \A p \in Pods : WF_allVars(ScanQueued(p) /\ UNCHANGED streamVars)
                  /\ WF_allVars(ScanStale(p) /\ UNCHANGED streamVars)
  /\ \A p \in Pods, i \in Invocations :
       /\ WF_allVars((ClaimStep(p, i) \/ Resume(p, i)) /\ UNCHANGED streamVars)
       /\ WF_allVars(EndHook(p, i) /\ UNCHANGED streamVars)
       /\ WF_allVars((PersistFailure(p, i) \/ HandOff(p, i)) /\ UNCHANGED streamVars)
  /\ \A i \in Invocations : WF_allVars(Lapse(i) /\ UNCHANGED streamVars)
  /\ \A c \in Clients : WF_allVars(Serve(c))

-----------------------------------------------------------------------------
StreamTypeOK ==
  /\ reader \in [Clients -> Reader]
  /\ got \in [Clients -> Seq(Nat)]
  /\ waking \in [Pods -> [Invocations -> Nat]]
  /\ woken \in [Pods -> [Invocations -> Nat]]
  /\ drops \in 0..MaxDrops

(* "Read state first so a terminal snapshot's committed events are drained  *)
(* below": a response that ended has carried every event of the invocation, *)
(* each once and in order, over however many connections and pods.          *)
EndedMeansAll ==
  \A c \in Clients : At(c, "ended") =>
    /\ row[reader[c].inv].status \in Terminal
    /\ got[c] = [k \in 1..Len(log[reader[c].inv]) |-> k]

(* "Register/clear before reading so a persisted delta cannot miss the      *)
(* waiter": an event this process emitted never has to wait for the poll.   *)
NoLostWake ==
  \A c \in Clients :
    At(c, "wait") /\ ~reader[c].changed => woken[reader[c].pod][reader[c].inv] <= reader[c].cursor

(* A reader of an invocation's events misses none and waits for none that    *)
(* is there.                                                                *)
ReadersMissNothing == StreamTypeOK /\ EndedMeansAll /\ NoLostWake

(* A stream that stays connected ends: reading schedules queued work, and   *)
(* the poll sees what other pods wrote.                                     *)
StreamsEnd == \A c \in Clients : Serving(c) ~> ~Serving(c)
=============================================================================
