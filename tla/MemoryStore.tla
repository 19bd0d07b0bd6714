----------------------------- MODULE MemoryStore -----------------------------
(***************************************************************************)
(* InMemoryRuntimeStore, the process-local Runtime Store.  Every operation *)
(* runs under the store's asyncio.Lock and awaits nothing inside it, so    *)
(* every operation is one atomic change of the two variables.  Unlike the  *)
(* per-invocation logs of RuntimeStore, events live in one list whose      *)
(* positions are the replay cursors of every reader.                       *)
(*                                                                         *)
(* A definition named Op_Slip is operation Op with a plausible slip in it; *)
(* nothing uses it but the mutation runs listed in PROJECT.json.           *)
(***************************************************************************)
EXTENDS Integers, Sequences, FiniteSetsExt

CONSTANTS Invocations, Sessions, NoSession, Requests

ASSUME MemoryAssumption == NoSession \notin Sessions /\ Requests # {}

VARIABLES states,     \* states[i]: the Invocation kept for id i
          persisted   \* persisted_events

storeVars == <<states, persisted>>

Status   == {"ABSENT", "QUEUED", "ACTIVE", "COMPLETED", "FAILED"}
Terminal == {"COMPLETED", "FAILED"}

State == [status  : Status,
          session : Sessions \cup {NoSession},
          request : Requests,
          order   : Nat,       \* session_sequence_number, 0 for None
          attempt : Nat]

Event == [inv : Invocations, attempt : Nat,
          type : {"run.started", "emitted", "run.completed", "run.failed"}]

NoState == [status |-> "ABSENT", session |-> NoSession,
            request |-> CHOOSE r \in Requests : TRUE, order |-> 0, attempt |-> 0]

StoreInit ==
  /\ states = [i \in Invocations |-> NoState]
  /\ persisted = <<>>

-----------------------------------------------------------------------------
Known(i)     == states[i].status # "ABSENT"
InSession(s) == {i \in Invocations : Known(i) /\ states[i].session = s}
With(st)     == {i \in Invocations : states[i].status = st}

NextOrder_OfQueued(s) == Max({states[j].order : j \in InSession(s) \cap With("QUEUED")} \cup {0}) + 1

(* max(session_sequence_number or 0, default=0) + 1 *)
NextOrder(s) == Max({states[j].order : j \in InSession(s)} \cup {0}) + 1

Accept(i, s, r) ==
  /\ states' = IF Known(i) THEN states
               ELSE [states EXCEPT ![i] =
                       [status |-> "QUEUED", session |-> s, request |-> r,
                        order |-> IF s = NoSession THEN 0 ELSE NextOrder(s), attempt |-> 0]]
  /\ UNCHANGED persisted

Conflicts(i, s, r) == Known(i) /\ (states[i].session # s \/ states[i].request # r)

(* get(session_id=...): the active invocation, else the earliest queued one; *)
(* the empty set is None.                                                    *)
SessionHead(s) ==
  LET active == InSession(s) \cap With("ACTIVE")
      queued == InSession(s) \cap With("QUEUED")
  IN  IF active # {} THEN active
      ELSE {i \in queued : \A j \in queued : states[i].order <= states[j].order}

Claimable_AnyQueued(i) ==
  /\ states[i].status = "QUEUED"
  /\ states[i].session # NoSession => InSession(states[i].session) \cap With("ACTIVE") = {}

Claimable(i) ==
  /\ states[i].status = "QUEUED"
  /\ states[i].session # NoSession =>
       LET peers == InSession(states[i].session)
       IN  /\ peers \cap With("ACTIVE") = {}
           /\ \A j \in peers \cap With("QUEUED") : states[i].order <= states[j].order

(* _append_event: the new event's sequence_number is its place in the list. *)
AppendEvent(i, a, type) ==
  persisted' = Append(persisted, [inv |-> i, attempt |-> a, type |-> type])

(* claim, when it returns the invocation *)
Claim(i) ==
  /\ states' = [states EXCEPT ![i] = [states[i] EXCEPT !.status = "ACTIVE",
                                                       !.attempt = states[i].attempt + 1]]
  /\ AppendEvent(i, states[i].attempt + 1, "run.started")

OwnsAttempt(i, a) == states[i].status = "ACTIVE" /\ states[i].attempt = a

Finish(i, a, st, type) ==
  IF OwnsAttempt(i, a)
  THEN /\ states' = [states EXCEPT ![i].status = st]
       /\ AppendEvent(i, a, type)
  ELSE UNCHANGED storeVars

Complete(i, a) == Finish(i, a, "COMPLETED", "run.completed")
Fail(i, a)     == Finish(i, a, "FAILED", "run.failed")

(* append_event, the operation behind an agent's emit *)
EmitEvent(i, a) ==
  IF OwnsAttempt(i, a)
  THEN AppendEvent(i, a, "emitted") /\ UNCHANGED states
  ELSE UNCHANGED storeVars

StoreTypeOK ==
  /\ states \in [Invocations -> State]
  /\ persisted \in Seq(Event)
=============================================================================
