---------------------------- MODULE RuntimeStore ----------------------------
(***************************************************************************)
(* The Runtime Store of the agent runtime: table `invocations` and table   *)
(* `invocation_events` of LakebaseRuntimeStore.  Every operation is one    *)
(* database transaction, so every operation is one atomic change of the    *)
(* two variables.  Operations that touch a session take its advisory lock  *)
(* first, which is why a read of the session and the UPDATE that uses it   *)
(* are one step here.                                                      *)
(*                                                                         *)
(* Wall-clock heartbeats are abstracted to one bit: a row is `fresh` while *)
(* heartbeat_at lies within stale_seconds.                                 *)
(*                                                                         *)
(* A definition named Op_Slip is operation Op with a plausible slip in it; *)
(* nothing uses it but the mutation runs listed in PROJECT.json.           *)
(***************************************************************************)
EXTENDS Integers, Sequences, FiniteSetsExt

CONSTANTS Invocations,   \* invocation ids a client may submit
          Sessions,      \* session ids
          NoSession,     \* session_id IS NULL
          Requests       \* request payloads, compared only for equality

ASSUME StoreAssumption == NoSession \notin Sessions /\ Requests # {}

VARIABLES row,   \* row[i]: the row of invocation i ("ABSENT" when there is none)
          log    \* log[i]: the persisted events of i, in sequence_number order

storeVars == <<row, log>>

Status   == {"ABSENT", "QUEUED", "ACTIVE", "COMPLETED", "FAILED"}
Terminal == {"COMPLETED", "FAILED"}

Row == [status  : Status,
        session : Sessions \cup {NoSession},
        request : Requests,
        order   : Nat,        \* session_sequence_number, 0 for NULL
        attempt : Nat,
        fresh   : BOOLEAN]    \* heartbeat_at is recent

Event == [attempt : Nat, type : {"run.started", "emitted", "run.completed", "run.failed"}]

AbsentRow == [status |-> "ABSENT", session |-> NoSession, request |-> CHOOSE r \in Requests : TRUE,
              order |-> 0, attempt |-> 0, fresh |-> FALSE]

StoreInit ==
  /\ row = [i \in Invocations |-> AbsentRow]
  /\ log = [i \in Invocations |-> <<>>]

-----------------------------------------------------------------------------
InSession(s) == {i \in Invocations : row[i].status # "ABSENT" /\ row[i].session = s}
WithStatus(st) == {i \in Invocations : row[i].status = st}

(* COALESCE(MAX(session_sequence_number), 0) + 1 *)
Orders(s)    == {row[i].order : i \in InSession(s)} \cup {0}
NextOrder_NotNext(s) == Max(Orders(s))
NextOrder(s) == Max(Orders(s)) + 1

(* accept: INSERT ... ON CONFLICT DO NOTHING.  A second accept of the id    *)
(* leaves the row alone, whatever its session and request.                  *)
Accept(i, s, r) ==
  /\ row' = IF row[i].status # "ABSENT" THEN row
            ELSE [row EXCEPT ![i] =
                    [status |-> "QUEUED", session |-> s, request |-> r,
                     order |-> IF s = NoSession THEN 0 ELSE NextOrder(s),
                     attempt |-> 0, fresh |-> FALSE]]
  /\ UNCHANGED log

(* The row accept returns differs from what was asked: InvocationConflictError *)
Conflicts(i, s, r) ==
  row[i].status # "ABSENT" /\ (row[i].session # s \/ row[i].request # r)

Startable_IgnoresActive(i) ==
  /\ row[i].status = "QUEUED"
  /\ row[i].session # NoSession =>
       \A j \in InSession(row[i].session) :
          row[j].status = "QUEUED" => row[i].order <= row[j].order

Startable_AnyQueued(i) ==
  /\ row[i].status = "QUEUED"
  /\ row[i].session # NoSession =>
       \A j \in InSession(row[i].session) : row[j].status # "ACTIVE"

(* A queued row may start when it has no session, or when nothing in its    *)
(* session is ACTIVE and nothing queued was accepted before it.             *)
Startable(i) ==
  /\ row[i].status = "QUEUED"
  /\ row[i].session # NoSession =>
       \A j \in InSession(row[i].session) :
          /\ row[j].status # "ACTIVE"
          /\ row[j].status = "QUEUED" => row[i].order <= row[j].order

StaleActive(i) == row[i].status = "ACTIVE" /\ ~row[i].fresh

TakeOver_KeepsAttempt(i) ==
  /\ row' = [row EXCEPT ![i].status = "ACTIVE", ![i].fresh = TRUE,
                        ![i].attempt = IF @ = 0 THEN 1 ELSE @]
  /\ log' = [log EXCEPT ![i] = Append(@, [attempt |-> row'[i].attempt,
                                          type |-> "run.started"])]

(* The UPDATE of _claim and the run.started event of the same transaction   *)
TakeOver(i) ==
  /\ row' = [row EXCEPT ![i] = [row[i] EXCEPT !.status = "ACTIVE",
                                  !.attempt = row[i].attempt + 1, !.fresh = TRUE]]
  /\ log' = [log EXCEPT ![i] = Append(@, [attempt |-> row[i].attempt + 1,
                                          type |-> "run.started"])]

Claimable_QueuedOnly(i, recovery) == Startable(i)

(* Eligibility for claim (recovery = FALSE) and claim_recoverable (TRUE)    *)
Claimable(i, recovery) == IF recovery THEN StaleActive(i) ELSE Startable(i)

Owns_AttemptOnly(i, a) == a > 0 /\ row[i].attempt = a

(* WHERE invocation_id=:i AND attempt=:a AND status='ACTIVE' *)
Owns(i, a) == row[i].status = "ACTIVE" /\ row[i].attempt = a

Heartbeat(i, a) ==
  /\ row' = IF Owns(i, a) THEN [row EXCEPT ![i].fresh = TRUE] ELSE row
  /\ UNCHANGED log

(* complete and fail: a fenced UPDATE and, when it matched, the final event *)
Finish(i, a, st, event) ==
  /\ row' = IF Owns(i, a) THEN [row EXCEPT ![i].status = st] ELSE row
  /\ log' = IF Owns(i, a)
            THEN [log EXCEPT ![i] = Append(@, [attempt |-> a, type |-> event])]
            ELSE log

Complete(i, a) == Finish(i, a, "COMPLETED", "run.completed")
Fail(i, a)     == Finish(i, a, "FAILED", "run.failed")

AppendEvent_Unfenced(i, a) ==
  /\ log' = [log EXCEPT ![i] = Append(@, [attempt |-> a, type |-> "emitted"])]
  /\ UNCHANGED row

AppendEvent_Untyped(i, a) ==
  /\ log' = IF Owns(i, a)
            THEN [log EXCEPT ![i] = Append(@, [attempt |-> a, type |-> "message"])]
            ELSE log
  /\ UNCHANGED row

AppendEvent(i, a) ==
  /\ log' = IF Owns(i, a)
            THEN [log EXCEPT ![i] = Append(@, [attempt |-> a, type |-> "emitted"])]
            ELSE log
  /\ UNCHANGED row

(* stale_seconds pass without a heartbeat *)
Expire(i) ==
  /\ row[i].status = "ACTIVE" /\ row[i].fresh
  /\ row' = [row EXCEPT ![i].fresh = FALSE]
  /\ UNCHANGED log

-----------------------------------------------------------------------------
(* queued_invocation_ids and stale_invocation_ids *)
QueuedIds == {i \in Invocations : Startable(i)}
StaleIds  == {i \in Invocations : StaleActive(i)}

(* get(session_id): what the session is doing, as a set of at most one id:  *)
(* the active invocation, else the earliest queued one.                     *)
SessionHead(s) ==
  LET active == InSession(s) \cap WithStatus("ACTIVE")
      queued == InSession(s) \cap WithStatus("QUEUED")
  IN  IF active # {} THEN active
      ELSE {i \in queued : \A j \in queued : row[i].order <= row[j].order}

StoreTypeOK ==
  /\ row \in [Invocations -> Row]
  /\ log \in [Invocations -> Seq(Event)]
=============================================================================
