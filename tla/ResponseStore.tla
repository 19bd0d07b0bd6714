--------------------------- MODULE ResponseStore ---------------------------
(***************************************************************************)
(* The tables `responses` and `messages` of the long-running agent server, *)
(* for one response: responses share nothing but the tables.  Each         *)
(* function of repository.py is one transaction.  There is no lock and no  *)
(* owner column: a writer is fenced only where its UPDATE compares         *)
(* attempt_number, and append_message compares nothing.                    *)
(*                                                                         *)
(* Op_Slip is operation Op with a plausible slip; only the mutation runs   *)
(* of PROJECT.json use it.                                                 *)
(***************************************************************************)
EXTENDS Integers, FiniteSetsExt

VARIABLES resp,  \* the row of `responses`
          msgs   \* the rows of `messages`: msgs[n] has sequence_number n

storeVars == <<resp, msgs>>

Terminal == {"completed", "failed"}

Response == [status  : {"none", "in_progress", "completed", "failed"},
             attempt : Nat,      \* attempt_number
             fresh   : BOOLEAN,  \* heartbeat_at within heartbeat_stale_threshold_seconds
             aged    : BOOLEAN]  \* created_at beyond task_timeout_seconds

Message == [attempt : Nat, type : {"item", "resumed", "error"}]

StoreInit ==
  /\ resp = [status |-> "none", attempt |-> 0, fresh |-> FALSE, aged |-> FALSE]
  /\ msgs = <<>>

(* create_response(..., "in_progress", durable=True) *)
CreateResponse ==
  /\ resp' = [status |-> "in_progress", attempt |-> 1, fresh |-> TRUE, aged |-> FALSE]
  /\ UNCHANGED msgs

SetStatus_Unfenced(a, st) == resp' = [resp EXCEPT !.status = st]

(* update_response_status(st, expected_attempt_number=a).  It compares the  *)
(* attempt and not the status.                                              *)
SetStatus(a, st) ==
  resp' = IF resp.attempt = a THEN [resp EXCEPT !.status = st] ELSE resp

(* update_response_status("failed", expected_current_status="in_progress") *)
FailIfInProgress ==
  /\ resp.status = "in_progress"
  /\ resp' = [resp EXCEPT !.status = "failed"]

(* heartbeat_response: true of the row, whatever its status *)
Owns(a) == resp.attempt = a

HeartbeatResponse(a) ==
  resp' = IF Owns(a) THEN [resp EXCEPT !.fresh = TRUE] ELSE resp

Stale_AnyStatus == ~resp.fresh
Stale == resp.status = "in_progress" /\ ~resp.fresh

ClaimStaleResponse_Once ==
  /\ Stale /\ resp.attempt = 1
  /\ resp' = [resp EXCEPT !.attempt = 2, !.fresh = TRUE]

(* claim_stale_response: one conditional UPDATE ... RETURNING *)
ClaimStaleResponse ==
  /\ Stale
  /\ resp' = [resp EXCEPT !.attempt = resp.attempt + 1, !.fresh = TRUE]

(* append_message: an INSERT that raises when the primary key is taken *)
Vacant(n) == n \notin DOMAIN msgs

AppendMessage(n, a, type) ==
  msgs' = [k \in DOMAIN msgs \cup {n} |->
             IF k \in DOMAIN msgs THEN msgs[k] ELSE [attempt |-> a, type |-> type]]

NextSeq_DefaultZero == Max(DOMAIN msgs \cup {0}) + 1

(* max((seq for seq, ... in get_messages(...)), default=-1) + 1 *)
NextSeq == Max(DOMAIN msgs \cup {-1}) + 1

MessagesOf(a, type) == {n \in DOMAIN msgs : msgs[n] = [attempt |-> a, type |-> type]}

StoreTypeOK ==
  /\ resp \in Response
  /\ DOMAIN msgs \subseteq Nat
  /\ msgs \in [DOMAIN msgs -> Message]
=============================================================================
