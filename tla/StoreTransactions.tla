-------------------------- MODULE StoreTransactions --------------------------
(***************************************************************************)
(* LakebaseRuntimeStore statement by statement: transactions of several    *)
(* connections interleave under READ COMMITTED, held apart only by the     *)
(* session's advisory lock, by row locks, and by the fenced WHERE clauses  *)
(* that PostgreSQL evaluates again when it had to wait for a row.  The     *)
(* module shows that they add up to the atomic operations of RuntimeStore, *)
(* and that a cursor into the BIGSERIAL sequence never runs ahead of an    *)
(* event that is yet to be committed.                                      *)
(***************************************************************************)
EXTENDS Integers, FiniteSets

CONSTANTS Invocations, Sessions, NoSession, Requests,
          Connections, NoOne,
          MaxAttempts,   \* bound: attempts of an invocation
          MaxSequence    \* bound: values drawn from the sequence

ASSUME TransactionAssumption ==
  /\ NoSession \notin Sessions /\ Requests # {}
  /\ NoOne \notin Connections \cup Invocations
  /\ MaxAttempts \in Nat /\ MaxSequence \in Nat

VARIABLES row,          \* the committed rows of table invocations
          events,       \* the committed rows of table invocation_events
          nextval,      \* the events' sequence: never rolled back
          sessionLock,  \* sessionLock[s]: who holds the advisory lock
          rowLock,      \* rowLock[i]: who has inserted or locked the row
          txn           \* txn[c]: the transaction of connection c

vars == <<row, events, nextval, sessionLock, rowLock, txn>>

Ops == {"accept", "claim", "recover", "heartbeat", "complete", "fail", "append"}

(* idle | lock: the advisory lock | max: the next place in the session      *)
(* insert | snapshot: the UPDATE of a claim begins | update: it, or another *)
(* statement, wants the row | event: the INSERT of the event | commit       *)
Txn == [pc   : {"idle", "lock", "max", "insert", "snapshot", "update", "event", "commit"},
        op   : Ops,
        inv  : Invocations \cup {NoOne},
        ses  : Sessions \cup {NoSession},
        req  : Requests,
        att  : Nat,       \* the caller's attempt; of a claim, the new one
        place : Nat,      \* session_sequence_number to insert
        wrote : BOOLEAN,  \* the statement matched the row
        seq  : Nat]       \* sequence_number of the event it inserted, or 0

Idle == [pc |-> "idle", op |-> "append", inv |-> NoOne,
         ses |-> NoSession, req |-> CHOOSE r \in Requests : TRUE,
         att |-> 0, place |-> 0, wrote |-> FALSE, seq |-> 0]

(* The callers' view: the committed events of an invocation in the order of *)
(* their sequence numbers.                                                  *)
EventsOf(i) == {e \in events : e.inv = i}
The(S) == CHOOSE x \in S : TRUE
UpTo(S, n) == Cardinality({e \in S : e.seq <= n})
InOrder(S) ==
  [k \in 1..Cardinality(S) |->
     LET e == The({x \in S : UpTo(S, x.seq) = k})
     IN  [attempt |-> e.attempt, type |-> e.type]]
LogView == [i \in Invocations |-> InOrder(EventsOf(i))]

Store == INSTANCE AtomicStore WITH row <- row, log <- LogView

Init ==
  /\ row = [i \in Invocations |-> Store!AbsentRow]
  /\ events = {}
  /\ nextval = 1
  /\ sessionLock = [s \in Sessions |-> NoOne]
  /\ rowLock = [i \in Invocations |-> NoOne]
  /\ txn = [c \in Connections |-> Idle]

Doing(c, pc) == txn[c].pc = pc
Go(c, pc)    == txn' = [txn EXCEPT ![c].pc = pc]

-----------------------------------------------------------------------------
(* A transaction begins.  accept knows its session; a claim looks it up.    *)
BeginAccept(c, i, s, r) ==
  /\ Doing(c, "idle")
  /\ txn' = [txn EXCEPT ![c] = [Idle EXCEPT !.op = "accept", !.inv = i, !.ses = s, !.req = r,
                                  !.pc = IF s = NoSession THEN "insert" ELSE "lock"]]
  /\ UNCHANGED <<row, events, nextval, sessionLock, rowLock>>

BeginClaim(c, i, op) ==
  /\ Doing(c, "idle")
  /\ row[i].status # "ABSENT" /\ row[i].attempt < MaxAttempts
  /\ txn' = [txn EXCEPT ![c] = [Idle EXCEPT !.op = op, !.inv = i, !.ses = row[i].session,
                                  !.pc = IF row[i].session = NoSession THEN "snapshot" ELSE "lock"]]
  /\ UNCHANGED <<row, events, nextval, sessionLock, rowLock>>

(* heartbeat, complete, fail and append_event name an attempt they were     *)
(* given by a claim; it need not be the current one.                        *)
BeginFenced(c, i, a, op) ==
  /\ Doing(c, "idle")
  /\ txn' = [txn EXCEPT ![c] = [Idle EXCEPT !.op = op, !.inv = i, !.att = a, !.pc = "update"]]
  /\ UNCHANGED <<row, events, nextval, sessionLock, rowLock>>

AfterLock(op) == IF op = "accept" THEN "max" ELSE "snapshot"

LockSession_NoWait(c) ==
  /\ Doing(c, "lock")
  /\ Go(c, AfterLock(txn[c].op))
  /\ UNCHANGED <<row, events, nextval, sessionLock, rowLock>>

(* pg_advisory_xact_lock *)
LockSession(c) ==
  /\ Doing(c, "lock")
  /\ sessionLock[txn[c].ses] = NoOne
  /\ sessionLock' = [sessionLock EXCEPT ![txn[c].ses] = c]
  /\ Go(c, AfterLock(txn[c].op))
  /\ UNCHANGED <<row, events, nextval, rowLock>>

(* SELECT COALESCE(MAX(session_sequence_number), 0) + 1 *)
ReadMax(c) ==
  /\ Doing(c, "max")
  /\ txn' = [txn EXCEPT ![c] = [txn[c] EXCEPT !.pc = "insert",
                                  !.place = Store!NextOrder(txn[c].ses)]]
  /\ UNCHANGED <<row, events, nextval, sessionLock, rowLock>>

(* INSERT ... ON CONFLICT DO NOTHING: waits for an insert of the same id    *)
(* that is not committed yet.                                               *)
Insert(c) ==
  LET i == txn[c].inv IN
  /\ Doing(c, "insert")
  /\ rowLock[i] = NoOne \/ row[i].status # "ABSENT"
  /\ txn' = [txn EXCEPT ![c] = [txn[c] EXCEPT !.pc = "commit", !.wrote = row[i].status = "ABSENT"]]
  /\ rowLock' = IF row[i].status = "ABSENT" THEN [rowLock EXCEPT ![i] = c] ELSE rowLock
  /\ UNCHANGED <<row, events, nextval, sessionLock>>

(* The UPDATE of a claim takes its snapshot: its NOT EXISTS clauses see     *)
(* what is committed now, also if it waits for the row afterwards.          *)
Snapshot(c) ==
  /\ Doing(c, "snapshot")
  /\ Go(c, IF Store!Claimable(txn[c].inv, txn[c].op = "recover") THEN "update" ELSE "commit")
  /\ UNCHANGED <<row, events, nextval, sessionLock, rowLock>>

Matches_Always(c) == row[txn[c].inv].status # "ABSENT"

(* The WHERE clause on the row itself, evaluated on its latest version.     *)
Matches(c) ==
  LET i == txn[c].inv IN
  CASE txn[c].op = "claim"   -> row[i].status = "QUEUED"
    [] txn[c].op = "recover" -> Store!StaleActive(i)
    [] OTHER                 -> Store!Owns(i, txn[c].att)

NextPc(op) == CASE op \in {"heartbeat", "append"} -> "commit" [] OTHER -> "event"

Update_NoForUpdate(c) ==
  LET i == txn[c].inv IN
  /\ Doing(c, "update")
  /\ rowLock[i] = NoOne \/ txn[c].op = "append"
  /\ nextval <= MaxSequence
  /\ IF Matches(c)
     THEN /\ rowLock' = IF txn[c].op = "append" THEN rowLock ELSE [rowLock EXCEPT ![i] = c]
          /\ nextval' = IF txn[c].op = "append" THEN nextval + 1 ELSE nextval
          /\ txn' = [txn EXCEPT ![c] =
                       [txn[c] EXCEPT !.pc = NextPc(txn[c].op), !.wrote = TRUE,
                          !.att = IF txn[c].op \in {"claim", "recover"}
                                  THEN row[i].attempt + 1 ELSE txn[c].att,
                          !.seq = IF txn[c].op = "append" THEN nextval ELSE 0]]
     ELSE Go(c, "commit") /\ UNCHANGED <<rowLock, nextval>>
  /\ UNCHANGED <<row, events, sessionLock>>

(* UPDATE, or SELECT ... FOR UPDATE: waits for the row's lock and matches   *)
(* the row as it is then.  append_event draws its sequence number in the    *)
(* same statement, after it has the row.                                    *)
Update(c) ==
  LET i == txn[c].inv IN
  /\ Doing(c, "update")
  /\ rowLock[i] = NoOne
  /\ nextval <= MaxSequence
  /\ IF Matches(c)
     THEN /\ rowLock' = [rowLock EXCEPT ![i] = c]
          /\ nextval' = IF txn[c].op = "append" THEN nextval + 1 ELSE nextval
          /\ txn' = [txn EXCEPT ![c] =
                       [txn[c] EXCEPT !.pc = NextPc(txn[c].op), !.wrote = TRUE,
                          !.att = IF txn[c].op \in {"claim", "recover"}
                                  THEN row[i].attempt + 1 ELSE txn[c].att,
                          !.seq = IF txn[c].op = "append" THEN nextval ELSE 0]]
     ELSE Go(c, "commit") /\ UNCHANGED <<rowLock, nextval>>
  /\ UNCHANGED <<row, events, sessionLock>>

(* INSERT INTO invocation_events draws the event's sequence number.         *)
InsertEvent(c) ==
  /\ Doing(c, "event")
  /\ nextval <= MaxSequence
  /\ nextval' = nextval + 1
  /\ txn' = [txn EXCEPT ![c] = [txn[c] EXCEPT !.pc = "commit", !.seq = nextval]]
  /\ UNCHANGED <<row, events, sessionLock, rowLock>>

-----------------------------------------------------------------------------

EventType(op) == CASE op \in {"claim", "recover"} -> "run.started"
                   [] op = "complete" -> "run.completed"
                   [] op = "fail" -> "run.failed"
                   [] OTHER -> "emitted"

NewRow(c) ==
  LET i == txn[c].inv IN
  CASE txn[c].op = "accept" ->
         [status |-> "QUEUED", session |-> txn[c].ses, request |-> txn[c].req,
          order |-> txn[c].place, attempt |-> 0, fresh |-> FALSE]
    [] txn[c].op \in {"claim", "recover"} ->
         [row[i] EXCEPT !.status = "ACTIVE", !.attempt = txn[c].att, !.fresh = TRUE]
    [] txn[c].op = "heartbeat" -> [row[i] EXCEPT !.fresh = TRUE]
    [] txn[c].op = "complete"  -> [row[i] EXCEPT !.status = "COMPLETED"]
    [] txn[c].op = "fail"      -> [row[i] EXCEPT !.status = "FAILED"]
    [] OTHER                   -> row[i]

Unlock(c) ==
  /\ sessionLock' = [s \in Sessions |-> IF sessionLock[s] = c THEN NoOne ELSE sessionLock[s]]
  /\ rowLock' = [i \in Invocations |-> IF rowLock[i] = c THEN NoOne ELSE rowLock[i]]
  /\ txn' = [txn EXCEPT ![c] = Idle]

(* COMMIT makes the row and the event visible and releases every lock.      *)
Commit(c) ==
  LET i == txn[c].inv IN
  /\ Doing(c, "commit")
  /\ row' = IF txn[c].wrote THEN [row EXCEPT ![i] = NewRow(c)] ELSE row
  /\ events' = IF txn[c].seq = 0 THEN events
               ELSE events \cup {[seq |-> txn[c].seq, inv |-> i, attempt |-> txn[c].att,
                                  type |-> EventType(txn[c].op)]}
  /\ Unlock(c)
  /\ UNCHANGED nextval

(* The connection breaks before the commit: nothing happened, but the       *)
(* sequence number is gone.                                                 *)
Rollback(c) ==
  /\ ~Doing(c, "idle")
  /\ Unlock(c)
  /\ UNCHANGED <<row, events, nextval>>

(* stale_seconds pass without a heartbeat *)
Expire(i) ==
  /\ row[i].status = "ACTIVE" /\ row[i].fresh
  /\ row' = [row EXCEPT ![i].fresh = FALSE]
  /\ UNCHANGED <<events, nextval, sessionLock, rowLock, txn>>

Begin(c) ==
  \E i \in Invocations :
    \/ \E s \in Sessions \cup {NoSession}, r \in Requests : BeginAccept(c, i, s, r)
    \/ \E op \in {"claim", "recover"} : BeginClaim(c, i, op)
    \/ \E a \in 1..row[i].attempt, op \in {"heartbeat", "complete", "fail", "append"} :
         BeginFenced(c, i, a, op)

Statement(c) ==
  LockSession(c) \/ ReadMax(c) \/ Insert(c) \/ Snapshot(c) \/ Update(c) \/ InsertEvent(c)

Next ==
  \/ \E c \in Connections : Begin(c) \/ Statement(c) \/ Commit(c) \/ Rollback(c)
  \/ \E i \in Invocations : Expire(i)

Spec == Init /\ [][Next]_vars

-----------------------------------------------------------------------------
EventRow == [seq : Nat, inv : Invocations, attempt : Nat,
             type : {"run.started", "emitted", "run.completed", "run.failed"}]

TypeOK ==
  /\ row \in [Invocations -> Store!Row]
  /\ events \subseteq EventRow
  /\ nextval \in Nat
  /\ sessionLock \in [Sessions -> Connections \cup {NoOne}]
  /\ rowLock \in [Invocations -> Connections \cup {NoOne}]
  /\ txn \in [Connections -> Txn]

(* The transactions add up to atomic operations on rows and logs.           *)
ImplementsAtomicStore == Store!StoreSpec

(* A reader that has seen an event of a session has seen every event of it  *)
(* with a smaller sequence number: commits of a session come in the order   *)
(* in which the sequence numbers were drawn, so `after` cursors skip none.  *)
SameScope(e, f) ==
  e.inv = f.inv \/ (row[e.inv].session = row[f.inv].session /\ row[e.inv].session # NoSession)

CursorsSkipNothing ==
  [][\A e \in events' \ events, f \in events : SameScope(e, f) => f.seq < e.seq]_vars

(* The unique indexes of the schema never reject a write: what transactions *)
(* are about to commit agrees with what is committed.                       *)
Pending(i) == rowLock[i] # NoOne /\ txn[rowLock[i]].wrote
RowSoon(i) == IF Pending(i) THEN NewRow(rowLock[i]) ELSE row[i]

IndexesNeverReject ==
  \A i, j \in Invocations :
    i # j /\ RowSoon(i).session = RowSoon(j).session /\ RowSoon(i).session # NoSession =>
      /\ RowSoon(i).order # RowSoon(j).order
      /\ ~(RowSoon(i).status = "ACTIVE" /\ RowSoon(j).status = "ACTIVE")

(* The rows keep their types and what the indexes promise.                  *)
RowsStayUnique == TypeOK /\ IndexesNeverReject
=============================================================================
