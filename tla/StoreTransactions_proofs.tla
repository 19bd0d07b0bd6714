---------------------- MODULE StoreTransactions_proofs ----------------------
(***************************************************************************)
(* Theorems about StoreTransactions, for any number of connections,        *)
(* invocations and sessions: the transactions of the Runtime Store add up  *)
(* to its atomic operations.                                               *)
(*                                                                         *)
(* What one transaction has found out stays true until its commit, either  *)
(* because it holds the lock under which others would change it            *)
(* (LocksHeld), or because the fenced WHERE clause looked again            *)
(* (WritesAreDue).  Two transactions that both draw a sequence number      *)
(* cannot be of one session: one would have an ACTIVE row that the         *)
(* eligibility of the other excludes (EventsAreBehind).                    *)
(***************************************************************************)
EXTENDS StoreTransactions, FiniteSetTheorems, SequenceTheorems, TLAPS

Claims  == {"claim", "recover"}
Locking == Claims \cup {"accept"}
Fenced  == {"heartbeat", "complete", "fail", "append"}
Telling == Claims \cup {"complete", "fail", "append"}

(* Who wrote a row holds it, and who went past the session's lock holds that. *)
LocksHeld ==
  /\ \A c \in Connections :
       /\ txn[c].op \in Locking /\ txn[c].ses # NoSession /\ ~Doing(c, "lock")
            => sessionLock[txn[c].ses] = c
       /\ txn[c].wrote => rowLock[txn[c].inv] = c
  /\ \A i \in Invocations : rowLock[i] # NoOne =>
       txn[rowLock[i]].wrote /\ txn[rowLock[i]].inv = i

(* Which statements the transaction of an operation runs through.            *)
StepsOf(c) ==
  /\ Doing(c, "idle") => txn[c] = Idle
  /\ ~Doing(c, "idle") => txn[c].inv \in Invocations
  /\ Doing(c, "lock") => txn[c].op \in Locking /\ txn[c].ses # NoSession
  /\ Doing(c, "max") => txn[c].op = "accept" /\ txn[c].ses # NoSession
  /\ Doing(c, "insert") => txn[c].op = "accept"
  /\ Doing(c, "snapshot") => txn[c].op \in Claims
  /\ Doing(c, "update") => txn[c].op # "accept"
  /\ Doing(c, "event") => txn[c].wrote /\ txn[c].op \in Telling \ {"append"}
  /\ txn[c].wrote => Doing(c, "event") \/ Doing(c, "commit")
  /\ txn[c].seq # 0 => txn[c].wrote
  /\ Doing(c, "commit") /\ txn[c].wrote => (txn[c].seq # 0 <=> txn[c].op \in Telling)
  /\ ~Doing(c, "commit") => txn[c].seq = 0

(* What a transaction read under its session's lock is so still.             *)
ReadsStand(c) ==
  /\ txn[c].op = "accept" /\ (Doing(c, "insert") \/ Doing(c, "commit")) =>
       txn[c].place = IF txn[c].ses = NoSession THEN 0 ELSE Store!NextOrder(txn[c].ses)
  /\ txn[c].op \in Claims =>
       /\ row[txn[c].inv].status # "ABSENT"
       /\ txn[c].ses = row[txn[c].inv].session
  /\ txn[c].op = "claim" /\ (Doing(c, "update") \/ txn[c].wrote) /\ txn[c].ses # NoSession =>
       \A j \in Store!InSession(txn[c].ses) :
          /\ row[j].status # "ACTIVE"
          /\ row[j].status = "QUEUED" => row[txn[c].inv].order <= row[j].order

(* The row that a transaction is about to commit is as its statement wants. *)
WriteIsDue(c) ==
  LET i == txn[c].inv IN
  /\ txn[c].op \in Fenced /\ ~Doing(c, "idle") => txn[c].att \in Nat \ {0}
  /\ txn[c].wrote =>
       /\ txn[c].op = "accept" => row[i].status = "ABSENT"
       /\ txn[c].op = "claim" => row[i].status = "QUEUED"
       /\ txn[c].op = "recover" => Store!StaleActive(i)
       /\ txn[c].op \in Claims => txn[c].att = row[i].attempt + 1
       /\ txn[c].op \in Fenced => Store!Owns(i, txn[c].att)

TxnInv == \A c \in Connections : StepsOf(c) /\ ReadsStand(c) /\ WriteIsDue(c)

(* The committed rows agree with the unique indexes.                        *)
HasMax(S) == \E m \in S : \A n \in S : m >= n

RowsInv ==
  /\ \A s \in Sessions : HasMax(Store!Orders(s))
  /\ \A i \in Invocations : row[i].status = "ABSENT" => row[i].session = NoSession
  /\ \A i, j \in Invocations :
       i # j /\ row[i].session = row[j].session /\ row[i].session # NoSession =>
         /\ row[i].order # row[j].order
         /\ ~(row[i].status = "ACTIVE" /\ row[j].status = "ACTIVE")

(* A number that was drawn lies above every committed event of its session. *)
InScope(i, j) ==
  i = j \/ (row[i].session = row[j].session /\ row[i].session # NoSession)

EventsInv ==
  /\ IsFiniteSet(events)
  /\ nextval > 0
  /\ \A e \in events : e.seq < nextval /\ row[e.inv].status # "ABSENT"
  /\ \A c \in Connections :
       /\ txn[c].seq < nextval
       /\ txn[c].seq # 0 =>
            \A e \in events : InScope(txn[c].inv, e.inv) => e.seq < txn[c].seq

TransactionInv == LocksHeld /\ TxnInv /\ RowsInv /\ EventsInv

USE TransactionAssumption

-----------------------------------------------------------------------------
(* What the types say of one connection, and of the transaction that waits. *)
LEMMA AbsentType == Store!AbsentRow \in Store!Row
<1>1. (CHOOSE r \in Requests : TRUE) \in Requests
  OBVIOUS
<1>. QED
  BY <1>1 DEF Store!AbsentRow, Store!Row, Store!Status

(* A connection without a transaction. *)
LEMMA IdleType ==
  /\ Idle \in Txn
  /\ Idle.pc = "idle" /\ Idle.op = "append" /\ Idle.inv = NoOne /\ Idle.ses = NoSession
  /\ Idle.att = 0 /\ Idle.place = 0 /\ Idle.wrote = FALSE /\ Idle.seq = 0
<1>1. (CHOOSE r \in Requests : TRUE) \in Requests
  OBVIOUS
<1>. QED
  BY <1>1 DEF Idle, Txn, Ops

(* The fields of a connection's transaction. *)
LEMMA TxnFacts ==
  ASSUME TypeOK, NEW c \in Connections
  PROVE  /\ txn[c] \in Txn /\ txn[c].op \in Ops
         /\ txn[c].inv \in Invocations \cup {NoOne}
         /\ txn[c].ses \in Sessions \cup {NoSession} /\ txn[c].req \in Requests
         /\ txn[c].att \in Nat /\ txn[c].place \in Nat /\ txn[c].seq \in Nat
         /\ txn[c].wrote \in BOOLEAN
BY DEF TypeOK, Txn

(* The fields of a committed row. *)
LEMMA RowFacts ==
  ASSUME TypeOK, NEW i \in Invocations
  PROVE  /\ row[i] \in Store!Row /\ row[i].status \in Store!Status
         /\ row[i].session \in Sessions \cup {NoSession} /\ row[i].request \in Requests
         /\ row[i].order \in Nat /\ row[i].attempt \in Nat /\ row[i].fresh \in BOOLEAN
BY DEF TypeOK, Store!Row

(* MAX(session_sequence_number) + 1 is new in its session.                  *)
LEMMA PlaceIsNew ==
  ASSUME TypeOK, RowsInv, NEW s \in Sessions
  PROVE  /\ Store!NextOrder(s) \in Nat \ {0}
         /\ \A i \in Store!InSession(s) : row[i].order < Store!NextOrder(s)
         /\ \A n \in Store!Orders(s) : n < Store!NextOrder(s)
<1>1. Store!Orders(s) \subseteq Nat
  BY RowFacts DEF Store!Orders, Store!InSession
<1>2. PICK m \in Store!Orders(s) : \A n \in Store!Orders(s) : m >= n
  BY DEF RowsInv, HasMax
<1>3. /\ Store!Max(Store!Orders(s)) \in Store!Orders(s)
      /\ \A n \in Store!Orders(s) : Store!Max(Store!Orders(s)) >= n
  BY <1>2 DEF Store!Max
<1>4. \A i \in Store!InSession(s) : row[i].order \in Store!Orders(s)
  BY DEF Store!Orders
<1>. QED
  BY <1>1, <1>3, <1>4 DEF Store!NextOrder

-----------------------------------------------------------------------------
(* A step of one transaction that commits nothing: it moves on, may take or *)
(* release its own locks, and may draw from the sequence.                   *)
OwnLocksOnly(c) ==
  /\ sessionLock' \in [Sessions -> Connections \cup {NoOne}]
  /\ rowLock' \in [Invocations -> Connections \cup {NoOne}]
  /\ \A s \in Sessions : sessionLock'[s] = sessionLock[s] \/ sessionLock[s] \in {NoOne, c}
  /\ \A i \in Invocations :
       /\ rowLock'[i] = rowLock[i] \/ rowLock[i] \in {NoOne, c}
       /\ rowLock'[i] \in {rowLock[i], c, NoOne}
       /\ rowLock'[i] = c => txn'[c].wrote /\ txn'[c].inv = i
  /\ txn'[c].wrote => rowLock'[txn'[c].inv] = c
  /\ txn'[c].op \in Locking /\ txn'[c].ses # NoSession /\ txn'[c].pc # "lock"
       => sessionLock'[txn'[c].ses] = c

Alone(c) ==
  /\ txn' \in [Connections -> Txn]
  /\ \A d \in Connections \ {c} : txn'[d] = txn[d]

(* A connection that takes locks nobody holds, or gives up its own, leaves the locks of the *)
(* others where they are.                                                                   *)
LEMMA OwnLocks ==
  ASSUME TypeOK, LocksHeld, TxnInv, NEW c \in Connections, Alone(c), OwnLocksOnly(c)
  PROVE  LocksHeld'
<1>1. ASSUME NEW d \in Connections
      PROVE  /\ (txn[d].op \in Locking /\ txn[d].ses # NoSession /\ ~Doing(d, "lock"))'
                  => (sessionLock[txn[d].ses] = d)'
             /\ txn'[d].wrote => rowLock'[txn'[d].inv] = d
  <2>1. CASE d = c
    BY <2>1 DEF OwnLocksOnly, Doing
  <2>2. CASE d # c
    <3>1. txn'[d] = txn[d]
      BY <2>2 DEF Alone
    <3>2. txn[d].ses \in Sessions \cup {NoSession}
      BY TxnFacts
    <3>3. txn[d].wrote => txn[d].inv \in Invocations
      BY DEF TxnInv, StepsOf, Doing
    <3>. QED
      BY <2>2, <3>1, <3>2, <3>3 DEF LocksHeld, OwnLocksOnly, Doing
  <2>. QED
    BY <2>1, <2>2
<1>2. ASSUME NEW i \in Invocations, rowLock'[i] # NoOne
      PROVE  txn'[rowLock'[i]].wrote /\ txn'[rowLock'[i]].inv = i
  <2>1. CASE rowLock'[i] = c
    BY <2>1 DEF OwnLocksOnly
  <2>2. CASE rowLock'[i] # c
    <3>1. rowLock'[i] = rowLock[i] /\ rowLock[i] \in Connections
      BY <1>2, <2>2 DEF OwnLocksOnly, TypeOK
    <3>2. txn'[rowLock[i]] = txn[rowLock[i]]
      BY <2>2, <3>1 DEF Alone
    <3>. QED
      BY <1>2, <3>1, <3>2 DEF LocksHeld
  <2>. QED
    BY <2>1, <2>2
<1>. QED
  BY <1>1, <1>2 DEF LocksHeld

-----------------------------------------------------------------------------
(* What a transaction knows does not change while the rows do not.          *)
LEMMA SameRowsStand ==
  ASSUME row' = row, NEW d \in Connections, txn'[d] = txn[d],
         StepsOf(d), ReadsStand(d), WriteIsDue(d)
  PROVE  StepsOf(d)' /\ ReadsStand(d)' /\ WriteIsDue(d)'
<1>1. StepsOf(d)'
  BY DEF StepsOf, Doing
<1>2. /\ \A s : Store!InSession(s)' = Store!InSession(s)
      /\ \A s : Store!NextOrder(s)' = Store!NextOrder(s)
  BY DEF Store!InSession, Store!NextOrder, Store!Orders
<1>3. Store!NextOrder(txn[d].ses)' = Store!NextOrder(txn[d].ses)
      /\ Store!InSession(txn[d].ses)' = Store!InSession(txn[d].ses)
  BY DEF Store!InSession, Store!NextOrder, Store!Orders
<1>4. ReadsStand(d)'
  BY <1>3 DEF ReadsStand, Doing
<1>5. WriteIsDue(d)'
  BY DEF WriteIsDue, Doing, Store!StaleActive, Store!Owns
<1>. QED
  BY <1>1, <1>4, <1>5

(* What is true of the committed rows stays so while none is committed. *)
LEMMA SameRowsInv ==
  ASSUME row' = row, RowsInv
  PROVE  RowsInv'
<1>1. \A s \in Sessions : Store!Orders(s)' = Store!Orders(s)
  BY DEF Store!Orders, Store!InSession
<1>. QED
  BY <1>1 DEF RowsInv, HasMax

(* A step that commits nothing keeps the invariant, if its own transaction  *)
(* is in order afterwards.                                                  *)
LEMMA OwnStep ==
  ASSUME TypeOK, TransactionInv, NEW c \in Connections, Alone(c), OwnLocksOnly(c),
         row' = row, events' = events, nextval' \in Nat, nextval' >= nextval,
         txn'[c].seq < nextval',
         txn'[c].seq # 0 =>
           \A e \in events : InScope(txn'[c].inv, e.inv) => e.seq < txn'[c].seq,
         StepsOf(c)', ReadsStand(c)', WriteIsDue(c)'
  PROVE  TypeOK' /\ TransactionInv'
<1>1. TypeOK'
  BY DEF TypeOK, Alone, OwnLocksOnly
<1>2. LocksHeld'
  BY OwnLocks DEF TransactionInv
<1>3. TxnInv'
  <2>1. ASSUME NEW d \in Connections
        PROVE  StepsOf(d)' /\ ReadsStand(d)' /\ WriteIsDue(d)'
    <3>1. CASE d = c
      BY <3>1
    <3>2. CASE d # c
      BY <3>2, SameRowsStand DEF TransactionInv, TxnInv, Alone
    <3>. QED
      BY <3>1, <3>2
  <2>. QED
    BY <2>1 DEF TxnInv
<1>4. RowsInv'
  BY SameRowsInv DEF TransactionInv
<1>5. EventsInv'
  <2>1. \A d \in Connections : txn[d].seq \in Nat /\ txn[d].seq < nextval
    BY TxnFacts DEF TransactionInv, EventsInv
  <2>2. \A e \in events : e.seq \in Nat
    BY DEF TypeOK, EventRow
  <2>3. nextval \in Nat
    BY DEF TypeOK
  <2>4. \A e \in events : e.seq < nextval' /\ row'[e.inv].status # "ABSENT"
    BY <2>2, <2>3 DEF TransactionInv, EventsInv
  <2>5. ASSUME NEW d \in Connections
        PROVE  /\ txn'[d].seq < nextval'
               /\ txn'[d].seq # 0 =>
                    \A e \in events : InScope(txn'[d].inv, e.inv) => e.seq < txn'[d].seq
    <3>1. CASE d = c
      BY <3>1
    <3>2. CASE d # c
      <4>1. txn'[d] = txn[d]
        BY <3>2 DEF Alone
      <4>. QED
        BY <2>1, <2>3, <4>1 DEF TransactionInv, EventsInv
    <3>. QED
      BY <3>1, <3>2
  <2>6. \A i, j : InScope(i, j)' <=> InScope(i, j)
    BY DEF InScope
  <2>7. nextval' > 0 /\ IsFiniteSet(events')
    BY <2>3 DEF TransactionInv, EventsInv
  <2>8. ASSUME NEW d \in Connections, txn'[d].seq # 0, NEW e \in events, InScope(txn[d].inv, e.inv)'
        PROVE  e.seq < txn'[d].seq
    BY <2>5, <2>8 DEF InScope
  <2>. QED
    BY <2>4, <2>5, <2>7, <2>8 DEF EventsInv
<1>. QED
  BY <1>1, <1>2, <1>3, <1>4, <1>5 DEF TransactionInv

(* A statement that moves no lock leaves the connection with those it had. *)
LEMMA LocksStand ==
  ASSUME TypeOK, LocksHeld, NEW c \in Connections, Alone(c),
         sessionLock' = sessionLock, rowLock' = rowLock,
         txn'[c].wrote = txn[c].wrote, txn[c].wrote => txn'[c].inv = txn[c].inv,
         txn'[c].op \in Locking /\ txn'[c].ses # NoSession /\ txn'[c].pc # "lock"
           => sessionLock[txn'[c].ses] = c
  PROVE  OwnLocksOnly(c)
<1>1. \A i \in Invocations : rowLock[i] = c => txn[c].wrote /\ txn[c].inv = i
  BY DEF LocksHeld
<1>. QED
  BY <1>1 DEF OwnLocksOnly, LocksHeld, TypeOK

-----------------------------------------------------------------------------
(* The beginnings of a transaction.                                         *)
LEMMA BeginAcceptKeeps ==
  ASSUME TypeOK, TransactionInv, NEW c \in Connections, NEW i \in Invocations,
         NEW s \in Sessions \cup {NoSession}, NEW r \in Requests, BeginAccept(c, i, s, r)
  PROVE  TypeOK' /\ TransactionInv'
<1>1. /\ txn[c].pc = "idle" /\ UNCHANGED <<row, events, nextval, sessionLock, rowLock>>
      /\ txn' = [txn EXCEPT ![c] = [Idle EXCEPT !.op = "accept", !.inv = i, !.ses = s, !.req = r,
                                      !.pc = IF s = NoSession THEN "insert" ELSE "lock"]]
  BY DEF BeginAccept, Doing
<1>2. txn'[c] = [Idle EXCEPT !.op = "accept", !.inv = i, !.ses = s, !.req = r,
                              !.pc = IF s = NoSession THEN "insert" ELSE "lock"]
  BY <1>1 DEF TypeOK
<1>3. /\ txn'[c] \in Txn
      /\ txn'[c].pc = (IF s = NoSession THEN "insert" ELSE "lock")
      /\ txn'[c].op = "accept" /\ txn'[c].inv = i /\ txn'[c].ses = s
      /\ txn'[c].wrote = FALSE /\ txn'[c].seq = 0 /\ txn'[c].place = 0
  BY <1>2, IdleType DEF Txn, Ops
<1>4. Alone(c)
  BY <1>1, <1>2, <1>3 DEF Alone, TypeOK
<1>5. ~txn[c].wrote
  BY <1>1 DEF TransactionInv, TxnInv, StepsOf, Doing
<1>6. OwnLocksOnly(c)
  BY <1>1, <1>3, <1>4, <1>5, LocksStand, TxnFacts DEF TransactionInv
<1>7. StepsOf(c)' /\ ReadsStand(c)' /\ WriteIsDue(c)'
  BY <1>3 DEF StepsOf, ReadsStand, WriteIsDue, Doing, Locking, Claims, Fenced
<1>. QED
  BY <1>1, <1>3, <1>4, <1>6, <1>7, OwnStep DEF TransactionInv, EventsInv, TypeOK

(* A claim that begins keeps the invariant. *)
LEMMA BeginClaimKeeps ==
  ASSUME TypeOK, TransactionInv, NEW c \in Connections, NEW i \in Invocations,
         NEW op \in Claims, BeginClaim(c, i, op)
  PROVE  TypeOK' /\ TransactionInv'
<1>. DEFINE pc == IF row[i].session = NoSession THEN "snapshot" ELSE "lock"
<1>1. /\ txn[c].pc = "idle" /\ UNCHANGED <<row, events, nextval, sessionLock, rowLock>>
      /\ row[i].status # "ABSENT"
      /\ txn' = [txn EXCEPT ![c] = [Idle EXCEPT !.op = op, !.inv = i, !.ses = row[i].session,
                                      !.pc = pc]]
  BY DEF BeginClaim, Doing
<1>2. txn'[c] = [Idle EXCEPT !.op = op, !.inv = i, !.ses = row[i].session, !.pc = pc]
  BY <1>1 DEF TypeOK
<1>3. /\ txn'[c] \in Txn
      /\ txn'[c].pc = (IF row[i].session = NoSession THEN "snapshot" ELSE "lock")
      /\ txn'[c].op = op /\ txn'[c].inv = i /\ txn'[c].ses = row[i].session
      /\ txn'[c].wrote = FALSE /\ txn'[c].seq = 0
  BY <1>2, IdleType, RowFacts DEF Txn, Ops, Claims
<1>4. Alone(c)
  BY <1>1, <1>2, <1>3 DEF Alone, TypeOK
<1>5. ~txn[c].wrote
  BY <1>1 DEF TransactionInv, TxnInv, StepsOf, Doing
<1>6. OwnLocksOnly(c)
  BY <1>1, <1>3, <1>4, <1>5, LocksStand, TxnFacts DEF TransactionInv
<1>7. StepsOf(c)' /\ ReadsStand(c)' /\ WriteIsDue(c)'
  BY <1>1, <1>3 DEF StepsOf, ReadsStand, WriteIsDue, Doing, Locking, Claims, Fenced
<1>. QED
  BY <1>1, <1>3, <1>4, <1>6, <1>7, OwnStep DEF TransactionInv, EventsInv, TypeOK

(* A write fenced by an attempt that begins keeps the invariant. *)
LEMMA BeginFencedKeeps ==
  ASSUME TypeOK, TransactionInv, NEW c \in Connections, NEW i \in Invocations,
         NEW a \in 1..row[i].attempt, NEW op \in Fenced, BeginFenced(c, i, a, op)
  PROVE  TypeOK' /\ TransactionInv'
<1>1. /\ txn[c].pc = "idle" /\ UNCHANGED <<row, events, nextval, sessionLock, rowLock>>
      /\ txn' = [txn EXCEPT ![c] = [Idle EXCEPT !.op = op, !.inv = i, !.att = a, !.pc = "update"]]
  BY DEF BeginFenced, Doing
<1>2. txn'[c] = [Idle EXCEPT !.op = op, !.inv = i, !.att = a, !.pc = "update"]
  BY <1>1 DEF TypeOK
<1>a. a \in Nat \ {0}
  BY RowFacts
<1>3. /\ txn'[c] \in Txn
      /\ txn'[c].pc = "update" /\ txn'[c].op = op /\ txn'[c].inv = i /\ txn'[c].att = a
      /\ txn'[c].wrote = FALSE /\ txn'[c].seq = 0
  BY <1>2, <1>a, IdleType DEF Txn, Ops, Fenced
<1>4. Alone(c)
  BY <1>1, <1>2, <1>3 DEF Alone, TypeOK
<1>5. ~txn[c].wrote
  BY <1>1 DEF TransactionInv, TxnInv, StepsOf, Doing
<1>6. OwnLocksOnly(c)
  BY <1>1, <1>3, <1>4, <1>5, LocksStand, TxnFacts DEF TransactionInv, Locking, Claims, Fenced
<1>7. StepsOf(c)' /\ ReadsStand(c)' /\ WriteIsDue(c)'
  BY <1>3, <1>a DEF StepsOf, ReadsStand, WriteIsDue, Doing, Locking, Claims, Fenced
<1>. QED
  BY <1>1, <1>3, <1>4, <1>6, <1>7, OwnStep DEF TransactionInv, EventsInv, TypeOK

-----------------------------------------------------------------------------
(* A statement that only moves its transaction on.                          *)
LEMMA GoDoes ==
  ASSUME TypeOK, NEW c \in Connections, NEW pc, Go(c, pc),
         pc \in {"max", "snapshot", "update", "commit"}
  PROVE  /\ Alone(c) /\ txn'[c] \in Txn
         /\ txn'[c].pc = pc /\ txn'[c].op = txn[c].op /\ txn'[c].inv = txn[c].inv
         /\ txn'[c].ses = txn[c].ses /\ txn'[c].att = txn[c].att /\ txn'[c].place = txn[c].place
         /\ txn'[c].wrote = txn[c].wrote /\ txn'[c].seq = txn[c].seq
<1>1. /\ txn' = [txn EXCEPT ![c].pc = pc] /\ txn[c] \in Txn
      /\ txn \in [Connections -> Txn]
  BY DEF Go, TypeOK
<1>2. txn'[c] = [txn[c] EXCEPT !.pc = pc]
  BY <1>1
<1>3. /\ txn'[c] \in Txn
      /\ txn'[c].pc = pc /\ txn'[c].op = txn[c].op /\ txn'[c].inv = txn[c].inv
      /\ txn'[c].ses = txn[c].ses /\ txn'[c].att = txn[c].att /\ txn'[c].place = txn[c].place
      /\ txn'[c].wrote = txn[c].wrote /\ txn'[c].seq = txn[c].seq
  BY <1>1, <1>2 DEF Txn
<1>4. Alone(c)
  BY <1>1, <1>2, <1>3 DEF Alone
<1>. QED
  BY <1>3, <1>4

(* The advisory lock of a session keeps the invariant. *)
LEMMA LockSessionKeeps ==
  ASSUME TypeOK, TransactionInv, NEW c \in Connections, LockSession(c)
  PROVE  TypeOK' /\ TransactionInv'
<1>. DEFINE s == txn[c].ses
<1>1. /\ txn[c].pc = "lock" /\ UNCHANGED <<row, events, nextval, rowLock>>
      /\ sessionLock[txn[c].ses] = NoOne
      /\ sessionLock' = [sessionLock EXCEPT ![txn[c].ses] = c]
      /\ Go(c, AfterLock(txn[c].op))
  BY DEF LockSession, Doing
<1>2. AfterLock(txn[c].op) = (IF txn[c].op = "accept" THEN "max" ELSE "snapshot")
  BY DEF AfterLock
<1>3. /\ Alone(c) /\ txn'[c].pc = (IF txn[c].op = "accept" THEN "max" ELSE "snapshot")
      /\ txn'[c].op = txn[c].op /\ txn'[c].inv = txn[c].inv /\ txn'[c].ses = txn[c].ses
      /\ txn'[c].wrote = txn[c].wrote /\ txn'[c].seq = txn[c].seq
  BY <1>1, <1>2, GoDoes
<1>4. /\ txn[c].op \in Locking /\ txn[c].ses \in Sessions /\ txn[c].ses # NoSession
      /\ ~txn[c].wrote /\ txn[c].seq = 0 /\ txn[c].inv \in Invocations
  BY <1>1, TxnFacts DEF TransactionInv, TxnInv, StepsOf, Doing
<1>5. sessionLock'[txn[c].ses] = c
  BY <1>1, <1>4 DEF TypeOK
<1>6. OwnLocksOnly(c)
  <2>1. \A i \in Invocations : rowLock[i] # c
    BY <1>4 DEF TransactionInv, LocksHeld
  <2>2. sessionLock' \in [Sessions -> Connections \cup {NoOne}]
        /\ \A t \in Sessions : sessionLock'[t] = sessionLock[t] \/ sessionLock[t] \in {NoOne, c}
    BY <1>1, <1>4 DEF TypeOK
  <2>. QED
    BY <1>1, <1>3, <1>4, <1>5, <2>1, <2>2 DEF OwnLocksOnly, TypeOK
<1>7. StepsOf(c)'
  BY <1>3, <1>4 DEF StepsOf, Doing, Locking, Claims
<1>8. ReadsStand(c)'
  BY <1>1, <1>3, <1>4 DEF TransactionInv, TxnInv, ReadsStand, Doing, Claims
<1>9. WriteIsDue(c)'
  BY <1>3, <1>4 DEF WriteIsDue, Doing, Locking, Claims, Fenced
<1>. QED
  BY <1>1, <1>3, <1>4, <1>6, <1>7, <1>8, <1>9, OwnStep DEF TransactionInv, EventsInv, TypeOK

(* Reading MAX under the advisory lock keeps the invariant: nobody else may place a row. *)
LEMMA ReadMaxKeeps ==
  ASSUME TypeOK, TransactionInv, NEW c \in Connections, ReadMax(c)
  PROVE  TypeOK' /\ TransactionInv'
<1>1. /\ txn[c].pc = "max" /\ UNCHANGED <<row, events, nextval, sessionLock, rowLock>>
      /\ txn' = [txn EXCEPT ![c] = [txn[c] EXCEPT !.pc = "insert",
                                      !.place = Store!NextOrder(txn[c].ses)]]
  BY DEF ReadMax, Doing
<1>2. /\ txn[c].op = "accept" /\ txn[c].ses \in Sessions /\ txn[c].ses # NoSession
      /\ ~txn[c].wrote /\ txn[c].seq = 0 /\ txn[c].inv \in Invocations
  BY <1>1, TxnFacts DEF TransactionInv, TxnInv, StepsOf, Doing
<1>3. txn'[c] = [txn[c] EXCEPT !.pc = "insert", !.place = Store!NextOrder(txn[c].ses)]
  BY <1>1 DEF TypeOK
<1>4. Store!NextOrder(txn[c].ses) \in Nat
  BY <1>2, PlaceIsNew DEF TransactionInv
<1>5. /\ txn'[c] \in Txn /\ txn'[c].pc = "insert" /\ txn'[c].op = "accept"
      /\ txn'[c].inv = txn[c].inv /\ txn'[c].ses = txn[c].ses
      /\ txn'[c].wrote = txn[c].wrote /\ txn'[c].seq = txn[c].seq
      /\ txn'[c].place = Store!NextOrder(txn[c].ses)
  BY <1>2, <1>3, <1>4, TxnFacts DEF Txn
<1>6. Alone(c)
  BY <1>1, <1>3, <1>5 DEF Alone, TypeOK
<1>7. OwnLocksOnly(c)
  <2>1. sessionLock[txn[c].ses] = c
    BY <1>1, <1>2 DEF TransactionInv, LocksHeld, Doing, Locking
  <2>. QED
    BY <1>1, <1>2, <1>5, <1>6, <2>1, LocksStand DEF TransactionInv
<1>8. StepsOf(c)' /\ WriteIsDue(c)'
  BY <1>2, <1>5 DEF StepsOf, WriteIsDue, Doing, Locking, Claims, Fenced
<1>9. ReadsStand(c)'
  <2>1. Store!NextOrder(txn[c].ses)' = Store!NextOrder(txn[c].ses)
    BY <1>1, <1>5 DEF Store!NextOrder, Store!Orders, Store!InSession
  <2>. QED
    BY <1>2, <1>5, <2>1 DEF ReadsStand, Doing, Claims
<1>. QED
  BY <1>1, <1>2, <1>5, <1>6, <1>7, <1>8, <1>9, OwnStep DEF TransactionInv, EventsInv, TypeOK

(* A transaction that inserts finds the id free and unlocked, or leaves it. *)
LEMMA InsertKeeps ==
  ASSUME TypeOK, TransactionInv, NEW c \in Connections, Insert(c)
  PROVE  TypeOK' /\ TransactionInv'
<1>. DEFINE i == txn[c].inv
            new == row[txn[c].inv].status = "ABSENT"
<1>1. /\ txn[c].pc = "insert" /\ UNCHANGED <<row, events, nextval, sessionLock>>
      /\ rowLock[txn[c].inv] = NoOne \/ row[txn[c].inv].status # "ABSENT"
      /\ txn' = [txn EXCEPT ![c] = [txn[c] EXCEPT !.pc = "commit",
                                      !.wrote = row[txn[c].inv].status = "ABSENT"]]
      /\ rowLock' = IF row[txn[c].inv].status = "ABSENT"
                    THEN [rowLock EXCEPT ![txn[c].inv] = c] ELSE rowLock
  BY DEF Insert, Doing
<1>2. /\ txn[c].op = "accept" /\ ~txn[c].wrote /\ txn[c].seq = 0 /\ txn[c].inv \in Invocations
  BY <1>1 DEF TransactionInv, TxnInv, StepsOf, Doing
<1>3. txn'[c] = [txn[c] EXCEPT !.pc = "commit", !.wrote = row[txn[c].inv].status = "ABSENT"]
  BY <1>1 DEF TypeOK
<1>4. /\ txn'[c] \in Txn /\ txn'[c].pc = "commit" /\ txn'[c].op = "accept"
      /\ txn'[c].inv = txn[c].inv /\ txn'[c].ses = txn[c].ses /\ txn'[c].seq = txn[c].seq
      /\ txn'[c].wrote = (row[txn[c].inv].status = "ABSENT")
      /\ txn'[c].place = txn[c].place
  BY <1>2, <1>3, TxnFacts DEF Txn
<1>5. Alone(c)
  BY <1>1, <1>3, <1>4 DEF Alone, TypeOK
<1>6. OwnLocksOnly(c)
  <2>1. txn[c].ses # NoSession => sessionLock[txn[c].ses] = c
    BY <1>1, <1>2 DEF TransactionInv, LocksHeld, Doing, Locking
  <2>2. \A j \in Invocations : rowLock[j] # c
    BY <1>2 DEF TransactionInv, LocksHeld
  <2>3. CASE row[txn[c].inv].status # "ABSENT"
    BY <1>1, <1>2, <1>4, <1>5, <2>1, <2>3, LocksStand, TxnFacts DEF TransactionInv
  <2>4. CASE row[txn[c].inv].status = "ABSENT"
    <3>1. rowLock' = [rowLock EXCEPT ![txn[c].inv] = c] /\ rowLock[txn[c].inv] = NoOne
      BY <1>1, <2>4
    <3>2. /\ rowLock' \in [Invocations -> Connections \cup {NoOne}]
          /\ rowLock'[txn[c].inv] = c
          /\ \A j \in Invocations : j # txn[c].inv => rowLock'[j] = rowLock[j]
      BY <1>2, <3>1 DEF TypeOK
    <3>3. sessionLock' \in [Sessions -> Connections \cup {NoOne}] /\ sessionLock' = sessionLock
      BY <1>1 DEF TypeOK
    <3>. QED
      BY <1>4, <2>1, <2>2, <2>4, <3>1, <3>2, <3>3 DEF OwnLocksOnly
  <2>. QED
    BY <2>3, <2>4
<1>7. StepsOf(c)' /\ WriteIsDue(c)'
  BY <1>1, <1>2, <1>4 DEF StepsOf, WriteIsDue, Doing, Locking, Claims, Fenced, Telling
<1>8. ReadsStand(c)'
  <2>1. Store!NextOrder(txn[c].ses)' = Store!NextOrder(txn[c].ses)
    BY <1>1, <1>4 DEF Store!NextOrder, Store!Orders, Store!InSession
  <2>2. txn[c].place = IF txn[c].ses = NoSession THEN 0 ELSE Store!NextOrder(txn[c].ses)
    BY <1>1, <1>2 DEF TransactionInv, TxnInv, ReadsStand, Doing
  <2>. QED
    BY <1>2, <1>4, <2>1, <2>2 DEF ReadsStand, Doing, Claims
<1>. QED
  BY <1>1, <1>2, <1>4, <1>5, <1>6, <1>7, <1>8, OwnStep DEF TransactionInv, EventsInv, TypeOK

(* The snapshot of a claim sees its session, which stays as it is.          *)
LEMMA SnapshotKeeps ==
  ASSUME TypeOK, TransactionInv, NEW c \in Connections, Snapshot(c)
  PROVE  TypeOK' /\ TransactionInv'
<1>. DEFINE pc == IF Store!Claimable(txn[c].inv, txn[c].op = "recover") THEN "update" ELSE "commit"
<1>1. /\ txn[c].pc = "snapshot" /\ UNCHANGED <<row, events, nextval, sessionLock, rowLock>>
      /\ Go(c, pc)
  BY DEF Snapshot, Doing
<1>2. /\ txn[c].op \in Claims /\ ~txn[c].wrote /\ txn[c].seq = 0 /\ txn[c].inv \in Invocations
      /\ row[txn[c].inv].status # "ABSENT" /\ txn[c].ses = row[txn[c].inv].session
  BY <1>1 DEF TransactionInv, TxnInv, StepsOf, ReadsStand, Doing
<1>3. pc \in {"update", "commit"}
  OBVIOUS
<1>4. /\ Alone(c) /\ txn'[c].pc = pc
      /\ txn'[c].op = txn[c].op /\ txn'[c].inv = txn[c].inv /\ txn'[c].ses = txn[c].ses
      /\ txn'[c].wrote = txn[c].wrote /\ txn'[c].seq = txn[c].seq
  BY <1>1, <1>3, GoDoes
<1>5. txn[c].op = "claim" /\ pc = "update" => Store!Startable(txn[c].inv)
  BY DEF Store!Claimable
<1>. HIDE DEF pc
<1>6. OwnLocksOnly(c)
  <2>1. txn[c].ses # NoSession => sessionLock[txn[c].ses] = c
    BY <1>1, <1>2 DEF TransactionInv, LocksHeld, Doing, Locking
  <2>. QED
    BY <1>1, <1>2, <1>4, <2>1, LocksStand, TxnFacts DEF TransactionInv
<1>7. StepsOf(c)' /\ WriteIsDue(c)'
  BY <1>2, <1>3, <1>4 DEF StepsOf, WriteIsDue, Doing, Locking, Claims, Fenced
<1>8. ReadsStand(c)'
  <2>1. Store!InSession(txn[c].ses)' = Store!InSession(txn[c].ses)
    BY <1>1, <1>4 DEF Store!InSession
  <2>2. txn[c].op = "claim" /\ pc = "update" /\ txn[c].ses # NoSession =>
          \A j \in Store!InSession(txn[c].ses) :
             /\ row[j].status # "ACTIVE"
             /\ row[j].status = "QUEUED" => row[txn[c].inv].order <= row[j].order
    BY <1>2, <1>5 DEF Store!Startable
  <2>. QED
    BY <1>1, <1>2, <1>3, <1>4, <2>1, <2>2 DEF ReadsStand, Doing, Claims
<1>. QED
  BY <1>1, <1>2, <1>4, <1>6, <1>7, <1>8, OwnStep DEF TransactionInv, EventsInv, TypeOK

(* An UPDATE that finds no row it wants ends its transaction; one that does *)
(* holds the row from then on, and knows what it changes.                   *)
LEMMA UpdateKeeps ==
  ASSUME TypeOK, TransactionInv, NEW c \in Connections, Update(c)
  PROVE  TypeOK' /\ TransactionInv'
<1>1. /\ txn[c].pc = "update" /\ UNCHANGED <<row, events, sessionLock>>
      /\ rowLock[txn[c].inv] = NoOne
  BY DEF Update, Doing
<1>2. /\ txn[c].op # "accept" /\ ~txn[c].wrote /\ txn[c].seq = 0 /\ txn[c].inv \in Invocations
      /\ txn[c].op \in Ops
  BY <1>1, TxnFacts DEF TransactionInv, TxnInv, StepsOf, Doing
<1>3. txn[c].op \in Locking /\ txn[c].ses # NoSession => sessionLock[txn[c].ses] = c
  BY <1>1 DEF TransactionInv, LocksHeld, Doing
<1>4. Store!InSession(txn[c].ses)' = Store!InSession(txn[c].ses) \/ txn'[c].ses # txn[c].ses
  BY <1>1 DEF Store!InSession
<1>5. CASE ~Matches(c)
  <2>1. Go(c, "commit") /\ UNCHANGED <<rowLock, nextval>>
    BY <1>5 DEF Update
  <2>2. /\ Alone(c) /\ txn'[c].pc = "commit" /\ txn'[c].att = txn[c].att
        /\ txn'[c].op = txn[c].op /\ txn'[c].inv = txn[c].inv /\ txn'[c].ses = txn[c].ses
        /\ txn'[c].wrote = txn[c].wrote /\ txn'[c].seq = txn[c].seq
    BY <2>1, GoDoes
  <2>3. OwnLocksOnly(c)
    BY <1>1, <1>2, <1>3, <2>1, <2>2, LocksStand DEF TransactionInv
  <2>4. StepsOf(c)'
    BY <1>2, <2>2 DEF StepsOf, Doing
  <2>5. WriteIsDue(c)'
    BY <1>1, <1>2, <2>2 DEF TransactionInv, TxnInv, WriteIsDue, Doing
  <2>6. ReadsStand(c)'
    BY <1>1, <1>2, <2>2 DEF TransactionInv, TxnInv, ReadsStand, Doing, Claims
  <2>. QED
    BY <1>1, <1>2, <2>1, <2>2, <2>3, <2>4, <2>5, <2>6, OwnStep
    DEF TransactionInv, EventsInv, TypeOK
<1>6. CASE Matches(c)
  <2>. DEFINE a == IF txn[c].op \in {"claim", "recover"}
                   THEN row[txn[c].inv].attempt + 1 ELSE txn[c].att
              n == IF txn[c].op = "append" THEN nextval ELSE 0
              pc == NextPc(txn[c].op)
  <2>1. /\ rowLock' = [rowLock EXCEPT ![txn[c].inv] = c]
        /\ nextval' = IF txn[c].op = "append" THEN nextval + 1 ELSE nextval
        /\ txn' = [txn EXCEPT ![c] = [txn[c] EXCEPT !.pc = pc, !.wrote = TRUE,
                                        !.att = a, !.seq = n]]
    BY <1>6 DEF Update
  <2>2. /\ a \in Nat /\ n \in Nat
        /\ pc = (IF txn[c].op \in {"heartbeat", "append"} THEN "commit" ELSE "event")
    BY <1>2, TxnFacts, RowFacts DEF TypeOK, NextPc
  <2>3. txn'[c] = [txn[c] EXCEPT !.pc = pc, !.wrote = TRUE, !.att = a, !.seq = n]
    BY <2>1 DEF TypeOK
  <2>4. /\ txn'[c] \in Txn /\ txn'[c].pc = pc /\ txn'[c].wrote = TRUE
        /\ txn'[c].att = a /\ txn'[c].seq = n
        /\ txn'[c].op = txn[c].op /\ txn'[c].inv = txn[c].inv /\ txn'[c].ses = txn[c].ses
    BY <2>2, <2>3, TxnFacts DEF Txn
  <2>5. Alone(c)
    BY <2>1, <2>3, <2>4 DEF Alone, TypeOK
  <2>6. OwnLocksOnly(c)
    <3>1. /\ rowLock' \in [Invocations -> Connections \cup {NoOne}]
          /\ rowLock'[txn[c].inv] = c
          /\ \A j \in Invocations : j # txn[c].inv => rowLock'[j] = rowLock[j]
      BY <1>2, <2>1 DEF TypeOK
    <3>2. \A j \in Invocations : rowLock[j] # c
      BY <1>2 DEF TransactionInv, LocksHeld
    <3>3. sessionLock' \in [Sessions -> Connections \cup {NoOne}] /\ sessionLock' = sessionLock
      BY <1>1 DEF TypeOK
    <3>. QED
      BY <1>1, <1>3, <2>4, <3>1, <3>2, <3>3 DEF OwnLocksOnly
  <2>7. StepsOf(c)'
    <3>1. nextval > 0 /\ nextval \in Nat
      BY DEF TransactionInv, EventsInv, TypeOK
    <3>. QED
      BY <1>2, <2>2, <2>4, <3>1 DEF StepsOf, Doing, Ops, Claims, Locking, Telling
  <2>8. ReadsStand(c)'
    BY <1>1, <1>2, <1>4, <2>2, <2>4 DEF TransactionInv, TxnInv, ReadsStand, Doing, Claims
  <2>9. WriteIsDue(c)'
    <3>1. txn[c].op \in Fenced => txn[c].att \in Nat \ {0}
      BY <1>1 DEF TransactionInv, TxnInv, WriteIsDue, Doing
    <3>2. /\ txn[c].op = "claim" => row[txn[c].inv].status = "QUEUED"
          /\ txn[c].op = "recover" => Store!StaleActive(txn[c].inv)
          /\ txn[c].op \in Fenced => Store!Owns(txn[c].inv, txn[c].att)
      BY <1>2, <1>6 DEF Matches, Fenced, Ops
    <3>3. (txn[c].op \in Claims => a = row[txn[c].inv].attempt + 1)
          /\ (txn[c].op \in Fenced => a = txn[c].att)
      BY DEF Claims, Fenced
    <3>. QED
      BY <1>1, <1>2, <2>4, <3>1, <3>2, <3>3
      DEF WriteIsDue, Store!StaleActive, Store!Owns
  <2>10. /\ nextval' \in Nat /\ nextval' >= nextval /\ n < nextval'
         /\ n # 0 => \A e \in events : e.seq < n
    BY <2>1 DEF TypeOK, TransactionInv, EventsInv
  <2>. HIDE DEF a, n, pc
  <2>. QED
    BY <1>1, <2>4, <2>5, <2>6, <2>7, <2>8, <2>9, <2>10, OwnStep
<1>. QED
  BY <1>5, <1>6

(* An event that draws its sequence number keeps the invariant. *)
LEMMA InsertEventKeeps ==
  ASSUME TypeOK, TransactionInv, NEW c \in Connections, InsertEvent(c)
  PROVE  TypeOK' /\ TransactionInv'
<1>1. /\ txn[c].pc = "event" /\ UNCHANGED <<row, events, sessionLock, rowLock>>
      /\ nextval' = nextval + 1
      /\ txn' = [txn EXCEPT ![c] = [txn[c] EXCEPT !.pc = "commit", !.seq = nextval]]
  BY DEF InsertEvent, Doing
<1>2. /\ txn[c].op \in Telling \ {"append"} /\ txn[c].wrote /\ txn[c].inv \in Invocations
  BY <1>1 DEF TransactionInv, TxnInv, StepsOf, Doing
<1>3. nextval \in Nat /\ nextval > 0 /\ \A e \in events : e.seq < nextval
  BY DEF TransactionInv, EventsInv, TypeOK
<1>4. txn'[c] = [txn[c] EXCEPT !.pc = "commit", !.seq = nextval]
  BY <1>1 DEF TypeOK
<1>5. /\ txn'[c] \in Txn /\ txn'[c].pc = "commit" /\ txn'[c].seq = nextval
      /\ txn'[c].op = txn[c].op /\ txn'[c].inv = txn[c].inv /\ txn'[c].ses = txn[c].ses
      /\ txn'[c].wrote = txn[c].wrote /\ txn'[c].att = txn[c].att
  BY <1>3, <1>4, TxnFacts DEF Txn
<1>6. Alone(c)
  BY <1>1, <1>4, <1>5 DEF Alone, TypeOK
<1>7. OwnLocksOnly(c)
  <2>1. txn[c].op \in Locking /\ txn[c].ses # NoSession => sessionLock[txn[c].ses] = c
    BY <1>1 DEF TransactionInv, LocksHeld, Doing
  <2>. QED
    BY <1>1, <1>2, <1>5, <1>6, <2>1, LocksStand DEF TransactionInv
<1>8. StepsOf(c)'
  BY <1>2, <1>3, <1>5 DEF StepsOf, Doing, Telling, Claims, Locking
<1>9. ReadsStand(c)'
  <2>1. Store!InSession(txn[c].ses)' = Store!InSession(txn[c].ses)
    BY <1>1, <1>5 DEF Store!InSession
  <2>. QED
    BY <1>1, <1>2, <1>5, <2>1 DEF TransactionInv, TxnInv, ReadsStand, Doing, Telling, Claims
<1>10. WriteIsDue(c)'
  BY <1>1, <1>2, <1>5
  DEF TransactionInv, TxnInv, WriteIsDue, Doing, Store!StaleActive, Store!Owns
<1>. QED
  BY <1>1, <1>3, <1>5, <1>6, <1>7, <1>8, <1>9, <1>10, OwnStep

(* The end of a transaction releases what it held, and nothing else.        *)
LEMMA UnlockReleases ==
  ASSUME TypeOK, LocksHeld, NEW c \in Connections, Unlock(c)
  PROVE  Alone(c) /\ OwnLocksOnly(c) /\ txn'[c] = Idle
<1>1. /\ sessionLock' = [s \in Sessions |-> IF sessionLock[s] = c THEN NoOne ELSE sessionLock[s]]
      /\ rowLock' = [i \in Invocations |-> IF rowLock[i] = c THEN NoOne ELSE rowLock[i]]
      /\ txn' = [txn EXCEPT ![c] = Idle]
  BY DEF Unlock
<1>2. txn'[c] = Idle /\ Alone(c)
  BY <1>1, IdleType DEF Alone, TypeOK
<1>3. OwnLocksOnly(c)
  BY <1>1, <1>2, IdleType DEF OwnLocksOnly, TypeOK
<1>. QED
  BY <1>2, <1>3

(* A connection whose transaction is over has nothing to keep. *)
LEMMA IdleIsInOrder ==
  ASSUME NEW c \in Connections, txn'[c] = Idle
  PROVE  StepsOf(c)' /\ ReadsStand(c)' /\ WriteIsDue(c)'
BY IdleType DEF StepsOf, ReadsStand, WriteIsDue, Doing, Locking, Claims, Fenced

(* A broken transaction keeps the invariant, though its sequence number is lost. *)
LEMMA RollbackKeeps ==
  ASSUME TypeOK, TransactionInv, NEW c \in Connections, Rollback(c)
  PROVE  TypeOK' /\ TransactionInv'
<1>1. Unlock(c) /\ UNCHANGED <<row, events, nextval>>
  BY DEF Rollback
<1>2. Alone(c) /\ OwnLocksOnly(c) /\ txn'[c] = Idle
  BY <1>1, UnlockReleases DEF TransactionInv
<1>3. StepsOf(c)' /\ ReadsStand(c)' /\ WriteIsDue(c)'
  BY <1>2, IdleIsInOrder
<1>4. txn'[c].seq = 0 /\ nextval \in Nat /\ nextval > 0
  BY <1>2, IdleType DEF TypeOK, TransactionInv, EventsInv
<1>. QED
  BY <1>1, <1>2, <1>3, <1>4, OwnStep

-----------------------------------------------------------------------------
(* Two transactions that are about to commit an event are not of one        *)
(* session: each has its row locked, and an ACTIVE row, or a row about to   *)
(* become so, excludes the claim of the other.                              *)
LEMMA OneTeller ==
  ASSUME TypeOK, TransactionInv, NEW c \in Connections, NEW d \in Connections, c # d,
         txn[c].wrote, txn[d].wrote, txn[c].op \in Telling, txn[d].op \in Telling
  PROVE  ~InScope(txn[c].inv, txn[d].inv)
<1>. DEFINE i == txn[c].inv
            j == txn[d].inv
<1>1. i \in Invocations /\ j \in Invocations /\ i # j
  BY DEF TransactionInv, LocksHeld, TxnInv, StepsOf, Doing
<1>. SUFFICES ASSUME row[i].session = row[j].session, row[i].session # NoSession
              PROVE  FALSE
  BY <1>1 DEF InScope
<1>2. ~(row[i].status = "ACTIVE" /\ row[j].status = "ACTIVE")
  BY <1>1 DEF TransactionInv, RowsInv
<1>3. ASSUME NEW x \in Connections, txn[x].wrote, txn[x].op \in Telling
      PROVE  row[txn[x].inv].status = "ACTIVE" \/ txn[x].op = "claim"
  BY <1>3 DEF TransactionInv, TxnInv, WriteIsDue, Telling, Claims, Fenced, Store!StaleActive, Store!Owns
<1>4. ASSUME NEW x \in Connections, NEW y \in Connections, x # y, txn[x].wrote, txn[y].wrote,
             txn[x].op = "claim", txn[y].op \in Telling,
             row[txn[x].inv].session = row[txn[y].inv].session,
             row[txn[x].inv].session # NoSession
      PROVE  FALSE
  <2>1. /\ txn[x].ses = row[txn[x].inv].session /\ ~Doing(x, "lock") /\ ~Doing(y, "lock")
        /\ txn[y].inv \in Invocations
    BY <1>4 DEF TransactionInv, TxnInv, ReadsStand, StepsOf, Doing, Claims
  <2>2. sessionLock[txn[x].ses] = x
    BY <1>4, <2>1 DEF TransactionInv, LocksHeld, Locking, Claims
  <2>3. CASE txn[y].op = "claim"
    <3>1. txn[y].ses = row[txn[y].inv].session
      BY <2>3 DEF TransactionInv, TxnInv, ReadsStand, Claims
    <3>2. sessionLock[txn[y].ses] = y
      BY <1>4, <2>1, <2>3, <3>1 DEF TransactionInv, LocksHeld, Locking, Claims
    <3>. QED
      BY <1>4, <2>1, <2>2, <3>1, <3>2
  <2>4. CASE row[txn[y].inv].status = "ACTIVE"
    <3>1. txn[y].inv \in Store!InSession(txn[x].ses)
      BY <1>4, <2>1, <2>4 DEF Store!InSession
    <3>. QED
      BY <1>4, <2>1, <2>4, <3>1 DEF TransactionInv, TxnInv, ReadsStand
  <2>. QED
    BY <1>3, <1>4, <2>3, <2>4
<1>. QED
  BY <1>2, <1>3, <1>4

-----------------------------------------------------------------------------
(* What a commit makes of its row.                                          *)
LEMMA NewRowFacts ==
  ASSUME TypeOK, TransactionInv, NEW c \in Connections, txn[c].wrote
  PROVE  /\ txn[c].inv \in Invocations
         /\ NewRow(c) \in Store!Row /\ NewRow(c).status # "ABSENT"
         /\ txn[c].op = "accept" =>
              /\ row[txn[c].inv].status = "ABSENT" /\ NewRow(c).status = "QUEUED"
              /\ NewRow(c).session = txn[c].ses /\ NewRow(c).request = txn[c].req
              /\ NewRow(c).order = txn[c].place
         /\ txn[c].op # "accept" =>
              /\ row[txn[c].inv].status # "ABSENT"
              /\ NewRow(c).session = row[txn[c].inv].session
              /\ NewRow(c).order = row[txn[c].inv].order
         /\ NewRow(c).status = "ACTIVE" => row[txn[c].inv].status = "ACTIVE" \/ txn[c].op = "claim"
         /\ NewRow(c).status = "QUEUED" => txn[c].op = "accept"
<1>. DEFINE i == txn[c].inv
<1>1. i \in Invocations
  BY DEF TransactionInv, TxnInv, StepsOf, Doing
<1>2. /\ txn[c].op = "accept" => row[i].status = "ABSENT"
      /\ txn[c].op = "claim" => row[i].status = "QUEUED"
      /\ txn[c].op \in Fenced \cup {"recover"} => row[i].status = "ACTIVE"
  BY DEF TransactionInv, TxnInv, WriteIsDue, Store!StaleActive, Store!Owns
<1>3. /\ row[i] \in Store!Row /\ txn[c].op \in Ops
      /\ txn[c].ses \in Sessions \cup {NoSession} /\ txn[c].req \in Requests
      /\ txn[c].att \in Nat /\ txn[c].place \in Nat
  BY <1>1, RowFacts, TxnFacts
<1>4. CASE txn[c].op = "accept"
  BY <1>1, <1>2, <1>3, <1>4 DEF NewRow, Store!Row, Store!Status
<1>5. CASE txn[c].op \in Claims
  <2>1. NewRow(c) = [row[i] EXCEPT !.status = "ACTIVE", !.attempt = txn[c].att, !.fresh = TRUE]
    BY <1>5 DEF NewRow, Claims
  <2>2. NewRow(c) \in Store!Row
    BY <1>3, <2>1 DEF Store!Row, Store!Status
  <2>3. /\ NewRow(c).status = "ACTIVE" /\ NewRow(c).session = row[i].session
        /\ NewRow(c).order = row[i].order
    BY <1>3, <2>1 DEF Store!Row
  <2>. QED
    BY <1>1, <1>2, <1>5, <2>2, <2>3 DEF Claims, Fenced
<1>6. CASE txn[c].op = "heartbeat"
  <2>1. NewRow(c) = [row[i] EXCEPT !.fresh = TRUE]
    BY <1>6 DEF NewRow
  <2>. QED
    BY <1>1, <1>2, <1>3, <1>6, <2>1 DEF Store!Row, Store!Status, Fenced
<1>7. CASE txn[c].op \in {"complete", "fail"}
  <2>1. PICK st \in {"COMPLETED", "FAILED"} : NewRow(c) = [row[i] EXCEPT !.status = st]
    BY <1>7 DEF NewRow
  <2>. QED
    BY <1>1, <1>2, <1>3, <1>7, <2>1 DEF Store!Row, Store!Status, Fenced
<1>8. CASE txn[c].op = "append"
  <2>1. NewRow(c) = row[i]
    BY <1>8 DEF NewRow
  <2>. QED
    BY <1>1, <1>2, <1>3, <1>8, <2>1 DEF Fenced
<1>. QED
  BY <1>3, <1>4, <1>5, <1>6, <1>7, <1>8 DEF Ops, Claims

(* A row that keeps its session and place keeps the order of its session.   *)
LEMMA SameOrders ==
  ASSUME TypeOK, NEW i \in Invocations, row' \in [Invocations -> Store!Row],
         \A j \in Invocations \ {i} : row'[j] = row[j],
         row[i].status # "ABSENT", row'[i].status # "ABSENT",
         row'[i].session = row[i].session, row'[i].order = row[i].order
  PROVE  \A s \in Sessions \cup {NoSession} :
           /\ Store!InSession(s)' = Store!InSession(s)
           /\ Store!Orders(s)' = Store!Orders(s)
           /\ Store!NextOrder(s)' = Store!NextOrder(s)
<1>1. /\ \A k \in Invocations : row'[k].session = row[k].session /\ row'[k].order = row[k].order
      /\ \A k \in Invocations : row'[k].status # "ABSENT" <=> row[k].status # "ABSENT"
  OBVIOUS
<1>2. \A s \in Sessions \cup {NoSession} : Store!InSession(s)' = Store!InSession(s)
  BY <1>1 DEF Store!InSession
<1>3. \A s \in Sessions \cup {NoSession} : Store!Orders(s)' = Store!Orders(s)
  BY <1>1, <1>2 DEF Store!Orders, Store!InSession
<1>4. \A s \in Sessions \cup {NoSession} : Store!NextOrder(s)' = Store!NextOrder(s)
  BY <1>3 DEF Store!NextOrder
<1>. QED
  BY <1>2, <1>3, <1>4

(* The rows after a commit that wrote.                                      *)
LEMMA CommitDoes ==
  ASSUME TypeOK, TransactionInv, NEW c \in Connections, Commit(c), txn[c].wrote
  PROVE  /\ txn[c].inv \in Invocations
         /\ row' \in [Invocations -> Store!Row]
         /\ row'[txn[c].inv] = NewRow(c)
         /\ \A j \in Invocations \ {txn[c].inv} : row'[j] = row[j]
         /\ Doing(c, "commit") /\ Unlock(c) /\ nextval' = nextval
BY NewRowFacts DEF Commit, TypeOK

(* A committed accept adds its place to its own session, at the end. *)
LEMMA AcceptOrders ==
  ASSUME TypeOK, TransactionInv, NEW c \in Connections, Commit(c), txn[c].wrote,
         txn[c].op = "accept"
  PROVE  \A s \in Sessions :
           /\ s # txn[c].ses => /\ Store!InSession(s)' = Store!InSession(s)
                                /\ Store!Orders(s)' = Store!Orders(s)
                                /\ Store!NextOrder(s)' = Store!NextOrder(s)
           /\ s = txn[c].ses => /\ Store!Orders(s)' = Store!Orders(s) \cup {txn[c].place}
                                /\ txn[c].place = Store!NextOrder(s)
<1>. DEFINE i == txn[c].inv
<1>1. /\ i \in Invocations /\ row[i].status = "ABSENT"
      /\ row'[i].status = "QUEUED" /\ row'[i].session = txn[c].ses /\ row'[i].order = txn[c].place
      /\ \A j \in Invocations \ {i} : row'[j] = row[j]
  BY CommitDoes, NewRowFacts
<1>. HIDE DEF i
<1>2. ASSUME NEW s \in Sessions, s # txn[c].ses
      PROVE  Store!InSession(s)' = Store!InSession(s)
  BY <1>1, <1>2 DEF Store!InSession
<1>3. ASSUME NEW s \in Sessions, s # txn[c].ses
      PROVE  Store!Orders(s)' = Store!Orders(s)
  <2>1. \A k \in Store!InSession(s) : row'[k] = row[k]
    BY <1>1 DEF Store!InSession
  <2>. QED
    BY <1>2, <1>3, <2>1 DEF Store!Orders
<1>4. ASSUME NEW s \in Sessions, s = txn[c].ses
      PROVE  Store!Orders(s)' = Store!Orders(s) \cup {txn[c].place}
  <2>1. Store!InSession(s)' = Store!InSession(s) \cup {i}
    BY <1>1, <1>4 DEF Store!InSession
  <2>2. \A k \in Store!InSession(s) : row'[k] = row[k]
    BY <1>1 DEF Store!InSession
  <2>. QED
    BY <1>1, <2>1, <2>2 DEF Store!Orders
<1>5. \A s \in Sessions : s = txn[c].ses => txn[c].place = Store!NextOrder(s)
  BY CommitDoes DEF TransactionInv, TxnInv, ReadsStand, Doing
<1>6. \A s \in Sessions : s # txn[c].ses => Store!NextOrder(s)' = Store!NextOrder(s)
  BY <1>3 DEF Store!NextOrder
<1>. QED
  BY <1>2, <1>3, <1>4, <1>5, <1>6

(* Any other commit leaves the places of every session as they are. *)
LEMMA OthersOrders ==
  ASSUME TypeOK, TransactionInv, NEW c \in Connections, Commit(c), txn[c].wrote,
         txn[c].op # "accept"
  PROVE  \A s \in Sessions \cup {NoSession} :
           /\ Store!InSession(s)' = Store!InSession(s)
           /\ Store!Orders(s)' = Store!Orders(s)
           /\ Store!NextOrder(s)' = Store!NextOrder(s)
<1>. DEFINE i == txn[c].inv
<1>1. /\ i \in Invocations /\ row' \in [Invocations -> Store!Row]
      /\ \A j \in Invocations \ {i} : row'[j] = row[j]
      /\ row[i].status # "ABSENT" /\ row'[i].status # "ABSENT"
      /\ row'[i].session = row[i].session /\ row'[i].order = row[i].order
  BY CommitDoes, NewRowFacts
<1>. HIDE DEF i
<1>. QED
  BY <1>1, SameOrders

(* The unique indexes hold after every commit.                              *)
LEMMA CommitRowsInv ==
  ASSUME TypeOK, TransactionInv, NEW c \in Connections, Commit(c), txn[c].wrote
  PROVE  RowsInv'
<1>. DEFINE i == txn[c].inv
<1>1. /\ i \in Invocations /\ row'[i] = NewRow(c) /\ row'[i].status # "ABSENT"
      /\ \A j \in Invocations \ {i} : row'[j] = row[j]
  BY CommitDoes, NewRowFacts
<1>2. \A j \in Invocations : row'[j].status = "ABSENT" => row'[j].session = NoSession
  BY <1>1 DEF TransactionInv, RowsInv
<1>3. CASE txn[c].op = "accept"
  <2>1. /\ row'[i].session = txn[c].ses /\ row'[i].order = txn[c].place
        /\ row'[i].status = "QUEUED"
    BY <1>1, <1>3, NewRowFacts
  <2>2. ASSUME NEW s \in Sessions
        PROVE  HasMax(Store!Orders(s))'
    <3>1. CASE s # txn[c].ses
      <4>1. Store!Orders(s)' = Store!Orders(s)
        BY <1>3, <3>1, AcceptOrders
      <4>. QED
        BY <4>1 DEF TransactionInv, RowsInv, HasMax
    <3>2. CASE s = txn[c].ses
      <4>1. /\ Store!Orders(s)' = Store!Orders(s) \cup {txn[c].place}
            /\ txn[c].place = Store!NextOrder(s)
        BY <1>3, <3>2, AcceptOrders
      <4>2. /\ Store!NextOrder(s) \in Nat
            /\ \A n \in Store!Orders(s) : n \in Nat /\ n < Store!NextOrder(s)
        BY PlaceIsNew, RowFacts DEF TransactionInv, Store!Orders, Store!InSession
      <4>3. /\ txn[c].place \in Store!Orders(s)'
            /\ \A n \in Store!Orders(s)' : txn[c].place >= n
        BY <4>1, <4>2
      <4>. QED
        BY <4>3 DEF HasMax
    <3>. QED
      BY <3>1, <3>2
  <2>3. ASSUME NEW j \in Invocations \ {i}, row[j].session = txn[c].ses, txn[c].ses # NoSession
        PROVE  row[j].order # txn[c].place
    <3>1. txn[c].ses \in Sessions /\ row[j].order \in Nat
      BY <2>3, TxnFacts, RowFacts
    <3>2. j \in Store!InSession(txn[c].ses)
      BY <2>3 DEF Store!InSession, TransactionInv, RowsInv
    <3>. QED
      BY <1>3, <3>1, <3>2, AcceptOrders, PlaceIsNew DEF TransactionInv
  <2>4. ASSUME NEW j \in Invocations, NEW k \in Invocations, j # k,
               row'[j].session = row'[k].session, row'[j].session # NoSession
        PROVE  /\ row'[j].order # row'[k].order
               /\ ~(row'[j].status = "ACTIVE" /\ row'[k].status = "ACTIVE")
    <3>1. CASE j # i /\ k # i
      BY <1>1, <2>4, <3>1 DEF TransactionInv, RowsInv
    <3>2. CASE j = i
      BY <1>1, <2>1, <2>3, <2>4, <3>2
    <3>3. CASE k = i
      BY <1>1, <2>1, <2>3, <2>4, <3>3
    <3>. QED
      BY <3>1, <3>2, <3>3
  <2>. QED
    BY <1>2, <2>2, <2>4 DEF RowsInv
<1>4. CASE txn[c].op # "accept"
  <2>1. /\ row'[i].session = row[i].session /\ row'[i].order = row[i].order
        /\ row'[i].status = "ACTIVE" => row[i].status = "ACTIVE" \/ txn[c].op = "claim"
    BY <1>1, <1>4, NewRowFacts
  <2>2. ASSUME NEW s \in Sessions
        PROVE  HasMax(Store!Orders(s))'
    <3>1. Store!Orders(s)' = Store!Orders(s)
      BY <1>4, OthersOrders
    <3>. QED
      BY <3>1 DEF TransactionInv, RowsInv, HasMax
  <2>3. ASSUME NEW j \in Invocations \ {i}, row[j].session = row[i].session,
               row[i].session # NoSession, row[j].status = "ACTIVE"
        PROVE  row'[i].status # "ACTIVE"
    <3>1. CASE txn[c].op = "claim"
      <4>1. txn[c].ses = row[i].session
        BY <3>1 DEF TransactionInv, TxnInv, ReadsStand, Claims
      <4>2. j \in Store!InSession(txn[c].ses)
        BY <2>3, <4>1 DEF Store!InSession
      <4>. QED
        BY <2>3, <3>1, <4>1, <4>2 DEF TransactionInv, TxnInv, ReadsStand
    <3>2. CASE row[i].status = "ACTIVE"
      BY <1>1, <2>3, <3>2 DEF TransactionInv, RowsInv
    <3>. QED
      BY <2>1, <3>1, <3>2
  <2>4. ASSUME NEW j \in Invocations, NEW k \in Invocations, j # k,
               row'[j].session = row'[k].session, row'[j].session # NoSession
        PROVE  /\ row'[j].order # row'[k].order
               /\ ~(row'[j].status = "ACTIVE" /\ row'[k].status = "ACTIVE")
    <3>0. /\ row[j].session = row[k].session /\ row[j].session # NoSession
          /\ row'[j].order = row[j].order /\ row'[k].order = row[k].order
      BY <1>1, <2>1, <2>4
    <3>1. row[j].order # row[k].order
      BY <2>4, <3>0 DEF TransactionInv, RowsInv
    <3>2. CASE j # i /\ k # i
      BY <1>1, <2>4, <3>0, <3>1, <3>2 DEF TransactionInv, RowsInv
    <3>3. CASE j = i
      BY <1>1, <2>3, <2>4, <3>0, <3>1, <3>3
    <3>4. CASE k = i
      BY <1>1, <2>3, <2>4, <3>0, <3>1, <3>4
    <3>. QED
      BY <3>2, <3>3, <3>4
  <2>. QED
    BY <1>2, <2>2, <2>4 DEF RowsInv
<1>. QED
  BY <1>3, <1>4

(* Two transactions past the lock of one session are one.                   *)
LEMMA SessionLockExcludes ==
  ASSUME TransactionInv, NEW c \in Connections, NEW d \in Connections,
         txn[c].op \in Locking, txn[d].op \in Locking, ~Doing(c, "lock"), ~Doing(d, "lock"),
         txn[c].ses = txn[d].ses, txn[c].ses # NoSession
  PROVE  c = d
BY DEF TransactionInv, LocksHeld

(* A session that a claim has read is not changed by another's commit.      *)
LEMMA ReadSessionRests ==
  ASSUME TypeOK, TransactionInv, NEW c \in Connections, Commit(c), txn[c].wrote,
         NEW d \in Connections, c # d,
         txn[d].op = "claim", Doing(d, "update") \/ txn[d].wrote, txn[d].ses # NoSession
  PROVE  /\ Store!InSession(txn[d].ses)' = Store!InSession(txn[d].ses) \/ txn'[d].ses # txn[d].ses
         /\ \A j \in Store!InSession(txn[d].ses) : row'[j] = row[j]
         /\ txn[d].inv \in Store!InSession(txn[d].ses)
<1>. DEFINE i == txn[c].inv
<1>1. /\ i \in Invocations /\ row'[i] = NewRow(c) /\ Doing(c, "commit")
      /\ \A j \in Invocations \ {i} : row'[j] = row[j]
  BY CommitDoes
<1>2. /\ ~Doing(d, "lock") /\ ~Doing(c, "lock") /\ txn[d].inv \in Invocations
      /\ txn[d].op \in Locking /\ txn[d].ses = row[txn[d].inv].session
      /\ row[txn[d].inv].status # "ABSENT" /\ txn[d].ses \in Sessions
  BY <1>1, TxnFacts DEF TransactionInv, TxnInv, StepsOf, ReadsStand, Doing, Locking, Claims
<1>3. txn[d].inv \in Store!InSession(txn[d].ses)
  BY <1>2 DEF Store!InSession
<1>4. i \notin Store!InSession(txn[d].ses)
  <2>1. CASE txn[c].op = "accept"
    BY <2>1, NewRowFacts DEF Store!InSession
  <2>2. CASE txn[c].op \in Claims
    <3>1. txn[c].op \in Locking /\ txn[c].ses = row[i].session
      BY <2>2 DEF TransactionInv, TxnInv, ReadsStand, Locking
    <3>2. txn[c].ses # txn[d].ses
      BY <1>2, <3>1, SessionLockExcludes
    <3>. QED
      BY <3>1, <3>2 DEF Store!InSession
  <2>3. CASE txn[c].op \in Fenced
    <3>1. row[i].status = "ACTIVE"
      BY <2>3 DEF TransactionInv, TxnInv, WriteIsDue, Store!Owns
    <3>. QED
      BY <3>1 DEF TransactionInv, TxnInv, ReadsStand
  <2>. QED
    BY <2>1, <2>2, <2>3, TxnFacts DEF Ops, Claims, Fenced
<1>5. \A j \in Store!InSession(txn[d].ses) : row'[j] = row[j]
  BY <1>1, <1>4 DEF Store!InSession
<1>6. ASSUME txn'[d].ses = txn[d].ses
      PROVE  Store!InSession(txn[d].ses)' = Store!InSession(txn[d].ses)
  <2>1. CASE txn[c].op = "accept"
    <3>1. txn[c].ses # txn[d].ses
      BY <1>2, <2>1, SessionLockExcludes DEF Locking
    <3>2. row'[i].session = txn[c].ses
      BY <1>1, <2>1, NewRowFacts
    <3>. QED
      BY <1>1, <1>4, <1>6, <3>1, <3>2 DEF Store!InSession
  <2>2. CASE txn[c].op # "accept"
    <3>1. row'[i].session = row[i].session /\ row[i].status # "ABSENT"
      BY <1>1, <2>2, NewRowFacts
    <3>. QED
      BY <1>1, <1>4, <1>6, <3>1 DEF Store!InSession
  <2>. QED
    BY <2>1, <2>2
<1>. QED
  BY <1>3, <1>5, <1>6

(* A commit leaves what other transactions have read standing. *)
LEMMA CommitTxns ==
  ASSUME TypeOK, TransactionInv, NEW c \in Connections, Commit(c), txn[c].wrote,
         NEW d \in Connections, c # d, txn'[d] = txn[d]
  PROVE  StepsOf(d)' /\ ReadsStand(d)' /\ WriteIsDue(d)'
<1>. DEFINE i == txn[c].inv
<1>1. /\ i \in Invocations /\ row'[i] = NewRow(c) /\ Doing(c, "commit")
      /\ \A j \in Invocations \ {i} : row'[j] = row[j]
  BY CommitDoes
<1>2. StepsOf(d) /\ ReadsStand(d) /\ WriteIsDue(d)
  BY DEF TransactionInv, TxnInv
<1>3. StepsOf(d)'
  BY <1>2 DEF StepsOf, Doing
<1>4. ReadsStand(d)'
  <2>1. ASSUME txn[d].op = "accept", Doing(d, "insert") \/ Doing(d, "commit"),
               txn[d].ses # NoSession
        PROVE  Store!NextOrder(txn[d].ses)' = Store!NextOrder(txn[d].ses)
    <3>1. txn[d].ses \in Sessions /\ txn'[d].ses = txn[d].ses
      BY <2>1, TxnFacts
    <3>2. CASE txn[c].op = "accept"
      <4>1. txn[c].ses # txn[d].ses
        BY <1>1, <2>1, <3>2, SessionLockExcludes DEF Locking, Doing
      <4>2. PICK s \in Sessions : s = txn[d].ses
        BY <3>1
      <4>3. Store!NextOrder(s)' = Store!NextOrder(s)
        BY <3>2, <4>1, <4>2, AcceptOrders
      <4>. QED
        BY <3>1, <4>2, <4>3
    <3>3. CASE txn[c].op # "accept"
      <4>2. PICK s \in Sessions : s = txn[d].ses
        BY <3>1
      <4>3. Store!NextOrder(s)' = Store!NextOrder(s)
        BY <3>3, <4>2, OthersOrders
      <4>. QED
        BY <3>1, <4>2, <4>3
    <3>. QED
      BY <3>2, <3>3
  <2>2. ASSUME txn[d].op \in Claims
        PROVE  /\ row'[txn[d].inv].status # "ABSENT"
               /\ txn[d].ses = row'[txn[d].inv].session
    <3>1. /\ row[txn[d].inv].status # "ABSENT" /\ txn[d].ses = row[txn[d].inv].session
          /\ txn[d].inv \in Invocations
      BY <1>2, <2>2, IdleType DEF ReadsStand, StepsOf, Doing, Claims
    <3>2. CASE txn[d].inv = i
      BY <1>1, <2>2, <3>1, <3>2, NewRowFacts
    <3>3. CASE txn[d].inv # i
      BY <1>1, <3>1, <3>3
    <3>. QED
      BY <3>2, <3>3
  <2>3. ASSUME txn[d].op = "claim", Doing(d, "update") \/ txn[d].wrote, txn[d].ses # NoSession
        PROVE  \A j \in Store!InSession(txn[d].ses)' :
                 /\ row'[j].status # "ACTIVE"
                 /\ row'[j].status = "QUEUED" => row'[txn[d].inv].order <= row'[j].order
    <3>1. /\ Store!InSession(txn[d].ses)' = Store!InSession(txn[d].ses)
          /\ \A j \in Store!InSession(txn[d].ses) : row'[j] = row[j]
          /\ txn[d].inv \in Store!InSession(txn[d].ses)
      BY <2>3, ReadSessionRests
    <3>. QED
      BY <1>2, <2>3, <3>1 DEF ReadsStand
  <2>. QED
    BY <1>2, <2>1, <2>2, <2>3 DEF ReadsStand, Doing
<1>5. WriteIsDue(d)'
  <2>1. txn[d].wrote => txn[d].inv \in Invocations /\ txn[d].inv # i
    BY DEF TransactionInv, LocksHeld, TxnInv, StepsOf, Doing
  <2>2. txn[d].wrote => row'[txn[d].inv] = row[txn[d].inv]
    BY <1>1, <2>1
  <2>. QED
    BY <1>2, <2>2 DEF WriteIsDue, Doing, Store!StaleActive, Store!Owns
<1>. QED
  BY <1>3, <1>4, <1>5

(* Events committed behind one another: a commit adds the event with the    *)
(* largest number of its session.                                           *)
LEMMA CommitEventsInv ==
  ASSUME TypeOK, TransactionInv, NEW c \in Connections, Commit(c), txn[c].wrote
  PROVE  events' \subseteq EventRow /\ EventsInv'
<1>. DEFINE i == txn[c].inv
            e0 == [seq |-> txn[c].seq, inv |-> i, attempt |-> txn[c].att,
                   type |-> EventType(txn[c].op)]
<1>1. /\ i \in Invocations /\ row'[i] = NewRow(c) /\ row'[i].status # "ABSENT"
      /\ \A j \in Invocations \ {i} : row'[j] = row[j]
      /\ nextval' = nextval /\ Unlock(c)
  BY CommitDoes, NewRowFacts
<1>2. Alone(c) /\ txn'[c] = Idle
  BY <1>1, UnlockReleases DEF TransactionInv
<1>3. events' = (IF txn[c].seq = 0 THEN events ELSE events \cup {e0})
  BY DEF Commit
<1>4. e0 \in EventRow
  BY <1>1, TxnFacts DEF EventRow, EventType
<1>5. e0.seq = txn[c].seq /\ e0.inv = i
  OBVIOUS
<1>. HIDE DEF e0
<1>6. txn[c].seq # 0 => txn[c].op \in Telling
  BY DEF TransactionInv, TxnInv, StepsOf
<1>7. \A e \in events : e.inv \in Invocations /\ row[e.inv].status # "ABSENT" /\ e.seq < nextval
  BY DEF TransactionInv, EventsInv, TypeOK, EventRow
<1>8. txn[c].op # "accept" => row'[i].session = row[i].session
  BY <1>1, NewRowFacts
<1>9. ASSUME NEW d \in Connections, txn'[d].seq # 0
      PROVE  /\ d # c /\ txn'[d] = txn[d] /\ txn[d].wrote /\ txn[d].op \in Telling
             /\ txn[d].inv \in Invocations /\ txn[d].inv # i
             /\ row'[txn[d].inv] = row[txn[d].inv]
  <2>1. d # c /\ txn'[d] = txn[d]
    BY <1>2, <1>9, IdleType DEF Alone
  <2>2. txn[d].wrote /\ txn[d].op \in Telling /\ txn[d].inv \in Invocations
    BY <1>9, <2>1 DEF TransactionInv, TxnInv, StepsOf, Doing
  <2>3. txn[d].inv # i
    BY <2>1, <2>2 DEF TransactionInv, LocksHeld
  <2>. QED
    BY <1>1, <2>1, <2>2, <2>3
<1>10. ASSUME NEW d \in Connections, txn'[d].seq # 0,
              NEW e \in events', InScope(txn[d].inv, e.inv)'
       PROVE  e.seq < txn'[d].seq
  <2>1. CASE e \in events
    <3>1. row'[e.inv].session = row[e.inv].session
      BY <1>1, <1>7, <1>8, <2>1, NewRowFacts
    <3>2. InScope(txn[d].inv, e.inv)
      BY <1>9, <1>10, <3>1 DEF InScope
    <3>. QED
      BY <1>9, <1>10, <2>1, <3>2 DEF TransactionInv, EventsInv
  <2>2. CASE e \notin events
    <3>1. txn[c].seq # 0 /\ e = e0
      BY <1>3, <2>2
    <3>2. row'[i].session = row[i].session
      BY <1>6, <1>8, <3>1 DEF Telling, Claims
    <3>3. InScope(txn[d].inv, i)
      BY <1>5, <1>9, <1>10, <3>1, <3>2 DEF InScope
    <3>. QED
      BY <1>6, <1>9, <1>10, <3>1, <3>3, OneTeller DEF InScope
  <2>. QED
    BY <2>1, <2>2
<1>11. \A d \in Connections : txn'[d].seq < nextval'
  <2>1. \A d \in Connections : txn[d].seq < nextval /\ 0 < nextval
    BY DEF TransactionInv, EventsInv
  <2>. QED
    BY <1>1, <1>2, <2>1, IdleType DEF Alone
<1>12. \A e \in events' : e.seq < nextval' /\ row'[e.inv].status # "ABSENT"
  <2>1. txn[c].seq < nextval
    BY DEF TransactionInv, EventsInv
  <2>. QED
    BY <1>1, <1>3, <1>5, <1>7, <2>1
<1>13. IsFiniteSet(events')
  BY <1>3, FS_AddElement DEF TransactionInv, EventsInv
<1>14. nextval' > 0
  BY <1>1 DEF TransactionInv, EventsInv
<1>15. events' \subseteq EventRow
  BY <1>3, <1>4 DEF TypeOK
<1>16. \A d \in Connections :
         txn'[d].seq # 0 =>
           \A e \in events' : InScope(txn[d].inv, e.inv)' => e.seq < txn'[d].seq
  BY <1>10
<1>. QED
  BY <1>11, <1>12, <1>13, <1>14, <1>15, <1>16 DEF EventsInv

(* A commit keeps the invariant. *)
LEMMA CommitKeeps ==
  ASSUME TypeOK, TransactionInv, NEW c \in Connections, Commit(c)
  PROVE  TypeOK' /\ TransactionInv'
<1>1. Unlock(c) /\ nextval' = nextval
  BY DEF Commit
<1>2. Alone(c) /\ OwnLocksOnly(c) /\ txn'[c] = Idle
  BY <1>1, UnlockReleases DEF TransactionInv
<1>3. StepsOf(c)' /\ ReadsStand(c)' /\ WriteIsDue(c)'
  BY <1>2, IdleIsInOrder
<1>4. CASE ~txn[c].wrote
  <2>1. row' = row /\ events' = events
    BY <1>4 DEF Commit, TransactionInv, TxnInv, StepsOf
  <2>2. txn'[c].seq = 0 /\ nextval \in Nat /\ nextval > 0
    BY <1>2, IdleType DEF TypeOK, TransactionInv, EventsInv
  <2>. QED
    BY <1>1, <1>2, <1>3, <2>1, <2>2, OwnStep
<1>5. CASE txn[c].wrote
  <2>1. row' \in [Invocations -> Store!Row]
    BY <1>5, CommitDoes
  <2>2. events' \subseteq EventRow /\ EventsInv'
    BY <1>5, CommitEventsInv
  <2>3. TypeOK'
    BY <1>1, <1>2, <2>1, <2>2 DEF TypeOK, Alone, OwnLocksOnly
  <2>4. LocksHeld'
    BY <1>2, OwnLocks DEF TransactionInv
  <2>5. RowsInv'
    BY <1>5, CommitRowsInv
  <2>6. TxnInv'
    <3>1. ASSUME NEW d \in Connections, d # c
          PROVE  StepsOf(d)' /\ ReadsStand(d)' /\ WriteIsDue(d)'
      BY <1>2, <1>5, <3>1, CommitTxns DEF Alone
    <3>. QED
      BY <1>3, <3>1 DEF TxnInv
  <2>. QED
    BY <2>2, <2>3, <2>4, <2>5, <2>6 DEF TransactionInv
<1>. QED
  BY <1>4, <1>5, TxnFacts

(* A heartbeat that runs out changes nothing a transaction relies on.       *)
LEMMA ExpireKeeps ==
  ASSUME TypeOK, TransactionInv, NEW i \in Invocations, Expire(i)
  PROVE  TypeOK' /\ TransactionInv'
<1>1. /\ row[i].status = "ACTIVE" /\ row[i].fresh
      /\ row' = [row EXCEPT ![i].fresh = FALSE]
      /\ UNCHANGED <<events, nextval, sessionLock, rowLock, txn>>
  BY DEF Expire
<1>2. row'[i] = [row[i] EXCEPT !.fresh = FALSE] /\ row[i] \in Store!Row
  BY <1>1, RowFacts DEF TypeOK
<1>3. /\ row'[i] \in Store!Row /\ row'[i].status = row[i].status
      /\ row'[i].session = row[i].session /\ row'[i].order = row[i].order
      /\ row'[i].attempt = row[i].attempt
  BY <1>2 DEF Store!Row
<1>4. /\ row' \in [Invocations -> Store!Row]
      /\ \A j \in Invocations \ {i} : row'[j] = row[j]
  BY <1>1, <1>3 DEF TypeOK
<1>5. \A j \in Invocations :
        /\ row'[j].status = row[j].status /\ row'[j].session = row[j].session
        /\ row'[j].order = row[j].order /\ row'[j].attempt = row[j].attempt
        /\ ~row[j].fresh => row'[j] = row[j]
  BY <1>1, <1>3, <1>4
<1>6. TypeOK'
  BY <1>1, <1>4 DEF TypeOK
<1>7. LocksHeld'
  BY <1>1 DEF TransactionInv, LocksHeld, Doing
<1>8. \A s \in Sessions \cup {NoSession} :
           /\ Store!InSession(s)' = Store!InSession(s)
           /\ Store!Orders(s)' = Store!Orders(s)
           /\ Store!NextOrder(s)' = Store!NextOrder(s)
  BY <1>1, <1>3, <1>4, SameOrders
<1>9. ASSUME NEW c \in Connections
      PROVE  StepsOf(c)' /\ ReadsStand(c)' /\ WriteIsDue(c)'
  <2>1. txn'[c] = txn[c] /\ StepsOf(c) /\ ReadsStand(c) /\ WriteIsDue(c)
    BY <1>1 DEF TransactionInv, TxnInv
  <2>2. StepsOf(c)'
    BY <2>1 DEF StepsOf, Doing
  <2>3. PICK s \in Sessions \cup {NoSession} : s = txn[c].ses
    BY TxnFacts
  <2>4. Store!InSession(s)' = Store!InSession(s) /\ Store!NextOrder(s)' = Store!NextOrder(s)
    BY <1>8
  <2>5. /\ Store!InSession(txn[c].ses)' = Store!InSession(txn[c].ses)
        /\ Store!NextOrder(txn[c].ses)' = Store!NextOrder(txn[c].ses)
    BY <1>1, <2>3, <2>4
  <2>6. /\ \A j \in Store!InSession(txn[c].ses) : j \in Invocations
        /\ ~Doing(c, "idle") => txn[c].inv \in Invocations
    BY <2>1 DEF Store!InSession, StepsOf
  <2>7. txn[c].op \in Claims \/ txn[c].wrote => ~Doing(c, "idle")
    BY <2>1, IdleType DEF StepsOf, Doing, Claims
  <2>8. ReadsStand(c)'
    BY <1>1, <1>5, <2>1, <2>5, <2>6, <2>7 DEF ReadsStand, Doing, Claims
  <2>9. WriteIsDue(c)'
    BY <1>1, <1>5, <2>1, <2>6, <2>7 DEF WriteIsDue, Doing, Store!StaleActive, Store!Owns
  <2>. QED
    BY <2>2, <2>8, <2>9
<1>10. RowsInv'
  BY <1>5, <1>8 DEF TransactionInv, RowsInv, HasMax
<1>11. EventsInv'
  <2>1. \A c \in Connections : txn[c].seq # 0 => txn[c].inv \in Invocations
    BY DEF TransactionInv, TxnInv, StepsOf, Doing
  <2>2. \A e \in events : e.inv \in Invocations
    BY DEF TypeOK, EventRow
  <2>. QED
    BY <1>1, <1>5, <2>1, <2>2 DEF TransactionInv, EventsInv, InScope
<1>. QED
  BY <1>6, <1>7, <1>9, <1>10, <1>11 DEF TransactionInv, TxnInv

-----------------------------------------------------------------------------
(* Every step keeps the invariant. *)
LEMMA NextKeeps ==
  ASSUME TypeOK, TransactionInv, [Next]_vars
  PROVE  TypeOK' /\ TransactionInv'
<1>1. ASSUME NEW c \in Connections, Begin(c)
      PROVE  TypeOK' /\ TransactionInv'
  <2>1. PICK i \in Invocations :
          \/ \E s \in Sessions \cup {NoSession}, r \in Requests : BeginAccept(c, i, s, r)
          \/ \E op \in {"claim", "recover"} : BeginClaim(c, i, op)
          \/ \E a \in 1..row[i].attempt, op \in {"heartbeat", "complete", "fail", "append"} :
               BeginFenced(c, i, a, op)
    BY <1>1 DEF Begin
  <2>. QED
    BY <2>1, BeginAcceptKeeps, BeginClaimKeeps, BeginFencedKeeps DEF Claims, Fenced
<1>2. ASSUME NEW c \in Connections, Statement(c)
      PROVE  TypeOK' /\ TransactionInv'
  BY <1>2, LockSessionKeeps, ReadMaxKeeps, InsertKeeps, SnapshotKeeps, UpdateKeeps,
     InsertEventKeeps DEF Statement
<1>3. CASE UNCHANGED vars
  <2>1. TypeOK'
    BY <1>3 DEF TypeOK, vars
  <2>2. \A c \in Connections : StepsOf(c)' /\ ReadsStand(c)' /\ WriteIsDue(c)'
    BY <1>3, SameRowsStand DEF TransactionInv, TxnInv, vars
  <2>3. RowsInv'
    BY <1>3, SameRowsInv DEF TransactionInv, vars
  <2>4. LocksHeld'
    BY <1>3 DEF TransactionInv, LocksHeld, Doing, vars
  <2>5. EventsInv'
    BY <1>3 DEF TransactionInv, EventsInv, InScope, vars
  <2>. QED
    BY <2>1, <2>2, <2>3, <2>4, <2>5 DEF TransactionInv, TxnInv
<1>. QED
  BY <1>1, <1>2, <1>3, CommitKeeps, RollbackKeeps, ExpireKeeps DEF Next

(* There are no rows and no transactions at first. *)
LEMMA InitHolds ==
  ASSUME Init
  PROVE  TypeOK /\ TransactionInv
<1>1. /\ \A i \in Invocations : row[i] = Store!AbsentRow
      /\ row = [i \in Invocations |-> Store!AbsentRow]
      /\ events = {} /\ nextval = 1
      /\ sessionLock = [s \in Sessions |-> NoOne]
      /\ rowLock = [i \in Invocations |-> NoOne]
      /\ txn = [c \in Connections |-> Idle]
  BY DEF Init
<1>2. TypeOK
  BY <1>1, AbsentType, IdleType DEF TypeOK
<1>3. \A c \in Connections : txn[c] = Idle
  BY <1>1
<1>4. LocksHeld
  BY <1>1, <1>3, IdleType DEF LocksHeld, Locking, Claims
<1>5. TxnInv
  BY <1>3, IdleType DEF TxnInv, StepsOf, ReadsStand, WriteIsDue, Doing, Locking, Claims, Fenced
<1>6. \A i \in Invocations : row[i].status = "ABSENT" /\ row[i].session = NoSession
  BY <1>1 DEF Store!AbsentRow
<1>7. RowsInv
  <2>1. ASSUME NEW s \in Sessions
        PROVE  HasMax(Store!Orders(s))
    <3>1. Store!InSession(s) = {}
      BY <1>6 DEF Store!InSession
    <3>2. Store!Orders(s) = {0}
      BY <3>1 DEF Store!Orders
    <3>. QED
      BY <3>2 DEF HasMax
  <2>. QED
    BY <1>6, <2>1 DEF RowsInv
<1>8. EventsInv
  BY <1>1, <1>3, IdleType, FS_EmptySet DEF EventsInv
<1>. QED
  BY <1>2, <1>4, <1>5, <1>7, <1>8 DEF TransactionInv

(* The inductive invariant: held locks are held by who needs them, what was *)
(* read under them stands, and rows and events agree with the indexes.      *)
THEOREM TransactionInvariant == Spec => [](TypeOK /\ TransactionInv)
<1>1. Init => TypeOK /\ TransactionInv
  BY InitHolds
<1>2. TypeOK /\ TransactionInv /\ [Next]_vars => (TypeOK /\ TransactionInv)'
  BY NextKeeps
<1>. QED
  BY <1>1, <1>2, PTL DEF Spec

-----------------------------------------------------------------------------
(* What the indexes would see if everything pending were committed now.     *)
LEMMA SoonFacts ==
  ASSUME TypeOK, TransactionInv, NEW i \in Invocations
  PROVE  \/ RowSoon(i) = row[i]
         \/ \E c \in Connections :
              /\ rowLock[i] = c /\ txn[c].wrote /\ txn[c].inv = i /\ RowSoon(i) = NewRow(c)
BY DEF RowSoon, Pending, TypeOK, TransactionInv, LocksHeld

(* A row that is pending keeps its session, or is an accept that holds it.  *)
LEMMA SoonInSession ==
  ASSUME TypeOK, TransactionInv, NEW i \in Invocations, RowSoon(i).session # NoSession
  PROVE  \/ /\ row[i].session = RowSoon(i).session /\ row[i].order = RowSoon(i).order
            /\ i \in Store!InSession(RowSoon(i).session)
            /\ RowSoon(i).status = "ACTIVE" =>
                 \/ row[i].status = "ACTIVE"
                 \/ \E c \in Connections :
                      /\ txn[c].wrote /\ txn[c].inv = i /\ txn[c].op = "claim"
                      /\ txn[c].ses = RowSoon(i).session
         \/ \E c \in Connections :
              /\ txn[c].wrote /\ txn[c].inv = i /\ txn[c].op = "accept"
              /\ txn[c].ses = RowSoon(i).session /\ RowSoon(i).status = "QUEUED"
              /\ RowSoon(i).order = Store!NextOrder(RowSoon(i).session)
<1>1. CASE RowSoon(i) = row[i]
  BY <1>1 DEF Store!InSession, TransactionInv, RowsInv
<1>2. ASSUME NEW c \in Connections, txn[c].wrote, txn[c].inv = i, RowSoon(i) = NewRow(c)
      PROVE  \/ /\ row[i].session = RowSoon(i).session /\ row[i].order = RowSoon(i).order
                /\ i \in Store!InSession(RowSoon(i).session)
                /\ RowSoon(i).status = "ACTIVE" =>
                     \/ row[i].status = "ACTIVE"
                     \/ /\ txn[c].wrote /\ txn[c].inv = i /\ txn[c].op = "claim"
                        /\ txn[c].ses = RowSoon(i).session
             \/ /\ txn[c].op = "accept"
                /\ txn[c].ses = RowSoon(i).session /\ RowSoon(i).status = "QUEUED"
                /\ RowSoon(i).order = Store!NextOrder(RowSoon(i).session)
  <2>1. CASE txn[c].op = "accept"
    <3>1. Doing(c, "commit")
      BY <1>2, <2>1 DEF TransactionInv, TxnInv, StepsOf, Telling, Claims, Doing
    <3>2. txn[c].place = IF txn[c].ses = NoSession THEN 0 ELSE Store!NextOrder(txn[c].ses)
      BY <2>1, <3>1 DEF TransactionInv, TxnInv, ReadsStand
    <3>. QED
      BY <1>2, <2>1, <3>2, NewRowFacts
  <2>2. CASE txn[c].op # "accept"
    <3>1. /\ row[i].status # "ABSENT" /\ RowSoon(i).session = row[i].session
          /\ RowSoon(i).order = row[i].order
          /\ RowSoon(i).status = "ACTIVE" => row[i].status = "ACTIVE" \/ txn[c].op = "claim"
      BY <1>2, <2>2, NewRowFacts
    <3>2. txn[c].op = "claim" => txn[c].ses = row[i].session
      BY <1>2 DEF TransactionInv, TxnInv, ReadsStand, Claims
    <3>3. i \in Store!InSession(RowSoon(i).session)
      BY <3>1 DEF Store!InSession
    <3>. QED
      BY <1>2, <3>1, <3>2, <3>3
  <2>. QED
    BY <2>1, <2>2
<1>. QED
  BY <1>1, <1>2, SoonFacts

(* By the invariant no pending write can meet a unique index. *)
LEMMA IndexesHold ==
  ASSUME TypeOK, TransactionInv
  PROVE  IndexesNeverReject
<1>. SUFFICES ASSUME NEW i \in Invocations, NEW j \in Invocations, i # j,
                     RowSoon(i).session = RowSoon(j).session, RowSoon(i).session # NoSession
              PROVE  /\ RowSoon(i).order # RowSoon(j).order
                     /\ ~(RowSoon(i).status = "ACTIVE" /\ RowSoon(j).status = "ACTIVE")
  BY DEF IndexesNeverReject
<1>. DEFINE s == RowSoon(i).session
            Stays(k) == /\ row[k].session = s /\ row[k].order = RowSoon(k).order
                        /\ k \in Store!InSession(s)
                        /\ RowSoon(k).status = "ACTIVE" =>
                             \/ row[k].status = "ACTIVE"
                             \/ \E c \in Connections :
                                  /\ txn[c].wrote /\ txn[c].inv = k /\ txn[c].op = "claim"
                                  /\ txn[c].ses = s
            Accepts(k) == \E c \in Connections :
                            /\ txn[c].wrote /\ txn[c].inv = k /\ txn[c].op = "accept"
                            /\ txn[c].ses = s /\ RowSoon(k).status = "QUEUED"
                            /\ RowSoon(k).order = Store!NextOrder(s)
<1>1. /\ Stays(i) \/ Accepts(i)
      /\ Stays(j) \/ Accepts(j)
  BY SoonInSession
<1>2. s # NoSession
  OBVIOUS
<1>. HIDE DEF s
<1>3. ASSUME NEW c \in Connections, NEW d \in Connections, txn[c].wrote, txn[d].wrote,
             txn[c].op \in Locking, txn[d].op \in Locking, txn[c].ses = s, txn[d].ses = s
      PROVE  c = d
  <2>1. ~Doing(c, "lock") /\ ~Doing(d, "lock")
    BY <1>3 DEF TransactionInv, TxnInv, StepsOf, Doing
  <2>. QED
    BY <1>2, <1>3, <2>1, SessionLockExcludes
<1>4. ASSUME NEW k \in Invocations, NEW m \in Invocations, k # m, Stays(k), Accepts(m)
      PROVE  /\ RowSoon(k).order # RowSoon(m).order
             /\ RowSoon(m).status # "ACTIVE"
  <2>1. s \in Sessions
    BY <1>2, <1>4, RowFacts
  <2>2. row[k].order < Store!NextOrder(s) /\ row[k].order \in Nat /\ Store!NextOrder(s) \in Nat
    BY <1>4, <2>1, PlaceIsNew, RowFacts DEF TransactionInv
  <2>. QED
    BY <1>4, <2>2
<1>5. ASSUME Accepts(i), Accepts(j)
      PROVE  FALSE
  <2>1. PICK c \in Connections : txn[c].wrote /\ txn[c].inv = i /\ txn[c].op = "accept" /\ txn[c].ses = s
    BY <1>5
  <2>2. PICK d \in Connections : txn[d].wrote /\ txn[d].inv = j /\ txn[d].op = "accept" /\ txn[d].ses = s
    BY <1>5
  <2>. QED
    BY <1>3, <2>1, <2>2 DEF Locking
<1>6. ASSUME Stays(i), Stays(j)
      PROVE  /\ RowSoon(i).order # RowSoon(j).order
             /\ ~(RowSoon(i).status = "ACTIVE" /\ RowSoon(j).status = "ACTIVE")
  <2>1. /\ row[i].order # row[j].order
        /\ ~(row[i].status = "ACTIVE" /\ row[j].status = "ACTIVE")
    BY <1>2, <1>6 DEF TransactionInv, RowsInv
  <2>2. ASSUME NEW k \in Invocations, NEW c \in Connections, k \in Store!InSession(s),
               txn[c].wrote, txn[c].op = "claim", txn[c].ses = s
        PROVE  row[k].status # "ACTIVE"
    BY <1>2, <2>2 DEF TransactionInv, TxnInv, ReadsStand
  <2>3. ASSUME RowSoon(i).status = "ACTIVE", RowSoon(j).status = "ACTIVE"
        PROVE  FALSE
    <3>1. CASE row[i].status = "ACTIVE"
      BY <1>6, <2>1, <2>2, <2>3, <3>1
    <3>2. CASE row[j].status = "ACTIVE"
      BY <1>6, <2>1, <2>2, <2>3, <3>2
    <3>3. CASE row[i].status # "ACTIVE" /\ row[j].status # "ACTIVE"
      <4>1. PICK c \in Connections :
              txn[c].wrote /\ txn[c].inv = i /\ txn[c].op = "claim" /\ txn[c].ses = s
        BY <1>6, <2>3, <3>3
      <4>2. PICK d \in Connections :
              txn[d].wrote /\ txn[d].inv = j /\ txn[d].op = "claim" /\ txn[d].ses = s
        BY <1>6, <2>3, <3>3
      <4>. QED
        BY <1>3, <4>1, <4>2 DEF Locking, Claims
    <3>. QED
      BY <3>1, <3>2, <3>3
  <2>. QED
    BY <1>6, <2>1, <2>3
<1>. HIDE DEF Stays, Accepts
<1>. QED
  BY <1>1, <1>4, <1>5, <1>6

(* No write of a transaction is ever rejected by a unique index, whatever   *)
(* else is pending: within a session places differ and at most one row is   *)
(* or becomes ACTIVE.                                                       *)
THEOREM RowsAreUnique == Spec => []RowsStayUnique
<1>1. TypeOK /\ TransactionInv => RowsStayUnique
  BY IndexesHold DEF RowsStayUnique
<1>. QED
  BY <1>1, TransactionInvariant, PTL

-----------------------------------------------------------------------------
(* Only a commit adds an event, and it adds one.                            *)
LEMMA EventsGrow ==
  ASSUME TypeOK, TransactionInv, [Next]_vars, NEW e \in events', e \notin events
  PROVE  \E c \in Connections :
           /\ Commit(c) /\ txn[c].wrote /\ txn[c].seq # 0
           /\ e.inv = txn[c].inv /\ e.seq = txn[c].seq
<1>1. CASE UNCHANGED vars
  BY <1>1 DEF vars
<1>2. ASSUME NEW c \in Connections, Begin(c)
      PROVE  events' = events
  BY <1>2 DEF Begin, BeginAccept, BeginClaim, BeginFenced
<1>3. ASSUME NEW c \in Connections, Statement(c)
      PROVE  events' = events
  BY <1>3 DEF Statement, LockSession, ReadMax, Insert, Snapshot, Update, InsertEvent
<1>4. ASSUME NEW c \in Connections, Commit(c)
      PROVE  /\ txn[c].wrote /\ txn[c].seq # 0
             /\ e.inv = txn[c].inv /\ e.seq = txn[c].seq
  BY <1>4 DEF Commit, TransactionInv, TxnInv, StepsOf
<1>5. ASSUME NEW c \in Connections, Rollback(c)
      PROVE  events' = events
  BY <1>5 DEF Rollback
<1>6. ASSUME NEW i \in Invocations, Expire(i)
      PROVE  events' = events
  BY <1>6 DEF Expire
<1>. QED
  BY <1>1, <1>2, <1>3, <1>4, <1>5, <1>6 DEF Next

(* Events of one session become visible in the order of their sequence      *)
(* numbers, though they are drawn before the commit and rolled back at      *)
(* will: an `after` cursor never passes an event that is yet to come.       *)
THEOREM CursorsAreSafe == Spec => CursorsSkipNothing
<1>1. TypeOK /\ TransactionInv /\ [Next]_vars =>
        [\A e \in events' \ events, f \in events : SameScope(e, f) => f.seq < e.seq]_vars
  <2>. SUFFICES ASSUME TypeOK, TransactionInv, [Next]_vars,
                       NEW e \in events', e \notin events, NEW f \in events, SameScope(e, f)
                PROVE  f.seq < e.seq
    OBVIOUS
  <2>1. PICK c \in Connections : /\ Commit(c) /\ txn[c].wrote /\ txn[c].seq # 0
                                 /\ e.inv = txn[c].inv /\ e.seq = txn[c].seq
    BY EventsGrow
  <2>2. InScope(txn[c].inv, f.inv)
    BY <2>1 DEF SameScope, InScope
  <2>. QED
    BY <2>1, <2>2 DEF TransactionInv, EventsInv
<1>. QED
  BY <1>1, TransactionInvariant, PTL DEF Spec, CursorsSkipNothing

-----------------------------------------------------------------------------
(* An event with a number above all others comes last in the log.           *)
LEMMA LastInOrder ==
  ASSUME NEW S, IsFiniteSet(S), NEW e0, e0 \notin S,
         \A f \in S : f.seq \in Nat /\ f.seq < e0.seq, e0.seq \in Nat
  PROVE  InOrder(S \cup {e0}) = Append(InOrder(S), [attempt |-> e0.attempt, type |-> e0.type])
<1>. DEFINE T == S \cup {e0}
            n == Cardinality(S)
            last == [attempt |-> e0.attempt, type |-> e0.type]
            A(e) == [attempt |-> e.attempt, type |-> e.type]
<1>1. Cardinality(T) = n + 1 /\ n \in Nat /\ IsFiniteSet(T)
  BY FS_AddElement, FS_CardinalityType
<1>2. ASSUME NEW x \in S
      PROVE  UpTo(T, x.seq) = UpTo(S, x.seq) /\ UpTo(S, x.seq) \in Nat /\ UpTo(S, x.seq) <= n
  <2>1. {f \in T : f.seq <= x.seq} = {f \in S : f.seq <= x.seq}
    BY <1>2
  <2>2. {f \in S : f.seq <= x.seq} \subseteq S
    OBVIOUS
  <2>3. IsFiniteSet({f \in S : f.seq <= x.seq})
        /\ Cardinality({f \in S : f.seq <= x.seq}) <= n
    BY <2>2, FS_Subset
  <2>. QED
    BY <2>1, <2>3, FS_CardinalityType DEF UpTo
<1>3. UpTo(T, e0.seq) = n + 1
  <2>1. {f \in T : f.seq <= e0.seq} = T
    OBVIOUS
  <2>. QED
    BY <1>1, <2>1 DEF UpTo
<1>4. ASSUME NEW k \in 1..n
      PROVE  {x \in T : UpTo(T, x.seq) = k} = {x \in S : UpTo(S, x.seq) = k}
  BY <1>1, <1>2, <1>3
<1>5. {x \in T : UpTo(T, x.seq) = n + 1} = {e0}
  <2>1. ASSUME NEW x \in S
        PROVE  UpTo(T, x.seq) # n + 1
    <3>1. UpTo(T, x.seq) \in Nat /\ UpTo(T, x.seq) <= n /\ n \in Nat
      BY <1>1, <1>2
    <3>. HIDE DEF T, n
    <3>. QED
      BY <3>1
  <2>. HIDE DEF n
  <2>. QED
    BY <1>3, <2>1
<1>6. The({e0}) = e0
  BY DEF The
<1>7. InOrder(S) = [k \in 1..n |-> A(The({x \in S : UpTo(S, x.seq) = k}))]
  BY DEF InOrder
<1>8. InOrder(T) = [k \in 1..(n + 1) |-> A(The({x \in T : UpTo(T, x.seq) = k}))]
  BY <1>1 DEF InOrder
<1>9. ASSUME NEW k \in 1..n
      PROVE  InOrder(T)[k] = InOrder(S)[k]
  <2>1. InOrder(S)[k] = A(The({x \in S : UpTo(S, x.seq) = k}))
    BY <1>7
  <2>2. k \in 1..(n + 1)
    BY <1>1
  <2>3. InOrder(T)[k] = A(The({x \in T : UpTo(T, x.seq) = k}))
    BY <1>8, <2>2
  <2>. HIDE DEF A, T, n
  <2>. QED
    BY <1>4, <2>1, <2>3
<1>10. InOrder(T)[n + 1] = last
  <2>1. n + 1 \in 1..(n + 1)
    BY <1>1
  <2>2. InOrder(T)[n + 1] = A(The({x \in T : UpTo(T, x.seq) = n + 1}))
    BY <1>8, <2>1
  <2>. HIDE DEF T, n
  <2>. QED
    BY <1>5, <1>6, <2>2
<1>. HIDE DEF A, T, last
<1>11. InOrder(S) \in Seq({InOrder(S)[k] : k \in 1..n} \cup {last}) /\ Len(InOrder(S)) = n
  BY <1>1, <1>7
<1>12. /\ \A k \in 1..n : Append(InOrder(S), last)[k] = InOrder(S)[k]
       /\ Append(InOrder(S), last)[n + 1] = last
       /\ Append(InOrder(S), last) = [k \in 1..(n + 1) |-> Append(InOrder(S), last)[k]]
  <2>. DEFINE E == {InOrder(S)[k] : k \in 1..n} \cup {last}
  <2>1. InOrder(S) \in Seq(E) /\ last \in E
    BY <1>11
  <2>. HIDE DEF E, n
  <2>2. /\ Append(InOrder(S), last) \in Seq(E)
        /\ Len(Append(InOrder(S), last)) = n + 1
        /\ \A k \in 1..n : Append(InOrder(S), last)[k] = InOrder(S)[k]
        /\ Append(InOrder(S), last)[n + 1] = last
    BY <1>11, <2>1, AppendProperties
  <2>3. \A q \in Seq(E) : q = [k \in 1..Len(q) |-> q[k]]
    OBVIOUS
  <2>. QED
    BY <2>2, <2>3
<1>13. InOrder(T) = [k \in 1..(n + 1) |-> InOrder(T)[k]]
  BY <1>8
<1>14. \A k \in 1..(n + 1) : k \in 1..n \/ k = n + 1
  BY <1>1
<1>15. \A k \in 1..(n + 1) : InOrder(T)[k] = Append(InOrder(S), last)[k]
  BY <1>9, <1>10, <1>12, <1>14
<1>16. InOrder(T) = Append(InOrder(S), last)
  BY <1>12, <1>13, <1>15
<1>. QED
  BY <1>16 DEF T, last

(* No events are no log. *)
LEMMA NoneInOrder == InOrder({}) = <<>>
<1>1. Cardinality({}) = 0
  BY FS_EmptySet
<1>2. DOMAIN InOrder({}) = {}
  BY <1>1 DEF InOrder
<1>. QED
  BY <1>1, <1>2 DEF InOrder

-----------------------------------------------------------------------------
(* The callers' logs change only with the events, one at a time.            *)
LEMMA LogStays ==
  ASSUME events' = events
  PROVE  LogView' = LogView
BY DEF LogView, EventsOf

(* An event behind all others of its invocation is seen at the end of the log. *)
LEMMA LogAppends ==
  ASSUME TypeOK, TransactionInv, NEW i \in Invocations, NEW e, e.inv = i, e.seq \in Nat,
         events' = events \cup {e}, \A f \in EventsOf(i) : f.seq < e.seq
  PROVE  LogView' = [LogView EXCEPT ![i] = Append(@, [attempt |-> e.attempt, type |-> e.type])]
<1>1. \A j \in Invocations \ {i} : EventsOf(j)' = EventsOf(j)
  BY DEF EventsOf
<1>2. EventsOf(i)' = EventsOf(i) \cup {e}
  BY DEF EventsOf
<1>3. IsFiniteSet(EventsOf(i))
  BY FS_Subset DEF TransactionInv, EventsInv, EventsOf
<1>4. \A f \in EventsOf(i) : f.seq \in Nat
  BY DEF EventsOf, TypeOK, EventRow
<1>5. e \notin EventsOf(i)
  BY <1>4
<1>6. InOrder(EventsOf(i) \cup {e})
        = Append(InOrder(EventsOf(i)), [attempt |-> e.attempt, type |-> e.type])
  BY <1>3, <1>4, <1>5, LastInOrder
<1>7. LogView = [j \in Invocations |-> InOrder(EventsOf(j))]
  BY DEF LogView
<1>8. LogView' = [j \in Invocations |-> InOrder(EventsOf(j))']
  BY DEF LogView
<1>9. \A j \in Invocations \ {i} : InOrder(EventsOf(j))' = InOrder(EventsOf(j))
  BY <1>1
<1>10. InOrder(EventsOf(i))'
         = Append(InOrder(EventsOf(i)), [attempt |-> e.attempt, type |-> e.type])
  BY <1>2, <1>6
<1>. QED
  BY <1>7, <1>8, <1>9, <1>10

(* A committed event is seen at the end of the log of its invocation. *)
LEMMA CommitAppends ==
  ASSUME TypeOK, TransactionInv, NEW c \in Connections, Commit(c), txn[c].wrote, txn[c].seq # 0
  PROVE  LogView' = [LogView EXCEPT ![txn[c].inv] =
                       Append(@, [attempt |-> txn[c].att, type |-> EventType(txn[c].op)])]
<1>. DEFINE i == txn[c].inv
            e == [seq |-> txn[c].seq, inv |-> i, attempt |-> txn[c].att,
                  type |-> EventType(txn[c].op)]
<1>1. i \in Invocations /\ txn[c].seq \in Nat
  BY CommitDoes, TxnFacts
<1>2. events' = events \cup {e}
  BY DEF Commit
<1>3. \A f \in EventsOf(i) : f.seq < txn[c].seq
  BY DEF EventsOf, TransactionInv, EventsInv, InScope
<1>4. /\ e.seq = txn[c].seq /\ e.inv = i /\ e.attempt = txn[c].att
      /\ e.type = EventType(txn[c].op)
  OBVIOUS
<1>. HIDE DEF i, e
<1>5. LogView' = [LogView EXCEPT ![i] = Append(@, [attempt |-> e.attempt, type |-> e.type])]
  BY <1>1, <1>2, <1>3, <1>4, LogAppends
<1>. QED
  BY <1>4, <1>5 DEF i

(* A commit is the operation that its transaction was begun for.            *)
LEMMA CommitIsAnOperation ==
  ASSUME TypeOK, TransactionInv, NEW c \in Connections, Commit(c), txn[c].wrote
  PROVE  Store!StoreNext
<1>. DEFINE i == txn[c].inv
            a == txn[c].att
<1>1. /\ i \in Invocations /\ row' = [row EXCEPT ![i] = NewRow(c)] /\ Doing(c, "commit")
      /\ row \in [Invocations -> Store!Row]
  BY CommitDoes DEF Commit, TypeOK
<1>2. txn[c].seq # 0 <=> txn[c].op \in Telling
  BY <1>1 DEF TransactionInv, TxnInv, StepsOf
<1>3. txn[c].op \in Telling =>
        LogView' = [LogView EXCEPT ![i] = Append(@, [attempt |-> a, type |-> EventType(txn[c].op)])]
  BY <1>2, CommitAppends
<1>4. txn[c].op \notin Telling => LogView' = LogView
  BY <1>2, LogStays DEF Commit
<1>5. txn[c].op \in Claims => a = row[i].attempt + 1
  BY DEF TransactionInv, TxnInv, WriteIsDue
<1>6. txn[c].op \in Fenced => Store!Owns(i, a) /\ a \in 1..row[i].attempt
  <2>1. txn[c].op \in Fenced => Store!Owns(i, a) /\ a \in Nat \ {0}
    BY <1>1 DEF TransactionInv, TxnInv, WriteIsDue, Doing
  <2>. QED
    BY <2>1 DEF Store!Owns
<1>7. CASE txn[c].op = "accept"
  <2>1. /\ row[i].status = "ABSENT"
        /\ txn[c].ses \in Sessions \cup {NoSession} /\ txn[c].req \in Requests
    BY <1>7, NewRowFacts, TxnFacts
  <2>2. txn[c].place = IF txn[c].ses = NoSession THEN 0 ELSE Store!NextOrder(txn[c].ses)
    BY <1>1, <1>7 DEF TransactionInv, TxnInv, ReadsStand
  <2>3. NewRow(c) = [status |-> "QUEUED", session |-> txn[c].ses, request |-> txn[c].req,
                     order |-> IF txn[c].ses = NoSession THEN 0 ELSE Store!NextOrder(txn[c].ses),
                     attempt |-> 0, fresh |-> FALSE]
    BY <1>7, <2>2 DEF NewRow
  <2>4. LogView' = LogView
    BY <1>4, <1>7 DEF Telling, Claims
  <2>5. Store!Accept(i, txn[c].ses, txn[c].req)
    BY <1>1, <2>1, <2>3, <2>4 DEF Store!Accept
  <2>. QED
    BY <1>1, <2>1, <2>5 DEF Store!StoreNext
<1>8. CASE txn[c].op \in Claims
  <2>1. NewRow(c) = [row[i] EXCEPT !.status = "ACTIVE", !.attempt = row[i].attempt + 1,
                                   !.fresh = TRUE]
    BY <1>5, <1>8 DEF NewRow, Claims
  <2>2. LogView' = [LogView EXCEPT ![i] = Append(@, [attempt |-> row[i].attempt + 1,
                                                     type |-> "run.started"])]
    BY <1>3, <1>5, <1>8 DEF EventType, Telling, Claims
  <2>3. Store!TakeOver(i)
    BY <1>1, <2>1, <2>2 DEF Store!TakeOver
  <2>4. Store!Claimable(i, txn[c].op = "recover")
    <3>1. CASE txn[c].op = "recover"
      BY <3>1 DEF TransactionInv, TxnInv, WriteIsDue, Store!Claimable
    <3>2. CASE txn[c].op = "claim"
      <4>1. row[i].status = "QUEUED" /\ txn[c].ses = row[i].session
        BY <3>2 DEF TransactionInv, TxnInv, WriteIsDue, ReadsStand, Claims
      <4>2. Store!Startable(i)
        BY <3>2, <4>1 DEF TransactionInv, TxnInv, ReadsStand, Store!Startable
      <4>. QED
        BY <3>2, <4>2 DEF Store!Claimable
    <3>. QED
      BY <1>8, <3>1, <3>2 DEF Claims
  <2>. QED
    BY <1>1, <2>3, <2>4 DEF Store!StoreNext
<1>9. CASE txn[c].op = "heartbeat"
  <2>1. NewRow(c) = [row[i] EXCEPT !.fresh = TRUE] /\ LogView' = LogView
    BY <1>4, <1>9 DEF NewRow, Telling, Claims
  <2>2. Store!Heartbeat(i, a)
    BY <1>1, <1>6, <1>9, <2>1 DEF Store!Heartbeat, Fenced
  <2>. QED
    BY <1>1, <1>6, <1>9, <2>2 DEF Store!StoreNext, Fenced
<1>10. CASE txn[c].op = "complete"
  <2>1. /\ NewRow(c) = [row[i] EXCEPT !.status = "COMPLETED"]
        /\ LogView' = [LogView EXCEPT ![i] = Append(@, [attempt |-> a, type |-> "run.completed"])]
    BY <1>3, <1>10 DEF NewRow, EventType, Telling
  <2>2. Store!Complete(i, a)
    BY <1>1, <1>6, <1>10, <2>1 DEF Store!Complete, Store!Finish, Fenced
  <2>. QED
    BY <1>1, <1>6, <1>10, <2>2 DEF Store!StoreNext, Fenced
<1>11. CASE txn[c].op = "fail"
  <2>1. /\ NewRow(c) = [row[i] EXCEPT !.status = "FAILED"]
        /\ LogView' = [LogView EXCEPT ![i] = Append(@, [attempt |-> a, type |-> "run.failed"])]
    BY <1>3, <1>11 DEF NewRow, EventType, Telling
  <2>2. Store!Fail(i, a)
    BY <1>1, <1>6, <1>11, <2>1 DEF Store!Fail, Store!Finish, Fenced
  <2>. QED
    BY <1>1, <1>6, <1>11, <2>2 DEF Store!StoreNext, Fenced
<1>12. CASE txn[c].op = "append"
  <2>1. /\ NewRow(c) = row[i]
        /\ LogView' = [LogView EXCEPT ![i] = Append(@, [attempt |-> a, type |-> "emitted"])]
    BY <1>3, <1>12 DEF NewRow, EventType, Telling
  <2>2. row' = row
    BY <1>1, <2>1
  <2>3. Store!AppendEvent(i, a)
    BY <1>6, <1>12, <2>1, <2>2 DEF Store!AppendEvent, Fenced
  <2>. QED
    BY <1>1, <1>6, <1>12, <2>3 DEF Store!StoreNext, Fenced
<1>. QED
  BY <1>7, <1>8, <1>9, <1>10, <1>11, <1>12, TxnFacts DEF Ops, Claims

(* Every statement is a stutter of the atomic store, but for the commit, which is its *)
(* operation.                                                                         *)
LEMMA StepsImplement ==
  ASSUME TypeOK, TransactionInv, [Next]_vars
  PROVE  [Store!StoreNext]_<<row, LogView>>
<1>1. ASSUME row' = row, events' = events
      PROVE  UNCHANGED <<row, LogView>>
  BY <1>1, LogStays
<1>2. ASSUME NEW c \in Connections, Begin(c) \/ Statement(c) \/ Rollback(c)
      PROVE  row' = row /\ events' = events
  BY <1>2 DEF Begin, BeginAccept, BeginClaim, BeginFenced,
     Statement, LockSession, ReadMax, Insert, Snapshot, Update, InsertEvent, Rollback
<1>3. ASSUME NEW c \in Connections, Commit(c)
      PROVE  [Store!StoreNext]_<<row, LogView>>
  <2>1. CASE txn[c].wrote
    BY <1>3, <2>1, CommitIsAnOperation
  <2>2. CASE ~txn[c].wrote
    <3>1. row' = row /\ events' = events
      BY <1>3, <2>2 DEF Commit, TransactionInv, TxnInv, StepsOf
    <3>. QED
      BY <1>1, <3>1
  <2>. QED
    BY <2>1, <2>2
<1>4. ASSUME NEW i \in Invocations, Expire(i)
      PROVE  Store!StoreNext
  <2>1. LogView' = LogView
    BY <1>4, LogStays DEF Expire
  <2>2. Store!Expire(i)
    BY <1>4, <2>1 DEF Expire, Store!Expire
  <2>. QED
    BY <2>2 DEF Store!StoreNext
<1>5. CASE UNCHANGED vars
  BY <1>1, <1>5 DEF vars
<1>. QED
  BY <1>1, <1>2, <1>3, <1>4, <1>5 DEF Next

(* The empty tables are the empty store. *)
LEMMA InitImplements ==
  ASSUME Init
  PROVE  Store!StoreInit
<1>1. \A i \in Invocations : EventsOf(i) = {}
  BY DEF Init, EventsOf
<1>2. LogView = [i \in Invocations |-> <<>>]
  BY <1>1, NoneInOrder DEF LogView
<1>. QED
  BY <1>2 DEF Init, Store!StoreInit

(* The transactions, interleaved statement by statement, implement the      *)
(* Runtime Store whose operations happen in one step each: what is modelled *)
(* and proved of the executors above it rests on this.                      *)
THEOREM TransactionsAreAtomic == Spec => ImplementsAtomicStore
<1>1. Init => Store!StoreInit
  BY InitImplements
<1>2. TypeOK /\ TransactionInv /\ [Next]_vars => [Store!StoreNext]_<<row, LogView>>
  BY StepsImplement
<1>. QED
  BY <1>1, <1>2, TransactionInvariant, PTL
  DEF Spec, ImplementsAtomicStore, Store!StoreSpec, Store!storeVars
=============================================================================
