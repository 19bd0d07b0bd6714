------------------------ MODULE LocalRuntime_proofs ------------------------
(***************************************************************************)
(* Theorems about LocalRuntime, for any invocations, sessions and any      *)
(* number of faults.  A step changes one state of the store in one of      *)
(* three ways or none (StoreStep); the line of a session and the order of  *)
(* its events survive each.  What tasks know of the store (TaskInv) then   *)
(* gives serial hooks, and who minds an invocation that could start        *)
(* (HandedOn) gives that no hand-over is lost.                             *)
(***************************************************************************)
EXTENDS LocalRuntime, TLAPS

USE MemoryAssumption, LocalAssumption

-----------------------------------------------------------------------------
(* The line of a session: its orders are distinct and bounded, an attempt   *)
(* is there once it was claimed, and whoever was accepted before a claimed  *)
(* one is done.                                                             *)
Orders(s) == {states[j].order : j \in InSession(s)} \cup {0}
Begun(i)  == states[i].status \notin {"ABSENT", "QUEUED"}

OrdersBounded == \A s \in Sessions : \E m \in Orders(s) : \A n \in Orders(s) : m >= n
OrdersDistinct ==
  \A i, j \in Invocations : SameSession(i, j) /\ states[i].order = states[j].order => i = j
AbsentIsNowhere == \A i \in Invocations : ~Known(i) => states[i].session = NoSession
ServedInOrder ==
  \A i, j \in Invocations :
    SameSession(i, j) /\ states[i].order < states[j].order /\ Begun(j)
      => states[i].status \in Terminal
LineInv == OrdersBounded /\ OrdersDistinct /\ AbsentIsNowhere /\ ServedInOrder

(* Only an invocation that has begun has events, in the order of its line.  *)
EventsOfBegun == \A k \in DOMAIN persisted : Begun(persisted[k].inv)
EventInv == EventsOfBegun /\ SessionReplaysInOrder

(* What a task, a call and a hand-over may take for granted of the store.   *)
TaskInv ==
  \A i \in Invocations :
    /\ task[i].pc = "run" => states[i].status = "ACTIVE"
    /\ task[i].pc \in {"run", "failing", "lookup", "handover"} => Begun(i)
    /\ Live(i) \/ i \in calls => Known(i)
    /\ \A j \in task[i].next : Known(j)
    /\ phase = "up" => task[i].stop = "no"

(* An invocation that could start is somebody's business.  This is stronger *)
(* than Attended: a call that finds a live task does nothing, so it counts  *)
(* only while there is none.                                                *)
Handing(i) ==
  \E j \in Invocations :
    /\ SameSession(i, j)
    /\ task[j].pc = "lookup" \/ (task[j].pc = "handover" /\ i \in task[j].next)
HandedOn ==
  faults = 0 /\ phase = "up" =>
    \A i \in Invocations : Claimable(i) =>
      \/ task[i].pc = "claim"
      \/ task[i].pc = "denied" /\ i \in retry
      \/ task[i].pc = "none" /\ i \in calls
      \/ Handing(i)

LocalInv == LineInv /\ EventInv /\ TaskInv /\ HandedOn

-----------------------------------------------------------------------------
(* The ways a step changes the store.                                       *)
Tells(i) == \E e \in Event : e.inv = i /\ persisted' = Append(persisted, e)

Enqueued(i) ==
  /\ ~Known(i) /\ UNCHANGED persisted
  /\ \E s \in Sessions \cup {NoSession}, r \in Requests :
       states' = [states EXCEPT ![i] =
                   [status |-> "QUEUED", session |-> s, request |-> r,
                    order |-> IF s = NoSession THEN 0 ELSE NextOrder(s), attempt |-> 0]]

Started(i) ==
  /\ Claimable(i) /\ Tells(i)
  /\ states' = [states EXCEPT ![i] = [states[i] EXCEPT !.status = "ACTIVE",
                                                       !.attempt = states[i].attempt + 1]]

Ended(i) ==
  /\ states[i].status = "ACTIVE" /\ Tells(i)
  /\ \E st \in Terminal : states' = [states EXCEPT ![i].status = st]

Emitting(i) == states[i].status = "ACTIVE" /\ Tells(i) /\ UNCHANGED states

StoreStep ==
  \/ \E i \in Invocations : Enqueued(i) \/ Started(i) \/ Ended(i) \/ Emitting(i)
  \/ UNCHANGED storeVars

(* What the operations of the store do, told as one of those.               *)
LEMMA AcceptIs ==
  ASSUME NEW i \in Invocations, NEW s \in Sessions \cup {NoSession}, NEW r \in Requests,
         Accept(i, s, r)
  PROVE  Enqueued(i) \/ (Known(i) /\ UNCHANGED storeVars)
BY DEF Accept, Enqueued, storeVars

(* A granted claim starts its invocation. *)
LEMMA ClaimIs ==
  ASSUME StoreTypeOK, NEW i \in Invocations, Claimable(i), Claim(i)
  PROVE  Started(i)
<1>1. [inv |-> i, attempt |-> states[i].attempt + 1, type |-> "run.started"] \in Event
  BY DEF StoreTypeOK, State, Event
<1>. QED
  BY <1>1 DEF Claim, AppendEvent, Started, Tells

(* Completion and failure end the invocation, or do nothing when the attempt is not the current *)
(* one.                                                                                         *)
LEMMA FinishIs ==
  ASSUME StoreTypeOK, NEW i \in Invocations, NEW a \in Nat, Complete(i, a) \/ Fail(i, a)
  PROVE  Ended(i) \/ UNCHANGED storeVars
<1>1. PICK st \in Terminal, e \in {"run.completed", "run.failed"} : Finish(i, a, st, e)
  BY DEF Complete, Fail, Terminal
<1>2. CASE OwnsAttempt(i, a)
  <2>1. [inv |-> i, attempt |-> a, type |-> e] \in Event
    BY DEF Event
  <2>. QED
    BY <1>1, <1>2, <2>1 DEF Finish, AppendEvent, Ended, Tells, OwnsAttempt
<1>. QED
  BY <1>1, <1>2 DEF Finish

(* An emit adds an event to an ACTIVE invocation of its attempt, or does nothing. *)
LEMMA EmitIs ==
  ASSUME NEW i \in Invocations, NEW a \in Nat, EmitEvent(i, a)
  PROVE  Emitting(i) \/ UNCHANGED storeVars
<1>1. [inv |-> i, attempt |-> a, type |-> "emitted"] \in Event
  BY DEF Event
<1>. QED
  BY <1>1 DEF EmitEvent, AppendEvent, Emitting, Tells, OwnsAttempt

(* The maximum that accept computes is a number, and no order exceeds it.   *)
LEMMA NextOrderIsNew ==
  ASSUME StoreTypeOK, NEW s \in Sessions,
         \E m \in Orders(s) : \A n \in Orders(s) : m >= n
  PROVE  /\ NextOrder(s) \in Nat \ {0}
         /\ \A i \in InSession(s) : states[i].order < NextOrder(s)
<1>1. Orders(s) \subseteq Nat
  BY DEF Orders, InSession, StoreTypeOK, State
<1>2. PICK m \in Orders(s) : \A n \in Orders(s) : m >= n
  OBVIOUS
<1>3. /\ Max(Orders(s)) \in Orders(s)
      /\ \A n \in Orders(s) : Max(Orders(s)) >= n
  BY <1>2 DEF Max
<1>4. \A i \in InSession(s) : states[i].order \in Orders(s)
  BY DEF Orders
<1>5. NextOrder(s) = Max(Orders(s)) + 1
  BY DEF NextOrder, Orders
<1>. QED
  BY <1>1, <1>3, <1>4, <1>5

(* What an event appended to the list leaves in place.                      *)
LEMMA TellsAppends ==
  ASSUME StoreTypeOK, NEW i, Tells(i)
  PROVE  /\ persisted' \in Seq(Event) /\ Len(persisted) \in Nat
         /\ DOMAIN persisted = 1..Len(persisted)
         /\ DOMAIN persisted' = 1..(Len(persisted) + 1)
         /\ \A k \in 1..Len(persisted) : persisted'[k] = persisted[k] /\ persisted[k] \in Event
         /\ persisted'[Len(persisted) + 1].inv = i
<1>1. PICK e \in Event : e.inv = i /\ persisted' = Append(persisted, e)
  BY DEF Tells
<1>2. persisted \in Seq(Event)
  BY DEF StoreTypeOK
<1>3. persisted' \in Seq(Event)
  BY <1>1, <1>2
<1>4. Len(persisted') = Len(persisted) + 1 /\ Len(persisted) \in Nat
  BY <1>1, <1>2
<1>5. DOMAIN persisted = 1..Len(persisted) /\ DOMAIN persisted' = 1..Len(persisted')
  BY <1>2, <1>3
<1>6. \A k \in 1..Len(persisted) : persisted'[k] = persisted[k] /\ persisted[k] \in Event
  BY <1>1, <1>2
<1>7. persisted'[Len(persisted) + 1] = e
  BY <1>1, <1>2
<1>. QED
  BY <1>1, <1>3, <1>4, <1>5, <1>6, <1>7

(* Each kind of change keeps the types of the store, and says what becomes  *)
(* of each state.                                                           *)
LEMMA EnqueuedStates ==
  ASSUME StoreTypeOK, OrdersBounded, NEW i \in Invocations, Enqueued(i)
  PROVE  /\ StoreTypeOK'
         /\ states'[i].status = "QUEUED" /\ states'[i].session \in Sessions \cup {NoSession}
         /\ states'[i].session # NoSession => states'[i].order = NextOrder(states'[i].session)
         /\ states'[i].session = NoSession => states'[i].order = 0
         /\ \A j \in Invocations \ {i} : states'[j] = states[j]
<1>1. PICK s \in Sessions \cup {NoSession}, r \in Requests :
        states' = [states EXCEPT ![i] =
                    [status |-> "QUEUED", session |-> s, request |-> r,
                     order |-> IF s = NoSession THEN 0 ELSE NextOrder(s), attempt |-> 0]]
  BY DEF Enqueued
<1>2. s # NoSession => NextOrder(s) \in Nat
  BY NextOrderIsNew DEF OrdersBounded
<1>3. [status |-> "QUEUED", session |-> s, request |-> r,
       order |-> IF s = NoSession THEN 0 ELSE NextOrder(s), attempt |-> 0] \in State
  BY <1>2 DEF State, Status
<1>4. states' \in [Invocations -> State]
  BY <1>1, <1>3 DEF StoreTypeOK
<1>5. StoreTypeOK'
  BY <1>4 DEF StoreTypeOK, Enqueued
<1>6. /\ states'[i].status = "QUEUED" /\ states'[i].session = s
      /\ states'[i].order = IF s = NoSession THEN 0 ELSE NextOrder(s)
      /\ \A j \in Invocations \ {i} : states'[j] = states[j]
  BY <1>1 DEF StoreTypeOK
<1>. QED
  BY <1>5, <1>6

(* What a start changes in the store, and what it leaves alone. *)
LEMMA StartedStates ==
  ASSUME StoreTypeOK, NEW i \in Invocations, Started(i)
  PROVE  /\ StoreTypeOK'
         /\ states[i].status = "QUEUED" /\ states'[i].status = "ACTIVE"
         /\ states'[i].session = states[i].session /\ states'[i].order = states[i].order
         /\ \A j \in Invocations \ {i} : states'[j] = states[j]
<1>1. states[i] \in State
  BY DEF StoreTypeOK
<1>2. [states[i] EXCEPT !.status = "ACTIVE", !.attempt = states[i].attempt + 1] \in State
  <2>1. states[i].attempt + 1 \in Nat /\ "ACTIVE" \in Status
    BY <1>1 DEF State, Status
  <2>. QED
    BY <1>1, <2>1 DEF State
<1>3. states' \in [Invocations -> State]
  BY <1>2 DEF Started, StoreTypeOK
<1>4. StoreTypeOK'
  BY <1>3, TellsAppends DEF Started, StoreTypeOK
<1>5. states'[i] = [states[i] EXCEPT !.status = "ACTIVE", !.attempt = states[i].attempt + 1]
  BY DEF Started, StoreTypeOK
<1>. QED
  BY <1>1, <1>4, <1>5 DEF Started, Claimable, StoreTypeOK, State

(* What an end changes in the store, and what it leaves alone. *)
LEMMA EndedStates ==
  ASSUME StoreTypeOK, NEW i \in Invocations, Ended(i)
  PROVE  /\ StoreTypeOK'
         /\ states[i].status = "ACTIVE" /\ states'[i].status \in Terminal
         /\ states'[i].session = states[i].session /\ states'[i].order = states[i].order
         /\ \A j \in Invocations \ {i} : states'[j] = states[j]
<1>0. PICK st \in Terminal : states' = [states EXCEPT ![i].status = st]
  BY DEF Ended
<1>1. states[i] \in State
  BY DEF StoreTypeOK
<1>2. [states[i] EXCEPT !.status = st] \in State
  BY <1>1 DEF State, Status, Terminal
<1>3. states' \in [Invocations -> State]
  BY <1>0, <1>2 DEF StoreTypeOK
<1>4. StoreTypeOK'
  BY <1>3, TellsAppends DEF Ended, StoreTypeOK
<1>5. states'[i] = [states[i] EXCEPT !.status = st]
  BY <1>0 DEF StoreTypeOK
<1>. QED
  BY <1>0, <1>1, <1>4, <1>5 DEF Ended, StoreTypeOK, State

(* Every change of the store keeps its types. *)
LEMMA StoreStepType ==
  ASSUME StoreTypeOK, OrdersBounded, StoreStep
  PROVE  StoreTypeOK'
<1>1. CASE UNCHANGED storeVars
  BY <1>1 DEF storeVars, StoreTypeOK
<1>2. ASSUME NEW i \in Invocations, Emitting(i) PROVE StoreTypeOK'
  BY <1>2, TellsAppends DEF Emitting, StoreTypeOK
<1>. QED
  BY <1>1, <1>2, EnqueuedStates, StartedStates, EndedStates DEF StoreStep

-----------------------------------------------------------------------------
(* The line of a session survives each of them.                             *)
LEMMA OrdersKept ==
  ASSUME LineInv,
         \A i \in Invocations : /\ states'[i].session = states[i].session
                                /\ states'[i].order = states[i].order
                                /\ Known(i)' <=> Known(i)
  PROVE  OrdersBounded' /\ OrdersDistinct' /\ AbsentIsNowhere'
<1>1. \A s : InSession(s)' = InSession(s)
  BY DEF InSession
<1>2. \A s : Orders(s)' = Orders(s)
  BY <1>1 DEF Orders, InSession
<1>3. OrdersBounded'
  BY <1>2 DEF LineInv, OrdersBounded
<1>. QED
  BY <1>3 DEF LineInv, OrdersDistinct, AbsentIsNowhere, SameSession

(* A new invocation goes to the end of its session's line. *)
LEMMA EnqueuedLine ==
  ASSUME StoreTypeOK, LineInv, NEW i \in Invocations, Enqueued(i)
  PROVE  LineInv'
<1>. DEFINE s == states'[i].session
<1>1. /\ states'[i].status = "QUEUED" /\ s \in Sessions \cup {NoSession}
      /\ s # NoSession => states'[i].order = NextOrder(s)
      /\ \A j \in Invocations \ {i} : states'[j] = states[j]
      /\ StoreTypeOK'
  BY EnqueuedStates DEF LineInv
<1>2. ~Known(i) /\ states[i].session = NoSession
  BY DEF Enqueued, LineInv, AbsentIsNowhere
<1>3. s # NoSession =>
        /\ NextOrder(s) \in Nat
        /\ \A j \in InSession(s) : states[j].order < NextOrder(s)
  BY <1>1, NextOrderIsNew DEF LineInv, OrdersBounded
<1>4. \A j \in Invocations : states[j].order \in Nat /\ states'[j].order \in Nat
  BY <1>1 DEF StoreTypeOK, State
<1>5. \A j \in Invocations : states[j].session # NoSession => Known(j)
  BY DEF LineInv, AbsentIsNowhere
<1>6. OrdersBounded'
  <2>. SUFFICES ASSUME NEW t \in Sessions
                PROVE  \E m \in Orders(t)' : \A n \in Orders(t)' : m >= n
    BY DEF OrdersBounded
  <2>1. PICK m \in Orders(t) : \A n \in Orders(t) : m >= n
    BY DEF LineInv, OrdersBounded
  <2>2. CASE t # s
    <3>1. InSession(t)' = InSession(t)
      BY <1>1, <1>2, <2>2 DEF InSession, Known
    <3>2. Orders(t)' = Orders(t)
      BY <1>1, <1>2, <3>1 DEF Orders, InSession
    <3>. QED
      BY <2>1, <3>2
  <2>3. CASE t = s
    <3>0. s # NoSession
      BY <2>3
    <3>1. InSession(t)' = InSession(t) \cup {i}
      BY <1>1, <1>2, <2>3 DEF InSession, Known
    <3>2. NextOrder(s) \in Orders(t)'
      BY <1>1, <2>3, <3>0, <3>1 DEF Orders
    <3>3. \A n \in Orders(t)' : n \in Nat /\ NextOrder(s) >= n
      BY <1>1, <1>2, <1>3, <1>4, <2>3, <3>0, <3>1 DEF Orders, InSession
    <3>. QED
      BY <3>2, <3>3
  <2>. QED
    BY <2>2, <2>3
<1>. HIDE DEF s
<1>7. OrdersDistinct'
  BY <1>1, <1>2, <1>3, <1>4, <1>5 DEF s, LineInv, OrdersDistinct, SameSession, InSession
<1>8. AbsentIsNowhere'
  BY <1>1 DEF LineInv, AbsentIsNowhere, Known
<1>9. ServedInOrder'
  BY <1>1, <1>2, <1>3, <1>4, <1>5 DEF s, LineInv, ServedInOrder, SameSession, InSession, Begun
<1>. QED
  BY <1>6, <1>7, <1>8, <1>9 DEF LineInv

(* Whoever starts is the head of the line: the others of its session that   *)
(* have begun are done, and were accepted before it.                        *)
LEMMA StartsAtHead ==
  ASSUME StoreTypeOK, LineInv, NEW i \in Invocations, Claimable(i),
         NEW j \in Invocations, SameSession(i, j)
  PROVE  /\ states[j].order < states[i].order => states[j].status \in Terminal
         /\ Begun(j) => states[j].status \in Terminal /\ states[j].order < states[i].order
<1>1. states[i].order \in Nat /\ states[j].order \in Nat /\ states[j].status \in Status
  BY DEF StoreTypeOK, State
<1>2. Known(j) /\ j \in InSession(states[i].session) /\ states[i].session # NoSession
  BY DEF SameSession, LineInv, AbsentIsNowhere, InSession
<1>3. /\ states[i].status = "QUEUED" /\ states[j].status # "ACTIVE"
      /\ states[j].status = "QUEUED" => states[i].order <= states[j].order
  BY <1>2 DEF Claimable, With
<1>4. Begun(j) => states[j].order < states[i].order
  BY <1>1, <1>3 DEF LineInv, ServedInOrder, OrdersDistinct, SameSession, Terminal, Begun
<1>. QED
  BY <1>1, <1>2, <1>3, <1>4 DEF Status, Terminal, Begun, Known

(* A start keeps the line: nobody before it is unfinished. *)
LEMMA StartedLine ==
  ASSUME StoreTypeOK, LineInv, NEW i \in Invocations, Started(i)
  PROVE  LineInv'
<1>1. /\ states[i].status = "QUEUED" /\ states'[i].status = "ACTIVE"
      /\ states'[i].session = states[i].session /\ states'[i].order = states[i].order
      /\ \A j \in Invocations \ {i} : states'[j] = states[j]
  BY StartedStates
<1>2. OrdersBounded' /\ OrdersDistinct' /\ AbsentIsNowhere'
  BY <1>1, OrdersKept DEF Known
<1>3. ServedInOrder'
  <2>. SUFFICES ASSUME NEW a \in Invocations, NEW b \in Invocations, SameSession(a, b)',
                       states'[a].order < states'[b].order, Begun(b)'
                PROVE  states'[a].status \in Terminal
    BY DEF ServedInOrder
  <2>0. SameSession(a, b) /\ SameSession(b, a) /\ states[a].order < states[b].order
    BY <1>1 DEF SameSession
  <2>1. CASE b = i
    <3>1. states[a].status \in Terminal
      BY <2>0, <2>1, StartsAtHead DEF Started
    <3>. QED
      BY <1>1, <3>1 DEF Terminal
  <2>2. CASE b # i
    <3>1. states[a].status \in Terminal
      BY <1>1, <2>0, <2>2 DEF LineInv, ServedInOrder, Begun
    <3>. QED
      BY <1>1, <3>1 DEF Terminal
  <2>. QED
    BY <2>1, <2>2
<1>. QED
  BY <1>2, <1>3 DEF LineInv

(* An end keeps the line. *)
LEMMA EndedLine ==
  ASSUME StoreTypeOK, LineInv, NEW i \in Invocations, Ended(i)
  PROVE  LineInv'
<1>1. /\ states[i].status = "ACTIVE" /\ states'[i].status \in Terminal
      /\ states'[i].session = states[i].session /\ states'[i].order = states[i].order
      /\ \A j \in Invocations \ {i} : states'[j] = states[j]
  BY EndedStates
<1>2. OrdersBounded' /\ OrdersDistinct' /\ AbsentIsNowhere'
  BY <1>1, OrdersKept DEF Known, Terminal
<1>3. ServedInOrder'
  BY <1>1 DEF LineInv, ServedInOrder, SameSession, Begun, Terminal
<1>. QED
  BY <1>2, <1>3 DEF LineInv

(* Every change of the store keeps the line of every session. *)
LEMMA StoreStepLine == ASSUME StoreTypeOK, LineInv, StoreStep PROVE LineInv'
<1>1. CASE UNCHANGED states
  BY <1>1 DEF LineInv, OrdersBounded, OrdersDistinct, AbsentIsNowhere, ServedInOrder,
              Orders, InSession, Known, SameSession, Begun
<1>. QED
  BY <1>1, EnqueuedLine, StartedLine, EndedLine DEF StoreStep, Emitting, storeVars

(* An event of the invocation at the head comes after those of its session. *)
LEMMA TellsInOrder ==
  ASSUME StoreTypeOK, StoreTypeOK', EventInv, NEW i \in Invocations, Tells(i), Begun(i)',
         \A j \in Invocations : Begun(j) =>
           /\ Begun(j)' /\ states'[j].session = states[j].session
           /\ states'[j].order = states[j].order
           /\ SameSession(i, j)' => states[j].order <= states'[i].order
  PROVE  EventInv'
<1>. DEFINE n == Len(persisted)
<1>1. /\ n \in Nat /\ DOMAIN persisted = 1..n /\ DOMAIN persisted' = 1..(n + 1)
      /\ \A k \in 1..n : persisted'[k] = persisted[k] /\ persisted[k] \in Event
      /\ persisted'[n + 1].inv = i
  BY TellsAppends
<1>. HIDE DEF n
<1>2. \A k \in 1..n : /\ persisted'[k].inv = persisted[k].inv
                      /\ persisted[k].inv \in Invocations /\ Begun(persisted[k].inv)
  BY <1>1 DEF EventInv, EventsOfBegun, Event
<1>3. EventsOfBegun'
  <2>. SUFFICES ASSUME NEW k \in 1..(n + 1) PROVE Begun(persisted[k].inv)'
    BY <1>1 DEF EventsOfBegun
  <2>1. CASE k = n + 1
    BY <1>1, <2>1
  <2>2. CASE k # n + 1
    <3>1. k \in 1..n
      BY <1>1, <2>2
    <3>. QED
      BY <1>1, <1>2, <3>1 DEF Begun
  <2>. QED
    BY <2>1, <2>2
<1>4. SessionReplaysInOrder'
  <2>. SUFFICES ASSUME NEW k \in 1..(n + 1), NEW l \in 1..(n + 1), k < l,
                       SameSession(persisted[k].inv, persisted[l].inv)'
                PROVE  states'[persisted'[k].inv].order <= states'[persisted'[l].inv].order
    BY <1>1 DEF SessionReplaysInOrder
  <2>1. k \in 1..n
    BY <1>1
  <2>a. PICK a \in Invocations : a = persisted[k].inv /\ a = persisted'[k].inv /\ Begun(a)
    BY <1>2, <2>1
  <2>2. /\ states'[a].order = states[a].order /\ states'[a].session = states[a].session
    BY <2>a
  <2>3. CASE l = n + 1
    <3>1. SameSession(i, a)'
      BY <1>1, <2>a, <2>2, <2>3 DEF SameSession
    <3>. QED
      BY <1>1, <2>a, <2>2, <2>3, <3>1
  <2>4. CASE l # n + 1
    <3>1. l \in 1..n
      BY <1>1, <2>4
    <3>a. PICK b \in Invocations : b = persisted[l].inv /\ b = persisted'[l].inv /\ Begun(b)
      BY <1>2, <3>1
    <3>2. states'[b].order = states[b].order /\ states'[b].session = states[b].session
      BY <3>a
    <3>3. SameSession(a, b)
      BY <2>a, <2>2, <3>a, <3>2 DEF SameSession
    <3>4. states[a].order <= states[b].order
      BY <1>1, <2>1, <2>a, <3>1, <3>a, <3>3 DEF EventInv, SessionReplaysInOrder
    <3>. QED
      BY <2>a, <2>2, <3>a, <3>2, <3>4
  <2>. QED
    BY <2>3, <2>4
<1>. QED
  BY <1>3, <1>4 DEF EventInv

(* Every change of the store keeps the order of a session's events. *)
LEMMA StoreStepEvents ==
  ASSUME StoreTypeOK, StoreTypeOK', LineInv, EventInv, StoreStep
  PROVE  EventInv'
<1>0. \A j \in Invocations : states[j].order \in Nat /\ states'[j].order \in Nat
  BY DEF StoreTypeOK, State
<1>1. CASE UNCHANGED storeVars
  BY <1>1 DEF storeVars, EventInv, EventsOfBegun, SessionReplaysInOrder, Begun, SameSession
<1>2. ASSUME NEW i \in Invocations, Enqueued(i) PROVE EventInv'
  <2>1. /\ persisted' = persisted
        /\ \A k \in DOMAIN persisted :
             persisted[k].inv \in Invocations /\ Begun(persisted[k].inv)
    <3>1. \A k \in DOMAIN persisted : persisted[k] \in Event
      BY DEF StoreTypeOK
    <3>. QED
      BY <1>2, <3>1 DEF Enqueued, EventInv, EventsOfBegun, Event
  <2>2. \A j \in Invocations : Begun(j) => states'[j] = states[j]
    <3>1. ~Begun(i)
      BY <1>2 DEF Enqueued, Known, Begun
    <3>. QED
      BY <1>2, <3>1, EnqueuedStates DEF LineInv
  <2>3. \A k \in DOMAIN persisted : states'[persisted[k].inv] = states[persisted[k].inv]
    BY <2>1, <2>2
  <2>. QED
    BY <2>1, <2>3 DEF EventInv, EventsOfBegun, SessionReplaysInOrder, Begun, SameSession
<1>3. ASSUME NEW i \in Invocations, Started(i) PROVE EventInv'
  <2>1. /\ states[i].status = "QUEUED" /\ states'[i].status = "ACTIVE"
        /\ states'[i].session = states[i].session /\ states'[i].order = states[i].order
        /\ \A j \in Invocations \ {i} : states'[j] = states[j]
        /\ Claimable(i) /\ Tells(i)
    BY <1>3, StartedStates DEF Started
  <2>2. ASSUME NEW j \in Invocations, Begun(j)
        PROVE  /\ Begun(j)' /\ states'[j].session = states[j].session
               /\ states'[j].order = states[j].order
               /\ SameSession(i, j)' => states[j].order <= states'[i].order
    <3>1. j # i /\ states'[j] = states[j]
      BY <2>1, <2>2 DEF Begun
    <3>2. SameSession(i, j)' => SameSession(i, j)
      BY <2>1, <3>1 DEF SameSession
    <3>3. SameSession(i, j) => states[j].order < states[i].order
      BY <2>1, <2>2, StartsAtHead
    <3>. QED
      BY <1>0, <2>1, <2>2, <3>1, <3>2, <3>3 DEF Begun
  <2>3. Begun(i)'
    BY <2>1 DEF Begun
  <2>. QED
    BY <2>1, <2>2, <2>3, TellsInOrder
<1>4. ASSUME NEW i \in Invocations, Ended(i) \/ Emitting(i) PROVE EventInv'
  <2>1. /\ states[i].status = "ACTIVE" /\ Begun(i)' /\ Tells(i)
        /\ \A j \in Invocations :
             /\ states'[j].session = states[j].session /\ states'[j].order = states[j].order
             /\ Begun(j) => Begun(j)'
    BY <1>4, EndedStates DEF Emitting, Ended, Begun, Terminal
  <2>2. ASSUME NEW j \in Invocations, Begun(j), SameSession(i, j)'
        PROVE  states[j].order <= states'[i].order
    <3>1. SameSession(i, j) /\ states[i].status \notin Terminal
      BY <2>1, <2>2 DEF SameSession, Terminal
    <3>2. ~(states[i].order < states[j].order)
      BY <2>2, <3>1 DEF LineInv, ServedInOrder
    <3>. QED
      BY <1>0, <2>1, <3>2
  <2>. QED
    BY <2>1, <2>2, TellsInOrder
<1>. QED
  BY <1>1, <1>2, <1>3, <1>4 DEF StoreStep

-----------------------------------------------------------------------------
(* Tasks.                                                                   *)
LEMMA TaskTypes ==
  /\ NoTask \in Task /\ NewTask \in Task
  /\ NoTask.pc = "none" /\ NewTask.pc = "claim"
  /\ NoTask.next = {} /\ NewTask.next = {}
  /\ NoTask.stop = "no" /\ NewTask.stop = "no"
BY DEF NoTask, NewTask, Task

(* One task moves on: the store may take a step, and the others stay.       *)
Moves(i, pc) ==
  /\ task'[i].pc = pc /\ task'[i].next \subseteq Invocations
  /\ task'[i].stop \in {"no", task[i].stop}
  /\ \A j \in Invocations \ {i} : task'[j] = task[j]

(* A task that moves keeps its type, and no other task moves. *)
LEMMA MoveIs ==
  ASSUME TypeOK, NEW i \in Invocations,
         NEW pc \in {"none", "claim", "denied", "run", "failing", "lookup", "handover"}, Move(i, pc)
  PROVE  /\ task' \in [Invocations -> Task] /\ Moves(i, pc)
         /\ task'[i].next = task[i].next /\ task'[i].stop = task[i].stop
<1>1. task[i] \in Task
  BY DEF TypeOK
<1>2. [task[i] EXCEPT !.pc = pc] \in Task
  BY <1>1 DEF Task
<1>3. task' = [task EXCEPT ![i] = [task[i] EXCEPT !.pc = pc]]
  BY DEF TypeOK, Move
<1>4. task' \in [Invocations -> Task]
  BY <1>2, <1>3 DEF TypeOK
<1>5. task'[i] = [task[i] EXCEPT !.pc = pc] /\ \A j \in Invocations \ {i} : task'[j] = task[j]
  BY <1>3 DEF TypeOK
<1>. QED
  BY <1>1, <1>4, <1>5 DEF Moves, Task

(* A task that ends clears its entry and its retry mark, and no other task moves. *)
LEMMA EndIs ==
  ASSUME TypeOK, NEW i \in Invocations, End(i)
  PROVE  /\ task' \in [Invocations -> Task] /\ Moves(i, "none")
         /\ task'[i] = NoTask /\ retry' = retry \ {i}
BY TaskTypes DEF TypeOK, End, Moves

(* A claim moves its task into the hook. *)
LEMMA ClaimMoves ==
  ASSUME TypeOK, NEW i \in Invocations, NEW a \in Nat,
         task' = [task EXCEPT ![i] = [task[i] EXCEPT !.pc = "run", !.attempt = a]]
  PROVE  /\ task' \in [Invocations -> Task] /\ Moves(i, "run")
         /\ task'[i].next = task[i].next /\ task'[i].stop = task[i].stop
<1>1. task[i] \in Task
  BY DEF TypeOK
<1>2. [task[i] EXCEPT !.pc = "run", !.attempt = a] \in Task
  BY <1>1 DEF Task
<1>3. task' \in [Invocations -> Task]
  BY <1>2 DEF TypeOK
<1>4. /\ task'[i] = [task[i] EXCEPT !.pc = "run", !.attempt = a]
      /\ \A j \in Invocations \ {i} : task'[j] = task[j]
  BY DEF TypeOK
<1>. QED
  BY <1>1, <1>3, <1>4 DEF Moves, Task

(* The look-up keeps the invocations to hand over to, and no other task moves. *)
LEMMA LookUpMoves ==
  ASSUME TypeOK, NEW i \in Invocations, NEW n \in SUBSET Invocations,
         task' = [task EXCEPT ![i] = [task[i] EXCEPT !.pc = "handover", !.next = n]]
  PROVE  /\ task' \in [Invocations -> Task] /\ Moves(i, "handover")
         /\ task'[i].next = n /\ task'[i].stop = task[i].stop
<1>1. task[i] \in Task
  BY DEF TypeOK
<1>2. [task[i] EXCEPT !.pc = "handover", !.next = n] \in Task
  BY <1>1 DEF Task
<1>3. task' \in [Invocations -> Task]
  BY <1>2 DEF TypeOK
<1>4. /\ task'[i] = [task[i] EXCEPT !.pc = "handover", !.next = n]
      /\ \A j \in Invocations \ {i} : task'[j] = task[j]
  BY DEF TypeOK
<1>. QED
  BY <1>1, <1>3, <1>4 DEF Moves, Task

(* Faults are counted up to their bound.                                    *)
LEMMA FaultType == ASSUME TypeOK, Fault PROVE faults' \in 0..MaxFaults /\ faults' > 0
BY DEF TypeOK, Fault

(* The attempt a task acts with is a number.                                *)
LEMMA AttemptIsNat ==
  ASSUME TypeOK, NEW i \in Invocations
  PROVE  task[i] \in Task /\ task[i].attempt \in Nat /\ task[i].next \subseteq Invocations
BY DEF TypeOK, Task

(* The steps of one task that may touch the store.                          *)
Acts(i) ==
  \/ ClaimGranted(i) \/ ClaimDenied(i) \/ ClaimError(i) \/ Resume(i)
  \/ Emit(i) \/ EndHook(i) \/ PersistFailure(i) \/ PersistError(i) \/ HookCancelled(i)
  \/ LookUp(i) \/ LookUpError(i) \/ Cancel(i) \/ IgnoreCancel(i)

(* Every step of the store is one of those of StoreStep.                    *)
LEMMA NextStoreStep == ASSUME TypeOK, [Next]_vars PROVE StoreStep
<1>0. StoreTypeOK
  BY DEF TypeOK
<1>1. ASSUME NEW i \in Invocations, Acts(i) PROVE StoreStep
  <2>0. task[i].attempt \in Nat
    BY AttemptIsNat
  <2>1. CASE ClaimGranted(i) \/ ClaimError(i)
    BY <1>0, <2>1, ClaimIs DEF ClaimGranted, ClaimError, StoreStep
  <2>2. CASE Emit(i)
    BY <2>0, <2>2, EmitIs DEF Emit, StoreStep
  <2>3. CASE HookReturns(i) \/ PersistFailure(i) \/ PersistError(i)
    BY <1>0, <2>0, <2>3, FinishIs DEF HookReturns, PersistFailure, PersistError, StoreStep
  <2>4. CASE Cancel(i)
    BY <1>0, <2>0, <2>4, ClaimIs, FinishIs DEF Cancel, StoreStep
  <2>5. CASE \/ ClaimDenied(i) \/ Resume(i) \/ HookRaises(i) \/ HookCancelled(i)
             \/ LookUp(i) \/ LookUpError(i) \/ IgnoreCancel(i)
    BY <2>5 DEF ClaimDenied, Resume, ClaimAgain, GiveUp, HookRaises, HookCancelled,
                LookUp, LookUpError, IgnoreCancel, StoreStep, storeVars
  <2>. QED
    BY <1>1, <2>1, <2>2, <2>3, <2>4, <2>5 DEF Acts, EndHook
<1>2. ASSUME NEW i \in Invocations, NEW s \in Sessions \cup {NoSession}, NEW r \in Requests,
             Submit(i, s, r)
      PROVE  StoreStep
  BY <1>2, AcceptIs DEF Submit, StoreStep
<1>3. ASSUME NEW i \in Invocations, Read(i) \/ EnsureScheduled(i) \/ HandOver(i) PROVE StoreStep
  BY <1>3 DEF Read, EnsureScheduled, HandOver, StoreStep, storeVars
<1>4. CASE StopBegins \/ StopReturns \/ UNCHANGED vars
  BY <1>4 DEF StopBegins, StopReturns, vars, StoreStep, storeVars
<1>. QED
  BY <1>1, <1>2, <1>3, <1>4 DEF Next, Client, RunTask, ClaimStep, Acts

-----------------------------------------------------------------------------
(* Types.                                                                   *)
LEMMA ActsType ==
  ASSUME TypeOK, NEW i \in Invocations, Acts(i)
  PROVE  /\ task' \in [Invocations -> Task]
         /\ retry' \subseteq retry /\ \A j \in Invocations \ {i} : j \in retry' <=> j \in retry
         /\ UNCHANGED <<calls, phase>> /\ faults' \in 0..MaxFaults
         /\ \A j \in Invocations \ {i} : task'[j] = task[j]
<1>. USE DEF Moves
<1>1. CASE ClaimGranted(i)
  <2>1. states[i].attempt + 1 \in Nat
    BY DEF TypeOK, StoreTypeOK, State
  <2>. QED
    BY <1>1, <2>1, ClaimMoves DEF ClaimGranted, TypeOK
<1>2. CASE ClaimDenied(i) \/ ClaimAgain(i) \/ HookReturns(i) \/ HookRaises(i) \/ PersistFailure(i)
  BY <1>2, MoveIs DEF ClaimDenied, ClaimAgain, HookReturns, HookRaises, PersistFailure, TypeOK
<1>3. CASE ClaimError(i) \/ PersistError(i)
  BY <1>3, MoveIs, FaultType DEF ClaimError, PersistError
<1>4. CASE GiveUp(i)
  BY <1>4, EndIs DEF GiveUp, TypeOK
<1>5. CASE HookCancelled(i) \/ LookUpError(i)
  BY <1>5, EndIs, FaultType DEF HookCancelled, LookUpError
<1>6. CASE Emit(i)
  BY <1>6 DEF Emit, TypeOK
<1>7. CASE LookUp(i)
  <2>1. NextInSession(i) \in SUBSET Invocations
    BY DEF NextInSession, With
  <2>2. CASE End(i)
    BY <1>7, <2>2, EndIs DEF LookUp, TypeOK
  <2>3. CASE /\ task' = [task EXCEPT ![i] = [task[i] EXCEPT !.pc = "handover",
                                                            !.next = NextInSession(i)]]
             /\ UNCHANGED retry
    BY <1>7, <2>1, <2>3, LookUpMoves DEF LookUp, TypeOK
  <2>. QED
    BY <1>7, <2>2, <2>3 DEF LookUp
<1>8. CASE Cancel(i)
  BY <1>8, EndIs DEF Cancel, TypeOK
<1>9. CASE IgnoreCancel(i)
  <2>1. task[i] \in Task
    BY DEF TypeOK
  <2>2. [task[i] EXCEPT !.stop = "ignored"] \in Task
    BY <2>1 DEF Task
  <2>3. task' = [task EXCEPT ![i] = [task[i] EXCEPT !.stop = "ignored"]]
    BY <1>9 DEF IgnoreCancel, TypeOK
  <2>. QED
    BY <1>9, <2>2, <2>3 DEF IgnoreCancel, TypeOK
<1>. QED
  BY <1>1, <1>2, <1>3, <1>4, <1>5, <1>6, <1>7, <1>8, <1>9 DEF Acts, Resume, EndHook

(* A hand-over: the task is over, and what it read is scheduled.            *)
LEMMA HandOverMoves ==
  ASSUME TypeOK, NEW i \in Invocations, HandOver(i)
  PROVE  /\ task' \in [Invocations -> Task] /\ task'[i] = NoTask
         /\ \A j \in Invocations \ {i} :
              IF j \in task[i].next /\ ~Live(j) THEN task'[j] = NewTask ELSE task'[j] = task[j]
         /\ retry' = (retry \cup {j \in task[i].next : Live(j)}) \ {i}
         /\ UNCHANGED <<states, persisted, calls, phase, faults>>
BY TaskTypes DEF TypeOK, HandOver

(* Scheduling makes a task where none is live, and settles one pending call. *)
LEMMA ScheduleMoves ==
  ASSUME TypeOK, NEW i \in Invocations, EnsureScheduled(i)
  PROVE  /\ task' \in [Invocations -> Task]
         /\ task'[i] = IF Live(i) THEN task[i] ELSE NewTask
         /\ \A j \in Invocations \ {i} : task'[j] = task[j]
         /\ i \in calls /\ calls' = calls \ {i}
         /\ UNCHANGED <<states, persisted, retry, phase, faults>>
BY TaskTypes DEF TypeOK, EnsureScheduled, Schedule

(* `stop` cancels tasks but moves none, and forgets the claim retries. *)
LEMMA StopMoves ==
  ASSUME TypeOK, StopBegins
  PROVE  /\ task' \in [Invocations -> Task] /\ retry' = {} /\ phase' \in {"stopping", "down"}
         /\ \A i \in Invocations : task'[i].pc = task[i].pc /\ task'[i].next = task[i].next
         /\ UNCHANGED <<states, persisted, calls, faults>>
<1>1. \A i \in Invocations :
        /\ task[i] \in Task
        /\ task'[i] = IF Live(i) THEN [task[i] EXCEPT !.stop = "cancelled"] ELSE task[i]
  BY DEF TypeOK, StopBegins
<1>2. \A i \in Invocations :
        task'[i] \in Task /\ task'[i].pc = task[i].pc /\ task'[i].next = task[i].next
  BY <1>1 DEF Task
<1>3. task' \in [Invocations -> Task]
  BY <1>1, <1>2 DEF StopBegins
<1>. QED
  BY <1>2, <1>3 DEF StopBegins

(* Every step keeps the types. *)
LEMMA NextType == ASSUME TypeOK, LineInv, [Next]_vars PROVE TypeOK'
<1>0. StoreTypeOK'
  <2>1. StoreStep
    BY NextStoreStep
  <2>. QED
    BY <2>1, StoreStepType DEF TypeOK, LineInv
<1>. DEFINE Rest == /\ task' \in [Invocations -> Task] /\ retry' \subseteq Invocations
                    /\ calls' \subseteq Invocations /\ phase' \in {"up", "stopping", "down"}
                    /\ faults' \in 0..MaxFaults
<1>1. ASSUME NEW i \in Invocations, Acts(i) PROVE Rest
  <2>1. /\ task' \in [Invocations -> Task] /\ retry' \subseteq retry
        /\ calls' = calls /\ phase' = phase /\ faults' \in 0..MaxFaults
    BY <1>1, ActsType
  <2>. QED
    BY <2>1 DEF TypeOK
<1>2. ASSUME NEW i \in Invocations, HandOver(i) PROVE Rest
  <2>1. /\ task' \in [Invocations -> Task]
        /\ retry' = (retry \cup {j \in task[i].next : Live(j)}) \ {i}
        /\ calls' = calls /\ phase' = phase /\ faults' = faults
    BY <1>2, HandOverMoves
  <2>2. task[i].next \subseteq Invocations
    BY AttemptIsNat
  <2>3. retry' \subseteq Invocations
    BY <2>1, <2>2 DEF TypeOK
  <2>. QED
    BY <2>1, <2>3 DEF TypeOK
<1>3. ASSUME NEW i \in Invocations, EnsureScheduled(i) PROVE Rest
  BY <1>3, ScheduleMoves DEF TypeOK
<1>4. ASSUME StopBegins PROVE Rest
  BY <1>4, StopMoves DEF TypeOK
<1>5. ASSUME StopReturns \/ UNCHANGED vars PROVE Rest
  BY <1>5 DEF StopReturns, vars, TypeOK
<1>6. ASSUME Client PROVE Rest
  BY <1>6 DEF Client, Submit, Read, TypeOK
<1>7. Rest
  BY <1>1, <1>2, <1>3, <1>4, <1>5, <1>6 DEF Next, RunTask, ClaimStep, Acts
<1>. QED
  BY <1>0, <1>7 DEF TypeOK

-----------------------------------------------------------------------------
(* What a task may take for granted stays true.  One task acts, and the     *)
(* states of the others are as they were.                                   *)
LEMMA OneMoves ==
  ASSUME TypeOK, TaskInv, NEW i \in Invocations,
         \A j \in Invocations \ {i} : task'[j] = task[j] /\ states'[j] = states[j],
         UNCHANGED <<calls, phase>>,
         Known(i) => Known(i)', task'[i].pc # "none" => Known(i)',
         task'[i].pc = "run" => states'[i].status = "ACTIVE",
         task'[i].pc \in {"run", "failing", "lookup", "handover"} => Begun(i)',
         \A k \in task'[i].next : k \in Invocations /\ Known(k),
         phase = "up" => task'[i].stop = "no"
  PROVE  TaskInv'
<1>1. \A k \in Invocations : Known(k) => Known(k)'
  BY DEF Known
<1>2. \A j \in Invocations : task[j].next \subseteq Invocations
  BY AttemptIsNat
<1>3. ASSUME NEW j \in Invocations
      PROVE  /\ task'[j].pc = "run" => states'[j].status = "ACTIVE"
             /\ task'[j].pc \in {"run", "failing", "lookup", "handover"} => Begun(j)'
             /\ task'[j].pc # "none" \/ j \in calls' => Known(j)'
             /\ \A k \in task'[j].next : Known(k)'
             /\ phase' = "up" => task'[j].stop = "no"
  <2>1. CASE j = i
    <3>1. j \in calls' => Known(j)'
      BY <1>1, <2>1 DEF TaskInv
    <3>2. \A k \in task'[j].next : Known(k)'
      BY <1>1, <2>1 DEF Known
    <3>. QED
      BY <2>1, <3>1, <3>2
  <2>2. CASE j # i
    BY <1>1, <1>2, <2>2 DEF TaskInv, Begun, Live
  <2>. QED
    BY <2>1, <2>2
<1>. QED
  BY <1>3 DEF TaskInv, Live

(* The steps of a task at a store that stands still.                        *)
LEMMA QuietMoves ==
  ASSUME TypeOK, TaskInv, NEW i \in Invocations, UNCHANGED <<states, calls, phase>>,
         task'[i].pc # "none" => Live(i),
         \A j \in Invocations \ {i} : task'[j] = task[j],
         task'[i].pc \in {"run", "failing", "lookup", "handover"} => Begun(i),
         task'[i].pc = "run" => task[i].pc = "run",
         \A k \in task'[i].next : k \in Invocations /\ Known(k),
         phase = "up" => task'[i].stop = "no"
  PROVE  TaskInv'
<1>1. Live(i) \/ i \in calls => Known(i)
  BY DEF TaskInv
<1>2. (Known(i)' <=> Known(i)) /\ (Begun(i)' <=> Begun(i))
  BY <1>1 DEF Known, Begun
<1>3. task'[i].pc = "run" => states'[i].status = "ACTIVE"
  BY DEF TaskInv
<1>. QED
  BY <1>1, <1>2, <1>3, OneMoves

(* What any change of one state means for the invocations tasks know of. *)
LEMMA StatesMove ==
  ASSUME StoreTypeOK, NEW i \in Invocations, Started(i) \/ Ended(i) \/ UNCHANGED states
  PROVE  /\ \A j \in Invocations \ {i} : states'[j] = states[j]
         /\ Known(i) => Known(i)'
         /\ Begun(i) => Begun(i)'
         /\ Started(i) => states'[i].status = "ACTIVE" /\ Known(i)
<1>1. CASE Started(i)
  BY <1>1, StartedStates DEF Known, Begun
<1>2. CASE Ended(i)
  <2>1. states[i].status # states'[i].status
    BY <1>2, EndedStates DEF Terminal
  <2>2. ~Started(i)
    BY <1>2, StartedStates, EndedStates
  <2>. QED
    BY <1>2, <2>2, EndedStates DEF Known, Begun, Terminal
<1>3. CASE UNCHANGED states /\ ~Started(i)
  BY <1>3 DEF Known, Begun
<1>. QED
  BY <1>1, <1>2, <1>3

(* A task's step keeps what every task knows of the store. *)
LEMMA ActsKeepTasks ==
  ASSUME TypeOK, TaskInv, NEW i \in Invocations, Acts(i)
  PROVE  TaskInv'
<1>0. /\ UNCHANGED <<calls, phase>> /\ StoreTypeOK /\ task[i].attempt \in Nat
      /\ \A j \in Invocations \ {i} : task'[j] = task[j]
  BY ActsType, AttemptIsNat DEF TypeOK
<1>a. /\ \A k \in task[i].next : k \in Invocations /\ Known(k)
      /\ phase = "up" => task[i].stop = "no"
      /\ task[i].pc # "none" => Known(i)
      /\ task[i].pc \in {"run", "failing", "lookup", "handover"} => Begun(i)
  BY AttemptIsNat DEF TaskInv, Live
<1>1. ASSUME End(i), Started(i) \/ Ended(i) \/ UNCHANGED states PROVE TaskInv'
  <2>1. task'[i].pc = "none" /\ task'[i].next = {} /\ task'[i].stop = "no"
    BY <1>1, EndIs, TaskTypes
  <2>. QED
    BY <1>0, <1>1, <2>1, StatesMove, OneMoves
<1>2. ASSUME NEW pc \in {"claim", "denied", "failing", "lookup"}, Move(i, pc),
             Started(i) \/ Ended(i) \/ UNCHANGED states, Known(i),
             pc \in {"failing", "lookup"} => Begun(i)
      PROVE  TaskInv'
  <2>1. task'[i].pc = pc /\ task'[i].next = task[i].next /\ task'[i].stop = task[i].stop
    BY <1>2, MoveIs DEF Moves
  <2>. QED
    BY <1>0, <1>a, <1>2, <2>1, StatesMove, OneMoves
<1>3. CASE ClaimGranted(i)
  <2>1. Started(i)
    BY <1>0, <1>3, ClaimIs DEF ClaimGranted
  <2>2. states[i].attempt + 1 \in Nat
    BY <1>0 DEF StoreTypeOK, State
  <2>3. task'[i].pc = "run" /\ task'[i].next = task[i].next /\ task'[i].stop = task[i].stop
    BY <1>3, <2>2, ClaimMoves DEF ClaimGranted, Moves
  <2>4. Known(i)' /\ Begun(i)' /\ states'[i].status = "ACTIVE"
    BY <1>0, <2>1, StatesMove DEF Known, Begun
  <2>. QED
    BY <1>0, <1>a, <2>1, <2>3, <2>4, StatesMove, OneMoves
<1>4. CASE ClaimDenied(i) \/ ClaimError(i) \/ ClaimAgain(i)
  <2>1. Started(i) \/ UNCHANGED states
    BY <1>0, <1>4, ClaimIs DEF ClaimDenied, ClaimError, ClaimAgain, storeVars
  <2>. QED
    BY <1>a, <1>2, <1>4, <2>1 DEF ClaimDenied, ClaimError, ClaimAgain, At
<1>5. CASE HookReturns(i) \/ HookRaises(i) \/ PersistFailure(i) \/ PersistError(i)
  <2>1. Ended(i) \/ UNCHANGED states
    BY <1>0, <1>5, FinishIs DEF HookReturns, HookRaises, PersistFailure, PersistError, storeVars
  <2>2. task[i].pc \in {"run", "failing"} /\ (Move(i, "failing") \/ Move(i, "lookup"))
    BY <1>5 DEF HookReturns, HookRaises, PersistFailure, PersistError, At
  <2>. QED
    BY <1>a, <1>2, <2>1, <2>2
<1>6. CASE GiveUp(i) \/ HookCancelled(i) \/ LookUpError(i)
  BY <1>1, <1>6 DEF GiveUp, HookCancelled, LookUpError
<1>7. CASE Cancel(i)
  <2>1. Started(i) \/ Ended(i) \/ UNCHANGED states
    BY <1>0, <1>7, ClaimIs, FinishIs DEF Cancel, storeVars
  <2>. QED
    BY <1>1, <1>7, <2>1 DEF Cancel
<1>8. CASE Emit(i)
  <2>1. UNCHANGED states
    BY <1>0, <1>8, EmitIs DEF Emit, Emitting, storeVars
  <2>2. task' = task
    BY <1>8 DEF Emit
  <2>. QED
    BY <1>0, <1>a, <2>1, <2>2, QuietMoves DEF Live
<1>9. CASE LookUp(i)
  <2>1. NextInSession(i) \subseteq Invocations /\ \A k \in NextInSession(i) : Known(k)
    BY DEF NextInSession, With, Known
  <2>2. UNCHANGED states /\ task[i].pc = "lookup"
    BY <1>9 DEF LookUp, At
  <2>3. CASE End(i)
    BY <1>1, <2>2, <2>3
  <2>4. CASE task' = [task EXCEPT ![i] = [task[i] EXCEPT !.pc = "handover",
                                                         !.next = NextInSession(i)]]
    <3>1. /\ task'[i].pc = "handover" /\ task'[i].next = NextInSession(i)
          /\ task'[i].stop = task[i].stop
      BY <2>1, <2>4, LookUpMoves DEF Moves
    <3>. QED
      BY <1>0, <1>a, <2>1, <2>2, <3>1, QuietMoves DEF Live
  <2>. QED
    BY <1>9, <2>3, <2>4 DEF LookUp
<1>10. CASE IgnoreCancel(i)
  <2>1. task[i] \in Task /\ task'[i] = [task[i] EXCEPT !.stop = "ignored"]
    BY <1>10 DEF IgnoreCancel, TypeOK
  <2>2. task'[i].pc = task[i].pc /\ task'[i].next = task[i].next /\ task[i].stop = "cancelled"
    BY <1>10, <2>1 DEF Task, IgnoreCancel
  <2>. QED
    BY <1>0, <1>a, <1>10, <2>2, QuietMoves DEF IgnoreCancel, Live
<1>. QED
  BY <1>3, <1>4, <1>5, <1>6, <1>7, <1>8, <1>9, <1>10 DEF Acts, Resume, EndHook

(* Every step keeps what every task knows of the store. *)
LEMMA NextTasks == ASSUME TypeOK, LineInv, TaskInv, [Next]_vars PROVE TaskInv'
<1>0. \A i \in Invocations : task[i].next \subseteq Invocations
  BY AttemptIsNat
<1>1. ASSUME NEW i \in Invocations, NEW s \in Sessions \cup {NoSession}, NEW r \in Requests,
             Submit(i, s, r)
      PROVE  TaskInv'
  <2>1. UNCHANGED <<task, phase>> /\ calls' \subseteq calls \cup {i}
    BY <1>1 DEF Submit
  <2>2. Enqueued(i) \/ (Known(i) /\ UNCHANGED storeVars)
    BY <1>1, AcceptIs DEF Submit
  <2>3. CASE Enqueued(i)
    <3>1. states'[i].status = "QUEUED" /\ \A j \in Invocations \ {i} : states'[j] = states[j]
      BY <2>3, EnqueuedStates DEF TypeOK, LineInv
    <3>2. ~Known(i)
      BY <2>3 DEF Enqueued
    <3>3. \A k \in Invocations : Known(k) => Known(k)'
      BY <3>1 DEF Known
    <3>4. \A k \in Invocations : Begun(k) => states'[k] = states[k]
      BY <3>1, <3>2 DEF Known, Begun
    <3>5. ASSUME NEW j \in Invocations
          PROVE  /\ task[j].pc = "run" => states'[j].status = "ACTIVE"
                 /\ task[j].pc \in {"run", "failing", "lookup", "handover"} => Begun(j)'
                 /\ Live(j) \/ j \in calls' => Known(j)'
                 /\ \A k \in task[j].next : Known(k)'
                 /\ phase = "up" => task[j].stop = "no"
      BY <1>0, <2>1, <3>1, <3>3, <3>4 DEF TaskInv, Begun, Known
    <3>. QED
      BY <2>1, <3>5 DEF TaskInv, Live
  <2>4. CASE Known(i) /\ UNCHANGED storeVars
    BY <2>1, <2>4 DEF TaskInv, storeVars, Known, Begun, Live
  <2>. QED
    BY <2>2, <2>3, <2>4
<1>2. ASSUME NEW i \in Invocations, Read(i) PROVE TaskInv'
  BY <1>2 DEF Read, TaskInv, Known, Begun, Live
<1>3. ASSUME NEW i \in Invocations, EnsureScheduled(i) PROVE TaskInv'
  <2>1. /\ task'[i] = IF Live(i) THEN task[i] ELSE NewTask
        /\ \A j \in Invocations \ {i} : task'[j] = task[j]
        /\ i \in calls /\ calls' \subseteq calls /\ UNCHANGED <<states, phase>>
    BY <1>3, ScheduleMoves
  <2>2. ASSUME NEW j \in Invocations
        PROVE  /\ task'[j].pc = "run" => states[j].status = "ACTIVE"
               /\ task'[j].pc \in {"run", "failing", "lookup", "handover"} => Begun(j)
               /\ task'[j].pc # "none" \/ j \in calls' => Known(j)
               /\ \A k \in task'[j].next : Known(k)
               /\ phase = "up" => task'[j].stop = "no"
    <3>1. CASE task'[j] = task[j]
      BY <2>1, <3>1 DEF TaskInv, Live
    <3>2. CASE j = i /\ task'[j] = NewTask
      BY <2>1, <3>2, TaskTypes DEF TaskInv
    <3>. QED
      BY <2>1, <3>1, <3>2
  <2>. QED
    BY <2>1, <2>2 DEF TaskInv, Live, Known, Begun
<1>4. ASSUME NEW i \in Invocations, HandOver(i) PROVE TaskInv'
  <2>1. /\ task'[i] = NoTask
        /\ \A j \in Invocations \ {i} :
             IF j \in task[i].next /\ ~Live(j) THEN task'[j] = NewTask ELSE task'[j] = task[j]
        /\ UNCHANGED <<states, calls, phase>>
    BY <1>4, HandOverMoves
  <2>2. ASSUME NEW j \in Invocations
        PROVE  /\ task'[j].pc = "run" => states[j].status = "ACTIVE"
               /\ task'[j].pc \in {"run", "failing", "lookup", "handover"} => Begun(j)
               /\ task'[j].pc # "none" \/ j \in calls => Known(j)
               /\ \A k \in task'[j].next : Known(k)
               /\ phase = "up" => task'[j].stop = "no"
    <3>1. CASE task'[j] = task[j]
      BY <3>1 DEF TaskInv, Live
    <3>2. CASE j = i
      BY <2>1, <3>2, TaskTypes DEF TaskInv
    <3>3. CASE j # i /\ j \in task[i].next /\ task'[j] = NewTask
      BY <3>3, TaskTypes DEF TaskInv
    <3>. QED
      BY <2>1, <3>1, <3>2, <3>3
  <2>. QED
    BY <2>1, <2>2 DEF TaskInv, Live, Known, Begun
<1>5. CASE StopBegins
  <2>1. /\ phase' # "up" /\ UNCHANGED <<states, calls>>
        /\ \A i \in Invocations : task'[i].pc = task[i].pc /\ task'[i].next = task[i].next
    BY <1>5, StopMoves
  <2>. QED
    BY <2>1 DEF TaskInv, Live, Known, Begun
<1>6. CASE StopReturns \/ UNCHANGED vars
  BY <1>6 DEF StopReturns, vars, TaskInv, Live, Known, Begun
<1>. QED
  BY <1>1, <1>2, <1>3, <1>4, <1>5, <1>6, ActsKeepTasks DEF Next, Client, RunTask, ClaimStep, Acts

-----------------------------------------------------------------------------
(* Hand-overs.  Who can start after a step could before, or follows in its  *)
(* session the one that just ended.                                         *)
LEMMA StillClaimable ==
  ASSUME StoreTypeOK, LineInv, NEW i \in Invocations, NEW j \in Invocations \ {i},
         Enqueued(i) \/ Started(i) \/ Ended(i), Claimable(j)'
  PROVE  Claimable(j) \/ (Ended(i) /\ SameSession(j, i))
<1>1. states'[j] = states[j] /\ states[j].status = "QUEUED"
  BY EnqueuedStates, StartedStates, EndedStates DEF LineInv, Claimable
<1>. SUFFICES ASSUME states[j].session # NoSession, ~(Ended(i) /\ SameSession(j, i)),
                     NEW k \in InSession(states[j].session)
              PROVE  /\ states[k].status # "ACTIVE"
                     /\ states[k].status = "QUEUED" => states[j].order <= states[k].order
  BY <1>1 DEF Claimable, With
<1>2. \A l \in InSession(states[j].session)' :
        /\ states'[l].status # "ACTIVE"
        /\ states'[l].status = "QUEUED" => states[j].order <= states'[l].order
  BY <1>1 DEF Claimable, With, InSession
<1>3. k \in Invocations /\ Known(k) /\ SameSession(j, k)
  BY DEF InSession, SameSession
<1>4. CASE k # i
  <2>1. states'[k] = states[k]
    BY <1>3, <1>4, EnqueuedStates, StartedStates, EndedStates DEF LineInv
  <2>2. k \in InSession(states[j].session)'
    BY <1>1, <1>3, <2>1 DEF InSession, Known, SameSession
  <2>. QED
    BY <1>2, <2>1, <2>2
<1>5. CASE k = i
  <2>1. Started(i)
    BY <1>3, <1>5 DEF Enqueued
  <2>2. states'[i].status = "ACTIVE" /\ states'[i].session = states[i].session
    BY <2>1, StartedStates
  <2>3. i \in InSession(states[j].session)'
    BY <1>1, <1>3, <1>5, <2>2 DEF InSession, Known, SameSession
  <2>. QED
    BY <1>2, <2>2, <2>3
<1>. QED
  BY <1>4, <1>5

(* Somebody minds i: one of the four of HandedOn.                           *)
Minded(i) ==
  \/ task[i].pc = "claim"
  \/ task[i].pc = "denied" /\ i \in retry
  \/ task[i].pc = "none" /\ i \in calls
  \/ Handing(i)

(* One task acts: those who mind the others still do, unless it was handing *)
(* over itself.                                                             *)
LEMMA OthersMinded ==
  ASSUME TypeOK, NEW i \in Invocations, NEW j \in Invocations \ {i}, Minded(j),
         \A k \in Invocations \ {i} : task'[k] = task[k],
         \A k \in Invocations : states'[k].session = states[k].session,
         j \in retry => j \in retry', j \in calls => j \in calls',
         task[i].pc = "lookup" \/ (task[i].pc = "handover" /\ j \in task[i].next) =>
           task'[i].pc = "lookup" \/ (task'[i].pc = "handover" /\ j \in task'[i].next)
  PROVE  Minded(j)'
<1>1. task'[j] = task[j]
  OBVIOUS
<1>2. CASE Handing(j)
  <2>1. PICK k \in Invocations :
          /\ SameSession(j, k)
          /\ task[k].pc = "lookup" \/ (task[k].pc = "handover" /\ j \in task[k].next)
    BY <1>2 DEF Handing
  <2>2. /\ SameSession(j, k)'
        /\ task'[k].pc = "lookup" \/ (task'[k].pc = "handover" /\ j \in task'[k].next)
    BY <2>1 DEF SameSession
  <2>. QED
    BY <2>2 DEF Minded, Handing
<1>. QED
  BY <1>1, <1>2 DEF Minded

(* A hook that ends has its session to look up, and so has its failure.     *)
LEMMA EndingHands ==
  ASSUME TypeOK, LineInv, TaskInv, NEW i \in Invocations,
         Ended(i) \/ UNCHANGED states, task'[i].pc = "lookup", task[i].pc \in {"run", "failing"},
         \A k \in Invocations \ {i} : task'[k] = task[k],
         UNCHANGED <<retry, calls>>,
         \A k \in Invocations : Claimable(k) => Minded(k),
         NEW j \in Invocations, Claimable(j)'
  PROVE  Minded(j)'
<1>1. Begun(i)'
  BY StatesMove DEF TypeOK, TaskInv
<1>2. j # i
  BY <1>1 DEF Claimable, Begun
<1>3. \A k \in Invocations : states'[k].session = states[k].session
  BY EndedStates DEF TypeOK
<1>4. Claimable(j) \/ SameSession(j, i)
  <2>1. CASE Ended(i)
    BY <1>2, <2>1, StillClaimable DEF TypeOK
  <2>2. CASE UNCHANGED states
    BY <2>2 DEF Claimable, InSession, Known, With
  <2>. QED
    BY <2>1, <2>2
<1>5. CASE Claimable(j)
  <2>1. Minded(j)
    BY <1>5
  <2>. QED
    BY <1>2, <1>3, <2>1, OthersMinded
<1>6. CASE SameSession(j, i)
  <2>1. SameSession(j, i)'
    BY <1>3, <1>6 DEF SameSession
  <2>. QED
    BY <2>1 DEF Minded, Handing
<1>. QED
  BY <1>4, <1>5, <1>6

(* Who may be claimed depends on the states alone. *)
LEMMA SameStatesClaimable ==
  ASSUME UNCHANGED states, NEW j PROVE Claimable(j)' <=> Claimable(j)
BY DEF Claimable, InSession, Known, With

(* Whoever could start after a task's step is minded by a task, a call or that task's hand- *)
(* over.                                                                                    *)
LEMMA ActsKeepMinded ==
  ASSUME TypeOK, LineInv, TaskInv, NEW i \in Invocations, Acts(i), faults' = 0, phase = "up",
         \A k \in Invocations : Claimable(k) => Minded(k),
         NEW j \in Invocations, Claimable(j)'
  PROVE  Minded(j)'
<1>0. /\ \A k \in Invocations \ {i} : task'[k] = task[k] /\ (k \in retry' <=> k \in retry)
      /\ calls' = calls /\ StoreTypeOK /\ task[i].attempt \in Nat
  BY ActsType, AttemptIsNat DEF TypeOK
<1>a. /\ task[i].stop = "no"
      /\ task[i].pc \in {"run", "failing", "lookup", "handover"} => Begun(i)
      /\ ~Fault
  BY FaultType DEF TaskInv
<1>1. CASE ClaimGranted(i)
  <2>1. Started(i) /\ task[i].pc = "claim"
    BY <1>0, <1>1, ClaimIs DEF ClaimGranted, At
  <2>2. j # i
    BY <1>0, <2>1, StartedStates DEF Claimable
  <2>3. \A k \in Invocations : states'[k].session = states[k].session
    BY <1>0, <2>1, StartedStates
  <2>4. ~Ended(i)
    BY <1>0, <2>1, StartedStates, EndedStates
  <2>5. Minded(j)
    BY <1>0, <2>1, <2>2, <2>4, StillClaimable
  <2>. QED
    BY <1>0, <2>1, <2>2, <2>3, <2>5, OthersMinded
<1>2. CASE HookReturns(i) \/ PersistFailure(i)
  <2>1. Ended(i) \/ UNCHANGED states
    BY <1>0, <1>2, FinishIs DEF HookReturns, PersistFailure, storeVars
  <2>2. task[i].pc \in {"run", "failing"} /\ task'[i].pc = "lookup" /\ UNCHANGED retry
    BY <1>2, MoveIs DEF HookReturns, PersistFailure, At, Moves
  <2>. QED
    BY <1>0, <2>1, <2>2, EndingHands
<1>3. ASSUME UNCHANGED states, task[i].pc \notin {"lookup", "handover"}, j # i PROVE Minded(j)'
  <2>1. Minded(j)
    BY <1>3, SameStatesClaimable
  <2>. QED
    BY <1>0, <1>3, <2>1, OthersMinded
<1>4. CASE ClaimDenied(i)
  <2>1. UNCHANGED states /\ task[i].pc = "claim" /\ ~Claimable(i)
    BY <1>4 DEF ClaimDenied, At
  <2>. QED
    BY <1>3, <2>1, SameStatesClaimable
<1>5. CASE ClaimAgain(i)
  <2>1. UNCHANGED states /\ task[i].pc = "denied" /\ task'[i].pc = "claim"
    BY <1>5, MoveIs DEF ClaimAgain, At, Moves
  <2>. QED
    BY <1>3, <2>1 DEF Minded
<1>6. CASE GiveUp(i)
  <2>1. UNCHANGED states /\ task[i].pc = "denied" /\ i \notin retry
    BY <1>6 DEF GiveUp, At
  <2>2. CASE j = i
    <3>1. Handing(i)
      BY <2>1, <2>2, SameStatesClaimable DEF Minded
    <3>2. PICK k \in Invocations :
            /\ SameSession(i, k)
            /\ task[k].pc = "lookup" \/ (task[k].pc = "handover" /\ i \in task[k].next)
      BY <3>1 DEF Handing
    <3>3. task'[k] = task[k] /\ SameSession(i, k)'
      BY <1>0, <2>1, <3>2 DEF SameSession
    <3>. QED
      BY <2>2, <3>2, <3>3 DEF Minded, Handing
  <2>. QED
    BY <1>3, <2>1, <2>2
<1>7. CASE Emit(i) \/ HookRaises(i)
  <2>1. UNCHANGED states /\ task[i].pc = "run"
    BY <1>0, <1>7, EmitIs DEF Emit, HookRaises, At, Emitting, storeVars
  <2>2. j # i
    BY <1>a, <2>1, SameStatesClaimable DEF Claimable, Begun
  <2>. QED
    BY <1>3, <2>1, <2>2
<1>8. CASE LookUp(i)
  <2>1. UNCHANGED states /\ task[i].pc = "lookup"
    BY <1>8 DEF LookUp, At
  <2>2. Claimable(j) /\ j # i /\ Minded(j)
    BY <1>a, <2>1, SameStatesClaimable DEF Claimable, Begun
  <2>3. CASE SameSession(j, i)
    <3>1. j \in NextInSession(i)
      <4>1. states[j].session = states[i].session /\ states[i].session # NoSession
        BY <2>3 DEF SameSession
      <4>2. /\ states[j].status = "QUEUED"
            /\ InSession(states[i].session) \cap With("ACTIVE") = {}
            /\ \A k \in InSession(states[i].session) \cap With("QUEUED") :
                 states[j].order <= states[k].order
        BY <2>2, <4>1 DEF Claimable
      <4>3. j \in InSession(states[i].session) \cap With("QUEUED")
        BY <4>1, <4>2 DEF InSession, With, Known
      <4>4. j \in SessionHead(states[i].session)
        BY <4>2, <4>3 DEF SessionHead
      <4>. QED
        BY <4>1, <4>3, <4>4 DEF NextInSession
    <3>2. task' = [task EXCEPT ![i] = [task[i] EXCEPT !.pc = "handover",
                                                      !.next = NextInSession(i)]]
      BY <1>8, <3>1 DEF LookUp
    <3>3. NextInSession(i) \in SUBSET Invocations
      BY DEF NextInSession, With
    <3>4. task'[i].pc = "handover" /\ j \in task'[i].next
      BY <3>1, <3>2, <3>3, LookUpMoves DEF Moves
    <3>5. SameSession(j, i)'
      BY <2>1, <2>3 DEF SameSession
    <3>. QED
      BY <3>4, <3>5 DEF Minded, Handing
  <2>4. CASE ~SameSession(j, i)
    <3>1. CASE Handing(j)
      <4>1. PICK k \in Invocations :
              /\ SameSession(j, k)
              /\ task[k].pc = "lookup" \/ (task[k].pc = "handover" /\ j \in task[k].next)
        BY <3>1 DEF Handing
      <4>2. task'[k] = task[k] /\ SameSession(j, k)'
        BY <1>0, <2>1, <2>4, <4>1 DEF SameSession
      <4>. QED
        BY <4>1, <4>2 DEF Minded, Handing
    <3>2. CASE ~Handing(j)
      BY <1>0, <2>2, <3>2 DEF Minded
    <3>. QED
      BY <3>1, <3>2
  <2>. QED
    BY <2>3, <2>4
<1>9. /\ ~ClaimError(i) /\ ~PersistError(i) /\ ~HookCancelled(i) /\ ~LookUpError(i)
      /\ ~Cancel(i) /\ ~IgnoreCancel(i)
  BY <1>a DEF ClaimError, PersistError, HookCancelled, LookUpError, Cancel, IgnoreCancel
<1>. QED
  BY <1>1, <1>2, <1>4, <1>5, <1>6, <1>7, <1>8, <1>9 DEF Acts, Resume, EndHook

(* Every step without a fault keeps somebody minding each invocation that could start. *)
LEMMA NextHandedOn ==
  ASSUME TypeOK, LineInv, TaskInv, HandedOn, [Next]_vars
  PROVE  HandedOn'
<1>. SUFFICES ASSUME faults' = 0, phase' = "up", NEW j \in Invocations, Claimable(j)'
              PROVE  Minded(j)'
  BY DEF HandedOn, Minded
<1>1. ASSUME NEW i \in Invocations, Acts(i) PROVE faults = 0 /\ phase = "up"
  <2>1. phase' = phase /\ (faults' = faults \/ Fault)
    BY <1>1, ActsType
       DEF Acts, ClaimGranted, ClaimDenied, ClaimError, Resume, ClaimAgain, GiveUp, Emit, EndHook,
           HookReturns, HookRaises, PersistFailure, PersistError, HookCancelled, LookUp,
           LookUpError, Cancel, IgnoreCancel
  <2>. QED
    BY <2>1, FaultType
<1>2. \A k \in Invocations : faults = 0 /\ phase = "up" /\ Claimable(k) => Minded(k)
  BY DEF HandedOn, Minded
<1>3. ASSUME NEW i \in Invocations, NEW s \in Sessions \cup {NoSession}, NEW r \in Requests,
             Submit(i, s, r)
      PROVE  Minded(j)'
  <2>1. UNCHANGED <<task, retry, phase, faults>> /\ calls \subseteq calls'
    BY <1>3 DEF Submit
  <2>2. CASE Enqueued(i)
    <3>1. /\ states'[i].status = "QUEUED" /\ ~Known(i)
          /\ \A k \in Invocations \ {i} : states'[k] = states[k]
      BY <2>2, EnqueuedStates DEF TypeOK, LineInv, Enqueued
    <3>2. CASE j = i
      <4>1. i \in calls'
        BY <1>3, <3>1 DEF Submit, Conflicts
      <4>2. task[i].pc = "none"
        BY <3>1 DEF TaskInv, Live
      <4>. QED
        BY <2>1, <3>2, <4>1, <4>2 DEF Minded
    <3>3. CASE j # i
      <4>1. ~Ended(i)
        BY <3>1 DEF Ended, Known
      <4>2. Minded(j)
        BY <1>2, <2>1, <2>2, <3>3, <4>1, StillClaimable DEF TypeOK
      <4>3. CASE Handing(j)
        <5>1. PICK k \in Invocations :
                /\ SameSession(j, k)
                /\ task[k].pc = "lookup" \/ (task[k].pc = "handover" /\ j \in task[k].next)
          BY <4>3 DEF Handing
        <5>2. k # i
          BY <3>1, <5>1 DEF TaskInv, Live
        <5>. QED
          BY <2>1, <3>1, <3>3, <5>1, <5>2 DEF Minded, Handing, SameSession
      <4>4. CASE ~Handing(j)
        BY <2>1, <4>2, <4>4 DEF Minded
      <4>. QED
        BY <4>3, <4>4
    <3>. QED
      BY <3>2, <3>3
  <2>3. CASE UNCHANGED storeVars
    <3>1. UNCHANGED states /\ Minded(j)
      BY <1>2, <2>1, <2>3, SameStatesClaimable DEF storeVars
    <3>. QED
      BY <2>1, <3>1 DEF Minded, Handing, SameSession
  <2>. QED
    BY <1>3, <2>2, <2>3, AcceptIs DEF Submit
<1>4. ASSUME NEW i \in Invocations, Read(i) PROVE Minded(j)'
  <2>1. UNCHANGED <<states, task, retry, phase, faults>> /\ calls \subseteq calls'
    BY <1>4 DEF Read
  <2>2. Minded(j)
    BY <1>2, <2>1, SameStatesClaimable
  <2>. QED
    BY <2>1, <2>2 DEF Minded, Handing, SameSession
<1>5. ASSUME NEW i \in Invocations, EnsureScheduled(i) PROVE Minded(j)'
  <2>1. /\ task'[i] = IF Live(i) THEN task[i] ELSE NewTask
        /\ \A k \in Invocations \ {i} : task'[k] = task[k]
        /\ calls' = calls \ {i} /\ UNCHANGED <<states, retry, phase, faults>>
    BY <1>5, ScheduleMoves
  <2>2. Minded(j)
    BY <1>2, <2>1, SameStatesClaimable
  <2>3. CASE j = i /\ ~Live(i)
    BY <2>1, <2>3, TaskTypes DEF Minded
  <2>4. \A k \in Invocations : task[k].pc # "none" => task'[k] = task[k]
    BY <2>1 DEF Live
  <2>5. Handing(j) => Handing(j)'
    BY <2>1, <2>4 DEF Handing, SameSession
  <2>6. CASE ~(j = i /\ ~Live(i))
    <3>1. task'[j] = task[j] /\ (task[j].pc = "none" /\ j \in calls => j \in calls')
      BY <2>1, <2>6 DEF Live
    <3>. QED
      BY <2>1, <2>2, <2>5, <3>1 DEF Minded
  <2>. QED
    BY <2>3, <2>6
<1>6. ASSUME NEW i \in Invocations, HandOver(i) PROVE Minded(j)'
  <2>1. /\ task'[i] = NoTask
        /\ \A k \in Invocations \ {i} :
             IF k \in task[i].next /\ ~Live(k) THEN task'[k] = NewTask ELSE task'[k] = task[k]
        /\ retry' = (retry \cup {k \in task[i].next : Live(k)}) \ {i}
        /\ UNCHANGED <<states, calls, phase, faults>>
    BY <1>6, HandOverMoves
  <2>2. Minded(j) /\ states[j].status = "QUEUED"
    BY <1>2, <2>1, SameStatesClaimable DEF Claimable
  <2>3. task[i].pc = "handover" /\ j # i
    BY <1>6, <2>2 DEF HandOver, At, TaskInv, Begun
  <2>4. \A k \in Invocations \ {i} : task[k].pc # "none" => task'[k] = task[k]
    BY <2>1 DEF Live
  <2>5. task[j].pc \in {"none", "claim", "denied"}
    BY <2>2 DEF TaskInv, Begun, TypeOK, Task
  <2>6. CASE j \in task[i].next
    <3>1. CASE Live(j)
      BY <2>1, <2>3, <2>4, <2>5, <2>6, <3>1 DEF Minded, Live
    <3>2. CASE ~Live(j)
      BY <2>1, <2>3, <2>6, <3>2, TaskTypes DEF Minded
    <3>. QED
      BY <3>1, <3>2
  <2>7. CASE j \notin task[i].next
    <3>1. task'[j] = task[j]
      BY <2>1, <2>3, <2>7
    <3>2. CASE Handing(j)
      <4>1. PICK k \in Invocations :
              /\ SameSession(j, k)
              /\ task[k].pc = "lookup" \/ (task[k].pc = "handover" /\ j \in task[k].next)
        BY <3>2 DEF Handing
      <4>2. k # i /\ task'[k] = task[k]
        BY <2>3, <2>4, <2>7, <4>1
      <4>. QED
        BY <2>1, <4>1, <4>2 DEF Minded, Handing, SameSession
    <3>3. CASE ~Handing(j)
      BY <2>1, <2>2, <2>3, <3>1, <3>3 DEF Minded
    <3>. QED
      BY <3>2, <3>3
  <2>. QED
    BY <2>6, <2>7
<1>7. CASE StopBegins \/ StopReturns
  BY <1>7, StopMoves DEF StopReturns
<1>8. CASE UNCHANGED vars
  <2>1. UNCHANGED <<states, task, retry, calls, phase, faults>>
    BY <1>8 DEF vars
  <2>2. Minded(j)
    BY <1>2, <2>1, SameStatesClaimable
  <2>. QED
    BY <2>1, <2>2 DEF Minded, Handing, SameSession
<1>9. ASSUME NEW i \in Invocations, Acts(i) PROVE Minded(j)'
  BY <1>1, <1>2, <1>9, ActsKeepMinded
<1>. QED
  BY <1>3, <1>4, <1>5, <1>6, <1>7, <1>8, <1>9 DEF Next, Client, RunTask, ClaimStep, Acts

-----------------------------------------------------------------------------
(* Nothing is stored and nothing runs at first. *)
LEMMA InitLocal == Init => TypeOK /\ LocalInv
<1>. SUFFICES ASSUME Init PROVE TypeOK /\ LocalInv
  OBVIOUS
<1>1. NoState \in State /\ NoState.status = "ABSENT" /\ NoState.session = NoSession
  BY DEF NoState, State, Status
<1>2. \A i \in Invocations : states[i] = NoState /\ task[i] = NoTask
  BY DEF Init, StoreInit
<1>3. TypeOK
  BY <1>1, TaskTypes DEF Init, StoreInit, TypeOK, StoreTypeOK
<1>4. \A s \in Sessions : Orders(s) = {0}
  BY <1>1, <1>2 DEF Orders, InSession, Known
<1>5. LineInv
  BY <1>1, <1>2, <1>4
     DEF LineInv, OrdersBounded, OrdersDistinct, AbsentIsNowhere, ServedInOrder, SameSession
<1>6. EventInv
  BY DEF Init, StoreInit, EventInv, EventsOfBegun, SessionReplaysInOrder
<1>7. TaskInv
  BY <1>2, TaskTypes DEF Init, TaskInv, Live
<1>8. HandedOn
  BY <1>1, <1>2 DEF HandedOn, Claimable
<1>. QED
  BY <1>3, <1>5, <1>6, <1>7, <1>8 DEF LocalInv

(* The invariant of the process-local runtime: a session's line, its        *)
(* events, what the tasks may take for granted, and the hand-overs.         *)
THEOREM LocalInvariant == Spec => [](TypeOK /\ LocalInv)
<1>1. Init => TypeOK /\ LocalInv
  BY InitLocal
<1>2. TypeOK /\ LocalInv /\ [Next]_vars => (TypeOK /\ LocalInv)'
  <2>. SUFFICES ASSUME TypeOK, LocalInv, [Next]_vars PROVE TypeOK' /\ LocalInv'
    OBVIOUS
  <2>1. LineInv /\ EventInv /\ TaskInv /\ HandedOn /\ StoreTypeOK
    BY DEF LocalInv, TypeOK
  <2>2. StoreStep
    BY NextStoreStep
  <2>3. TypeOK' /\ StoreTypeOK'
    BY <2>1, NextType DEF TypeOK
  <2>4. LineInv' /\ EventInv'
    BY <2>1, <2>2, <2>3, StoreStepLine, StoreStepEvents
  <2>5. TaskInv' /\ HandedOn'
    BY <2>1, NextTasks, NextHandedOn
  <2>. QED
    BY <2>3, <2>4, <2>5 DEF LocalInv
<1>. QED
  BY <1>1, <1>2, PTL DEF Spec

(* ARCHITECTURE.md, "Invocations in one session execute serially": without  *)
(* recovery it is true of the hooks themselves, through any errors,         *)
(* cancellations and a stop; and a replay of the one event list shows a     *)
(* session's invocations one after another, as they were accepted.          *)
THEOREM SessionsAreSerial == Spec => []SessionsRunSerially
<1>1. TypeOK /\ LocalInv => SessionsRunSerially
  <2>. SUFFICES ASSUME TypeOK, LocalInv PROVE HooksSerial
    BY DEF SessionsRunSerially, LocalInv, EventInv
  <2>. SUFFICES ASSUME NEW i \in Invocations, NEW j \in Invocations,
                       InHook(i), InHook(j), SameSession(i, j), i # j
                PROVE  FALSE
    BY DEF HooksSerial
  <2>1. states[i].status = "ACTIVE" /\ states[j].status = "ACTIVE"
    BY DEF LocalInv, TaskInv, InHook
  <2>2. states[i].order \in Nat /\ states[j].order \in Nat
    BY DEF TypeOK, StoreTypeOK, State
  <2>3. states[i].order < states[j].order \/ states[j].order < states[i].order
    BY <2>2 DEF LocalInv, LineInv, OrdersDistinct
  <2>. QED
    BY <2>1, <2>3 DEF LocalInv, LineInv, ServedInOrder, SameSession, Begun, Terminal
<1>. QED
  BY <1>1, LocalInvariant, PTL

(* No hand-over is lost between the read of a session and the scheduling of *)
(* what it gave (LocalInvocationExecutor._run, _schedule, _claim_retries):  *)
(* while nothing has failed, an invocation that could start has a call or a *)
(* task that is about to claim it, or an attempt about to hand over to it.  *)
THEOREM HandOversAreNotLost == Spec => []NoLostHandOver
<1>1. HandedOn => NoLostHandOver
  BY DEF HandedOn, NoLostHandOver, Attended, Handing
<1>. QED
  BY <1>1, LocalInvariant, PTL DEF LocalInv

-----------------------------------------------------------------------------
(* The store's steps are those of the line of SessionQueue.                 *)
LEMMA EnqueueJoins ==
  ASSUME StoreTypeOK, LineInv, NEW i \in Invocations, Enqueued(i)
  PROVE  Queue!Next
<1>1. PICK s \in Sessions \cup {NoSession} :
        /\ states'[i].status = "QUEUED" /\ states'[i].session = s
        /\ s # NoSession => states'[i].order = NextOrder(s)
        /\ \A j \in Invocations \ {i} : states'[j] = states[j]
        /\ states'[i].order \in Nat
  <2>1. StoreTypeOK'
    BY EnqueuedStates DEF LineInv
  <2>2. states'[i].order \in Nat
    BY <2>1 DEF StoreTypeOK, State
  <2>. QED
    BY <2>2, EnqueuedStates DEF LineInv
<1>3. states[i].status = "ABSENT"
  BY DEF Enqueued, Known
<1>4. s # NoSession => \A j \in InSession(s) : states[j].order < NextOrder(s)
  BY NextOrderIsNew DEF LineInv, OrdersBounded
<1>6. \A j \in Invocations : j \in Queue!Line(s) => j \in InSession(s)
  BY DEF Queue!Line, PhaseOf, InSession, Known
<1>7. Queue!Join(i, s)
  BY <1>1, <1>3, <1>4, <1>6 DEF Queue!Join, Queue!Line, PhaseOf
<1>. QED
  BY <1>7 DEF Queue!Next

(* A start is the abstract queue serving the first of a line. *)
LEMMA StartServes ==
  ASSUME StoreTypeOK, LineInv, NEW i \in Invocations, Started(i)
  PROVE  Queue!Next
<1>1. /\ states[i].status = "QUEUED" /\ states'[i].status = "ACTIVE"
      /\ states'[i].session = states[i].session /\ states'[i].order = states[i].order
      /\ \A j \in Invocations \ {i} : states'[j] = states[j]
  BY StartedStates
<1>2. \A j \in Queue!Ahead(i) : Queue!Done(j)
  <2>. SUFFICES ASSUME NEW j \in Queue!Ahead(i) PROVE Queue!Done(j)
    OBVIOUS
  <2>1. j \in Invocations /\ SameSession(i, j) /\ states[j].order < states[i].order
    BY DEF Queue!Ahead, Queue!Line, SameSession
  <2>2. states[j].status \in Terminal
    BY <2>1, StartsAtHead DEF Started
  <2>. QED
    BY <2>1, <2>2 DEF Queue!Done, PhaseOf, Terminal
<1>3. Queue!Serve(i)
  BY <1>1, <1>2 DEF Queue!Serve, PhaseOf
<1>. QED
  BY <1>3 DEF Queue!Next

(* An end is the abstract queue letting one go. *)
LEMMA EndLeaves ==
  ASSUME StoreTypeOK, NEW i \in Invocations, Ended(i)
  PROVE  Queue!Next
<1>1. /\ states[i].status = "ACTIVE" /\ states'[i].status \in Terminal
      /\ states'[i].session = states[i].session /\ states'[i].order = states[i].order
      /\ \A j \in Invocations \ {i} : states'[j] = states[j]
  BY EndedStates
<1>2. Queue!Leave(i)
  <2>1. PhaseOf(states'[i].status) \in {"completed", "failed"}
    BY <1>1 DEF PhaseOf, Terminal
  <2>2. PhaseOf(states[i].status) = "served"
    BY <1>1 DEF PhaseOf
  <2>3. [j \in Invocations |-> PhaseOf(states'[j].status)]
          = [[j \in Invocations |-> PhaseOf(states[j].status)]
               EXCEPT ![i] = PhaseOf(states'[i].status)]
    BY <1>1
  <2>4. /\ [j \in Invocations |-> states'[j].session] = [j \in Invocations |-> states[j].session]
        /\ [j \in Invocations |-> states'[j].order] = [j \in Invocations |-> states[j].order]
    BY <1>1
  <2>. QED
    BY <2>1, <2>2, <2>3, <2>4 DEF Queue!Leave
<1>. QED
  BY <1>2 DEF Queue!Next

(* The process-local runtime keeps the promise of SessionQueue: accept      *)
(* joins the line, claim serves its head, complete and fail leave it.       *)
THEOREM LocalRuntimeIsASessionQueue == Spec => ImplementsSessionQueue
<1>1. Init => Queue!Init
  <2>1. NoState.status = "ABSENT" /\ NoState.session = NoSession /\ NoState.order = 0
    BY DEF NoState
  <2>. QED
    BY <2>1 DEF Init, StoreInit, Queue!Init, PhaseOf
<1>2. TypeOK /\ LocalInv /\ [Next]_vars => [Queue!Next]_(Queue!qvars)
  <2>. SUFFICES ASSUME TypeOK, LocalInv, [Next]_vars PROVE [Queue!Next]_(Queue!qvars)
    OBVIOUS
  <2>1. StoreTypeOK /\ LineInv /\ StoreStep
    BY NextStoreStep DEF TypeOK, LocalInv
  <2>2. UNCHANGED states => UNCHANGED Queue!qvars
    BY DEF Queue!qvars
  <2>. QED
    BY <2>1, <2>2, EnqueueJoins, StartServes, EndLeaves DEF StoreStep, Emitting, storeVars
<1>. QED
  BY <1>1, <1>2, LocalInvariant, PTL DEF Spec, ImplementsSessionQueue, Queue!Spec
=============================================================================
