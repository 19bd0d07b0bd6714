--------------------------- MODULE Sessions_proofs ---------------------------
(***************************************************************************)
(* Theorems about the components that MCSessions runs.                     *)
(*                                                                         *)
(* GenieAsk, GeniePoll, LongTermMemory, LakebaseEngines, McpRegistration:  *)
(* their safety, each from an inductive invariant of its own.              *)
(* ResponseStream: a client is given the messages in order, none left out  *)
(* and none but message 0 twice, and a stream that ends on `completed` is  *)
(* complete.  The log only grows at its end                                *)
(* (LongRunning_proofs), and once the status says completed the handler    *)
(* that wrote it has left and writes no more.                              *)
(* ResultTruncation: for every number of rows, budget and sizes.           *)
(* Transcript, Checkpointer: a conversation reads back as it was saved.     *)
(* Both lie in the log of a session that is read page by page while others  *)
(* write: an undisturbed listing is a beginning of the log, and what a       *)
(* version names is what the put that drew it wrote.                        *)
(***************************************************************************)
EXTENDS ResponseStream, LongRunning_proofs, ResultTruncation, GeniePoll, LongTermMemory, LakebaseEngines,
        McpRegistration, Transcript, FiniteSetTheorems, SequenceTheorems

(***************************************************************************)
(* GenieAsk.  The model may ask only while the space has nothing from it,   *)
(* and the one thread that can put something there belongs to the call      *)
(* whose stage says so.                                                     *)
(***************************************************************************)
CallShape == [pc : {"idle", "client", "submit", "wait"}, calls : Nat, late : BOOLEAN, cancelled : BOOLEAN]
Statuses == {"none", "IN_PROGRESS", "COMPLETED", "FAILED", "CANCELLED"}
WorkerShape == [runs : {"none", "client", "submit", "answer", "get"}, done : BOOLEAN, saw : Statuses]

AskTypeOK ==
  /\ tool_call \in CallShape /\ worker \in WorkerShape
  /\ sent \in Nat /\ status \in Statuses /\ model \in {"ask", "poll", "stop"}

NothingSentYet ==
  /\ model = "ask" /\ Stage \in {"idle", "client"} => sent = 0
  /\ Stage = "client" => model # "stop"
  /\ worker.runs = "submit" /\ ~worker.done => Stage = "submit" /\ sent = 0

AskInv == AskTypeOK /\ NothingSentYet /\ AskedOnce /\ NoThreadOutlives

(* The records a worker starts from. *)
LEMMA WorkersAre ==
  /\ NoWorker \in WorkerShape /\ NoWorker.runs = "none"
  /\ \A what \in {"client", "submit", "answer", "get"} :
       Works(what) \in WorkerShape /\ Works(what).runs = what
  BY DEF NoWorker, Works, WorkerShape, Statuses

(* A call may end when its thread has; it says "ask" only if nothing was sent. *)
LEMMA SayKeeps ==
  ASSUME AskInv, NEW next \in {"ask", "poll", "stop"}, Say(next), next = "ask" => sent = 0,
         UNCHANGED <<sent, status>>, worker' \in WorkerShape, NoThread'
  PROVE  AskInv'
<1>1. tool_call.calls \in Nat
  BY DEF AskInv, AskTypeOK, CallShape
<1>2. tool_call' \in CallShape /\ Stage' = "idle"
  BY <1>1 DEF Say, NoCall, CallShape, Stage
<1>. QED
  BY <1>2 DEF AskInv, AskTypeOK, NothingSentYet, AskedOnce, NoThreadOutlives, NoThread, Say

(* A step that only marks the call, late or cancelled. *)
LEMMA MarkKeeps ==
  ASSUME AskInv, Deadline \/ CancelCall
  PROVE  AskInv'
<1>0. tool_call \in CallShape /\ UNCHANGED <<worker, sent, status, model>>
  BY DEF AskInv, AskTypeOK, Deadline, CancelCall
<1>1. tool_call' \in CallShape /\ tool_call'.pc = tool_call.pc
  BY <1>0 DEF Deadline, CancelCall, CallShape
<1>. QED
  BY <1>0, <1>1 DEF AskInv, AskTypeOK, NothingSentYet, AskedOnce, NoThreadOutlives, NoThread, Stage

(* A call of the Genie tool keeps the invariant. *)
LEMMA CallToolKeeps ==
  ASSUME AskInv, CallTool
  PROVE  AskInv'
<1>0. tool_call.calls + 1 \in Nat
  BY DEF AskInv, AskTypeOK, CallShape
<1>1. tool_call' \in CallShape /\ tool_call'.pc = "client"
  BY <1>0 DEF CallTool, NoCall, CallShape
<1>2. worker' \in WorkerShape /\ worker'.runs = "client"
  BY DEF CallTool, Works, NoWorker, WorkerShape, Statuses
<1>. QED
  BY <1>1, <1>2 DEF AskInv, AskTypeOK, NothingSentYet, AskedOnce, NoThreadOutlives, Stage, CallTool

(* A call that gets its client keeps the invariant. *)
LEMMA ClientKeeps ==
  ASSUME AskInv, GotClient
  PROVE  AskInv'
<1>1. PICK late \in BOOLEAN :
        IF model = "poll"
        THEN /\ tool_call' = [tool_call EXCEPT !.pc = "wait", !.late = late]
             /\ worker' = NoWorker /\ UNCHANGED model
        ELSE IF late THEN Say("stop") /\ UNCHANGED worker
        ELSE /\ tool_call' = [tool_call EXCEPT !.pc = "submit"]
             /\ worker' = Works("submit") /\ UNCHANGED model
  BY DEF GotClient, AskInv, AskTypeOK, CallShape
<1>2. tool_call \in CallShape /\ UNCHANGED <<sent, status>> /\ Stage = "client"
  BY DEF AskInv, AskTypeOK, GotClient
<1>3. CASE model = "poll"
  <2>1. tool_call' \in CallShape /\ tool_call'.pc = "wait"
    BY <1>1, <1>2, <1>3 DEF CallShape
  <2>2. worker' \in WorkerShape /\ worker'.runs = "none"
    BY <1>1, <1>3, WorkersAre
  <2>. QED
    BY <1>1, <1>2, <1>3, <2>1, <2>2 DEF AskInv, AskTypeOK, NothingSentYet, AskedOnce, NoThreadOutlives, Stage
<1>4. CASE model # "poll" /\ Say("stop") /\ UNCHANGED worker
  BY <1>2, <1>4, SayKeeps DEF GotClient, NoThread, AskInv, AskTypeOK
<1>5. CASE /\ model # "poll" /\ tool_call' = [tool_call EXCEPT !.pc = "submit"]
           /\ worker' = Works("submit") /\ UNCHANGED model
  <2>1. tool_call' \in CallShape /\ tool_call'.pc = "submit"
    BY <1>2, <1>5 DEF CallShape
  <2>2. worker' \in WorkerShape
    BY <1>5 DEF Works, NoWorker, WorkerShape, Statuses
  <2>3. model = "ask" /\ sent = 0
    BY <1>2, <1>5 DEF AskInv, AskTypeOK, NothingSentYet
  <2>. QED
    BY <1>2, <1>5, <2>1, <2>2, <2>3 DEF AskInv, AskTypeOK, NothingSentYet, AskedOnce, NoThreadOutlives, Stage
<1>. QED
  BY <1>1, <1>3, <1>4, <1>5

(* The wait for the message and its status. *)
LEMMA WaitKeeps ==
  ASSUME AskInv, GotMessage \/ GetMessage \/ GotStatus
  PROVE  AskInv'
<1>0. tool_call \in CallShape /\ UNCHANGED <<sent, status>>
  BY DEF AskInv, AskTypeOK, GotMessage, GetMessage, GotStatus
<1>1. CASE GotMessage
  <2>1. tool_call' \in CallShape /\ tool_call'.pc = "wait"
    BY <1>0, <1>1 DEF CallShape, GotMessage
  <2>2. worker' \in WorkerShape /\ worker'.runs = "none" /\ UNCHANGED model
    BY <1>1 DEF NoWorker, WorkerShape, Statuses, GotMessage
  <2>. QED
    BY <1>0, <2>1, <2>2 DEF AskInv, AskTypeOK, NothingSentYet, AskedOnce, NoThreadOutlives, Stage
<1>2. CASE /\ tool_call' = tool_call /\ model' = model /\ tool_call.pc = "wait"
           /\ worker' \in {NoWorker, Works("get")}
  <2>1. worker' \in WorkerShape /\ worker'.runs # "submit"
    BY <1>2, WorkersAre
  <2>. QED
    BY <1>0, <1>2, <2>1 DEF AskInv, AskTypeOK, NothingSentYet, AskedOnce, NoThreadOutlives, Stage
<1>3. CASE GetMessage
  BY <1>2, <1>3 DEF GetMessage, Stage
<1>4. CASE GotStatus
  <2>1. CASE Say("stop") /\ UNCHANGED worker
    BY <1>0, <1>4, <2>1, SayKeeps DEF GotStatus, NoThread, AskInv, AskTypeOK
  <2>2. CASE worker' = NoWorker /\ UNCHANGED <<tool_call, model>>
    BY <1>2, <1>4, <2>2 DEF GotStatus, Stage
  <2>. QED
    BY <1>4, <2>1, <2>2 DEF GotStatus
<1>. QED
  BY <1>1, <1>3, <1>4

(* A time-out or a cancellation ends the call only once its thread is done. *)
LEMMA EndAskKeeps ==
  ASSUME AskInv, TimedOut \/ LeaveCall
  PROVE  AskInv'
<1>1. CASE TimedOut
  <2>1. Stage \in {"client", "submit", "wait"} /\ Say(AfterTimeout(Stage)) /\ UNCHANGED <<sent, status>>
    BY <1>1 DEF TimedOut, Stage, AskInv, AskTypeOK, CallShape
  <2>2. AfterTimeout(Stage) \in {"ask", "poll", "stop"} /\ (AfterTimeout(Stage) = "ask" => sent = 0)
    BY <2>1 DEF AfterTimeout, AskInv, AskTypeOK, NothingSentYet
  <2>3. worker' \in WorkerShape /\ NoThread'
    BY <1>1 DEF TimedOut, Drained, NoThread, AskInv, AskTypeOK
  <2>. QED
    BY <2>1, <2>2, <2>3, SayKeeps
<1>2. CASE LeaveCall
  BY <1>2, SayKeeps DEF LeaveCall, Drained, NoThread, AskInv, AskTypeOK
<1>. QED
  BY <1>1, <1>2

(* Every step of a worker thread, late or not, keeps the invariant. *)
LEMMA WorkerKeeps ==
  ASSUME AskInv, Submit \/ Read \/ WorkerReturns \/ WorkerRaises
  PROVE  AskInv'
<1>0. worker \in WorkerShape /\ status \in Statuses
  BY DEF AskInv, AskTypeOK
<1>1. CASE Submit
  <2>1. worker' \in WorkerShape /\ worker'.runs = "answer" /\ Stage = "submit" /\ sent = 0
    BY <1>1 DEF Submit, Works, NoWorker, WorkerShape, Statuses, AskInv, NothingSentYet
  <2>2. sent' = 1 /\ status' \in Statuses /\ tool_call' = tool_call /\ model' = model
    BY <1>1, <2>1 DEF Submit, Statuses
  <2>. QED
    BY <2>1, <2>2 DEF AskInv, AskTypeOK, NothingSentYet, AskedOnce, NoThreadOutlives, Stage
<1>2. CASE Read
  <2>1. worker' = [worker EXCEPT !.saw = status] /\ worker.runs = "get" /\ ~worker.done
    BY <1>2 DEF Read
  <2>2. worker' \in WorkerShape /\ worker'.runs = "get"
    BY <1>0, <2>1 DEF WorkerShape
  <2>3. Stage # "idle"
    BY <2>1 DEF AskInv, NoThreadOutlives, NoThread
  <2>. QED
    BY <1>2, <2>2, <2>3 DEF Read, AskInv, AskTypeOK, NothingSentYet, AskedOnce, NoThreadOutlives, Stage
<1>3. ASSUME worker' = [worker EXCEPT !.done = TRUE]
      PROVE  worker' \in WorkerShape /\ worker'.done /\ NoThread'
  BY <1>0, <1>3 DEF WorkerShape, NoThread
<1>4. CASE worker' = [worker EXCEPT !.done = TRUE] /\ UNCHANGED <<tool_call, sent, status, model>>
  BY <1>3, <1>4 DEF AskInv, AskTypeOK, NothingSentYet, AskedOnce, NoThreadOutlives, Stage
<1>5. CASE WorkerReturns
  BY <1>4, <1>5 DEF WorkerReturns
<1>6. CASE WorkerRaises
  BY <1>3, <1>4, <1>6, SayKeeps DEF WorkerRaises
<1>. QED
  BY <1>1, <1>2, <1>5, <1>6

(* For any number of calls, whatever times out or is cancelled, the invariant of the Genie tool *)
(* holds: the question is asked at most once, and no thread outlives its call.                *)
THEOREM AskInvariant == AskSpec => []AskInv
<1>1. AskInit => AskInv
  BY DEF AskInit, AskInv, AskTypeOK, NothingSentYet, AskedOnce, NoThreadOutlives, Stage, NoCall, NoWorker,
         NoThread, CallShape, WorkerShape, Statuses
<1>2. AskInv /\ [AskNext]_askVars => AskInv'
  <2>. SUFFICES ASSUME AskInv, [AskNext]_askVars PROVE AskInv'
    OBVIOUS
  <2>1. CASE UNCHANGED askVars
    BY <2>1 DEF askVars, AskInv, AskTypeOK, NothingSentYet, AskedOnce, NoThreadOutlives, NoThread, Stage
  <2>2. CASE Progress
    BY <2>2 DEF Progress, Ended, Statuses, AskInv, AskTypeOK, NothingSentYet, AskedOnce, NoThreadOutlives, NoThread, Stage
  <2>. QED
    BY <2>1, <2>2, MarkKeeps, CallToolKeeps, ClientKeeps, WaitKeeps, EndAskKeeps, WorkerKeeps DEF AskNext
<1>. QED
  BY <1>1, <1>2, PTL DEF AskSpec
-----------------------------------------------------------------------------
(***************************************************************************)
(* GeniePoll.  The attachments are in the order of Genie's attempts, each    *)
(* attempt begun by its query; so between the first query and the last are   *)
(* just the texts of the attempts that were corrected.                       *)
(***************************************************************************)
MessageStates == {"none"} \cup Busy \cup Terminals
Attachments == [kind : {"query", "text"}, attempt : Nat, named : BOOLEAN]
Answers == [kind : {"none", "answer", "timeout"} \cup Dead, query : Nat, texts : SUBSET Nat]
GenieShape == [status : MessageStates, attachments : Seq(Attachments), attempt : Nat,
               result : {"none", "RUNNING", "SUCCEEDED", "FAILED"}]
AskingShape == [pc : {"submit", "poll", "query", "raised", "replied"}, n : Nat, last : MessageStates,
                spans : {<<>>} \cup {<<s>> : s \in MessageStates}, reply : Answers]

PollTypeOK == genie \in GenieShape /\ asking \in AskingShape

IsQuery(item, n) == item.kind = "query" /\ item.attempt = n

(* The attachments, when Genie makes its attempt N. *)
InOrder(items, N) ==
  /\ \A k \in 1..Len(items) : items[k].attempt <= N
  /\ \A j, k \in 1..Len(items) : j <= k => items[j].attempt <= items[k].attempt
  /\ \A j, k \in 1..Len(items) : j < k /\ items[k].kind = "query" => items[j].attempt < items[k].attempt
  /\ \A k \in 1..Len(items) : items[k].kind = "query" => items[k].attempt > 0
  /\ \A k \in 1..Len(items) : items[k].kind = "text" /\ items[k].attempt > 0 =>
       \E j \in 1..Len(items) : j < k /\ IsQuery(items[j], items[k].attempt)
  /\ N > 0 => \E k \in 1..Len(items) : IsQuery(items[k], N)
  /\ \A k \in 1..Len(items) : items[k].kind = "text" => ~items[k].named

(* The query of the attempt N, if its result can be read. *)
QueryOf(items, N) == IF \E k \in DOMAIN items : items[k].attempt = N /\ items[k].named THEN N ELSE 0
FinalTexts(items, N) == {k \in DOMAIN items : items[k].kind = "text" /\ items[k].attempt \in {0, N}}

(* x carries the answer of a message that has completed. *)
Answered(x) ==
  /\ genie.status = "COMPLETED" /\ x.reply.query = QueryOf(genie.attachments, genie.attempt)
  /\ x.reply.texts = FinalTexts(genie.attachments, genie.attempt)

Carries(x) == x.reply.kind = "answer" \/ x.reply.query # 0 \/ x.reply.texts # {}

AnswerIsMade ==
  /\ asking.pc = "submit" \/ genie.status # "none"
  /\ asking.pc \in {"submit", "poll"} => ~Carries(asking) /\ asking.reply.kind = "none"
  /\ asking.pc = "query" => Answered(asking) /\ asking.reply.kind = "none"
  /\ asking.pc = "replied" =>
       /\ Carries(asking) => Answered(asking)
       /\ asking.reply.kind \in Dead => asking.reply.kind = genie.status
  /\ asking.last \in Terminals \/ asking.pc \in {"query", "replied"} => asking.spans = <<>>

PollInv == PollTypeOK /\ InOrder(genie.attachments, genie.attempt) /\ AnswerIsMade
-----------------------------------------------------------------------------
(* The fields of the attachments of a message. *)
LEMMA AttachmentsAre ==
  ASSUME NEW items \in Seq(Attachments)
  PROVE  /\ DOMAIN items = 1..Len(items) /\ Len(items) \in Nat
         /\ \A k \in 1..Len(items) : /\ items[k].attempt \in Nat /\ items[k].kind \in {"query", "text"}
                                    /\ items[k].named \in BOOLEAN
<1>1. DOMAIN items = 1..Len(items) /\ Len(items) \in Nat /\ \A k \in 1..Len(items) : items[k] \in Attachments
  OBVIOUS
<1>2. \A i \in Attachments : i.attempt \in Nat /\ i.kind \in {"query", "text"} /\ i.named \in BOOLEAN
  BY DEF Attachments
<1>. QED
  BY <1>1, <1>2

(* The last query is that of the last attempt, and the texts that are not    *)
(* between two queries are its own and those of no attempt.                  *)
LEMMA ParsedIsFinal ==
  ASSUME NEW items \in Seq(Attachments), NEW N \in Nat, InOrder(items, N)
  PROVE  Parsed(items).query = QueryOf(items, N) /\ Parsed(items).texts = FinalTexts(items, N)
<1>0. /\ DOMAIN items = 1..Len(items) /\ Len(items) \in Nat
      /\ \A k \in 1..Len(items) : items[k].attempt \in Nat /\ items[k].kind \in {"query", "text"}
  BY AttachmentsAre
<1>1. LastQuery(items) = QueryOf(items, N)
  <2>1. CASE N = 0
    <3>1. Queries(items) = {}
      BY <1>0, <2>1 DEF Queries, InOrder
    <3>. QED
      BY <2>1, <3>1 DEF LastQuery, QueryOf
  <2>2. CASE N > 0
    <3>1. PICK k \in 1..Len(items) : items[k].kind = "query" /\ items[k].attempt = N
      BY <2>2 DEF InOrder, IsQuery
    <3>2. k \in Queries(items)
      BY <1>0, <3>1 DEF Queries
    <3>3. ASSUME NEW q \in 1..Len(items), items[q].kind = "query" PROVE (q < k /\ items[q].attempt < N) \/ q = k
      <4>1. CASE k < q
        <5>1. items[k].attempt < items[q].attempt /\ items[q].attempt <= N
          BY <3>3, <4>1 DEF InOrder
        <5>. QED
          BY <1>0, <3>1, <5>1
      <4>2. CASE q < k
        BY <3>1, <3>3, <4>2 DEF InOrder
      <4>. QED
        BY <4>1, <4>2
    <3>4. Last(items) \in Queries(items) /\ k <= Last(items)
      <4>1. \A q \in Queries(items) : q <= k
        BY <1>0, <3>3 DEF Queries
      <4>. QED
        BY <3>2, <4>1 DEF Last
    <3>5. Last(items) = k
      <4>1. Last(items) \in 1..Len(items) /\ items[Last(items)].kind = "query"
        BY <1>0, <3>4 DEF Queries
      <4>. QED
        BY <3>3, <3>4, <4>1
    <3>6. LastQuery(items) = IF items[k].named THEN N ELSE 0
      BY <3>1, <3>2, <3>5 DEF LastQuery
    <3>7. (\E j \in DOMAIN items : items[j].attempt = N /\ items[j].named) <=> items[k].named
      <4>1. ASSUME NEW j \in 1..Len(items), items[j].attempt = N, items[j].named PROVE j = k
        <5>1. items[j].kind = "query"
          BY <1>0, <4>1 DEF InOrder
        <5>2. ~(items[j].attempt < N)
          BY <2>2, <4>1
        <5>. QED
          BY <3>3, <5>1, <5>2
      <4>. QED
        BY <1>0, <3>1, <4>1
    <3>. QED
      BY <3>6, <3>7 DEF QueryOf
  <2>. QED
    BY <2>1, <2>2
<1>2. ASSUME NEW k \in DOMAIN items, items[k].kind = "text"
      PROVE  (\E p, q \in Queries(items) : p < k /\ k < q) <=> items[k].attempt \notin {0, N}
  <2>0. k \in 1..Len(items) /\ items[k].attempt \in Nat /\ items[k].attempt <= N
    BY <1>0 DEF InOrder
  <2>1. ASSUME NEW p \in Queries(items), NEW q \in Queries(items), p < k, k < q
        PROVE  items[k].attempt \notin {0, N}
    <3>1. p \in 1..Len(items) /\ q \in 1..Len(items) /\ items[p].kind = "query" /\ items[q].kind = "query"
      BY <1>0 DEF Queries
    <3>2. items[p].attempt > 0 /\ items[p].attempt <= items[k].attempt
          /\ items[k].attempt < items[q].attempt /\ items[q].attempt <= N
      BY <2>0, <2>1, <3>1 DEF InOrder
    <3>. QED
      BY <1>0, <2>0, <3>1, <3>2
  <2>2. ASSUME items[k].attempt \notin {0, N} PROVE \E p, q \in Queries(items) : p < k /\ k < q
    <3>1. items[k].attempt > 0 /\ items[k].attempt < N /\ N > 0
      BY <2>0, <2>2
    <3>2. PICK p \in 1..Len(items) : p < k /\ items[p].kind = "query"
      BY <1>2, <2>0, <3>1 DEF InOrder, IsQuery
    <3>3. PICK q \in 1..Len(items) : items[q].kind = "query" /\ items[q].attempt = N
      BY <3>1 DEF InOrder, IsQuery
    <3>4. ~(q <= k)
      BY <1>0, <2>0, <3>1, <3>3 DEF InOrder
    <3>5. k < q
      BY <2>0, <3>4
    <3>. QED
      BY <1>0, <3>2, <3>3, <3>5 DEF Queries
  <2>. QED
    BY <2>1, <2>2
<1>3. Parsed(items).query = LastQuery(items)
      /\ Parsed(items).texts = {k \in DOMAIN items :
            items[k].kind = "text" /\ ~\E p, q \in Queries(items) : p < k /\ k < q}
  BY DEF Parsed
<1>. QED
  BY <1>1, <1>2, <1>3 DEF FinalTexts

(* One more attachment, of the attempt that is made or of one begun by it. *)
LEMMA OrderGrows ==
  ASSUME NEW items \in Seq(Attachments), NEW N \in Nat, InOrder(items, N)
  PROVE  /\ InOrder(Append(items, Item("text", N, FALSE)), N)
         /\ \A named \in BOOLEAN : InOrder(Append(items, Item("query", N + 1, named)), N + 1)
<1>i. \A n \in Nat : \A kind \in {"query", "text"}, named \in BOOLEAN :
        /\ Item(kind, n, named) \in Attachments
        /\ Item(kind, n, named).kind = kind /\ Item(kind, n, named).attempt = n /\ Item(kind, n, named).named = named
  BY DEF Item, Attachments
<1>0. /\ Len(items) \in Nat
      /\ \A k \in 1..Len(items) : items[k].attempt \in Nat /\ items[k].kind \in {"query", "text"}
  BY AttachmentsAre
<1>a. ASSUME NEW it \in Attachments
      PROVE  /\ Len(Append(items, it)) = Len(items) + 1 /\ Append(items, it)[Len(items) + 1] = it
             /\ \A k \in 1..Len(items) : Append(items, it)[k] = items[k]
  OBVIOUS
<1>1. ASSUME NEW M \in Nat, NEW it \in Attachments, it.attempt = M, N <= M,
             it.kind = "query" => N < M,
             it.kind = "text" => M = N /\ ~it.named
      PROVE  InOrder(Append(items, it), M)
  <2>. DEFINE more == Append(items, it)
              L == Len(items)
  <2>1. Len(more) = L + 1 /\ more[L + 1] = it /\ (\A k \in 1..L : more[k] = items[k]) /\ L \in Nat
        /\ it.kind \in {"query", "text"}
    BY <1>a, <1>0 DEF Attachments
  <2>. HIDE DEF more, L
  <2>2. \A k \in 1..(L + 1) : k \in 1..L \/ k = L + 1
    BY <2>1
  <2>3. \A k \in 1..L : items[k].attempt \in Nat /\ items[k].attempt <= N
    BY <1>0 DEF InOrder, L
  <2>4. \A k \in 1..(L + 1) : more[k].attempt <= M
    BY <1>1, <2>1, <2>2, <2>3
  <2>5. \A j, k \in 1..(L + 1) : j <= k => more[j].attempt <= more[k].attempt
    <3>. SUFFICES ASSUME NEW j \in 1..(L + 1), NEW k \in 1..(L + 1), j <= k PROVE more[j].attempt <= more[k].attempt
      OBVIOUS
    <3>1. CASE k \in 1..L
      <4>1. j \in 1..L
        BY <2>1, <3>1
      <4>. QED
        BY <2>1, <3>1, <4>1 DEF InOrder, L
    <3>2. CASE k = L + 1
      BY <1>1, <2>1, <2>4, <3>2
    <3>. QED
      BY <2>2, <3>1, <3>2
  <2>6. \A j, k \in 1..(L + 1) : j < k /\ more[k].kind = "query" => more[j].attempt < more[k].attempt
    <3>. SUFFICES ASSUME NEW j \in 1..(L + 1), NEW k \in 1..(L + 1), j < k, more[k].kind = "query"
                  PROVE more[j].attempt < more[k].attempt
      OBVIOUS
    <3>0. j \in 1..L
      BY <2>1
    <3>1. CASE k \in 1..L
      BY <2>1, <3>0, <3>1 DEF InOrder, L
    <3>2. CASE k = L + 1
      BY <1>1, <2>1, <2>3, <3>0, <3>2
    <3>. QED
      BY <2>2, <3>1, <3>2
  <2>7. \A k \in 1..(L + 1) : more[k].kind = "query" => more[k].attempt > 0
    <3>. SUFFICES ASSUME NEW k \in 1..(L + 1), more[k].kind = "query" PROVE more[k].attempt > 0
      OBVIOUS
    <3>1. CASE k \in 1..L
      BY <2>1, <3>1 DEF InOrder, L
    <3>2. CASE k = L + 1
      BY <1>1, <2>1, <3>2
    <3>. QED
      BY <2>2, <3>1, <3>2
  <2>8. ASSUME NEW k \in 1..(L + 1), more[k].kind = "text", more[k].attempt > 0
        PROVE  \E j \in 1..(L + 1) : j < k /\ IsQuery(more[j], more[k].attempt)
    <3>1. CASE k \in 1..L
      <4>1. PICK j \in 1..L : j < k /\ IsQuery(items[j], items[k].attempt)
        BY <2>1, <2>8, <3>1 DEF InOrder, L
      <4>2. j \in 1..(L + 1)
        BY <2>1
      <4>. QED
        BY <2>1, <3>1, <4>1, <4>2
    <3>2. CASE k = L + 1
      <4>1. it.kind = "text" /\ M = N /\ N > 0
        BY <1>1, <2>1, <2>8, <3>2
      <4>2. PICK j \in 1..L : IsQuery(items[j], N)
        BY <4>1 DEF InOrder, L
      <4>3. j \in 1..(L + 1) /\ j < L + 1
        BY <2>1
      <4>. QED
        BY <1>1, <2>1, <3>2, <4>1, <4>2, <4>3
    <3>. QED
      BY <2>2, <3>1, <3>2
  <2>9. ASSUME M > 0 PROVE \E k \in 1..(L + 1) : IsQuery(more[k], M)
    <3>1. CASE it.kind = "query"
      <4>1. L + 1 \in 1..(L + 1)
        BY <2>1
      <4>. QED
        BY <1>1, <2>1, <3>1, <4>1 DEF IsQuery
    <3>2. CASE it.kind = "text"
      <4>1. PICK j \in 1..L : IsQuery(items[j], N)
        BY <1>1, <2>9, <3>2 DEF InOrder, L
      <4>2. j \in 1..(L + 1)
        BY <2>1
      <4>. QED
        BY <1>1, <2>1, <3>2, <4>1, <4>2
    <3>. QED
      BY <2>1, <3>1, <3>2
  <2>10. \A k \in 1..(L + 1) : more[k].kind = "text" => ~more[k].named
    <3>. SUFFICES ASSUME NEW k \in 1..(L + 1), more[k].kind = "text" PROVE ~more[k].named
      OBVIOUS
    <3>1. CASE k \in 1..L
      BY <2>1, <3>1 DEF InOrder, L
    <3>2. CASE k = L + 1
      BY <1>1, <2>1, <3>2
    <3>. QED
      BY <2>2, <3>1, <3>2
  <2>. QED
    BY <2>1, <2>4, <2>5, <2>6, <2>7, <2>8, <2>9, <2>10 DEF InOrder, more
<1>2. InOrder(Append(items, Item("text", N, FALSE)), N)
  <2>. DEFINE it == Item("text", N, FALSE)
  <2>1. it \in Attachments /\ it.kind = "text" /\ it.attempt = N /\ it.named = FALSE
    BY <1>i
  <2>. HIDE DEF it
  <2>2. InOrder(Append(items, it), N)
    BY <1>1, <2>1
  <2>. QED
    BY <2>2 DEF it
<1>3. ASSUME NEW named \in BOOLEAN PROVE InOrder(Append(items, Item("query", N + 1, named)), N + 1)
  BY <1>1, <1>i
<1>. QED
  BY <1>2, <1>3

(* The fields of a message and of the poll that follows it. *)
LEMMA PollFields ==
  ASSUME PollTypeOK
  PROVE  /\ genie.status \in MessageStates /\ genie.attachments \in Seq(Attachments) /\ genie.attempt \in Nat
         /\ asking.n \in Nat /\ asking.last \in MessageStates /\ asking.reply \in Answers
         /\ asking.reply.query \in Nat /\ asking.reply.texts \in SUBSET Nat
  BY DEF PollTypeOK, GenieShape, AskingShape, Answers

(* Genie thinks, or its query ends: a message that has ended stays as it is. *)
LEMMA GenieKeeps ==
  ASSUME PollInv, UNCHANGED asking, genie' \in GenieShape, genie'.status = genie.status \/ genie'.status # "none",
         InOrder(genie'.attachments, genie'.attempt),
         \/ genie.status \in Busy
         \/ /\ genie'.status = genie.status /\ genie'.attempt = genie.attempt
            /\ genie'.attachments = genie.attachments
  PROVE  PollInv'
<1>1. PollTypeOK'
  BY DEF PollInv, PollTypeOK
<1>2. genie.status \in Busy => ~Answered(asking) /\ genie.status \notin Dead
  BY DEF Answered, Busy, Dead
<1>3. Answered(asking) => Answered(asking)'
  BY <1>2 DEF Answered
<1>4. AnswerIsMade'
  BY <1>2, <1>3 DEF PollInv, AnswerIsMade, Carries
<1>. QED
  BY <1>1, <1>4 DEF PollInv

(* What Genie itself does keeps the invariant: attachments are added for its current attempt. *)
LEMMA SpaceKeeps ==
  ASSUME PollInv, Think \/ GenieEnds \/ QueryEnds
  PROVE  PollInv'
<1>0. /\ PollTypeOK /\ genie \in GenieShape /\ InOrder(genie.attachments, genie.attempt)
      /\ genie.attachments \in Seq(Attachments) /\ genie.attempt \in Nat
  BY PollFields DEF PollInv, PollTypeOK
<1>1. ASSUME genie.status \in Busy, NEW s \in MessageStates \ {"none"}, NEW r \in {"none", "RUNNING"}, UNCHANGED asking,
             genie' = [genie EXCEPT !.status = s] \/ genie' = [genie EXCEPT !.status = s, !.result = r]
      PROVE  PollInv'
  <2>1. genie' \in GenieShape /\ genie'.status = s /\ genie'.attachments = genie.attachments
        /\ genie'.attempt = genie.attempt
    BY <1>0, <1>1 DEF GenieShape
  <2>. QED
    BY <1>0, <1>1, <2>1, GenieKeeps
<1>2. ASSUME genie.status \in Busy, UNCHANGED asking, NEW it \in Attachments, NEW N \in Nat,
             InOrder(Append(genie.attachments, it), N),
             genie' = [genie EXCEPT !.attempt = N, !.attachments = Append(genie.attachments, it)]
      PROVE  PollInv'
  <2>1. Append(genie.attachments, it) \in Seq(Attachments)
    BY <1>0
  <2>2. genie' \in GenieShape /\ genie'.status = genie.status
        /\ genie'.attachments = Append(genie.attachments, it) /\ genie'.attempt = N
    BY <1>0, <1>2, <2>1 DEF GenieShape
  <2>. QED
    BY <1>2, <2>2, GenieKeeps DEF Busy
<1>3. CASE Think
  <2>1. genie.status \in Busy /\ UNCHANGED asking
    BY <1>3 DEF Think
  <2>2. CASE genie' = [genie EXCEPT !.status = CHOOSE s \in Busy : s # genie.status]
    <3>1. \E s \in Busy : s # genie.status
      BY DEF Busy
    <3>2. PICK t \in Busy : genie' = [genie EXCEPT !.status = t]
      BY <2>2, <3>1
    <3>3. t \in MessageStates \ {"none"}
      BY <3>2 DEF Busy, MessageStates
    <3>. QED
      BY <1>1, <2>1, <3>2, <3>3
  <2>3. ASSUME NEW named \in BOOLEAN,
               genie' = [genie EXCEPT !.attempt = genie.attempt + 1,
                           !.attachments = Append(genie.attachments, Item("query", genie.attempt + 1, named))]
        PROVE  PollInv'
    <3>1. Item("query", genie.attempt + 1, named) \in Attachments /\ genie.attempt + 1 \in Nat
      BY <1>0 DEF Item, Attachments
    <3>. QED
      BY <1>0, <1>2, <2>1, <2>3, <3>1, OrderGrows
  <2>4. CASE genie' = [genie EXCEPT !.attachments = Append(genie.attachments, Item("text", genie.attempt, FALSE))]
    <3>1. Item("text", genie.attempt, FALSE) \in Attachments
      BY <1>0 DEF Item, Attachments
    <3>2. genie' = [genie EXCEPT !.attempt = genie.attempt,
                                 !.attachments = Append(genie.attachments, Item("text", genie.attempt, FALSE))]
      BY <1>0, <2>4 DEF GenieShape
    <3>. QED
      BY <1>0, <1>2, <2>1, <3>1, <3>2, OrderGrows
  <2>. QED
    BY <1>3, <2>2, <2>3, <2>4 DEF Think
<1>4. CASE GenieEnds
  <2>1. PICK s \in Terminals :
          genie' = [genie EXCEPT !.status = s, !.result = IF s = "COMPLETED" THEN "RUNNING" ELSE "none"]
    BY <1>4 DEF GenieEnds
  <2>2. PICK r \in {"none", "RUNNING"} : r = IF s = "COMPLETED" THEN "RUNNING" ELSE "none"
    OBVIOUS
  <2>3. s \in MessageStates \ {"none"}
    BY DEF MessageStates, Terminals, Dead
  <2>. QED
    BY <1>1, <1>4, <2>1, <2>2, <2>3 DEF GenieEnds
<1>5. CASE QueryEnds
  <2>1. PICK r \in {"SUCCEEDED", "FAILED"} : genie' = [genie EXCEPT !.result = r]
    BY <1>5 DEF QueryEnds
  <2>2. genie' \in GenieShape /\ genie'.status = genie.status
        /\ genie'.attachments = genie.attachments /\ genie'.attempt = genie.attempt
    BY <1>0, <2>1 DEF GenieShape
  <2>. QED
    BY <1>0, <1>5, <2>2, GenieKeeps DEF QueryEnds
<1>. QED
  BY <1>3, <1>4, <1>5

(* The call becomes x, whose fields are as described. *)
LEMMA AskMoves ==
  ASSUME PollInv, UNCHANGED genie, NEW x \in AskingShape, asking' = x, genie.status # "none", x.pc # "submit",
         x.pc = "poll" => x.reply.kind = "none" /\ ~Carries(x),
         x.pc = "query" => x.reply.kind = "none" /\ Answered(x),
         x.pc = "replied" => /\ Carries(x) => Answered(x)
                             /\ x.reply.kind \in Dead => x.reply.kind = genie.status,
         x.last \in Terminals \/ x.pc \in {"query", "replied"} => x.spans = <<>>
  PROVE  PollInv'
<1>1. genie' = genie
  OBVIOUS
<1>2. AnswerIsMade'
  BY <1>1 DEF AnswerIsMade, Answered, Carries
<1>. QED
  BY <1>1, <1>2 DEF PollInv, PollTypeOK

(* a, with the reply r. *)
WithReply(a, r) == [a EXCEPT !.pc = "replied", !.reply = r]
(* A poll that replies changes its place and its reply only. *)
LEMMA ReplyIs ==
  ASSUME NEW a \in AskingShape, NEW r \in Answers
  PROVE  /\ WithReply(a, r) \in AskingShape /\ WithReply(a, r).pc = "replied" /\ WithReply(a, r).n = a.n
         /\ WithReply(a, r).last = a.last /\ WithReply(a, r).spans = a.spans /\ WithReply(a, r).reply = r
  BY DEF AskingShape, WithReply

(* Spans follow the status a poll saw: a terminal one leaves none open. *)
LEMMA TracedIs ==
  ASSUME NEW a \in AskingShape, NEW seen \in MessageStates, a.last \in Terminals => a.spans = <<>>
  PROVE  LET x == Traced(a, seen)
         IN  /\ x \in AskingShape /\ x.pc = a.pc /\ x.n = a.n /\ x.last = seen /\ x.reply = a.reply
             /\ x.last \in Terminals => x.spans = <<>>
<1>1. CASE seen = a.last
  BY <1>1 DEF Traced
<1>2. CASE seen # a.last
  <2>. DEFINE spans == IF seen \in Terminals THEN <<>> ELSE <<seen>>
              x == [a EXCEPT !.last = seen, !.spans = spans]
  <2>1. spans \in {<<>>} \cup {<<s>> : s \in MessageStates} /\ (seen \in Terminals => spans = <<>>)
    OBVIOUS
  <2>. HIDE DEF spans
  <2>2. x \in AskingShape /\ x.pc = a.pc /\ x.n = a.n /\ x.last = seen /\ x.reply = a.reply /\ x.spans = spans
    BY <2>1 DEF AskingShape
  <2>. QED
    BY <1>2, <2>1, <2>2 DEF Traced, spans
<1>. QED
  BY <1>1, <1>2

(* A submitted question keeps the invariant. *)
LEMMA SubmitKeeps ==
  ASSUME PollInv, SubmitQuestion
  PROVE  PollInv'
<1>0. PollTypeOK /\ genie \in GenieShape /\ asking \in AskingShape /\ asking.pc = "submit"
  BY DEF PollInv, PollTypeOK, SubmitQuestion
<1>1. genie' \in GenieShape /\ genie'.status = "ASKING_AI" /\ genie'.attachments = genie.attachments
      /\ genie'.attempt = genie.attempt
  BY <1>0 DEF SubmitQuestion, GenieShape, MessageStates, Busy
<1>2. asking' \in AskingShape /\ asking'.pc = "poll" /\ asking'.reply = asking.reply
      /\ asking'.last = asking.last /\ asking'.spans = asking.spans
  BY <1>0 DEF SubmitQuestion, AskingShape
<1>3. AnswerIsMade'
  BY <1>0, <1>1, <1>2 DEF PollInv, AnswerIsMade, Carries
<1>. QED
  BY <1>1, <1>2, <1>3 DEF PollInv, PollTypeOK

(* A poll of the message counts, and traces what it sees. *)
LEMMA PolledIs ==
  ASSUME PollInv, asking.pc \in {"poll", "query"}
  PROVE  LET b == [asking EXCEPT !.n = asking.n + 1]
         IN  /\ b \in AskingShape /\ b.pc = asking.pc /\ b.n \in Nat /\ b.last = asking.last
             /\ b.spans = asking.spans /\ b.reply = asking.reply /\ (b.last \in Terminals => b.spans = <<>>)
<1>1. asking \in AskingShape /\ asking.n + 1 \in Nat
  BY PollFields DEF PollInv, PollTypeOK
<1>. DEFINE b == [asking EXCEPT !.n = asking.n + 1]
<1>2. b \in AskingShape /\ b.pc = asking.pc /\ b.n = asking.n + 1 /\ b.last = asking.last
      /\ b.spans = asking.spans /\ b.reply = asking.reply
  BY <1>1 DEF AskingShape
<1>. QED
  BY <1>1, <1>2 DEF PollInv, AnswerIsMade

(* A poll of the message keeps the invariant: an answer is begun only of a message that has *)
(* completed.                                                                               *)
LEMMA PollMessageKeeps ==
  ASSUME PollInv, PollMessage
  PROVE  PollInv'
<1>0. /\ PollTypeOK /\ genie.status \in MessageStates /\ genie.attachments \in Seq(Attachments) /\ genie.attempt \in Nat
      /\ InOrder(genie.attachments, genie.attempt) /\ UNCHANGED genie /\ asking.pc = "poll"
      /\ genie.status # "none" /\ asking.reply.kind = "none" /\ asking.reply \in Answers
      /\ ~Carries(asking)
  BY PollFields DEF PollInv, PollMessage, AnswerIsMade
<1>. DEFINE b == [asking EXCEPT !.n = asking.n + 1]
            a == Traced(b, genie.status)
            p == Parsed(genie.attachments)
<1>1. b \in AskingShape /\ b.pc = "poll" /\ b.reply = asking.reply /\ (b.last \in Terminals => b.spans = <<>>)
  BY <1>0, PolledIs
<1>2. /\ a \in AskingShape /\ a.pc = "poll" /\ a.last = genie.status /\ a.reply = asking.reply
      /\ a.last \in Terminals => a.spans = <<>>
  BY <1>0, <1>1, TracedIs
<1>3. p.query = QueryOf(genie.attachments, genie.attempt) /\ p.query \in Nat
      /\ p.texts = FinalTexts(genie.attachments, genie.attempt) /\ p.texts \in SUBSET Nat
  BY <1>0, AttachmentsAre, ParsedIsFinal DEF FinalTexts, QueryOf
<1>4. /\ genie.status = "COMPLETED" /\ p.query # 0 =>
           asking' = [a EXCEPT !.pc = "query", !.n = 0,
                               !.reply = [NoAnswer EXCEPT !.query = p.query, !.texts = p.texts]]
      /\ genie.status = "COMPLETED" /\ p.query = 0 => asking' = Reply(a, "answer", 0, p.texts)
      /\ genie.status \in Dead => asking' = Reply(a, genie.status, 0, {})
      /\ genie.status # "COMPLETED" /\ genie.status \notin Dead => asking' = a
  <2>1. genie.status \in Dead => genie.status # "COMPLETED"
    BY DEF Dead
  <2>. HIDE DEF a, b, p
  <2>. QED
    BY <2>1 DEF PollMessage, a, b, p
<1>. HIDE DEF a, b, p
<1>5. CASE genie.status = "COMPLETED" /\ p.query # 0
  <2>. DEFINE reply == [NoAnswer EXCEPT !.query = p.query, !.texts = p.texts]
              x == [a EXCEPT !.pc = "query", !.n = 0, !.reply = reply]
  <2>1. reply \in Answers /\ reply.kind = "none" /\ reply.query = p.query /\ reply.texts = p.texts
    BY <1>0, <1>3 DEF NoAnswer, Answers
  <2>. HIDE DEF reply
  <2>2. x \in AskingShape /\ x.pc = "query" /\ x.last = a.last /\ x.spans = a.spans /\ x.reply = reply
    BY <1>2, <2>1 DEF AskingShape
  <2>3. asking' = x
    BY <1>4, <1>5 DEF reply
  <2>4. a.spans = <<>>
    BY <1>2, <1>5 DEF Terminals
  <2>. HIDE DEF x
  <2>. QED
    BY <1>0, <1>3, <1>5, <2>1, <2>2, <2>3, <2>4, AskMoves DEF Answered
<1>6. CASE genie.status = "COMPLETED" /\ p.query = 0
  <2>. DEFINE r == [kind |-> "answer", query |-> 0, texts |-> p.texts]
              x == WithReply(a, r)
  <2>r. r \in Answers /\ r.kind = "answer" /\ r.query = 0 /\ r.texts = p.texts
    BY <1>3 DEF Answers
  <2>0. Reply(a, "answer", 0, p.texts) = x
    BY DEF Reply, WithReply
  <2>. HIDE DEF r
  <2>1. /\ x \in AskingShape /\ x.pc = "replied" /\ x.last = a.last /\ x.spans = a.spans
        /\ x.reply.kind = "answer" /\ x.reply.query = 0 /\ x.reply.texts = p.texts
    BY <1>2, <2>r, ReplyIs
  <2>2. asking' = x
    BY <1>4, <1>6, <2>0
  <2>3. a.spans = <<>>
    BY <1>2, <1>6 DEF Terminals
  <2>. QED
    BY <1>0, <1>3, <1>6, <2>1, <2>2, <2>3, AskMoves DEF Dead, Answered
<1>7. CASE genie.status \in Dead
  <2>. DEFINE r == [kind |-> genie.status, query |-> 0, texts |-> {}]
              x == WithReply(a, r)
  <2>r. r \in Answers /\ r.kind = genie.status /\ r.query = 0 /\ r.texts = {}
    BY <1>7 DEF Answers
  <2>0. Reply(a, genie.status, 0, {}) = x
    BY DEF Reply, WithReply
  <2>. HIDE DEF r
  <2>1. /\ x \in AskingShape /\ x.pc = "replied" /\ x.last = a.last /\ x.spans = a.spans
        /\ x.reply.kind = genie.status /\ x.reply.query = 0 /\ x.reply.texts = {}
    BY <1>2, <2>r, ReplyIs
  <2>2. genie.status # "COMPLETED" /\ genie.status \notin {"answer", "timeout"} /\ genie.status \in Terminals
    BY <1>7 DEF Dead, Terminals
  <2>3. asking' = x
    BY <1>4, <1>7, <2>0, <2>2
  <2>4. a.spans = <<>>
    BY <1>2, <2>2
  <2>. QED
    BY <1>0, <1>7, <2>1, <2>2, <2>3, <2>4, AskMoves DEF Carries
<1>8. CASE genie.status # "COMPLETED" /\ genie.status \notin Dead
  <2>1. asking' = a
    BY <1>4, <1>8
  <2>. QED
    BY <1>0, <1>2, <2>1, AskMoves DEF Carries
<1>. QED
  BY <1>5, <1>6, <1>7, <1>8

(* A poll of the query's result keeps the invariant. *)
LEMMA PollQueryKeeps ==
  ASSUME PollInv, PollQuery
  PROVE  PollInv'
<1>0. /\ UNCHANGED genie /\ asking.pc = "query" /\ genie.status # "none" /\ asking.reply \in Answers
      /\ Answered(asking) /\ asking.reply.kind = "none" /\ asking.spans = <<>>
      /\ asking.reply.query \in Nat /\ asking.reply.texts \in SUBSET Nat
  BY PollFields DEF PollInv, PollQuery, AnswerIsMade
<1>. DEFINE a == [asking EXCEPT !.n = asking.n + 1]
<1>1. a \in AskingShape /\ a.pc = "query" /\ a.reply = asking.reply /\ a.spans = <<>>
  BY <1>0, PolledIs
<1>2. \/ asking' = Reply(a, "answer", a.reply.query, a.reply.texts)
      \/ asking' = Raise(a)
      \/ asking' = a
  BY DEF PollQuery
<1>. HIDE DEF a
<1>3. CASE asking' = Reply(a, "answer", a.reply.query, a.reply.texts)
  <2>. DEFINE r == [kind |-> "answer", query |-> a.reply.query, texts |-> a.reply.texts]
              x == WithReply(a, r)
  <2>r. r \in Answers /\ r.kind = "answer" /\ r.query = a.reply.query /\ r.texts = a.reply.texts
    BY <1>0, <1>1 DEF Answers
  <2>0. Reply(a, "answer", a.reply.query, a.reply.texts) = x
    BY DEF Reply, WithReply
  <2>. HIDE DEF r
  <2>1. /\ x \in AskingShape /\ x.pc = "replied" /\ x.spans = <<>>
        /\ x.reply.kind = "answer" /\ x.reply.query = asking.reply.query /\ x.reply.texts = asking.reply.texts
    BY <1>0, <1>1, <2>r, ReplyIs
  <2>2. asking' = x
    BY <1>3, <2>0
  <2>. QED
    BY <1>0, <2>1, <2>2, AskMoves DEF Answered, Dead
<1>4. CASE asking' = Raise(a)
  <2>. DEFINE x == [a EXCEPT !.pc = "raised"]
  <2>1. x \in AskingShape /\ x.pc = "raised" /\ x.spans = <<>>
    BY <1>1 DEF AskingShape
  <2>2. asking' = x
    BY <1>4 DEF Raise
  <2>. HIDE DEF x
  <2>. QED
    BY <1>0, <2>1, <2>2, AskMoves
<1>5. CASE asking' = a
  BY <1>0, <1>1, <1>5, AskMoves DEF Answered
<1>. QED
  BY <1>2, <1>3, <1>4, <1>5

(* A poll that gives up or raises keeps the invariant: what a time-out of the query's result *)
(* still carries is the answer that was polled for.                                          *)
LEMMA PollEndKeeps ==
  ASSUME PollInv, PollTimesOut \/ PollRaises
  PROVE  PollInv'
<1>0. /\ UNCHANGED genie /\ asking \in AskingShape /\ genie.status # "none" /\ asking.reply \in Answers
      /\ asking.reply.query \in Nat /\ asking.reply.texts \in SUBSET Nat
      /\ asking.last \in Terminals => asking.spans = <<>>
  BY PollFields DEF PollInv, PollTypeOK, PollTimesOut, PollRaises, AnswerIsMade
<1>1. CASE PollTimesOut
  <2>. DEFINE b == [asking EXCEPT !.spans = <<>>]
  <2>1. b \in AskingShape /\ b.n = asking.n /\ b.spans = <<>>
    BY <1>0 DEF AskingShape
  <2>. HIDE DEF b
  <2>. DEFINE r == [kind |-> "timeout", query |-> asking.reply.query, texts |-> asking.reply.texts]
              x == WithReply(b, r)
  <2>r. r \in Answers /\ r.kind = "timeout" /\ r.query = asking.reply.query /\ r.texts = asking.reply.texts
    BY <1>0 DEF Answers
  <2>0. Reply(b, "timeout", asking.reply.query, asking.reply.texts) = x
    BY DEF Reply, WithReply
  <2>. HIDE DEF r
  <2>2. /\ x \in AskingShape /\ x.pc = "replied" /\ x.spans = <<>> /\ x.reply.kind = "timeout"
        /\ x.reply.query = asking.reply.query /\ x.reply.texts = asking.reply.texts
    BY <1>0, <2>r, <2>1, ReplyIs
  <2>3. asking' = x
    BY <1>1, <2>0 DEF PollTimesOut, b
  <2>4. Carries(x) => Answered(x)
    <3>1. CASE asking.pc = "poll"
      BY <2>2, <3>1 DEF Carries, PollInv, AnswerIsMade
    <3>2. CASE asking.pc = "query"
      BY <2>2, <3>2 DEF Answered, PollInv, AnswerIsMade
    <3>. QED
      BY <1>1, <3>1, <3>2 DEF PollTimesOut
  <2>. HIDE DEF x
  <2>. QED
    BY <1>0, <2>2, <2>3, <2>4, AskMoves DEF Dead
<1>2. CASE PollRaises
  <2>. DEFINE x == [asking EXCEPT !.pc = "raised"]
  <2>1. x \in AskingShape /\ x.pc = "raised" /\ x.spans = asking.spans /\ x.last = asking.last
    BY <1>0 DEF AskingShape
  <2>2. asking' = x
    BY <1>2 DEF PollRaises, Raise
  <2>. HIDE DEF x
  <2>. QED
    BY <1>0, <2>1, <2>2, AskMoves
<1>. QED
  BY <1>1, <1>2

(* The inductive invariant of ask_question and its space. *)
THEOREM PollInvariant == PollSpec => []PollInv
<1>1. PollInit => PollInv
  <2>. SUFFICES ASSUME PollInit PROVE PollInv
    OBVIOUS
  <2>1. NoAnswer \in Answers /\ NoAnswer.kind = "none"
    BY DEF NoAnswer, Answers
  <2>2. genie \in GenieShape /\ genie.attachments = <<>> /\ genie.attempt = 0
    BY DEF PollInit, GenieShape, MessageStates
  <2>3. asking \in AskingShape /\ asking.pc = "submit" /\ asking.reply = NoAnswer /\ asking.spans = <<>>
    BY <2>1 DEF PollInit, AskingShape, MessageStates
  <2>4. InOrder(genie.attachments, genie.attempt)
    BY <2>2 DEF InOrder
  <2>. QED
    BY <2>1, <2>2, <2>3, <2>4 DEF PollInv, PollTypeOK, AnswerIsMade, Carries, NoAnswer
<1>2. PollInv /\ [PollNext]_pollVars => PollInv'
  <2>. SUFFICES ASSUME PollInv, [PollNext]_pollVars PROVE PollInv'
    OBVIOUS
  <2>1. CASE UNCHANGED pollVars
    BY <2>1 DEF pollVars, PollInv, PollTypeOK, AnswerIsMade, Answered, Carries
  <2>. QED
    BY <2>1, SpaceKeeps, SubmitKeeps, PollMessageKeeps, PollQueryKeeps, PollEndKeeps DEF PollNext
<1>. QED
  BY <1>1, <1>2, PTL DEF PollSpec

(* The agent's tool asks its question at most once, and leaves no thread at  *)
(* work behind, since a call waits for the one it started whatever ends it;  *)
(* the bridge's ask_question replies with what Genie's last attempt came to, *)
(* without its query if Genie gave that no id, and with nothing of an        *)
(* attempt Genie corrected; its spans have ended by then.                    *)
THEOREM GenieAnswersOnce == AskSpec /\ PollSpec => []GenieIsSound
<1>1. PollInv => GeniePollIsSound
  <2>. SUFFICES ASSUME PollInv PROVE GeniePollIsSound
    OBVIOUS
  <2>1. asking.pc = "replied" /\ Carries(asking) => Answered(asking)
    BY DEF PollInv, AnswerIsMade
  <2>2. AnswerIsFinal
    BY <2>1 DEF AnswerIsFinal, Carries, Answered, QueryOf, FinalTexts
  <2>. QED
    BY <2>2 DEF PollInv, AnswerIsMade, GeniePollIsSound, RepliesAreHonest, SpansAreEnded
<1>2. AskInv /\ PollInv => GenieIsSound
  BY <1>1 DEF GenieIsSound, GenieAskIsSafe, AskInv
<1>. QED
  BY <1>2, AskInvariant, PollInvariant, PTL

-----------------------------------------------------------------------------
(***************************************************************************)
(* LongTermMemory.  What a call read is as whole as what is stored, and who *)
(* is about to try again has seen a deletion for every try but the first.   *)
(***************************************************************************)
Entries == [id : Nat, lines : [Facts -> {0, 1}]]
ToolShape == [pc : {"idle", "create", "find", "append", "forget", "replied"}, fact : Facts \cup {"none"},
              scopes : SUBSET Scopings, tries : Nat, read : [Scopings -> Entries], removed : BOOLEAN,
              gone : Nat, reply : {"none", "remembered", "aborted", "known", "error", "nothing", "forgot"}]

MemoryTypeOK ==
  /\ memory \in [Scopings -> Entries] /\ created \in Nat /\ updated \in Nat
  /\ tool \in [Agents -> ToolShape] /\ known \in [Scopings -> SUBSET Facts] /\ overwrote \in BOOLEAN

Tries(call) == call.tries \in {1, 2} /\ call.gone + 1 >= call.tries

(* call: what its step relies on, when the memories are m. *)
CallIsSound(call, m) ==
  /\ call.pc \in {"create", "find", "append", "forget"} => call.fact \in Facts
  /\ call.pc \in {"create", "find"} => Tries(call) /\ \A s, t \in call.scopes : s = t
  /\ call.pc = "find" => \A s \in call.scopes : m[s] = NoMemory => call.gone >= call.tries
  /\ call.reply = "aborted" => call.gone >= 2

ToolsAreSound == \A a \in Agents : CallIsSound(tool[a], memory)
SavedIsKnown(entry, facts) == {f \in Facts : entry.lines[f] > 0} = facts

MemoryInv == MemoryTypeOK /\ ToolsAreSound /\ FactsAreKept

-----------------------------------------------------------------------------
(* No memory at all is an entry without lines. *)
LEMMA NothingIsAnEntry == NoLines \in [Facts -> {0, 1}] /\ NoMemory \in Entries /\ NoMemory.id = 0
  BY DEF NoLines, NoMemory, Entries

(* An agent without a call of its own. *)
LEMMA NoToolIs ==
  /\ NoTool \in ToolShape /\ NoTool.pc = "idle" /\ NoTool.reply = "none" /\ NoTool.scopes = {}
  /\ NoTool.tries = 0 /\ NoTool.gone = 0 /\ NoTool.read \in [Scopings -> Entries]
<1>. DEFINE blank == [s \in Scopings |-> NoMemory]
<1>1. blank \in [Scopings -> Entries]
  BY NothingIsAnEntry
<1>. HIDE DEF blank
<1>2. NoTool = [pc |-> "idle", fact |-> "none", scopes |-> {}, tries |-> 0, read |-> blank, removed |-> FALSE,
                gone |-> 0, reply |-> "none"]
  BY DEF NoTool, blank
<1>. QED
  BY <1>1, <1>2 DEF ToolShape

(* The fields of a call of a memory tool. *)
LEMMA ToolFields ==
  ASSUME NEW call \in ToolShape
  PROVE  /\ call.pc \in {"idle", "create", "find", "append", "forget", "replied"}
         /\ call.fact \in Facts \cup {"none"} /\ call.scopes \subseteq Scopings /\ call.tries \in Nat
         /\ call.read \in [Scopings -> Entries] /\ call.removed \in BOOLEAN /\ call.gone \in Nat
  BY DEF ToolShape

(* The fields of a memory. *)
LEMMA EntriesAre ==
  ASSUME NEW entry \in Entries
  PROVE  entry.id \in Nat /\ entry.lines \in [Facts -> {0, 1}] /\ entry = [id |-> entry.id, lines |-> entry.lines]
  BY DEF Entries

(* Nothing is remembered at first. *)
LEMMA MemoryInvInit == MemoryInit => MemoryInv
<1>. SUFFICES ASSUME MemoryInit PROVE MemoryInv
  OBVIOUS
<1>1. MemoryTypeOK
  BY NothingIsAnEntry, NoToolIs DEF MemoryInit, MemoryTypeOK
<1>2. ToolsAreSound
  BY NoToolIs DEF MemoryInit, ToolsAreSound, CallIsSound
<1>3. \A s \in Scopings, f \in Facts : memory[s].lines[f] = 0
  BY DEF MemoryInit, NoMemory, NoLines
<1>4. \A s \in Scopings : known[s] = {}
  BY DEF MemoryInit
<1>5. FactsAreKept
  BY <1>3, <1>4 DEF FactsAreKept
<1>. QED
  BY <1>1, <1>2, <1>5 DEF MemoryInv

(* A reply is sound whatever happens next, except "aborted", which has its reason. *)
LEMMA RepliedIs ==
  ASSUME MemoryTypeOK, NEW a \in Agents, CallIsSound(tool[a], memory),
         NEW reply \in {"remembered", "aborted", "known", "error", "nothing", "forgot"},
         reply = "aborted" => tool[a].gone >= 2
  PROVE  Replied(a, reply) \in ToolShape /\ \A m : CallIsSound(Replied(a, reply), m)
<1>. DEFINE x == Replied(a, reply)
<1>0. tool[a] \in ToolShape
  BY DEF MemoryTypeOK
<1>1. x \in ToolShape
  BY <1>0, NoToolIs DEF Replied, ToolShape
<1>2. x.pc = "replied" /\ x.reply = reply /\ x.gone = tool[a].gone
  BY <1>0 DEF Replied, ToolShape
<1>. QED
  BY <1>1, <1>2 DEF CallIsSound

(* The memories stay and a's call becomes x. *)
LEMMA ToolMoves ==
  ASSUME MemoryInv, MemorySame, NEW a \in Agents, NEW x \in ToolShape, CallIsSound(x, memory), StepTool(a, x)
  PROVE  MemoryInv'
<1>1. MemoryTypeOK'
  BY DEF MemoryInv, MemoryTypeOK, MemorySame, StepTool
<1>2. \A b \in Agents : tool'[b] = IF b = a THEN x ELSE tool[b]
  BY DEF MemoryInv, MemoryTypeOK, StepTool
<1>3. memory' = memory /\ known' = known /\ overwrote' = overwrote
  BY DEF MemorySame
<1>4. ToolsAreSound'
  BY <1>2, <1>3 DEF MemoryInv, ToolsAreSound
<1>5. FactsAreKept'
  BY <1>3 DEF MemoryInv, FactsAreKept
<1>. QED
  BY <1>1, <1>4, <1>5 DEF MemoryInv

(* The memory of s becomes entry, and a's call becomes x. *)
LEMMA MemoryMoves ==
  ASSUME MemoryInv, NEW a \in Agents, NEW s \in Scopings, NEW entry \in Entries, entry # NoMemory,
         NEW facts \in SUBSET Facts, NEW x \in ToolShape, \A m : CallIsSound(x, m), StepTool(a, x),
         memory' = [memory EXCEPT ![s] = entry], known' = [known EXCEPT ![s] = facts],
         overwrote' \in BOOLEAN, created' \in Nat, updated' \in Nat,
         overwrote' = FALSE => overwrote = FALSE /\ SavedIsKnown(entry, facts)
  PROVE  MemoryInv'
<1>0. MemoryTypeOK /\ ToolsAreSound /\ FactsAreKept
  BY DEF MemoryInv
<1>1. MemoryTypeOK'
  BY <1>0 DEF MemoryTypeOK, StepTool
<1>2. \A b \in Agents : tool'[b] = IF b = a THEN x ELSE tool[b]
  BY <1>0 DEF MemoryTypeOK, StepTool
<1>3. memory'[s] = entry /\ known'[s] = facts
      /\ \A o \in Scopings \ {s} : memory'[o] = memory[o] /\ known'[o] = known[o]
  BY <1>0 DEF MemoryTypeOK
<1>4. ASSUME NEW b \in Agents PROVE CallIsSound(tool'[b], memory')
  <2>1. CASE b = a
    BY <1>2, <2>1
  <2>2. CASE b # a
    <3>1. CallIsSound(tool[b], memory) /\ tool'[b] = tool[b] /\ tool[b].scopes \subseteq Scopings
      BY <1>0, <1>2, <2>2, ToolFields DEF ToolsAreSound, MemoryTypeOK
    <3>. QED
      BY <1>3, <3>1 DEF CallIsSound
  <2>. QED
    BY <2>1, <2>2
<1>5. FactsAreKept'
  <2>1. CASE overwrote'
    BY <2>1 DEF FactsAreKept
  <2>2. CASE overwrote' = FALSE
    BY <1>0, <1>3, <2>2 DEF FactsAreKept, SavedIsKnown
  <2>. QED
    BY <2>1, <2>2
<1>. QED
  BY <1>1, <1>4, <1>5 DEF MemoryInv, ToolsAreSound

(* What remember and forget start with. *)
LEMMA CallMemoryKeeps ==
  ASSUME MemoryInv, NEW a \in Agents, NEW fact \in Facts,
         \/ \E s \in Scopings : Remember(a, fact, s)
         \/ \E scopes \in SUBSET Scopings : Forget(a, fact, scopes)
  PROVE  MemoryInv'
<1>0. MemoryTypeOK
  BY DEF MemoryInv
<1>1. ASSUME NEW s \in Scopings, Remember(a, fact, s) PROVE MemoryInv'
  <2>. DEFINE x == [NoTool EXCEPT !.pc = "create", !.fact = fact, !.scopes = {s}, !.tries = 1]
  <2>1. x \in ToolShape
    BY NoToolIs DEF ToolShape
  <2>2. x.pc = "create" /\ x.fact = fact /\ x.scopes = {s} /\ x.tries = 1 /\ x.gone = 0 /\ x.reply = "none"
    BY NoToolIs DEF ToolShape
  <2>3. CallIsSound(x, memory)
    BY <2>2 DEF CallIsSound, Tries
  <2>4. StepTool(a, x) /\ MemorySame
    BY <1>1 DEF Remember
  <2>. QED
    BY <2>1, <2>3, <2>4, ToolMoves
<1>2. ASSUME NEW scopes \in SUBSET Scopings, Forget(a, fact, scopes) PROVE MemoryInv'
  <2>. DEFINE found == {s \in scopes : memory[s] # NoMemory}
              seen == [s \in Scopings |-> IF s \in found THEN memory[s] ELSE NoMemory]
              none == [NoTool EXCEPT !.pc = "replied", !.reply = "nothing"]
              some == [NoTool EXCEPT !.pc = "forget", !.fact = fact, !.scopes = found, !.read = seen]
  <2>1. seen \in [Scopings -> Entries] /\ found \subseteq Scopings
    BY <1>0, NothingIsAnEntry DEF MemoryTypeOK
  <2>2. MemorySame /\ (StepTool(a, none) \/ StepTool(a, some))
    BY <1>2 DEF Forget
  <2>. HIDE DEF seen, found
  <2>3. none \in ToolShape /\ some \in ToolShape
    BY <2>1, NoToolIs DEF ToolShape
  <2>4. /\ none.pc = "replied" /\ none.reply = "nothing"
        /\ some.pc = "forget" /\ some.fact = fact /\ some.reply = "none"
    BY NoToolIs DEF ToolShape
  <2>5. CallIsSound(none, memory) /\ CallIsSound(some, memory)
    BY <2>4 DEF CallIsSound
  <2>. HIDE DEF none, some
  <2>. QED
    BY <2>2, <2>3, <2>5, ToolMoves
<1>. QED
  BY <1>1, <1>2

(* The conditional create of remember keeps the invariant. *)
LEMMA CreateMemoryKeeps ==
  ASSUME MemoryInv, NEW a \in Agents, CreateMemory(a)
  PROVE  MemoryInv'
<1>0. MemoryTypeOK /\ tool[a] \in ToolShape /\ CallIsSound(tool[a], memory)
  BY DEF MemoryInv, MemoryTypeOK, ToolsAreSound
<1>1. PICK s \in tool[a].scopes :
        /\ tool[a].pc = "create"
        /\ IF memory[s] # NoMemory
           THEN MemorySame /\ StepTool(a, [tool[a] EXCEPT !.pc = "find"])
           ELSE /\ created < MaxMemories
                /\ created' = created + 1
                /\ memory' = [memory EXCEPT ![s] = [id |-> created + 1,
                                                    lines |-> [NoLines EXCEPT ![tool[a].fact] = 1]]]
                /\ known' = [known EXCEPT ![s] = known[s] \cup {tool[a].fact}]
                /\ StepTool(a, Replied(a, "remembered"))
                /\ UNCHANGED <<updated, overwrote>>
  BY DEF CreateMemory
<1>2. s \in Scopings /\ tool[a].fact \in Facts /\ Tries(tool[a]) /\ tool[a].scopes = tool[a].scopes
  BY <1>0, <1>1, ToolFields DEF CallIsSound
<1>3. CASE memory[s] # NoMemory
  <2>. DEFINE x == [tool[a] EXCEPT !.pc = "find"]
  <2>1. x \in ToolShape
    BY <1>0 DEF ToolShape
  <2>2. x.pc = "find" /\ x.fact = tool[a].fact /\ x.scopes = tool[a].scopes /\ x.tries = tool[a].tries
        /\ x.gone = tool[a].gone /\ x.reply = tool[a].reply
    BY <1>0 DEF ToolShape
  <2>3. tool[a].scopes = {s}
    BY <1>0, <1>1 DEF CallIsSound
  <2>. HIDE DEF x
  <2>4. CallIsSound(x, memory)
    BY <1>0, <1>2, <1>3, <2>2, <2>3 DEF CallIsSound, Tries
  <2>. QED
    BY <1>1, <1>3, <2>1, <2>4, ToolMoves DEF x
<1>4. CASE memory[s] = NoMemory
  <2>. DEFINE lines == [NoLines EXCEPT ![tool[a].fact] = 1]
              entry == [id |-> created + 1, lines |-> lines]
              facts == known[s] \cup {tool[a].fact}
  <2>1. created \in Nat /\ created + 1 \in Nat /\ created + 1 # 0
    BY <1>0 DEF MemoryTypeOK
  <2>2. lines \in [Facts -> {0, 1}] /\ \A f \in Facts : lines[f] = IF f = tool[a].fact THEN 1 ELSE 0
    BY <1>2 DEF NoLines
  <2>. HIDE DEF lines
  <2>3. entry \in Entries /\ entry.id = created + 1 /\ entry.lines = lines
    BY <2>1, <2>2 DEF Entries
  <2>4. entry # NoMemory
    BY <2>1, <2>3, NothingIsAnEntry
  <2>5. facts \in SUBSET Facts
    BY <1>0, <1>2 DEF MemoryTypeOK
  <2>6. overwrote = FALSE => known[s] = {}
    BY <1>2, <1>4 DEF MemoryInv, FactsAreKept, NoMemory, NoLines
  <2>7. overwrote = FALSE => SavedIsKnown(entry, facts)
    BY <1>2, <2>2, <2>3, <2>6 DEF SavedIsKnown
  <2>8. Replied(a, "remembered") \in ToolShape /\ \A m : CallIsSound(Replied(a, "remembered"), m)
    BY <1>0, RepliedIs
  <2>9. /\ StepTool(a, Replied(a, "remembered")) /\ memory' = [memory EXCEPT ![s] = entry]
        /\ known' = [known EXCEPT ![s] = facts] /\ created' = created + 1
        /\ updated' = updated /\ overwrote' = overwrote
    BY <1>1, <1>4 DEF lines
  <2>10. overwrote' \in BOOLEAN /\ created' \in Nat /\ updated' \in Nat
    BY <1>0, <2>1, <2>9 DEF MemoryTypeOK
  <2>. HIDE DEF entry, facts
  <2>. QED
    BY <1>2, <2>3, <2>4, <2>5, <2>7, <2>8, <2>9, <2>10, MemoryMoves
<1>. QED
  BY <1>3, <1>4

(* The read of remember keeps the invariant. *)
LEMMA FindMemoryKeeps ==
  ASSUME MemoryInv, NEW a \in Agents, FindMemory(a)
  PROVE  MemoryInv'
<1>0. MemoryTypeOK /\ tool[a] \in ToolShape /\ CallIsSound(tool[a], memory)
  BY DEF MemoryInv, MemoryTypeOK, ToolsAreSound
<1>1. PICK s \in tool[a].scopes :
        /\ tool[a].pc = "find" /\ MemorySame
        /\ StepTool(a,
             IF memory[s] # NoMemory
             THEN [tool[a] EXCEPT !.pc = "append", !.read = [NoTool.read EXCEPT ![s] = memory[s]]]
             ELSE IF tool[a].tries = PutAttempts THEN Replied(a, "aborted")
             ELSE [tool[a] EXCEPT !.pc = "create", !.tries = tool[a].tries + 1])
  BY DEF FindMemory
<1>2. s \in Scopings /\ tool[a].fact \in Facts /\ Tries(tool[a]) /\ tool[a].tries \in Nat /\ tool[a].gone \in Nat
      /\ tool[a].scopes = {s} /\ memory[s] \in Entries
  BY <1>0, <1>1, ToolFields DEF CallIsSound, MemoryTypeOK
<1>3. CASE memory[s] # NoMemory
  <2>. DEFINE seen == [NoTool.read EXCEPT ![s] = memory[s]]
              x == [tool[a] EXCEPT !.pc = "append", !.read = seen]
  <2>1. seen \in [Scopings -> Entries]
    BY <1>2, NoToolIs
  <2>. HIDE DEF seen
  <2>2. x \in ToolShape
    BY <1>0, <2>1 DEF ToolShape
  <2>3. x.pc = "append" /\ x.fact = tool[a].fact /\ x.reply = tool[a].reply /\ x.gone = tool[a].gone
    BY <1>0 DEF ToolShape
  <2>. HIDE DEF x
  <2>4. CallIsSound(x, memory)
    BY <1>0, <1>2, <2>3 DEF CallIsSound
  <2>. QED
    BY <1>1, <1>3, <2>2, <2>4, ToolMoves DEF x, seen
<1>4. CASE memory[s] = NoMemory /\ tool[a].tries = PutAttempts
  <2>1. tool[a].gone >= 2
    BY <1>0, <1>1, <1>2, <1>4 DEF CallIsSound, PutAttempts
  <2>2. Replied(a, "aborted") \in ToolShape /\ CallIsSound(Replied(a, "aborted"), memory)
    BY <1>0, <2>1, RepliedIs
  <2>. QED
    BY <1>1, <1>4, <2>2, ToolMoves
<1>5. CASE memory[s] = NoMemory /\ tool[a].tries # PutAttempts
  <2>. DEFINE x == [tool[a] EXCEPT !.pc = "create", !.tries = tool[a].tries + 1]
  <2>1. tool[a].tries + 1 = 2 /\ tool[a].gone >= 1
    BY <1>0, <1>1, <1>2, <1>5 DEF CallIsSound, PutAttempts, Tries
  <2>0. tool[a].tries + 1 \in Nat
    BY <1>2
  <2>2. x \in ToolShape
    BY <1>0, <2>0 DEF ToolShape
  <2>3. x.pc = "create" /\ x.fact = tool[a].fact /\ x.scopes = tool[a].scopes /\ x.tries = 2
        /\ x.gone = tool[a].gone /\ x.reply = tool[a].reply
    BY <1>0, <2>1 DEF ToolShape
  <2>. HIDE DEF x
  <2>4. CallIsSound(x, memory)
    BY <1>0, <1>2, <2>1, <2>3 DEF CallIsSound, Tries
  <2>. QED
    BY <1>1, <1>5, <2>2, <2>4, ToolMoves DEF x
<1>. QED
  BY <1>3, <1>4, <1>5

(* The write of remember, of what it read before, keeps the invariant. *)
LEMMA AppendKeeps ==
  ASSUME MemoryInv, NEW a \in Agents, AppendFact(a)
  PROVE  MemoryInv'
<1>0. MemoryTypeOK /\ tool[a] \in ToolShape /\ CallIsSound(tool[a], memory)
  BY DEF MemoryInv, MemoryTypeOK, ToolsAreSound
<1>1. PICK s \in tool[a].scopes :
        LET old   == tool[a].read[s]
            lines == Appending(old.lines, tool[a].fact)
        IN  /\ tool[a].pc = "append"
            /\ IF lines = old.lines
               THEN MemorySame /\ StepTool(a, Replied(a, "known"))
               ELSE IF memory[s].id # old.id
               THEN MemorySame /\ StepTool(a, Replied(a, "error"))
               ELSE /\ Overwrite(s, old, lines)
                    /\ known' = [known EXCEPT ![s] = known[s] \cup {tool[a].fact}]
                    /\ StepTool(a, Replied(a, "remembered"))
  BY DEF AppendFact
<1>. DEFINE old   == tool[a].read[s]
            lines == Appending(old.lines, tool[a].fact)
            entry == [id |-> old.id, lines |-> lines]
            facts == known[s] \cup {tool[a].fact}
<1>2. s \in Scopings /\ tool[a].fact \in Facts /\ old \in Entries
  BY <1>0, <1>1, ToolFields DEF CallIsSound
<1>3. old.id \in Nat /\ old.lines \in [Facts -> {0, 1}]
  BY <1>2, EntriesAre
<1>4. /\ lines \in [Facts -> {0, 1}] /\ lines[tool[a].fact] = 1
      /\ \A f \in Facts \ {tool[a].fact} : lines[f] = old.lines[f]
  BY <1>2, <1>3 DEF Appending
<1>5. \A reply \in {"known", "error", "remembered"} :
        Replied(a, reply) \in ToolShape /\ \A m : CallIsSound(Replied(a, reply), m)
  BY <1>0, RepliedIs
<1>6. \/ MemorySame /\ StepTool(a, Replied(a, "known"))
      \/ MemorySame /\ StepTool(a, Replied(a, "error"))
      \/ /\ Overwrite(s, old, lines) /\ known' = [known EXCEPT ![s] = facts]
         /\ StepTool(a, Replied(a, "remembered"))
  BY <1>1
<1>. HIDE DEF old, lines
<1>7. CASE /\ Overwrite(s, old, lines) /\ known' = [known EXCEPT ![s] = facts]
           /\ StepTool(a, Replied(a, "remembered"))
  <2>1. entry \in Entries /\ entry.lines = lines
    BY <1>3, <1>4 DEF Entries
  <2>2. NoMemory.lines[tool[a].fact] = 0
    BY <1>2 DEF NoMemory, NoLines
  <2>3. entry # NoMemory
    BY <1>4, <2>1, <2>2
  <2>4. facts \in SUBSET Facts
    BY <1>0, <1>2 DEF MemoryTypeOK
  <2>5. /\ memory' = [memory EXCEPT ![s] = entry] /\ overwrote' = (overwrote \/ memory[s] # old)
        /\ updated' = updated + 1 /\ created' = created
    BY <1>7 DEF Overwrite
  <2>6. overwrote' \in BOOLEAN /\ created' \in Nat /\ updated' \in Nat
    BY <1>0, <2>5 DEF MemoryTypeOK
  <2>7. overwrote' = FALSE => overwrote = FALSE /\ memory[s] = old
    BY <1>0, <2>5 DEF MemoryTypeOK
  <2>8. overwrote' = FALSE => SavedIsKnown(entry, facts)
    <3>. SUFFICES ASSUME overwrote' = FALSE PROVE SavedIsKnown(entry, facts)
      OBVIOUS
    <3>1. {f \in Facts : old.lines[f] > 0} = known[s]
      BY <1>2, <2>7 DEF MemoryInv, FactsAreKept
    <3>. QED
      BY <1>2, <1>3, <1>4, <2>1, <3>1 DEF SavedIsKnown
  <2>. HIDE DEF entry, facts
  <2>. QED
    BY <1>2, <1>5, <1>7, <2>1, <2>3, <2>4, <2>5, <2>6, <2>7, <2>8, MemoryMoves DEF facts
<1>. QED
  BY <1>5, <1>6, <1>7, ToolMoves

(* The memory of s is gone, and whoever counts on it has seen that. *)
LEMMA DeletedKeeps ==
  ASSUME MemoryInv, NEW a \in Agents, NEW s \in Scopings, NEW facts \in SUBSET Facts,
         NEW x \in ToolShape, \A m : CallIsSound(x, m), Deleted(a, s, x),
         known' = [known EXCEPT ![s] = facts],
         overwrote' \in BOOLEAN, UNCHANGED <<created, updated>>,
         overwrote' = FALSE => overwrote = FALSE /\ SavedIsKnown(NoMemory, facts)
  PROVE  MemoryInv'
<1>0. MemoryTypeOK /\ ToolsAreSound /\ FactsAreKept
  BY DEF MemoryInv
<1>1. memory'[s] = NoMemory /\ known'[s] = facts
      /\ \A o \in Scopings \ {s} : memory'[o] = memory[o] /\ known'[o] = known[o]
  BY <1>0 DEF MemoryTypeOK, Deleted
<1>2. ASSUME NEW b \in Agents PROVE tool'[b] \in ToolShape /\ CallIsSound(tool'[b], memory')
  <2>1. CASE b = a
    BY <2>1 DEF Deleted
  <2>2. CASE /\ b # a /\ tool[b].pc \in {"create", "find"} /\ s \in tool[b].scopes /\ tool[b].gone < 2
    <3>. DEFINE y == [tool[b] EXCEPT !.gone = tool[b].gone + 1]
    <3>1. tool[b] \in ToolShape /\ CallIsSound(tool[b], memory) /\ tool'[b] = y
      BY <1>0, <2>2 DEF MemoryTypeOK, ToolsAreSound, Deleted
    <3>2. tool[b].gone \in Nat /\ tool[b].tries \in Nat /\ tool[b].scopes \subseteq Scopings
      BY <3>1, ToolFields
    <3>3. tool[b].gone + 1 \in Nat
      BY <3>2
    <3>4. y \in ToolShape
      BY <3>1, <3>3 DEF ToolShape
    <3>5. y.pc = tool[b].pc /\ y.fact = tool[b].fact /\ y.scopes = tool[b].scopes /\ y.tries = tool[b].tries
          /\ y.reply = tool[b].reply /\ y.gone = tool[b].gone + 1
      BY <3>1 DEF ToolShape
    <3>. HIDE DEF y
    <3>6. CallIsSound(y, memory')
      BY <1>1, <2>2, <3>1, <3>2, <3>5 DEF CallIsSound, Tries
    <3>. QED
      BY <3>1, <3>4, <3>6
  <2>3. CASE b # a /\ ~(tool[b].pc \in {"create", "find"} /\ s \in tool[b].scopes /\ tool[b].gone < 2)
    <3>1. tool[b] \in ToolShape /\ CallIsSound(tool[b], memory) /\ tool'[b] = tool[b]
      BY <1>0, <2>3 DEF MemoryTypeOK, ToolsAreSound, Deleted
    <3>2. tool[b].gone \in Nat /\ tool[b].tries \in Nat /\ tool[b].scopes \subseteq Scopings
      BY <3>1, ToolFields
    <3>3. CallIsSound(tool[b], memory')
      BY <1>1, <2>3, <3>1, <3>2 DEF CallIsSound, Tries
    <3>. QED
      BY <3>1, <3>3
  <2>. QED
    BY <2>1, <2>2, <2>3
<1>3. tool' \in [Agents -> ToolShape]
  BY <1>2 DEF Deleted
<1>4. MemoryTypeOK'
  BY <1>0, <1>3, NothingIsAnEntry DEF MemoryTypeOK, Deleted
<1>5. FactsAreKept'
  <2>1. CASE overwrote'
    BY <2>1 DEF FactsAreKept
  <2>2. CASE overwrote' = FALSE
    BY <1>0, <1>1, <2>2 DEF FactsAreKept, SavedIsKnown
  <2>. QED
    BY <2>1, <2>2
<1>. QED
  BY <1>2, <1>4, <1>5 DEF MemoryInv, ToolsAreSound

(* The write of forget, of what it read before, keeps the invariant. *)
LEMMA ForgetKeeps ==
  ASSUME MemoryInv, NEW a \in Agents, ForgetFact(a)
  PROVE  MemoryInv'
<1>0. MemoryTypeOK /\ tool[a] \in ToolShape /\ CallIsSound(tool[a], memory)
  BY DEF MemoryInv, MemoryTypeOK, ToolsAreSound
<1>1. PICK s \in tool[a].scopes :
        LET call == tool[a]
            old  == call.read[s]
            kept == [old.lines EXCEPT ![call.fact] = 0]
            next == [call EXCEPT !.scopes = call.scopes \ {s}, !.read = [call.read EXCEPT ![s] = NoMemory],
                                 !.removed = TRUE]
        IN  /\ call.pc = "forget"
            /\ IF kept = old.lines
               THEN MemorySame /\ StepTool(a, [next EXCEPT !.removed = call.removed])
               ELSE IF memory[s].id # old.id
               THEN MemorySame /\ StepTool(a, Replied(a, "error"))
               ELSE /\ known' = [known EXCEPT ![s] = known[s] \ {call.fact}]
                    /\ IF kept # NoLines
                       THEN Overwrite(s, old, kept) /\ StepTool(a, next)
                       ELSE /\ overwrote' = (overwrote \/ memory[s] # old)
                            /\ UNCHANGED <<created, updated>>
                            /\ Deleted(a, s, next)
  BY DEF ForgetFact
<1>. DEFINE call  == tool[a]
            old   == call.read[s]
            kept  == [old.lines EXCEPT ![call.fact] = 0]
            left  == call.scopes \ {s}
            rest  == [call.read EXCEPT ![s] = NoMemory]
            next  == [call EXCEPT !.scopes = left, !.read = rest, !.removed = TRUE]
            same  == [next EXCEPT !.removed = call.removed]
            entry == [id |-> old.id, lines |-> kept]
            facts == known[s] \ {call.fact}
<1>2. /\ s \in Scopings /\ call.fact \in Facts /\ old \in Entries /\ call.pc = "forget"
      /\ call.scopes \subseteq Scopings /\ call.read \in [Scopings -> Entries] /\ call.removed \in BOOLEAN
  BY <1>0, <1>1, ToolFields DEF CallIsSound
<1>3. old.id \in Nat /\ old.lines \in [Facts -> {0, 1}]
  BY <1>2, EntriesAre
<1>4. /\ kept \in [Facts -> {0, 1}] /\ kept[call.fact] = 0
      /\ \A f \in Facts \ {call.fact} : kept[f] = old.lines[f]
  BY <1>2, <1>3
<1>5. rest \in [Scopings -> Entries] /\ left \subseteq Scopings
  BY <1>2, NothingIsAnEntry
<1>6. \/ MemorySame /\ StepTool(a, same)
      \/ MemorySame /\ StepTool(a, Replied(a, "error"))
      \/ /\ known' = [known EXCEPT ![s] = facts] /\ kept # NoLines
         /\ Overwrite(s, old, kept) /\ StepTool(a, next)
      \/ /\ known' = [known EXCEPT ![s] = facts] /\ kept = NoLines
         /\ overwrote' = (overwrote \/ memory[s] # old) /\ UNCHANGED <<created, updated>>
         /\ Deleted(a, s, next)
  BY <1>1
<1>. HIDE DEF old, kept, left, rest
<1>7. next \in ToolShape
  BY <1>0, <1>5 DEF ToolShape
<1>8. next.pc = "forget" /\ next.fact = call.fact /\ next.reply = call.reply /\ next.gone = call.gone
  BY <1>0, <1>2 DEF ToolShape
<1>. HIDE DEF next
<1>9. same \in ToolShape
  BY <1>2, <1>7 DEF ToolShape
<1>10. same.pc = "forget" /\ same.fact = call.fact /\ same.reply = call.reply /\ same.gone = call.gone
  BY <1>7, <1>8 DEF ToolShape
<1>. HIDE DEF same
<1>11. \A m : CallIsSound(next, m) /\ CallIsSound(same, m)
  BY <1>0, <1>2, <1>8, <1>10 DEF CallIsSound
<1>12. Replied(a, "error") \in ToolShape /\ \A m : CallIsSound(Replied(a, "error"), m)
  BY <1>0, RepliedIs
<1>13. facts \in SUBSET Facts
  BY <1>0, <1>2 DEF MemoryTypeOK
<1>14. ASSUME overwrote' = (overwrote \/ memory[s] # old)
       PROVE  /\ overwrote' \in BOOLEAN
              /\ overwrote' = FALSE => overwrote = FALSE /\ {f \in Facts : kept[f] > 0} = facts
  <2>1. overwrote' \in BOOLEAN /\ (overwrote' = FALSE => overwrote = FALSE /\ memory[s] = old)
    BY <1>0, <1>14 DEF MemoryTypeOK
  <2>2. ASSUME overwrote' = FALSE PROVE {f \in Facts : kept[f] > 0} = facts
    <3>1. {f \in Facts : old.lines[f] > 0} = known[s]
      BY <1>2, <2>1, <2>2 DEF MemoryInv, FactsAreKept
    <3>. QED
      BY <1>2, <1>3, <1>4, <3>1
  <2>. QED
    BY <2>1, <2>2
<1>15. CASE /\ known' = [known EXCEPT ![s] = facts] /\ kept # NoLines
            /\ Overwrite(s, old, kept) /\ StepTool(a, next)
  <2>1. entry \in Entries /\ entry.lines = kept
    BY <1>3, <1>4 DEF Entries
  <2>2. entry # NoMemory
    BY <1>15, <2>1 DEF NoMemory
  <2>3. /\ memory' = [memory EXCEPT ![s] = entry] /\ overwrote' = (overwrote \/ memory[s] # old)
        /\ updated' = updated + 1 /\ created' = created
    BY <1>15 DEF Overwrite
  <2>4. created' \in Nat /\ updated' \in Nat
    BY <1>0, <2>3 DEF MemoryTypeOK
  <2>5. overwrote' = FALSE => overwrote = FALSE /\ SavedIsKnown(entry, facts)
    BY <1>14, <2>1, <2>3 DEF SavedIsKnown
  <2>6. overwrote' \in BOOLEAN
    BY <1>14, <2>3
  <2>. HIDE DEF entry, facts
  <2>. QED
    BY <1>2, <1>7, <1>11, <1>13, <1>15, <2>1, <2>2, <2>3, <2>4, <2>5, <2>6, MemoryMoves
<1>16. CASE /\ known' = [known EXCEPT ![s] = facts] /\ kept = NoLines
            /\ overwrote' = (overwrote \/ memory[s] # old) /\ UNCHANGED <<created, updated>>
            /\ Deleted(a, s, next)
  <2>1. NoMemory.lines = kept
    BY <1>16 DEF NoMemory
  <2>2. overwrote' = FALSE => overwrote = FALSE /\ SavedIsKnown(NoMemory, facts)
    BY <1>14, <1>16, <2>1 DEF SavedIsKnown
  <2>3. overwrote' \in BOOLEAN
    BY <1>14, <1>16
  <2>. HIDE DEF facts
  <2>. QED
    BY <1>2, <1>7, <1>11, <1>13, <1>16, <2>2, <2>3, DeletedKeeps
<1>. QED
  BY <1>6, <1>9, <1>11, <1>12, <1>15, <1>16, ToolMoves

(* A reply keeps the invariant. *)
LEMMA EndMemoryKeeps ==
  ASSUME MemoryInv, NEW a \in Agents, ForgetReply(a) \/ EndTool(a)
  PROVE  MemoryInv'
<1>0. MemoryTypeOK /\ CallIsSound(tool[a], memory)
  BY DEF MemoryInv, ToolsAreSound
<1>1. CASE ForgetReply(a)
  <2>1. PICK reply \in {"forgot", "nothing"} : StepTool(a, Replied(a, reply))
    BY <1>1 DEF ForgetReply
  <2>2. Replied(a, reply) \in ToolShape /\ CallIsSound(Replied(a, reply), memory)
    BY <1>0, RepliedIs
  <2>. QED
    BY <1>1, <2>1, <2>2, ToolMoves DEF ForgetReply
<1>2. CASE EndTool(a)
  <2>1. CallIsSound(NoTool, memory)
    BY NoToolIs DEF CallIsSound
  <2>. QED
    BY <1>2, <2>1, NoToolIs, ToolMoves DEF EndTool
<1>. QED
  BY <1>1, <1>2

(* The invariant of the memory tools holds of any agents, facts and sessions, though every *)
(* write is of what was read a call before.                                                *)
THEOREM MemoryInvariant == MemorySpec => []MemoryInv
<1>1. MemoryInit => MemoryInv
  BY MemoryInvInit
<1>2. MemoryInv /\ [MemoryNext]_memoryVars => MemoryInv'
  <2>. SUFFICES ASSUME MemoryInv, [MemoryNext]_memoryVars PROVE MemoryInv'
    OBVIOUS
  <2>1. CASE UNCHANGED memoryVars
    BY <2>1 DEF memoryVars, MemoryInv, MemoryTypeOK, ToolsAreSound, FactsAreKept
  <2>2. CASE MemoryNext
    <3>1. PICK a \in Agents :
            \/ \E fact \in Facts, s \in Scopings : Remember(a, fact, s)
            \/ \E fact \in Facts, scopes \in {Scopings} \cup {{s} : s \in Scopings} : Forget(a, fact, scopes)
            \/ CreateMemory(a) \/ FindMemory(a) \/ AppendFact(a)
            \/ ForgetFact(a) \/ ForgetReply(a) \/ EndTool(a)
      BY <2>2 DEF MemoryNext
    <3>2. {Scopings} \cup {{s} : s \in Scopings} \subseteq SUBSET Scopings
      OBVIOUS
    <3>. QED
      BY <3>1, <3>2, CallMemoryKeeps, CreateMemoryKeeps, FindMemoryKeeps, AppendKeeps, ForgetKeeps, EndMemoryKeeps
  <2>. QED
    BY <2>1, <2>2
<1>. QED
  BY <1>1, <1>2, PTL DEF MemorySpec

(* A memory holds a fact at most once, memories hold what was remembered and not forgotten *)
(* until an update replaces what it had not read, and remember gives up only after two     *)
(* deletions by others (memory.py:216).                                                    *)
THEOREM MemoriesAreSound == MemorySpec => []MemoryIsSound
<1>1. MemoryInv => MemoryIsSound
  <2>. SUFFICES ASSUME MemoryInv PROVE MemoryIsSound
    OBVIOUS
  <2>1. FactsAppearOnce
    <3>. SUFFICES ASSUME NEW s \in Scopings, NEW f \in Facts PROVE memory[s].lines[f] <= 1
      BY DEF FactsAppearOnce
    <3>1. memory[s].lines \in [Facts -> {0, 1}]
      BY EntriesAre DEF MemoryInv, MemoryTypeOK
    <3>. QED
      BY <3>1
  <2>. QED
    BY <2>1 DEF MemoryInv, ToolsAreSound, CallIsSound, MemoryIsSound, AbortedByOthers
<1>. QED
  BY <1>1, MemoryInvariant, PTL
-----------------------------------------------------------------------------
(***************************************************************************)
(* LakebaseEngines.  A token is as old as the time it has been cached and   *)
(* the mint took; an engine is its user's own or was cached under the       *)
(* schema the user wants; and an idle connection has the search path of a   *)
(* login or of a committed transaction of that engine.                      *)
(***************************************************************************)
EngineKinds == {"engine", "pool"}
UserSteps == {"idle", "make", "register", "ready", "token", "mint", "minted", "login", "run"}
Schemas == {Public} \cup {w.schema : w \in Wants}
Ages == 0..TokenLife

EngineShape == [made : BOOLEAN, kind : EngineKinds, schema : Schemas, token : Ages,
                stamp : 0..CacheFor, locked : BOOLEAN, idle : SUBSET Schemas]
UserShape == [pc : UserSteps, want : Wants, engine : {0} \cup Engines, todo : SUBSET {"schema", "tables"},
              token : Ages, waited : 0..MaxDelay, base : Schemas, path : Schemas]

LakebaseTypeOK ==
  /\ engine \in [Engines -> EngineShape]
  /\ user \in [Users -> UserShape]

(* How old a token can be where it is. *)
YoungIn(e) == Fresh(e) => e.token <= e.stamp + MaxDelay
YoungAt(r) == /\ r.pc = "minted" => r.token <= r.waited
              /\ r.pc = "login" => r.token < TokenLife - MaxDelay + r.waited

(* The search paths a connection can have. *)
PathsIn(e) == e.idle \subseteq {Public, e.schema}
PathsAt(r) == r.pc = "run" => r.path = r.want.schema /\ r.base \in {Public, r.want.schema}

LentWell ==
  /\ \A e \in Engines : YoungIn(engine[e]) /\ PathsIn(engine[e])
  /\ \A u \in Users : YoungAt(user[u]) /\ PathsAt(user[u])

Has(u) == user[u].pc \notin {"idle", "make"}

(* Whose engine it is. *)
EnginesAreTheirs ==
  /\ \A u \in Users :
       Has(u) => /\ user[u].pc = "register" => user[u].want.cached
                 /\ user[u].engine \in Made
                 /\ EngineOf(u).kind = user[u].want.kind
                 /\ EngineOf(u).schema = user[u].want.schema
  /\ \A u, v \in Users :
       Has(u) /\ Has(v) /\ u # v /\ EngineOf(u).kind = "pool" => user[u].engine # user[v].engine
  /\ \A c \in cache : /\ c.engine \in Made /\ engine[c.engine].kind = "engine"
                      /\ engine[c.engine].schema = c.key[2]

(* What a user has set up so far is there. *)
SetUpIsKept ==
  /\ Public \in schemas
  /\ \A u \in Users : user[u].pc # "idle" /\ user[u].want.setup =>
       /\ "schema" \notin user[u].todo => user[u].want.schema \in schemas
       /\ "tables" \notin user[u].todo /\ user[u].want.kind = "pool" => user[u].want.schema \in tables

LakebaseInv == LakebaseTypeOK /\ LentWell /\ EnginesAreTheirs /\ SetUpIsKept

-----------------------------------------------------------------------------
(* The bounds, as the proofs use them. *)
LEMMA BoundsAre ==
  /\ TokenLife \in Nat /\ CacheFor \in Nat /\ MaxDelay \in Nat /\ MaxEngines \in Nat
  /\ CacheFor + 2 * MaxDelay <= TokenLife /\ 2 * MaxDelay < TokenLife
  /\ NoToken \in Ages /\ 0 \in Ages /\ 0 \in 0..MaxDelay /\ 0 \in 0..CacheFor /\ CacheFor \in 0..CacheFor
  /\ Public \in Schemas /\ \A w \in Wants : w.schema \in Schemas
  BY LakebaseAssumption DEF NoToken, Ages, Schemas

(* An engine that is not made and a user who holds nothing are of their shape. *)
LEMMA Blanks == NoEngine \in EngineShape /\ Away \in UserShape
<1>1. NoWant \in Wants
  BY LakebaseAssumption DEF NoWant
<1>2. NoEngine \in EngineShape
  BY BoundsAre DEF NoEngine, EngineShape, EngineKinds
<1>3. Away \in UserShape
  BY <1>1, BoundsAre DEF Away, UserShape, UserSteps
<1>. QED
  BY <1>2, <1>3

(* There are no engines and no connections at first. *)
LEMMA LakebaseInvInit == LakebaseInit => LakebaseInv
<1>. SUFFICES ASSUME LakebaseInit PROVE LakebaseInv
  OBVIOUS
<1>1. LakebaseTypeOK
  BY Blanks DEF LakebaseInit, LakebaseTypeOK
<1>2. \A u \in Users : user[u].pc = "idle"
  BY DEF LakebaseInit, Away
<1>3. \A e \in Engines : engine[e].idle = {} /\ engine[e].stamp = CacheFor
  BY DEF LakebaseInit, NoEngine
<1>4. cache = {} /\ Public \in schemas
  BY DEF LakebaseInit
<1>5. LentWell
  BY <1>2, <1>3, BoundsAre DEF LentWell, YoungIn, YoungAt, PathsIn, PathsAt, Fresh
<1>. QED
  BY <1>1, <1>2, <1>3, <1>4, <1>5 DEF LakebaseInv, EnginesAreTheirs, SetUpIsKept, Has

-----------------------------------------------------------------------------
(* What each step does to its user and its engine *)

(* The fields of a user, of an engine. *)
LEMMA Fields ==
  ASSUME LakebaseTypeOK
  PROVE  /\ \A u \in Users :
              /\ user[u] \in UserShape
              /\ user[u].pc \in UserSteps /\ user[u].want \in Wants /\ user[u].engine \in {0} \cup Engines
              /\ user[u].todo \subseteq {"schema", "tables"} /\ user[u].token \in Ages
              /\ user[u].waited \in 0..MaxDelay /\ user[u].base \in Schemas /\ user[u].path \in Schemas
         /\ \A e \in Engines :
              /\ engine[e] \in EngineShape
              /\ engine[e].made \in BOOLEAN /\ engine[e].kind \in EngineKinds /\ engine[e].schema \in Schemas
              /\ engine[e].token \in Ages /\ engine[e].stamp \in 0..CacheFor /\ engine[e].locked \in BOOLEAN
              /\ engine[e].idle \subseteq Schemas
<1>1. ASSUME NEW u \in Users
      PROVE  /\ user[u] \in UserShape
             /\ user[u].pc \in UserSteps /\ user[u].want \in Wants /\ user[u].engine \in {0} \cup Engines
             /\ user[u].todo \subseteq {"schema", "tables"} /\ user[u].token \in Ages
             /\ user[u].waited \in 0..MaxDelay /\ user[u].base \in Schemas /\ user[u].path \in Schemas
  BY DEF LakebaseTypeOK, UserShape
<1>2. ASSUME NEW e \in Engines
      PROVE  /\ engine[e] \in EngineShape
             /\ engine[e].made \in BOOLEAN /\ engine[e].kind \in EngineKinds /\ engine[e].schema \in Schemas
             /\ engine[e].token \in Ages /\ engine[e].stamp \in 0..CacheFor /\ engine[e].locked \in BOOLEAN
             /\ engine[e].idle \subseteq Schemas
  BY DEF LakebaseTypeOK, EngineShape
<1>. QED
  BY <1>1, <1>2

(* A user with an engine: it is one of Engines. *)
LEMMA HasEngine ==
  ASSUME LakebaseTypeOK, EnginesAreTheirs, NEW u \in Users, Has(u)
  PROVE  /\ user[u].engine \in Engines /\ EngineOf(u).made /\ EngineOf(u).schema = user[u].want.schema
         /\ EngineOf(u).kind = user[u].want.kind
  BY DEF EnginesAreTheirs, Made, EngineOf

(* A step in which u uses its engine: who has which stays, and what the engine lends is sound. *)
Uses(u) ==
  LET k == user[u].engine
      r == user'[u]
      f == engine'[k]
  IN  /\ user' \in [Users -> UserShape] /\ engine' \in [Engines -> EngineShape]
      /\ \A v \in Users \ {u} : user'[v] = user[v]
      /\ \A g \in Engines \ {k} : engine'[g] = engine[g]
      /\ r.want = user[u].want /\ r.engine = k /\ r.pc \notin {"idle", "make", "register"}
      /\ r.todo = user[u].todo \/ user[u].pc = "run"
      /\ f.made = engine[k].made /\ f.kind = engine[k].kind /\ f.schema = engine[k].schema
      /\ YoungAt(r) /\ PathsAt(r) /\ YoungIn(f) /\ PathsIn(f)

(* A user that goes on with its connection changes its own record and its own engine only. *)
LEMMA UsesIs ==
  ASSUME LakebaseTypeOK, NEW u \in Users, NEW r \in UserShape, user' = [user EXCEPT ![u] = r],
         user[u].engine \in Engines, NEW f \in EngineShape,
         \/ engine' = [engine EXCEPT ![user[u].engine] = f]
         \/ engine' = engine /\ f = engine[user[u].engine],
         r.want = user[u].want, r.todo = user[u].todo \/ user[u].pc = "run", r.engine = user[u].engine, r.pc \notin {"idle", "make", "register"},
         f.made = engine[user[u].engine].made, f.kind = engine[user[u].engine].kind,
         f.schema = engine[user[u].engine].schema,
         YoungAt(r), PathsAt(r), YoungIn(f), PathsIn(f)
  PROVE  Uses(u)
<1>1. user' \in [Users -> UserShape] /\ user'[u] = r /\ \A v \in Users \ {u} : user'[v] = user[v]
  BY DEF LakebaseTypeOK
<1>2. /\ engine' \in [Engines -> EngineShape] /\ engine'[user[u].engine] = f
      /\ \A g \in Engines \ {user[u].engine} : engine'[g] = engine[g]
  BY DEF LakebaseTypeOK
<1>. QED
  BY <1>1, <1>2 DEF Uses

(* The steps of a connection. *)
LEMMA ConnectionsAreUses ==
  ASSUME LakebaseTypeOK, LentWell, EnginesAreTheirs, NEW u \in Users,
         \/ RegisterEngine(u) \/ Connect(u) \/ GetToken(u) \/ MintToken(u) \/ StoreToken(u) \/ Login(u)
         \/ ConnectFails(u) \/ \E base \in schemas \cup {user[u].want.schema} : Checkout(u, base)
         \/ \E commit \in BOOLEAN : EndTransaction(u, commit)
  PROVE  Uses(u)
<1>. DEFINE k == user[u].engine
            e == engine[k]
<1>0. /\ k \in Engines /\ e.schema = user[u].want.schema /\ e.kind = user[u].want.kind /\ EngineOf(u) = e
  <2>1. Has(u)
    BY DEF Has, RegisterEngine, Connect, GetToken, MintToken, StoreToken, Login, ConnectFails, Checkout, EndTransaction
  <2>. QED
    BY <2>1, HasEngine DEF EngineOf
<1>00. /\ user[u] \in UserShape /\ e \in EngineShape /\ user[u].token \in 0..TokenLife /\ user[u].waited \in 0..MaxDelay
       /\ e.token \in 0..TokenLife /\ e.stamp \in 0..CacheFor /\ e.idle \subseteq Schemas
       /\ user[u].path \in Schemas /\ user[u].base \in Schemas /\ user[u].want.schema \in Schemas
       /\ YoungIn(e) /\ PathsIn(e) /\ YoungAt(user[u]) /\ PathsAt(user[u])
  BY <1>0, Fields, BoundsAre DEF Ages, LentWell
<1>. HIDE DEF k, e
<1>1. CASE RegisterEngine(u) \/ Connect(u)
  <2>1. PICK pc \in {"ready", "token"} : user' = [user EXCEPT ![u] = [user[u] EXCEPT !.pc = pc]]
    BY <1>1 DEF RegisterEngine, Connect
  <2>. DEFINE r == [user[u] EXCEPT !.pc = pc]
  <2>2. /\ r \in UserShape /\ r.want = user[u].want /\ r.todo = user[u].todo /\ r.engine = k /\ r.pc \in {"ready", "token"}
    BY <1>00 DEF UserShape, UserSteps, k
  <2>3. YoungAt(r) /\ PathsAt(r)
    BY <2>2 DEF YoungAt, PathsAt
  <2>. HIDE DEF r
  <2>. QED
    BY <1>0, <1>00, <1>1, <2>1, <2>2, <2>3, UsesIs DEF RegisterEngine, Connect, r, k, e
<1>2. CASE GetToken(u)
  <2>. DEFINE hit == Fresh(e)
              r == [user[u] EXCEPT !.pc = IF hit THEN "login" ELSE "mint", !.waited = 0,
                                   !.token = IF hit THEN e.token ELSE NoToken]
              f == [e EXCEPT !.locked = ~hit]
  <2>1. user' = [user EXCEPT ![u] = r] /\ engine' = [engine EXCEPT ![k] = f]
    BY <1>0, <1>2 DEF GetToken, k
  <2>2. PICK pc \in {"login", "mint"}, token \in Ages, locked \in BOOLEAN :
          /\ r = [user[u] EXCEPT !.pc = pc, !.waited = 0, !.token = token]
          /\ f = [e EXCEPT !.locked = locked]
          /\ pc = "login" => hit /\ token = e.token
    BY <1>00, BoundsAre, Zenon DEF Ages
  <2>. HIDE DEF r, f
  <2>3. /\ r \in UserShape /\ r.want = user[u].want /\ r.todo = user[u].todo /\ r.engine = k /\ r.pc = pc /\ r.token = token /\ r.waited = 0
    BY <1>00, <2>2, BoundsAre DEF UserShape, UserSteps, k
  <2>4. /\ f \in EngineShape /\ f.made = e.made /\ f.kind = e.kind /\ f.schema = e.schema
        /\ f.token = e.token /\ f.stamp = e.stamp /\ f.idle = e.idle
    BY <1>00, <2>2 DEF EngineShape
  <2>5. YoungAt(r) /\ PathsAt(r)
    BY <1>00, <2>2, <2>3, BoundsAre DEF YoungAt, PathsAt, YoungIn, Fresh
  <2>6. YoungIn(f) /\ PathsIn(f)
    BY <1>00, <2>4 DEF YoungIn, PathsIn, Fresh
  <2>7. r.pc \notin {"idle", "make", "register"}
    BY <2>2, <2>3
  <2>. QED
    BY <1>0, <2>1, <2>3, <2>4, <2>5, <2>6, <2>7, UsesIs DEF k, e
<1>3. CASE MintToken(u)
  <2>. DEFINE r == [user[u] EXCEPT !.pc = "minted", !.token = 0]
  <2>1. /\ r \in UserShape /\ r.want = user[u].want /\ r.todo = user[u].todo /\ r.engine = k /\ r.pc = "minted"
        /\ r.token = 0 /\ r.waited = user[u].waited
    BY <1>00, BoundsAre DEF UserShape, UserSteps, k
  <2>2. YoungAt(r) /\ PathsAt(r)
    BY <1>00, <2>1 DEF YoungAt, PathsAt
  <2>. HIDE DEF r
  <2>. QED
    BY <1>0, <1>00, <1>3, <2>1, <2>2, UsesIs DEF MintToken, r, k, e
<1>4. CASE StoreToken(u)
  <2>. DEFINE r == [user[u] EXCEPT !.pc = "login", !.waited = 0]
              f == KeepToken(e, user[u].token)
  <2>1. /\ r \in UserShape /\ r.want = user[u].want /\ r.todo = user[u].todo /\ r.engine = k /\ r.pc = "login"
        /\ r.token = user[u].token /\ r.waited = 0
    BY <1>00, BoundsAre DEF UserShape, UserSteps, k
  <2>2. /\ f \in EngineShape /\ f.made = e.made /\ f.kind = e.kind /\ f.schema = e.schema
        /\ f.token = user[u].token /\ f.stamp = 0 /\ f.idle = e.idle
    BY <1>00, BoundsAre DEF KeepToken, EngineShape, Ages
  <2>3. user[u].pc = "minted" /\ user[u].token <= MaxDelay
    BY <1>4, <1>00, BoundsAre DEF StoreToken, YoungAt
  <2>4. YoungAt(r) /\ PathsAt(r) /\ YoungIn(f) /\ PathsIn(f)
    BY <1>00, <2>1, <2>2, <2>3, BoundsAre DEF YoungAt, PathsAt, YoungIn, PathsIn
  <2>5. user' = [user EXCEPT ![u] = r] /\ engine' = [engine EXCEPT ![k] = f]
    BY <1>0, <1>4 DEF StoreToken, k
  <2>. HIDE DEF r, f
  <2>. QED
    BY <1>0, <2>1, <2>2, <2>4, <2>5, UsesIs DEF k, e
<1>5. CASE Login(u)
  <2>. DEFINE base == IF e.kind = "pool" THEN e.schema ELSE Public
              path == SetPath(e, base, TRUE)
              r == [user[u] EXCEPT !.pc = "run", !.token = NoToken, !.waited = 0, !.base = base, !.path = path]
  <2>1. /\ base \in {Public, e.schema} /\ base \in Schemas /\ path = e.schema
    BY <1>0, <1>00, BoundsAre DEF SetPath
  <2>2. user' = [user EXCEPT ![u] = r] /\ engine' = engine
    BY <1>0, <1>5 DEF Login
  <2>. HIDE DEF base, path
  <2>3. /\ r \in UserShape /\ r.want = user[u].want /\ r.todo = user[u].todo /\ r.engine = k /\ r.pc = "run" /\ r.base = base /\ r.path = path
    BY <1>0, <1>00, <2>1, BoundsAre DEF UserShape, UserSteps, k
  <2>4. YoungAt(r) /\ PathsAt(r)
    BY <1>0, <2>1, <2>3 DEF YoungAt, PathsAt
  <2>. HIDE DEF r
  <2>. QED
    BY <1>0, <1>00, <2>2, <2>3, <2>4, UsesIs DEF k, e
<1>6. CASE ConnectFails(u)
  <2>. DEFINE r == [user[u] EXCEPT !.pc = "ready", !.token = NoToken, !.waited = 0]
  <2>1. PICK locked \in BOOLEAN : engine' = [engine EXCEPT ![k] = [e EXCEPT !.locked = locked]]
    BY <1>0, <1>6 DEF ConnectFails, k
  <2>. DEFINE f == [e EXCEPT !.locked = locked]
  <2>2. /\ r \in UserShape /\ r.want = user[u].want /\ r.todo = user[u].todo /\ r.engine = k /\ r.pc = "ready"
    BY <1>00, BoundsAre DEF UserShape, UserSteps, k
  <2>3. /\ f \in EngineShape /\ f.made = e.made /\ f.kind = e.kind /\ f.schema = e.schema
        /\ f.token = e.token /\ f.stamp = e.stamp /\ f.idle = e.idle
    BY <1>00 DEF EngineShape
  <2>4. YoungAt(r) /\ PathsAt(r) /\ YoungIn(f) /\ PathsIn(f)
    BY <1>00, <2>2, <2>3 DEF YoungAt, PathsAt, YoungIn, PathsIn, Fresh
  <2>5. user' = [user EXCEPT ![u] = r]
    BY <1>6 DEF ConnectFails
  <2>. HIDE DEF r, f
  <2>. QED
    BY <1>0, <2>1, <2>2, <2>3, <2>4, <2>5, UsesIs DEF k, e, f
<1>7. ASSUME NEW base \in schemas \cup {user[u].want.schema}, Checkout(u, base) PROVE Uses(u)
  <2>. DEFINE path == SetPath(e, base, FALSE)
              r == [user[u] EXCEPT !.pc = "run", !.base = base, !.path = path]
              f == [e EXCEPT !.idle = e.idle \ {base}]
  <2>1. user' = [user EXCEPT ![u] = r] /\ engine' = [engine EXCEPT ![k] = f] /\ base \in e.idle
    BY <1>0, <1>7 DEF Checkout, k
  <2>2. base \in {Public, e.schema} /\ base \in Schemas /\ path = e.schema
    BY <1>00, <2>1 DEF PathsIn, SetPath
  <2>. HIDE DEF path
  <2>3. /\ r \in UserShape /\ r.want = user[u].want /\ r.todo = user[u].todo /\ r.engine = k /\ r.pc = "run" /\ r.base = base /\ r.path = path
    BY <1>0, <1>00, <2>2 DEF UserShape, UserSteps, k
  <2>4. /\ f \in EngineShape /\ f.made = e.made /\ f.kind = e.kind /\ f.schema = e.schema
        /\ f.token = e.token /\ f.stamp = e.stamp /\ f.idle \subseteq e.idle
    BY <1>00 DEF EngineShape
  <2>5. YoungAt(r) /\ PathsAt(r) /\ YoungIn(f) /\ PathsIn(f)
    BY <1>0, <1>00, <2>2, <2>3, <2>4 DEF YoungAt, PathsAt, YoungIn, PathsIn, Fresh
  <2>. HIDE DEF r, f
  <2>. QED
    BY <1>0, <2>1, <2>3, <2>4, <2>5, UsesIs DEF k, e
<1>8. ASSUME NEW commit \in BOOLEAN, EndTransaction(u, commit) PROVE Uses(u)
  <2>. DEFINE base == IF commit THEN user[u].path ELSE user[u].base
              todo == IF commit THEN user[u].todo \ {NextOp(user[u].todo)} ELSE user[u].todo
              r == [user[u] EXCEPT !.pc = "ready", !.base = Public, !.path = Public, !.todo = todo]
              f == [e EXCEPT !.idle = e.idle \cup {base}]
  <2>1. user' = [user EXCEPT ![u] = r] /\ engine' = [engine EXCEPT ![k] = f] /\ user[u].pc = "run"
    BY <1>0, <1>8 DEF EndTransaction, k
  <2>2. base \in {Public, e.schema} /\ base \in Schemas /\ todo \subseteq {"schema", "tables"}
    BY <1>0, <1>00, <2>1, Fields DEF PathsAt
  <2>. HIDE DEF base, todo
  <2>3. /\ r \in UserShape /\ r.want = user[u].want /\ r.engine = k /\ r.pc = "ready"
    BY <1>00, <2>2, BoundsAre DEF UserShape, UserSteps, k
  <2>4. /\ f \in EngineShape /\ f.made = e.made /\ f.kind = e.kind /\ f.schema = e.schema
        /\ f.token = e.token /\ f.stamp = e.stamp /\ f.idle = e.idle \cup {base}
    BY <1>00, <2>2 DEF EngineShape
  <2>5. YoungAt(r) /\ PathsAt(r) /\ YoungIn(f) /\ PathsIn(f)
    BY <1>00, <2>2, <2>3, <2>4 DEF YoungAt, PathsAt, YoungIn, PathsIn, Fresh
  <2>. HIDE DEF r, f
  <2>. QED
    BY <1>0, <2>1, <2>3, <2>4, <2>5, UsesIs DEF k, e
<1>. QED
  BY <1>1, <1>2, <1>3, <1>4, <1>5, <1>6, <1>7, <1>8

(* Who has an engine in use keeps it, and so do the others. *)
LEMMA UsesKeep ==
  ASSUME LakebaseTypeOK, LentWell, EnginesAreTheirs, NEW u \in Users, Uses(u), Has(u),
         cache' = cache \/ RegisterEngine(u)
  PROVE  LakebaseTypeOK' /\ LentWell' /\ EnginesAreTheirs'
<1>. DEFINE k == user[u].engine
<1>0. k \in Engines /\ engine[k].made /\ engine[k].kind = user[u].want.kind /\ engine[k].schema = user[u].want.schema
  BY HasEngine DEF EngineOf
<1>1. LakebaseTypeOK'
  BY DEF Uses, LakebaseTypeOK
<1>2. LentWell'
  <2>1. \A e \in Engines : (YoungIn(engine[e]) /\ PathsIn(engine[e]))'
    BY DEF Uses, LentWell
  <2>2. \A v \in Users : (YoungAt(user[v]) /\ PathsAt(user[v]))'
    BY DEF Uses, LentWell
  <2>. QED
    BY <2>1, <2>2 DEF LentWell
<1>3. /\ \A v \in Users : user'[v].want = user[v].want /\ user'[v].engine = user[v].engine
      /\ \A v \in Users : Has(v)' <=> Has(v)
      /\ \A v \in Users : user'[v].pc = "register" => user[v].pc = "register"
  BY DEF Uses, Has
<1>4. \A e \in Engines : /\ engine'[e].made = engine[e].made /\ engine'[e].kind = engine[e].kind
                         /\ engine'[e].schema = engine[e].schema
  BY <1>0 DEF Uses
<1>5. Made' = Made /\ Made \subseteq Engines
  BY <1>4 DEF Made
<1>6. ASSUME NEW c \in cache' PROVE c \in cache \/ (c = [key |-> Key(user[u].want), engine |-> k] /\ RegisterEngine(u))
  BY <1>6 DEF RegisterEngine
<1>7. ASSUME NEW c \in cache', c = [key |-> Key(user[u].want), engine |-> k], RegisterEngine(u)
      PROVE  c.engine \in Made /\ engine[c.engine].kind = "engine" /\ engine[c.engine].schema = c.key[2]
  <2>1. user[u].want.cached /\ user[u].want \in Wants
    BY <1>7, Fields DEF RegisterEngine, EnginesAreTheirs, Has
  <2>2. user[u].want.kind = "engine"
    BY <2>1, LakebaseAssumption
  <2>. QED
    BY <1>0, <1>7, <2>2 DEF Key, Made
<1>8. /\ \A v \in Users :
           Has(v)' => /\ user'[v].pc = "register" => user'[v].want.cached
                      /\ user'[v].engine \in Made'
                      /\ engine'[user'[v].engine].kind = user'[v].want.kind
                      /\ engine'[user'[v].engine].schema = user'[v].want.schema
      /\ \A v, w \in Users :
           Has(v)' /\ Has(w)' /\ v # w /\ engine'[user'[v].engine].kind = "pool"
             => user'[v].engine # user'[w].engine
  <2>1. \A v \in Users : Has(v) => user[v].engine \in Engines
    BY HasEngine
  <2>. QED
    BY <1>3, <1>4, <1>5, <2>1 DEF EnginesAreTheirs, EngineOf
<1>9. \A c \in cache' : /\ c.engine \in Made' /\ engine'[c.engine].kind = "engine"
                        /\ engine'[c.engine].schema = c.key[2]
  BY <1>4, <1>5, <1>6, <1>7 DEF EnginesAreTheirs
<1>. QED
  BY <1>1, <1>2, <1>8, <1>9 DEF EnginesAreTheirs, EngineOf

(* What a transaction sets up is there when it is off the list. *)
LEMMA UsesSetUp ==
  ASSUME LakebaseTypeOK, LentWell, EnginesAreTheirs, SetUpIsKept, NEW u \in Users, Uses(u), Has(u),
         \/ user'[u].todo = user[u].todo /\ UNCHANGED <<schemas, tables>>
         \/ \E commit \in BOOLEAN : EndTransaction(u, commit)
  PROVE  SetUpIsKept'
<1>1. /\ \A v \in Users : user'[v].want = user[v].want /\ (user'[v].pc = "idle" <=> user[v].pc = "idle")
      /\ user[u].pc # "idle"
      /\ \A v \in Users \ {u} : user'[v].todo = user[v].todo
  BY DEF Uses, Has
<1>2. ASSUME user'[u].todo = user[u].todo, schemas \subseteq schemas', tables \subseteq tables' PROVE SetUpIsKept'
  <2>1. \A v \in Users : user'[v].todo = user[v].todo
    BY <1>1, <1>2
  <2>2. ASSUME NEW v \in Users, user'[v].pc # "idle", user'[v].want.setup
        PROVE  /\ "schema" \notin user'[v].todo => user'[v].want.schema \in schemas'
               /\ "tables" \notin user'[v].todo /\ user'[v].want.kind = "pool" => user'[v].want.schema \in tables'
    <3>1. user[v].pc # "idle" /\ user'[v].want = user[v].want /\ user'[v].todo = user[v].todo
      BY <1>1, <2>1, <2>2
    <3>. QED
      BY <1>2, <2>2, <3>1 DEF SetUpIsKept
  <2>3. Public \in schemas'
    BY <1>2 DEF SetUpIsKept
  <2>. QED
    BY <2>2, <2>3 DEF SetUpIsKept
<1>3. ASSUME EndTransaction(u, TRUE) PROVE SetUpIsKept'
  <2>. DEFINE op == NextOp(user[u].todo)
  <2>1. user'[u].todo = user[u].todo \ {op} /\ user[u].pc = "run"
    <3>. PICK left : left = user[u].todo \ {op}
      OBVIOUS
    <3>1. /\ user[u].pc = "run"
          /\ user' = [user EXCEPT ![u] = [user[u] EXCEPT !.pc = "ready", !.base = Public, !.path = Public, !.todo = left]]
      BY Zenon, <1>3 DEF EndTransaction
    <3>2. user \in [Users -> UserShape]
      BY DEF LakebaseTypeOK
    <3>3. user'[u] = [user[u] EXCEPT !.pc = "ready", !.base = Public, !.path = Public, !.todo = left]
      BY <3>1, <3>2
    <3>4. user'[u].todo = left
      BY <3>2, <3>3 DEF UserShape
    <3>. QED
      BY Zenon, <3>1, <3>4
  <2>2. user[u].todo \subseteq {"schema", "tables"} /\ user[u].path = user[u].want.schema
    BY <2>1, Fields DEF LentWell, PathsAt
  <2>3. CASE op = "schema"
    <3>1. schemas' = schemas \cup {user[u].want.schema} /\ tables' = tables
      BY <1>3, <2>3 DEF EndTransaction, Effect
    <3>. QED
      BY <1>1, <2>1, <2>2, <2>3, <3>1 DEF SetUpIsKept
  <2>4. CASE op = "tables"
    <3>1. schemas' = schemas /\ tables' = tables \cup CreatedIn(user[u].want.kind, user[u].path)
      BY <1>3, <2>4 DEF EndTransaction, Effect
    <3>2. "schema" \notin user[u].todo
      BY <2>4 DEF NextOp
    <3>3. user[u].want.setup /\ user[u].want.kind = "pool" => user[u].want.schema \in tables'
      BY <2>1, <2>2, <3>1, <3>2 DEF SetUpIsKept, CreatedIn, First
    <3>. QED
      BY <1>1, <2>1, <2>2, <2>4, <3>1, <3>2, <3>3 DEF SetUpIsKept
  <2>5. CASE op = "query"
    <3>1. UNCHANGED <<schemas, tables>>
      BY <1>3, <2>5 DEF EndTransaction, Effect
    <3>2. user'[u].todo = user[u].todo
      BY <2>1, <2>2, <2>5
    <3>. QED
      BY <1>2, <3>1, <3>2
  <2>. QED
    BY <2>3, <2>4, <2>5 DEF NextOp
<1>4. ASSUME EndTransaction(u, FALSE) PROVE SetUpIsKept'
  <2>1. user'[u].todo = user[u].todo /\ UNCHANGED <<schemas, tables>>
    BY <1>4, Fields DEF EndTransaction, Database, LakebaseTypeOK, UserShape
  <2>. QED
    BY <1>2, <2>1
<1>. QED
  BY <1>2, <1>3, <1>4

(* A session, store or saver is constructed, with an engine from the cache or with none yet. *)
LEMMA ConstructKeeps ==
  ASSUME LakebaseInv, NEW u \in Users, NEW w \in Wants, Construct(u, w)
  PROVE  LakebaseInv'
<1>. LakebaseTypeOK /\ LentWell /\ EnginesAreTheirs /\ SetUpIsKept
  BY DEF LakebaseInv
<1>. DEFINE hit == {c \in cache : c.key = Key(w)}
            todo == IF w.setup THEN {"schema", "tables"} ELSE {}
<1>1. PICK k \in {0} \cup Engines, pc \in {"ready", "make"} :
        /\ user' = [user EXCEPT ![u] = [Away EXCEPT !.want = w, !.todo = todo, !.engine = k, !.pc = pc]]
        /\ pc = "ready" => /\ k \in Made /\ engine[k].kind = "engine" /\ engine[k].schema = w.schema
                           /\ w.kind = "engine"
  <2>1. CASE w.cached /\ hit # {}
    <3>. DEFINE c == CHOOSE c \in hit : TRUE
    <3>1. c \in cache /\ c.key = Key(w)
      BY <2>1
    <3>2. c.engine \in Made /\ engine[c.engine].kind = "engine" /\ engine[c.engine].schema = w.schema
      BY <3>1 DEF EnginesAreTheirs, Key
    <3>3. c.engine \in Engines /\ w.kind = "engine"
      BY <2>1, <3>2, LakebaseAssumption DEF Made
    <3>4. user' = [user EXCEPT ![u] = [Away EXCEPT !.want = w, !.todo = todo, !.engine = c.engine, !.pc = "ready"]]
      BY <2>1 DEF Construct
    <3>. HIDE DEF c, todo
    <3>. QED
      BY <3>2, <3>3, <3>4
  <2>2. CASE ~(w.cached /\ hit # {})
    <3>1. user' = [user EXCEPT ![u] = [Away EXCEPT !.want = w, !.todo = todo, !.engine = 0, !.pc = "make"]]
      BY <2>2 DEF Construct
    <3>. HIDE DEF todo
    <3>. QED
      BY <3>1
  <2>. QED
    BY <2>1, <2>2
<1>. DEFINE r == [Away EXCEPT !.want = w, !.todo = todo, !.engine = k, !.pc = pc]
<1>2. todo \subseteq {"schema", "tables"} /\ (w.setup => todo = {"schema", "tables"})
  OBVIOUS
<1>. HIDE DEF todo
<1>3. r \in UserShape /\ r.want = w /\ r.engine = k /\ r.pc = pc /\ r.todo = todo
  BY <1>1, <1>2, Blanks DEF UserShape, UserSteps, Away
<1>. HIDE DEF r
<1>4. user' \in [Users -> UserShape] /\ user'[u] = r /\ \A v \in Users \ {u} : user'[v] = user[v]
  BY <1>1, <1>3 DEF LakebaseTypeOK, r
<1>5. UNCHANGED <<engine, cache, schemas, tables>>
  BY DEF Construct
<1>6. LakebaseTypeOK'
  BY <1>4, <1>5 DEF LakebaseTypeOK
<1>7. LentWell'
  <2>1. (YoungAt(user[u]) /\ PathsAt(user[u]))'
    BY <1>1, <1>3, <1>4 DEF YoungAt, PathsAt
  <2>2. \A v \in Users : (YoungAt(user[v]) /\ PathsAt(user[v]))'
    BY <1>4, <2>1 DEF LentWell
  <2>. QED
    BY <1>5, <2>2 DEF LentWell
<1>8. EnginesAreTheirs'
  <2>1. \A v \in Users \ {u} : user'[v] = user[v] /\ (Has(v)' <=> Has(v))
    BY <1>4 DEF Has
  <2>2. Has(u)' => /\ k \in Made /\ engine[k].kind = "engine" /\ engine[k].schema = w.schema /\ w.kind = "engine"
                   /\ user'[u].engine = k /\ user'[u].want = w /\ user'[u].pc # "register"
    BY <1>1, <1>3, <1>4 DEF Has
  <2>3. Made' = Made
    BY <1>5 DEF Made
  <2>4. \A v \in Users :
          Has(v)' => /\ user'[v].pc = "register" => user'[v].want.cached
                     /\ user'[v].engine \in Made
                     /\ engine[user'[v].engine].kind = user'[v].want.kind
                     /\ engine[user'[v].engine].schema = user'[v].want.schema
    BY <2>1, <2>2 DEF EnginesAreTheirs, EngineOf
  <2>5. ASSUME NEW v \in Users, NEW x \in Users, Has(v)', Has(x)', v # x, engine[user'[v].engine].kind = "pool"
        PROVE  user'[v].engine # user'[x].engine
    <3>1. v # u
      BY <2>2, <2>5
    <3>2. CASE x = u
      BY <2>2, <2>5, <3>2
    <3>3. CASE x # u
      BY <2>1, <2>5, <3>1, <3>3 DEF EnginesAreTheirs, EngineOf
    <3>. QED
      BY <3>2, <3>3
  <2>. QED
    BY <1>5, <2>3, <2>4, <2>5 DEF EnginesAreTheirs, EngineOf
<1>9. SetUpIsKept'
  BY <1>2, <1>3, <1>4, <1>5 DEF SetUpIsKept
<1>. QED
  BY <1>6, <1>7, <1>8, <1>9 DEF LakebaseInv

(* An engine is made that nobody has yet; it is its maker's, or will be cached. *)
LEMMA MakeKeeps ==
  ASSUME LakebaseInv, NEW u \in Users, MakeEngine(u)
  PROVE  LakebaseInv'
<1>. LakebaseTypeOK /\ LentWell /\ EnginesAreTheirs /\ SetUpIsKept
  BY DEF LakebaseInv
<1>. DEFINE w == user[u].want
<1>1. PICK k \in Engines \ Made :
        /\ engine' = [engine EXCEPT ![k] = [NoEngine EXCEPT !.made = TRUE, !.kind = w.kind, !.schema = w.schema]]
        /\ user' = [user EXCEPT ![u] = [user[u] EXCEPT !.engine = k, !.pc = IF w.cached THEN "register" ELSE "ready"]]
  BY DEF MakeEngine
<1>2. PICK pc \in {"register", "ready"} :
        /\ user' = [user EXCEPT ![u] = [user[u] EXCEPT !.engine = k, !.pc = pc]]
        /\ pc = "register" => w.cached
  BY <1>1, Zenon
<1>. DEFINE r == [user[u] EXCEPT !.engine = k, !.pc = pc]
            f == [NoEngine EXCEPT !.made = TRUE, !.kind = w.kind, !.schema = w.schema]
<1>3. /\ user[u] \in UserShape /\ w \in Wants /\ w.kind \in EngineKinds /\ w.schema \in Schemas /\ user[u].pc = "make"
  BY Fields, BoundsAre, LakebaseAssumption DEF MakeEngine, EngineKinds
<1>. HIDE DEF w
<1>4. r \in UserShape /\ r.want = w /\ r.engine = k /\ r.pc = pc /\ r.todo = user[u].todo
  BY <1>3 DEF UserShape, UserSteps, w
<1>5. f \in EngineShape /\ f.made = TRUE /\ f.kind = w.kind /\ f.schema = w.schema /\ f.idle = {} /\ f.stamp = CacheFor
  BY <1>3, Blanks DEF EngineShape, NoEngine
<1>. HIDE DEF r, f
<1>6. user' \in [Users -> UserShape] /\ user'[u] = r /\ \A v \in Users \ {u} : user'[v] = user[v]
  BY <1>2, <1>4 DEF LakebaseTypeOK, r
<1>7. engine' \in [Engines -> EngineShape] /\ engine'[k] = f /\ \A g \in Engines \ {k} : engine'[g] = engine[g]
  BY <1>1, <1>5 DEF LakebaseTypeOK, f
<1>8. UNCHANGED <<cache, schemas, tables>>
  BY DEF MakeEngine
<1>9. LentWell'
  <2>1. (YoungAt(user[u]) /\ PathsAt(user[u]))'
    BY <1>2, <1>4, <1>6 DEF YoungAt, PathsAt
  <2>2. \A v \in Users : (YoungAt(user[v]) /\ PathsAt(user[v]))'
    BY <1>6, <2>1 DEF LentWell
  <2>3. (YoungIn(engine[k]) /\ PathsIn(engine[k]))'
    BY <1>5, <1>7, BoundsAre DEF YoungIn, PathsIn, Fresh
  <2>4. \A g \in Engines : (YoungIn(engine[g]) /\ PathsIn(engine[g]))'
    BY <1>7, <2>3 DEF LentWell
  <2>. QED
    BY <2>2, <2>4 DEF LentWell
<1>10. EnginesAreTheirs'
  <2>1. \A v \in Users \ {u} : user'[v] = user[v] /\ (Has(v)' <=> Has(v))
    BY <1>6 DEF Has
  <2>2. /\ user'[u].engine = k /\ user'[u].want = w /\ (user'[u].pc = "register" => w.cached)
        /\ Made' = Made \cup {k} /\ engine'[k].kind = w.kind /\ engine'[k].schema = w.schema
    <3>1. \A g \in Engines : engine'[g].made <=> (engine[g].made \/ g = k)
      BY <1>1, <1>5, <1>7
    <3>2. Made' = Made \cup {k}
      BY <1>1, <3>1 DEF Made
    <3>. QED
      BY <1>2, <1>4, <1>5, <1>6, <1>7, <3>2
  <2>3. \A v \in Users \ {u} : Has(v) => /\ user[v].engine \in Made /\ user[v].engine \in Engines \ {k}
                                         /\ engine'[user[v].engine] = engine[user[v].engine]
    <3>1. \A v \in Users : Has(v) => user[v].engine \in Made
      BY DEF EnginesAreTheirs
    <3>. QED
      BY <1>1, <1>7, <3>1 DEF Made
  <2>4. \A c \in cache : c.engine \in Made /\ c.engine \in Engines \ {k} /\ engine'[c.engine] = engine[c.engine]
    <3>1. \A c \in cache : c.engine \in Made
      BY DEF EnginesAreTheirs
    <3>. QED
      BY <1>1, <1>7, <3>1 DEF Made
  <2>5. \A v \in Users :
          Has(v)' => /\ user'[v].pc = "register" => user'[v].want.cached
                     /\ user'[v].engine \in Made'
                     /\ engine'[user'[v].engine].kind = user'[v].want.kind
                     /\ engine'[user'[v].engine].schema = user'[v].want.schema
    <3>1. ASSUME NEW v \in Users \ {u}, Has(v)
          PROVE  /\ user[v].pc = "register" => user[v].want.cached
                 /\ user[v].engine \in Made'
                 /\ engine'[user[v].engine].kind = user[v].want.kind
                 /\ engine'[user[v].engine].schema = user[v].want.schema
      BY <2>2, <2>3, <3>1 DEF EnginesAreTheirs, EngineOf
    <3>. QED
      BY <2>1, <2>2, <3>1
  <2>6. ASSUME NEW v \in Users, NEW x \in Users, Has(v)', Has(x)', v # x, engine'[user'[v].engine].kind = "pool"
        PROVE  user'[v].engine # user'[x].engine
    <3>1. CASE v # u /\ x # u
      BY <2>1, <2>3, <2>6, <3>1 DEF EnginesAreTheirs, EngineOf
    <3>2. CASE v = u \/ x = u
      BY <2>1, <2>2, <2>3, <2>6, <3>2
    <3>. QED
      BY <3>1, <3>2
  <2>7. \A c \in cache' : /\ c.engine \in Made' /\ engine'[c.engine].kind = "engine"
                          /\ engine'[c.engine].schema = c.key[2]
    BY <1>8, <2>2, <2>4 DEF EnginesAreTheirs
  <2>. QED
    BY <2>5, <2>6, <2>7 DEF EnginesAreTheirs, EngineOf
<1>11. SetUpIsKept'
  BY <1>3, <1>4, <1>6, <1>8 DEF SetUpIsKept, w
<1>. QED
  BY <1>6, <1>7, <1>9, <1>10, <1>11 DEF LakebaseInv, LakebaseTypeOK

(* A task leaves; nobody else has the pool that goes with it. *)
LEMMA LeaveKeeps ==
  ASSUME LakebaseInv, NEW u \in Users, MakeFails(u) \/ LeaveBlock(u)
  PROVE  LakebaseInv'
<1>. LakebaseTypeOK /\ LentWell /\ EnginesAreTheirs /\ SetUpIsKept
  BY DEF LakebaseInv
<1>1. user' = [user EXCEPT ![u] = Away] /\ UNCHANGED <<cache, schemas, tables>>
  BY DEF MakeFails, LeaveBlock
<1>2. user' \in [Users -> UserShape] /\ user'[u] = Away /\ \A v \in Users \ {u} : user'[v] = user[v]
  BY <1>1, Blanks DEF LakebaseTypeOK
<1>3. /\ \A v \in Users : Has(v)' => Has(v) /\ v # u /\ user'[v] = user[v]
      /\ user'[u].pc = "idle"
  BY <1>2 DEF Has, Away
<1>4. engine' = engine
        \/ (/\ Has(u) /\ user[u].engine \in Engines /\ engine[user[u].engine].kind = "pool"
            /\ engine' = [engine EXCEPT ![user[u].engine] = NoEngine])
  BY HasEngine DEF MakeFails, LeaveBlock, Has, EngineOf
<1>5. /\ engine' \in [Engines -> EngineShape]
      /\ \A g \in Engines : \/ engine'[g] = engine[g]
                            \/ /\ g = user[u].engine /\ Has(u) /\ engine[g].kind = "pool" /\ engine'[g] = NoEngine
  BY <1>4, Blanks DEF LakebaseTypeOK
<1>6. LakebaseTypeOK'
  BY <1>2, <1>5 DEF LakebaseTypeOK
<1>7. LentWell'
  <2>1. (YoungAt(user[u]) /\ PathsAt(user[u]))'
    BY <1>3 DEF YoungAt, PathsAt
  <2>2. \A v \in Users : (YoungAt(user[v]) /\ PathsAt(user[v]))'
    BY <1>2, <2>1 DEF LentWell
  <2>3. YoungIn(NoEngine) /\ PathsIn(NoEngine)
    BY BoundsAre DEF YoungIn, PathsIn, Fresh, NoEngine
  <2>4. \A g \in Engines : (YoungIn(engine[g]) /\ PathsIn(engine[g]))'
    BY <1>5, <2>3 DEF LentWell
  <2>. QED
    BY <2>2, <2>4 DEF LentWell
<1>8. EnginesAreTheirs'
  <2>1. ASSUME NEW v \in Users, Has(v)'
        PROVE  /\ Has(v) /\ user'[v] = user[v] /\ user[v].engine \in Made
               /\ user[v].engine \in Engines /\ engine'[user[v].engine] = engine[user[v].engine]
    <3>1. Has(v) /\ v # u /\ user'[v] = user[v]
      BY <1>3, <2>1
    <3>2. user[v].engine \in Made /\ user[v].engine \in Engines
      BY <3>1 DEF EnginesAreTheirs, Made
    <3>3. Has(u) /\ engine[user[u].engine].kind = "pool" => user[u].engine # user[v].engine
      BY <3>1 DEF EnginesAreTheirs, EngineOf
    <3>. QED
      BY <1>5, <3>1, <3>2, <3>3
  <2>2. ASSUME NEW c \in cache
        PROVE  c.engine \in Made /\ c.engine \in Engines /\ engine'[c.engine] = engine[c.engine]
    <3>1. c.engine \in Made /\ engine[c.engine].kind = "engine"
      BY DEF EnginesAreTheirs
    <3>. QED
      BY <1>5, <3>1 DEF Made
  <2>3. \A k \in Made : engine'[k] = engine[k] => k \in Made'
    BY DEF Made
  <2>4. \A v \in Users :
          Has(v)' => /\ user'[v].pc = "register" => user'[v].want.cached
                     /\ user'[v].engine \in Made'
                     /\ engine'[user'[v].engine].kind = user'[v].want.kind
                     /\ engine'[user'[v].engine].schema = user'[v].want.schema
    BY <2>1, <2>3 DEF EnginesAreTheirs, EngineOf
  <2>5. \A v, x \in Users :
          Has(v)' /\ Has(x)' /\ v # x /\ engine'[user'[v].engine].kind = "pool"
            => user'[v].engine # user'[x].engine
    BY <2>1 DEF EnginesAreTheirs, EngineOf
  <2>6. \A c \in cache' : /\ c.engine \in Made' /\ engine'[c.engine].kind = "engine"
                          /\ engine'[c.engine].schema = c.key[2]
    BY <1>1, <2>2, <2>3 DEF EnginesAreTheirs
  <2>. QED
    BY <2>4, <2>5, <2>6 DEF EnginesAreTheirs, EngineOf
<1>9. SetUpIsKept'
  BY <1>1, <1>2, <1>3 DEF SetUpIsKept
<1>. QED
  BY <1>6, <1>7, <1>8, <1>9 DEF LakebaseInv

(* A connection is dropped. *)
LEMMA DropKeeps ==
  ASSUME LakebaseInv, NEW k \in Made, NEW base \in engine[k].idle, DropIdle(k, base)
  PROVE  LakebaseInv'
<1>. LakebaseTypeOK /\ LentWell /\ EnginesAreTheirs /\ SetUpIsKept
  BY DEF LakebaseInv
<1>. DEFINE f == [engine[k] EXCEPT !.idle = engine[k].idle \ {base}]
<1>0. k \in Engines /\ engine[k] \in EngineShape /\ UNCHANGED <<cache, user, schemas, tables>>
  BY Fields DEF Made, DropIdle
<1>1. /\ f \in EngineShape /\ f.made = engine[k].made /\ f.kind = engine[k].kind /\ f.schema = engine[k].schema
      /\ f.token = engine[k].token /\ f.stamp = engine[k].stamp /\ f.idle \subseteq engine[k].idle
  BY <1>0 DEF EngineShape
<1>2. engine' = [engine EXCEPT ![k] = f]
  BY DEF DropIdle
<1>. HIDE DEF f
<1>3. /\ engine' \in [Engines -> EngineShape]
      /\ \A e \in Engines : /\ engine'[e].made = engine[e].made /\ engine'[e].kind = engine[e].kind
                            /\ engine'[e].schema = engine[e].schema /\ engine'[e].token = engine[e].token
                            /\ engine'[e].stamp = engine[e].stamp /\ engine'[e].idle \subseteq engine[e].idle
  BY <1>0, <1>1, <1>2 DEF LakebaseTypeOK
<1>4. LentWell'
  <2>1. \A e \in Engines : (YoungIn(engine[e]) /\ PathsIn(engine[e]))'
    BY <1>3 DEF LentWell, YoungIn, PathsIn, Fresh
  <2>2. \A v \in Users : (YoungAt(user[v]) /\ PathsAt(user[v]))'
    BY <1>0 DEF LentWell, YoungAt, PathsAt
  <2>. QED
    BY <2>1, <2>2 DEF LentWell
<1>5. EnginesAreTheirs'
  <2>1. Made' = Made /\ Made \subseteq Engines
    BY <1>3 DEF Made
  <2>2. \A v \in Users : Has(v)' = Has(v)
    BY <1>0 DEF Has
  <2>3. \A v \in Users : Has(v) => user[v].engine \in Engines
    BY HasEngine
  <2>. QED
    BY <1>0, <1>3, <2>1, <2>2, <2>3 DEF EnginesAreTheirs, EngineOf
<1>. QED
  BY <1>0, <1>3, <1>4, <1>5 DEF LakebaseInv, LakebaseTypeOK, SetUpIsKept

(* A tick makes every token older, and so what was said of its age. *)
LEMMA TickKeeps ==
  ASSUME LakebaseInv, LakebaseTick
  PROVE  LakebaseInv'
<1>. LakebaseTypeOK /\ LentWell /\ EnginesAreTheirs /\ SetUpIsKept
  BY DEF LakebaseInv
<1>0. UNCHANGED <<cache, schemas, tables>>
  BY DEF LakebaseTick
<1>1. ASSUME NEW e \in Engines
      PROVE  /\ engine'[e] \in EngineShape
             /\ engine'[e].made = engine[e].made /\ engine'[e].kind = engine[e].kind
             /\ engine'[e].schema = engine[e].schema /\ YoungIn(engine'[e]) /\ PathsIn(engine'[e])
  <2>. DEFINE f == engine[e]
  <2>1. engine'[e] = Aged(f)
    BY DEF LakebaseTick
  <2>2. /\ f \in EngineShape /\ f.token \in 0..TokenLife /\ f.stamp \in 0..CacheFor /\ f.idle \subseteq {Public, f.schema}
        /\ YoungIn(f)
    BY Fields DEF Ages, LentWell, PathsIn
  <2>. HIDE DEF f
  <2>3. CASE f.stamp + 1 < CacheFor
    <3>1. Older(f.token) \in Ages /\ Older(f.token) <= f.token + 1 /\ f.stamp + 1 \in 0..CacheFor
      BY <2>2, <2>3, BoundsAre DEF Older, Ages
    <3>2. Aged(f) = [f EXCEPT !.token = Older(f.token), !.stamp = f.stamp + 1]
      BY <2>3 DEF Aged
    <3>3. /\ Aged(f) \in EngineShape /\ Aged(f).made = f.made /\ Aged(f).kind = f.kind /\ Aged(f).schema = f.schema
          /\ Aged(f).idle = f.idle /\ Aged(f).token = Older(f.token) /\ Aged(f).stamp = f.stamp + 1
      BY <2>2, <3>1, <3>2 DEF EngineShape
    <3>4. YoungIn(Aged(f)) /\ PathsIn(Aged(f))
      BY <2>2, <2>3, <3>1, <3>3, BoundsAre DEF YoungIn, PathsIn, Fresh, Ages
    <3>. QED
      BY <2>1, <3>3, <3>4 DEF f
  <2>4. CASE ~(f.stamp + 1 < CacheFor)
    <3>2. Aged(f) = [f EXCEPT !.token = NoToken, !.stamp = CacheFor]
      BY <2>4 DEF Aged
    <3>3. /\ Aged(f) \in EngineShape /\ Aged(f).made = f.made /\ Aged(f).kind = f.kind /\ Aged(f).schema = f.schema
          /\ Aged(f).idle = f.idle /\ Aged(f).stamp = CacheFor
      BY <2>2, <3>2, BoundsAre DEF EngineShape
    <3>4. YoungIn(Aged(f)) /\ PathsIn(Aged(f))
      BY <2>2, <3>3, BoundsAre DEF YoungIn, PathsIn, Fresh
    <3>. QED
      BY <2>1, <3>3, <3>4 DEF f
  <2>. QED
    BY <2>3, <2>4
<1>2. ASSUME NEW u \in Users
      PROVE  /\ user'[u] \in UserShape /\ user'[u].pc = user[u].pc /\ user'[u].want = user[u].want
             /\ user'[u].engine = user[u].engine /\ user'[u].todo = user[u].todo
             /\ YoungAt(user'[u]) /\ PathsAt(user'[u])
  <2>. DEFINE r == user[u]
              waited == IF Waits(u) THEN r.waited + 1 ELSE 0
              s == [r EXCEPT !.token = Older(r.token), !.waited = waited]
  <2>1. user'[u] = s /\ (Waits(u) => r.waited < MaxDelay)
    BY DEF LakebaseTick
  <2>2. /\ r \in UserShape /\ r.token \in 0..TokenLife /\ r.waited \in 0..MaxDelay
        /\ YoungAt(r) /\ PathsAt(r)
    BY Fields DEF Ages, LentWell
  <2>3. Older(r.token) \in Ages /\ Older(r.token) <= r.token + 1 /\ waited \in 0..MaxDelay
        /\ (r.pc \in {"minted", "login"} => waited = r.waited + 1)
    BY <2>1, <2>2, BoundsAre DEF Older, Ages, Waits
  <2>. HIDE DEF r, waited
  <2>4. /\ s \in UserShape /\ s.pc = r.pc /\ s.want = r.want /\ s.engine = r.engine /\ s.todo = r.todo
        /\ s.base = r.base /\ s.path = r.path /\ s.token = Older(r.token) /\ s.waited = waited
    BY <2>2, <2>3 DEF UserShape
  <2>5. YoungAt(s) /\ PathsAt(s)
    BY <2>2, <2>3, <2>4, BoundsAre DEF YoungAt, PathsAt, Ages
  <2>. QED
    BY <2>1, <2>4, <2>5 DEF r
<1>3. engine' \in [Engines -> EngineShape] /\ user' \in [Users -> UserShape]
  <2>1. engine' = [e \in Engines |-> engine'[e]]
    BY DEF LakebaseTick
  <2>2. user' = [u \in Users |-> user'[u]]
    BY DEF LakebaseTick
  <2>. QED
    BY <1>1, <1>2, <2>1, <2>2
<1>4. LakebaseTypeOK' /\ LentWell'
  <2>1. \A e \in Engines : (YoungIn(engine[e]) /\ PathsIn(engine[e]))'
    BY <1>1
  <2>2. \A v \in Users : (YoungAt(user[v]) /\ PathsAt(user[v]))'
    BY <1>2
  <2>. QED
    BY <1>3, <2>1, <2>2 DEF LentWell, LakebaseTypeOK
<1>5. EnginesAreTheirs'
  <2>1. Made' = Made /\ Made \subseteq Engines
    BY <1>1 DEF Made
  <2>2. \A v \in Users : Has(v)' = Has(v)
    BY <1>2 DEF Has
  <2>3. \A v \in Users : Has(v) => user[v].engine \in Engines
    BY HasEngine
  <2>. QED
    BY <1>0, <1>1, <1>2, <2>1, <2>2, <2>3 DEF EnginesAreTheirs, EngineOf
<1>6. SetUpIsKept'
  BY <1>0, <1>2 DEF SetUpIsKept
<1>. QED
  BY <1>4, <1>5, <1>6 DEF LakebaseInv

(* For any number of tasks, engines and ticks. *)
THEOREM LakebaseInvariant == LakebaseSpec => []LakebaseInv
<1>1. LakebaseInit => LakebaseInv
  BY LakebaseInvInit
<1>2. ASSUME LakebaseInv, LakebaseNext PROVE LakebaseInv'
  <2>. LakebaseTypeOK /\ LentWell /\ EnginesAreTheirs /\ SetUpIsKept
    BY <1>2 DEF LakebaseInv
  <2>1. ASSUME NEW u \in Users,
               \/ RegisterEngine(u) \/ Connect(u) \/ GetToken(u) \/ MintToken(u) \/ StoreToken(u) \/ Login(u)
               \/ ConnectFails(u) \/ (\E base \in schemas \cup {user[u].want.schema} : Checkout(u, base))
               \/ \E commit \in BOOLEAN : EndTransaction(u, commit)
        PROVE  LakebaseInv'
    <3>1. Uses(u)
      BY <2>1, ConnectionsAreUses
    <3>2. Has(u)
      BY <2>1 DEF Has, RegisterEngine, Connect, GetToken, MintToken, StoreToken, Login, ConnectFails, Checkout,
                  EndTransaction
    <3>3. cache' = cache \/ RegisterEngine(u)
      BY <2>1 DEF RegisterEngine, Connect, GetToken, MintToken, StoreToken, Login, ConnectFails, Checkout,
                  EndTransaction
    <3>4. \/ user'[u].todo = user[u].todo /\ UNCHANGED <<schemas, tables>>
          \/ \E commit \in BOOLEAN : EndTransaction(u, commit)
      <4>1. user[u].pc # "run" \/ \E commit \in BOOLEAN : EndTransaction(u, commit)
        BY <2>1 DEF RegisterEngine, Connect, GetToken, MintToken, StoreToken, Login, ConnectFails, Checkout
      <4>2. UNCHANGED <<schemas, tables>> \/ \E commit \in BOOLEAN : EndTransaction(u, commit)
        BY <2>1 DEF RegisterEngine, Connect, GetToken, MintToken, StoreToken, Login, ConnectFails, Checkout
      <4>. QED
        BY <3>1, <4>1, <4>2 DEF Uses
    <3>. QED
      BY <3>1, <3>2, <3>3, <3>4, UsesKeep, UsesSetUp DEF LakebaseInv
  <2>. QED
    BY <1>2, <2>1, ConstructKeeps, MakeKeeps, LeaveKeeps, DropKeeps, TickKeeps DEF LakebaseNext
<1>3. LakebaseInv /\ UNCHANGED lakebaseVars => LakebaseInv'
  BY DEF lakebaseVars, LakebaseInv, LakebaseTypeOK, LentWell, YoungIn, YoungAt, PathsIn, PathsAt, Fresh,
         EnginesAreTheirs, EngineOf, Made, Has, SetUpIsKept
<1>. QED
  BY <1>1, <1>2, <1>3, PTL DEF LakebaseSpec

(* Logins use tokens the service still accepts, statements run on the schema that was asked *)
(* for, and what was set up is found there: however slow mints and logins are within         *)
(* MaxDelay, whoever shares an engine, and whatever is rolled back.                          *)
THEOREM EnginesAreSound == LakebaseSpec => []LakebaseIsSound
<1>1. LakebaseInv => LakebaseIsSound
  <2>. SUFFICES ASSUME LakebaseInv PROVE LakebaseIsSound
    OBVIOUS
  <2>1. LoginsUseLiveTokens
    <3>1. ASSUME NEW u \in Users, user[u].pc = "login" PROVE user[u].token < TokenLife
      <4>1. /\ user[u].token < TokenLife - MaxDelay + user[u].waited
            /\ user[u].waited \in 0..MaxDelay /\ user[u].token \in 0..TokenLife
        BY <3>1, Fields DEF LakebaseInv, LentWell, YoungAt, Ages
      <4>. QED
        BY <4>1, BoundsAre
    <3>. QED
      BY <3>1 DEF LoginsUseLiveTokens
  <2>2. StatementsKeepTheirPath
    BY DEF LakebaseInv, LentWell, PathsAt, StatementsKeepTheirPath
  <2>3. StoresFindTheirTables
    BY <2>2 DEF LakebaseInv, SetUpIsKept, StatementsKeepTheirPath, StoresFindTheirTables, Seen
  <2>. QED
    BY <2>1, <2>2, <2>3 DEF LakebaseIsSound
<1>. QED
  BY <1>1, LakebaseInvariant, PTL
-----------------------------------------------------------------------------
(***************************************************************************)
(* McpRegistration.  A client belongs to one call until a connection has    *)
(* it: numbers are drawn by the authorization server, and a connection,     *)
(* once there, is never replaced.                                           *)
(***************************************************************************)
RegisterSteps == {"idle", "look", "challenge", "resource", "server", "dcr", "create", "done", "failed"}
Clients == AuthServers \X (Nat \ {0})
Registered(c, registered) == c \in Clients /\ c[2] <= registered[c[1]]
Holds(r) == reg[r].pc = "create"

RegShape == [pc : RegisterSteps, name : Names \cup {NoClient}, left : Nat,
             as : AuthServers \cup {NoClient}, client : Clients \cup {NoClient}, calls : Nat]

RegisterTypeOK ==
  /\ connections \in [Names -> Clients \cup {NoClient}]
  /\ clients \in [AuthServers -> Nat]
  /\ reg \in [Registrars -> RegShape]

(* What a call knows at its step. *)
CallsAreSound ==
  \A r \in Registrars :
    /\ reg[r].pc \notin {"idle", "failed"} => reg[r].name \in Names
    /\ reg[r].pc \in {"server", "dcr"} => reg[r].as \in AuthServers
    /\ reg[r].pc = "done" => connections[reg[r].name] # NoClient

(* Every client is registered once and has one owner. *)
ClientsAreOwned ==
  /\ \A n \in Names : connections[n] # NoClient => Registered(connections[n], clients)
  /\ \A n, o \in Names : connections[n] # NoClient /\ connections[n] = connections[o] => n = o
  /\ \A r \in Registrars :
       Holds(r) => Registered(reg[r].client, clients) /\ \A n \in Names : connections[n] # reg[r].client
  /\ \A r, s \in Registrars : Holds(r) /\ Holds(s) /\ reg[r].client = reg[s].client => r = s

RegisterInv == RegisterTypeOK /\ CallsAreSound /\ ClientsAreOwned /\ OrphansAreOfFailures

-----------------------------------------------------------------------------
(* A registered client is the server it is registered with and its number there. *)
LEMMA ClientsAre ==
  ASSUME NEW c \in Clients
  PROVE  c # NoClient /\ c[1] \in AuthServers /\ c[2] \in Nat /\ c[2] > 0 /\ c = <<c[1], c[2]>>
  BY DEF Clients, NoClient

(* Nobody has registered anything at first. *)
LEMMA RegisterInvInit == RegisterInit => RegisterInv
<1>. SUFFICES ASSUME RegisterInit PROVE RegisterInv
  OBVIOUS
<1>1. Idle \in RegShape /\ Idle.pc = "idle"
  BY DEF Idle, RegShape, RegisterSteps
<1>2. RegisterTypeOK
  BY <1>1 DEF RegisterInit, RegisterTypeOK
<1>3. \A r \in Registrars : reg[r].pc = "idle"
  BY <1>1 DEF RegisterInit
<1>4. \A n \in Names : connections[n] = NoClient
  BY DEF RegisterInit
<1>5. \A a \in AuthServers : 1..clients[a] = {}
  BY DEF RegisterInit
<1>. QED
  BY <1>2, <1>3, <1>4, <1>5 DEF RegisterInv, CallsAreSound, ClientsAreOwned, Holds, OrphansAreOfFailures

(* A registrar's record. *)
LEMMA RegFields ==
  ASSUME RegisterTypeOK, NEW r \in Registrars
  PROVE  /\ reg[r] \in RegShape /\ reg[r].pc \in RegisterSteps /\ reg[r].name \in Names \cup {NoClient}
         /\ reg[r].left \in Nat /\ reg[r].as \in AuthServers \cup {NoClient}
         /\ reg[r].client \in Clients \cup {NoClient} /\ reg[r].calls \in Nat
<1>1. reg[r] \in RegShape
  BY DEF RegisterTypeOK
<1>. QED
  BY <1>1 DEF RegShape

(* Only r moves, to x. *)
Moves(r, x) == /\ x \in RegShape /\ reg' \in [Registrars -> RegShape] /\ reg'[r] = x
               /\ \A s \in Registrars \ {r} : reg'[s] = reg[s]

(* A registrar that moves leaves the others where they are. *)
LEMMA MovesIs ==
  ASSUME RegisterTypeOK, NEW r \in Registrars, NEW x \in RegShape, reg' = [reg EXCEPT ![r] = x]
  PROVE  Moves(r, x)
  BY DEF RegisterTypeOK, Moves

(* A registrar that reports a connection leaves the others where they are. *)
LEMMA EndsIs ==
  ASSUME RegisterTypeOK, NEW r \in Registrars, Ends(r), reg[r].name \in Names
  PROVE  /\ reg' \in [Registrars -> RegShape] /\ reg'[r].pc = "done" /\ reg'[r].name = reg[r].name
         /\ \A s \in Registrars \ {r} : reg'[s] = reg[s]
<1>. DEFINE x == [Idle EXCEPT !.pc = "done", !.name = reg[r].name, !.calls = reg[r].calls]
<1>1. x \in RegShape /\ x.pc = "done" /\ x.name = reg[r].name
  BY RegFields DEF Idle, RegShape, RegisterSteps
<1>. HIDE DEF x
<1>. QED
  BY <1>1, MovesIs DEF Ends, Moves, x

(* A registrar that fails leaves the others where they are. *)
LEMMA FailsIs ==
  ASSUME RegisterTypeOK, NEW r \in Registrars, Fails(r)
  PROVE  /\ reg' \in [Registrars -> RegShape] /\ reg'[r].pc = "failed"
         /\ \A s \in Registrars \ {r} : reg'[s] = reg[s]
<1>. DEFINE x == [Idle EXCEPT !.pc = "failed", !.calls = reg[r].calls]
<1>1. x \in RegShape /\ x.pc = "failed"
  BY RegFields DEF Idle, RegShape, RegisterSteps
<1>. HIDE DEF x
<1>. QED
  BY <1>1, MovesIs DEF Fails, Moves, x

(* A step before a client is registered. *)
LEMMA EarlyKeeps ==
  ASSUME RegisterInv, NEW r \in Registrars, ~Holds(r), UNCHANGED <<connections, clients, lost>>,
         reg' \in [Registrars -> RegShape], \A s \in Registrars \ {r} : reg'[s] = reg[s],
         reg'[r].pc # "create",
         reg'[r].pc \notin {"idle", "failed"} => reg'[r].name \in Names,
         reg'[r].pc \in {"server", "dcr"} => reg'[r].as \in AuthServers,
         reg'[r].pc = "done" => connections[reg'[r].name] # NoClient
  PROVE  RegisterInv'
<1>1. RegisterTypeOK'
  BY DEF RegisterInv, RegisterTypeOK
<1>2. CallsAreSound'
  BY DEF RegisterInv, CallsAreSound
<1>3. \A s \in Registrars : (Holds(s)' <=> Holds(s)) /\ (Holds(s) => reg'[s] = reg[s])
  BY DEF Holds
<1>4. ClientsAreOwned'
  <2>1. \A c : Registered(c, clients') <=> Registered(c, clients)
    BY DEF Registered
  <2>2. ClientsAreOwned
    BY DEF RegisterInv
  <2>3. \A s \in Registrars : Holds(s)' => Holds(s) /\ reg'[s].client = reg[s].client
    BY Zenon, <1>3
  <2>4. \A n \in Names : connections'[n] # NoClient => Registered(connections'[n], clients')
    BY Zenon, <2>1, <2>2 DEF ClientsAreOwned
  <2>5. \A n, o \in Names : connections'[n] # NoClient /\ connections'[n] = connections'[o] => n = o
    BY <2>2 DEF ClientsAreOwned
  <2>6. ASSUME NEW s \in Registrars, Holds(s)'
        PROVE  Registered(reg'[s].client, clients') /\ \A n \in Names : connections'[n] # reg'[s].client
    <3>1. Holds(s) /\ reg'[s].client = reg[s].client
      BY Zenon, <2>3, <2>6
    <3>2. Registered(reg[s].client, clients) /\ \A n \in Names : connections[n] # reg[s].client
      BY Zenon, <2>2, <3>1 DEF ClientsAreOwned
    <3>. QED
      BY Zenon, <2>1, <3>1, <3>2
  <2>7. ASSUME NEW q \in Registrars, NEW s \in Registrars, Holds(q)', Holds(s)', reg'[q].client = reg'[s].client
        PROVE  q = s
    <3>1. Holds(q) /\ Holds(s) /\ reg[q].client = reg[s].client
      BY <2>3, <2>7
    <3>. QED
      BY Zenon, <2>2, <3>1 DEF ClientsAreOwned
  <2>. QED
    BY Zenon, <2>4, <2>5, <2>6, <2>7 DEF ClientsAreOwned
<1>5. OrphansAreOfFailures'
  BY <1>3 DEF RegisterInv, OrphansAreOfFailures, Holds
<1>. QED
  BY <1>1, <1>2, <1>4, <1>5 DEF RegisterInv

(* The requests before a registration, which change nothing on any server, keep the invariant. *)
LEMMA StartKeeps ==
  ASSUME RegisterInv, NEW r \in Registrars,
         \/ StartRegister(r) \/ LookForConnection(r) \/ ReadChallenge(r) \/ FetchResource(r) \/ FetchServer(r)
  PROVE  RegisterInv'
<1>. RegisterTypeOK /\ CallsAreSound
  BY DEF RegisterInv
<1>0. /\ ~Holds(r) /\ UNCHANGED <<connections, clients, lost>>
      /\ reg[r] \in RegShape /\ reg[r].name \in Names \cup {NoClient}
      /\ reg[r].left \in Nat /\ reg[r].calls \in Nat
  BY RegFields DEF Holds, StartRegister, LookForConnection, ReadChallenge, FetchResource, FetchServer
<1>1. CASE StartRegister(r)
  <2>1. PICK n \in Names : reg' = [reg EXCEPT ![r] = [Idle EXCEPT !.pc = "look", !.name = n, !.calls = reg[r].calls + 1]]
    BY <1>1 DEF StartRegister
  <2>. DEFINE x == [Idle EXCEPT !.pc = "look", !.name = n, !.calls = reg[r].calls + 1]
  <2>0. reg[r].calls + 1 \in Nat
    BY <1>0
  <2>2. x \in RegShape /\ x.pc = "look" /\ x.name = n
    BY <2>0 DEF Idle, RegShape, RegisterSteps
  <2>. HIDE DEF x
  <2>3. Moves(r, x)
    BY <2>1, <2>2, MovesIs DEF x
  <2>. QED
    BY <1>0, <2>2, <2>3, EarlyKeeps DEF Moves
<1>2. CASE reg[r].pc # "idle" /\ Fails(r)
  BY <1>0, <1>2, FailsIs, EarlyKeeps
<1>3. CASE LookForConnection(r) /\ connections[reg[r].name] # NoClient /\ Ends(r)
  <2>1. reg[r].name \in Names
    BY <1>3 DEF LookForConnection, CallsAreSound
  <2>. QED
    BY <1>0, <1>3, <2>1, EndsIs, EarlyKeeps
<1>4. ASSUME NEW x \in RegShape, reg' = [reg EXCEPT ![r] = x], x.name = reg[r].name,
             reg[r].pc \in {"look", "challenge", "resource", "server"},
             x.pc \in {"challenge", "resource", "server", "dcr"},
             x.pc \in {"server", "dcr"} => x.as \in AuthServers
      PROVE  RegisterInv'
  <2>1. Moves(r, x) /\ reg[r].name \in Names
    BY <1>4, MovesIs DEF CallsAreSound
  <2>. QED
    BY <1>0, <1>4, <2>1, EarlyKeeps DEF Moves
<1>5. CASE LookForConnection(r) /\ Goes(r, "challenge")
  <2>. DEFINE x == [reg[r] EXCEPT !.pc = "challenge"]
  <2>1. x \in RegShape /\ x.name = reg[r].name /\ x.pc = "challenge"
    BY <1>0 DEF RegShape, RegisterSteps
  <2>2. reg' = [reg EXCEPT ![r] = x] /\ reg[r].pc = "look"
    BY <1>5 DEF Goes, LookForConnection
  <2>. QED
    BY <1>4, <2>1, <2>2
<1>6. CASE ReadChallenge(r)
  <2>1. ASSUME NEW urls \in ResourceUrls, reg' = [reg EXCEPT ![r].pc = "resource", ![r].left = urls] PROVE RegisterInv'
    <3>. DEFINE x == [reg[r] EXCEPT !.pc = "resource", !.left = urls]
    <3>1. urls \in Nat
      BY DEF ResourceUrls
    <3>2. x \in RegShape /\ x.name = reg[r].name /\ x.pc = "resource"
      BY <1>0, <3>1 DEF RegShape, RegisterSteps
    <3>3. reg' = [reg EXCEPT ![r] = x] /\ reg[r].pc = "challenge"
      BY <1>6, <2>1 DEF ReadChallenge, RegisterTypeOK
    <3>. QED
      BY <1>4, <3>2, <3>3
  <2>. QED
    BY <1>2, <1>6, <2>1 DEF ReadChallenge
<1>7. CASE FetchResource(r)
  <2>1. ASSUME NEW a \in AuthServers, NEW urls \in ServerUrls,
               reg' = [reg EXCEPT ![r].pc = "server", ![r].as = a, ![r].left = urls]
        PROVE  RegisterInv'
    <3>. DEFINE x == [reg[r] EXCEPT !.pc = "server", !.as = a, !.left = urls]
    <3>1. urls \in Nat
      BY DEF ServerUrls
    <3>2. x \in RegShape /\ x.name = reg[r].name /\ x.pc = "server" /\ x.as = a
      BY <1>0, <3>1 DEF RegShape, RegisterSteps
    <3>3. reg' = [reg EXCEPT ![r] = x] /\ reg[r].pc = "resource"
      BY <1>7, <2>1 DEF FetchResource, RegisterTypeOK
    <3>. QED
      BY <1>4, <3>2, <3>3
  <2>2. ASSUME reg[r].left > 1, reg' = [reg EXCEPT ![r].left = @ - 1] PROVE RegisterInv'
    <3>. DEFINE x == [reg[r] EXCEPT !.left = reg[r].left - 1]
    <3>1. reg[r].left - 1 \in Nat
      BY <1>0, <2>2
    <3>2. x \in RegShape /\ x.name = reg[r].name /\ x.pc = reg[r].pc
      BY <1>0, <3>1 DEF RegShape
    <3>3. reg' = [reg EXCEPT ![r] = x] /\ reg[r].pc = "resource"
      BY <1>7, <2>2 DEF FetchResource, RegisterTypeOK
    <3>. QED
      BY <1>4, <3>2, <3>3
  <2>. QED
    BY <1>2, <1>7, <2>1, <2>2 DEF FetchResource
<1>8. CASE FetchServer(r)
  <2>0. reg[r].pc = "server" /\ reg[r].as \in AuthServers
    BY <1>8 DEF FetchServer, CallsAreSound
  <2>1. ASSUME Goes(r, "dcr") PROVE RegisterInv'
    <3>. DEFINE x == [reg[r] EXCEPT !.pc = "dcr"]
    <3>1. x \in RegShape /\ x.name = reg[r].name /\ x.pc = "dcr" /\ x.as = reg[r].as
      BY <1>0 DEF RegShape, RegisterSteps
    <3>2. reg' = [reg EXCEPT ![r] = x]
      BY <2>1 DEF Goes
    <3>. QED
      BY <1>4, <2>0, <3>1, <3>2
  <2>2. ASSUME reg[r].left > 1, reg' = [reg EXCEPT ![r].left = @ - 1] PROVE RegisterInv'
    <3>. DEFINE x == [reg[r] EXCEPT !.left = reg[r].left - 1]
    <3>1. reg[r].left - 1 \in Nat
      BY <1>0, <2>2
    <3>2. x \in RegShape /\ x.name = reg[r].name /\ x.pc = reg[r].pc /\ x.as = reg[r].as
      BY <1>0, <3>1 DEF RegShape
    <3>3. reg' = [reg EXCEPT ![r] = x]
      BY <2>2 DEF RegisterTypeOK
    <3>. QED
      BY <1>4, <2>0, <3>2, <3>3
  <2>. QED
    BY <1>2, <1>8, <2>0, <2>1, <2>2 DEF FetchServer
<1>. QED
  BY <1>1, <1>2, <1>3, <1>5, <1>6, <1>7, <1>8 DEF LookForConnection

(* What the authorization server hands out next is nobody's. *)
Draws(a, client) == client = <<a, clients[a] + 1>> /\ clients' = [clients EXCEPT ![a] = @ + 1]
IsNew(client) ==
  /\ clients' \in [AuthServers -> Nat] /\ client \in Clients /\ Registered(client, clients')
  /\ \A c : Registered(c, clients) => Registered(c, clients') /\ c # client
  /\ \A b \in AuthServers : \A k \in 1..clients'[b] : k \in 1..clients[b] \/ <<b, k>> = client

(* A client an authorization server has just registered belongs to no call and no connection. *)
LEMMA NewClientIsNew ==
  ASSUME RegisterInv, NEW a \in AuthServers, NEW client, Draws(a, client)
  PROVE  IsNew(client)
<1>. USE DEF Draws
<1>1. clients \in [AuthServers -> Nat] /\ clients[a] \in Nat
  BY DEF RegisterInv, RegisterTypeOK
<1>2. clients' \in [AuthServers -> Nat] /\ clients'[a] = clients[a] + 1
      /\ \A b \in AuthServers \ {a} : clients'[b] = clients[b]
  BY <1>1
<1>3. client \in Clients /\ client[1] = a /\ client[2] = clients[a] + 1
  BY <1>1 DEF Clients
<1>4. Registered(client, clients')
  BY <1>1, <1>2, <1>3 DEF Registered
<1>5. ASSUME NEW c, Registered(c, clients) PROVE Registered(c, clients') /\ c # client
  <2>1. c \in Clients /\ c[1] \in AuthServers /\ c[2] \in Nat /\ c[2] <= clients[c[1]] /\ clients[c[1]] \in Nat
    BY <1>1, <1>5, ClientsAre DEF Registered
  <2>2. clients[c[1]] <= clients'[c[1]]
    BY <1>1, <1>2, <2>1
  <2>3. clients'[c[1]] \in Nat
    BY <1>2, <2>1
  <2>4. c[2] <= clients'[c[1]]
    BY <2>1, <2>2, <2>3
  <2>5. c # client
    BY <1>1, <1>3, <2>1
  <2>. QED
    BY <2>1, <2>4, <2>5 DEF Registered
<1>6. ASSUME NEW b \in AuthServers, NEW k \in 1..clients'[b] PROVE k \in 1..clients[b] \/ <<b, k>> = client
  <2>1. CASE b = a
    BY <1>1, <1>2, <1>6, <2>1
  <2>2. CASE b # a
    BY <1>2, <1>6, <2>2
  <2>. QED
    BY <2>1, <2>2
<1>. QED
  BY <1>2, <1>3, <1>4, <1>5, <1>6 DEF IsNew

(* A step at which r registers a client or fails to. *)
LEMMA RegisterKeeps ==
  ASSUME RegisterInv, NEW r \in Registrars, RegisterClient(r)
  PROVE  RegisterInv'
<1>. RegisterTypeOK /\ CallsAreSound /\ ClientsAreOwned /\ OrphansAreOfFailures
  BY DEF RegisterInv
<1>a. PICK a : a = reg[r].as
  OBVIOUS
<1>b. PICK client : client = <<a, clients[a] + 1>>
  OBVIOUS
<1>0. ~Holds(r) /\ a \in AuthServers /\ reg[r].name \in Names /\ reg[r].pc = "dcr" /\ UNCHANGED connections
  BY <1>a DEF RegisterClient, CallsAreSound, Holds
<1>1. CASE Fails(r) /\ UNCHANGED <<clients, lost>>
  BY <1>0, <1>1, FailsIs, EarlyKeeps
<1>2. CASE clients' = [clients EXCEPT ![a] = @ + 1]
  <2>1. /\ clients' \in [AuthServers -> Nat] /\ client \in Clients /\ Registered(client, clients')
        /\ \A c : Registered(c, clients) => Registered(c, clients') /\ c # client
        /\ \A b \in AuthServers : \A k \in 1..clients'[b] : k \in 1..clients[b] \/ <<b, k>> = client
    <3>1. Draws(a, client)
      BY <1>b, <1>2 DEF Draws
    <3>2. IsNew(client)
      BY <1>0, <3>1, NewClientIsNew
    <3>. QED
      BY <3>2 DEF IsNew
  <2>2. CASE reg' = [reg EXCEPT ![r].pc = "create", ![r].client = client] /\ UNCHANGED lost
    <3>. DEFINE x == [reg[r] EXCEPT !.pc = "create", !.client = client]
    <3>1. x \in RegShape /\ x.pc = "create" /\ x.client = client /\ x.name = reg[r].name
      BY <2>1, RegFields DEF RegShape, RegisterSteps
    <3>2. reg' = [reg EXCEPT ![r] = x]
      BY <2>2 DEF RegisterTypeOK
    <3>. HIDE DEF x
    <3>3. Moves(r, x)
      BY <3>1, <3>2, MovesIs
    <3>4. /\ reg' \in [Registrars -> RegShape] /\ reg'[r].pc = "create" /\ reg'[r].client = client
          /\ reg'[r].name = reg[r].name /\ \A s \in Registrars \ {r} : reg'[s] = reg[s]
      BY <3>1, <3>3 DEF Moves
    <3>5. RegisterTypeOK'
      BY <1>0, <2>1, <3>4 DEF RegisterTypeOK
    <3>6. CallsAreSound'
      BY <1>0, <3>4 DEF CallsAreSound
    <3>7. \A s \in Registrars : Holds(s)' <=> Holds(s) \/ s = r
      BY <3>4 DEF Holds
    <3>8. ClientsAreOwned'
      <4>1. \A n \in Names : connections[n] # NoClient => connections[n] # client /\ Registered(connections[n], clients')
        BY <2>1 DEF ClientsAreOwned
      <4>2. connections' = connections
        BY <1>0
      <4>3. \A n \in Names : connections'[n] # client
        BY <2>1, <4>1, <4>2, ClientsAre
      <4>4. \A s \in Registrars : Holds(s) => s # r /\ Registered(reg[s].client, clients') /\ reg[s].client # client
        BY <1>0, <2>1 DEF ClientsAreOwned
      <4>5. \A n \in Names : connections'[n] # NoClient => Registered(connections[n], clients')
        BY <4>1, <4>2
      <4>6. \A s \in Registrars : Holds(s)' => Registered(reg'[s].client, clients')
        BY <2>1, <3>4, <3>7, <4>4 DEF Registered
      <4>. QED
        BY <1>0, <2>1, <3>4, <3>7, <4>2, <4>3, <4>4, <4>5, <4>6 DEF ClientsAreOwned
    <3>9. OrphansAreOfFailures'
      BY <1>0, <2>1, <2>2, <3>4 DEF OrphansAreOfFailures
    <3>. QED
      BY <3>5, <3>6, <3>8, <3>9 DEF RegisterInv
  <2>3. CASE Fails(r) /\ lost' = lost \cup {client}
    <3>1. reg' \in [Registrars -> RegShape] /\ reg'[r].pc = "failed" /\ \A s \in Registrars \ {r} : reg'[s] = reg[s]
      BY <2>3, FailsIs
    <3>2. RegisterTypeOK'
      BY <1>0, <2>1, <3>1 DEF RegisterTypeOK
    <3>3. CallsAreSound'
      BY <1>0, <3>1 DEF CallsAreSound
    <3>4. \A s \in Registrars : (Holds(s)' <=> Holds(s)) /\ (Holds(s) => reg'[s] = reg[s])
      BY <1>0, <3>1 DEF Holds
    <3>5. ClientsAreOwned'
      BY <1>0, <2>1, <3>4 DEF ClientsAreOwned
    <3>6. OrphansAreOfFailures'
      BY <1>0, <2>1, <2>3, <3>1 DEF OrphansAreOfFailures
    <3>. QED
      BY <3>2, <3>3, <3>5, <3>6 DEF RegisterInv
  <2>. QED
    BY <1>0, <1>1, <1>a, <1>b, <2>2, <2>3 DEF RegisterClient
<1>. QED
  BY <1>1, <1>2, <1>a DEF RegisterClient

(* The call of r ends: its client is in a connection or among the lost ones. *)
LEMMA EndRegisterKeeps ==
  ASSUME RegisterInv, NEW r \in Registrars, Holds(r), UNCHANGED clients,
         reg' \in [Registrars -> RegShape], \A s \in Registrars \ {r} : reg'[s] = reg[s],
         reg'[r].pc \in {"done", "failed"},
         reg'[r].pc = "done" => reg'[r].name \in Names /\ connections'[reg'[r].name] # NoClient,
         \/ connections' = connections
         \/ /\ connections[reg[r].name] = NoClient
            /\ connections' = [connections EXCEPT ![reg[r].name] = reg[r].client],
         lost \subseteq lost',
         reg[r].client \in lost' \/ connections'[reg[r].name] = reg[r].client
  PROVE  RegisterInv'
<1>. RegisterTypeOK /\ CallsAreSound /\ ClientsAreOwned /\ OrphansAreOfFailures
  BY DEF RegisterInv
<1>. DEFINE n0 == reg[r].name
            c0 == reg[r].client
<1>0. n0 \in Names /\ Registered(c0, clients) /\ c0 \in Clients /\ c0 # NoClient
      /\ (\A n \in Names : connections[n] # c0) /\ reg[r].pc = "create"
  BY ClientsAre DEF Holds, CallsAreSound, ClientsAreOwned, Registered
<1>. HIDE DEF n0, c0
<1>1. /\ connections' \in [Names -> Clients \cup {NoClient}]
      /\ \A n \in Names : \/ connections'[n] = connections[n]
                          \/ n = n0 /\ connections'[n] = c0 /\ connections[n] = NoClient
  BY <1>0 DEF RegisterTypeOK, n0, c0
<1>2. RegisterTypeOK'
  BY <1>1 DEF RegisterTypeOK
<1>3. \A s \in Registrars : Holds(s)' <=> Holds(s) /\ s # r
  BY DEF Holds
<1>4. CallsAreSound'
  BY <1>1, <1>0 DEF CallsAreSound
<1>5. \A c : Registered(c, clients') <=> Registered(c, clients)
  BY DEF Registered
<1>6. \A s \in Registrars : Holds(s) /\ s # r => reg[s].client # c0
  BY DEF ClientsAreOwned, c0
<1>7. ClientsAreOwned'
  BY <1>0, <1>1, <1>3, <1>5, <1>6 DEF ClientsAreOwned
<1>8. OrphansAreOfFailures'
  <2>. SUFFICES ASSUME NEW b \in AuthServers, NEW k \in 1..clients[b]
                PROVE  \/ \E n \in Names : connections'[n] = <<b, k>>
                       \/ \E s \in Registrars : reg'[s].pc = "create" /\ reg'[s].client = <<b, k>>
                       \/ <<b, k>> \in lost'
    BY DEF OrphansAreOfFailures
  <2>1. CASE \E n \in Names : connections[n] = <<b, k>>
    <3>1. PICK n \in Names : connections[n] = <<b, k>>
      BY <2>1
    <3>2. <<b, k>> # NoClient
      BY DEF NoClient
    <3>. QED
      BY <1>1, <3>1, <3>2
  <2>2. CASE \E s \in Registrars : reg[s].pc = "create" /\ reg[s].client = <<b, k>>
    <3>1. PICK s \in Registrars : reg[s].pc = "create" /\ reg[s].client = <<b, k>>
      BY <2>2
    <3>. QED
      BY <1>0, <3>1 DEF n0, c0
  <2>. QED
    BY <2>1, <2>2 DEF OrphansAreOfFailures
<1>. QED
  BY <1>2, <1>4, <1>7, <1>8 DEF RegisterInv

(* The creation of the connection, with or without its answer, keeps the invariant. *)
LEMMA CreateKeeps ==
  ASSUME RegisterInv, NEW r \in Registrars, CreateConnection(r)
  PROVE  RegisterInv'
<1>. RegisterTypeOK /\ CallsAreSound /\ ClientsAreOwned
  BY DEF RegisterInv
<1>0. Holds(r) /\ reg[r].name \in Names /\ UNCHANGED clients
      /\ (\/ connections' = connections
          \/ /\ connections[reg[r].name] = NoClient
             /\ connections' = [connections EXCEPT ![reg[r].name] = reg[r].client])
  BY DEF CreateConnection, Holds, CallsAreSound
<1>1. CASE Ends(r) /\ UNCHANGED lost
  <2>1. connections' = [connections EXCEPT ![reg[r].name] = reg[r].client] \/ Leaves(r)
    BY DEF CreateConnection
  <2>2. reg[r].client # NoClient
    BY <1>0, ClientsAre DEF ClientsAreOwned, Registered
  <2>3. reg'[r].pc = "done"
    BY <1>0, <1>1, EndsIs
  <2>4. ~Leaves(r)
    BY <2>3, FailsIs DEF Leaves
  <2>5. connections'[reg[r].name] = reg[r].client
    BY <1>0, <2>1, <2>4 DEF RegisterTypeOK
  <2>. QED
    BY <1>0, <1>1, <2>2, <2>5, EndsIs, EndRegisterKeeps
<1>2. CASE Leaves(r)
  BY <1>0, <1>2, FailsIs, EndRegisterKeeps DEF Leaves
<1>. QED
  BY <1>1, <1>2 DEF CreateConnection

(* The invariant of MCP registrations holds for any registrars, names and authorization *)
(* servers: every registered client has one owner.                                      *)
THEOREM RegisterInvariant == RegisterSpec => []RegisterInv
<1>1. RegisterInit => RegisterInv
  BY RegisterInvInit
<1>2. RegisterInv /\ [RegisterNext]_registerVars => RegisterInv'
  <2>. SUFFICES ASSUME RegisterInv, [RegisterNext]_registerVars PROVE RegisterInv'
    OBVIOUS
  <2>1. CASE UNCHANGED registerVars
    BY <2>1 DEF registerVars, RegisterInv, RegisterTypeOK, CallsAreSound, ClientsAreOwned, Holds, Registered,
                OrphansAreOfFailures
  <2>2. CASE RegisterNext
    BY <2>2, StartKeeps, RegisterKeeps, CreateKeeps DEF RegisterNext
  <2>. QED
    BY <2>1, <2>2
<1>. QED
  BY <1>1, <1>2, PTL DEF RegisterSpec

(* A call that reports a connection leaves one with a client of its own, and a client without a *)
(* connection is the remains of a call that failed or still runs (connector.py:418).            *)
THEOREM RegistrationsAreSound == RegisterSpec => []RegistrationIsSound
<1>1. RegisterInv => RegistrationIsSound
  <2>. SUFFICES ASSUME RegisterInv PROVE RegistrationIsSound
    OBVIOUS
  <2>1. ASSUME NEW n \in Names, connections[n] # NoClient
        PROVE  connections[n][2] \in 1..clients[connections[n][1]]
    <3>1. Registered(connections[n], clients)
      BY <2>1 DEF RegisterInv, ClientsAreOwned
    <3>2. connections[n] \in Clients /\ connections[n][2] \in Nat /\ connections[n][2] > 0
          /\ connections[n][1] \in AuthServers
      BY <3>1, ClientsAre DEF Registered
    <3>. QED
      BY <3>1, <3>2 DEF Registered, RegisterInv, RegisterTypeOK
  <2>. QED
    BY <2>1 DEF RegisterInv, CallsAreSound, ClientsAreOwned, RegistrationIsSound, DoneIsConnected
<1>. QED
  BY <1>1, RegisterInvariant, PTL
-----------------------------------------------------------------------------
(***************************************************************************)
(* ResponseStream.                                                         *)
(***************************************************************************)
USE ServerAssumption DEF ServerAssumption

(* A task that has left its handler does not come back to it, and the items *)
(* of its attempt are what they are.                                        *)
Settled(b) == task[b].pc \notin Early

(* An attempt that has completed its response writes no more, whatever another attempt does. *)
LEMMA StaysSettled ==
  ASSUME IInv, NEW a \in Attempts, RunTask(a), NEW b \in Attempts, Settled(b)
  PROVE  Settled(b)' /\ Items(b)' = Items(b)
<1>0. /\ task[a].seq \in Nat /\ task[a].seq <= NextSeq /\ NextSeq \in Nat /\ a \in Nat /\ b \in Nat
      /\ task[a].collided \in BOOLEAN /\ task[a].returned \in BOOLEAN /\ TypeOK /\ LogInv
  BY DEF IInv, TypeOK, Task, LogInv, Contiguous, Attempts
<1>1. CASE ReadPriorAttempt(a)
  <2>1. Items(b)' = Items(b)
    BY <1>1 DEF ReadPriorAttempt, Items, MessagesOf
  <2>. QED
    BY <1>0, <1>1, <2>1, MoveWithFacts, LeaveBodyFacts
    DEF ReadPriorAttempt, Settled, Early, Phases, Move, Leave
<1>2. CASE AnnounceResume(a)
  <2>1. AppendMessage(task[a].seq, a, "resumed")
    BY <1>2 DEF AnnounceResume
  <2>2. Items(b)' = Items(b)
    BY <1>0, <2>1, MessagesAfterAppend DEF Items
  <2>. QED
    BY <1>0, <1>2, <2>2, MoveWithFacts DEF AnnounceResume, Settled, Early, Phases, Move
<1>3. CASE StartHandler(a)
  <2>1. Items(b)' = Items(b)
    BY <1>3 DEF StartHandler, Items, MessagesOf
  <2>2. task[a].pc = "starting" /\ \A c \in Attempts : c # a => task'[c] = task[c]
    BY <1>0, <1>3 DEF StartHandler, TypeOK, Task
  <2>. QED
    BY <2>1, <2>2 DEF Settled, Early
<1>4. CASE NoHandler(a)
  <2>1. Items(b)' = Items(b)
    BY <1>4 DEF NoHandler, Items, MessagesOf
  <2>. QED
    BY <1>0, <1>4, <2>1, MoveWithFacts, LeaveBodyFacts
    DEF NoHandler, Settled, Early, Phases, Move, Leave
<1>5. CASE Emit(a)
  <2>1. task[a].pc = "running" /\ a # b
    BY <1>5 DEF Emit, Settled, Early
  <2>2. task'[b] = task[b]
    <3>1. CASE Vacant(task[a].seq)
      <4>1. MoveWith(a, "running", task[a].seq + 1)
        BY <1>5, <3>1 DEF Emit
      <4>. QED
        BY <1>0, <2>1, <4>1, MoveWithFacts DEF Phases
    <3>2. CASE ~Vacant(task[a].seq)
      <4>1. LeaveBody(a, "raised", TRUE, FALSE)
        BY <1>5, <3>2 DEF Emit
      <4>. QED
        BY <1>0, <2>1, <4>1, LeaveBodyFacts DEF Phases
    <3>. QED
      BY <3>1, <3>2
  <2>3. msgs' = msgs \/ AppendMessage(task[a].seq, a, "item")
    BY <1>5 DEF Emit
  <2>4. Items(b)' = Items(b)
    <3>1. CASE msgs' = msgs
      BY <3>1 DEF Items, MessagesOf
    <3>2. CASE AppendMessage(task[a].seq, a, "item")
      BY <1>0, <2>1, <3>2, MessagesAfterAppend DEF Items
    <3>. QED
      BY <2>3, <3>1, <3>2
  <2>. QED
    BY <2>2, <2>4 DEF Settled
<1>6. CASE HandlerReturns(a)
  <2>1. Items(b)' = Items(b)
    BY <1>6 DEF HandlerReturns, Items, MessagesOf
  <2>. QED
    BY <1>0, <1>6, <2>1, MoveWithFacts, LeaveBodyFacts
    DEF HandlerReturns, Settled, Early, Phases, Move, Leave
<1>7. CASE HandlerRaises(a)
  <2>1. Items(b)' = Items(b)
    BY <1>7 DEF HandlerRaises, Items, MessagesOf
  <2>. QED
    BY <1>0, <1>7, <2>1, MoveWithFacts, LeaveBodyFacts
    DEF HandlerRaises, Settled, Early, Phases, Move, Leave
<1>8. CASE TaskTimeout(a)
  <2>1. Items(b)' = Items(b)
    BY <1>8 DEF TaskTimeout, Items, MessagesOf
  <2>. QED
    BY <1>0, <1>8, <2>1, MoveWithFacts, LeaveBodyFacts
    DEF TaskTimeout, Settled, Early, Phases, Move, Leave
<1>9. CASE WriteError(a)
  <2>1. task[a].pc = "running" /\ a # b
    BY <1>9 DEF WriteError, Settled, Early
  <2>2. task'[b] = task[b]
    <3>1. PICK pc \in {"raised", "deferred"}, c \in BOOLEAN, d \in BOOLEAN : LeaveBody(a, pc, c, d)
      BY <1>0, <1>9 DEF WriteError, Leave
    <3>. QED
      BY <1>0, <2>1, <3>1, LeaveBodyFacts DEF Phases
  <2>3. msgs' = msgs \/ AppendMessage(task[a].seq, a, "item")
    BY <1>9 DEF WriteError
  <2>4. Items(b)' = Items(b)
    <3>1. CASE msgs' = msgs
      BY <3>1 DEF Items, MessagesOf
    <3>2. CASE AppendMessage(task[a].seq, a, "item")
      BY <1>0, <2>1, <3>2, MessagesAfterAppend DEF Items
    <3>. QED
      BY <2>3, <3>1, <3>2
  <2>. QED
    BY <2>2, <2>4 DEF Settled
<1>10. CASE ReadForReport(a)
  <2>1. Items(b)' = Items(b)
    BY <1>10 DEF ReadForReport, Items, MessagesOf
  <2>. QED
    BY <1>0, <1>10, <2>1, MoveWithFacts, LeaveBodyFacts
    DEF ReadForReport, Settled, Early, Phases, Move, Leave
<1>11. CASE ReportError(a)
  <2>1. AppendMessage(task[a].seq, a, "error")
    BY <1>11 DEF ReportError
  <2>2. Items(b)' = Items(b)
    BY <1>0, <2>1, MessagesAfterAppend DEF Items
  <2>. QED
    BY <1>0, <1>11, <2>2, MoveWithFacts DEF ReportError, Settled, Early, Phases, Move
<1>12. CASE MarkFailed(a)
  <2>1. Items(b)' = Items(b)
    BY <1>12 DEF MarkFailed, Items, MessagesOf
  <2>. QED
    BY <1>0, <1>12, <2>1, MoveWithFacts, LeaveBodyFacts
    DEF MarkFailed, Settled, Early, Phases, Move, Leave
<1>13. CASE CleanupError(a)
  <2>1. Items(b)' = Items(b)
    BY <1>13 DEF CleanupError, Items, MessagesOf
  <2>. QED
    BY <1>0, <1>13, <2>1, MoveWithFacts, LeaveBodyFacts
    DEF CleanupError, Settled, Early, Phases, Move, Leave
<1>14. CASE DeferredRead(a)
  <2>1. Items(b)' = Items(b)
    BY <1>14 DEF DeferredRead, Items, MessagesOf
  <2>. QED
    BY <1>0, <1>14, <2>1, MoveWithFacts, LeaveBodyFacts
    DEF DeferredRead, Settled, Early, Phases, Move, Leave
<1>15. CASE DeferredCheck(a)
  <2>1. Items(b)' = Items(b)
    BY <1>15 DEF DeferredCheck, Items, MessagesOf
  <2>. QED
    BY <1>0, <1>15, <2>1, MoveWithFacts, LeaveBodyFacts
    DEF DeferredCheck, Settled, Early, Phases, Move, Leave
<1>16. CASE DeferredReport(a)
  <2>1. AppendMessage(task[a].seq, a, "error")
    BY <1>16 DEF DeferredReport
  <2>2. Items(b)' = Items(b)
    BY <1>0, <2>1, MessagesAfterAppend DEF Items
  <2>. QED
    BY <1>0, <1>16, <2>2, MoveWithFacts DEF DeferredReport, Settled, Early, Phases, Move
<1>17. CASE DeferredMarkFailed(a)
  <2>1. Items(b)' = Items(b)
    BY <1>17 DEF DeferredMarkFailed, Items, MessagesOf
  <2>. QED
    BY <1>0, <1>17, <2>1, MoveWithFacts, LeaveBodyFacts
    DEF DeferredMarkFailed, Settled, Early, Phases, Move, Leave
<1>18. CASE Crash(a)
  <2>1. Items(b)' = Items(b)
    BY <1>18 DEF Crash, Items, MessagesOf
  <2>. QED
    BY <1>0, <1>18, <2>1, MoveWithFacts, LeaveBodyFacts
    DEF Crash, Settled, Early, Phases, Move, Leave
<1>19. CASE Beat(a)
  <2>1. task'[b].pc = task[b].pc
    BY <1>0, <1>19 DEF Beat, TypeOK, Task
  <2>2. Items(b)' = Items(b)
    BY <1>19 DEF Beat, Items, MessagesOf
  <2>. QED
    BY <2>1, <2>2 DEF Settled
<1>. QED
  BY <1>1, <1>2, <1>3, <1>4, <1>5, <1>6, <1>7, <1>8, <1>9, <1>10, <1>11, <1>12, <1>13, <1>14, <1>15, <1>16, <1>17, <1>18, <1>19
  DEF RunTask, Resume, Start, End, Cleanup

(* Nor do the server's steps add to it. *)
LEMMA ServerKeepsSettled ==
  ASSUME IInv, ServerStep, NEW b \in Attempts, Settled(b)
  PROVE  Settled(b)' /\ Items(b)' = Items(b)
<1>0. /\ resp.attempt \in Nat /\ b \in Nat /\ 1 \in Attempts /\ TypeOK /\ LogInv
      /\ "starting" \in Phases /\ "claimed" \in Phases /\ sweep.seq \in Nat /\ sweep.seq <= NextSeq
  <2>1. TypeOK /\ LogInv
    BY DEF IInv
  <2>2. resp.attempt \in Nat /\ sweep.seq \in Nat
    BY <2>1 DEF TypeOK, StoreTypeOK, Response, Sweeper
  <2>3. sweep.seq <= NextSeq
    BY <2>1 DEF LogInv
  <2>4. b \in Nat /\ 1 \in Attempts /\ "starting" \in Phases /\ "claimed" \in Phases
    BY DEF Attempts, Phases
  <2>. QED
    BY <2>1, <2>2, <2>3, <2>4
<1>1. \A c \in Attempts : c > resp.attempt => task[c].pc = "none"
  BY DEF IInv, LifeInv
<1>2. CASE HandleBackground
  <2>1. b # 1 \/ resp.attempt # 0
    BY <1>0, <1>1 DEF Settled, Early
  <2>2. resp.attempt = 0
    BY <1>2 DEF HandleBackground, IInv, LifeInv
  <2>3. task'[b] = task[b]
    BY <1>0, <1>2, <2>1, <2>2, MoveWithFacts DEF HandleBackground, Move
  <2>4. Items(b)' = Items(b)
    BY <1>2 DEF HandleBackground, Items, MessagesOf
  <2>. QED
    BY <2>3, <2>4 DEF Settled
<1>3. CASE Claim
  <2>0. resp'.attempt = resp.attempt + 1
    BY <1>0, <1>3 DEF Claim, ClaimStaleResponse, TypeOK, StoreTypeOK, Response
  <2>1. PICK a \in Attempts : a = resp'.attempt /\ a = resp.attempt + 1
    BY <1>0, <1>3, <2>0 DEF Claim, Attempts
  <2>2. a # b
    BY <1>0, <1>1, <2>1 DEF Settled, Early
  <2>3. task'[b] = task[b]
    BY <1>0, <1>3, <2>1, <2>2, MoveWithFacts DEF Claim, Move
  <2>4. Items(b)' = Items(b)
    BY <1>3 DEF Claim, Items, MessagesOf
  <2>. QED
    BY <2>3, <2>4 DEF Settled
<1>4. CASE Lapse \/ Age \/ Sweep \/ SweepRead
  BY <1>4 DEF Lapse, Age, Sweep, SweepRead, Settled, Items, MessagesOf
<1>5. CASE SweepReport
  <2>1. AppendMessage(sweep.seq, resp.attempt, "error") /\ task' = task
    BY <1>5 DEF SweepReport
  <2>2. Items(b)' = Items(b)
    BY <1>0, <2>1, MessagesAfterAppend DEF Items
  <2>. QED
    BY <2>1, <2>2 DEF Settled
<1>. QED
  BY <1>2, <1>3, <1>4, <1>5 DEF ServerStep, Retrieve

(* Hence no step adds an item to an attempt that has completed its response. *)
LEMMA SettledKept ==
  ASSUME IInv, [Next]_vars, NEW b \in Attempts, Settled(b)
  PROVE  Settled(b)' /\ Items(b)' = Items(b)
<1>1. CASE UNCHANGED vars
  BY <1>1 DEF vars, Settled, Items, MessagesOf
<1>2. CASE ServerStep
  BY <1>2, ServerKeepsSettled
<1>3. CASE \E a \in Attempts : RunTask(a)
  BY <1>3, StaysSettled
<1>. QED
  BY <1>1, <1>2, <1>3, StepsAreActions

-----------------------------------------------------------------------------
(* What the client was given ends at its cursor and leaves nothing out      *)
(* before it; what a poll has read and not delivered goes on from there, up *)
(* to the last message there was.  Once the stream has read `completed`,    *)
(* the attempt that completed it is settled: no later poll would find more. *)
Finished == resp.status \in Terminal /\ resp.attempt \in Attempts /\ Settled(resp.attempt)

InSequence(got) ==
  \A k \in DOMAIN got :
    \/ got[k] = 0 /\ \A j \in 1..(k-1) : got[j] = 0
    \/ k > 1 /\ got[k] = got[k-1] + 1

WasGiven(got, k) == \E i \in DOMAIN got : got[i] = k

Reaches(got, last) ==
  /\ InSequence(got)
  /\ got = <<>> => last = 0
  /\ got # <<>> => got[Len(got)] = last /\ \A k \in 0..last : WasGiven(got, k)

(* The numbers m..M come next. *)
ComesNext(batch, got, last, m, M) ==
  batch = m..M /\ m <= M /\ ((m = 0 /\ last = 0) \/ (got # <<>> /\ m = last + 1))

HoldsItems(M) == \A n \in Items(resp.attempt) : n <= M

Delivered == \A n \in Items(resp.attempt), k \in DOMAIN msgs : k <= n => WasGiven(stream.got, k)

StreamInv ==
  /\ stream \in Stream
  /\ Reaches(stream.got, stream.last)
  /\ stream.got # <<>> => stream.last \in DOMAIN msgs
  /\ stream.pc \in {"read", "send", "ended"} /\ stream.seen = "completed" => Finished
  /\ stream.pc = "send" =>
       \E m, M \in Nat : /\ ComesNext(stream.batch, stream.got, stream.last, m, M) /\ M \in DOMAIN msgs
                         /\ stream.seen = "completed" => HoldsItems(M)
  /\ stream.pc = "ended" /\ stream.seen = "completed" => Delivered

(* The client holds nothing at first. *)
LEMMA StreamInvInit == StreamInit => StreamInv
BY DEF StreamInit, StreamInv, Reaches, InSequence, Stream

(* Whatever the server does, what was delivered is in the log, and what was *)
(* read from it is still there.                                             *)
LEMMA StreamServer ==
  ASSUME IInv, StreamInv, Next, UNCHANGED stream
  PROVE  StreamInv'
<1>1. GrowsAtItsEnd /\ OutcomeStep
  BY IInvNext
<1>2. DOMAIN msgs \subseteq DOMAIN msgs'
  BY <1>1 DEF GrowsAtItsEnd
<1>3. CASE ~Finished
  BY <1>2, <1>3 DEF StreamInv
<1>4. CASE Finished
  <2>1. PICK b \in Attempts : b = resp.attempt /\ Settled(b)
    BY <1>4 DEF Finished
  <2>2. resp'.attempt = b /\ resp'.status \in Terminal
    BY <1>1, <1>4, <2>1 DEF OutcomeStep, Finished
  <2>3. Settled(b)' /\ Items(b)' = Items(b)
    BY <2>1, SettledKept
  <2>4. Finished'
    BY <2>2, <2>3 DEF Finished, Settled
  <2>5. Items(resp.attempt)' = Items(resp.attempt)
    BY <2>1, <2>2, <2>3 DEF Items, MessagesOf
  <2>6. ASSUME Delivered PROVE Delivered'
    <3>. SUFFICES ASSUME NEW n \in Items(b), NEW k \in DOMAIN msgs', k <= n
                  PROVE  WasGiven(stream.got, k)
      BY <2>1, <2>5 DEF Delivered
    <3>1. n \in DOMAIN msgs /\ n \in Int
      BY DEF Items, MessagesOf, IInv, TypeOK, StoreTypeOK
    <3>2. DOMAIN msgs' \subseteq Int
      BY IInvNext DEF IInv, TypeOK, StoreTypeOK
    <3>3. k \in DOMAIN msgs
      BY <1>1, <3>1, <3>2 DEF GrowsAtItsEnd
    <3>. QED
      BY <2>1, <2>6, <3>3 DEF Delivered
  <2>7. \A M : HoldsItems(M) => HoldsItems(M)'
    BY <2>5 DEF HoldsItems
  <2>. QED
    BY <1>2, <2>4, <2>6, <2>7 DEF StreamInv
<1>. QED
  BY <1>3, <1>4

(* One more delivery, of the message that comes next. *)
LEMMA DeliveredNext ==
  ASSUME NEW got \in Seq(Nat), NEW last \in Nat, NEW m \in Nat, Reaches(got, last),
         (m = 0 /\ last = 0) \/ (got # <<>> /\ m = last + 1)
  PROVE  /\ Append(got, m) \in Seq(Nat) /\ Append(got, m) # <<>>
         /\ Reaches(Append(got, m), m)
<1>. DEFINE more == Append(got, m)
            L == Len(got)
<1>1. /\ L \in Nat /\ DOMAIN got = 1..L /\ DOMAIN more = 1..(L + 1) /\ Len(more) = L + 1
      /\ more[L + 1] = m /\ (\A k \in 1..L : more[k] = got[k] /\ got[k] \in Nat)
      /\ more \in Seq(Nat) /\ more # <<>> /\ (got # <<>> => L >= 1)
  OBVIOUS
<1>. HIDE DEF more, L
<1>2. got # <<>> => L \in 1..L /\ got[L] = last
  BY <1>1 DEF Reaches, L
<1>3. last = 0 => \A j \in 1..L : got[j] = 0
  <2>. SUFFICES ASSUME last = 0, NEW j \in 1..L PROVE got[j] = 0
    OBVIOUS
  <2>1. L \in 1..L /\ got[L] = 0 /\ got # <<>>
    <3>1. got # <<>>
      BY DEF L
    <3>. QED
      BY <1>2, <3>1
  <2>2. \/ \A i \in 1..(L-1) : got[i] = 0
        \/ L > 1 /\ got[L] = got[L-1] + 1
    BY <1>1, <2>1 DEF Reaches, InSequence
  <2>3. ~(L > 1 /\ got[L] = got[L-1] + 1)
    BY <1>1, <2>1
  <2>. QED
    BY <1>1, <2>1, <2>2, <2>3
<1>4. InSequence(more)
  <2>. SUFFICES ASSUME NEW k \in 1..(L + 1)
                PROVE  \/ more[k] = 0 /\ \A j \in 1..(k-1) : more[j] = 0
                       \/ k > 1 /\ more[k] = more[k-1] + 1
    BY <1>1 DEF InSequence
  <2>1. CASE k \in 1..L
    <3>1. \/ got[k] = 0 /\ \A j \in 1..(k-1) : got[j] = 0
          \/ k > 1 /\ got[k] = got[k-1] + 1
      BY <1>1, <2>1 DEF Reaches, InSequence
    <3>. QED
      BY <1>1, <2>1, <3>1
  <2>2. CASE k = L + 1 /\ m = 0 /\ last = 0
    BY <1>1, <1>3, <2>2
  <2>3. CASE k = L + 1 /\ got # <<>> /\ m = last + 1
    BY <1>1, <1>2, <2>3
  <2>. QED
    BY <1>1, <2>1, <2>2, <2>3
<1>5. ASSUME NEW k \in 0..m PROVE WasGiven(more, k)
  <2>1. CASE k = m
    BY <1>1, <2>1 DEF WasGiven
  <2>2. CASE k # m
    <3>1. got # <<>> /\ k \in 0..last
      BY <2>2
    <3>2. PICK i \in DOMAIN got : got[i] = k
      BY <3>1 DEF Reaches, WasGiven
    <3>3. i \in 1..L /\ i \in DOMAIN more
      BY <1>1, <3>2
    <3>4. more[i] = k
      BY <1>1, <3>2, <3>3
    <3>. QED
      BY <3>3, <3>4 DEF WasGiven
  <2>. QED
    BY <2>1, <2>2
<1>6. Reaches(more, m)
  BY <1>1, <1>4, <1>5 DEF Reaches
<1>. QED
  BY <1>1, <1>6 DEF more

(* What a poll reads goes on from what the client holds, to the end of the log. *)
LEMMA AfterIsTheRest ==
  ASSUME IInv, StreamInv
  PROVE  /\ After \subseteq Nat
         /\ After = {} => \A k \in DOMAIN msgs : WasGiven(stream.got, k)
         /\ After # {} => \E m, M \in Nat : /\ ComesNext(After, stream.got, stream.last, m, M)
                                            /\ M \in DOMAIN msgs /\ HoldsItems(M)
<1>1. PICK n \in Nat : DOMAIN msgs = 0..(n-1)
  BY DEF IInv, LogInv, Contiguous
<1>2. stream.last \in Nat
  BY DEF StreamInv, Stream
<1>3. HoldsItems(n-1)
  BY <1>1 DEF HoldsItems, Items, MessagesOf
<1>4. CASE stream.last = 0
  <2>1. After = 0..(n-1)
    BY <1>1, <1>4 DEF After
  <2>2. CASE n = 0
    BY <1>1, <2>1, <2>2
  <2>3. CASE n > 0
    <3>1. ComesNext(After, stream.got, stream.last, 0, n-1) /\ n-1 \in Nat /\ n-1 \in DOMAIN msgs /\ After # {}
      BY <1>1, <1>4, <2>1, <2>3 DEF ComesNext
    <3>. QED
      BY <1>3, <2>1, <3>1
  <2>. QED
    BY <2>2, <2>3
<1>5. CASE stream.last # 0
  <2>1. stream.got # <<>> /\ stream.last \in 0..(n-1) /\ \A k \in 0..stream.last : WasGiven(stream.got, k)
    BY <1>1, <1>5 DEF StreamInv, Reaches
  <2>2. After = (stream.last + 1)..(n-1)
    BY <1>1, <1>2, <1>5 DEF After
  <2>3. CASE stream.last = n-1
    BY <1>1, <1>2, <2>1, <2>2, <2>3
  <2>4. CASE stream.last < n-1
    <3>1. /\ ComesNext(After, stream.got, stream.last, stream.last + 1, n-1)
          /\ stream.last + 1 \in Nat /\ n-1 \in Nat /\ n-1 \in DOMAIN msgs /\ After # {}
      BY <1>1, <1>2, <2>1, <2>2, <2>4 DEF ComesNext
    <3>. QED
      BY <1>2, <1>3, <2>2, <3>1
  <2>. QED
    BY <2>1, <2>3, <2>4
<1>. QED
  BY <1>4, <1>5

(* A stream that goes on with `left`. *)
LEMMA GoOnIs ==
  ASSUME NEW s \in Stream, NEW left \in SUBSET Nat
  PROVE  /\ GoOn(s, left) \in Stream /\ GoOn(s, left).got = s.got /\ GoOn(s, left).last = s.last
         /\ left # {} => GoOn(s, left).pc = "send" /\ GoOn(s, left).batch = left /\ GoOn(s, left).seen = s.seen
         /\ left = {} => /\ GoOn(s, left).pc \in {"ended", "poll"}
                         /\ GoOn(s, left).pc = "ended" => GoOn(s, left).seen = s.seen
<1>1. CASE left # {}
  BY <1>1 DEF GoOn, Stream
<1>2. CASE left = {} /\ s.seen \in Terminal
  BY <1>2 DEF GoOn, Stream
<1>3. CASE left = {} /\ s.seen \notin Terminal
  BY <1>3 DEF GoOn, Stream
<1>. QED
  BY <1>1, <1>2, <1>3

(* The status a poll reads: once it is `completed`, nothing can follow. *)
LEMMA StatusReadKeeps ==
  ASSUME IInv, StreamInv, PollStatus
  PROVE  StreamInv'
<1>0. stream \in Stream /\ UNCHANGED vars
  BY DEF StreamInv, PollStatus
<1>1. resp.status \in {"none", "in_progress", "completed", "failed"} /\ resp.attempt \in Nat
  BY DEF IInv, TypeOK, StoreTypeOK, Response
<1>2. resp.status = "completed" => Finished
  <2>. SUFFICES ASSUME resp.status = "completed" PROVE Finished
    OBVIOUS
  <2>1. resp.attempt \in Attempts
    BY <1>1 DEF IInv, TypeOK, LifeInv, Attempts
  <2>2. task[resp.attempt].returned
    BY DEF IInv, LifeInv, CompletedByItsOwner
  <2>. QED
    BY <2>1, <2>2 DEF IInv, LifeInv, Finished, Settled, Terminal
<1>3. /\ stream' \in Stream /\ stream'.pc = "read" /\ stream'.seen = resp.status
      /\ stream'.last = stream.last /\ stream'.got = stream.got
  BY <1>0, <1>1 DEF PollStatus, Stream
<1>4. DOMAIN msgs' = DOMAIN msgs /\ Finished' = Finished
  BY <1>0 DEF vars, Finished, Settled
<1>. QED
  BY <1>2, <1>3, <1>4 DEF StreamInv

(* The messages a poll reads are all there were, and a stream that ends for *)
(* want of any had delivered them before.                                   *)
LEMMA MessagesReadKeep ==
  ASSUME IInv, StreamInv, PollMessages
  PROVE  StreamInv'
<1>0. stream \in Stream /\ UNCHANGED vars /\ stream' = GoOn(stream, After) /\ After \in SUBSET Nat /\ stream.pc = "read"
  BY AfterIsTheRest DEF StreamInv, PollMessages
<1>1. /\ stream' \in Stream /\ stream'.got = stream.got /\ stream'.last = stream.last
      /\ After # {} => stream'.pc = "send" /\ stream'.batch = After /\ stream'.seen = stream.seen
      /\ After = {} => stream'.pc \in {"ended", "poll"} /\ (stream'.pc = "ended" => stream'.seen = stream.seen)
  BY <1>0, GoOnIs
<1>2. /\ DOMAIN msgs' = DOMAIN msgs /\ Finished' = Finished /\ Items(resp.attempt)' = Items(resp.attempt)
  BY <1>0 DEF vars, Finished, Settled, Items, MessagesOf
<1>3. \A M : HoldsItems(M)' = HoldsItems(M)
  BY <1>2 DEF HoldsItems
<1>4. CASE After # {}
  <2>1. PICK m \in Nat, M \in Nat : /\ ComesNext(After, stream.got, stream.last, m, M)
                                    /\ M \in DOMAIN msgs /\ HoldsItems(M)
    BY <1>4, AfterIsTheRest
  <2>2. ComesNext(stream'.batch, stream'.got, stream'.last, m, M) /\ M \in DOMAIN msgs' /\ HoldsItems(M)'
    BY <1>1, <1>2, <1>3, <1>4, <2>1
  <2>3. stream'.pc = "send" /\ (stream'.seen = "completed" => Finished')
    BY <1>0, <1>1, <1>2, <1>4 DEF StreamInv
  <2>. QED
    BY <1>1, <1>2, <2>2, <2>3 DEF StreamInv
<1>5. CASE After = {}
  <2>1. Delivered'
    BY <1>1, <1>2, <1>5, AfterIsTheRest DEF Delivered
  <2>2. stream'.pc \in {"ended", "poll"} /\ (stream'.pc = "ended" /\ stream'.seen = "completed" => Finished')
    BY <1>0, <1>1, <1>2, <1>5 DEF StreamInv
  <2>. QED
    BY <1>1, <1>2, <2>1, <2>2 DEF StreamInv
<1>. QED
  BY <1>4, <1>5

(* A delivery: the first of the batch comes next, and with the last of it    *)
(* everything up to the end of the log that was read has been delivered.    *)
LEMMA DeliverKeeps ==
  ASSUME IInv, StreamInv, Deliver
  PROVE  StreamInv'
<1>0. /\ stream \in Stream /\ UNCHANGED vars /\ stream.pc = "send" /\ stream.got \in Seq(Nat) /\ stream.last \in Nat
      /\ Reaches(stream.got, stream.last)
  BY DEF StreamInv, Deliver, Stream
<1>1. PICK m \in Nat, M \in Nat : /\ ComesNext(stream.batch, stream.got, stream.last, m, M) /\ M \in DOMAIN msgs
                                  /\ stream.seen = "completed" => HoldsItems(M)
  BY <1>0 DEF StreamInv
<1>. DEFINE got == Append(stream.got, m)
            y == [stream EXCEPT !.last = m, !.got = got]
            left == stream.batch \ {m}
<1>2. stream' = GoOn(y, left)
  <2>1. PICK k \in stream.batch : /\ \A n \in stream.batch : k <= n
                                  /\ stream' = GoOn([stream EXCEPT !.last = k, !.got = Append(stream.got, k)],
                                                    stream.batch \ {k})
    BY DEF Deliver
  <2>2. k = m
    BY <1>1, <2>1 DEF ComesNext
  <2>. QED
    BY <2>1, <2>2
<1>3. got \in Seq(Nat) /\ got # <<>> /\ Reaches(got, m)
  BY <1>0, <1>1, DeliveredNext DEF ComesNext
<1>. HIDE DEF got
<1>4. y \in Stream /\ y.got = got /\ y.last = m /\ y.seen = stream.seen
  BY <1>0, <1>3 DEF Stream
<1>5. left = (m + 1)..M /\ left \in SUBSET Nat
  BY <1>1 DEF ComesNext
<1>. HIDE DEF y, left
<1>6. /\ stream' \in Stream /\ stream'.got = got /\ stream'.last = m
      /\ left # {} => stream'.pc = "send" /\ stream'.batch = left /\ stream'.seen = stream.seen
      /\ left = {} => stream'.pc \in {"ended", "poll"} /\ (stream'.pc = "ended" => stream'.seen = stream.seen)
  <2>1. PICK s \in Stream, rest \in SUBSET Nat : s = y /\ rest = left
    BY <1>4, <1>5
  <2>2. /\ GoOn(s, rest) \in Stream /\ GoOn(s, rest).got = s.got /\ GoOn(s, rest).last = s.last
        /\ rest # {} => GoOn(s, rest).pc = "send" /\ GoOn(s, rest).batch = rest /\ GoOn(s, rest).seen = s.seen
        /\ rest = {} => /\ GoOn(s, rest).pc \in {"ended", "poll"}
                        /\ GoOn(s, rest).pc = "ended" => GoOn(s, rest).seen = s.seen
    BY GoOnIs
  <2>3. stream' = GoOn(s, rest) /\ s.got = got /\ s.last = m /\ s.seen = stream.seen
    BY <1>2, <1>4, <2>1
  <2>. QED
    BY <2>1, <2>2, <2>3
<1>7. /\ DOMAIN msgs' = DOMAIN msgs /\ Finished' = Finished /\ Items(resp.attempt)' = Items(resp.attempt)
  BY <1>0 DEF vars, Finished, Settled, Items, MessagesOf
<1>8. m \in DOMAIN msgs' /\ DOMAIN msgs \subseteq Nat
  <2>1. PICK n \in Nat : DOMAIN msgs = 0..(n-1)
    BY DEF IInv, LogInv, Contiguous
  <2>. QED
    BY <1>1, <1>7, <2>1 DEF ComesNext
<1>9. stream.seen = "completed" => Finished' /\ HoldsItems(M)'
  BY <1>0, <1>1, <1>7 DEF StreamInv, HoldsItems
<1>10. CASE left # {}
  <2>1. ComesNext(stream'.batch, stream'.got, stream'.last, m + 1, M) /\ m + 1 \in Nat
    BY <1>1, <1>3, <1>5, <1>6, <1>10 DEF ComesNext
  <2>2. stream'.pc = "send" /\ stream'.seen = stream.seen /\ M \in DOMAIN msgs'
    BY <1>1, <1>6, <1>7, <1>10
  <2>. QED
    BY <1>3, <1>6, <1>8, <1>9, <2>1, <2>2 DEF StreamInv
<1>11. CASE left = {}
  <2>1. m = M
    BY <1>1, <1>5, <1>11 DEF ComesNext
  <2>2. ASSUME stream.seen = "completed" PROVE Delivered'
    <3>. SUFFICES ASSUME NEW n \in Items(resp.attempt), NEW k \in DOMAIN msgs, k <= n PROVE WasGiven(got, k)
      BY <1>6, <1>7 DEF Delivered
    <3>1. n <= m /\ n \in Nat /\ k \in Nat
      BY <1>1, <1>8, <2>1, <2>2 DEF HoldsItems, Items, MessagesOf
    <3>. QED
      BY <1>3, <3>1 DEF Reaches
  <2>3. stream'.pc \in {"ended", "poll"} /\ (stream'.pc = "ended" => stream'.seen = stream.seen)
    BY <1>6, <1>11
  <2>. QED
    BY <1>3, <1>6, <1>8, <1>9, <2>2, <2>3 DEF StreamInv
<1>. QED
  BY <1>10, <1>11

(* Whatever the client does, polling, dropping and opening again, what it was given is in order. *)
LEMMA StreamClient ==
  ASSUME IInv, StreamInv, Open \/ Poll \/ Deliver \/ Drop
  PROVE  StreamInv'
<1>1. CASE Open \/ Drop
  <2>1. UNCHANGED vars /\ stream \in Stream
    BY <1>1 DEF Open, Drop, StreamInv
  <2>2. /\ stream' \in Stream /\ stream'.pc \in {"poll", "off"} /\ stream'.last = stream.last /\ stream'.got = stream.got
    BY <1>1, <2>1 DEF Open, Drop, Stream
  <2>3. DOMAIN msgs' = DOMAIN msgs
    BY <2>1 DEF vars
  <2>. QED
    BY <2>2, <2>3 DEF StreamInv
<1>. QED
  BY <1>1, StatusReadKeeps, MessagesReadKeep, DeliverKeeps DEF Poll

-----------------------------------------------------------------------------
(* A stream sees the server of LongRunning and does not disturb it.         *)
THEOREM StreamInvariant == StreamSpec => [](IInv /\ StreamInv)
<1>1. StreamInit => IInv /\ StreamInv
  BY IInvInit, StreamInvInit DEF StreamInit
<1>2. IInv /\ StreamInv /\ [StreamNext]_svars => (IInv /\ StreamInv)'
  <2>. SUFFICES ASSUME IInv, StreamInv, [StreamNext]_svars PROVE (IInv /\ StreamInv)'
    OBVIOUS
  <2>1. CASE Next /\ UNCHANGED stream
    BY <2>1, IInvNext, StreamServer
  <2>2. CASE Open \/ Poll \/ Deliver \/ Drop
    <3>1. UNCHANGED vars
      BY <2>2 DEF Open, Poll, PollStatus, PollMessages, Deliver, Drop
    <3>. QED
      BY <2>2, <3>1, IInvNext, StreamClient
  <2>3. CASE UNCHANGED svars
    <3>1. UNCHANGED vars /\ stream' = stream
      BY <2>3 DEF svars
    <3>2. IInv'
      BY <3>1, IInvNext
    <3>3. StreamInv'
      BY <3>1 DEF vars, StreamInv, HoldsItems, Finished, Delivered, Settled, Items, MessagesOf
    <3>. QED
      BY <3>2, <3>3
  <2>. QED
    BY <2>1, <2>2, <2>3 DEF StreamNext
<1>. QED
  BY <1>1, <1>2, PTL DEF StreamSpec

(* Every variable of the server and the client stays in its type.           *)
THEOREM StreamTypeCorrect == StreamSpec => []StreamTypeOK
<1>1. IInv /\ StreamInv => StreamTypeOK
  BY DEF IInv, StreamInv, StreamTypeOK
<1>. QED
  BY <1>1, StreamInvariant, PTL

(* _stream_retrieve: whatever writes the log and however often the client   *)
(* comes back with its cursor, it is given the messages one after the       *)
(* other, each once but for message 0, which repeats while it is all there. *)
THEOREM ClientsReadInOrder == StreamSpec => []DeliversInOrder
<1>1. StreamInv => DeliversInOrder
  BY DEF StreamInv, Reaches, InSequence, DeliversInOrder
<1>. QED
  BY <1>1, StreamInvariant, PTL

(* _stream_retrieve reads the status before the messages: [DONE] comes      *)
(* after all the messages of the attempt that completed the response.       *)
THEOREM DoneMeansAll == StreamSpec => []DoneIsComplete
<1>1. StreamInv => DoneIsComplete
  BY DEF StreamInv, Delivered, WasGiven, DoneIsComplete, Items
<1>. QED
  BY <1>1, StreamInvariant, PTL

(* A client that follows, loses and reopens its stream is given everything, *)
(* in order, and nothing but message 0 more than once.                      *)
THEOREM StreamsAreSound == StreamSpec => []StreamIsSound
<1>. QED
  BY ClientsReadInOrder, DoneMeansAll, PTL DEF StreamIsSound

-----------------------------------------------------------------------------
(* ResultTruncation *)

USE TruncationAssumption DEF TruncationAssumption

(* The middle of a nonempty interval lies in it.                              *)
LEMMA MiddleInside ==
  ASSUME NEW a \in Nat, NEW b \in Nat, a < b
  PROVE  (a + b) \div 2 \in Nat /\ a <= (a + b) \div 2 /\ (a + b) \div 2 < b
  OBVIOUS

(* The search starts from an interval that holds the answer.                  *)
LEMMA SearchStarts == TruncationInit => SearchInvariant /\ ShowsWhatFits
<1> SUFFICES ASSUME TruncationInit PROVE SearchInvariant /\ ShowsWhatFits
  OBVIOUS
<1>1. SearchInvariant
  BY DEF TruncationInit, SearchInvariant, TooBig, Unknown
<1>2. ShowsWhatFits
  BY DEF TruncationInit, ShowsWhatFits, TooBig, Unknown
<1> QED BY <1>1, <1>2

(* A step of the search keeps what it knows, and the cut is where it ends.    *)
LEMMA SearchGoesOn ==
  SearchInvariant /\ ShowsWhatFits /\ [TruncationNext]_truncationVars
    => SearchInvariant' /\ ShowsWhatFits'
<1> SUFFICES ASSUME SearchInvariant, ShowsWhatFits, [TruncationNext]_truncationVars
             PROVE  SearchInvariant' /\ ShowsWhatFits'
  OBVIOUS
<1>t. lo \in Nat /\ hi \in Nat /\ size \in [0..Rows -> 0..2 * MaxTokens]
  BY DEF SearchInvariant, Sizes
<1>m. \A m, n \in 0..Rows : m <= n => size[m] <= size[n]
  BY DEF SearchInvariant, Sizes
<1>1. CASE SearchHigher
  <2>1. Middle \in Nat /\ lo <= Middle /\ Middle < hi
    BY <1>1, <1>t, MiddleInside DEF SearchHigher, Middle
  <2>2. \A n \in 0..Rows : n < Middle + 1 => ~TooBig(n)
    <3>1. Middle \in 0..Rows
      BY <2>1 DEF SearchInvariant
    <3> QED BY <1>1, <1>t, <1>m, <2>1, <3>1 DEF SearchHigher, TooBig
  <2>3. SearchInvariant'
    BY <1>1, <2>1, <2>2 DEF SearchHigher, SearchInvariant, TooBig
  <2> QED BY <1>1, <2>3 DEF SearchHigher, ShowsWhatFits, Unknown
<1>2. CASE SearchLower
  <2>1. Middle \in Nat /\ lo <= Middle /\ Middle < hi
    BY <1>2, <1>t, MiddleInside DEF SearchLower, Middle
  <2>2. \A n \in 0..Rows : n >= Middle => TooBig(n)
    <3>1. Middle \in 0..Rows
      BY <2>1 DEF SearchInvariant
    <3> QED BY <1>2, <1>t, <1>m, <2>1, <3>1 DEF SearchLower, TooBig
  <2>3. SearchInvariant'
    BY <1>2, <2>1, <2>2 DEF SearchLower, SearchInvariant, TooBig
  <2> QED BY <1>2, <2>3 DEF SearchLower, ShowsWhatFits, Unknown
<1>3. CASE Truncate
  <2>1. /\ lo = hi /\ lo \in 0..Rows
        /\ \A n \in 0..Rows : (n < lo => ~TooBig(n)) /\ (n >= lo => TooBig(n))
    BY <1>3, <1>t DEF Truncate, SearchInvariant
  <2>2. shown' = lo - 1
    <3>1. CASE lo = 0
      BY <1>3, <3>1 DEF Truncate, Cut
    <3>2. CASE lo # 0
      BY <1>3, <2>1, <3>2 DEF Truncate, Cut
    <3> QED BY <3>1, <3>2
  <2>3. SearchInvariant'
    BY <1>3, <2>1, <2>2 DEF Truncate, SearchInvariant, TooBig, Unknown
  <2>4. ShowsWhatFits'
    BY <1>3, <2>1, <2>2 DEF Truncate, ShowsWhatFits, TooBig, Unknown
  <2> QED BY <2>3, <2>4
<1>4. CASE UNCHANGED truncationVars
  BY <1>4 DEF truncationVars, SearchInvariant, ShowsWhatFits, TooBig
<1> QED BY <1>1, <1>2, <1>3, <1>4 DEF TruncationNext

(* What is shown of a result fits the token budget and one row more does not, *)
(* for every table whose size grows with its rows.                            *)
THEOREM TruncationFits == TruncationSpec => []ShowsWhatFits
<1>1. TruncationInit => SearchInvariant /\ ShowsWhatFits
  BY SearchStarts
<1>2. SearchInvariant /\ ShowsWhatFits /\ [TruncationNext]_truncationVars
        => SearchInvariant' /\ ShowsWhatFits'
  BY SearchGoesOn
<1> QED BY <1>1, <1>2, PTL DEF TruncationSpec

-----------------------------------------------------------------------------
(***************************************************************************)
(* SessionItems.  The log of a session is in the order of its stamps, and   *)
(* a listing that nothing was taken away from is a beginning of it.         *)
(***************************************************************************)
LogIs(s, D) ==
  /\ s \in [exists : BOOLEAN, clock : Nat, log : Seq([time : Nat, data : D])]
  /\ \A k \in DOMAIN s.log : s.log[k].time \in 1..s.clock
  /\ \A j, k \in DOMAIN s.log : j < k => s.log[j].time < s.log[k].time

Stamped(D) == [time : Nat, data : D]

(* What a listing with the token `after` has behind it: n items.            *)
CutAt(s, after, n) ==
  /\ n \in 0..Len(s.log) /\ \A k \in DOMAIN s.log : s.log[k].time > after <=> k > n

Follows(s, l) ==
  /\ CutAt(s, l.token, Len(l.got)) /\ l.token <= s.clock
  /\ \A k \in 1..Len(l.got) : l.got[k] = s.log[k].data

Lists(D) == [got : Seq(D), token : Nat]

(* A set of numbers has a least one.                                        *)
LEMMA LeastExists ==
  ASSUME NEW T \in SUBSET Nat, T # {}
  PROVE  \E t \in T : \A m \in T : t <= m
<1>. DEFINE R == {ss \in Nat \X Nat : ss[1] < ss[2]}
<1>1. IsWellFoundedOn(R, Nat)
  BY NatLessThanWellFounded DEF OpToRel
<1>. HIDE DEF R
<1>2. PICK t \in T : \A m \in T : ~(<<m, t>> \in R)
  BY <1>1, WFMin
<1>3. \A m, k \in Nat : m < k => <<m, k>> \in R
  BY DEF R
<1>4. \A m \in T : t \in Nat /\ m \in Nat /\ ~(m < t)
  BY <1>2, <1>3
<1>. QED
  BY <1>4

(* A part of a sequence has the items of its places. *)
LEMMA SliceIs ==
  ASSUME NEW D, NEW q \in Seq(D), NEW a \in Nat, NEW b \in Nat, 1 <= a, b <= Len(q), NEW n \in Nat, n = b - a + 1
  PROVE  /\ SubSeq(q, a, b) \in Seq(D) /\ Len(SubSeq(q, a, b)) = n
         /\ \A k \in 1..n : SubSeq(q, a, b)[k] = q[a + k - 1]
<1>1. a \in Int /\ b \in Int /\ \A k \in a..b : q[k] \in D
  OBVIOUS
<1>2. a <= b \/ n = 0
  OBVIOUS
<1>3. /\ SubSeq(q, a, b) \in Seq(D) /\ Len(SubSeq(q, a, b)) = IF a <= b THEN b - a + 1 ELSE 0
      /\ \A k \in 1..(b - a + 1) : SubSeq(q, a, b)[k] = q[a + k - 1]
  BY <1>1, SubSeqProperties
<1>4. (IF a <= b THEN b - a + 1 ELSE 0) = n
  BY <1>2
<1>. QED
  BY <1>3, <1>4

(* The stamps a token divides, the earlier and the later ones.              *)
LEMMA CutExists ==
  ASSUME NEW D, NEW s, LogIs(s, D), NEW after \in Nat
  PROVE  \E n \in 0..Len(s.log) : CutAt(s, after, n)
<1>1. PICK len \in Nat : /\ len = Len(s.log) /\ DOMAIN s.log = 1..len
                         /\ \A k \in 1..len : s.log[k].time \in Nat
  BY DEF LogIs
<1>. DEFINE T == {m \in Nat : m <= len /\ \A k \in 1..len : k > m => s.log[k].time > after}
<1>2. len \in T
  BY <1>1
<1>3. PICK n \in T : \A m \in T : n <= m
  <2>1. T \in SUBSET Nat /\ T # {}
    BY <1>2
  <2>. HIDE DEF T
  <2>. QED
    BY <2>1, LeastExists
<1>4. n \in 0..len /\ n \in Nat /\ \A k \in 1..len : k > n => s.log[k].time > after
  BY <1>1, <1>3
<1>5. n # 0 => s.log[n].time <= after
  <2>. SUFFICES ASSUME n # 0, ~(s.log[n].time <= after)
                PROVE  FALSE
    OBVIOUS
  <2>1. n \in 1..len /\ s.log[n].time > after
    BY <1>1, <1>4
  <2>2. n - 1 \in Nat /\ n - 1 <= len /\ \A k \in 1..len : k > n - 1 => k = n \/ k > n
    BY <1>1, <2>1
  <2>3. n - 1 \in T
    BY <1>1, <1>4, <2>1, <2>2
  <2>. HIDE DEF T
  <2>. QED
    BY <1>3, <1>4, <2>3
<1>. HIDE DEF T
<1>6. \A k \in 1..len : k <= n => s.log[k].time <= after
  <2>. SUFFICES ASSUME NEW k \in 1..len, k <= n
                PROVE  s.log[k].time <= after
    OBVIOUS
  <2>1. n \in 1..len /\ n # 0 /\ (k = n \/ k < n)
    BY <1>1, <1>4
  <2>2. k < n => s.log[k].time < s.log[n].time
    BY <1>1, <2>1 DEF LogIs
  <2>3. s.log[k].time \in Nat /\ s.log[n].time \in Nat
    BY <1>1, <2>1
  <2>. QED
    BY <1>5, <2>1, <2>2, <2>3
<1>7. \A k \in 1..len : s.log[k].time > after <=> k > n
  BY <1>1, <1>4, <1>6
<1>. QED
  BY <1>1, <1>4, <1>7 DEF CutAt

(* What is later than a token is what lies behind its cut.                  *)
LEMMA LaterIs ==
  ASSUME NEW D, NEW s, LogIs(s, D), NEW after, NEW n, CutAt(s, after, n)
  PROVE  Later(s, after) = SubSeq(s.log, n + 1, Len(s.log))
<1>. DEFINE len == Len(s.log)
            Divides(m) == \A k \in DOMAIN s.log : s.log[k].time > after <=> k >= m
            first == CHOOSE m \in 1..(len + 1) : Divides(m)
<1>1. len \in Nat /\ DOMAIN s.log = 1..len /\ n \in 0..len
  BY DEF LogIs, CutAt
<1>2. n + 1 \in 1..(len + 1) /\ Divides(n + 1)
  BY <1>1 DEF CutAt
<1>3. first \in 1..(len + 1) /\ Divides(first)
  <2>. HIDE DEF Divides
  <2>. QED
    BY <1>2
<1>. HIDE DEF first
<1>4. first = n + 1
  <2>1. first > n + 1 => FALSE
    BY <1>1, <1>2, <1>3
  <2>2. first < n + 1 => FALSE
    BY <1>1, <1>2, <1>3
  <2>. QED
    BY <1>1, <1>3, <2>1, <2>2
<1>. QED
  BY <1>4 DEF Later, first

(* Places and stamps of what is put behind something. *)
LEMMA Places ==
  ASSUME NEW len \in Nat, NEW more \in Nat
  PROVE  /\ \A k \in 1..len : k \in 1..(len + more) /\ k <= len
         /\ \A k \in 1..more : len + k \in 1..(len + more) /\ ~(len + k <= len) /\ len + k - len = k
         /\ \A k \in 1..(len + more) : k \in 1..len \/ \E j \in 1..more : k = len + j
<1>1. ASSUME NEW k \in 1..(len + more), k \notin 1..len
      PROVE  k - len \in 1..more /\ k = len + (k - len)
  BY <1>1
<1>. QED
  BY <1>1

(* The next stamps of a clock are later than every stamp it has given. *)
LEMMA Stamps ==
  ASSUME NEW c \in Nat, NEW more \in Nat
  PROVE  /\ \A k \in 1..more : c + k \in Nat /\ c + k \in 1..(c + more) /\ c < c + k
         /\ \A t \in 1..c : t \in 1..(c + more) /\ \A k \in 1..more : t < c + k
         /\ \A j, k \in 1..more : c + j < c + k <=> j < k
OBVIOUS

(* The two halves of a concatenation, by place. *)
LEMMA ConcatIs ==
  ASSUME NEW D, NEW a \in Seq(D), NEW b \in Seq(D), NEW len \in Nat, NEW more \in Nat,
         len = Len(a), more = Len(b), NEW whole, whole = a \o b
  PROVE  /\ whole \in Seq(D) /\ Len(whole) = len + more
         /\ \A k \in 1..len : whole[k] = a[k]
         /\ \A k \in 1..more : whole[len + k] = b[k]
<1>1. /\ whole \in Seq(D) /\ Len(whole) = len + more
      /\ \A k \in 1..(len + more) : whole[k] = IF k <= len THEN a[k] ELSE b[k - len]
  BY ConcatProperties
<1>2. \A k \in 1..len : whole[k] = a[k]
  BY <1>1, Places
<1>3. ASSUME NEW k \in 1..more
      PROVE  whole[len + k] = b[k]
  <2>1. len + k \in 1..(len + more) /\ ~(len + k <= len) /\ len + k - len = k
    BY Places
  <2>. QED
    BY <1>1, <2>1
<1>. QED
  BY <1>1, <1>2, <1>3

(* What is left of a sequence behind its first n items. *)
LEMMA TailIs ==
  ASSUME NEW D, NEW q \in Seq(D), NEW n \in Nat, NEW rest \in Nat, NEW len \in Nat, len = Len(q), n + rest = len
  PROVE  /\ SubSeq(q, n + 1, len) \in Seq(D) /\ Len(SubSeq(q, n + 1, len)) = rest
         /\ \A k \in 1..rest : SubSeq(q, n + 1, len)[k] = q[n + k]
<1>1. PICK from \in Nat : from = n + 1
  OBVIOUS
<1>2. 1 <= from /\ len <= Len(q) /\ rest = len - from + 1
  BY <1>1
<1>3. /\ SubSeq(q, from, len) \in Seq(D) /\ Len(SubSeq(q, from, len)) = rest
      /\ \A k \in 1..rest : SubSeq(q, from, len)[k] = q[from + k - 1]
  BY <1>2, SliceIs
<1>4. \A k \in 1..rest : from + k - 1 = n + k
  BY <1>1
<1>5. \A k \in 1..rest : SubSeq(q, from, len)[k] = q[n + k]
  BY Zenon, <1>3, <1>4
<1>. QED
  BY Zenon, <1>1, <1>3, <1>5

(* The first n items of a sequence. *)
LEMMA HeadIs ==
  ASSUME NEW D, NEW q \in Seq(D), NEW n \in Nat, n <= Len(q)
  PROVE  /\ SubSeq(q, 1, n) \in Seq(D) /\ Len(SubSeq(q, 1, n)) = n
         /\ \A k \in 1..n : SubSeq(q, 1, n)[k] = q[k]
<1>1. 1 \in Nat /\ 1 <= 1 /\ n = n - 1 + 1
  OBVIOUS
<1>2. /\ SubSeq(q, 1, n) \in Seq(D) /\ Len(SubSeq(q, 1, n)) = n
      /\ \A k \in 1..n : SubSeq(q, 1, n)[k] = q[1 + k - 1]
  BY <1>1, SliceIs
<1>3. \A k \in 1..n : 1 + k - 1 = k
  OBVIOUS
<1>4. \A k \in 1..n : SubSeq(q, 1, n)[k] = q[k]
  BY Zenon, <1>2, <1>3
<1>. QED
  BY Zenon, <1>2, <1>4

(* What is left behind n of len items is a number of items. *)
LEMMA Remains ==
  ASSUME NEW len \in Nat, NEW n \in 0..len
  PROVE  \E rest \in Nat : rest = len - n /\ n + rest = len
OBVIOUS

(* A page is the next few items.                                            *)
LEMMA PageIs ==
  ASSUME NEW D, NEW s, LogIs(s, D), NEW after, NEW n, CutAt(s, after, n),
         NEW page, page = Page(s, after)
  PROVE  \E m \in n..Len(s.log) :
           /\ page \in Seq(Stamped(D)) /\ Len(page) = m - n
           /\ \A k \in 1..(m - n) : page[k] = s.log[n + k]
           /\ LastPage(s, after) => m = Len(s.log)
<1>1. PICK len \in Nat : /\ len = Len(s.log) /\ DOMAIN s.log = 1..len /\ n \in 0..len
                         /\ s.log \in Seq(Stamped(D))
  BY DEF LogIs, CutAt, Stamped
<1>2. PageSize \in Nat \ {0}
  BY PageAssumption
<1>3. PICK rest \in Nat : rest = len - n /\ n + rest = len
  <2>1. n \in 0..len
    BY <1>1
  <2>. QED
    BY <2>1, Remains
<1>4. PICK later \in Seq(Stamped(D)) :
        later = Later(s, after) /\ Len(later) = rest /\ \A k \in 1..rest : later[k] = s.log[n + k]
  <2>1. Later(s, after) = SubSeq(s.log, n + 1, len)
    BY <1>1, LaterIs
  <2>2. s.log \in Seq(Stamped(D)) /\ n \in Nat /\ n + rest = len /\ len = Len(s.log)
    BY <1>1, <1>3
  <2>3. /\ SubSeq(s.log, n + 1, len) \in Seq(Stamped(D)) /\ Len(SubSeq(s.log, n + 1, len)) = rest
        /\ \A k \in 1..rest : SubSeq(s.log, n + 1, len)[k] = s.log[n + k]
    BY <2>2, TailIs
  <2>. QED
    BY Zenon, <2>1, <2>3
<1>5. LastPage(s, after) <=> rest <= PageSize
  BY <1>4 DEF LastPage
<1>6. PICK width \in Nat : width = IF LastPage(s, after) THEN rest ELSE PageSize
  BY <1>2
<1>7. width <= rest /\ n + width \in n..len /\ (n + width) - n = width /\ (LastPage(s, after) => n + width = len)
  BY <1>1, <1>2, <1>3, <1>5, <1>6
<1>8. page \in Seq(Stamped(D)) /\ Len(page) = width /\ \A k \in 1..width : page[k] = s.log[n + k]
  <2>1. CASE LastPage(s, after)
    BY <1>4, <1>6, <2>1 DEF Page
  <2>2. CASE ~LastPage(s, after)
    <3>1. page = SubSeq(later, 1, width) /\ width <= Len(later)
      BY <1>4, <1>6, <1>7, <2>2 DEF Page
    <3>4. /\ SubSeq(later, 1, width) \in Seq(Stamped(D)) /\ Len(SubSeq(later, 1, width)) = width
          /\ \A k \in 1..width : SubSeq(later, 1, width)[k] = later[k]
      BY <3>1, HeadIs
    <3>2. page \in Seq(Stamped(D)) /\ Len(page) = width /\ \A k \in 1..width : page[k] = later[k]
      BY Zenon, <3>1, <3>4
    <3>3. \A k \in 1..width : k \in 1..rest
      BY <1>7
    <3>. QED
      BY Zenon, <1>4, <3>2, <3>3
  <2>. QED
    BY <2>1, <2>2
<1>9. n + width \in n..Len(s.log)
  BY <1>1, <1>7
<1>. QED
  BY <1>1, <1>7, <1>8, <1>9

(* The listing goes on behind the last item of the page.                    *)
LEMMA NextPageIs ==
  ASSUME NEW D, NEW s, LogIs(s, D), NEW l \in Lists(D), NEW n, CutAt(s, l.token, n)
  PROVE  \E m \in n..Len(s.log) :
           /\ NextPage(l, s) \in Lists(D)
           /\ Len(NextPage(l, s).got) = Len(l.got) + (m - n)
           /\ \A k \in 1..Len(l.got) : NextPage(l, s).got[k] = l.got[k]
           /\ \A k \in 1..(m - n) : NextPage(l, s).got[Len(l.got) + k] = s.log[n + k].data
           /\ CutAt(s, NextPage(l, s).token, m)
           /\ NextPage(l, s).token \in {l.token} \cup 0..s.clock
           /\ LastPage(s, l.token) => m = Len(s.log)
<1>2. PICK page : page = Page(s, l.token)
  OBVIOUS
<1>. PICK after : after = l.token
  OBVIOUS
<1>14. page = Page(s, after) /\ CutAt(s, after, n) /\ (LastPage(s, l.token) <=> LastPage(s, after))
  BY Zenon, <1>2
<1>1. PICK m \in n..Len(s.log) :
        /\ page \in Seq(Stamped(D)) /\ Len(page) = m - n /\ \A k \in 1..(m - n) : page[k] = s.log[n + k]
        /\ LastPage(s, after) => m = Len(s.log)
  BY <1>14, PageIs
<1>3. PICK len \in Nat : /\ len = Len(s.log) /\ DOMAIN s.log = 1..len /\ n \in 0..len /\ m \in n..len /\ m - n \in Nat
                         /\ s.clock \in Nat
  BY <1>1 DEF LogIs, CutAt
<1>4. PICK width \in Nat : /\ width = m - n /\ page \in Seq(Stamped(D)) /\ Len(page) = width
                          /\ DOMAIN page = 1..width /\ \A k \in 1..width : page[k] = s.log[n + k]
  <2>1. PICK w \in Nat : w = m - n
    BY <1>3
  <2>2. page \in Seq(Stamped(D)) /\ Len(page) = w /\ \A k \in 1..w : page[k] = s.log[n + k]
    BY Zenon, <1>1, <2>1
  <2>3. DOMAIN page = 1..w
    <3>1. page \in Seq(Stamped(D)) /\ Len(page) = w
      BY <2>2
    <3>. QED
      BY <3>1
  <2>. QED
    BY <2>1, <2>2, <2>3
<1>5. PICK more \in Seq(D) : /\ more = [k \in DOMAIN page |-> page[k].data] /\ Len(more) = width
                             /\ \A k \in 1..width : more[k] = s.log[n + k].data
  <2>. DEFINE data == [k \in DOMAIN page |-> page[k].data]
  <2>5. \A k \in 1..width : page[k] \in Stamped(D)
    BY <1>4, ElementOfSeq
  <2>1. \A k \in 1..width : page[k] \in [time : Nat, data : D]
    BY <2>5 DEF Stamped
  <2>2. \A k \in 1..width : page[k].data \in D
    BY <2>1
  <2>3. data \in [1..width -> D] /\ \A k \in 1..width : data[k] = s.log[n + k].data
    BY <1>4, <2>2
  <2>. HIDE DEF data
  <2>4. data \in Seq(D) /\ Len(data) = width
    BY <2>3
  <2>. QED
    BY <2>3, <2>4 DEF data
<1>6. PICK token : token = IF page = <<>> THEN l.token ELSE page[Len(page)].time
  OBVIOUS
<1>7. NextPage(l, s) = [got |-> l.got \o more, token |-> token]
  BY <1>2, <1>5, <1>6 DEF NextPage
<1>8. l.got \in Seq(D) /\ l.token \in Nat
  BY DEF Lists
<1>9. token \in Nat /\ CutAt(s, token, m) /\ token \in {l.token} \cup 0..s.clock
  <2>1. CASE m = n
    <3>1. page = <<>>
      BY <1>3, <1>4, <2>1
    <3>. QED
      BY <1>6, <1>8, <2>1, <3>1
  <2>2. CASE m # n
    <3>1. width \in 1..width /\ m \in 1..len /\ n + width = m
      BY <1>3, <1>4, <2>2
    <3>2. page # <<>> /\ page[Len(page)] = s.log[m]
      BY <1>4, <3>1
    <3>3. token = s.log[m].time
      BY <1>6, <3>2
    <3>4. /\ \A k \in 1..len : s.log[k].time \in 1..s.clock
          /\ \A j, k \in 1..len : j < k => s.log[j].time < s.log[k].time
      BY <1>3 DEF LogIs
    <3>5. \A k \in 1..len : s.log[k].time > s.log[m].time <=> k > m
      <4>. TAKE k \in 1..len
      <4>1. k < m \/ k = m \/ m < k
        BY <3>1
      <4>2. s.log[k].time \in 1..s.clock /\ s.log[m].time \in 1..s.clock
        BY <3>1, <3>4
      <4>3. (k < m => s.log[k].time < s.log[m].time) /\ (m < k => s.log[m].time < s.log[k].time)
        BY <3>1, <3>4
      <4>. QED
        BY <1>3, <3>1, <4>1, <4>2, <4>3
    <3>6. token \in 0..s.clock /\ token \in Nat
      BY <1>3, <3>1, <3>3, <3>4
    <3>7. m \in 0..len
      BY <1>3
    <3>. QED
      BY <1>3, <3>3, <3>5, <3>6, <3>7 DEF CutAt
  <2>. QED
    BY <2>1, <2>2
<1>10. /\ l.got \o more \in Seq(D) /\ Len(l.got \o more) = Len(l.got) + width
       /\ \A k \in 1..Len(l.got) : (l.got \o more)[k] = l.got[k]
       /\ \A k \in 1..width : (l.got \o more)[Len(l.got) + k] = more[k]
  <2>1. PICK len0 \in Nat : len0 = Len(l.got)
    BY <1>8
  <2>2. more \in Seq(D) /\ width = Len(more) /\ l.got \in Seq(D)
    BY <1>5, <1>8
  <2>3. PICK whole : whole = l.got \o more
    OBVIOUS
  <2>4. /\ whole \in Seq(D) /\ Len(whole) = len0 + width
        /\ \A k \in 1..len0 : whole[k] = l.got[k]
        /\ \A k \in 1..width : whole[len0 + k] = more[k]
    BY <2>1, <2>2, <2>3, ConcatIs
  <2>. QED
    BY Zenon, <2>1, <2>3, <2>4
<1>11. /\ NextPage(l, s).got = l.got \o more /\ NextPage(l, s).token = token /\ NextPage(l, s) \in Lists(D)
  BY <1>7, <1>9, <1>10 DEF Lists
<1>12. \A k \in 1..width : NextPage(l, s).got[Len(l.got) + k] = s.log[n + k].data
  <2>. TAKE k \in 1..width
  <2>1. (l.got \o more)[Len(l.got) + k] = more[k]
    BY Zenon, <1>10
  <2>2. more[k] = s.log[n + k].data
    BY Zenon, <1>5
  <2>. QED
    BY Zenon, <1>11, <2>1, <2>2
<1>13. m - n = width
  BY <1>4
<1>. QED
  BY <1>1, <1>9, <1>10, <1>11, <1>12, <1>13, <1>14

(* r is s with the data behind its items; every token of s still cuts it where it did. *)
Appends(s, data, r) ==
  /\ Len(r.log) = Len(s.log) + Len(data)
  /\ \A k \in 1..Len(s.log) : r.log[k] = s.log[k]
  /\ \A k \in 1..Len(data) : r.log[Len(s.log) + k].data = data[k]
  /\ r.clock >= s.clock
  /\ \A after, n \in Nat : after <= s.clock /\ CutAt(s, after, n) => CutAt(r, after, n)

(* An append leaves every listing behind the same items. *)
LEMMA AppendedIs ==
  ASSUME NEW D, NEW s, LogIs(s, D), NEW data \in Seq(D), NEW r, r = Appended(s, data)
  PROVE  LogIs(r, D) /\ Appends(s, data, r)
<1>0. PICK I : I = [time : Nat, data : D]
  OBVIOUS
<1>1. PICK len \in Nat, more \in Nat :
        /\ len = Len(s.log) /\ DOMAIN s.log = 1..len /\ more = Len(data) /\ DOMAIN data = 1..more
        /\ s.log \in Seq(I) /\ s.clock \in Nat /\ s.exists \in BOOLEAN
        /\ s = [exists |-> s.exists, clock |-> s.clock, log |-> s.log]
  BY <1>0 DEF LogIs
<1>2. PICK new : new = [k \in 1..Len(data) |-> [time |-> s.clock + k, data |-> data[k]]]
  OBVIOUS
<1>3. /\ new \in Seq(I) /\ Len(new) = more
      /\ \A k \in 1..more : new[k].time = s.clock + k /\ new[k].data = data[k]
  <2>1. \A k \in 1..more : s.clock + k \in Nat /\ data[k] \in D
    BY <1>1
  <2>2. \A k \in 1..more : [time |-> s.clock + k, data |-> data[k]] \in I
    BY <1>0, <2>1
  <2>3. new \in [1..more -> I]
    BY <1>1, <1>2, <2>2
  <2>4. \A k \in 1..more : new[k] = [time |-> s.clock + k, data |-> data[k]]
    BY <1>1, <1>2
  <2>5. new \in Seq(I) /\ Len(new) = more
    BY <2>3
  <2>6. ASSUME NEW k \in 1..more
        PROVE  new[k].time = s.clock + k /\ new[k].data = data[k]
    <3>1. new[k] = [time |-> s.clock + k, data |-> data[k]]
      BY Zenon, <2>4
    <3>. QED
      BY <3>1
  <2>. QED
    BY <2>5, <2>6
<1>18. len \in Nat /\ more \in Nat /\ s.clock \in Nat
  BY <1>1
<1>4. PICK log : log = s.log \o new
  OBVIOUS
<1>5. /\ log \in Seq(I) /\ Len(log) = len + more
      /\ \A k \in 1..len : log[k] = s.log[k]
      /\ \A k \in 1..more : log[len + k] = new[k]
  <2>1. s.log \in Seq(I) /\ new \in Seq(I) /\ len = Len(s.log) /\ more = Len(new)
    BY <1>1, <1>3
  <2>. QED
    BY <1>18, <1>4, <2>1, ConcatIs
<1>6. /\ \A k \in 1..len : log[k] = s.log[k]
      /\ \A k \in 1..more : log[len + k].time = s.clock + k /\ log[len + k].data = data[k]
  BY Zenon, <1>3, <1>5
<1>7. /\ r.log = log /\ r.clock = s.clock + more /\ r.exists = s.exists
      /\ r \in [exists : BOOLEAN, clock : Nat, log : Seq(I)]
  <2>1. r = [s EXCEPT !.clock = s.clock + Len(data), !.log = s.log \o new]
    BY Zenon, <1>2 DEF Appended
  <2>2. r = [s EXCEPT !.clock = s.clock + more, !.log = log]
    BY Zenon, <1>1, <1>4, <2>1
  <2>3. s.clock + more \in Nat
    BY <1>1
  <2>4. s \in [exists : BOOLEAN, clock : Nat, log : Seq(I)]
    BY <1>1
  <2>. PICK clock : clock = s.clock + more
    OBVIOUS
  <2>5. r = [s EXCEPT !.clock = clock, !.log = log] /\ clock \in Nat /\ log \in Seq(I)
    BY <1>5, <2>2, <2>3
  <2>7. r.log = log /\ r.clock = clock /\ r.exists = s.exists /\ r \in [exists : BOOLEAN, clock : Nat, log : Seq(I)]
    BY <2>4, <2>5
  <2>. QED
    BY <2>5, <2>7
<1>8. \A k \in 1..(len + more) : k \in 1..len \/ \E j \in 1..more : k = len + j
  BY <1>18, Places
<1>9. /\ \A k \in 1..len : s.log[k].time \in 1..s.clock
      /\ \A j, k \in 1..len : j < k => s.log[j].time < s.log[k].time
  BY <1>1 DEF LogIs
<1>10. /\ \A k \in 1..len : log[k].time \in 1..s.clock
       /\ \A k \in 1..more : log[len + k].time = s.clock + k
  BY Zenon, <1>6, <1>9
<1>11. \A k \in 1..(len + more) : log[k].time \in 1..(s.clock + more)
  <2>. TAKE k \in 1..(len + more)
  <2>1. CASE k \in 1..len
    <3>1. log[k].time \in 1..s.clock
      BY <1>10, <2>1
    <3>. QED
      BY <1>18, <3>1, Stamps
  <2>2. CASE \E j \in 1..more : k = len + j
    <3>1. PICK j \in 1..more : k = len + j
      BY <2>2
    <3>2. log[k].time = s.clock + j
      BY Zenon, <1>10, <3>1
    <3>. QED
      BY <1>18, <3>2, Stamps
  <2>. QED
    BY <1>8, <2>1, <2>2
<1>12. \A j, k \in 1..(len + more) : j < k => log[j].time < log[k].time
  <2>. SUFFICES ASSUME NEW j \in 1..(len + more), NEW k \in 1..(len + more), j < k
                PROVE  log[j].time < log[k].time
    OBVIOUS
  <2>1. CASE k \in 1..len
    <3>1. j \in 1..len
      BY <1>18, <2>1
    <3>. QED
      BY Zenon, <1>6, <1>9, <2>1, <3>1
  <2>2. CASE j \in 1..len /\ \E i \in 1..more : k = len + i
    <3>1. PICK i \in 1..more : k = len + i
      BY <2>2
    <3>2. log[j].time \in 1..s.clock /\ log[k].time = s.clock + i
      BY Zenon, <1>10, <2>2, <3>1
    <3>. QED
      BY <1>18, <3>2, Stamps
  <2>3. CASE (\E i \in 1..more : j = len + i) /\ (\E i \in 1..more : k = len + i)
    <3>1. PICK a \in 1..more, b \in 1..more : j = len + a /\ k = len + b
      BY <2>3
    <3>2. log[j].time = s.clock + a /\ log[k].time = s.clock + b
      BY Zenon, <1>10, <3>1
    <3>3. a < b
      BY <1>18, <3>1
    <3>. QED
      BY <1>18, <3>2, <3>3, Stamps
  <2>4. k \in 1..len \/ \E i \in 1..more : k = len + i
    BY <1>8
  <2>5. j \in 1..len \/ \E i \in 1..more : j = len + i
    BY <1>8
  <2>. QED
    BY <2>1, <2>2, <2>3, <2>4, <2>5
<1>13. DOMAIN log = 1..(len + more)
  BY <1>1, <1>5
<1>14. LogIs(r, D)
  BY <1>0, <1>7, <1>11, <1>12, <1>13 DEF LogIs
<1>15. \A after, n \in Nat : after <= s.clock /\ CutAt(s, after, n) => CutAt(r, after, n)
  <2>. SUFFICES ASSUME NEW after \in Nat, NEW n \in Nat, after <= s.clock, CutAt(s, after, n)
                PROVE  CutAt(r, after, n)
    OBVIOUS
  <2>1. n \in 0..len /\ \A k \in 1..len : s.log[k].time > after <=> k > n
    BY <1>1 DEF CutAt
  <2>2. n \in 0..(len + more)
    BY <1>1, <2>1
  <2>3. \A k \in 1..len : log[k].time > after <=> k > n
    BY <1>6, <2>1
  <2>4. \A j \in 1..more : log[len + j].time > after /\ len + j > n
    <3>. TAKE j \in 1..more
    <3>1. log[len + j].time = s.clock + j
      BY Zenon, <1>10
    <3>2. n \in 0..len
      BY <2>1
    <3>. QED
      BY <1>18, <3>1, <3>2
  <2>5. \A k \in 1..(len + more) : log[k].time > after <=> k > n
    <3>. TAKE k \in 1..(len + more)
    <3>. QED
      BY <1>8, <2>3, <2>4
  <2>. QED
    BY <1>5, <1>7, <1>13, <2>2, <2>5 DEF CutAt
<1>16. \A k \in 1..more : log[len + k].data = data[k]
  BY <1>6
<1>17. r.clock >= s.clock
  BY <1>1, <1>7
<1>. QED
  BY <1>1, <1>5, <1>6, <1>7, <1>14, <1>15, <1>16, <1>17 DEF Appends

(* A listing under way stays a beginning of the log when items are          *)
(* appended.                                                                *)
LEMMA FollowsAppend ==
  ASSUME NEW D, NEW s, LogIs(s, D), NEW data \in Seq(D), NEW l \in Lists(D), Follows(s, l)
  PROVE  Follows(Appended(s, data), l)
<1>. PICK r : r = Appended(s, data)
  OBVIOUS
<1>1. PICK n \in Nat : n = Len(l.got)
  BY DEF Lists
<1>0. LogIs(r, D) /\ Appends(s, data, r)
  BY AppendedIs
<1>2. l.token \in Nat /\ s.clock \in Nat /\ r.clock \in Nat /\ LogIs(r, D) /\ r.clock >= s.clock
  <2>1. LogIs(r, D) /\ r.clock >= s.clock
    BY <1>0 DEF Appends
  <2>. QED
    BY <2>1 DEF Lists, LogIs
<1>3. CutAt(s, l.token, n) /\ l.token <= s.clock /\ \A k \in 1..n : l.got[k] = s.log[k].data
  BY <1>1 DEF Follows
<1>4. CutAt(r, l.token, n) /\ \A k \in 1..Len(s.log) : r.log[k] = s.log[k]
  <2>1. l.token \in Nat /\ n \in Nat /\ l.token <= s.clock /\ CutAt(s, l.token, n)
    BY <1>1, <1>2, <1>3
  <2>2. \A after, m \in Nat : after <= s.clock /\ CutAt(s, after, m) => CutAt(r, after, m)
    BY Zenon, <1>0 DEF Appends
  <2>3. \A k \in 1..Len(s.log) : r.log[k] = s.log[k]
    BY Zenon, <1>0 DEF Appends
  <2>. QED
    BY <2>1, <2>2, <2>3
<1>5. \A k \in 1..n : k \in 1..Len(s.log)
  BY <1>1, <1>3 DEF CutAt, LogIs
<1>6. l.token <= r.clock
  BY <1>2, <1>3
<1>. QED
  BY <1>1, <1>3, <1>4, <1>5, <1>6 DEF Follows

(* A cleared log is empty, and its clock goes on. *)
LEMMA ClearedIs ==
  ASSUME NEW D, NEW s, LogIs(s, D)
  PROVE  LogIs(Cleared(s), D) /\ Cleared(s).log = <<>>
<1>0. PICK I : I = [time : Nat, data : D]
  OBVIOUS
<1>1. Cleared(s).log = <<>> /\ Cleared(s) \in [exists : BOOLEAN, clock : Nat, log : Seq(I)]
  <2>1. s \in [exists : BOOLEAN, clock : Nat, log : Seq(I)] /\ <<>> \in Seq(I)
    BY <1>0 DEF LogIs
  <2>. QED
    BY <2>1 DEF Cleared
<1>2. \A k : k \notin DOMAIN Cleared(s).log
  BY <1>1
<1>. QED
  BY <1>0, <1>1, <1>2 DEF LogIs

(* Creating a session leaves its log and its clock alone. *)
LEMMA OpenedIs ==
  ASSUME NEW D, NEW s, LogIs(s, D)
  PROVE  LogIs(Opened(s), D) /\ Opened(s).log = s.log /\ Opened(s).clock = s.clock
<1>1. Opened(s).log = s.log /\ Opened(s).clock = s.clock /\ Opened(s) \in [exists : BOOLEAN, clock : Nat, log : Seq([time : Nat, data : D])]
  BY DEF LogIs, Opened
<1>. QED
  BY <1>1 DEF LogIs

(* A listing begins at the beginning, whatever the log. *)
LEMMA ListingFollows ==
  ASSUME NEW D, NEW s, LogIs(s, D)
  PROVE  Listing \in Lists(D) /\ Follows(s, Listing)
<1>1. Listing \in Lists(D) /\ Listing.got = <<>> /\ Len(Listing.got) = 0 /\ Listing.token = 0
  BY DEF Listing, Lists
<1>2. PICK len \in Nat : len = Len(s.log) /\ DOMAIN s.log = 1..len /\ s.clock \in Nat
  BY DEF LogIs
<1>3. \A k \in 1..len : s.log[k].time \in 1..s.clock
  BY <1>2 DEF LogIs
<1>4. \A k \in 1..len : s.log[k].time > 0 /\ k > 0
  BY <1>2, <1>3
<1>5. CutAt(s, 0, 0)
  BY <1>2, <1>4 DEF CutAt
<1>. QED
  BY <1>1, <1>2, <1>5 DEF Follows

(* The next page of a listing continues it, and the last page completes it. *)
LEMMA FollowsOn ==
  ASSUME NEW D, NEW s, LogIs(s, D), NEW l \in Lists(D), Follows(s, l)
  PROVE  /\ Follows(s, NextPage(l, s)) /\ NextPage(l, s) \in Lists(D)
         /\ LastPage(s, l.token) => Len(NextPage(l, s).got) = Len(s.log)
<1>1. PICK n \in Nat, len \in Nat : n = Len(l.got) /\ len = Len(s.log) /\ s.clock \in Nat /\ l.token \in Nat
  BY DEF LogIs, Lists
<1>2. CutAt(s, l.token, n) /\ n \in 0..len
  BY <1>1 DEF Follows, CutAt
<1>3. PICK m \in n..len :
        /\ NextPage(l, s) \in Lists(D)
        /\ Len(NextPage(l, s).got) = n + (m - n)
        /\ \A k \in 1..n : NextPage(l, s).got[k] = l.got[k]
        /\ \A k \in 1..(m - n) : NextPage(l, s).got[n + k] = s.log[n + k].data
        /\ CutAt(s, NextPage(l, s).token, m)
        /\ NextPage(l, s).token \in {l.token} \cup 0..s.clock
        /\ LastPage(s, l.token) => m = len
  <2>1. CutAt(s, l.token, Len(l.got))
    BY DEF Follows
  <2>2. PICK m \in Len(l.got)..Len(s.log) :
           /\ NextPage(l, s) \in Lists(D)
           /\ Len(NextPage(l, s).got) = Len(l.got) + (m - Len(l.got))
           /\ \A k \in 1..Len(l.got) : NextPage(l, s).got[k] = l.got[k]
           /\ \A k \in 1..(m - Len(l.got)) : NextPage(l, s).got[Len(l.got) + k] = s.log[Len(l.got) + k].data
           /\ CutAt(s, NextPage(l, s).token, m)
           /\ NextPage(l, s).token \in {l.token} \cup 0..s.clock
           /\ LastPage(s, l.token) => m = Len(s.log)
    BY <2>1, NextPageIs
  <2>. QED
    BY Zenon, <1>1, <2>2
<1>4. Len(NextPage(l, s).got) = m
  BY <1>1, <1>3
<1>5. \A k \in 1..m : NextPage(l, s).got[k] = s.log[k].data
  <2>. TAKE k \in 1..m
  <2>1. k \in 1..n \/ (k - n \in 1..(m - n) /\ n + (k - n) = k)
    BY <1>1, <1>3
  <2>2. k \in 1..n => l.got[k] = s.log[k].data
    BY <1>1 DEF Follows
  <2>. QED
    BY <1>3, <2>1, <2>2
<1>6. NextPage(l, s).token <= s.clock
  BY <1>1, <1>3 DEF Follows
<1>. QED
  BY <1>1, <1>3, <1>4, <1>5, <1>6 DEF Follows

(***************************************************************************)
(* Transcript.  While no pop was cut short or overtaken, the log reads as   *)
(* the transcript, or is empty while one pop is about to append what it     *)
(* keeps; and every listing that still counts is a beginning of the log.    *)
(***************************************************************************)
Leads(part, whole) == Len(part) <= Len(whole) /\ \A k \in 1..Len(part) : part[k] = whole[k]
ReadsAs(t, sd) == Len(t.log) = Len(sd) /\ \A k \in 1..Len(sd) : t.log[k].data = sd[k]

SayShape ==
  [pc : {"idle", "create", "read", "clear", "restore", "shown", "add", "wipe"},
   op : {"get", "pop", "add", "clear"}, list : Lists(Nat), from : Seq(Nat), blurred : BOOLEAN]

(* What an operation is doing goes with what it is. *)
SaysOf(s) ==
  /\ s.pc = "read" => s.op \in {"get", "pop"}
  /\ s.pc \in {"clear", "restore"} => s.op = "pop"
  /\ s.pc = "shown" => s.op = "get"
  /\ s.pc = "create" => s.list = Listing

TalkTypeOK(t, sp, sd, last) ==
  /\ LogIs(t, Nat) /\ sd \in Seq(Nat) /\ last \in Nat
  /\ sp \in [Speakers -> SayShape] /\ \A p \in Speakers : SaysOf(sp[p])

GapIn(sp) == \E q \in Speakers : sp[q].pc = "restore"

SpeakerIs(t, sd, gap, s) ==
  /\ s.pc = "read" /\ (s.op = "pop" \/ ~s.blurred) => Follows(t, s.list)
  /\ s.pc \in {"clear", "restore"} => s.list.got = sd /\ sd # <<>>
  /\ s.pc \in {"create", "read"} /\ s.op = "get" /\ ~s.blurred => ~gap /\ Leads(s.from, sd)
  /\ s.pc = "shown" /\ ~s.blurred => Leads(s.from, s.list.got) /\ Leads(s.list.got, sd)

(* Beside a pop that has cleared the log no other is past its listing. *)
OneRestores(sp) ==
  \A p, q \in Speakers : p # q /\ sp[p].pc = "restore" => sp[q].pc \notin {"clear", "restore"}

Undisturbed(t, sp, sd) ==
  /\ IF GapIn(sp) THEN t.log = <<>> ELSE ReadsAs(t, sd)
  /\ OneRestores(sp)
  /\ \A p \in Speakers : SpeakerIs(t, sd, GapIn(sp), sp[p])

TalkInv ==
  /\ TalkTypeOK(talk, speaker, said, lastSaid) /\ disturbed \in BOOLEAN
  /\ ~disturbed => Undisturbed(talk, speaker, said)
(* The records of a speaker, field by field. *)
LEMMA RestingIs ==
  /\ Resting \in SayShape /\ SaysOf(Resting) /\ Resting.pc = "idle" /\ Resting.op = "get"
  /\ Resting.list = Listing
<1>1. Listing \in Lists(Nat)
  BY DEF Listing, Lists
<1>. HIDE DEF Listing
<1>. QED
  BY <1>1 DEF Resting, SayShape, SaysOf

(* The step each operation of the session goes on with once it is resolved. *)
LEMMA Resolves ==
  /\ DOMAIN AfterResolving = {"get", "pop", "add", "clear"}
  /\ AfterResolving["get"] = "read" /\ AfterResolving["pop"] = "read"
  /\ AfterResolving["add"] = "add" /\ AfterResolving["clear"] = "wipe"
BY DEF AfterResolving

(* The types of a speaker's fields. *)
LEMMA SayHolds ==
  ASSUME NEW s \in SayShape
  PROVE  /\ s.pc \in {"idle", "create", "read", "clear", "restore", "shown", "add", "wipe"}
         /\ s.op \in {"get", "pop", "add", "clear"} /\ s.list \in Lists(Nat)
         /\ s.list.got \in Seq(Nat) /\ s.list.token \in Nat
         /\ s.from \in Seq(Nat) /\ s.blurred \in BOOLEAN
BY DEF SayShape, Lists

(* When one speaker moves the others stay, and so does the gap of a pop     *)
(* between its clear and its restore.                                       *)
LEMMA SpeakersMove ==
  ASSUME NEW sp \in [Speakers -> SayShape], \A q \in Speakers : SaysOf(sp[q]),
         NEW p \in Speakers, NEW s \in SayShape, SaysOf(s), NEW next, next = [sp EXCEPT ![p] = s]
  PROVE  /\ next \in [Speakers -> SayShape] /\ \A q \in Speakers : SaysOf(next[q])
         /\ next[p] = s /\ \A q \in Speakers \ {p} : next[q] = sp[q]
         /\ sp[p].pc # "restore" /\ s.pc # "restore" => (GapIn(next) <=> GapIn(sp))
<1>1. next \in [Speakers -> SayShape] /\ next[p] = s /\ \A q \in Speakers \ {p} : next[q] = sp[q]
  OBVIOUS
<1>. QED
  BY <1>1 DEF GapIn

(* A step that leaves the log and the transcript as they are. *)
LEMMA StillUndisturbed ==
  ASSUME NEW t, NEW sp \in [Speakers -> SayShape], NEW sd, Undisturbed(t, sp, sd),
         \A q \in Speakers : SaysOf(sp[q]),
         NEW p \in Speakers, NEW s \in SayShape, SaysOf(s), NEW next, next = [sp EXCEPT ![p] = s],
         sp[p].pc # "restore", s.pc # "restore", SpeakerIs(t, sd, GapIn(sp), s),
         s.pc = "clear" => ~GapIn(sp), NEW r, r.log = t.log, r.clock = t.clock
  PROVE  Undisturbed(r, next, sd)
<1>1. /\ next[p] = s /\ \A q \in Speakers \ {p} : next[q] = sp[q]
      /\ GapIn(next) <=> GapIn(sp)
  <2>1. next[p] = s /\ \A q \in Speakers \ {p} : next[q] = sp[q]
    OBVIOUS
  <2>. QED
    BY <2>1 DEF GapIn
<1>2. OneRestores(next)
  <2>. SUFFICES ASSUME NEW p0 \in Speakers, NEW q0 \in Speakers, p0 # q0, next[p0].pc = "restore"
                PROVE  next[q0].pc \notin {"clear", "restore"}
    BY DEF OneRestores
  <2>1. p0 # p /\ sp[p0].pc = "restore"
    BY <1>1
  <2>2. GapIn(sp)
    BY <2>1 DEF GapIn
  <2>3. q0 # p => sp[q0].pc \notin {"clear", "restore"}
    BY <2>1 DEF Undisturbed, OneRestores
  <2>. QED
    BY <1>1, <2>1, <2>2, <2>3
<1>3. \A l : Follows(t, l) => Follows(r, l)
  BY DEF Follows, CutAt
<1>4. \A q \in Speakers : SpeakerIs(t, sd, GapIn(sp), next[q])
  BY <1>1 DEF Undisturbed
<1>5. \A q \in Speakers : SpeakerIs(r, sd, GapIn(next), next[q])
  BY <1>1, <1>3, <1>4 DEF SpeakerIs
<1>6. IF GapIn(next) THEN r.log = <<>> ELSE ReadsAs(r, sd)
  BY <1>1 DEF Undisturbed, ReadsAs
<1>. QED
  BY <1>2, <1>5, <1>6 DEF Undisturbed

(* A transcript leads itself. *)
LEMMA LeadsItself ==
  ASSUME NEW q \in Seq(Nat)
  PROVE  Leads(q, q)
BY DEF Leads

(* Beginning an operation keeps the invariant. *)
LEMMA BeginSayingKeeps ==
  ASSUME TalkInv, NEW p \in Speakers, NEW op \in DOMAIN AfterResolving, BeginSaying(p, op)
  PROVE  TalkInv'
<1>. DEFINE c == [Resting EXCEPT !.op = op,
                      !.pc = IF talk.exists THEN AfterResolving[op] ELSE "create",
                      !.from = said, !.blurred = Gap]
<1>0. TalkTypeOK(talk, speaker, said, lastSaid) /\ disturbed = FALSE /\ Undisturbed(talk, speaker, said)
  BY DEF TalkInv, BeginSaying
<1>1. /\ LogIs(talk, Nat) /\ said \in Seq(Nat) /\ speaker \in [Speakers -> SayShape]
      /\ \A q \in Speakers : SaysOf(speaker[q])
  BY <1>0 DEF TalkTypeOK
<1>2. speaker[p].pc = "idle" /\ speaker' = [speaker EXCEPT ![p] = c]
      /\ UNCHANGED <<talk, said, lastSaid, disturbed>>
  BY DEF BeginSaying
<1>3. op \in {"get", "pop", "add", "clear"}
  BY Resolves
<1>4. PICK pc \in {"create", "read", "add", "wipe"} :
        /\ pc = IF talk.exists THEN AfterResolving[op] ELSE "create"
        /\ pc = "read" => op \in {"get", "pop"}
  BY <1>3, Resolves
<1>5. Gap \in BOOLEAN /\ (Gap <=> GapIn(speaker))
  BY DEF Gap, GapIn
<1>6. /\ c.pc = pc /\ c.op = op /\ c.list = Listing /\ c.from = said /\ c.blurred = Gap
      /\ c \in SayShape
  <2>1. Listing \in Lists(Nat)
    BY DEF Listing, Lists
  <2>2. c = [Resting EXCEPT !.op = op, !.pc = pc, !.from = said, !.blurred = Gap]
    BY Zenon, <1>4
  <2>. HIDE DEF c, Gap, Listing
  <2>. QED
    BY <1>1, <1>3, <1>5, <2>1, <2>2 DEF Resting, SayShape
<1>. HIDE DEF c
<1>7. SaysOf(c)
  BY <1>4, <1>6 DEF SaysOf
<1>8. Follows(talk, Listing) /\ Leads(said, said)
  BY <1>1, ListingFollows, LeadsItself
<1>9. SpeakerIs(talk, said, GapIn(speaker), c)
  BY <1>4, <1>5, <1>6, <1>8 DEF SpeakerIs
<1>10. Undisturbed(talk, speaker', said)
  BY <1>0, <1>1, <1>2, <1>4, <1>6, <1>7, <1>9, StillUndisturbed
<1>11. TalkTypeOK(talk, speaker', said, lastSaid)
  BY <1>0, <1>1, <1>2, <1>6, <1>7, SpeakersMove DEF TalkTypeOK
<1>. QED
  BY <1>0, <1>2, <1>10, <1>11 DEF TalkInv

(* Creating the session lazily keeps the invariant. *)
LEMMA CreateTalkKeeps ==
  ASSUME TalkInv, NEW p \in Speakers, CreateTalk(p)
  PROVE  TalkInv'
<1>. DEFINE c == IF talk.exists THEN Resting ELSE [speaker[p] EXCEPT !.pc = AfterResolving[speaker[p].op]]
<1>0. TalkTypeOK(talk, speaker, said, lastSaid) /\ disturbed \in BOOLEAN /\ (~disturbed => Undisturbed(talk, speaker, said))
  BY DEF TalkInv
<1>1. /\ LogIs(talk, Nat) /\ said \in Seq(Nat) /\ speaker \in [Speakers -> SayShape]
      /\ \A q \in Speakers : SaysOf(speaker[q])
  BY <1>0 DEF TalkTypeOK
<1>2. /\ speaker[p].pc = "create" /\ speaker' = [speaker EXCEPT ![p] = c]
      /\ talk' = Opened(talk) /\ UNCHANGED <<said, lastSaid, disturbed>>
  BY DEF CreateTalk
<1>3. speaker[p] \in SayShape /\ SaysOf(speaker[p]) /\ speaker[p].list = Listing
  BY <1>1, <1>2 DEF SaysOf
<1>4. LogIs(Opened(talk), Nat) /\ Opened(talk).log = talk.log /\ Opened(talk).clock = talk.clock
  BY <1>1, OpenedIs
<1>5. c \in SayShape /\ SaysOf(c) /\ c.pc \notin {"clear", "restore"}
      /\ (~disturbed => SpeakerIs(talk, said, GapIn(speaker), c))
  <2>1. CASE talk.exists
    <3>1. c = Resting
      BY <2>1
    <3>. HIDE DEF c
    <3>. QED
      BY <3>1, RestingIs DEF SpeakerIs
  <2>2. CASE ~talk.exists
    <3>1. PICK pc \in {"read", "add", "wipe"} :
            /\ pc = AfterResolving[speaker[p].op]
            /\ pc = "read" => speaker[p].op \in {"get", "pop"}
      BY <1>3, SayHolds, Resolves
    <3>2. c = [speaker[p] EXCEPT !.pc = pc]
      BY Zenon, <2>2, <3>1
    <3>. HIDE DEF c
    <3>3. /\ c \in SayShape /\ c.pc = pc /\ c.op = speaker[p].op /\ c.list = Listing /\ c.from = speaker[p].from
          /\ c.blurred = speaker[p].blurred
      BY <1>3, <3>2 DEF SayShape
    <3>4. SaysOf(c)
      BY <3>1, <3>3 DEF SaysOf
    <3>5. Follows(talk, Listing)
      BY <1>1, ListingFollows
    <3>6. ~disturbed => SpeakerIs(talk, said, GapIn(speaker), speaker[p])
      BY <1>0 DEF Undisturbed
    <3>7. ~disturbed => SpeakerIs(talk, said, GapIn(speaker), c)
      BY <1>2, <3>1, <3>3, <3>5, <3>6 DEF SpeakerIs
    <3>. QED
      BY <3>1, <3>3, <3>4, <3>7
  <2>. QED
    BY <2>1, <2>2
<1>. HIDE DEF c
<1>6. ~disturbed => Undisturbed(Opened(talk), speaker', said)
  BY <1>0, <1>1, <1>2, <1>4, <1>5, StillUndisturbed
<1>7. TalkTypeOK(Opened(talk), speaker', said, lastSaid)
  BY <1>0, <1>1, <1>2, <1>4, <1>5, SpeakersMove DEF TalkTypeOK
<1>. QED
  BY <1>0, <1>2, <1>6, <1>7 DEF TalkInv

(* Reading one page keeps the invariant. *)
LEMMA ListTalkKeeps ==
  ASSUME TalkInv, NEW p \in Speakers, ListTalk(p)
  PROVE  TalkInv'
<1>1. PICK l : l = NextPage(speaker[p].list, talk)
  OBVIOUS
<1>2. PICK last \in BOOLEAN : last <=> LastPage(talk, speaker[p].list.token)
  OBVIOUS
<1>3. PICK pc : pc = IF ~last THEN "read" ELSE IF speaker[p].op = "get" THEN "shown"
                     ELSE IF l.got = <<>> THEN "idle" ELSE "clear"
  OBVIOUS
<1>. DEFINE c == [speaker[p] EXCEPT !.list = l, !.pc = pc]
<1>4. /\ speaker[p].pc = "read" /\ speaker' = [speaker EXCEPT ![p] = c]
      /\ UNCHANGED <<talk, said, lastSaid, disturbed>>
  BY Zenon, <1>1, <1>2, <1>3 DEF ListTalk
<1>0. TalkTypeOK(talk, speaker, said, lastSaid) /\ disturbed \in BOOLEAN /\ (~disturbed => Undisturbed(talk, speaker, said))
  BY DEF TalkInv
<1>5. /\ LogIs(talk, Nat) /\ said \in Seq(Nat) /\ speaker \in [Speakers -> SayShape]
      /\ \A q \in Speakers : SaysOf(speaker[q])
  BY <1>0 DEF TalkTypeOK
<1>6. speaker[p] \in SayShape /\ speaker[p].op \in {"get", "pop"} /\ speaker[p].list \in Lists(Nat)
  BY <1>4, <1>5, SayHolds DEF SaysOf
<1>7. l \in Lists(Nat) /\ l.got \in Seq(Nat)
  <2>1. PICK n \in 0..Len(talk.log) : CutAt(talk, speaker[p].list.token, n)
    BY <1>5, <1>6, CutExists DEF Lists
  <2>2. l \in Lists(Nat)
    BY <1>1, <1>5, <1>6, <2>1, NextPageIs
  <2>. QED
    BY <2>2 DEF Lists
<1>8. /\ c \in SayShape /\ c.pc = pc /\ c.op = speaker[p].op /\ c.list = l /\ c.from = speaker[p].from
      /\ c.blurred = speaker[p].blurred
  <2>1. pc \in {"read", "shown", "idle", "clear"}
    BY <1>3
  <2>. QED
    BY <1>6, <1>7, <2>1 DEF SayShape
<1>. HIDE DEF c
<1>9. SaysOf(c) /\ c.pc \notin {"create", "restore"}
  BY <1>3, <1>6, <1>8 DEF SaysOf
<1>10. ASSUME ~disturbed
       PROVE  SpeakerIs(talk, said, GapIn(speaker), c) /\ (c.pc = "clear" => ~GapIn(speaker))
  <2>1. SpeakerIs(talk, said, GapIn(speaker), speaker[p]) /\ Undisturbed(talk, speaker, said)
    BY <1>0, <1>10 DEF Undisturbed
  <2>2. CASE speaker[p].op = "get" /\ speaker[p].blurred
    BY <1>3, <1>8, <2>2 DEF SpeakerIs
  <2>3. CASE speaker[p].op = "pop" \/ ~speaker[p].blurred
    <3>1. Follows(talk, speaker[p].list)
      BY <1>4, <2>1, <2>3 DEF SpeakerIs
    <3>2. Follows(talk, l) /\ (last => Len(l.got) = Len(talk.log))
      BY <1>1, <1>2, <1>5, <1>6, <3>1, FollowsOn
    <3>3. PICK n \in Nat, m \in Nat : n = Len(l.got) /\ m = Len(said)
      BY <1>5, <1>7
    <3>4. l.got # <<>> => n # 0
      BY <1>7, <3>3
    <3>5. last /\ l.got # <<>> => ~GapIn(speaker)
      <4>1. GapIn(speaker) => Len(talk.log) = 0
        BY <2>1 DEF Undisturbed
      <4>. QED
        BY <3>2, <3>3, <3>4, <4>1
    <3>6. last /\ ~GapIn(speaker) => n = m /\ \A k \in 1..m : l.got[k] = said[k]
      <4>1. ~GapIn(speaker) => Len(talk.log) = m /\ \A k \in 1..m : talk.log[k].data = said[k]
        BY <2>1, <3>3 DEF Undisturbed, ReadsAs
      <4>. QED
        BY <3>2, <3>3, <4>1 DEF Follows
    <3>7. last /\ ~GapIn(speaker) => l.got = said
      <4>1. l.got \in Seq(Nat) /\ said \in Seq(Nat)
        BY <1>5, <1>7
      <4>2. last /\ ~GapIn(speaker) => Len(l.got) = Len(said) /\ \A k \in 1..Len(said) : l.got[k] = said[k]
        BY Zenon, <3>3, <3>6
      <4>. QED
        BY <4>1, <4>2, SeqEqual
    <3>8. c.pc \in {"clear", "restore"} => l.got = said /\ said # <<>>
      BY <1>3, <1>8, <3>5, <3>7
    <3>9. speaker[p].op = "get" /\ ~speaker[p].blurred => ~GapIn(speaker) /\ Leads(speaker[p].from, said)
      BY <1>4, <2>1 DEF SpeakerIs
    <3>10. c.pc = "shown" /\ ~c.blurred => Leads(c.from, l.got) /\ Leads(l.got, said)
      BY <1>3, <1>5, <1>8, <3>7, <3>9, LeadsItself
    <3>. QED
      BY <1>3, <1>8, <1>9, <3>2, <3>5, <3>8, <3>9, <3>10 DEF SpeakerIs
  <2>. QED
    BY <1>6, <2>2, <2>3
<1>11. ~disturbed => Undisturbed(talk, speaker', said)
  BY <1>0, <1>4, <1>5, <1>8, <1>9, <1>10, StillUndisturbed
<1>12. TalkTypeOK(talk, speaker', said, lastSaid)
  BY <1>0, <1>4, <1>5, <1>8, <1>9, SpeakersMove DEF TalkTypeOK
<1>. QED
  BY <1>0, <1>4, <1>11, <1>12 DEF TalkInv

(* Returning what was read, or giving an operation up, keeps the invariant. *)
LEMMA LeaveTalkKeeps ==
  ASSUME TalkInv, NEW p \in Speakers, Shown(p) \/ StopSaying(p)
  PROVE  TalkInv'
<1>0. TalkTypeOK(talk, speaker, said, lastSaid) /\ disturbed \in BOOLEAN /\ (~disturbed => Undisturbed(talk, speaker, said))
  BY DEF TalkInv
<1>1. /\ LogIs(talk, Nat) /\ said \in Seq(Nat) /\ speaker \in [Speakers -> SayShape]
      /\ \A q \in Speakers : SaysOf(speaker[q])
  BY <1>0 DEF TalkTypeOK
<1>2. /\ speaker' = [speaker EXCEPT ![p] = Resting] /\ UNCHANGED <<talk, said, lastSaid>>
      /\ disturbed' \in BOOLEAN /\ (~disturbed' => ~disturbed /\ speaker[p].pc # "restore")
  BY <1>0 DEF Shown, StopSaying
<1>3. SpeakerIs(talk, said, GapIn(speaker), Resting)
  BY RestingIs DEF SpeakerIs
<1>4. ~disturbed' => Undisturbed(talk, speaker', said)
  BY <1>0, <1>1, <1>2, <1>3, RestingIs, StillUndisturbed
<1>5. TalkTypeOK(talk, speaker', said, lastSaid)
  BY <1>0, <1>1, <1>2, RestingIs, SpeakersMove DEF TalkTypeOK
<1>. QED
  BY <1>2, <1>4, <1>5 DEF TalkInv
(***************************************************************************)
(* The steps that write.  The record of everyone else is at most blurred.   *)
(***************************************************************************)
Marked(s, b) == [s EXCEPT !.blurred = b]

(* Marking a speaker changes its mark alone. *)
LEMMA MarkedIs ==
  ASSUME NEW s \in SayShape, SaysOf(s), NEW b \in BOOLEAN
  PROVE  /\ Marked(s, b) \in SayShape /\ SaysOf(Marked(s, b)) /\ Marked(s, b).blurred = b
         /\ Marked(s, b).pc = s.pc /\ Marked(s, b).op = s.op /\ Marked(s, b).list = s.list
         /\ Marked(s, b).from = s.from
<1>1. /\ Marked(s, b) \in SayShape /\ Marked(s, b).blurred = b
      /\ Marked(s, b).pc = s.pc /\ Marked(s, b).op = s.op /\ Marked(s, b).list = s.list
      /\ Marked(s, b).from = s.from
  BY DEF SayShape, Marked
<1>. QED
  BY <1>1 DEF SaysOf

(* Blurring marks every other speaker that is busy and changes nothing else *)
(* of it.                                                                   *)
LEMMA BlurredIs ==
  ASSUME speaker \in [Speakers -> SayShape], \A q \in Speakers : SaysOf(speaker[q]),
         NEW p \in Speakers
  PROVE  /\ Blurred(p) \in [Speakers -> SayShape] /\ \A q \in Speakers : SaysOf(Blurred(p)[q])
         /\ \A q \in Speakers \ {p} :
              /\ Blurred(p)[q].pc = speaker[q].pc /\ Blurred(p)[q].op = speaker[q].op
              /\ Blurred(p)[q].list = speaker[q].list
              /\ Blurred(p)[q].blurred <=> speaker[q].pc # "idle"
<1>1. \A q \in Speakers : Blurred(p)[q] = IF q = p THEN speaker[q] ELSE Marked(speaker[q], speaker[q].pc # "idle")
  BY Zenon DEF Blurred, Marked
<1>2. \A q \in Speakers : LET n == Marked(speaker[q], speaker[q].pc # "idle")
                          IN  /\ n \in SayShape /\ SaysOf(n)
                              /\ n.pc = speaker[q].pc /\ n.op = speaker[q].op /\ n.list = speaker[q].list
                              /\ n.blurred <=> speaker[q].pc # "idle"
  BY MarkedIs
<1>3. Blurred(p) = [q \in Speakers |-> Blurred(p)[q]]
  BY DEF Blurred
<1>4. \A q \in Speakers : Blurred(p)[q] \in SayShape /\ SaysOf(Blurred(p)[q])
  BY <1>1, <1>2
<1>5. Blurred(p) \in [Speakers -> SayShape]
  BY <1>3, <1>4
<1>. QED
  BY <1>1, <1>2, <1>4, <1>5

(* Nobody else is in a pop past the start of its listing. *)
LEMMA NoneOvertaken ==
  ASSUME NEW p \in Speakers, ~Overtaken(p)
  PROVE  \A q \in Speakers \ {p} :
           ~(speaker[q].op = "pop" /\ speaker[q].pc \in {"read", "clear", "restore"})
BY DEF Overtaken, Popping

(* add_items keeps the invariant: one append, behind everything said. *)
LEMMA AddItemsKeeps ==
  ASSUME TalkInv, NEW p \in Speakers, NEW count \in 1..2, AddItems(p, count)
  PROVE  TalkInv'
<1>1. PICK new : new = [k \in 1..count |-> lastSaid + k]
  OBVIOUS
<1>2. /\ speaker[p].pc = "add" /\ talk' = Appended(talk, new) /\ said' = said \o new
      /\ lastSaid' = lastSaid + count /\ disturbed' = (disturbed \/ Overtaken(p))
      /\ speaker' = [speaker EXCEPT ![p] = Resting]
  BY Zenon, <1>1 DEF AddItems
<1>0. TalkTypeOK(talk, speaker, said, lastSaid) /\ disturbed \in BOOLEAN /\ (~disturbed => Undisturbed(talk, speaker, said))
  BY DEF TalkInv
<1>3. /\ LogIs(talk, Nat) /\ said \in Seq(Nat) /\ speaker \in [Speakers -> SayShape] /\ lastSaid \in Nat
      /\ \A q \in Speakers : SaysOf(speaker[q])
  BY <1>0 DEF TalkTypeOK
<1>4. PICK n \in Nat, len \in Nat : n = count /\ len = Len(said)
  <2>1. count \in Nat /\ Len(said) \in Nat
    BY <1>3
  <2>. QED
    BY <2>1
<1>5. new \in Seq(Nat) /\ Len(new) = n
  <2>1. \A k \in 1..n : lastSaid + k \in Nat
    BY <1>3
  <2>2. new \in [1..n -> Nat]
    BY <1>1, <1>4, <2>1
  <2>. QED
    BY <1>4, <2>2
<1>6. /\ said \o new \in Seq(Nat) /\ Len(said \o new) = len + n
      /\ \A k \in 1..len : (said \o new)[k] = said[k]
      /\ \A k \in 1..n : (said \o new)[len + k] = new[k]
  <2>1. PICK whole : whole = said \o new
    OBVIOUS
  <2>2. said \in Seq(Nat) /\ new \in Seq(Nat) /\ len = Len(said) /\ n = Len(new)
    BY <1>3, <1>4, <1>5
  <2>3. /\ whole \in Seq(Nat) /\ Len(whole) = len + n
        /\ \A k \in 1..len : whole[k] = said[k]
        /\ \A k \in 1..n : whole[len + k] = new[k]
    BY <2>1, <2>2, ConcatIs
  <2>. QED
    BY Zenon, <2>1, <2>3
<1>7. /\ LogIs(talk', Nat) /\ Len(talk'.log) = Len(talk.log) + n
      /\ \A k \in 1..Len(talk.log) : talk'.log[k] = talk.log[k]
      /\ \A k \in 1..n : talk'.log[Len(talk.log) + k].data = new[k]
      /\ \A l \in Lists(Nat) : Follows(talk, l) => Follows(talk', l)
  <2>0. LogIs(talk, Nat) /\ new \in Seq(Nat) /\ talk' = Appended(talk, new)
    BY <1>2, <1>3, <1>5
  <2>1. PICK D : D = Nat
    OBVIOUS
  <2>4. LogIs(talk, D) /\ new \in Seq(D) /\ talk' = Appended(talk, new)
    BY Zenon, <2>0, <2>1
  <2>5. LogIs(talk', D) /\ Appends(talk, new, talk')
    BY <2>4, AppendedIs
  <2>3. /\ LogIs(talk', D) /\ Len(talk'.log) = Len(talk.log) + Len(new)
        /\ \A k \in 1..Len(talk.log) : talk'.log[k] = talk.log[k]
        /\ \A k \in 1..Len(new) : talk'.log[Len(talk.log) + k].data = new[k]
    BY Zenon, <2>5 DEF Appends
  <2>2. \A l \in Lists(Nat) : Follows(talk, l) => Follows(Appended(talk, new), l)
    BY <1>3, <1>5, FollowsAppend
  <2>. QED
    BY <2>0, <1>5, <2>1, <2>2, <2>3
<1>8. /\ speaker' \in [Speakers -> SayShape] /\ \A q \in Speakers : SaysOf(speaker'[q])
      /\ speaker'[p] = Resting /\ \A q \in Speakers \ {p} : speaker'[q] = speaker[q]
  BY <1>2, <1>3, RestingIs, SpeakersMove
<1>9. TalkTypeOK(talk', speaker', said', lastSaid')
  <2>1. lastSaid' \in Nat
    BY <1>2, <1>3
  <2>. QED
    BY <1>2, <1>6, <1>7, <1>8, <2>1 DEF TalkTypeOK
<1>10. ASSUME ~disturbed'
       PROVE  Undisturbed(talk', speaker', said')
  <2>1. Undisturbed(talk, speaker, said) /\ ~Overtaken(p)
    BY <1>0, <1>2, <1>10
  <2>2. \A q \in Speakers : speaker[q].pc \notin {"clear", "restore"} /\ ~(speaker[q].op = "pop" /\ speaker[q].pc = "read")
    BY <1>2, <1>3, <2>1, NoneOvertaken DEF SaysOf
  <2>3. ~GapIn(speaker)
    BY <2>2 DEF GapIn
  <2>9. ~GapIn(speaker')
    BY <1>8, <2>2, RestingIs DEF GapIn
  <2>4. ReadsAs(talk', said')
    <3>1. Len(talk.log) = len /\ \A k \in 1..len : talk.log[k].data = said[k]
      BY <1>4, <2>1, <2>3 DEF Undisturbed, ReadsAs
    <3>2. \A k \in 1..len : talk'.log[k].data = said[k]
      BY <1>7, <3>1
    <3>3. \A k \in 1..(len + n) : k \in 1..len \/ (k - len \in 1..n /\ len + (k - len) = k)
      OBVIOUS
    <3>5. \A k \in 1..n : talk'.log[len + k].data = said'[len + k]
      <4>. TAKE k \in 1..n
      <4>1. talk'.log[Len(talk.log) + k].data = new[k]
        BY <1>7
      <4>2. said'[len + k] = new[k]
        BY <1>2, <1>6
      <4>. QED
        BY <3>1, <4>1, <4>2
    <3>6. \A k \in 1..len : talk'.log[k].data = said'[k]
      BY <1>2, <1>6, <3>2
    <3>4. ASSUME NEW k \in 1..(len + n)
          PROVE  talk'.log[k].data = said'[k]
      <4>1. CASE k \in 1..len
        BY <3>6, <4>1
      <4>2. CASE k - len \in 1..n /\ len + (k - len) = k
        <5>1. talk'.log[len + (k - len)].data = said'[len + (k - len)]
          BY <3>5, <4>2
        <5>. QED
          BY <4>2, <5>1
      <4>. QED
        BY <3>3, <4>1, <4>2
    <3>. QED
      BY <1>2, <1>6, <1>7, <3>1, <3>4 DEF ReadsAs
  <2>5. OneRestores(speaker')
    BY <2>9 DEF OneRestores, GapIn
  <2>6. \A part \in Seq(Nat) : Leads(part, said) => Leads(part, said')
    <3>. SUFFICES ASSUME NEW part \in Seq(Nat), Leads(part, said)
                  PROVE  Leads(part, said')
      OBVIOUS
    <3>1. PICK m \in Nat : m = Len(part) /\ m <= len /\ \A k \in 1..m : part[k] = said[k]
      BY <1>4 DEF Leads
    <3>2. \A k \in 1..m : k \in 1..len
      BY <3>1
    <3>3. m <= len + n
      BY <3>1
    <3>. QED
      BY <1>2, <1>6, <3>1, <3>2, <3>3 DEF Leads
  <2>7. \A q \in Speakers : SpeakerIs(talk', said', GapIn(speaker'), speaker'[q])
    <3>1. SpeakerIs(talk', said', GapIn(speaker'), speaker'[p])
      BY <1>8, RestingIs DEF SpeakerIs
    <3>2. ASSUME NEW q \in Speakers \ {p}
          PROVE  SpeakerIs(talk', said', GapIn(speaker'), speaker'[q])
      <4>1. speaker[q] \in SayShape /\ speaker'[q] = speaker[q] /\ SpeakerIs(talk, said, GapIn(speaker), speaker[q])
        BY <1>3, <1>8, <2>1 DEF Undisturbed
      <4>2. speaker[q].pc \notin {"clear", "restore"}
        BY <2>2
      <4>3. /\ speaker[q].list \in Lists(Nat) /\ speaker[q].list.got \in Seq(Nat) /\ speaker[q].from \in Seq(Nat)
        BY <4>1, SayHolds
      <4>. QED
        BY <1>7, <2>6, <2>9, <4>1, <4>2, <4>3 DEF SpeakerIs
    <3>. QED
      BY <3>1, <3>2
  <2>. QED
    BY <2>4, <2>5, <2>7, <2>9 DEF Undisturbed
<1>11. disturbed' \in BOOLEAN
  BY <1>0, <1>2
<1>. QED
  BY <1>9, <1>10, <1>11 DEF TalkInv
(* A write that leaves the log and the transcript empty. *)
LEMMA EmptiedIs ==
  ASSUME NEW t, NEW sp, t.log = <<>>,
         \A q \in Speakers : /\ sp[q].pc \notin {"clear", "restore"}
                             /\ sp[q].op = "pop" => sp[q].pc # "read"
                             /\ sp[q].pc # "idle" => sp[q].blurred
                             /\ sp[q].pc = "shown" => sp[q].op = "get"
  PROVE  Undisturbed(t, sp, <<>>)
<1>1. ~GapIn(sp) /\ OneRestores(sp)
  BY DEF GapIn, OneRestores
<1>2. ReadsAs(t, <<>>)
  BY DEF ReadsAs
<1>3. \A q \in Speakers : SpeakerIs(t, <<>>, GapIn(sp), sp[q])
  BY DEF SpeakerIs
<1>. QED
  BY <1>1, <1>2, <1>3 DEF Undisturbed

(* clear_session keeps the invariant. *)
LEMMA ClearSessionKeeps ==
  ASSUME TalkInv, NEW p \in Speakers, ClearSession(p)
  PROVE  TalkInv'
<1>0. TalkTypeOK(talk, speaker, said, lastSaid) /\ disturbed \in BOOLEAN
  BY DEF TalkInv
<1>1. /\ LogIs(talk, Nat) /\ said \in Seq(Nat) /\ speaker \in [Speakers -> SayShape] /\ lastSaid \in Nat
      /\ \A q \in Speakers : SaysOf(speaker[q])
  BY <1>0 DEF TalkTypeOK
<1>2. /\ speaker[p].pc = "wipe" /\ talk' = Cleared(talk) /\ said' = <<>> /\ lastSaid' = lastSaid
      /\ disturbed' = (disturbed \/ Overtaken(p)) /\ speaker' = [Blurred(p) EXCEPT ![p] = Resting]
  BY DEF ClearSession
<1>3. LogIs(talk', Nat) /\ talk'.log = <<>> /\ said' \in Seq(Nat)
  BY <1>1, <1>2, ClearedIs
<1>4. /\ speaker' \in [Speakers -> SayShape] /\ \A q \in Speakers : SaysOf(speaker'[q])
      /\ speaker'[p] = Resting
      /\ \A q \in Speakers \ {p} :
           /\ speaker'[q].pc = speaker[q].pc /\ speaker'[q].op = speaker[q].op
           /\ speaker'[q].blurred <=> speaker[q].pc # "idle"
  <2>1. PICK b : b = Blurred(p)
    OBVIOUS
  <2>2. /\ b \in [Speakers -> SayShape] /\ \A q \in Speakers : SaysOf(b[q])
        /\ \A q \in Speakers \ {p} :
             /\ b[q].pc = speaker[q].pc /\ b[q].op = speaker[q].op
             /\ b[q].list = speaker[q].list
             /\ b[q].blurred <=> speaker[q].pc # "idle"
    BY Zenon, <1>1, <2>1, BlurredIs
  <2>3. speaker' = [b EXCEPT ![p] = Resting] /\ Resting \in SayShape /\ SaysOf(Resting)
    BY Zenon, <1>2, <2>1, RestingIs
  <2>4. /\ speaker' \in [Speakers -> SayShape] /\ speaker'[p] = Resting
        /\ \A q \in Speakers \ {p} : speaker'[q] = b[q]
    BY <2>2, <2>3
  <2>5. \A q \in Speakers : SaysOf(speaker'[q])
    BY <2>2, <2>3, <2>4
  <2>. QED
    BY <2>2, <2>4, <2>5
<1>5. TalkTypeOK(talk', speaker', said', lastSaid')
  BY <1>1, <1>2, <1>3, <1>4 DEF TalkTypeOK
<1>6. ASSUME ~disturbed'
      PROVE  Undisturbed(talk', speaker', said')
  <2>1. \A q \in Speakers \ {p} : ~(speaker[q].op = "pop" /\ speaker[q].pc \in {"read", "clear", "restore"})
    BY <1>2, <1>6, NoneOvertaken
  <2>2. \A q \in Speakers : /\ speaker'[q].pc \notin {"clear", "restore"}
                            /\ speaker'[q].op = "pop" => speaker'[q].pc # "read"
                            /\ speaker'[q].pc # "idle" => speaker'[q].blurred
                            /\ speaker'[q].pc = "shown" => speaker'[q].op = "get"
    BY <1>1, <1>4, <2>1, RestingIs DEF SaysOf
  <2>3. Undisturbed(talk', speaker', <<>>)
    BY <1>3, <2>2, EmptiedIs
  <2>. QED
    BY <1>2, <2>3
<1>. QED
  BY <1>0, <1>2, <1>5, <1>6 DEF TalkInv

(* What a pop keeps of what it listed: all but the last. *)
LEMMA KeptIs ==
  ASSUME NEW got \in Seq(Nat), got # <<>>
  PROVE  /\ Kept(got) \in Seq(Nat) /\ Len(Kept(got)) = Len(got) - 1 /\ Len(got) - 1 \in Nat
         /\ \A k \in 1..(Len(got) - 1) : Kept(got)[k] = got[k]
<1>1. PICK len \in Nat, n \in Nat : len = Len(got) /\ n = len - 1
  <2>1. Len(got) \in Nat /\ Len(got) # 0
    OBVIOUS
  <2>2. Len(got) - 1 \in Nat
    BY <2>1
  <2>. QED
    BY <2>1, <2>2
<1>2. 1 \in Nat /\ n <= Len(got) /\ n = n - 1 + 1
  BY <1>1
<1>3. /\ SubSeq(got, 1, n) \in Seq(Nat) /\ Len(SubSeq(got, 1, n)) = n
      /\ \A k \in 1..n : SubSeq(got, 1, n)[k] = got[1 + k - 1]
  BY <1>2, SliceIs
<1>4. \A k \in 1..n : 1 + k - 1 = k
  OBVIOUS
<1>. QED
  BY <1>1, <1>3, <1>4 DEF Kept

(* The clear of a pop_item keeps the invariant: it opens the gap. *)
LEMMA PopClearKeeps ==
  ASSUME TalkInv, NEW p \in Speakers, PopClear(p)
  PROVE  TalkInv'
<1>0. TalkTypeOK(talk, speaker, said, lastSaid) /\ disturbed \in BOOLEAN /\ (~disturbed => Undisturbed(talk, speaker, said))
  BY DEF TalkInv
<1>1. /\ LogIs(talk, Nat) /\ said \in Seq(Nat) /\ speaker \in [Speakers -> SayShape] /\ lastSaid \in Nat
      /\ \A q \in Speakers : SaysOf(speaker[q])
  BY <1>0 DEF TalkTypeOK
<1>2. PICK kept : kept = Kept(speaker[p].list.got)
  OBVIOUS
<1>. DEFINE moved == [speaker[p] EXCEPT !.pc = "restore"]
            c == IF kept = <<>> THEN Resting ELSE moved
<1>3. /\ speaker[p].pc = "clear" /\ talk' = Cleared(talk) /\ disturbed' = (disturbed \/ Overtaken(p))
      /\ speaker' = [Blurred(p) EXCEPT ![p] = c]
      /\ said' = (IF kept = <<>> THEN <<>> ELSE said) /\ lastSaid' = lastSaid
  BY Zenon, <1>2 DEF PopClear
<1>4. speaker[p] \in SayShape /\ SaysOf(speaker[p]) /\ speaker[p].op = "pop"
  BY <1>1, <1>3 DEF SaysOf
<1>5. /\ moved \in SayShape /\ moved.pc = "restore" /\ moved.op = "pop" /\ moved.list = speaker[p].list
  BY <1>4 DEF SayShape
<1>6. c \in SayShape /\ SaysOf(c)
  <2>. HIDE DEF moved
  <2>1. SaysOf(moved)
    BY <1>5 DEF SaysOf
  <2>. QED
    BY <1>5, <2>1, RestingIs
<1>. HIDE DEF c, moved
<1>7. LogIs(talk', Nat) /\ talk'.log = <<>> /\ said' \in Seq(Nat)
  <2>1. <<>> \in Seq(Nat)
    OBVIOUS
  <2>. QED
    BY <1>1, <1>3, <2>1, ClearedIs
<1>8. /\ speaker' \in [Speakers -> SayShape] /\ \A q \in Speakers : SaysOf(speaker'[q])
      /\ speaker'[p] = c
      /\ \A q \in Speakers \ {p} :
           /\ speaker'[q].pc = speaker[q].pc /\ speaker'[q].op = speaker[q].op
           /\ speaker'[q].blurred <=> speaker[q].pc # "idle"
  <2>1. PICK b : b = Blurred(p)
    OBVIOUS
  <2>2. /\ b \in [Speakers -> SayShape] /\ \A q \in Speakers : SaysOf(b[q])
        /\ \A q \in Speakers \ {p} :
             /\ b[q].pc = speaker[q].pc /\ b[q].op = speaker[q].op
             /\ b[q].list = speaker[q].list
             /\ b[q].blurred <=> speaker[q].pc # "idle"
    BY Zenon, <1>1, <2>1, BlurredIs
  <2>3. speaker' = [b EXCEPT ![p] = c] /\ c \in SayShape /\ SaysOf(c)
    BY Zenon, <1>3, <2>1, <1>6
  <2>4. /\ speaker' \in [Speakers -> SayShape] /\ speaker'[p] = c
        /\ \A q \in Speakers \ {p} : speaker'[q] = b[q]
    BY <2>2, <2>3
  <2>5. \A q \in Speakers : SaysOf(speaker'[q])
    BY <2>2, <2>3, <2>4
  <2>. QED
    BY <2>2, <2>4, <2>5
<1>9. TalkTypeOK(talk', speaker', said', lastSaid')
  BY <1>1, <1>3, <1>7, <1>8 DEF TalkTypeOK
<1>10. ASSUME ~disturbed'
       PROVE  Undisturbed(talk', speaker', said')
  <2>1. \A q \in Speakers \ {p} : ~(speaker[q].op = "pop" /\ speaker[q].pc \in {"read", "clear", "restore"})
    BY <1>3, <1>10, NoneOvertaken
  <2>2. \A q \in Speakers \ {p} :
          /\ speaker'[q].pc \notin {"clear", "restore"} /\ (speaker'[q].op = "pop" => speaker'[q].pc # "read")
          /\ speaker'[q].pc # "idle" => speaker'[q].blurred
          /\ speaker'[q].pc = "shown" => speaker'[q].op = "get"
    BY <1>1, <1>8, <2>1 DEF SaysOf
  <2>3. CASE kept = <<>>
    <3>1. speaker'[p] = Resting /\ said' = <<>>
      BY <1>3, <1>8, <2>3 DEF c
    <3>2. \A q \in Speakers : /\ speaker'[q].pc \notin {"clear", "restore"}
                              /\ speaker'[q].op = "pop" => speaker'[q].pc # "read"
                              /\ speaker'[q].pc # "idle" => speaker'[q].blurred
                              /\ speaker'[q].pc = "shown" => speaker'[q].op = "get"
      BY <2>2, <3>1, RestingIs
    <3>3. Undisturbed(talk', speaker', <<>>)
      BY <1>7, <3>2, EmptiedIs
    <3>. QED
      BY <3>1, <3>3
  <2>4. CASE kept # <<>>
    <3>1. speaker'[p] = moved /\ said' = said
      BY <1>3, <1>8, <2>4 DEF c
    <3>2. Undisturbed(talk, speaker, said)
      BY <1>0, <1>3, <1>10
    <3>3. speaker[p].list.got = said /\ said # <<>>
      BY <1>3, <3>2 DEF Undisturbed, SpeakerIs
    <3>4. GapIn(speaker')
      BY <1>5, <3>1 DEF GapIn
    <3>5. OneRestores(speaker')
      BY <2>2 DEF OneRestores
    <3>6. SpeakerIs(talk', said', GapIn(speaker'), speaker'[p])
      BY <1>5, <3>1, <3>3 DEF SpeakerIs
    <3>7. \A q \in Speakers \ {p} : SpeakerIs(talk', said', GapIn(speaker'), speaker'[q])
      BY <2>2 DEF SpeakerIs
    <3>. QED
      BY <1>7, <3>4, <3>5, <3>6, <3>7 DEF Undisturbed
  <2>. QED
    BY <2>3, <2>4
<1>11. disturbed' \in BOOLEAN
  BY <1>0, <1>3
<1>. QED
  BY <1>9, <1>10, <1>11 DEF TalkInv

(* The append of a pop_item keeps the invariant: it closes the gap with all *)
(* but the last item.                                                       *)
LEMMA PopRestoreKeeps ==
  ASSUME TalkInv, NEW p \in Speakers, PopRestore(p)
  PROVE  TalkInv'
<1>0. TalkTypeOK(talk, speaker, said, lastSaid) /\ disturbed \in BOOLEAN /\ (~disturbed => Undisturbed(talk, speaker, said))
  BY DEF TalkInv
<1>1. /\ LogIs(talk, Nat) /\ said \in Seq(Nat) /\ speaker \in [Speakers -> SayShape] /\ lastSaid \in Nat
      /\ \A q \in Speakers : SaysOf(speaker[q])
  BY <1>0 DEF TalkTypeOK
<1>2. PICK kept : kept = Kept(speaker[p].list.got)
  OBVIOUS
<1>3. /\ speaker[p].pc = "restore" /\ talk' = Appended(talk, kept)
      /\ said' = (IF said = <<>> THEN <<>> ELSE SubSeq(said, 1, Len(said) - 1))
      /\ speaker' = [Blurred(p) EXCEPT ![p] = Resting] /\ lastSaid' = lastSaid /\ disturbed' = disturbed
  BY Zenon, <1>2 DEF PopRestore
<1>4. PICK got \in Seq(Nat) : got = speaker[p].list.got
  BY <1>1, SayHolds
<1>5. kept \in Seq(Nat)
  <2>1. CASE got = <<>>
    <3>1. SubSeq(got, 1, Len(got) - 1) = <<>>
      BY <2>1
    <3>2. kept = <<>>
      BY Zenon, <1>2, <1>4, <3>1 DEF Kept
    <3>. QED
      BY <3>2
  <2>2. CASE got # <<>>
    BY <1>2, <1>4, <2>2, KeptIs
  <2>. QED
    BY <2>1, <2>2
<1>6. said' \in Seq(Nat)
  <2>1. said # <<>> => SubSeq(said, 1, Len(said) - 1) \in Seq(Nat)
    BY <1>1, KeptIs DEF Kept
  <2>. QED
    BY <1>3, <2>1
<1>7. /\ LogIs(talk', Nat) /\ \A l \in Lists(Nat) : Follows(talk, l) => Follows(talk', l)
  <2>. PICK r : r = Appended(talk, kept)
    OBVIOUS
  <2>0. LogIs(talk, Nat) /\ kept \in Seq(Nat) /\ talk' = r
    BY <1>1, <1>3, <1>5
  <2>1. LogIs(r, Nat)
    BY <2>0, AppendedIs
  <2>2. \A l \in Lists(Nat) : Follows(talk, l) => Follows(Appended(talk, kept), l)
    BY <2>0, FollowsAppend
  <2>. QED
    BY Zenon, <2>0, <2>1, <2>2
<1>8. /\ speaker' \in [Speakers -> SayShape] /\ \A q \in Speakers : SaysOf(speaker'[q])
      /\ speaker'[p] = Resting
      /\ \A q \in Speakers \ {p} :
           /\ speaker'[q].pc = speaker[q].pc /\ speaker'[q].op = speaker[q].op
           /\ speaker'[q].list = speaker[q].list
           /\ speaker'[q].blurred <=> speaker[q].pc # "idle"
  <2>1. PICK b : b = Blurred(p)
    OBVIOUS
  <2>2. /\ b \in [Speakers -> SayShape] /\ \A q \in Speakers : SaysOf(b[q])
        /\ \A q \in Speakers \ {p} :
             /\ b[q].pc = speaker[q].pc /\ b[q].op = speaker[q].op
             /\ b[q].list = speaker[q].list
             /\ b[q].blurred <=> speaker[q].pc # "idle"
    BY Zenon, <1>1, <2>1, BlurredIs
  <2>3. speaker' = [b EXCEPT ![p] = Resting] /\ Resting \in SayShape /\ SaysOf(Resting)
    BY Zenon, <1>3, <2>1, RestingIs
  <2>4. /\ speaker' \in [Speakers -> SayShape] /\ speaker'[p] = Resting
        /\ \A q \in Speakers \ {p} : speaker'[q] = b[q]
    BY <2>2, <2>3
  <2>5. \A q \in Speakers : SaysOf(speaker'[q])
    BY <2>2, <2>3, <2>4
  <2>. QED
    BY <2>2, <2>4, <2>5
<1>9. TalkTypeOK(talk', speaker', said', lastSaid')
  BY <1>1, <1>3, <1>6, <1>7, <1>8 DEF TalkTypeOK
<1>10. ASSUME ~disturbed'
       PROVE  Undisturbed(talk', speaker', said')
  <2>1. Undisturbed(talk, speaker, said)
    BY <1>0, <1>3, <1>10
  <2>2. GapIn(speaker) /\ talk.log = <<>>
    BY <1>3, <2>1 DEF Undisturbed, GapIn
  <2>3. got = said /\ said # <<>>
    BY <1>3, <1>4, <2>1 DEF Undisturbed, SpeakerIs
  <2>4. \A q \in Speakers \ {p} : speaker[q].pc \notin {"clear", "restore"}
    BY <1>3, <2>1 DEF Undisturbed, OneRestores
  <2>5. said' = kept
    BY <1>2, <1>3, <1>4, <2>3 DEF Kept
  <2>6. ReadsAs(talk', said')
    <3>1. /\ Len(Appended(talk, kept).log) = Len(talk.log) + Len(kept)
          /\ \A k \in 1..Len(kept) : Appended(talk, kept).log[Len(talk.log) + k].data = kept[k]
      <4>1. Appends(talk, kept, Appended(talk, kept))
        BY <1>1, <1>5, AppendedIs
      <4>. QED
        BY Zenon, <4>1 DEF Appends
    <3>2. PICK n \in Nat : n = Len(kept) /\ Len(talk.log) = 0
      BY <1>5, <2>2
    <3>3. Len(talk'.log) = n /\ \A k \in 1..n : talk'.log[0 + k].data = kept[k]
      BY <1>3, <3>1, <3>2
    <3>4. \A k \in 1..n : 0 + k = k
      OBVIOUS
    <3>. QED
      BY <2>5, <3>2, <3>3, <3>4 DEF ReadsAs
  <2>7. ~GapIn(speaker') /\ OneRestores(speaker')
    BY <1>8, <2>4, RestingIs DEF GapIn, OneRestores
  <2>8. ASSUME NEW q \in Speakers
        PROVE  SpeakerIs(talk', said', GapIn(speaker'), speaker'[q])
    <3>1. CASE q = p
      BY <1>8, <3>1, RestingIs DEF SpeakerIs
    <3>2. CASE q # p
      <4>1. SpeakerIs(talk, said, GapIn(speaker), speaker[q]) /\ speaker[q].list \in Lists(Nat)
        BY <1>1, <2>1, SayHolds DEF Undisturbed
      <4>2. speaker'[q].pc \notin {"clear", "restore"} /\ (speaker'[q].pc # "idle" => speaker'[q].blurred)
        BY <1>8, <2>4, <3>2
      <4>3. speaker'[q].pc = "read" /\ speaker'[q].op = "pop" => Follows(talk', speaker'[q].list)
        BY <1>7, <1>8, <3>2, <4>1 DEF SpeakerIs
      <4>. QED
        BY <4>2, <4>3 DEF SpeakerIs
    <3>. QED
      BY <3>1, <3>2
  <2>. QED
    BY <2>6, <2>7, <2>8 DEF Undisturbed
<1>. QED
  BY <1>0, <1>3, <1>9, <1>10 DEF TalkInv

(* What a session of the OpenAI Agents SDK holds is what its operations add *)
(* up to, whatever number of processes use it and page by page, as long as  *)
(* no pop was cut short or overtaken: pop_item, add_items, clear_session    *)
(* and get_items of session.py.                                             *)
THEOREM TalkInvariant == TranscriptSpec => []TalkInv
<1>1. TranscriptInit => TalkInv
  <2>. SUFFICES ASSUME TranscriptInit
                PROVE  TalkInv
    OBVIOUS
  <2>1. talk = NoLog /\ said = <<>> /\ lastSaid = 0 /\ disturbed = FALSE
        /\ speaker = [p \in Speakers |-> Resting]
    BY DEF TranscriptInit
  <2>2. LogIs(talk, Nat) /\ talk.log = <<>>
    <3>1. NoLog.log = <<>> /\ NoLog \in [exists : BOOLEAN, clock : Nat, log : Seq([time : Nat, data : Nat])]
      BY DEF NoLog
    <3>2. \A k : k \notin DOMAIN NoLog.log
      BY <3>1
    <3>. QED
      BY <2>1, <3>1, <3>2 DEF LogIs
  <2>3. speaker \in [Speakers -> SayShape] /\ \A p \in Speakers : speaker[p] = Resting
    BY <2>1, RestingIs
  <2>4. TalkTypeOK(talk, speaker, said, lastSaid)
    BY <2>1, <2>2, <2>3, RestingIs DEF TalkTypeOK
  <2>5. Undisturbed(talk, speaker, <<>>)
    BY <2>2, <2>3, RestingIs, EmptiedIs
  <2>. QED
    BY <2>1, <2>4, <2>5 DEF TalkInv
<1>2. TalkInv /\ [TranscriptNext]_transcriptVars => TalkInv'
  <2>. SUFFICES ASSUME TalkInv, [TranscriptNext]_transcriptVars
                PROVE  TalkInv'
    OBVIOUS
  <2>1. ASSUME NEW p \in Speakers, NEW op \in DOMAIN AfterResolving, BeginSaying(p, op)
        PROVE  TalkInv'
    BY <2>1, BeginSayingKeeps
  <2>2. ASSUME NEW p \in Speakers, NEW count \in 1..2, AddItems(p, count)
        PROVE  TalkInv'
    BY <2>2, AddItemsKeeps
  <2>3. ASSUME NEW p \in Speakers,
               \/ CreateTalk(p) \/ ListTalk(p) \/ Shown(p) \/ ClearSession(p)
               \/ PopClear(p) \/ PopRestore(p) \/ StopSaying(p)
        PROVE  TalkInv'
    BY <2>3, CreateTalkKeeps, ListTalkKeeps, LeaveTalkKeeps, ClearSessionKeeps, PopClearKeeps, PopRestoreKeeps
  <2>4. CASE UNCHANGED transcriptVars
    BY <2>4 DEF transcriptVars, TalkInv
  <2>. QED
    BY <2>1, <2>2, <2>3, <2>4 DEF TranscriptNext
<1>. QED
  BY <1>1, <1>2, PTL DEF TranscriptSpec

(* The invariant's form of being a beginning is the property's. *)
LEMMA LeadsBegins ==
  ASSUME NEW part \in Seq(Nat), NEW whole \in Seq(Nat), Leads(part, whole)
  PROVE  Begins(part, whole)
<1>1. PICK n \in Nat : n = Len(part) /\ n <= Len(whole) /\ 1 \in Nat /\ n = n - 1 + 1
  BY DEF Leads
<1>2. /\ SubSeq(whole, 1, n) \in Seq(Nat) /\ Len(SubSeq(whole, 1, n)) = n
      /\ \A k \in 1..n : SubSeq(whole, 1, n)[k] = whole[1 + k - 1]
  BY <1>1, SliceIs
<1>3. \A k \in 1..n : 1 + k - 1 = k
  OBVIOUS
<1>4. \A k \in 1..n : part[k] = SubSeq(whole, 1, n)[k]
  BY <1>1, <1>2, <1>3 DEF Leads
<1>5. part = SubSeq(whole, 1, n)
  BY <1>1, <1>2, <1>4
<1>6. n \in 0..Len(whole)
  BY <1>1
<1>. QED
  BY <1>5, <1>6 DEF Begins

(* The invariant implies the property that the run checks. *)
LEMMA TalkInvIsEnough == TalkInv => TranscriptIsWhole
<1>. SUFFICES ASSUME TalkInv
              PROVE  TranscriptIsWhole
  OBVIOUS
<1>1. /\ LogIs(talk, Nat) /\ said \in Seq(Nat) /\ speaker \in [Speakers -> SayShape]
      /\ disturbed \in BOOLEAN /\ (~disturbed => Undisturbed(talk, speaker, said))
  BY DEF TalkInv, TalkTypeOK
<1>4. said \in Seq(Nat) /\ LogIs(talk, Nat)
  BY <1>1
<1>2. ASSUME ~disturbed
      PROVE  Transcribed = IF Gap THEN <<>> ELSE said
  <2>1. IF GapIn(speaker) THEN talk.log = <<>> ELSE ReadsAs(talk, said)
    BY <1>1, <1>2 DEF Undisturbed
  <2>2. CASE GapIn(speaker)
    <3>1. talk.log = <<>> /\ Gap
      BY <2>1, <2>2 DEF GapIn, Gap
    <3>2. DOMAIN talk.log = 1..0
      BY <3>1
    <3>3. Transcribed = <<>>
      BY <3>2 DEF Transcribed
    <3>. QED
      BY <3>1, <3>3
  <2>3. CASE ~GapIn(speaker)
    <3>1. ~Gap
      BY <2>3 DEF GapIn, Gap
    <3>2. PICK n \in Nat : n = Len(said) /\ DOMAIN said = 1..n /\ said = [k \in 1..n |-> said[k]]
      BY <1>4
    <3>4. DOMAIN talk.log = 1..n /\ \A k \in 1..n : talk.log[k].data = said[k]
      <4>1. Len(talk.log) = n /\ \A k \in 1..n : talk.log[k].data = said[k]
        BY <2>1, <2>3, <3>2 DEF ReadsAs
      <4>2. DOMAIN talk.log = 1..Len(talk.log)
        BY <1>4 DEF LogIs
      <4>. QED
        BY <4>1, <4>2
    <3>5. Transcribed = [k \in 1..n |-> talk.log[k].data]
      BY <3>4 DEF Transcribed
    <3>6. Transcribed = said
      BY <3>2, <3>4, <3>5
    <3>. QED
      BY <3>1, <3>6
  <2>. QED
    BY <2>2, <2>3
<1>3. ASSUME NEW p \in Speakers, speaker[p].pc = "shown", ~speaker[p].blurred, ~disturbed
      PROVE  Begins(speaker[p].from, speaker[p].list.got) /\ Begins(speaker[p].list.got, said)
  <2>1. Leads(speaker[p].from, speaker[p].list.got) /\ Leads(speaker[p].list.got, said)
    BY <1>1, <1>3 DEF Undisturbed, SpeakerIs
  <2>2. speaker[p].from \in Seq(Nat) /\ speaker[p].list.got \in Seq(Nat)
    BY <1>1, SayHolds
  <2>. QED
    BY <1>1, <2>1, <2>2, LeadsBegins
<1>. QED
  BY <1>2, <1>3 DEF TranscriptIsWhole, TranscriptKept, ReadsAreWhole

(* The transcript of a session reads back whole and in order. *)
THEOREM TranscriptsStayWhole == TranscriptSpec => []TranscriptIsWhole
BY TalkInvariant, TalkInvIsEnough, PTL

-----------------------------------------------------------------------------
(***************************************************************************)
(* Checkpointer.  What a version names is what the checkpoint whose put     *)
(* drew it says: so the log alone decides what a channel reads back as, the *)
(* order of the items, their pages and their other writers do not matter.   *)
(***************************************************************************)
Version  == [n : 0..MaxCheckpoints, nonce : 0..MaxCheckpoints]
Versions == [Channels -> Version]
Values   == [Channels -> 0..MaxCheckpoints]

Entry ==
  [kind : {"channel"}, channel : Channels, version : Version, value : 0..MaxCheckpoints]
    \cup [kind : {"checkpoint"}, id : Ids, versions : Versions, parent : 0..MaxCheckpoints]
    \cup [kind : {"writes"}, id : Ids, task : Tasks]

RunShape ==
  [pc : {"idle", "create", "read", "run", "clear"}, op : {"run", "delete"}, wanted : 0..MaxCheckpoints,
   list : Lists(Entry), base : 0..MaxCheckpoints, versions : Versions, values : Values,
   torn : BOOLEAN, owed : SUBSET (Ids \X Tasks), latest : 0..MaxCheckpoints, missed : BOOLEAN]

PutShape == [put : BOOLEAN, values : Values, intact : BOOLEAN]

SaverTypeOK(t, sv, wr) ==
  LogIs(t, Entry) /\ sv \in [Processes -> RunShape] /\ wr \in [Ids -> PutShape]

PutInOrder(wr) == \A b, c \in Ids : b < c /\ wr[c].put => wr[b].put

(* Versions come from puts, and are counted no faster than they. *)
Drawn(versions, wr) ==
  \A ch \in Channels : LET v == versions[ch]
                       IN  v = NoVersion \/ (v.nonce \in Ids /\ wr[v.nonce].put /\ v.n <= v.nonce)

ItemIs(d, wr) ==
  /\ d.kind = "channel" => /\ d.version.nonce \in Ids /\ wr[d.version.nonce].put
                           /\ d.value = wr[d.version.nonce].values[d.channel]
  /\ d.kind = "checkpoint" => wr[d.id].put /\ Drawn(d.versions, wr)

DataOf(t) == {t.log[k].data : k \in DOMAIN t.log}
Mentions(d, ch, v) == d.kind = "channel" /\ d.channel = ch /\ d.version = v
MentionedIn(t, ch, v) == \E d \in DataOf(t) : Mentions(d, ch, v)
ValueIn(t, wr, ch, v) == IF MentionedIn(t, ch, v) THEN wr[v.nonce].values[ch] ELSE NoValue

ThreadIs(t, wr) ==
  \A d \in DataOf(t) :
    /\ ItemIs(d, wr)
    /\ d.kind = "checkpoint" /\ wr[d.id].intact
         => \A ch \in Channels : wr[d.id].values[ch] = ValueIn(t, wr, ch, d.versions[ch])

(* What the run must hear of is still on the thread. *)
Owes(t, r) ==
  /\ r.torn => r.owed = {} /\ r.latest = 0
  /\ r.latest # 0 => r.wanted = 0 /\ \E d \in DataOf(t) : d.kind = "checkpoint" /\ d.id = r.latest
  /\ \A w \in r.owed : \E d \in DataOf(t) : d.kind = "writes" /\ d.id = w[1] /\ d.task = w[2]

RunIs(t, wr, r) ==
  /\ r.pc = "create" => r.list = Listing
  /\ r.pc \in {"read", "run"} => r.op = "run"
  /\ \A d \in Among(r.list.got) : ItemIs(d, wr)
  /\ Drawn(r.versions, wr) /\ (r.base # 0 => wr[r.base].put) /\ ~r.missed
  /\ r.pc = "read" /\ ~r.torn => Follows(t, r.list)
  /\ r.pc \in {"create", "read"} /\ r.op = "run" => Owes(t, r)
  /\ r.pc = "run" /\ ~r.torn =>
       /\ \A ch \in Channels : r.values[ch] = ValueIn(t, wr, ch, r.versions[ch])
       /\ r.base # 0 /\ wr[r.base].intact => r.values = wr[r.base].values

SaverInv ==
  /\ SaverTypeOK(thread, saver, written) /\ PutInOrder(written) /\ ThreadIs(thread, written)
  /\ \A p \in Processes : RunIs(thread, written, saver[p])

(* The bounds of the saver, from the assumption on its constants. *)
LEMMA Bounds == MaxCheckpoints \in Nat /\ IsFiniteSet(Channels)
BY SaverAssumption

(* The greatest and the least of some numbers. *)
LEMMA GreatestIs ==
  ASSUME NEW N \in Nat, NEW T \in SUBSET (0..N), T # {}
  PROVE  Max(T) \in T /\ \A y \in T : Max(T) >= y
<1>. DEFINE down == {m \in Nat : m <= N /\ N - m \in T}
<1>1. down \in SUBSET Nat /\ down # {}
  <2>1. PICK x \in T : TRUE
    OBVIOUS
  <2>2. x \in 0..N /\ N - x \in Nat /\ N - x <= N /\ N - (N - x) = x
    BY <2>1
  <2>3. N - x \in down
    BY <2>1, <2>2
  <2>. QED
    BY <2>3
<1>2. \A y \in T : y \in 0..N /\ N - y \in down
  <2>. TAKE y \in T
  <2>1. y \in 0..N /\ N - y \in Nat /\ N - y <= N /\ N - (N - y) = y
    OBVIOUS
  <2>. QED
    BY <2>1
<1>3. PICK t \in down : \A m \in down : t <= m
  <2>. HIDE DEF down
  <2>. QED
    BY <1>1, LeastExists
<1>4. t \in Nat /\ t <= N /\ N - t \in T
  BY <1>3
<1>5. \A y \in T : N - t >= y
  <2>. TAKE y \in T
  <2>1. y \in 0..N /\ N - y \in Nat /\ t <= N - y
    <3>. HIDE DEF down
    <3>1. y \in 0..N /\ N - y \in down
      BY <1>2
    <3>2. t <= N - y
      BY <1>3, <3>1
    <3>. QED
      BY <3>1, <3>2
  <2>. QED
    BY <1>4, <2>1
<1>. QED
  BY <1>4, <1>5 DEF Max

(* A set of numbers has the least one that Min chooses. *)
LEMMA LeastIs ==
  ASSUME NEW T \in SUBSET Nat, T # {}
  PROVE  Min(T) \in T /\ \A y \in T : Min(T) <= y
BY LeastExists DEF Min

(* The version of a channel never put, and the value read for it. *)
LEMMA NoVersionIs ==
  /\ NoVersion \in Version /\ NoVersion.n = 0 /\ NoVersion.nonce = 0
  /\ Blank(NoVersion) \in Versions /\ Blank(NoValue) \in Values /\ NoValue = 0
  /\ \A ch \in Channels : Blank(NoVersion)[ch] = NoVersion /\ Blank(NoValue)[ch] = NoValue
<1>1. 0 \in 0..MaxCheckpoints
  BY Bounds
<1>2. NoVersion \in Version /\ NoVersion.n = 0 /\ NoVersion.nonce = 0
  BY <1>1 DEF NoVersion, Version
<1>. HIDE DEF NoVersion
<1>. QED
  BY <1>1, <1>2 DEF Blank, Versions, Values, NoValue

(* The types of an item's fields, by its kind. *)
LEMMA ItemHolds ==
  ASSUME NEW d \in Entry
  PROVE  /\ d.kind \in {"channel", "checkpoint", "writes"}
         /\ d.kind = "channel" => d.channel \in Channels /\ d.version \in Version /\ d.value \in 0..MaxCheckpoints
         /\ d.kind = "checkpoint" => d.id \in Ids /\ d.versions \in Versions
         /\ d.kind = "writes" => d.id \in Ids /\ d.task \in Tasks
BY DEF Entry

(* The types of a run's fields. *)
LEMMA RunHolds ==
  ASSUME NEW r \in RunShape
  PROVE  /\ r.pc \in {"idle", "create", "read", "run", "clear"} /\ r.op \in {"run", "delete"}
         /\ r.wanted \in 0..MaxCheckpoints /\ r.list \in Lists(Entry) /\ r.list.got \in Seq(Entry)
         /\ r.list.token \in Nat /\ r.base \in 0..MaxCheckpoints
         /\ r.versions \in Versions /\ r.values \in Values /\ r.torn \in BOOLEAN
         /\ r.owed \in SUBSET (Ids \X Tasks) /\ r.latest \in 0..MaxCheckpoints /\ r.missed \in BOOLEAN
BY DEF RunShape, Lists

(* The types of what was put. *)
LEMMA PutHolds ==
  ASSUME NEW wr \in [Ids -> PutShape], NEW c \in Ids
  PROVE  /\ wr[c] \in PutShape /\ wr[c].put \in BOOLEAN /\ wr[c].intact \in BOOLEAN /\ wr[c].values \in Values
         /\ \A ch \in Channels : wr[c].values[ch] \in 0..MaxCheckpoints
BY DEF PutShape, Values

(* The fields of a process that runs nothing. *)
LEMMA NoRunIs ==
  /\ NoRun \in RunShape /\ NoRun.pc = "idle" /\ NoRun.op = "run" /\ NoRun.list = Listing /\ NoRun.base = 0
  /\ NoRun.versions = Blank(NoVersion) /\ NoRun.values = Blank(NoValue) /\ NoRun.torn = FALSE
  /\ NoRun.owed = {} /\ NoRun.latest = 0 /\ NoRun.missed = FALSE
<1>1. Listing \in Lists(Entry) /\ 0 \in 0..MaxCheckpoints
  BY Bounds DEF Listing, Lists
<1>. HIDE DEF Listing
<1>2. Blank(NoVersion) \in Versions /\ Blank(NoValue) \in Values
  BY NoVersionIs
<1>. QED
  BY <1>1, <1>2 DEF NoRun, RunShape

(* The versions of an empty thread need no put. *)
LEMMA BlankIsDrawn ==
  ASSUME NEW wr
  PROVE  Drawn(Blank(NoVersion), wr)
BY NoVersionIs DEF Drawn

(* A process that runs nothing satisfies the invariant of runs on every     *)
(* thread.                                                                  *)
LEMMA RunIsNoRun ==
  ASSUME NEW t, NEW wr
  PROVE  RunIs(t, wr, NoRun)
<1>1. Listing.got = <<>>
  BY DEF Listing
<1>2. \A d \in Among(NoRun.list.got) : FALSE
  BY <1>1, NoRunIs DEF Among
<1>. QED
  BY <1>2, NoRunIs, BlankIsDrawn DEF RunIs

(* What the log and the listings of a session hold, as sets. *)
LEMMA DataIs ==
  ASSUME NEW D, NEW t, LogIs(t, D)
  PROVE  DataOf(t) \in SUBSET D
<1>. DEFINE I == [time : Nat, data : D]
<1>1. t.log \in Seq(I)
  BY DEF LogIs
<1>. HIDE DEF I
<1>2. \A k \in DOMAIN t.log : t.log[k] \in I
  BY <1>1
<1>3. \A k \in DOMAIN t.log : t.log[k].data \in D
  BY <1>2 DEF I
<1>. QED
  BY <1>3 DEF DataOf

(* What is on a thread after an append: what was on it, and what was        *)
(* appended.                                                                *)
LEMMA AppendedData ==
  ASSUME NEW D, NEW t, LogIs(t, D), NEW data \in Seq(D), NEW r, r = Appended(t, data)
  PROVE  DataOf(r) = DataOf(t) \cup Among(data)
<1>1. PICK len \in Nat, more \in Nat :
        /\ len = Len(t.log) /\ DOMAIN t.log = 1..len /\ more = Len(data) /\ DOMAIN data = 1..more
  BY DEF LogIs
<1>2. /\ LogIs(r, D) /\ Len(r.log) = Len(t.log) + Len(data)
      /\ \A k \in 1..Len(t.log) : r.log[k] = t.log[k]
      /\ \A k \in 1..Len(data) : r.log[Len(t.log) + k].data = data[k]
  BY AppendedIs DEF Appends
<1>3. DOMAIN r.log = 1..(len + more)
  BY <1>1, <1>2 DEF LogIs
<1>4. \A k \in 1..(len + more) : k \in 1..len \/ \E j \in 1..more : k = len + j
  BY Places
<1>5. (\A k \in 1..len : k \in 1..(len + more)) /\ (\A j \in 1..more : len + j \in 1..(len + more))
  BY <1>1
<1>6. \A d : d \in DataOf(r) <=> \E k \in 1..(len + more) : r.log[k].data = d
  BY <1>3 DEF DataOf
<1>7. \A d : d \in DataOf(t) <=> \E k \in 1..len : t.log[k].data = d
  BY <1>1 DEF DataOf
<1>8. \A d : d \in Among(data) <=> \E j \in 1..more : data[j] = d
  BY <1>1 DEF Among
<1>9. (\A k \in 1..len : r.log[k].data = t.log[k].data) /\ (\A j \in 1..more : r.log[len + j].data = data[j])
  BY <1>1, <1>2
<1>10. \A d : d \in DataOf(r) => d \in DataOf(t) \/ d \in Among(data)
  <2>. SUFFICES ASSUME NEW d, d \in DataOf(r)
                PROVE  d \in DataOf(t) \/ d \in Among(data)
    OBVIOUS
  <2>1. PICK k \in 1..(len + more) : r.log[k].data = d
    BY <1>6
  <2>2. CASE k \in 1..len
    BY Zenon, <1>7, <1>9, <2>1, <2>2
  <2>3. CASE \E j \in 1..more : k = len + j
    <3>1. PICK j \in 1..more : k = len + j
      BY <2>3
    <3>2. data[j] = d
      BY Zenon, <1>9, <2>1, <3>1
    <3>. QED
      BY Zenon, <1>8, <3>2
  <2>. QED
    BY Zenon, <1>4, <2>1, <2>2, <2>3
<1>11. \A d : d \in DataOf(t) => d \in DataOf(r)
  BY <1>5, <1>6, <1>7, <1>9
<1>12. \A d : d \in Among(data) => d \in DataOf(r)
  BY <1>5, <1>6, <1>8, <1>9
<1>. QED
  BY <1>10, <1>11, <1>12

(* Nothing is on an empty thread. *)
LEMMA ClearedData ==
  ASSUME NEW t, t.log = <<>>
  PROVE  DataOf(t) = {}
BY DEF DataOf

(* A listing as long as the log has read everything that is on the thread. *)
LEMMA FollowsData ==
  ASSUME NEW D, NEW t, LogIs(t, D), NEW l \in Lists(D), Follows(t, l), Len(l.got) = Len(t.log)
  PROVE  Among(l.got) = DataOf(t)
<1>1. PICK n \in Nat : n = Len(l.got) /\ DOMAIN l.got = 1..n /\ DOMAIN t.log = 1..n
  BY DEF Lists, LogIs
<1>2. \A k \in 1..n : l.got[k] = t.log[k].data
  BY <1>1 DEF Follows
<1>. QED
  BY <1>1, <1>2 DEF Among, DataOf

(* The places of a listing with one more page: those it had, and those of   *)
(* the page.                                                                *)
LEMMA Splits ==
  ASSUME NEW g \in Nat, NEW e \in Nat, NEW n \in Nat, NEW len \in Nat, n + e <= len
  PROVE  \A k \in 1..(g + e) : k \in 1..g \/ (k - g \in 1..e /\ g + (k - g) = k /\ n + (k - g) \in 1..len)
OBVIOUS

(* A page adds to a listing only what is on the thread. *)
LEMMA NextPageData ==
  ASSUME NEW D, NEW t, LogIs(t, D), NEW l \in Lists(D)
  PROVE  NextPage(l, t) \in Lists(D) /\ Among(NextPage(l, t).got) \in SUBSET (Among(l.got) \cup DataOf(t))
<1>1. l.token \in Nat /\ l.got \in Seq(D)
  BY DEF Lists
<1>2. PICK n \in 0..Len(t.log) : CutAt(t, l.token, n)
  BY <1>1, CutExists
<1>3. PICK len \in Nat, g \in Nat : len = Len(t.log) /\ DOMAIN t.log = 1..len /\ g = Len(l.got) /\ DOMAIN l.got = 1..g
  BY <1>1 DEF LogIs
<1>4. PICK m \in n..len :
        /\ NextPage(l, t) \in Lists(D)
        /\ Len(NextPage(l, t).got) = g + (m - n)
        /\ \A k \in 1..g : NextPage(l, t).got[k] = l.got[k]
        /\ \A k \in 1..(m - n) : NextPage(l, t).got[g + k] = t.log[n + k].data
  <2>1. PICK m \in n..Len(t.log) :
           /\ NextPage(l, t) \in Lists(D)
           /\ Len(NextPage(l, t).got) = Len(l.got) + (m - n)
           /\ \A k \in 1..Len(l.got) : NextPage(l, t).got[k] = l.got[k]
           /\ \A k \in 1..(m - n) : NextPage(l, t).got[Len(l.got) + k] = t.log[n + k].data
           /\ CutAt(t, NextPage(l, t).token, m)
           /\ NextPage(l, t).token \in {l.token} \cup 0..t.clock
           /\ LastPage(t, l.token) => m = Len(t.log)
    BY <1>2, NextPageIs
  <2>. QED
    BY Zenon, <1>3, <2>1
<1>5. PICK got \in Seq(D) : got = NextPage(l, t).got
  BY <1>4 DEF Lists
<1>6. DOMAIN got = 1..(g + (m - n))
  BY <1>4, <1>5
<1>7. \A k \in 1..(g + (m - n)) : k \in 1..g \/ (k - g \in 1..(m - n) /\ g + (k - g) = k /\ n + (k - g) \in 1..len)
  <2>1. n \in Nat /\ m \in Nat /\ n <= m /\ m <= len
    BY <1>2, <1>3, <1>4
  <2>2. PICK e \in Nat : e = m - n /\ n + e <= len
    BY <1>3, <2>1
  <2>3. \A k \in 1..(g + e) : k \in 1..g \/ (k - g \in 1..e /\ g + (k - g) = k /\ n + (k - g) \in 1..len)
    BY <2>1, <2>2, Splits
  <2>. QED
    BY <2>2, <2>3
<1>8. \A k \in 1..g : got[k] \in Among(l.got)
  BY <1>3, <1>4, <1>5 DEF Among
<1>9. \A k \in 1..(m - n) : n + k \in 1..len => got[g + k] \in DataOf(t)
  BY <1>3, <1>4, <1>5 DEF DataOf
<1>10. \A k \in DOMAIN got : got[k] \in Among(l.got) \cup DataOf(t)
  BY <1>6, <1>7, <1>8, <1>9
<1>11. Among(got) \in SUBSET (Among(l.got) \cup DataOf(t))
  BY <1>10 DEF Among
<1>. QED
  BY <1>4, <1>5, <1>11

(* The items of one kind on a thread. *)
LEMMA HeldIs ==
  ASSUME NEW t, NEW kind
  PROVE  \A d : d \in Held(t, kind) <=> d \in DataOf(t) /\ d.kind = kind
BY DEF Held, DataOf, Among
(***************************************************************************)
(* Reading a checkpoint back.                                              *)
(***************************************************************************)

(* Every item that names a version holds the value its put was written with. *)
LEMMA ValueOfIs ==
  ASSUME NEW items \in Seq(Entry), NEW wr \in [Ids -> PutShape], \A d \in Among(items) : ItemIs(d, wr),
         NEW ch \in Channels, NEW v
  PROVE  /\ ValueOf(items, ch, v) \in 0..MaxCheckpoints
         /\ ValueOf(items, ch, v) = IF \E d \in Among(items) : Mentions(d, ch, v) THEN wr[v.nonce].values[ch] ELSE NoValue
<1>1. PICK len \in Nat : len = Len(items) /\ DOMAIN items = 1..len
  OBVIOUS
<1>. DEFINE at == {k \in DOMAIN items : /\ items[k].kind = "channel"
                                       /\ items[k].channel = ch
                                       /\ items[k].version = v
                                       /\ items[k].value # NoValue}
<1>2. ValueOf(items, ch, v) = IF at = {} THEN NoValue ELSE items[Max(at)].value
  BY Zenon DEF ValueOf
<1>3. \A k \in DOMAIN items : items[k] \in Among(items) /\ items[k] \in Entry /\ ItemIs(items[k], wr)
  BY DEF Among
<1>4. \A k \in DOMAIN items : Mentions(items[k], ch, v) =>
        /\ v.nonce \in Ids /\ items[k].value = wr[v.nonce].values[ch] /\ items[k].value \in 0..MaxCheckpoints
  BY <1>3, ItemHolds DEF Mentions, ItemIs
<1>5. \A k : k \in at <=> k \in DOMAIN items /\ Mentions(items[k], ch, v) /\ items[k].value # NoValue
  BY DEF Mentions
<1>6. (\E d \in Among(items) : Mentions(d, ch, v)) <=> \E k \in DOMAIN items : Mentions(items[k], ch, v)
  BY DEF Among
<1>7. at \in SUBSET (0..len)
  BY <1>1
<1>. HIDE DEF at
<1>8. CASE at = {}
  <2>1. \A k \in DOMAIN items : Mentions(items[k], ch, v) => items[k].value = NoValue
    BY <1>5, <1>8
  <2>2. NoValue \in 0..MaxCheckpoints
    BY Bounds DEF NoValue
  <2>. QED
    BY <1>2, <1>4, <1>6, <1>8, <2>1, <2>2
<1>9. CASE at # {}
  <2>1. Max(at) \in at
    BY <1>7, <1>9, GreatestIs
  <2>2. PICK k \in DOMAIN items : k = Max(at) /\ Mentions(items[k], ch, v)
    BY <1>5, <2>1
  <2>. QED
    BY <1>2, <1>4, <1>6, <1>9, <2>2
<1>. QED
  BY <1>8, <1>9

Told(items, w) == \E d \in Among(items) : d.kind = "writes" /\ d.id = w[1] /\ d.task = w[2]

(* The fields of a run that has read its versions and values. *)
DrawnBy(run, vs, vals) == [run EXCEPT !.versions = vs, !.values = vals]

(* The fields of such a run, one by one. *)
LEMMA DrawnFields ==
  ASSUME NEW run \in RunShape, NEW vs \in Versions, NEW vals \in Values, NEW n, n = DrawnBy(run, vs, vals)
  PROVE  /\ n \in RunShape /\ n.pc = run.pc /\ n.op = run.op /\ n.list = run.list /\ n.torn = run.torn
         /\ n.owed = run.owed /\ n.latest = run.latest /\ n.base = run.base /\ n.missed = run.missed
         /\ n.versions = vs /\ n.values = vals
BY DEF DrawnBy, RunShape

(* What a run makes of the items it has read. *)
LEMMA TupleIs ==
  ASSUME NEW r \in RunShape, NEW items \in Seq(Entry), NEW wr \in [Ids -> PutShape],
         \A d \in Among(items) : ItemIs(d, wr), NEW n, n = Tuple(r, items)
  PROVE  /\ n \in RunShape /\ n.pc = "run" /\ n.op = "run" /\ n.list = Listing /\ n.torn = r.torn
         /\ n.owed = {} /\ n.latest = 0 /\ Drawn(n.versions, wr)
         /\ \A ch \in Channels : n.values[ch] = ValueOf(items, ch, n.versions[ch])
         /\ n.base # 0 => \E d \in Among(items) : d.kind = "checkpoint" /\ d.id = n.base /\ d.versions = n.versions
         /\ \A d \in Among(items) : d.kind = "checkpoint" /\ r.wanted \in {0, d.id} => d.id <= n.base
         /\ n.missed <=> n.base < r.latest \/ \E w \in r.owed : w[1] = n.base /\ ~Told(items, w)
<1>. DEFINE found   == {d \in Among(items) : /\ d.kind = "checkpoint"
                                            /\ r.wanted \in {0, d.id}}
            base    == Max({0} \cup {d.id : d \in found})
            point   == CHOOSE d \in found : d.id = base
            pending == {d.task : d \in {e \in Among(items) : e.kind = "writes" /\ e.id = base}}
            missed  == \/ base < r.latest
                       \/ \E w \in r.owed : w[1] = base /\ w[2] \notin pending
            read    == [NoRun EXCEPT !.pc = "run", !.base = base, !.torn = r.torn, !.missed = missed]
            values  == [ch \in Channels |-> ValueOf(items, ch, point.versions[ch])]
<1>1. n = IF found = {} THEN read ELSE [read EXCEPT !.versions = point.versions, !.values = values]
  BY Zenon DEF Tuple
<1>2. \A d \in Among(items) : d \in Entry
  BY DEF Among
<1>3. \A d \in found : d \in Among(items) /\ d.kind = "checkpoint" /\ d.id \in Ids /\ d.versions \in Versions
  BY <1>2, ItemHolds
<1>4. MaxCheckpoints \in Nat /\ Ids = 1..MaxCheckpoints
  BY Bounds DEF Ids
<1>. DEFINE T == {0} \cup {d.id : d \in found}
<1>5. T \in SUBSET (0..MaxCheckpoints) /\ T # {} /\ base = Max(T)
  <2>. HIDE DEF found
  <2>1. \A d \in found : d.id \in 0..MaxCheckpoints
    BY <1>3, <1>4
  <2>2. 0 \in 0..MaxCheckpoints
    BY <1>4
  <2>. QED
    BY <2>1, <2>2
<1>6. Max(T) \in T /\ \A y \in T : Max(T) >= y
  <2>. HIDE DEF T
  <2>. QED
    BY <1>4, <1>5, GreatestIs
<1>7. base \in 0..MaxCheckpoints /\ (\A d \in found : d.id <= base) /\ (base # 0 => \E d \in found : d.id = base)
  <2>1. base \in T /\ \A y \in T : base >= y
    BY <1>5, <1>6
  <2>2. \A d \in found : d.id \in T /\ d.id \in Nat
    BY <1>3, <1>4
  <2>. HIDE DEF base
  <2>3. base \in 0..MaxCheckpoints
    BY <1>5, <2>1
  <2>4. \A d \in found : d.id <= base
    BY <1>4, <2>1, <2>2, <2>3
  <2>5. base # 0 => \E d \in found : d.id = base
    <3>. HIDE DEF found
    <3>. QED
      BY <2>1
  <2>. QED
    BY <2>3, <2>4, <2>5
<1>8. found # {} => base # 0
  <2>. HIDE DEF found, base
  <2>1. \A d \in found : d.id # 0 /\ d.id <= base /\ d.id \in Nat
    BY <1>3, <1>4, <1>7
  <2>. QED
    BY <1>4, <1>7, <2>1
<1>9. found # {} => point \in found /\ point.id = base
  <2>. HIDE DEF found, base
  <2>. QED
    BY <1>7, <1>8
<1>10. \A w \in r.owed : w[2] \in pending <=> \E d \in Among(items) : d.kind = "writes" /\ d.id = base /\ d.task = w[2]
  BY Zenon
<1>11. missed <=> base < r.latest \/ \E w \in r.owed : w[1] = base /\ ~Told(items, w)
  <2>. HIDE DEF pending, base
  <2>. QED
    BY <1>10 DEF Told
<1>12. found # {} =>
         /\ point \in Among(items) /\ point.kind = "checkpoint" /\ point.id = base /\ point.versions \in Versions
         /\ Drawn(point.versions, wr)
  <2>. HIDE DEF found, base, point
  <2>1. found # {} => point \in Among(items) /\ point.kind = "checkpoint" /\ point.id = base /\ point.versions \in Versions
    BY <1>3, <1>9
  <2>. QED
    BY <2>1 DEF ItemIs
<1>13. values \in Values
  <2>. HIDE DEF point
  <2>1. \A ch \in Channels : ValueOf(items, ch, point.versions[ch]) \in 0..MaxCheckpoints
    BY ValueOfIs
  <2>. QED
    BY <2>1 DEF Values
<1>14. missed \in BOOLEAN
  BY Zenon
<1>. HIDE DEF found, base, point, pending, missed
<1>15. /\ read \in RunShape /\ read.pc = "run" /\ read.op = "run" /\ read.list = Listing /\ read.torn = r.torn
       /\ read.owed = {} /\ read.latest = 0 /\ read.base = base /\ read.missed = missed
       /\ read.versions = Blank(NoVersion) /\ read.values = Blank(NoValue)
  <2>1. r.torn \in BOOLEAN
    BY RunHolds
  <2>. QED
    BY <1>7, <1>14, <2>1, NoRunIs DEF RunShape
<1>. HIDE DEF read
<1>16. CASE found = {}
  <2>1. n = read
    BY <1>1, <1>16
  <2>2. \A ch \in Channels : n.values[ch] = ValueOf(items, ch, n.versions[ch])
    <3>1. \A ch \in Channels : ~\E d \in Among(items) : Mentions(d, ch, NoVersion)
      BY <1>4, NoVersionIs DEF Mentions, ItemIs
    <3>2. \A ch \in Channels : ValueOf(items, ch, NoVersion) = NoValue
      BY <3>1, ValueOfIs
    <3>. QED
      BY <1>15, <2>1, <3>2, NoVersionIs
  <2>3. \A d \in Among(items) : d.kind = "checkpoint" /\ r.wanted \in {0, d.id} => FALSE
    BY <1>16 DEF found
  <2>4. base = 0
    BY <1>7, <1>16
  <2>. QED
    BY <1>11, <1>15, <2>1, <2>2, <2>3, <2>4, BlankIsDrawn
<1>17. CASE found # {}
  <2>. PICK vs : vs = point.versions
    OBVIOUS
  <2>. PICK vals : vals = values
    OBVIOUS
  <2>1. n = [read EXCEPT !.versions = vs, !.values = vals] /\ vs \in Versions /\ vals \in Values
    BY <1>1, <1>12, <1>13, <1>17
  <2>6. /\ n \in RunShape /\ n.pc = read.pc /\ n.op = read.op /\ n.list = read.list /\ n.torn = read.torn
        /\ n.owed = read.owed /\ n.latest = read.latest /\ n.base = read.base /\ n.missed = read.missed
        /\ n.versions = vs /\ n.values = vals
    <3>1. read \in RunShape
      BY <1>15
    <3>. QED
      <4>1. n = DrawnBy(read, vs, vals)
        BY Zenon, <2>1 DEF DrawnBy
      <4>. QED
        BY <2>1, <3>1, <4>1, DrawnFields
  <2>2. /\ n \in RunShape /\ n.pc = "run" /\ n.op = "run" /\ n.list = Listing /\ n.torn = r.torn
        /\ n.owed = {} /\ n.latest = 0 /\ n.base = base /\ n.missed = missed /\ n.versions = vs /\ n.values = vals
    BY <1>15, <2>6
  <2>3. \A ch \in Channels : n.values[ch] = ValueOf(items, ch, n.versions[ch])
    BY <2>2
  <2>4. \A d \in Among(items) : d.kind = "checkpoint" /\ r.wanted \in {0, d.id} => d.id <= n.base
    BY <1>7, <2>2 DEF found
  <2>5. \E d \in Among(items) : d.kind = "checkpoint" /\ d.id = n.base /\ d.versions = n.versions
    BY <1>12, <1>17, <2>2
  <2>. QED
    BY <1>11, <1>12, <1>17, <2>2, <2>3, <2>4, <2>5
<1>. QED
  BY <1>16, <1>17
(***************************************************************************)
(* What a step leaves as it was: everything put, everything on the thread   *)
(* but for a clear, and so the value of every version a put has drawn.      *)
(***************************************************************************)
GoesOn(t, wr, t2, wr2) ==
  /\ \A l \in Lists(Entry) : Follows(t, l) => Follows(t2, l)
  /\ DataOf(t) \in SUBSET DataOf(t2)
  /\ \A d \in DataOf(t2) : ItemIs(d, wr2)
  /\ \A c \in Ids : wr[c].put => wr2[c] = wr[c]
  /\ \A d \in DataOf(t2) : d.kind = "channel" /\ wr[d.version.nonce].put => d \in DataOf(t)

(* Versions drawn by puts stay drawn when later puts leave the earlier ones *)
(* alone.                                                                   *)
LEMMA DrawnStays ==
  ASSUME NEW wr, NEW wr2, \A c \in Ids : wr[c].put => wr2[c] = wr[c], NEW versions, Drawn(versions, wr)
  PROVE  Drawn(versions, wr2)
BY DEF Drawn

(* An item put stays one that was put. *)
LEMMA ItemStays ==
  ASSUME NEW wr, NEW wr2, \A c \in Ids : wr[c].put => wr2[c] = wr[c], NEW d \in Entry, ItemIs(d, wr)
  PROVE  ItemIs(d, wr2)
<1>1. d.kind = "checkpoint" => d.id \in Ids
  BY ItemHolds
<1>2. d.kind = "checkpoint" => wr2[d.id].put /\ Drawn(d.versions, wr2)
  BY <1>1, DrawnStays DEF ItemIs
<1>. QED
  BY <1>2 DEF ItemIs

(* The value of a version that a put has drawn stays what it was. *)
LEMMA ValueStays ==
  ASSUME NEW t, NEW wr, NEW t2, NEW wr2, GoesOn(t, wr, t2, wr2), ThreadIs(t, wr),
         NEW ch \in Channels, NEW v, v = NoVersion \/ (v.nonce \in Ids /\ wr[v.nonce].put)
  PROVE  ValueIn(t2, wr2, ch, v) = ValueIn(t, wr, ch, v)
<1>1. v = NoVersion => v.nonce \notin Ids
  BY NoVersionIs, Bounds DEF Ids
<1>2. \A d \in DataOf(t2) : Mentions(d, ch, v) => v.nonce \in Ids
  BY DEF GoesOn, ItemIs, Mentions
<1>3. \A d \in DataOf(t) : Mentions(d, ch, v) => v.nonce \in Ids
  BY DEF ThreadIs, ItemIs, Mentions
<1>4. MentionedIn(t2, ch, v) <=> MentionedIn(t, ch, v)
  <2>1. MentionedIn(t, ch, v) => MentionedIn(t2, ch, v)
    BY DEF MentionedIn, GoesOn
  <2>2. ASSUME MentionedIn(t2, ch, v)
        PROVE  MentionedIn(t, ch, v)
    <3>1. PICK d \in DataOf(t2) : Mentions(d, ch, v)
      BY <2>2 DEF MentionedIn
    <3>2. v.nonce \in Ids /\ wr[v.nonce].put
      BY <1>1, <1>2, <3>1
    <3>3. d \in DataOf(t)
      BY <3>1, <3>2 DEF GoesOn, Mentions
    <3>. QED
      BY <3>1, <3>3 DEF MentionedIn
  <2>. QED
    BY <2>1, <2>2
<1>5. MentionedIn(t, ch, v) => wr2[v.nonce] = wr[v.nonce]
  <2>1. MentionedIn(t, ch, v) => v.nonce \in Ids
    BY <1>3 DEF MentionedIn
  <2>. QED
    BY <1>1, <2>1 DEF GoesOn
<1>. QED
  BY <1>4, <1>5 DEF ValueIn

(* A checkpoint on the thread whose put is intact goes on reading back what *)
(* was put.                                                                 *)
LEMMA ThreadStays ==
  ASSUME NEW t, LogIs(t, Entry), NEW wr, NEW t2, NEW wr2, GoesOn(t, wr, t2, wr2), ThreadIs(t, wr),
         NEW d \in DataOf(t), d.kind = "checkpoint", wr2[d.id].intact, NEW ch \in Channels
  PROVE  wr2[d.id].values[ch] = ValueIn(t2, wr2, ch, d.versions[ch])
<1>1. d \in Entry /\ d.id \in Ids
  <2>1. d \in Entry
    BY DataIs
  <2>. QED
    BY <2>1, ItemHolds
<1>2. wr[d.id].put /\ Drawn(d.versions, wr)
  BY DEF ThreadIs, ItemIs
<1>3. wr2[d.id] = wr[d.id]
  BY <1>1, <1>2 DEF GoesOn
<1>4. wr[d.id].values[ch] = ValueIn(t, wr, ch, d.versions[ch])
  BY <1>3 DEF ThreadIs
<1>5. d.versions[ch] = NoVersion \/ (d.versions[ch].nonce \in Ids /\ wr[d.versions[ch].nonce].put)
  BY <1>2 DEF Drawn
<1>6. ValueIn(t2, wr2, ch, d.versions[ch]) = ValueIn(t, wr, ch, d.versions[ch])
  BY <1>5, ValueStays
<1>. QED
  BY <1>3, <1>4, <1>6

(* The invariant of a run survives the steps of the others. *)
LEMMA RunStays ==
  ASSUME NEW t, NEW wr, NEW t2, NEW wr2, GoesOn(t, wr, t2, wr2), ThreadIs(t, wr),
         NEW r \in RunShape, RunIs(t, wr, r)
  PROVE  RunIs(t2, wr2, r)
<1>0. \A c \in Ids : wr[c].put => wr2[c] = wr[c]
  BY DEF GoesOn
<1>1. \A d \in Among(r.list.got) : ItemIs(d, wr2)
  <2>1. \A d \in Among(r.list.got) : d \in Entry /\ ItemIs(d, wr)
    BY RunHolds DEF Among, RunIs
  <2>. QED
    BY <1>0, <2>1, ItemStays
<1>2. Drawn(r.versions, wr2)
  BY <1>0, DrawnStays DEF RunIs
<1>3. r.base # 0 => r.base \in Ids /\ wr[r.base].put /\ wr2[r.base] = wr[r.base]
  <2>1. r.base \in 0..MaxCheckpoints
    BY RunHolds
  <2>2. r.base # 0 => r.base \in Ids
    BY <2>1, Bounds DEF Ids
  <2>. QED
    BY <1>0, <2>2 DEF RunIs
<1>4. r.pc = "read" /\ ~r.torn => Follows(t2, r.list)
  BY RunHolds DEF RunIs, GoesOn
<1>5. Owes(t, r) => Owes(t2, r)
  BY DEF Owes, GoesOn
<1>6. r.pc = "run" /\ ~r.torn => \A ch \in Channels : r.values[ch] = ValueIn(t2, wr2, ch, r.versions[ch])
  <2>. SUFFICES ASSUME r.pc = "run", ~r.torn, NEW ch \in Channels
                PROVE  r.values[ch] = ValueIn(t2, wr2, ch, r.versions[ch])
    OBVIOUS
  <2>1. r.versions[ch] = NoVersion \/ (r.versions[ch].nonce \in Ids /\ wr[r.versions[ch].nonce].put)
    BY DEF RunIs, Drawn
  <2>2. r.values[ch] = ValueIn(t, wr, ch, r.versions[ch])
    BY DEF RunIs
  <2>. QED
    BY <2>1, <2>2, ValueStays
<1>7. r.pc = "run" /\ ~r.torn => (r.base # 0 /\ wr2[r.base].intact => r.values = wr2[r.base].values)
  BY <1>3 DEF RunIs
<1>. QED
  BY <1>1, <1>2, <1>3, <1>4, <1>5, <1>6, <1>7 DEF RunIs

(* A step that leaves the log and the clock alone leaves the thread as it   *)
(* was.                                                                     *)
LEMMA SameGoesOn ==
  ASSUME NEW t, NEW wr, NEW t2, t2.log = t.log, t2.clock = t.clock, ThreadIs(t, wr)
  PROVE  GoesOn(t, wr, t2, wr)
<1>1. \A l : Follows(t, l) => Follows(t2, l)
  BY DEF Follows, CutAt
<1>2. DataOf(t2) = DataOf(t)
  BY DEF DataOf
<1>. QED
  BY <1>1, <1>2 DEF GoesOn, ThreadIs

(* A step of one run, while the thread goes on. *)
LEMMA OneMoves ==
  ASSUME SaverInv, NEW p \in Processes, NEW r \in RunShape, saver' = [saver EXCEPT ![p] = r],
         LogIs(thread', Entry), written' \in [Ids -> PutShape], PutInOrder(written'),
         ThreadIs(thread', written'), GoesOn(thread, written, thread', written'),
         RunIs(thread', written', r)
  PROVE  SaverInv'
<1>1. /\ saver \in [Processes -> RunShape] /\ ThreadIs(thread, written)
      /\ \A q \in Processes : RunIs(thread, written, saver[q])
  BY DEF SaverInv, SaverTypeOK
<1>2. saver' \in [Processes -> RunShape] /\ saver'[p] = r /\ \A q \in Processes \ {p} : saver'[q] = saver[q]
  BY <1>1
<1>3. \A q \in Processes \ {p} : RunIs(thread', written', saver'[q])
  <2>. SUFFICES ASSUME NEW q \in Processes \ {p}
                PROVE  RunIs(thread', written', saver[q])
    BY <1>2
  <2>1. saver[q] \in RunShape /\ RunIs(thread, written, saver[q])
    BY <1>1
  <2>. QED
    BY <1>1, <2>1, RunStays
<1>4. \A q \in Processes : RunIs(thread', written', saver'[q])
  BY <1>2, <1>3
<1>. QED
  BY <1>2, <1>4 DEF SaverInv, SaverTypeOK

(* The same, of a step that neither appends nor clears. *)
LEMMA OneMovesOnly ==
  ASSUME SaverInv, NEW p \in Processes, NEW r \in RunShape, saver' = [saver EXCEPT ![p] = r],
         LogIs(thread', Entry), thread'.log = thread.log, thread'.clock = thread.clock, written' = written,
         RunIs(thread, written, r)
  PROVE  SaverInv'
<1>1. ThreadIs(thread, written) /\ PutInOrder(written) /\ written \in [Ids -> PutShape]
  BY DEF SaverInv, SaverTypeOK
<1>2. GoesOn(thread, written, thread', written')
  BY <1>1, SameGoesOn
<1>3. DataOf(thread') = DataOf(thread)
  BY DEF DataOf
<1>4. ThreadIs(thread', written')
  BY <1>1, <1>3 DEF ThreadIs, ValueIn, MentionedIn
<1>5. RunIs(thread', written', r)
  BY <1>1, <1>2, RunStays
<1>. QED
  BY <1>1, <1>2, <1>4, <1>5, OneMoves

(* Ending a run keeps the invariant. *)
LEMMA EndRunKeeps ==
  ASSUME SaverInv, NEW p \in Processes, EndRun(p)
  PROVE  SaverInv'
<1>1. saver' = [saver EXCEPT ![p] = NoRun] /\ thread' = thread /\ written' = written
  BY DEF EndRun
<1>2. LogIs(thread', Entry)
  BY <1>1 DEF SaverInv, SaverTypeOK
<1>. QED
  BY <1>1, <1>2, NoRunIs, RunIsNoRun, OneMovesOnly

(* Beginning a run keeps the invariant. *)
LEMMA BeginRunKeeps ==
  ASSUME SaverInv, NEW p \in Processes, NEW op \in {"run", "delete"}, NEW wanted \in 0..MaxCheckpoints,
         BeginRun(p, op, wanted)
  PROVE  SaverInv'
<1>0. LogIs(thread, Entry)
  BY DEF SaverInv, SaverTypeOK
<1>1. PICK pc \in {"create", "read", "clear"} :
        pc = (IF thread.exists THEN AfterResolve(op) ELSE "create") /\ (pc = "read" => op = "run")
  BY DEF AfterResolve
<1>. DEFINE ids == {d.id : d \in Held(thread, "checkpoint")}
            tops == {0} \cup ids
            latest == IF wanted # 0 THEN 0 ELSE Max(tops)
            owed == {<<d.id, d.task>> : d \in Held(thread, "writes")}
            r == [NoRun EXCEPT !.op = op, !.wanted = wanted, !.pc = pc, !.owed = owed, !.latest = latest]
<1>2. saver' = [saver EXCEPT ![p] = r] /\ thread' = thread /\ written' = written
  BY Zenon, <1>1 DEF BeginRun
<1>3. /\ \A d \in Held(thread, "checkpoint") : d \in DataOf(thread) /\ d.kind = "checkpoint" /\ d.id \in Ids
      /\ \A d \in Held(thread, "writes") : d \in DataOf(thread) /\ d.kind = "writes" /\ d.id \in Ids /\ d.task \in Tasks
  <2>1. \A d \in DataOf(thread) : d \in Entry
    BY <1>0, DataIs
  <2>. QED
    BY <2>1, HeldIs, ItemHolds
<1>4. latest \in 0..MaxCheckpoints /\ (latest # 0 => wanted = 0 /\ latest \in ids)
  <2>1. tops \in SUBSET (0..MaxCheckpoints) /\ tops # {}
    <3>1. \A d \in Held(thread, "checkpoint") : d.id \in 0..MaxCheckpoints
      BY <1>3, Bounds DEF Ids
    <3>2. 0 \in 0..MaxCheckpoints
      BY Bounds
    <3>. QED
      BY <3>1, <3>2
  <2>2. Max(tops) \in tops
    <3>. HIDE DEF tops
    <3>. QED
      BY <2>1, Bounds, GreatestIs
  <2>. HIDE DEF ids
  <2>3. 0 \in 0..MaxCheckpoints
    BY Bounds
  <2>4. CASE wanted # 0
    BY <2>3, <2>4
  <2>5. CASE wanted = 0
    <3>1. latest = Max(tops)
      BY <2>5
    <3>2. latest \in tops /\ latest \in 0..MaxCheckpoints
      <4>. HIDE DEF tops, latest
      <4>. QED
        BY <2>1, <2>2, <3>1
    <3>. QED
      BY <2>5, <3>2
  <2>. QED
    BY <2>4, <2>5
<1>5. owed \in SUBSET (Ids \X Tasks)
  BY <1>3
<1>6. /\ \A w \in owed : \E d \in DataOf(thread) : d.kind = "writes" /\ d.id = w[1] /\ d.task = w[2]
      /\ \A i \in ids : \E d \in DataOf(thread) : d.kind = "checkpoint" /\ d.id = i
  BY <1>3
<1>. HIDE DEF latest, owed, ids
<1>7. /\ r \in RunShape /\ r.pc = pc /\ r.op = op /\ r.wanted = wanted /\ r.owed = owed /\ r.latest = latest
      /\ r.list = Listing /\ r.torn = FALSE /\ r.base = 0 /\ r.versions = Blank(NoVersion) /\ r.missed = FALSE
  BY <1>4, <1>5, NoRunIs DEF RunShape
<1>. HIDE DEF r
<1>8. Owes(thread, r)
  BY <1>4, <1>6, <1>7 DEF Owes
<1>9. \A d \in Among(r.list.got) : FALSE
  BY <1>7 DEF Among, Listing
<1>10. Follows(thread, r.list)
  BY <1>0, <1>7, ListingFollows
<1>11. RunIs(thread, written, r)
  BY <1>1, <1>7, <1>8, <1>9, <1>10, BlankIsDrawn DEF RunIs
<1>. QED
  BY <1>0, <1>2, <1>7, <1>11, OneMovesOnly

(* Creating the thread's session keeps the invariant. *)
LEMMA CreateSessionKeeps ==
  ASSUME SaverInv, NEW p \in Processes, CreateSession(p)
  PROVE  SaverInv'
<1>. DEFINE c == IF thread.exists THEN NoRun ELSE [saver[p] EXCEPT !.pc = AfterResolve(saver[p].op)]
<1>0. /\ LogIs(thread, Entry) /\ saver[p] \in RunShape /\ RunIs(thread, written, saver[p])
  BY DEF SaverInv, SaverTypeOK
<1>1. /\ saver[p].pc = "create" /\ saver' = [saver EXCEPT ![p] = c] /\ thread' = Opened(thread) /\ written' = written
  BY DEF CreateSession
<1>2. LogIs(thread', Entry) /\ thread'.log = thread.log /\ thread'.clock = thread.clock
  BY <1>0, <1>1, OpenedIs
<1>3. c \in RunShape /\ RunIs(thread, written, c)
  <2>1. CASE thread.exists
    BY <2>1, NoRunIs, RunIsNoRun
  <2>2. CASE ~thread.exists
    <3>1. PICK pc \in {"read", "clear"} : pc = AfterResolve(saver[p].op) /\ (pc = "read" => saver[p].op = "run")
      BY <1>0 DEF AfterResolve
    <3>2. c = [saver[p] EXCEPT !.pc = pc]
      BY Zenon, <2>2, <3>1
    <3>. HIDE DEF c
    <3>3. /\ c \in RunShape /\ c.pc = pc /\ c.op = saver[p].op /\ c.wanted = saver[p].wanted
          /\ c.list = saver[p].list /\ c.base = saver[p].base /\ c.versions = saver[p].versions
          /\ c.torn = saver[p].torn /\ c.owed = saver[p].owed /\ c.latest = saver[p].latest /\ c.missed = saver[p].missed
      BY <1>0, <3>1, <3>2 DEF RunShape
    <3>4. Owes(thread, saver[p]) => Owes(thread, c)
      BY <3>3 DEF Owes
    <3>5. c.list = Listing
      BY <1>0, <1>1, <3>3 DEF RunIs
    <3>6. Follows(thread, c.list)
      BY <1>0, <3>5, ListingFollows
    <3>7. RunIs(thread, written, c)
      BY <1>0, <1>1, <3>1, <3>3, <3>4, <3>6 DEF RunIs
    <3>. QED
      BY <3>3, <3>7
  <2>. QED
    BY <2>1, <2>2
<1>. HIDE DEF c
<1>. QED
  BY <1>1, <1>2, <1>3, OneMovesOnly
(* Reading one page of the thread keeps the invariant: the last page makes  *)
(* the tuple.                                                               *)
LEMMA ReadItemsKeeps ==
  ASSUME SaverInv, NEW p \in Processes, ReadItems(p)
  PROVE  SaverInv'
<1>1. PICK l : l = NextPage(saver[p].list, thread)
  OBVIOUS
<1>. DEFINE c == IF LastPage(thread, saver[p].list.token) THEN Tuple(saver[p], l.got)
                 ELSE [saver[p] EXCEPT !.list = l]
<1>2. saver[p].pc = "read" /\ saver' = [saver EXCEPT ![p] = c] /\ thread' = thread /\ written' = written
  BY Zenon, <1>1 DEF ReadItems
<1>3. /\ LogIs(thread, Entry) /\ written \in [Ids -> PutShape] /\ ThreadIs(thread, written)
      /\ saver[p] \in RunShape /\ RunIs(thread, written, saver[p])
  BY DEF SaverInv, SaverTypeOK
<1>4. PICK r \in RunShape : r = saver[p] /\ r.pc = "read" /\ RunIs(thread, written, r) /\ r.list \in Lists(Entry)
  BY <1>2, <1>3, RunHolds
<1>5. l \in Lists(Entry) /\ l.got \in Seq(Entry) /\ \A d \in Among(l.got) : ItemIs(d, written)
  <2>1. l \in Lists(Entry) /\ Among(l.got) \in SUBSET (Among(r.list.got) \cup DataOf(thread))
    BY <1>1, <1>3, <1>4, NextPageData
  <2>2. \A d \in DataOf(thread) : ItemIs(d, written)
    BY <1>3 DEF ThreadIs
  <2>3. \A d \in Among(r.list.got) : ItemIs(d, written)
    BY <1>4 DEF RunIs
  <2>4. l.got \in Seq(Entry)
    BY <2>1 DEF Lists
  <2>. QED
    BY <2>1, <2>2, <2>3, <2>4
<1>6. ~r.torn => Follows(thread, l) /\ (LastPage(thread, r.list.token) => Len(l.got) = Len(thread.log))
  BY <1>1, <1>3, <1>4, FollowsOn DEF RunIs
<1>7. Owes(thread, r)
  BY <1>4 DEF RunIs
<1>8. c \in RunShape /\ RunIs(thread, written, c)
  <2>1. CASE ~LastPage(thread, saver[p].list.token)
    <3>1. c = [r EXCEPT !.list = l]
      BY <1>4, <2>1
    <3>. HIDE DEF c
    <3>2. /\ c \in RunShape /\ c.pc = "read" /\ c.op = r.op /\ c.list = l /\ c.wanted = r.wanted
          /\ c.base = r.base /\ c.versions = r.versions /\ c.torn = r.torn
          /\ c.owed = r.owed /\ c.latest = r.latest /\ c.missed = r.missed
      BY <1>4, <1>5, <3>1 DEF RunShape
    <3>3. Owes(thread, c)
      BY <1>7, <3>2 DEF Owes
    <3>4. RunIs(thread, written, c)
      BY <1>4, <1>5, <1>6, <3>2, <3>3 DEF RunIs
    <3>. QED
      BY <3>2, <3>4
  <2>2. CASE LastPage(thread, saver[p].list.token)
    <3>1. c = Tuple(r, l.got)
      BY <1>4, <2>2
    <3>. HIDE DEF c
    <3>2. /\ c \in RunShape /\ c.pc = "run" /\ c.op = "run" /\ c.list = Listing /\ c.torn = r.torn
          /\ Drawn(c.versions, written)
          /\ \A ch \in Channels : c.values[ch] = ValueOf(l.got, ch, c.versions[ch])
          /\ c.base # 0 => \E d \in Among(l.got) : d.kind = "checkpoint" /\ d.id = c.base /\ d.versions = c.versions
          /\ \A d \in Among(l.got) : d.kind = "checkpoint" /\ r.wanted \in {0, d.id} => d.id <= c.base
          /\ c.missed <=> c.base < r.latest \/ \E w \in r.owed : w[1] = c.base /\ ~Told(l.got, w)
      BY <1>3, <1>4, <1>5, <3>1, TupleIs
    <3>3. ~r.torn => Among(l.got) = DataOf(thread)
      BY <1>3, <1>4, <1>5, <1>6, <2>2, FollowsData
    <3>4. c.base # 0 => written[c.base].put
      BY <1>5, <3>2 DEF ItemIs
    <3>5. ~c.missed
      <4>1. c.base \in Nat /\ r.latest \in Nat
        BY <1>4, <3>2, RunHolds
      <4>2. CASE r.torn
        <5>1. r.owed = {} /\ r.latest = 0
          BY <1>7, <4>2 DEF Owes
        <5>. QED
          BY <3>2, <4>1, <5>1
      <4>3. CASE ~r.torn
        <5>1. ~(c.base < r.latest)
          <6>1. r.latest # 0 => r.wanted = 0 /\ \E d \in Among(l.got) : d.kind = "checkpoint" /\ d.id = r.latest
            BY <1>7, <3>3, <4>3 DEF Owes
          <6>2. r.latest # 0 => r.latest <= c.base
            BY <3>2, <6>1
          <6>. QED
            BY <4>1, <6>2
        <5>2. \A w \in r.owed : Told(l.got, w)
          BY <1>7, <3>3, <4>3 DEF Owes, Told
        <5>. QED
          BY <3>2, <5>1, <5>2
      <4>. QED
        BY <4>2, <4>3, <1>4, RunHolds
    <3>6. ASSUME ~c.torn
          PROVE  /\ \A ch \in Channels : c.values[ch] = ValueIn(thread, written, ch, c.versions[ch])
                 /\ c.base # 0 /\ written[c.base].intact => c.values = written[c.base].values
      <4>1. Among(l.got) = DataOf(thread)
        BY <3>2, <3>3, <3>6
      <4>2. ASSUME NEW ch \in Channels
            PROVE  c.values[ch] = ValueIn(thread, written, ch, c.versions[ch])
        <5>1. ValueOf(l.got, ch, c.versions[ch]) =
                IF \E d \in Among(l.got) : Mentions(d, ch, c.versions[ch])
                  THEN written[c.versions[ch].nonce].values[ch] ELSE NoValue
          BY <1>3, <1>5, ValueOfIs
        <5>2. MentionedIn(thread, ch, c.versions[ch]) <=> \E d \in Among(l.got) : Mentions(d, ch, c.versions[ch])
          BY <4>1 DEF MentionedIn
        <5>. QED
          BY <3>2, <5>1, <5>2 DEF ValueIn
      <4>3. ASSUME c.base # 0, written[c.base].intact
            PROVE  c.values = written[c.base].values
        <5>1. PICK d \in DataOf(thread) : d.kind = "checkpoint" /\ d.id = c.base /\ d.versions = c.versions
          BY <3>2, <4>1, <4>3
        <5>2. \A ch \in Channels : written[c.base].values[ch] = ValueIn(thread, written, ch, c.versions[ch])
          BY <1>3, <4>3, <5>1 DEF ThreadIs
        <5>3. c.base \in Ids
          <6>1. c.base \in 0..MaxCheckpoints
            BY <3>2, RunHolds
          <6>. QED
            BY <4>3, <6>1, Bounds DEF Ids
        <5>4. c.values \in [Channels -> 0..MaxCheckpoints] /\ written[c.base].values \in [Channels -> 0..MaxCheckpoints]
          BY <1>3, <3>2, <5>3, RunHolds, PutHolds DEF Values
        <5>5. \A ch \in Channels : c.values[ch] = written[c.base].values[ch]
          BY <4>2, <5>2
        <5>. QED
          BY <5>4, <5>5
      <4>. QED
        BY <4>2, <4>3
    <3>7. \A d \in Among(c.list.got) : FALSE
      BY <3>2 DEF Among, Listing
    <3>8. RunIs(thread, written, c)
      BY <3>2, <3>4, <3>5, <3>6, <3>7 DEF RunIs
    <3>. QED
      BY <3>2, <3>8
  <2>. QED
    BY <2>1, <2>2
<1>. HIDE DEF c
<1>. QED
  BY <1>2, <1>3, <1>8, OneMovesOnly

(* delete_thread keeps the invariant. *)
LEMMA DeleteThreadKeeps ==
  ASSUME SaverInv, NEW p \in Processes, DeleteThread(p)
  PROVE  SaverInv'
<1>1. /\ LogIs(thread, Entry) /\ written \in [Ids -> PutShape] /\ PutInOrder(written)
      /\ saver \in [Processes -> RunShape] /\ \A q \in Processes : RunIs(thread, written, saver[q])
  BY DEF SaverInv, SaverTypeOK
<1>2. /\ saver' = [q \in Processes |-> IF q = p THEN NoRun ELSE Torn(q)]
      /\ thread' = Cleared(thread) /\ written' = written
  BY DEF DeleteThread
<1>3. LogIs(thread', Entry) /\ thread'.log = <<>>
  BY <1>1, <1>2, ClearedIs
<1>4. DataOf(thread') = {}
  BY <1>3, ClearedData
<1>5. ThreadIs(thread', written')
  BY <1>4 DEF ThreadIs
<1>6. ASSUME NEW q \in Processes
      PROVE  Torn(q) \in RunShape /\ RunIs(thread', written, Torn(q))
  <2>0. PICK r \in RunShape : r = saver[q] /\ RunIs(thread, written, r)
    BY <1>1
  <2>. DEFINE c == [r EXCEPT !.torn = TRUE, !.owed = {}, !.latest = 0]
  <2>1. CASE r.pc \in {"create", "read", "run"} /\ r.op = "run"
    <3>1. Torn(q) = c
      BY <2>0, <2>1 DEF Torn
    <3>2. /\ c \in RunShape /\ c.pc = r.pc /\ c.op = r.op /\ c.list = r.list /\ c.base = r.base
          /\ c.versions = r.versions /\ c.torn = TRUE /\ c.owed = {} /\ c.latest = 0 /\ c.missed = r.missed
      <4>1. 0 \in 0..MaxCheckpoints /\ {} \in SUBSET (Ids \X Tasks)
        BY Bounds
      <4>. QED
        BY <4>1 DEF RunShape
    <3>. HIDE DEF c
    <3>3. Owes(thread', c)
      BY <3>2 DEF Owes
    <3>4. RunIs(thread', written, c)
      BY <2>0, <3>2, <3>3 DEF RunIs
    <3>. QED
      BY <3>1, <3>2, <3>4
  <2>2. CASE ~(r.pc \in {"create", "read", "run"} /\ r.op = "run")
    <3>1. Torn(q) = r
      BY <2>0, <2>2 DEF Torn
    <3>2. r.pc \notin {"read", "run"} /\ ~(r.pc \in {"create", "read"} /\ r.op = "run")
      BY <2>0, <2>2 DEF RunIs
    <3>3. RunIs(thread', written, r)
      BY <2>0, <3>2 DEF RunIs
    <3>. QED
      BY <3>1, <3>3
  <2>. QED
    BY <2>1, <2>2
<1>7. \A q \in Processes : saver'[q] \in RunShape /\ RunIs(thread', written, saver'[q])
  BY <1>2, <1>6, NoRunIs, RunIsNoRun
<1>8. saver' \in [Processes -> RunShape]
  BY <1>2, <1>7
<1>. QED
  BY <1>1, <1>2, <1>3, <1>5, <1>7, <1>8 DEF SaverInv, SaverTypeOK
(***************************************************************************)
(* Appends.                                                                *)
(***************************************************************************)
LEMMA AppendGoesOn ==
  ASSUME NEW t, LogIs(t, Entry), NEW wr, ThreadIs(t, wr), NEW wr2, \A c \in Ids : wr[c].put => wr2[c] = wr[c],
         NEW data \in Seq(Entry), \A d \in Among(data) : ItemIs(d, wr2),
         \A d \in Among(data) : d.kind = "channel" => ~wr[d.version.nonce].put,
         NEW t2, t2 = Appended(t, data)
  PROVE  LogIs(t2, Entry) /\ GoesOn(t, wr, t2, wr2) /\ DataOf(t2) = DataOf(t) \cup Among(data)
<1>1. LogIs(t2, Entry)
  BY AppendedIs
<1>2. DataOf(t2) = DataOf(t) \cup Among(data)
  BY AppendedData
<1>3. \A l \in Lists(Entry) : Follows(t, l) => Follows(t2, l)
  BY FollowsAppend
<1>4. \A d \in DataOf(t) : ItemIs(d, wr2)
  <2>1. \A d \in DataOf(t) : d \in Entry /\ ItemIs(d, wr)
    BY DataIs DEF ThreadIs
  <2>. QED
    BY <2>1, ItemStays
<1>. QED
  BY <1>1, <1>2, <1>3, <1>4 DEF GoesOn

(* put_writes keeps the invariant, lost or applied, heard or not. *)
LEMMA PutWritesKeeps ==
  ASSUME SaverInv, NEW p \in Processes, NEW job \in Tasks, NEW applied \in BOOLEAN, NEW heard \in BOOLEAN,
         PutWrites(p, job, applied, heard)
  PROVE  SaverInv'
<1>1. /\ LogIs(thread, Entry) /\ written \in [Ids -> PutShape] /\ PutInOrder(written) /\ ThreadIs(thread, written)
      /\ saver[p] \in RunShape /\ RunIs(thread, written, saver[p])
  BY DEF SaverInv, SaverTypeOK
<1>2. PICK w : w = [kind |-> "writes", id |-> saver[p].base, task |-> job]
  OBVIOUS
<1>3. /\ saver[p].base # 0 /\ (heard => applied)
      /\ thread' = (IF applied THEN Appended(thread, <<w>>) ELSE thread)
      /\ saver' = [saver EXCEPT ![p] = IF heard THEN saver[p] ELSE NoRun] /\ written' = written
  BY Zenon, <1>2 DEF PutWrites, AppendItems
<1>4. w \in Entry /\ w.kind = "writes" /\ <<w>> \in Seq(Entry) /\ Among(<<w>>) = {w}
  <2>1. saver[p].base \in Ids
    <3>1. saver[p].base \in 0..MaxCheckpoints
      BY <1>1, RunHolds
    <3>. QED
      BY <1>3, <3>1, Bounds DEF Ids
  <2>2. w \in Entry /\ w.kind = "writes"
    BY <1>2, <2>1 DEF Entry
  <2>3. <<w>> \in Seq(Entry) /\ DOMAIN <<w>> = {1} /\ <<w>>[1] = w
    BY <2>2
  <2>4. Among(<<w>>) = {w}
    BY <2>3 DEF Among
  <2>. QED
    BY <2>2, <2>3, <2>4
<1>5. CASE ~applied
  BY <1>1, <1>3, <1>5, NoRunIs, RunIsNoRun, OneMovesOnly
<1>6. CASE applied
  <2>1. ItemIs(w, written)
    BY <1>4 DEF ItemIs
  <2>2. /\ LogIs(thread', Entry) /\ GoesOn(thread, written, thread', written)
        /\ DataOf(thread') = DataOf(thread) \cup {w}
    <3>1. PICK data \in Seq(Entry) : data = <<w>> /\ Among(data) = {w}
      BY <1>4
    <3>2. thread' = Appended(thread, data)
      BY <1>3, <1>6, <3>1
    <3>3. \A d \in Among(data) : ItemIs(d, written) /\ d.kind # "channel"
      BY <1>4, <2>1, <3>1
    <3>4. \A c \in Ids : written[c].put => written[c] = written[c]
      OBVIOUS
    <3>5. LogIs(thread', Entry) /\ GoesOn(thread, written, thread', written) /\ DataOf(thread') = DataOf(thread) \cup Among(data)
      BY <1>1, <3>2, <3>3, <3>4, AppendGoesOn
    <3>. QED
      BY <3>1, <3>5
  <2>3. \A d \in DataOf(thread') : ItemIs(d, written)
    BY <2>2 DEF GoesOn
  <2>4. \A d \in DataOf(thread') : d.kind = "checkpoint" => d \in DataOf(thread)
    BY <1>4, <2>2
  <2>5. ThreadIs(thread', written)
    <3>. SUFFICES ASSUME NEW d \in DataOf(thread'), d.kind = "checkpoint", written[d.id].intact, NEW ch \in Channels
                  PROVE  written[d.id].values[ch] = ValueIn(thread', written, ch, d.versions[ch])
      BY <2>3 DEF ThreadIs
    <3>. QED
      BY <1>1, <2>2, <2>4, ThreadStays
  <2>6. PICK r : r = IF heard THEN saver[p] ELSE NoRun
    OBVIOUS
  <2>7. r \in RunShape /\ RunIs(thread, written, r)
    BY <1>1, <2>6, NoRunIs, RunIsNoRun
  <2>8. RunIs(thread', written, r)
    BY <1>1, <2>2, <2>7, RunStays
  <2>. QED
    BY <1>1, <1>3, <2>2, <2>5, <2>6, <2>7, <2>8, OneMoves
<1>. QED
  BY <1>5, <1>6

(* The channels of a put, all of them. *)
LEMMA ListedIs ==
  ASSUME NEW changed \in SUBSET Channels
  PROVE  /\ Cardinality(changed) \in Nat
         /\ Listed(changed) \in [1..Cardinality(changed) -> changed]
         /\ \A ch \in changed : \E k \in 1..Cardinality(changed) : Listed(changed)[k] = ch
<1>1. IsFiniteSet(changed)
  BY Bounds, FS_Subset
<1>2. PICK n \in Nat : n = Cardinality(changed) /\ ExistsBijection(1..n, changed)
  BY <1>1, FS_CardinalityType
<1>3. PICK g : g \in Surjection(1..n, changed)
  BY <1>2 DEF ExistsBijection, Bijection
<1>4. g \in [1..n -> changed] /\ \A ch \in changed : \E k \in DOMAIN g : g[k] = ch
  BY <1>3 DEF Surjection
<1>5. Listed(changed) \in [1..n -> changed] /\ \A ch \in changed : \E k \in DOMAIN Listed(changed) : Listed(changed)[k] = ch
  <2>1. Listed(changed) = CHOOSE f \in [1..n -> changed] : \A ch \in changed : \E k \in DOMAIN f : f[k] = ch
    BY Zenon, <1>2 DEF Listed
  <2>. QED
    BY <1>4, <2>1
<1>6. DOMAIN Listed(changed) = 1..n
  BY <1>5
<1>. QED
  BY <1>2, <1>5, <1>6

(* A new version: drawn by no other put, and ahead of all the run knows. *)
LEMMA NextVersionIs ==
  ASSUME NEW wr \in [Ids -> PutShape], PutInOrder(wr), NEW id \in Ids, ~wr[id].put,
         NEW versions \in Versions, Drawn(versions, wr), Channels # {}
  PROVE  /\ NextVersion(versions, id) \in Version /\ NextVersion(versions, id).nonce = id
         /\ NextVersion(versions, id).n <= id
<1>. DEFINE ns == {versions[ch].n : ch \in Channels}
<1>1. id \in Nat /\ id >= 1 /\ id <= MaxCheckpoints /\ MaxCheckpoints \in Nat /\ id - 1 \in Nat
  BY Bounds DEF Ids
<1>2. \A ch \in Channels : versions[ch].n \in 0..(id - 1)
  <2>. TAKE ch \in Channels
  <2>1. versions[ch] \in Version
    BY DEF Versions
  <2>2. versions[ch].n \in 0..MaxCheckpoints
    BY <2>1 DEF Version
  <2>3. CASE versions[ch] = NoVersion
    BY <1>1, <2>3, NoVersionIs
  <2>4. CASE versions[ch].nonce \in Ids /\ wr[versions[ch].nonce].put /\ versions[ch].n <= versions[ch].nonce
    <3>1. versions[ch].nonce # id
      BY <2>4
    <3>2. ~(id < versions[ch].nonce)
      BY <2>4 DEF PutInOrder
    <3>3. versions[ch].nonce \in 1..MaxCheckpoints
      BY <2>4 DEF Ids
    <3>. QED
      BY <1>1, <2>2, <2>4, <3>1, <3>2, <3>3
  <2>. QED
    BY <2>3, <2>4 DEF Drawn
<1>3. ns \in SUBSET (0..(id - 1)) /\ ns # {}
  BY <1>2
<1>4. Max(ns) \in 0..(id - 1)
  <2>. HIDE DEF ns
  <2>1. Max(ns) \in ns
    BY <1>1, <1>3, GreatestIs
  <2>. QED
    BY <1>3, <2>1
<1>5. PICK m : m = Max(ns)
  OBVIOUS
<1>6. NextVersion(versions, id) = [n |-> m + 1, nonce |-> id]
  BY Zenon, <1>5 DEF NextVersion
<1>7. m + 1 \in 0..MaxCheckpoints /\ m + 1 <= id /\ id \in 0..MaxCheckpoints
  BY <1>1, <1>4, <1>5
<1>. QED
  BY <1>6, <1>7 DEF Version

(* A sequence with one item more, by place. *)
LEMMA LongerIs ==
  ASSUME NEW S, NEW q \in Seq(S), NEW e \in S, NEW n \in Nat, n = Len(q)
  PROVE  /\ Append(q, e) \in Seq(S) /\ Len(Append(q, e)) = n + 1 /\ Append(q, e)[n + 1] = e
         /\ \A k \in 1..n : Append(q, e)[k] = q[k]
BY AppendProperties

(* Everything a put appends. *)
ListsThem(data, changed, next, values) ==
  /\ data \in Seq(Entry) /\ Len(data) = Cardinality(changed)
  /\ \A k \in 1..Cardinality(changed) :
       data[k] = ChannelItem(Listed(changed)[k], next, values[Listed(changed)[k]])

PutsThem(all, point, changed, next, values) ==
  \A d : d \in Among(all) <=> d = point \/ \E ch \in changed : d = ChannelItem(ch, next, values[ch])

(* A put writes every changed channel, and its checkpoint behind them. *)
LEMMA PutDataIs ==
  ASSUME NEW changed \in SUBSET Channels, NEW next, NEW values, NEW data, NEW point \in Entry,
         ListsThem(data, changed, next, values), NEW all, all = Append(data, point)
  PROVE  PutsThem(all, point, changed, next, values)
<1>1. PICK n \in Nat : n = Cardinality(changed)
  BY ListedIs
<1>2. PICK f : f = Listed(changed)
  OBVIOUS
<1>3. f \in [1..n -> changed] /\ \A ch \in changed : \E k \in 1..n : f[k] = ch
  BY <1>1, <1>2, ListedIs
<1>. DEFINE item(ch) == ChannelItem(ch, next, values[ch])
<1>4. data \in Seq(Entry) /\ Len(data) = n /\ \A k \in 1..n : data[k] = item(f[k])
  BY Zenon, <1>1, <1>2 DEF ListsThem
<1>. HIDE DEF item
<1>5. DOMAIN all = 1..(n + 1) /\ (\A k \in 1..n : all[k] = item(f[k])) /\ all[n + 1] = point
  <2>1. all \in Seq(Entry) /\ Len(all) = n + 1 /\ all[n + 1] = point /\ \A k \in 1..n : all[k] = data[k]
    BY <1>1, <1>4, LongerIs
  <2>2. DOMAIN all = 1..(n + 1)
    BY <2>1
  <2>. QED
    BY <1>4, <2>1, <2>2
<1>6. \A k \in 1..(n + 1) : k \in 1..n \/ k = n + 1
  BY <1>1
<1>7. (\A k \in 1..n : k \in 1..(n + 1)) /\ n + 1 \in 1..(n + 1)
  BY <1>1
<1>8. \A d : d \in Among(all) => d = point \/ \E ch \in changed : d = item(ch)
  <2>. SUFFICES ASSUME NEW k \in 1..(n + 1)
                PROVE  all[k] = point \/ \E ch \in changed : all[k] = item(ch)
    BY <1>5 DEF Among
  <2>. QED
    BY <1>3, <1>5, <1>6
<1>9. \A ch \in changed : item(ch) \in Among(all)
  <2>. TAKE ch \in changed
  <2>1. PICK k \in 1..n : f[k] = ch
    BY <1>3
  <2>2. k \in DOMAIN all /\ all[k] = item(ch)
    BY <1>5, <1>7, <2>1
  <2>. QED
    BY <2>2 DEF Among
<1>10. point \in Among(all)
  BY <1>5, <1>7 DEF Among
<1>11. \A d : d \in Among(all) <=> d = point \/ \E ch \in changed : d = item(ch)
  BY <1>8, <1>9, <1>10
<1>. QED
  BY Zenon, <1>11 DEF item, PutsThem

(* The least number no checkpoint has. *)
LEMMA FreshIs ==
  ASSUME NEW wr \in [Ids -> PutShape], PutInOrder(wr), \E c \in Ids : ~wr[c].put,
         NEW id, id = Min({c \in Ids : ~wr[c].put})
  PROVE  id \in Ids /\ ~wr[id].put /\ \A b \in Ids : b < id => wr[b].put
<1>. DEFINE free == {c \in Ids : ~wr[c].put}
<1>1. free \in SUBSET Nat /\ free # {} /\ Ids \in SUBSET Nat
  BY Bounds DEF Ids
<1>2. id \in free /\ \A y \in free : id <= y
  <2>. HIDE DEF free
  <2>1. Min(free) \in free /\ \A y \in free : Min(free) <= y
    BY <1>1, LeastIs
  <2>. QED
    BY <2>1 DEF free
<1>3. \A b \in Ids : b < id => b \notin free
  BY <1>1, <1>2
<1>. QED
  BY <1>2, <1>3

(* put keeps the invariant, lost or applied, heard or not. *)
LEMMA PutKeeps ==
  ASSUME SaverInv, NEW p \in Processes, NEW changed \in SUBSET Channels, NEW emptied \in {{}, changed},
         NEW applied \in BOOLEAN, NEW heard \in BOOLEAN, Put(p, changed, emptied, applied, heard)
  PROVE  SaverInv'
<1>1. /\ LogIs(thread, Entry) /\ written \in [Ids -> PutShape] /\ PutInOrder(written) /\ ThreadIs(thread, written)
      /\ saver[p] \in RunShape /\ RunIs(thread, written, saver[p])
  BY DEF SaverInv, SaverTypeOK
<1>. DEFINE run      == saver[p]
            id       == Min({c \in Ids : ~written[c].put})
            next     == NextVersion(run.versions, id)
            versions == [ch \in Channels |-> IF ch \in changed THEN next ELSE run.versions[ch]]
            values   == [ch \in Channels |-> IF ch \in emptied THEN NoValue
                                              ELSE IF ch \in changed THEN id ELSE run.values[ch]]
            data     == [k \in 1..Cardinality(changed) |->
                           ChannelItem(Listed(changed)[k], next, values[Listed(changed)[k]])]
            point    == [kind |-> "checkpoint", id |-> id, versions |-> versions, parent |-> run.base]
            items    == Append(data, point)
            r        == [run EXCEPT !.base = id, !.versions = versions, !.values = values, !.missed = FALSE]
<1>2. run \in RunShape /\ run = saver[p] /\ RunIs(thread, written, run)
  BY <1>1
<1>3. id = Min({c \in Ids : ~written[c].put})
  OBVIOUS
<1>4. next = NextVersion(run.versions, id)
  OBVIOUS
<1>5. /\ versions = [ch \in Channels |-> versions[ch]]
      /\ \A ch \in Channels : versions[ch] = IF ch \in changed THEN next ELSE run.versions[ch]
  BY Zenon
<1>6. /\ values = [ch \in Channels |-> values[ch]]
      /\ \A ch \in Channels : values[ch] = IF ch \in emptied THEN NoValue
                                             ELSE IF ch \in changed THEN id ELSE run.values[ch]
  BY Zenon
<1>7. /\ data = [k \in 1..Cardinality(changed) |-> data[k]]
      /\ \A k \in 1..Cardinality(changed) :
           data[k] = ChannelItem(Listed(changed)[k], next, values[Listed(changed)[k]])
  <2>. HIDE DEF run, id, next, values
  <2>. QED
    BY Zenon
<1>8. point = [kind |-> "checkpoint", id |-> id, versions |-> versions, parent |-> run.base]
  OBVIOUS
<1>9. items = Append(data, point)
  OBVIOUS
<1>10. r = [run EXCEPT !.base = id, !.versions = versions, !.values = values, !.missed = FALSE]
  OBVIOUS
<1>11. /\ run.pc = "run" /\ (\E c \in Ids : ~written[c].put) /\ (heard => applied)
       /\ thread' = (IF applied THEN Appended(thread, items) ELSE thread)
       /\ saver' = [saver EXCEPT ![p] = IF heard THEN r ELSE NoRun]
       /\ written' = (IF applied
                      THEN [written EXCEPT ![id] = [put |-> TRUE, values |-> values, intact |-> ~run.torn]]
                      ELSE written)
  <2>1. /\ run.pc = "run" /\ \E c \in Ids : ~written[c].put
        /\ AppendItems(p, items, applied, heard, r)
        /\ written' = (IF applied
                       THEN [written EXCEPT ![id] = [put |-> TRUE, values |-> values, intact |-> ~run.torn]]
                       ELSE written)
    BY Zenon DEF Put
  <2>. HIDE DEF run, id, values, items, r
  <2>. QED
    BY Zenon, <2>1 DEF AppendItems
<1>. HIDE DEF run, id, next, versions, values, data, point, items, r
<1>12. CASE ~applied
  BY <1>1, <1>11, <1>12, NoRunIs, RunIsNoRun, OneMovesOnly
<1>13. ASSUME applied
       PROVE  SaverInv'
  <2>1. id \in Ids /\ ~written[id].put /\ \A b \in Ids : b < id => written[b].put
    BY <1>1, <1>3, <1>11, FreshIs
  <2>2. run.versions \in Versions /\ run.values \in Values /\ run.torn \in BOOLEAN /\ run.base \in 0..MaxCheckpoints
        /\ Drawn(run.versions, written)
    BY <1>2, RunHolds DEF RunIs
  <2>3. changed # {} => next \in Version /\ next.nonce = id /\ next.n <= id
    BY <1>1, <1>4, <2>1, <2>2, NextVersionIs
  <2>4. versions \in Versions /\ values \in Values
    <3>1. \A ch \in Channels : run.versions[ch] \in Version /\ run.values[ch] \in 0..MaxCheckpoints
      BY <2>2 DEF Versions, Values
    <3>2. id \in 0..MaxCheckpoints /\ NoValue \in 0..MaxCheckpoints
      BY <2>1, Bounds DEF Ids, NoValue
    <3>3. versions \in [Channels -> Version]
      BY <1>5, <2>3, <3>1
    <3>4. values \in [Channels -> 0..MaxCheckpoints]
      BY <1>6, <3>1, <3>2
    <3>. QED
      BY <3>3, <3>4 DEF Versions, Values
  <2>5. PICK put \in PutShape : /\ put = [put |-> TRUE, values |-> values, intact |-> ~run.torn]
                                /\ put.put = TRUE /\ put.values = values /\ (put.intact <=> ~run.torn)
    <3>1. PICK b \in BOOLEAN : b = ~run.torn
      BY Zenon
    <3>2. PICK w : w = [put |-> TRUE, values |-> values, intact |-> b]
      OBVIOUS
    <3>3. w \in PutShape /\ w.put = TRUE /\ w.values = values /\ w.intact = b
      BY <2>4, <3>1, <3>2 DEF PutShape
    <3>4. w = [put |-> TRUE, values |-> values, intact |-> ~run.torn]
      BY Zenon, <3>1, <3>2
    <3>5. w.intact <=> ~run.torn
      BY Zenon, <3>1, <3>3
    <3>. QED
      BY Zenon, <3>3, <3>4, <3>5
  <2>6. /\ written' = [written EXCEPT ![id] = put] /\ written' \in [Ids -> PutShape] /\ written'[id] = put
        /\ \A c \in Ids : c # id => written'[c] = written[c]
    BY <1>1, <1>11, <1>13, <2>1, <2>5
  <2>7. \A c \in Ids : written[c].put => written'[c] = written[c]
    BY <2>1, <2>6
  <2>8. PutInOrder(written')
    <3>. SUFFICES ASSUME NEW b \in Ids, NEW c \in Ids, b < c, written'[c].put
                  PROVE  written'[b].put
      BY DEF PutInOrder
    <3>1. CASE c = id
      BY <2>1, <2>7, <3>1
    <3>2. CASE c # id
      <4>1. written[b].put
        BY <1>1, <2>6, <3>2 DEF PutInOrder
      <4>. QED
        BY <2>7, <4>1
    <3>. QED
      BY <3>1, <3>2
  <2>9. Drawn(versions, written')
    <3>. SUFFICES ASSUME NEW ch \in Channels
                  PROVE  \/ versions[ch] = NoVersion
                         \/ /\ versions[ch].nonce \in Ids /\ written'[versions[ch].nonce].put
                            /\ versions[ch].n <= versions[ch].nonce
      BY DEF Drawn
    <3>1. CASE ch \in changed
      BY <1>5, <2>1, <2>3, <2>5, <2>6, <3>1
    <3>2. CASE ch \notin changed
      <4>1. versions[ch] = run.versions[ch]
        BY <1>5, <3>2
      <4>2. Drawn(run.versions, written')
        BY <2>2, <2>7, DrawnStays
      <4>. QED
        BY <4>1, <4>2 DEF Drawn
    <3>. QED
      BY <3>1, <3>2
  <2>10. \A ch \in changed :
           LET d == ChannelItem(ch, next, values[ch])
           IN  d \in Entry /\ d.kind = "channel" /\ d.channel = ch /\ d.version = next /\ d.value = values[ch]
    <3>. TAKE ch \in changed
    <3>1. ch \in Channels /\ next \in Version /\ values[ch] \in 0..MaxCheckpoints
      BY <2>3, <2>4 DEF Values
    <3>. QED
      BY <3>1 DEF ChannelItem, Entry
  <2>11. point \in Entry /\ point.kind = "checkpoint" /\ point.id = id /\ point.versions = versions
    BY <1>8, <2>1, <2>2, <2>4 DEF Entry
  <2>12. data \in Seq(Entry) /\ Len(data) = Cardinality(changed)
    <3>1. PICK n \in Nat : n = Cardinality(changed) /\ \A k \in 1..n : Listed(changed)[k] \in changed
      BY ListedIs
    <3>2. \A k \in 1..n : data[k] \in Entry
      BY <1>7, <2>10, <3>1
    <3>3. data \in [1..n -> Entry]
      BY <1>7, <3>1, <3>2
    <3>4. data \in Seq(Entry) /\ Len(data) = n
      BY <3>3
    <3>. QED
      BY <3>1, <3>4
  <2>13. /\ items \in Seq(Entry)
         /\ \A d : d \in Among(items) <=> d = point \/ \E ch \in changed : d = ChannelItem(ch, next, values[ch])
    <3>1. items \in Seq(Entry)
      BY <1>9, <2>11, <2>12, LongerIs
    <3>2. \A k \in 1..Cardinality(changed) :
            data[k] = ChannelItem(Listed(changed)[k], next, values[Listed(changed)[k]])
      BY <1>7
    <3>4. ListsThem(data, changed, next, values)
      BY <2>12, <3>2 DEF ListsThem
    <3>5. point \in Entry
      BY <2>11
    <3>6. PutsThem(items, point, changed, next, values)
      BY <1>9, <3>4, <3>5, PutDataIs
    <3>3. \A d : d \in Among(items) <=> d = point \/ \E ch \in changed : d = ChannelItem(ch, next, values[ch])
      BY Zenon, <3>6 DEF PutsThem
    <3>. QED
      BY <3>1, <3>3
  <2>14. \A d \in Among(items) : ItemIs(d, written') /\ (d.kind = "channel" => ~written[d.version.nonce].put)
    <3>. TAKE d \in Among(items)
    <3>1. CASE d = point
      BY <2>5, <2>6, <2>9, <2>11, <3>1 DEF ItemIs
    <3>2. CASE \E ch \in changed : d = ChannelItem(ch, next, values[ch])
      <4>1. PICK ch \in changed : d = ChannelItem(ch, next, values[ch])
        BY <3>2
      <4>2. d.kind = "channel" /\ d.channel = ch /\ d.version = next /\ d.value = values[ch] /\ next.nonce = id
        BY <2>3, <2>10, <4>1
      <4>. QED
        BY <2>1, <2>5, <2>6, <4>2 DEF ItemIs
    <3>. QED
      BY <2>13, <3>1, <3>2
  <2>15. /\ LogIs(thread', Entry) /\ GoesOn(thread, written, thread', written')
         /\ DataOf(thread') = DataOf(thread) \cup Among(items)
    <3>1. thread' = Appended(thread, items)
      BY <1>11, <1>13
    <3>. QED
      BY <1>1, <2>7, <2>13, <2>14, <3>1, AppendGoesOn
  <2>16. ASSUME ~run.torn, NEW ch \in Channels
         PROVE  values[ch] = ValueIn(thread', written', ch, versions[ch])
    <3>1. CASE ch \in changed
      <4>1. versions[ch] = next /\ next.nonce = id
        BY <1>5, <2>3, <3>1
      <4>2. ChannelItem(ch, next, values[ch]) \in DataOf(thread') /\ Mentions(ChannelItem(ch, next, values[ch]), ch, next)
        BY <2>10, <2>13, <2>15, <3>1 DEF Mentions
      <4>3. MentionedIn(thread', ch, versions[ch])
        BY <4>1, <4>2 DEF MentionedIn
      <4>. QED
        BY <2>5, <2>6, <4>1, <4>3 DEF ValueIn
    <3>2. CASE ch \notin changed
      <4>1. versions[ch] = run.versions[ch] /\ values[ch] = run.values[ch]
        BY <1>5, <1>6, <3>2
      <4>2. run.values[ch] = ValueIn(thread, written, ch, run.versions[ch])
        BY <1>2, <1>11, <2>16 DEF RunIs
      <4>3. run.versions[ch] = NoVersion \/ (run.versions[ch].nonce \in Ids /\ written[run.versions[ch].nonce].put)
        BY <2>2 DEF Drawn
      <4>4. ValueIn(thread', written', ch, run.versions[ch]) = ValueIn(thread, written, ch, run.versions[ch])
        BY <1>1, <2>15, <4>3, ValueStays
      <4>. QED
        BY <4>1, <4>2, <4>4
    <3>. QED
      BY <3>1, <3>2
  <2>17. ThreadIs(thread', written')
    <3>1. \A d \in DataOf(thread') : ItemIs(d, written')
      BY <2>15 DEF GoesOn
    <3>. SUFFICES ASSUME NEW d \in DataOf(thread'), d.kind = "checkpoint", written'[d.id].intact, NEW ch \in Channels
                  PROVE  written'[d.id].values[ch] = ValueIn(thread', written', ch, d.versions[ch])
      BY <3>1 DEF ThreadIs
    <3>2. d \in DataOf(thread) \/ d = point
      <4>1. \A c \in changed : ChannelItem(c, next, values[c]).kind = "channel"
        BY <2>10
      <4>. QED
        BY <2>13, <2>15, <4>1
    <3>3. CASE d \in DataOf(thread)
      BY <1>1, <2>15, <3>3, ThreadStays
    <3>4. CASE d = point
      <4>1. d.id = id /\ d.versions = versions /\ ~run.torn
        BY <2>5, <2>6, <2>11, <3>4
      <4>2. values[ch] = ValueIn(thread', written', ch, versions[ch])
        BY <2>16, <4>1
      <4>. QED
        BY <2>5, <2>6, <4>1, <4>2
    <3>. QED
      BY <3>2, <3>3, <3>4
  <2>18. r \in RunShape /\ RunIs(thread', written', r)
    <3>1. id \in 0..MaxCheckpoints /\ id # 0
      BY <2>1, Bounds DEF Ids
    <3>2. /\ r \in RunShape /\ r.pc = "run" /\ r.op = run.op /\ r.list = run.list /\ r.base = id
          /\ r.versions = versions /\ r.values = values /\ r.torn = run.torn /\ r.missed = FALSE
      BY <1>2, <1>10, <1>11, <2>4, <3>1 DEF RunShape
    <3>3. RunIs(thread', written', run)
      BY <1>1, <1>2, <2>15, RunStays
    <3>4. \A d \in Among(r.list.got) : ItemIs(d, written')
      BY <3>2, <3>3 DEF RunIs
    <3>5. Drawn(r.versions, written') /\ written'[r.base].put
      BY <2>5, <2>6, <2>9, <3>2
    <3>6. ~r.torn => \A ch \in Channels : r.values[ch] = ValueIn(thread', written', ch, r.versions[ch])
      BY <2>16, <3>2
    <3>7. r.values = written'[r.base].values
      BY <2>5, <2>6, <3>2
    <3>8. r.op = "run"
      BY <1>2, <1>11, <3>2 DEF RunIs
    <3>. QED
      BY <3>2, <3>4, <3>5, <3>6, <3>7, <3>8 DEF RunIs
  <2>19. PICK c : c = IF heard THEN r ELSE NoRun
    OBVIOUS
  <2>20. c \in RunShape /\ RunIs(thread', written', c)
    BY <2>18, <2>19, NoRunIs, RunIsNoRun
  <2>. QED
    BY <1>11, <2>6, <2>8, <2>15, <2>17, <2>19, <2>20, OneMoves
<1>. QED
  BY <1>12, <1>13

(* A resumed run reads back what was put, whatever number of processes run  *)
(* the thread, whichever of their calls fail, whatever the size of a page:  *)
(* get_tuple, put, put_writes and delete_thread of checkpoint.py.           *)
THEOREM SaverInvariant == SaverSpec => []SaverInv
<1>1. SaverInit => SaverInv
  <2>. SUFFICES ASSUME SaverInit
                PROVE  SaverInv
    OBVIOUS
  <2>1. /\ thread = NoLog /\ saver = [p \in Processes |-> NoRun]
        /\ written = [c \in Ids |-> [put |-> FALSE, values |-> Blank(NoValue), intact |-> FALSE]]
    BY DEF SaverInit
  <2>2. LogIs(thread, Entry) /\ thread.log = <<>>
    <3>1. NoLog.log = <<>> /\ NoLog \in [exists : BOOLEAN, clock : Nat, log : Seq([time : Nat, data : Entry])]
      BY DEF NoLog
    <3>2. \A k : k \notin DOMAIN NoLog.log
      BY <3>1
    <3>. QED
      BY <2>1, <3>1, <3>2 DEF LogIs
  <2>3. saver \in [Processes -> RunShape] /\ \A p \in Processes : saver[p] = NoRun
    BY <2>1, NoRunIs
  <2>4. written \in [Ids -> PutShape] /\ \A c \in Ids : ~written[c].put
    BY <2>1, NoVersionIs DEF PutShape
  <2>5. PutInOrder(written)
    BY <2>4 DEF PutInOrder
  <2>6. ThreadIs(thread, written)
    BY <2>2 DEF ThreadIs, DataOf
  <2>7. \A p \in Processes : RunIs(thread, written, saver[p])
    BY <2>3, RunIsNoRun
  <2>. QED
    BY <2>2, <2>3, <2>4, <2>5, <2>6, <2>7 DEF SaverInv, SaverTypeOK
<1>2. SaverInv /\ [SaverNext]_saverVars => SaverInv'
  <2>. SUFFICES ASSUME SaverInv, [SaverNext]_saverVars
                PROVE  SaverInv'
    OBVIOUS
  <2>1. ASSUME NEW p \in Processes, NEW op \in {"run", "delete"}, NEW wanted \in 0..MaxCheckpoints,
               BeginRun(p, op, wanted)
        PROVE  SaverInv'
    BY <2>1, BeginRunKeeps
  <2>2. ASSUME NEW p \in Processes, CreateSession(p) \/ ReadItems(p) \/ EndRun(p) \/ DeleteThread(p)
        PROVE  SaverInv'
    BY <2>2, CreateSessionKeeps, ReadItemsKeeps, EndRunKeeps, DeleteThreadKeeps
  <2>3. ASSUME NEW p \in Processes, NEW applied \in BOOLEAN, NEW heard \in BOOLEAN,
               NEW changed \in SUBSET Channels, NEW emptied \in {{}, changed},
               Put(p, changed, emptied, applied, heard)
        PROVE  SaverInv'
    BY <2>3, PutKeeps
  <2>4. ASSUME NEW p \in Processes, NEW applied \in BOOLEAN, NEW heard \in BOOLEAN, NEW job \in Tasks,
               PutWrites(p, job, applied, heard)
        PROVE  SaverInv'
    BY <2>4, PutWritesKeeps
  <2>5. CASE UNCHANGED saverVars
    BY <2>5 DEF saverVars, SaverInv
  <2>. QED
    BY <2>1, <2>2, <2>3, <2>4, <2>5 DEF SaverNext
<1>. QED
  BY <1>1, <1>2, PTL DEF SaverSpec

(* The invariant implies the property that the run checks. *)
LEMMA SaverInvIsEnough == SaverInv => CheckpointReadsBack
<1>. SUFFICES ASSUME SaverInv
              PROVE  CheckpointReadsBack
  OBVIOUS
<1>1. \A p \in Processes : RunIs(thread, written, saver[p])
  BY DEF SaverInv
<1>2. ValuesReadBack
  BY <1>1 DEF ValuesReadBack, RunIs
<1>3. NothingIsMissed
  BY <1>1 DEF NothingIsMissed, RunIs
<1>. QED
  BY <1>2, <1>3 DEF CheckpointReadsBack

(* Both clients of the Session Store read a conversation back as it was     *)
(* saved: the checkpointer of LangGraph the values its checkpoint was put   *)
(* with and every write of its tasks, the session of the OpenAI Agents SDK  *)
(* the transcript, whole and in order.                                      *)
THEOREM ConversationsStayWhole == SaverSpec /\ TranscriptSpec => []ConversationsReadBack
<1>1. SaverSpec => []CheckpointReadsBack
  BY SaverInvariant, SaverInvIsEnough, PTL
<1>2. TranscriptSpec => []TranscriptIsWhole
  BY TranscriptsStayWhole
<1>3. CheckpointReadsBack /\ TranscriptIsWhole => ConversationsReadBack
  BY DEF ConversationsReadBack
<1>. QED
  BY <1>1, <1>2, <1>3, PTL
=============================================================================
