----------------------------- MODULE GeniePoll -----------------------------
(***************************************************************************)
(* Genie.ask_question of the bridge: it submits a question, polls the        *)
(* message until it ends, takes the final answer out of the attachments of   *)
(* all of Genie's attempts, and polls that answer's query result.  The       *)
(* states of the message are traced as spans.  GenieAsk is the other client  *)
(* of a space, that of an agent's Genie tool.                                *)
(***************************************************************************)
EXTENDS GenieAsk, Integers, Sequences, FiniteSets

CONSTANTS MaxIterations,   \* MAX_ITERATIONS
          MaxQueries,      \* bound: queries Genie tries for one question
          MaxAttachments         \* bound: attachments of one attempt

VARIABLES genie,    \* the message in the space
          asking    \* the call of ask_question

pollVars == <<genie, asking>>

Busy == {"ASKING_AI", "EXECUTING_QUERY"}
Dead == {"FAILED", "CANCELLED", "QUERY_RESULT_EXPIRED"}
Terminals == Dead \cup {"COMPLETED"}

\* texts: the places of an answer's texts among the attachments, in their order.
NoAnswer == [kind |-> "none", query |-> 0, texts |-> {}]

(* spans: the names of the child spans that are open.                       *)
PollInit ==
  /\ genie = [status |-> "none", attachments |-> <<>>, attempt |-> 0, result |-> "none"]
  /\ asking = [pc |-> "submit", n |-> 0, last |-> "none", spans |-> <<>>, reply |-> NoAnswer]

Reply(a, kind, query, texts) ==
  [a EXCEPT !.pc = "replied", !.reply = [kind |-> kind, query |-> query, texts |-> texts]]
Raise(a) == [a EXCEPT !.pc = "raised"]
-----------------------------------------------------------------------------
(* The space: Genie tries a query, says something about it, may try again,  *)
(* and ends.                                                                 *)

\* named: the attachment has the id under which its query's result is read.
Item(kind, n, named) == [kind |-> kind, attempt |-> n, named |-> named]

Think ==
  /\ genie.status \in Busy
  /\ \/ genie' = [genie EXCEPT !.status = CHOOSE s \in Busy : s # genie.status]
     \/ /\ genie.attempt < MaxQueries
        /\ \E named \in BOOLEAN :
             genie' = [genie EXCEPT !.attempt = genie.attempt + 1,
                         !.attachments = Append(genie.attachments, Item("query", genie.attempt + 1, named))]
     \/ /\ Cardinality({k \in DOMAIN genie.attachments : genie.attachments[k].attempt = genie.attempt}) < MaxAttachments
        /\ genie' = [genie EXCEPT !.attachments = Append(genie.attachments, Item("text", genie.attempt, FALSE))]
  /\ UNCHANGED asking

GenieEnds ==
  /\ genie.status \in Busy
  /\ \E s \in Terminals :
       genie' = [genie EXCEPT !.status = s, !.result = IF s = "COMPLETED" THEN "RUNNING" ELSE "none"]
  /\ UNCHANGED asking

QueryEnds ==
  /\ genie.result = "RUNNING"
  /\ \E r \in {"SUCCEEDED", "FAILED"} : genie' = [genie EXCEPT !.result = r]
  /\ UNCHANGED asking
-----------------------------------------------------------------------------
(* ask_question                                                            *)

SubmitQuestion ==
  /\ asking.pc = "submit"
  /\ genie' = [genie EXCEPT !.status = "ASKING_AI"]
  /\ asking' = [asking EXCEPT !.pc = "poll"]

Queries(items) == {k \in DOMAIN items : items[k].kind = "query"}
Last(items) == CHOOSE k \in Queries(items) : \A q \in Queries(items) : q <= k

(* poll_result reads the result of the last query if that query has an id.  *)
LastQuery(items) ==
  IF Queries(items) # {} /\ items[Last(items)].named THEN items[Last(items)].attempt ELSE 0

Parsed_FirstToLast(items) ==
  [query |-> LastQuery(items), texts |-> {k \in DOMAIN items : items[k].kind = "text"}]

(* _parse_attachments: the last query, and the texts that are not between   *)
(* the first query and the last.                                            *)
Parsed(items) ==
  [query |-> LastQuery(items),
   texts |-> {k \in DOMAIN items :
                /\ items[k].kind = "text"
                /\ ~\E p, q \in Queries(items) : p < k /\ k < q}]

(* A change of status ends the span of the state before, and begins one     *)
(* unless the message has ended.                                            *)
Traced(a, seen) ==
  IF seen = a.last THEN a
  ELSE [a EXCEPT !.last = seen, !.spans = IF seen \in Terminals THEN <<>> ELSE <<seen>>]

PollMessage ==
  LET a == Traced([asking EXCEPT !.n = asking.n + 1], genie.status)
      p == Parsed(genie.attachments)
  IN  /\ asking.pc = "poll" /\ asking.n < MaxIterations
      /\ asking' = CASE genie.status = "COMPLETED" ->
                          IF p.query # 0
                          THEN [a EXCEPT !.pc = "query", !.n = 0,
                                         !.reply = [NoAnswer EXCEPT !.query = p.query, !.texts = p.texts]]
                          ELSE Reply(a, "answer", 0, p.texts)
                     [] genie.status \in Dead -> Reply(a, genie.status, 0, {})
                     [] OTHER -> a
      /\ UNCHANGED genie

(* A result that neither succeeded nor is on its way is reported with a key *)
(* the response does not have.                                              *)
PollQuery ==
  LET a == [asking EXCEPT !.n = asking.n + 1]
  IN  /\ asking.pc = "query" /\ asking.n < MaxIterations
      /\ asking' = CASE genie.result = "SUCCEEDED" ->
                          Reply(a, "answer", a.reply.query, a.reply.texts)
                     [] genie.result = "FAILED" -> Raise(a)
                     [] OTHER -> a
      /\ UNCHANGED genie

PollTimesOut ==
  /\ asking.pc \in {"poll", "query"} /\ asking.n = MaxIterations
  /\ asking' = Reply([asking EXCEPT !.spans = <<>>], "timeout", asking.reply.query, asking.reply.texts)
  /\ UNCHANGED genie

PollRaises ==
  /\ asking.pc \in {"poll", "query"}
  /\ asking' = Raise(asking) /\ UNCHANGED genie

PollNext ==
  \/ Think \/ GenieEnds \/ QueryEnds
  \/ SubmitQuestion \/ PollMessage \/ PollQuery \/ PollTimesOut \/ PollRaises

PollSpec == PollInit /\ [][PollNext]_pollVars
-----------------------------------------------------------------------------
(* A reply that carries anything of Genie's carries what its last attempt    *)
(* came to: its query, its texts and those that belong to no attempt, none  *)
(* of an attempt it corrected, a time-out of the query's result included.   *)
(* The query is left out if Genie gave no id for it, never replaced by that *)
(* of an earlier attempt.                                                   *)
AnswerIsFinal ==
  /\ asking.pc = "replied"
  /\ asking.reply.kind = "answer" \/ asking.reply.query # 0 \/ asking.reply.texts # {}
  => /\ genie.status = "COMPLETED"
     /\ asking.reply.query =
          (IF \E k \in DOMAIN genie.attachments :
                 genie.attachments[k].attempt = genie.attempt /\ genie.attachments[k].named
           THEN genie.attempt ELSE 0)
     /\ asking.reply.texts = {k \in DOMAIN genie.attachments :
                                /\ genie.attachments[k].kind = "text"
                                /\ genie.attachments[k].attempt \in {0, genie.attempt}}

(* A reply without an answer, unless it is a time-out, says how the message *)
(* ended.                                                                   *)
RepliesAreHonest ==
  asking.pc = "replied" /\ asking.reply.kind \in Dead => asking.reply.kind = genie.status

(* A call that replied has ended the span of every state it saw.            *)
SpansAreEnded == asking.pc = "replied" => asking.spans = <<>>

GeniePollIsSound == AnswerIsFinal /\ RepliesAreHonest /\ SpansAreEnded

(* What Genie is asked is asked once, and what is shown is what it answered. *)
GenieIsSound == GenieAskIsSafe /\ GeniePollIsSound
=============================================================================
