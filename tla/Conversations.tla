--------------------------- MODULE Conversations ---------------------------
(***************************************************************************)
(* The endpoints keep nothing: with every turn the client sends the whole    *)
(* conversation again, its calls, their results and the approvals the user   *)
(* gave.  Three conversions write it: the AI SDK provider for the Responses  *)
(* API, and for chat completions, and LangChain for the Responses API.       *)
(***************************************************************************)
EXTENDS Naturals, Sequences
LOCAL INSTANCE SequencesExt

CONSTANTS MaxSaid      \* bound: what is said in a conversation, by anyone

VARIABLE talk          \* what was said, and how the client keeps it

talkVars == <<talk>>

Said(who, kind, id) == [who |-> who, kind |-> kind, id |-> id]
Written(kind, id)   == [kind |-> kind, id |-> id]

(* merged: an application that shows messages keeps a result with its call,   *)
(* in the message of the call; one that only appends keeps it where it came. *)
TalkInit == \E merged \in BOOLEAN : talk = [log |-> <<Said("user", "text", 1)>>, merged |-> merged]

Log == talk.log
At(who, kind, id) == {n \in DOMAIN Log : Log[n] = Said(who, kind, id)}
Was(who, kind, id) == At(who, kind, id) # {}
AnswerStarts == {n \in DOMAIN Log : Log[n].who = "agent" /\ Log[n - 1].who # "agent"}
Answer(n) == {m \in AnswerStarts : m <= n}
SameAnswer(n, m) == Answer(n) = Answer(m)
-----------------------------------------------------------------------------
(* convertToResponsesInput                                                   *)

(* The client's messages: a result of an earlier answer brings its call along *)
(* (doStream), unless the application puts it beside the call it has.        *)
PlaceOf(id) == CHOOSE n \in DOMAIN Log : Log[n].kind \in {"call", "approval"} /\ Log[n].id = id
Prompt ==
  FlattenSeq([n \in DOMAIN Log |->
    CASE Log[n].who = "agent" /\ Log[n].kind = "result" ->
           IF talk.merged THEN <<>>
           ELSE IF SameAnswer(n, PlaceOf(Log[n].id)) THEN <<Log[n]>>
           ELSE <<Said("agent", "call", Log[n].id), Log[n]>>
      [] Log[n].kind \in {"call", "approval"} /\ talk.merged /\ Was("agent", "result", Log[n].id) ->
           <<Log[n], Said("agent", "result", Log[n].id)>>
      [] OTHER -> <<Log[n]>>])

(* toolCallResultsByToolCallId: a call is followed by the client's result.   *)
CallInput(id) ==
  <<Written("function_call", id)>>
  \o (IF Was("client", "result", id) THEN <<Written("function_call_output", id)>> ELSE <<>>)

(* An approval is answered once, and not if its result is known.             *)
AnswerApproval_Always(acc, said) ==
  [acc EXCEPT !.input = Append(@, Written("mcp_approval_response", said.id))]
AnswerApproval(acc, said) ==
  IF said.id \in acc.answered THEN acc
  ELSE [acc EXCEPT !.answered = @ \cup {said.id},
                   !.input = IF said.id \in acc.results THEN @ ELSE Append(@, Written("mcp_approval_response", said.id))]

ConvertSaid(acc, said) ==
  CASE said.kind = "text"      -> [acc EXCEPT !.input = Append(@, Written("message", said.id))]
    [] said.kind = "reasoning" -> [acc EXCEPT !.input = Append(@, Written("reasoning", said.id))]
    [] said.kind = "call"      -> [acc EXCEPT !.input = @ \o CallInput(said.id)]
    [] said.kind = "approval"  -> [acc EXCEPT !.input = Append(@, Written("mcp_approval_request", said.id))]
    [] said.kind = "verdict"   -> AnswerApproval(acc, said)
    [] said.kind = "result" /\ said.who = "agent" -> [acc EXCEPT !.input = Append(@, Written("function_call_output", said.id)),
                                                                 !.results = @ \cup {said.id}]
    [] OTHER                   -> acc

SdkInput == FoldLeft(ConvertSaid, [input |-> <<>>, answered |-> {}, results |-> {}], Prompt).input
-----------------------------------------------------------------------------
(* An answer is one message of LangChain, with its blocks and then its calls; *)
(* so it is in chat completions.  Results of the agent are no block of either. *)
Blocks(said) ==
  CASE said.kind = "text"      -> <<Written("message", said.id)>>
    [] said.kind = "reasoning" -> <<Written("reasoning", said.id)>>
    [] said.kind = "approval"  -> <<Written("mcp_approval_request", said.id)>>
    [] OTHER                   -> <<>>

MessageOf(first, kinds) ==
  LET said  == SelectSeq([n \in DOMAIN Log |-> IF Log[n].who = "agent" /\ Answer(n) = Answer(first) THEN Log[n]
                                               ELSE Said("nobody", "none", 0)], LAMBDA s : s.who = "agent")
      calls == SelectSeq(said, LAMBDA s : s.kind = "call")
  IN  FlattenSeq([n \in DOMAIN said |-> IF said[n].kind \in kinds THEN Blocks(said[n]) ELSE <<>>])
      \o [n \in DOMAIN calls |-> Written("function_call", calls[n].id)]

Messages(kinds) ==
  FlattenSeq([n \in DOMAIN Log |->
    CASE n \in AnswerStarts -> MessageOf(n, kinds)
      [] Log[n].who = "user" -> <<Written("message", Log[n].id)>>
      [] Log[n].who = "client" /\ Log[n].kind = "result" -> <<Written("function_call_output", Log[n].id)>>
      [] OTHER -> <<>>])

(* _convert_lc_messages_to_responses_api, of a streamed answer: one that came  *)
(* whole has its calls among the blocks too, and they are given back twice.  *)
ChainInput == Messages({"text", "reasoning", "approval"})

(* convertPromptToFmapiMessages                                              *)
FmapiInput == Messages({"text", "reasoning"})
-----------------------------------------------------------------------------
Fresh == Len(Log) + 1
Say(who, kind, id) == Len(Log) < MaxSaid /\ talk' = [talk EXCEPT !.log = Append(@, Said(who, kind, id))]

OpenCalls(kind) ==
  {n \in DOMAIN Log : Log[n].who = "agent" /\ Log[n].kind = kind
                      /\ ~Was("agent", "result", Log[n].id) /\ ~Was("client", "result", Log[n].id)}
LastAnswer(n) == \A m \in AnswerStarts : \E k \in Answer(n) : m <= k
Verdict(n) == Was("client", "verdict", Log[n].id)

AgentSays(kind) == Say("agent", kind, Fresh)

(* The agent ran a call of its answer, or one that was approved since.        *)
AgentRan(n) ==
  /\ \/ n \in OpenCalls("call") /\ LastAnswer(n) /\ Last(Log).who = "agent"
     \/ n \in OpenCalls("approval") /\ Verdict(n)
  /\ Say("agent", "result", Log[n].id)

ClientRan(n) == n \in OpenCalls("call") /\ LastAnswer(n) /\ Last(Log).who # "user" /\ Say("client", "result", Log[n].id)

(* The verdict of a user, which an application may keep twice.               *)
ClientDecides(n) == n \in OpenCalls("approval") /\ LastAnswer(n) /\ Last(Log).who # "user" /\ Say("client", "verdict", Log[n].id)

UserSays == Last(Log).who # "user" /\ Say("user", "text", Fresh)

TalkNext ==
  \/ \E kind \in {"text", "reasoning", "call", "approval"} : AgentSays(kind)
  \/ \E n \in DOMAIN Log : AgentRan(n) \/ ClientRan(n) \/ ClientDecides(n)
  \/ UserSays

TalkSpec == TalkInit /\ [][TalkNext]_talkVars
-----------------------------------------------------------------------------
Places(input, kind, id) == {n \in DOMAIN input : input[n] = Written(kind, id)}
OneOf(set) == \E x \in set : set = {x}

(* A call that the client ran is given back once, and its result once, after  *)
(* it; no result is given without its call.                                  *)
CallsReplay(input) ==
  \A n \in DOMAIN Log :
    LET id == Log[n].id
        outputs == Places(input, "function_call_output", id)
    IN  /\ Log[n].kind = "call" =>
             /\ OneOf(Places(input, "function_call", id))
             /\ Was("client", "result", id) => OneOf(outputs)
        /\ \A o \in outputs : \E c \in 1..o - 1 : input[c] \in {Written("function_call", id), Written("mcp_approval_request", id)}

(* What was said is given back in its order.                                 *)
TextsReplay(input) ==
  LET told(s) == [n \in DOMAIN s |-> s[n].id]
  IN  told(SelectSeq(input, LAMBDA w : w.kind \in {"message", "reasoning"}))
        = told(SelectSeq(Log, LAMBDA s : s.kind \in {"text", "reasoning"}))

(* An approval that was answered has one answer: the verdict, or the result   *)
(* of the tool it allowed; an application that only appends sends both.       *)
ApprovalsReplay ==
  \A n \in DOMAIN Log :
    Log[n].kind = "approval" /\ talk.merged =>
      LET id == Log[n].id
      IN  /\ OneOf(Places(SdkInput, "mcp_approval_request", id))
          /\ Places(SdkInput, "function_call", id) = {}
          /\ Verdict(n) => OneOf(Places(SdkInput, "mcp_approval_response", id)
                                 \cup Places(SdkInput, "function_call_output", id))

(* The next turn is asked about the conversation that took place.             *)
TalkReplays ==
  /\ \A input \in {SdkInput, ChainInput, FmapiInput} : CallsReplay(input) /\ TextsReplay(input)
  /\ ApprovalsReplay
=============================================================================
