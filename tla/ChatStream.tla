----------------------------- MODULE ChatStream -----------------------------
(***************************************************************************)
(* A model or a ChatAgent streams its answer in chunks of the chat           *)
(* completions API.  The calls of a chunk are addressed by their index; only *)
(* the first chunk of a call has its id and name, and parallel calls may     *)
(* grow side by side.  Three clients put the answer together again: the AI   *)
(* SDK provider, LangChain.js on top of it, and LangChain.                   *)
(***************************************************************************)
EXTENDS SdkParts
LOCAL INSTANCE SequencesExt

CONSTANTS MaxCalls,         \* bound: calls of an answer
          MaxChunks         \* bound: chunks of a stream

VARIABLES chat,        \* what was sent
          chatSdk,     \* the AI SDK's side
          chatChain    \* LangChain's side

chatVars == <<chat, chatSdk, chatChain>>

IdAt(k)     == MaxCalls + k        \* the id of the call at an index
Fallback(k) == 2 * MaxCalls + k    \* `tool-call-${index}`
MessageIds  == {0, 1}              \* a ChatAgent answers with several messages

(* What a chunk has: pieces of calls, content, and what only the end has.    *)
Delta(k, first, withId, args) == [call |-> k, first |-> first, withId |-> withId, args |-> args]
Content(kind, id, piece)      == [kind |-> kind, id |-> id, piece |-> piece]
EmptyChunk == [deltas |-> <<>>, content |-> <<>>, finish |-> "none", usage |-> FALSE, choices |-> TRUE]

ChatInit ==
  /\ \E agent, remote \in BOOLEAN :
       chat = [agent |-> agent, remote |-> remote, log |-> <<>>, calls |-> <<>>, finish |-> "none",
               usages |-> 0, apart |-> FALSE, told |-> FALSE, trouble |-> FALSE, sent |-> 0, over |-> FALSE]
  /\ chatSdk = [stage |-> NoStage, ids |-> [k \in 1..MaxCalls |-> 0],
                order |-> <<>>, inputs |-> <<>>, named |-> {}, finish |-> "other"]
  /\ chatChain = [chunks |-> <<>>, usage |-> FALSE]
-----------------------------------------------------------------------------
(* convertFmapiChunkToMessagePart                                            *)

(* A piece without an id is of the call whose id came at its index.          *)
IdOf_Own(d, ids) == IF d.withId THEN IdAt(d.call) ELSE Fallback(d.call)
IdOf(d, ids) ==
  IF d.withId THEN IdAt(d.call) ELSE IF ids[d.call] # 0 THEN ids[d.call] ELSE Fallback(d.call)

DeltaParts(d, ids) ==
  (IF d.first THEN <<ToolPart("tool-input-start", IdAt(d.call))>> ELSE <<>>)
  \o (IF d.args # <<>> THEN <<Part("none", "tool-input-delta", IdOf(d, ids), d.args)>> ELSE <<>>)

Learnt(ids, d) == IF d.first THEN [ids EXCEPT ![d.call] = IdAt(d.call)] ELSE ids

ContentParts(c) == [n \in DOMAIN c |-> DeltaPart(c[n].kind, c[n].id, <<c[n].piece>>)]
-----------------------------------------------------------------------------
(* DatabricksFmapiLanguageModel.doStream                                     *)

(* The input of a call grows until the stream ends.                          *)
Collect(s, p) ==
  CASE p.step = "tool-input-start" ->
         [s EXCEPT !.named = s.named \cup {p.id}, !.inputs = (p.id :> <<>>) @@ s.inputs,
                   !.order = IF p.id \in DOMAIN s.inputs THEN s.order ELSE Append(s.order, p.id)]
    [] p.step = "tool-input-delta" ->
         LET known == p.id \in DOMAIN s.inputs
         IN  [s EXCEPT !.inputs = (p.id :> (IF known THEN s.inputs[p.id] ELSE <<>>) \o p.text) @@ s.inputs,
                       !.order = IF known THEN s.order ELSE Append(s.order, p.id)]
    [] OTHER -> s

(* The pieces of a chunk's calls, and then its content.                      *)
TakeDelta(s, d) ==
  LET learnt == [s EXCEPT !.ids = Learnt(s.ids, d)]
      parts  == DeltaParts(d, learnt.ids)
  IN  Give(FoldLeft(Collect, learnt, parts), parts)

SdkTakes(s, chunk) ==
  LET taken == Give(FoldLeft(TakeDelta, s, chunk.deltas), ContentParts(chunk.content))
  IN  [taken EXCEPT !.finish = IF chunk.finish = "none" THEN "other" ELSE chunk.finish]

FinishedCall(id, input, remote) == [Part("none", "tool-call", id, input) EXCEPT !.provider = remote]

(* Every call that has a name is given whole when the stream ends.           *)
SdkEnds(s, remote) ==
  LET ready == SelectSeq(s.order, LAMBDA id : id \in s.named)
      calls == FlattenSeq([n \in DOMAIN ready |->
                 <<ToolPart("tool-input-end", ready[n]), FinishedCall(ready[n], s.inputs[ready[n]], remote)>>])
  IN  Give(s, calls \o <<ToolPart("finish", 0)>>)

(* DatabricksChatAgentLanguageModel.doStream: calls come whole, and are run.  *)
AgentTakes(s, chunk) ==
  Give(s, ContentParts(chunk.content)
           \o [n \in DOMAIN chunk.deltas |-> FinishedCall(IdAt(chunk.deltas[n].call), chunk.deltas[n].args, TRUE)])
-----------------------------------------------------------------------------
(* ChatDatabricks._stream (chat completions)                                 *)

(* A chunk of a ChatAgent has no choices: its calls are not converted.        *)
ChainTakes(c, chunk) ==
  LET new == [content |-> chunk.content, usage |-> chunk.usage /\ chunk.choices,
              deltas |-> IF chat.agent THEN <<>> ELSE chunk.deltas]
  IN  [c EXCEPT !.chunks = IF chunk.choices THEN Append(c.chunks, new) ELSE c.chunks,
                !.usage = c.usage \/ chunk.usage]

ChainEnds(c) ==
  IF c.usage THEN [c EXCEPT !.chunks = Append(c.chunks, [content |-> <<>>, usage |-> TRUE, deltas |-> <<>>])] ELSE c
-----------------------------------------------------------------------------
(* The endpoint                                                              *)

Logged(chunk) ==
  LET calls == [n \in DOMAIN chunk.deltas |-> Content("call", chunk.deltas[n].call, chunk.deltas[n].args)]
  IN  IF chat.agent THEN chunk.content \o calls ELSE calls \o chunk.content

Piece == chat.sent + 1         \* no two chunks say the same

SendChunk(chunk, calls) ==
  /\ ~chat.over /\ chat.sent < MaxChunks
  /\ chat' = [chat EXCEPT !.sent = chat.sent + 1, !.calls = calls, !.log = chat.log \o Logged(chunk),
                          !.finish = IF chunk.finish = "none" THEN chat.finish ELSE chunk.finish,
                          !.usages = IF chunk.usage THEN chat.usages + 1 ELSE chat.usages,
                          !.apart  = chunk.usage /\ ~chunk.choices, !.told = chunk.finish # "none"]
  /\ chatSdk' = IF chat.agent THEN AgentTakes(chatSdk, chunk) ELSE SdkTakes(chatSdk, chunk)
  /\ chatChain' = ChainTakes(chatChain, chunk)

Says(kind, id) ==
  /\ chat.finish = "none" /\ (id # 0 => chat.agent)
  /\ SendChunk([EmptyChunk EXCEPT !.content = <<Content(kind, id, Piece)>>], chat.calls)

(* One call begins, alone or beside a word, or two begin in one chunk.        *)
Starts(args, content) ==
  LET k == Len(chat.calls) + 1
  IN  /\ chat.finish = "none" /\ k <= MaxCalls
      /\ SendChunk([EmptyChunk EXCEPT !.deltas = <<Delta(k, TRUE, TRUE, args)>>, !.content = content],
                   Append(chat.calls, args))

StartsTwo ==
  LET k == Len(chat.calls) + 1
  IN  /\ chat.finish = "none" /\ k < MaxCalls
      /\ SendChunk([EmptyChunk EXCEPT !.deltas = <<Delta(k, TRUE, TRUE, <<>>), Delta(k + 1, TRUE, TRUE, <<Piece>>)>>],
                   chat.calls \o <<<<>>, <<Piece>>>>)

(* More of a call's input; some endpoints repeat the id.                     *)
GoesOn(k, withId) ==
  /\ chat.finish = "none" /\ ~chat.agent
  /\ SendChunk([EmptyChunk EXCEPT !.deltas = <<Delta(k, FALSE, withId, <<Piece>>)>>],
               [chat.calls EXCEPT ![k] = Append(@, Piece)])

Finishes(reason, usage) ==
  /\ chat.finish = "none" /\ ~chat.agent
  /\ SendChunk([EmptyChunk EXCEPT !.finish = reason, !.usage = usage], chat.calls)

(* A last chunk that has the usage and nothing else.                         *)
CountsUsage ==
  /\ chat.finish # "none" /\ chat.usages = 0
  /\ SendChunk([EmptyChunk EXCEPT !.usage = TRUE, !.choices = FALSE], chat.calls)

(* A chunk that does not parse becomes an error among the parts.             *)
Garbles ==
  /\ ~chat.over /\ chat.sent < MaxChunks /\ ~chat.trouble
  /\ chat' = [chat EXCEPT !.sent = chat.sent + 1, !.trouble = TRUE, !.told = FALSE, !.log = Append(@, Content("none", 0, <<>>))]
  /\ chatSdk' = [Give(chatSdk, <<ToolPart("error", 0)>>) EXCEPT !.finish = "error"]
  /\ UNCHANGED chatChain

Hangup ==
  /\ ~chat.over
  /\ chat' = [chat EXCEPT !.over = TRUE]
  /\ chatSdk' = IF chat.agent THEN Give(chatSdk, <<ToolPart("finish", 0)>>) ELSE SdkEnds(chatSdk, chat.remote)
  /\ chatChain' = ChainEnds(chatChain)

ChatNext ==
  \/ \E kind \in {"text", "reasoning"}, id \in MessageIds : Says(kind, id)
  \/ \E args \in {<<>>, <<Piece>>}, content \in {<<>>, <<Content("text", 0, Piece)>>} : Starts(args, content)
  \/ StartsTwo
  \/ \E k \in DOMAIN chat.calls, withId \in BOOLEAN : GoesOn(k, withId)
  \/ \E reason \in {"stop", "tool-calls"}, usage \in BOOLEAN : Finishes(reason, usage)
  \/ CountsUsage
  \/ Garbles
  \/ Hangup

ChatSpec == ChatInit /\ [][ChatNext]_chatVars
-----------------------------------------------------------------------------
GivenParts == chatSdk.stage.received
AllOf(group, step, id) == PartsOf(GivenParts, group, step, id)

(* The pieces of a text before anything else came.                           *)
Lead(kind, id) ==
  LET is(n) == chat.log[n].kind = kind /\ chat.log[n].id = id
      lead(n) == \A m \in 1..n : (\E f \in 1..m : is(f)) => is(m)
  IN  [n \in DOMAIN chat.log |-> IF is(n) /\ lead(n) THEN <<chat.log[n].piece>> ELSE <<>>]

(* The AI SDK shows a text up to the first thing that comes in between,       *)
(* once and in order; LangChain shows all of it.                             *)
ChatTextsArrive ==
  /\ BlocksNest(GivenParts)
  /\ \A kind \in {"text", "reasoning"}, id \in MessageIds :
       TextOf(GivenParts, kind, id) = FlattenSeq(Lead(kind, id))
  /\ FlattenSeq([n \in DOMAIN chatChain.chunks |-> chatChain.chunks[n].content])
       = SelectSeq(chat.log, LAMBDA c : c.kind \in {"text", "reasoning"})

(* Every call arrives once, with its own input, after its input has ended,    *)
(* however the pieces of parallel calls were mixed; LangChain.js gives each   *)
(* its own index.                                                            *)
ChatCallsArrive ==
  chat.over =>
    \A k \in DOMAIN chat.calls :
      LET calls == AllOf("none", "tool-call", IdAt(k))
      IN  /\ Len(calls) = 1 /\ calls[1].text = chat.calls[k]
          /\ \E n \in DOMAIN JsCalls(GivenParts) :
               JsCalls(GivenParts)[n] = [id |-> IdAt(k), text |-> chat.calls[k], index |-> k - 1]
          /\ Len(JsCalls(GivenParts)) = Len(chat.calls)
          /\ ~chat.agent =>
               /\ FlattenSeq([n \in DOMAIN AllOf("none", "tool-input-delta", IdAt(k)) |->
                                AllOf("none", "tool-input-delta", IdAt(k))[n].text]) = chat.calls[k]
               /\ Len(AllOf("none", "tool-input-end", IdAt(k))) = 1
               /\ calls[1].provider = chat.remote

(* LangChain puts the pieces of a call together by index, as the answer       *)
(* without streaming has it.                                                 *)
PiecesAt(k) ==
  FlattenSeq([n \in DOMAIN chatChain.chunks |->
    FlattenSeq([i \in DOMAIN chatChain.chunks[n].deltas |->
      IF chatChain.chunks[n].deltas[i].call = k THEN chatChain.chunks[n].deltas[i].args ELSE <<>>])])

ChainCallsArrive == ~chat.agent => \A k \in DOMAIN chat.calls : PiecesAt(k) = chat.calls[k]

(* Usage that comes in a chunk of its own is counted once, and the reason     *)
(* for the end is told if that chunk or an error did not come after it.       *)
ChatEndIsTold ==
  chat.over =>
    /\ chat.usages > 0 => chatChain.chunks[Len(chatChain.chunks)].usage
    /\ chat.apart => \A n \in 1..Len(chatChain.chunks) - 1 : ~chatChain.chunks[n].usage
    /\ chat.told => chatSdk.finish = chat.finish

(* None of the clients loses, repeats or mixes up what a model or a ChatAgent *)
(* streams.                                                                  *)
ChatsArrive == ChatTextsArrive /\ ChatCallsArrive /\ ChainCallsArrive /\ ChatEndIsTold
=============================================================================
