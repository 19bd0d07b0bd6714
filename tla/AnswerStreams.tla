---------------------------- MODULE AnswerStreams ----------------------------
(***************************************************************************)
(* An agent streams its answer as items of the Responses API, and two        *)
(* clients turn the events into a message: the AI SDK provider               *)
(* (DatabricksResponsesAgentLanguageModel) and LangChain (ChatDatabricks).   *)
(* The text of a message may come piece by piece, whole when its item is     *)
(* done, or both, and what is done may be worded with footnotes where the    *)
(* stream had annotations.  Several agents may speak in one answer.          *)
(***************************************************************************)
EXTENDS SdkParts, FiniteSets
LOCAL INSTANCE SequencesExt

CONSTANTS Pieces,       \* pieces of text
          MaxItems,     \* bound: items of the answer
          MaxEvents     \* bound: events of the stream

VARIABLES answer,   \* what the agent sent
          sdk,      \* the AI SDK's side
          chain     \* LangChain's side

answerVars == <<answer, sdk, chain>>

Footnote == "footnote"
Earlier  == 0               \* a call of the previous messages, approved since
Unknown  == MaxItems + 1    \* a call nobody made

NoItem == [kind |-> "none", text |-> <<>>, open |-> FALSE, streamed |-> FALSE, call |-> 0,
           late |-> FALSE,      \* a piece came after something else
           mixed |-> FALSE,     \* another text came while it was under way
           apart |-> FALSE]     \* anything else did

NoSdk == [stage |-> NoStage,
          blocks |-> <<>>, current |-> <<>>,          \* texts since the last whole one
          calls |-> {}, approvals |-> {}, results |-> {},
          finish |-> "stop", failed |-> FALSE]
NoChain == [prev |-> 0,                               \* the item whose delta was converted last
            chunks |-> <<>>, usage |-> FALSE, failed |-> FALSE]

AnswerInit ==
  /\ \E remote \in BOOLEAN : answer = [items |-> <<>>, last |-> 0, sent |-> 0, over |-> FALSE, remote |-> remote]
  /\ sdk = NoSdk /\ chain = NoChain

Items    == DOMAIN answer.items
IsText(k) == answer.items[k].kind = "message"
Told(text) == SelectSeq(text, LAMBDA piece : piece # Footnote)
-----------------------------------------------------------------------------
(* convertResponsesAgentChunkToMessagePart                                   *)

Called(k, remote) == IF remote THEN Provided(ToolPart("tool-call", k)) ELSE ToolPart("tool-call", k)

DoneParts(item, k, remote) ==
  CASE item.kind = "message"   -> <<DeltaPart("text", k, item.text)>>
    [] item.kind = "reasoning" -> <<Part("reasoning", "start", k, <<>>), DeltaPart("reasoning", k, item.text),
                                    Part("reasoning", "end", k, <<>>)>>
    [] item.kind = "call"      -> <<Called(k, remote)>>
    [] item.kind = "approval"  -> <<Provided(ToolPart("tool-call", k)), ToolPart("tool-approval-request", k)>>
    [] OTHER                   -> <<ToolPart("tool-result", item.call)>>

(* e: the event, item: the item it is about.                                 *)
PartsOfEvent(e, item, remote) ==
  CASE e.type = "delta"      -> <<DeltaPart(IF item.kind = "message" THEN "text" ELSE "reasoning", e.item, <<e.piece>>)>>
    [] e.type = "annotation" -> <<ToolPart("source", e.item)>>
    [] e.type = "done"       -> DoneParts(item, e.item, remote)
    [] OTHER                 -> <<ToolPart("error", 0)>>
-----------------------------------------------------------------------------
(* shouldDedupeOutputItemDone                                                *)

(* Where a block that is looked for after `from` ends, past the text: nowhere. *)
FoundAt(text, block, from) ==
  LET at == {n \in from..Len(text) - Len(block) : SubSeq(text, n + 1, n + Len(block)) = block}
  IN  IF at = {} THEN Len(text) + 1 ELSE (CHOOSE n \in at : \A m \in at : n <= m) + Len(block)

AllFound(text, blocks) ==
  FoldLeft(LAMBDA from, block : FoundAt(text, block, from), 0, blocks) <= Len(text)

Streamed(s) == IF s.current = <<>> THEN s.blocks ELSE Append(s.blocks, s.current)

(* A whole text repeats the stream if it has all the texts since the last    *)
(* whole one, in their order.                                                *)
IsRepeat(s, text) == Streamed(s) # <<>> /\ AllFound(text, Streamed(s))

(* What is remembered of an event's parts: a whole text starts afresh, any   *)
(* other part ends the block of text.                                        *)
Remember_AcrossItems(s, whole, parts) ==
  IF parts[1].group = "text" /\ ~whole THEN [s EXCEPT !.current = s.current \o parts[1].text]
  ELSE [s EXCEPT !.blocks = Streamed(s), !.current = <<>>]

Remember(s, whole, parts) ==
  IF whole THEN [s EXCEPT !.blocks = <<>>, !.current = <<>>]
  ELSE IF parts[1].group = "text" THEN [s EXCEPT !.current = s.current \o parts[1].text]
  ELSE [s EXCEPT !.blocks = Streamed(s), !.current = <<>>]
-----------------------------------------------------------------------------
(* DatabricksResponsesAgentLanguageModel.doStream                            *)

Noted(s, e, item) ==
  IF e.type # "done" THEN s
  ELSE CASE item.kind = "call"     -> [s EXCEPT !.calls = s.calls \cup {e.item}]
         [] item.kind = "approval" -> [s EXCEPT !.calls = s.calls \cup {e.item}, !.approvals = s.approvals \cup {e.item}]
         [] item.kind = "result"   -> [s EXCEPT !.results = s.results \cup {item.call}]
         [] OTHER                  -> s

(* The result of a call that is not in the stream brings the call of the     *)
(* previous messages along.                                                  *)
BroughtAlong(s, e, item) ==
  IF e.type = "done" /\ item.kind = "result" /\ item.call \notin s.calls
  THEN <<Provided(ToolPart("tool-call", item.call))>> ELSE <<>>

Orphan(s, e, item) == e.type = "done" /\ item.kind = "result" /\ item.call \notin s.calls \cup {Earlier}

SdkChunk(s, e, item, remote) ==
  LET parts == PartsOfEvent(e, item, remote)
      whole == e.type = "done" /\ item.kind = "message"
      known == Remember(Noted(s, e, item), whole, parts)
  IN  IF s.failed THEN s
      ELSE CASE e.type = "completed"   -> [s EXCEPT !.finish = IF s.calls = {} THEN "stop" ELSE "tool-calls"]
             [] e.type = "unreadable"  -> [Give(s, parts) EXCEPT !.finish = "error"]
             [] Orphan(s, e, item)     -> [known EXCEPT !.failed = TRUE]
             [] whole /\ IsRepeat(s, item.text) -> known
             [] OTHER                  -> Give(known, BroughtAlong(s, e, item) \o parts)

(* At the end a call without a result is given once more, as one that the    *)
(* provider executes, so that nobody waits for the client to run it.         *)
Unanswered(s) == (s.calls \ s.approvals) \ s.results

SdkFlush(s, remote) ==
  IF s.failed THEN s
  ELSE LET again == IF remote THEN {} ELSE Unanswered(s)
       IN  Give(s, [n \in 1..Cardinality(again) |-> Provided(ToolPart("tool-call", SetToSortSeq(again, <)[n]))]
                   \o <<ToolPart("finish", 0)>>)
-----------------------------------------------------------------------------
(* ChatDatabricks._stream and _convert_responses_api_chunk_to_lc_chunk       *)

LcChunk(kind, id, text) == [kind |-> kind, id |-> id, text |-> text]

(* A whole text that follows its own deltas is a repeat, but for annotations. *)
Skips(c, k) == c.prev = k

LcOf(c, e, item) ==
  CASE e.type = "delta" /\ item.kind = "message" -> <<LcChunk("text", e.item, <<e.piece>>)>>
    [] e.type = "done" /\ item.kind = "message"  ->
         IF ~Skips(c, e.item) THEN <<LcChunk("text", e.item, Told(item.text))>>
         ELSE IF Told(item.text) # item.text THEN <<LcChunk("annotations", e.item, <<>>)>>
         ELSE <<>>
    [] e.type = "done" /\ item.kind # "message"  -> <<LcChunk(item.kind, IF item.kind = "result" THEN item.call ELSE e.item, <<>>)>>
    [] OTHER                                     -> <<>>

ChainChunk(c, e, item) ==
  LET new == LcOf(c, e, item)
  IN  IF c.failed THEN c
      ELSE IF e.type = "error" THEN [c EXCEPT !.failed = TRUE]
      ELSE [c EXCEPT !.chunks = c.chunks \o new,
                     !.prev = IF new = <<>> THEN c.prev ELSE IF e.type = "delta" THEN e.item ELSE 0,
                     !.usage = c.usage \/ e.type = "completed"]

ChainEnd(c) ==
  IF c.usage /\ ~c.failed THEN [c EXCEPT !.chunks = Append(c.chunks, LcChunk("usage", 0, <<>>))] ELSE c
-----------------------------------------------------------------------------
(* The agent                                                                 *)

Event(type, k, piece) == [type |-> type, item |-> k, piece |-> piece]

(* What an event means to the items under way besides its own.               *)
Mixed(items, e) ==
  [k \in DOMAIN items |->
    IF k = e.item \/ ~items[k].open THEN items[k]
    ELSE [items[k] EXCEPT !.apart = TRUE, !.mixed = @ \/ (e.item # 0 /\ items[e.item].kind = "message")]]

Send(items, e) ==
  LET item == IF e.item \in DOMAIN items THEN items[e.item] ELSE NoItem
  IN  /\ ~answer.over /\ answer.sent < MaxEvents
      /\ answer' = [answer EXCEPT !.items = Mixed(items, e), !.sent = answer.sent + 1, !.last = e.item]
      /\ sdk' = SdkChunk(sdk, e, item, answer.remote)
      /\ chain' = ChainChunk(chain, e, item)

UnderWay == \E k \in Items : IsText(k) /\ answer.items[k].open
NewItem(item) == Append(answer.items, [item EXCEPT !.mixed = UnderWay])
New == Len(answer.items) + 1

Begin(kind, piece) ==
  /\ New <= MaxItems
  /\ Send(NewItem([NoItem EXCEPT !.kind = kind, !.text = <<piece>>, !.open = TRUE, !.streamed = TRUE]),
          Event("delta", New, piece))

GoOn(k, piece) ==
  /\ answer.items[k].open
  /\ Send([answer.items EXCEPT ![k] =
             [@ EXCEPT !.text = Append(@, piece),
                       !.late = @ \/ answer.last # k \/ Last(answer.items[k].text) = Footnote]],
          Event("delta", k, piece))

(* An annotation: the whole text will have a footnote there.                 *)
Annotate(k) ==
  /\ answer.items[k].open /\ IsText(k)
  /\ Send([answer.items EXCEPT ![k] = [@ EXCEPT !.text = Append(@, Footnote)]], Event("annotation", k, Footnote))

EndItem(k) ==
  /\ answer.items[k].open
  /\ Send([answer.items EXCEPT ![k] = [@ EXCEPT !.open = FALSE]], Event("done", k, Footnote))

(* An item that comes whole.                                                 *)
Whole(kind, text, call) ==
  /\ New <= MaxItems
  /\ Send(NewItem([NoItem EXCEPT !.kind = kind, !.text = text, !.call = call]), Event("done", New, Footnote))

WholeText(kind, piece) == Whole(kind, <<piece>>, 0)
Calls(kind) == Whole(kind, <<>>, 0)
Result(c)   == Whole("result", <<>>, c)
Callable == {k \in Items : answer.items[k].kind \in {"call", "approval"}} \cup {Earlier, Unknown}

Bare(type) == Send(answer.items, Event(type, 0, Footnote))

Close ==
  /\ ~answer.over
  /\ answer' = [answer EXCEPT !.over = TRUE]
  /\ sdk' = SdkFlush(sdk, answer.remote) /\ chain' = ChainEnd(chain)

AnswerNext ==
  \/ \E kind \in {"message", "reasoning"}, piece \in Pieces : Begin(kind, piece) \/ WholeText(kind, piece)
  \/ \E k \in Items : (\E piece \in Pieces : GoOn(k, piece)) \/ Annotate(k) \/ EndItem(k)
  \/ \E kind \in {"call", "approval"} : Calls(kind)
  \/ \E c \in Callable : Result(c)
  \/ \E type \in {"completed", "error", "unreadable"} : Bare(type)
  \/ Close

AnswerSpec == AnswerInit /\ [][AnswerNext]_answerVars
-----------------------------------------------------------------------------
(* doGenerate: the same answer, asked for without streaming. The call leaves  *)
(* out useRemoteToolCalling.                                                 *)
WholeParts(k, remote) ==
  CASE IsText(k)                           -> <<Part("text", "whole", k, answer.items[k].text)>>
    [] answer.items[k].kind = "reasoning"  -> <<Part("reasoning", "whole", k, answer.items[k].text)>>
    [] OTHER                               -> DoneParts(answer.items[k], k, remote)

WholeAnswer == FlattenSeq([k \in Items |-> WholeParts(k, FALSE)])
WholeTextOf(k) == (CHOOSE p \in Range(WholeAnswer) : p.group = "text" /\ p.id = k).text

Received == sdk.stage.received
Count(step, id) == Len(PartsOf(Received, "none", step, id))

(* The AI SDK shows each text as the answer without streaming has it, once   *)
(* and in order, but for footnotes, which come as annotations.  A piece that  *)
(* comes after something else ended its block is lost, and a text that comes *)
(* whole while another's is under way may be taken for its repeat.           *)
TextsArriveOnce ==
  \A k \in Items :
    IsText(k) /\ ~answer.items[k].late /\ ~answer.items[k].mixed /\ ~sdk.failed
      => TextOf(Received, "text", k) = Told(WholeTextOf(k))

(* Deltas come inside the one block of their item, and no block is left open. *)
BlocksAreWhole ==
  /\ BlocksNest(Received)
  /\ \A k \in Items : Len(PartsOf(Received, "text", "start", k)) <= 1
  /\ answer.over /\ ~sdk.failed =>
       \A k \in Items, group \in {"text", "reasoning"} : ~BlockOpen(Received, <<group, k>>)

(* A result comes after its call, and nobody waits for the client to run a    *)
(* call that the agent did not answer.                                       *)
ToolsAreSettled ==
  /\ \A k \in Items \cup {Earlier} : Count("tool-result", k) > 0 => Count("tool-call", k) > 0
  /\ answer.over /\ ~sdk.failed =>
       \A p \in Range(Received) : p.step = "tool-call" =>
         \/ Count("tool-result", p.id) > 0
         \/ \E q \in Range(Received) : q.step = "tool-call" /\ q.id = p.id /\ q.provider

(* LangChain shows each text once if nothing came between it and its end,     *)
(* each call once, and the usage once.                                       *)
ChainTexts(k) ==
  FlattenSeq([n \in DOMAIN chain.chunks |->
    IF chain.chunks[n].kind = "text" /\ chain.chunks[n].id = k THEN chain.chunks[n].text ELSE <<>>])

ChainShowsOnce ==
  ~chain.failed =>
    /\ \A k \in Items : IsText(k) /\ ~answer.items[k].apart => ChainTexts(k) = Told(answer.items[k].text)
    /\ \A n, m \in DOMAIN chain.chunks :
         n # m /\ chain.chunks[n].kind \in {"call", "usage"} => chain.chunks[n] # chain.chunks[m]

(* Neither client loses, repeats or reorders what the agent said.             *)
AnswersArrive == TextsArriveOnce /\ BlocksAreWhole /\ ToolsAreSettled /\ ChainShowsOnce
=============================================================================
