------------------------------ MODULE SdkParts ------------------------------
(***************************************************************************)
(* The parts of a streamed answer as the AI SDK provider hands them on:     *)
(* the model interfaces below it produce text and reasoning deltas, this    *)
(* stage puts them into blocks with a start and an end, and LangChain.js    *)
(* turns what comes out into chunks of a message.                           *)
(***************************************************************************)
EXTENDS Naturals, Sequences
LOCAL INSTANCE SequencesExt
LOCAL INSTANCE Functions
LOCAL INSTANCE TLC

(* group: text or reasoning for the parts of a block, none for any other.   *)
Part(group, step, id, text) ==
  [group |-> group, step |-> step, id |-> id, text |-> text, provider |-> FALSE]

DeltaPart(group, id, text) == Part(group, "delta", id, text)
ToolPart(step, id)         == Part("none", step, id, <<>>)

IsDelta(p)  == p.step = "delta" /\ p.group # "none"
StartOf(p)  == Part(p.group, "start", p.id, <<>>)
EndOf(p)    == Part(p.group, "end", p.id, <<>>)
BlockKey(p)      == <<p.group, p.id>>
NoPart      == Part("none", "none", 0, <<>>)

(* What the stage remembers, and what it handed on.                          *)
NoStage == [last |-> NoPart, ended |-> {}, received |-> <<>>]

(* A delta that does not continue the last part ends its block and begins one. *)
Boundary(last, p) ==
  IF IsDelta(last) /\ IsDelta(p) /\ BlockKey(last) = BlockKey(p) THEN <<p>>
  ELSE (IF IsDelta(last) THEN <<EndOf(last)>> ELSE <<>>)
       \o (IF IsDelta(p) THEN <<StartOf(p), p>> ELSE <<p>>)

(* A block is over for good once it was ended: a text that comes again       *)
(* whole, when its item is done, finds it so.                                *)
PassOn(stage, p) ==
  IF p.group # "none" /\ BlockKey(p) \in stage.ended THEN stage
  ELSE [stage EXCEPT !.ended = IF p.group # "none" /\ p.step = "end" THEN @ \cup {BlockKey(p)} ELSE @,
                     !.received = Append(@, p)]

HandOn(stage, p) ==
  LET out == Boundary(stage.last, p)
  IN  [FoldLeft(PassOn, stage, out) EXCEPT !.last = Last(out)]

HandOnAll(stage, parts) == FoldLeft(HandOn, stage, parts)

Give(s, parts) == [s EXCEPT !.stage = HandOnAll(s.stage, parts)]
Provided(p)    == [p EXCEPT !.provider = TRUE]
-----------------------------------------------------------------------------
(* What a consumer makes of the parts it received                            *)

PartsOf(received, group, step, id) ==
  SelectSeq(received, LAMBDA p : p.group = group /\ p.step = step /\ p.id = id)

TextOf(received, group, id) ==
  FlattenSeq([k \in DOMAIN PartsOf(received, group, "delta", id) |-> PartsOf(received, group, "delta", id)[k].text])

(* Deltas come inside their block, and the text of an id has one block.      *)
BlockOpen(received, key) ==
  LET marks == SelectSeq(received, LAMBDA p : BlockKey(p) = key /\ p.step \in {"start", "end"})
  IN  marks # <<>> /\ Last(marks).step = "start"

BlocksNest(received) ==
  \A n \in DOMAIN received :
    /\ IsDelta(received[n]) => BlockOpen(SubSeq(received, 1, n), BlockKey(received[n]))
    /\ received[n].step = "end" => BlockOpen(SubSeq(received, 1, n - 1), BlockKey(received[n]))

(* convertStreamTextResultToChunks: the calls of a message are put together  *)
(* by index; a call whose input was streamed got its index when it started.  *)
JsStep(js, p) ==
  CASE p.step = "tool-input-start" -> [js EXCEPT !.index = (p.id :> js.next) @@ @, !.next = @ + 1]
    [] p.step = "tool-call"        ->
         LET known == p.id \in DOMAIN js.index
         IN  [js EXCEPT !.chunks = Append(@, [id |-> p.id, text |-> p.text,
                                              index |-> IF known THEN js.index[p.id] ELSE js.next]),
                        !.next = IF known THEN @ ELSE @ + 1]
    [] OTHER                       -> js

JsMessage(received) == FoldLeft(JsStep, [index |-> <<>>, next |-> 0, chunks |-> <<>>], received)
JsCalls(received)   == JsMessage(received).chunks
=============================================================================
