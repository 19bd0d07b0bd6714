----------------------------- MODULE Transcript -----------------------------
(***************************************************************************)
(* DatabricksSessionStore: the OpenAI Agents session of one conversation    *)
(* over the Session Store.  The store has no pop, so pop_item lists the     *)
(* transcript, clears it and appends all of it but the last item.  Several  *)
(* processes use the session: the agent's runs, a run that was taken over   *)
(* and goes on, and a UI that shows the conversation.  Any call can fail    *)
(* before or after it took effect.  The other client of the same store is   *)
(* Checkpointer; they share no session.                                     *)
(***************************************************************************)
EXTENDS Checkpointer

CONSTANTS Speakers,    \* processes that use the session
          MaxSaid      \* bound: items ever added, pops' appends not counted

VARIABLES talk,        \* the session that holds the transcript
          speaker,     \* speaker[p]: the operation process p is in
          said,        \* the transcript the operations add up to
          lastSaid,    \* items added so far
          disturbed    \* a pop was cut short or overtaken

transcriptVars == <<talk, speaker, said, lastSaid, disturbed>>

Resting == [pc |-> "idle", op |-> "get", list |-> Listing,
           from |-> <<>>,      \* the transcript when a read began
           blurred |-> FALSE]  \* a pop or a clear overlapped the read

TranscriptInit ==
  /\ talk = NoLog
  /\ speaker = [p \in Speakers |-> Resting]
  /\ said = <<>> /\ lastSaid = 0
  /\ disturbed = FALSE

Transcribed == [k \in DOMAIN talk.log |-> talk.log[k].data]

(* Pops between their listing and the end of what it was for.              *)
Popping(p) == speaker[p].op = "pop" /\ speaker[p].pc \in {"read", "clear", "restore"}
Overtaken(p) == \E q \in Speakers \ {p} : Popping(q)
Gap == \E q \in Speakers : speaker[q].pc = "restore"

AfterResolving == [get |-> "read", pop |-> "read", add |-> "add", clear |-> "wipe"]
-----------------------------------------------------------------------------
(* The first call of an operation: _resolve gets the session or creates it; *)
(* of two processes that both missed it one fails.  Bound: the model takes  *)
(* no operation further once the transcript is disturbed.                   *)
BeginSaying(p, op) ==
  /\ speaker[p].pc = "idle"
  /\ ~disturbed
  /\ speaker' = [speaker EXCEPT ![p] =
       [Resting EXCEPT !.op = op,
                      !.pc = IF talk.exists THEN AfterResolving[op] ELSE "create",
                      !.from = said, !.blurred = Gap]]
  /\ UNCHANGED <<talk, said, lastSaid, disturbed>>

CreateTalk(p) ==
  /\ speaker[p].pc = "create"
  /\ speaker' = [speaker EXCEPT ![p] =
       IF talk.exists THEN Resting ELSE [speaker[p] EXCEPT !.pc = AfterResolving[speaker[p].op]]]
  /\ talk' = Opened(talk)
  /\ UNCHANGED <<said, lastSaid, disturbed>>

(* _read_items, a page at a time.                                          *)
ListTalk(p) ==
  LET list == NextPage(speaker[p].list, talk)
      last == LastPage(talk, speaker[p].list.token)
  IN  /\ speaker[p].pc = "read"
      /\ speaker' = [speaker EXCEPT ![p] =
           [speaker[p] EXCEPT !.list = list,
                              !.pc = IF ~last THEN "read"
                                     ELSE IF speaker[p].op = "get" THEN "shown"
                                     ELSE IF list.got = <<>> THEN "idle" ELSE "clear"]]
      /\ UNCHANGED <<talk, said, lastSaid, disturbed>>

(* get_items returns; the caller takes the last few or all.                *)
Shown(p) ==
  /\ speaker[p].pc = "shown"
  /\ speaker' = [speaker EXCEPT ![p] = Resting]
  /\ UNCHANGED <<talk, said, lastSaid, disturbed>>

(* add_items: one append of new items.                                     *)
AddItems(p, count) ==
  LET new == [k \in 1..count |-> lastSaid + k]
  IN  /\ speaker[p].pc = "add"
      /\ lastSaid + count <= MaxSaid
      /\ talk' = Appended(talk, new)
      /\ said' = said \o new
      /\ lastSaid' = lastSaid + count
      /\ disturbed' = (disturbed \/ Overtaken(p))
      /\ speaker' = [speaker EXCEPT ![p] = Resting]

Blurred(p) == [q \in Speakers |-> IF q = p THEN speaker[q]
                                  ELSE [speaker[q] EXCEPT !.blurred = (speaker[q].pc # "idle")]]

ClearSession(p) ==
  /\ speaker[p].pc = "wipe"
  /\ talk' = Cleared(talk)
  /\ said' = <<>>
  /\ disturbed' = (disturbed \/ Overtaken(p))
  /\ speaker' = [Blurred(p) EXCEPT ![p] = Resting]
  /\ UNCHANGED lastSaid

(* pop_item: clear, and unless the popped item was the only one, append    *)
(* the others.                                                             *)
Kept_Tail(items) == SubSeq(items, 2, Len(items))
Kept(items) == SubSeq(items, 1, Len(items) - 1)

PopClear(p) ==
  LET kept == Kept(speaker[p].list.got)
  IN  /\ speaker[p].pc = "clear"
      /\ talk' = Cleared(talk)
      /\ disturbed' = (disturbed \/ Overtaken(p))
      /\ speaker' = [Blurred(p) EXCEPT ![p] =
           IF kept = <<>> THEN Resting ELSE [speaker[p] EXCEPT !.pc = "restore"]]
      /\ said' = IF kept = <<>> THEN <<>> ELSE said
      /\ UNCHANGED lastSaid

PopRestore(p) ==
  /\ speaker[p].pc = "restore"
  /\ talk' = Appended(talk, Kept(speaker[p].list.got))
  /\ said' = IF said = <<>> THEN <<>> ELSE SubSeq(said, 1, Len(said) - 1)
  /\ speaker' = [Blurred(p) EXCEPT ![p] = Resting]
  /\ UNCHANGED <<lastSaid, disturbed>>

(* A call fails, before it took effect or after, or the process dies.      *)
StopSaying(p) ==
  /\ speaker[p].pc # "idle"
  /\ speaker' = [speaker EXCEPT ![p] = Resting]
  /\ disturbed' = (disturbed \/ speaker[p].pc = "restore")
  /\ UNCHANGED <<talk, said, lastSaid>>

TranscriptNext ==
  \E p \in Speakers :
    \/ \E op \in DOMAIN AfterResolving : BeginSaying(p, op)
    \/ CreateTalk(p) \/ ListTalk(p) \/ Shown(p) \/ ClearSession(p)
    \/ \E count \in 1..2 : AddItems(p, count)
    \/ PopClear(p) \/ PopRestore(p) \/ StopSaying(p)

TranscriptSpec == TranscriptInit /\ [][TranscriptNext]_transcriptVars
-----------------------------------------------------------------------------
(* The store holds exactly what was added and neither popped nor cleared,  *)
(* in the order it was said, unless a pop was cut short after its clear or *)
(* another write fell between its listing and its append; during a pop the *)
(* transcript is empty.                                                    *)
TranscriptKept ==
  disturbed \/ Transcribed = (IF Gap THEN <<>> ELSE said)

Begins(part, whole) == \E n \in 0..Len(whole) : part = SubSeq(whole, 1, n)

(* get_items returns a transcript of the time of the call, whole and in    *)
(* order, unless a pop or a clear overlapped it.                           *)
ReadsAreWhole ==
  \A p \in Speakers :
    speaker[p].pc = "shown" /\ ~speaker[p].blurred /\ ~disturbed
      => /\ Begins(speaker[p].from, speaker[p].list.got)
         /\ Begins(speaker[p].list.got, said)

TranscriptIsWhole == TranscriptKept /\ ReadsAreWhole

(* A conversation reads back as it was saved, by the checkpointer of        *)
(* LangGraph and by the session of the OpenAI Agents SDK.                   *)
ConversationsReadBack == CheckpointReadsBack /\ TranscriptIsWhole
=============================================================================
