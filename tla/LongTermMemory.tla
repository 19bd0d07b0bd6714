--------------------------- MODULE LongTermMemory ---------------------------
(***************************************************************************)
(* The memory tools of an agent at one actor and path: remember appends a   *)
(* fact, forget takes it out of every memory at the path.  Both are         *)
(* read-modify-writes over a REST service whose create is the only          *)
(* conditional write, used by several agents at once; a call can fail       *)
(* before or after it took effect, and writes are not retried.              *)
(***************************************************************************)
EXTENDS Naturals

CONSTANTS Agents, Facts,
          Scopings,       \* the session a memory is saved under, or none
          MaxMemories,    \* bound: memories ever created
          MaxUpdates      \* bound: updates ever made

VARIABLES memory,     \* memory[s]: the entry at the path saved under s; its lines, how
                      \* often each fact is one of them
          created,    \* entries ever created
          updated,    \* updates ever made
          tool,       \* tool[a]: the call agent a makes
          known,      \* known[s]: the facts remembered and not forgotten
          overwrote   \* an update replaced content it had not read

memoryVars == <<memory, created, updated, tool, known, overwrote>>

NoLines == [f \in Facts |-> 0]
NoMemory == [id |-> 0, lines |-> NoLines]
NoTool == [pc |-> "idle", fact |-> "none", scopes |-> {},
           tries |-> 0,        \* attempts of put
           read |-> [s \in Scopings |-> NoMemory],  \* what find or list returned and is to be edited
           removed |-> FALSE,
           gone |-> 0,         \* deletes by others during the call
           reply |-> "none"]

MemoryInit ==
  /\ memory = [s \in Scopings |-> NoMemory]
  /\ created = 0 /\ updated = 0
  /\ tool = [a \in Agents |-> NoTool]
  /\ known = [s \in Scopings |-> {}]
  /\ overwrote = FALSE

MemorySame == UNCHANGED <<memory, created, updated, known, overwrote>>
StepTool(a, call) == tool' = [tool EXCEPT ![a] = call]
Replied(a, reply) == [tool[a] EXCEPT !.pc = "replied", !.reply = reply, !.read = NoTool.read, !.scopes = {}]

-----------------------------------------------------------------------------
(* remember(fact, topic), or put(append=True) with a session.              *)
Remember(a, fact, s) ==
  /\ tool[a].pc = "idle"
  /\ StepTool(a, [NoTool EXCEPT !.pc = "create", !.fact = fact, !.scopes = {s}, !.tries = 1])
  /\ MemorySame

(* create_memory_entry: fails with ALREADY_EXISTS if there is one.         *)
CreateMemory(a) ==
  \E s \in tool[a].scopes :
    /\ tool[a].pc = "create"
    /\ IF memory[s] # NoMemory
       THEN MemorySame /\ StepTool(a, [tool[a] EXCEPT !.pc = "find"])
       ELSE /\ created < MaxMemories
            /\ created' = created + 1
            /\ memory' = [memory EXCEPT ![s] = [id |-> created + 1, lines |-> [NoLines EXCEPT ![tool[a].fact] = 1]]]
            /\ known' = [known EXCEPT ![s] = known[s] \cup {tool[a].fact}]
            /\ StepTool(a, Replied(a, "remembered"))
            /\ UNCHANGED <<updated, overwrote>>

PutAttempts == 2

(* _put_memory: what was in the way may be gone by now, so create once more. *)
FindMemory(a) ==
  \E s \in tool[a].scopes :
    /\ tool[a].pc = "find"
    /\ MemorySame
    /\ StepTool(a,
         IF memory[s] # NoMemory THEN [tool[a] EXCEPT !.pc = "append", !.read = [NoTool.read EXCEPT ![s] = memory[s]]]
         ELSE IF tool[a].tries = PutAttempts THEN Replied(a, "aborted")
         ELSE [tool[a] EXCEPT !.pc = "create", !.tries = tool[a].tries + 1])

(* The PATCH replaces the content of the entry that still has the id.      *)
Overwrite(s, old, lines) ==
  /\ updated < MaxUpdates
  /\ updated' = updated + 1
  /\ memory' = [memory EXCEPT ![s] = [id |-> old.id, lines |-> lines]]
  /\ overwrote' = (overwrote \/ memory[s] # old)
  /\ UNCHANGED created

(* _overwrite_or_append: a line the content has is not added again.        *)
Appending_Blindly(lines, fact) == [lines EXCEPT ![fact] = @ + 1]
Appending(lines, fact) ==
  IF lines[fact] > 0 THEN lines ELSE [lines EXCEPT ![fact] = 1]

AppendFact(a) ==
  \E s \in tool[a].scopes :
    LET old   == tool[a].read[s]
        lines == Appending(old.lines, tool[a].fact)
    IN  /\ tool[a].pc = "append"
        /\ IF lines = old.lines
           THEN MemorySame /\ StepTool(a, Replied(a, "known"))
           ELSE IF memory[s].id # old.id
           THEN MemorySame /\ StepTool(a, Replied(a, "error"))
           ELSE /\ Overwrite(s, old, lines)
                /\ known' = [known EXCEPT ![s] = known[s] \cup {tool[a].fact}]
                /\ StepTool(a, Replied(a, "remembered"))
-----------------------------------------------------------------------------
(* forget(fact, topic, session): the memories at the path, of one session  *)
(* or of all, are listed once and edited one after the other.              *)
Forget(a, fact, scopes) ==
  LET found == {s \in scopes : memory[s] # NoMemory}
  IN  /\ tool[a].pc = "idle"
      /\ MemorySame
      /\ StepTool(a,
           IF found = {}
           THEN [NoTool EXCEPT !.pc = "replied", !.reply = "nothing"]
           ELSE [NoTool EXCEPT !.pc = "forget", !.fact = fact, !.scopes = found,
                               !.read = [s \in Scopings |-> IF s \in found THEN memory[s] ELSE NoMemory]])

(* The memory of s is empty now: it is deleted, under the eyes of whoever   *)
(* is about to create or to find it.                                       *)
Deleted(a, s, next) ==
  /\ memory' = [memory EXCEPT ![s] = NoMemory]
  /\ tool' = [b \in Agents |->
       IF b = a THEN next
       ELSE IF tool[b].pc \in {"create", "find"} /\ s \in tool[b].scopes /\ tool[b].gone < 2
       THEN [tool[b] EXCEPT !.gone = tool[b].gone + 1]
       ELSE tool[b]]

ForgetFact(a) ==
  \E s \in tool[a].scopes :
    LET call == tool[a]
        old  == call.read[s]
        kept == [old.lines EXCEPT ![call.fact] = 0]
        next == [call EXCEPT !.scopes = call.scopes \ {s}, !.read = [call.read EXCEPT ![s] = NoMemory],
                             !.removed = TRUE]
    IN  /\ call.pc = "forget"
        /\ IF kept = old.lines
           THEN MemorySame /\ StepTool(a, [next EXCEPT !.removed = call.removed])
           ELSE IF memory[s].id # old.id
           THEN MemorySame /\ StepTool(a, Replied(a, "error"))
           ELSE /\ known' = [known EXCEPT ![s] = known[s] \ {call.fact}]
                /\ IF kept # NoLines
                   THEN Overwrite(s, old, kept) /\ StepTool(a, next)
                   ELSE /\ overwrote' = (overwrote \/ memory[s] # old)
                        /\ UNCHANGED <<created, updated>>
                        /\ Deleted(a, s, next)

ForgetReply(a) ==
  /\ tool[a].pc = "forget"
  /\ tool[a].scopes = {}
  /\ StepTool(a, Replied(a, IF tool[a].removed THEN "forgot" ELSE "nothing"))
  /\ MemorySame

(* The reply reaches the model, or the call fails on its way.              *)
EndTool(a) ==
  /\ tool[a].pc # "idle"
  /\ StepTool(a, NoTool)
  /\ MemorySame

MemoryNext ==
  \E a \in Agents :
    \/ \E fact \in Facts, s \in Scopings : Remember(a, fact, s)
    \/ \E fact \in Facts, scopes \in {Scopings} \cup {{s} : s \in Scopings} : Forget(a, fact, scopes)
    \/ CreateMemory(a) \/ FindMemory(a) \/ AppendFact(a)
    \/ ForgetFact(a) \/ ForgetReply(a) \/ EndTool(a)

MemorySpec == MemoryInit /\ [][MemoryNext]_memoryVars
-----------------------------------------------------------------------------
(* However often a fact is remembered, after lost replies and by agents    *)
(* side by side, a memory holds it once.                                   *)
FactsAppearOnce ==
  \A s \in Scopings, f \in Facts : memory[s].lines[f] <= 1

(* Until an update replaces content it had not read, the memories hold     *)
(* exactly what was remembered and not forgotten.                          *)
FactsAreKept ==
  overwrote \/ \A s \in Scopings : {f \in Facts : memory[s].lines[f] > 0} = known[s]

(* remember gives up only if other agents deleted the memory twice while   *)
(* it tried, as its hint to retry says.                                    *)
AbortedByOthers ==
  \A a \in Agents : tool[a].reply = "aborted" => tool[a].gone >= 2

MemoryIsSound == FactsAppearOnce /\ FactsAreKept /\ AbortedByOthers
=============================================================================
