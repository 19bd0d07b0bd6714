---------------------------- MODULE Checkpointer ----------------------------
(***************************************************************************)
(* DatabricksSessionStoreSaver: LangGraph's checkpoints of one thread, kept *)
(* as items of one session.  A put appends the channels that changed and   *)
(* the checkpoint that names their versions; a checkpoint is put together  *)
(* again from whatever puts wrote those versions.  Several processes run   *)
(* the thread, one after the other or, after a take-over, side by side;    *)
(* any call can fail before or after it took effect, a process can crash,  *)
(* and the thread can be deleted under a run.                              *)
(***************************************************************************)
EXTENDS SessionItems, FiniteSetsExt

CONSTANTS Processes, Channels,
          MaxCheckpoints,   \* bound: checkpoints put on the thread
          MaxTasks,         \* bound: tasks of the graph
          MaxItems          \* bound: items ever stored on the thread

ASSUME SaverAssumption == MaxCheckpoints \in Nat /\ IsFiniteSet(Channels)

VARIABLES thread,    \* the session that holds the thread
          saver,     \* saver[p]: the saver of process p and the run that uses it
          written    \* written[c]: what checkpoint c was put with

saverVars == <<thread, saver, written>>

Ids   == 1..MaxCheckpoints
Tasks == 1..MaxTasks
NoVersion == [n |-> 0, nonce |-> 0]
NoValue   == 0
Blank(x)  == [ch \in Channels |-> x]

(* create: the session was not found | read: list its items                *)
(* run: the graph runs | clear: delete_thread                              *)
NoRun == [pc |-> "idle", op |-> "run", wanted |-> 0, list |-> Listing,
          base |-> 0, versions |-> Blank(NoVersion), values |-> Blank(NoValue),
          torn |-> FALSE,   \* the thread was cleared since the run began
          owed |-> {}, latest |-> 0,   \* what the thread held then
          missed |-> FALSE]            \* and whether the run was told

SaverInit ==
  /\ thread = NoLog
  /\ saver = [p \in Processes |-> NoRun]
  /\ written = [c \in Ids |-> [put |-> FALSE, values |-> Blank(NoValue), intact |-> FALSE]]

-----------------------------------------------------------------------------
Among(items) == {items[k] : k \in DOMAIN items}
Held(s, kind) == {item.data : item \in {i \in Among(s.log) : i.data.kind = kind}}

AfterResolve(op) == IF op = "run" THEN "read" ELSE "clear"

(* The first call of a run, get_tuple, or delete_thread: _resolve_session   *)
(* gets the session, or creates it if there is none; the cache of sessions  *)
(* only spares the GET.  A run may name the checkpoint it goes on from.     *)
BeginRun(p, op, wanted) ==
  /\ saver[p].pc = "idle"
  /\ wanted = 0 \/ (op = "run" /\ wanted \in {d.id : d \in Held(thread, "checkpoint")})
  /\ saver' = [saver EXCEPT ![p] =
       [NoRun EXCEPT !.op = op, !.wanted = wanted,
                     !.pc     = IF thread.exists THEN AfterResolve(op) ELSE "create",
                     !.owed   = {<<d.id, d.task>> : d \in Held(thread, "writes")},
                     !.latest = IF wanted # 0 THEN 0
                                ELSE Max({0} \cup {d.id : d \in Held(thread, "checkpoint")})]]
  /\ UNCHANGED <<thread, written>>

(* Of two processes that both missed the session one fails to create it.   *)
CreateSession(p) ==
  /\ saver[p].pc = "create"
  /\ saver' = [saver EXCEPT ![p] =
       IF thread.exists THEN NoRun
       ELSE [saver[p] EXCEPT !.pc = AfterResolve(saver[p].op)]]
  /\ thread' = Opened(thread)
  /\ UNCHANGED written

(* _read and _build_tuple: the items grouped, the wanted or the greatest   *)
(* checkpoint, and for each of its channels the value of that version.     *)
ValueOf(items, ch, version) ==
  LET at == {k \in DOMAIN items : /\ items[k].kind = "channel"
                                  /\ items[k].channel = ch
                                  /\ items[k].version = version
                                  /\ items[k].value # NoValue}
  IN  IF at = {} THEN NoValue ELSE items[Max(at)].value

Tuple(run, items) ==
  LET found   == {d \in Among(items) : /\ d.kind = "checkpoint"
                                       /\ run.wanted \in {0, d.id}}
      base    == Max({0} \cup {d.id : d \in found})
      point   == CHOOSE d \in found : d.id = base
      pending == {d.task : d \in {e \in Among(items) : e.kind = "writes" /\ e.id = base}}
      read    == [NoRun EXCEPT !.pc = "run", !.base = base, !.torn = run.torn,
                               !.missed = \/ base < run.latest
                                          \/ \E w \in run.owed : w[1] = base /\ w[2] \notin pending]
  IN  IF found = {} THEN read
      ELSE [read EXCEPT !.versions = point.versions,
                        !.values   = [ch \in Channels |-> ValueOf(items, ch, point.versions[ch])]]

(* A page of the listing.                                                  *)
ReadItems(p) ==
  LET list == NextPage(saver[p].list, thread)
  IN  /\ saver[p].pc = "read"
      /\ saver' = [saver EXCEPT ![p] =
           IF LastPage(thread, saver[p].list.token) THEN Tuple(saver[p], list.got)
           ELSE [saver[p] EXCEPT !.list = list]]
      /\ UNCHANGED <<thread, written>>
-----------------------------------------------------------------------------
(* One append: it takes effect or not, and the caller hears of it or not.  *)
(* A caller that does not fails, and its run with it.                      *)
AppendItems(p, items, applied, heard, run) ==
  /\ applied => thread.clock + Len(items) <= MaxItems
  /\ heard => applied
  /\ thread' = IF applied THEN Appended(thread, items) ELSE thread
  /\ saver' = [saver EXCEPT ![p] = IF heard THEN run ELSE NoRun]

NextVersion_Sequential(versions, id) ==
  [n |-> Max({versions[ch].n : ch \in Channels}) + 1, nonce |-> 0]
(* get_next_version: one more, with random digits that no other put draws. *)
NextVersion(versions, id) ==
  [n |-> Max({versions[ch].n : ch \in Channels}) + 1, nonce |-> id]

ChannelItem(ch, version, value) ==
  [kind |-> "channel", channel |-> ch, version |-> version, value |-> value]

(* The channels of a put, in some order.                                   *)
Listed(changed) ==
  CHOOSE f \in [1..Cardinality(changed) -> changed] : \A ch \in changed : \E k \in DOMAIN f : f[k] = ch

(* put: the channels that changed, some of them to nothing, under the id   *)
(* of the checkpoint, which grows with time.  The value a step gives a      *)
(* channel is named after its checkpoint.                                   *)
Put(p, changed, emptied, applied, heard) ==
  LET run      == saver[p]
      id       == Min({c \in Ids : ~written[c].put})
      next     == NextVersion(run.versions, id)
      versions == [ch \in Channels |-> IF ch \in changed THEN next ELSE run.versions[ch]]
      values   == [ch \in Channels |-> IF ch \in emptied THEN NoValue
                                       ELSE IF ch \in changed THEN id ELSE run.values[ch]]
      data     == [k \in 1..Cardinality(changed) |->
                     ChannelItem(Listed(changed)[k], next, values[Listed(changed)[k]])]
      point    == [kind |-> "checkpoint", id |-> id, versions |-> versions, parent |-> run.base]
  IN  /\ run.pc = "run"
      /\ \E c \in Ids : ~written[c].put
      /\ AppendItems(p, Append(data, point), applied, heard,
                     [run EXCEPT !.base = id, !.versions = versions, !.values = values,
                                 !.missed = FALSE])
      /\ written' = IF applied
                    THEN [written EXCEPT ![id] = [put |-> TRUE, values |-> values,
                                                  intact |-> ~run.torn]]
                    ELSE written

(* put_writes: what a task of the current step has written.                *)
PutWrites(p, task, applied, heard) ==
  /\ saver[p].pc = "run"
  /\ saver[p].base # 0
  /\ \A d \in Held(thread, "writes") : d.task # task
  /\ AppendItems(p, <<[kind |-> "writes", id |-> saver[p].base, task |-> task]>>, applied, heard, saver[p])
  /\ UNCHANGED written

(* The run ends, fails, or its process dies.                               *)
EndRun(p) ==
  /\ saver[p] # NoRun
  /\ saver' = [saver EXCEPT ![p] = NoRun]
  /\ UNCHANGED <<thread, written>>
-----------------------------------------------------------------------------
(* Runs that began before the items went away.                             *)
Torn(q) == IF saver[q].pc \in {"create", "read", "run"} /\ saver[q].op = "run"
           THEN [saver[q] EXCEPT !.torn = TRUE, !.owed = {}, !.latest = 0] ELSE saver[q]

DeleteThread(p) ==
  /\ saver[p].pc = "clear"
  /\ saver' = [q \in Processes |-> IF q = p THEN NoRun ELSE Torn(q)]
  /\ thread' = Cleared(thread)
  /\ UNCHANGED written

SaverNext ==
  \/ \E p \in Processes :
       \/ \E op \in {"run", "delete"}, wanted \in 0..MaxCheckpoints : BeginRun(p, op, wanted)
       \/ CreateSession(p) \/ ReadItems(p) \/ EndRun(p) \/ DeleteThread(p)
       \/ \E applied, heard \in BOOLEAN :
            \/ \E changed \in SUBSET Channels :
               \E emptied \in {{}, changed} :
                 Put(p, changed, emptied, applied, heard)
            \/ \E task \in Tasks : PutWrites(p, task, applied, heard)

SaverSpec == SaverInit /\ [][SaverNext]_saverVars
-----------------------------------------------------------------------------
(* A run has the channel values its checkpoint was put with, although they  *)
(* lie in the items of many puts, of several processes and branches, and    *)
(* were read page by page, unless the thread was deleted while one of the   *)
(* two, this run or the one that put the checkpoint, was under way.         *)
ValuesReadBack ==
  \A p \in Processes :
    LET run == saver[p]
    IN  run.pc = "run" /\ run.base # 0 /\ ~run.torn /\ written[run.base].intact
          => run.values = written[run.base].values

(* A run goes on from the latest checkpoint there was when it began to     *)
(* read, and knows every task of it whose writes were stored by then.      *)
NothingIsMissed == \A p \in Processes : ~saver[p].missed

(* What a resumed run reads back is what was put.                          *)
CheckpointReadsBack == ValuesReadBack /\ NothingIsMissed
=============================================================================
