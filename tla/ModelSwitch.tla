----------------------------- MODULE ModelSwitch -----------------------------
(* `models set`, `models apply` and `models rollback`                           *)
(* (databricks_agentbricks/cli/models.py, model_upgrade.py) and promote_to_prod *)
(* (databricks_agentkit/model_upgrades/optimization.py): production services    *)
(* and prompt aliases are moved one call at a time, each of which may fail or   *)
(* be interrupted, and a history file says what a rollback has to undo.         *)
EXTENDS Naturals, Sequences

CONSTANTS ModelServices, ModelChoices,   \* model services and the models they can route to
          Prompts,             \* prompts that are optimized with them
          MaxActions,          \* bound: actions in the history
          MaxVersions,         \* bound: versions of a prompt
          MaxTrouble           \* bound: failed or interrupted calls, others' moves

ASSUME SwitchAssumption ==
  /\ ModelServices \cap Prompts = {} /\ ModelChoices # {}
  /\ {MaxActions, MaxVersions, MaxTrouble} \subseteq Nat

VARIABLES now,       \* now[x]: the model of a service, the version of a prompt's alias
          previous,  \* previous[x]: the version @production_previous names
          latest,    \* latest[x]: the versions of a prompt
          report,    \* the latest upgrade run's report
          actions,   \* the history file
          cli,       \* the command that runs
          astray,    \* ghost: what was moved and not recorded
          trouble

switchVars == <<now, previous, latest, report, actions, cli, astray, trouble>>

Things   == ModelServices \cup Prompts
First(x) == IF x \in ModelServices THEN CHOOSE m \in ModelChoices : TRUE ELSE 1
NoReport == [was |-> <<>>, best |-> <<>>, rewrites |-> {}]
NoCli    == [pc |-> "idle", todo |-> {}, was |-> <<>>, to |-> <<>>, moved |-> {},
             index |-> 0, step |-> 1, raced |-> FALSE]

SwitchInit ==
  /\ now = [x \in Things |-> First(x)]
  /\ previous = [x \in Prompts |-> 0] /\ latest = [x \in Prompts |-> 1]
  /\ report = NoReport /\ actions = <<>> /\ cli = NoCli
  /\ astray = {} /\ trouble = 0

CliAt(pc)  == cli.pc = pc
CliDone    == cli' = NoCli /\ UNCHANGED <<now, previous, latest, report, actions, astray, trouble>>
CliGoes(c) == cli' = c /\ UNCHANGED <<now, previous, latest, report, actions, astray, trouble>>
Troubled   == trouble < MaxTrouble /\ trouble' = trouble + 1

MoveTo(x, v) ==
  /\ now' = [now EXCEPT ![x] = v]
  /\ latest' = IF x \in Prompts /\ v > latest[x] THEN [latest EXCEPT ![x] = v] ELSE latest
-----------------------------------------------------------------------------
(* models set                                                                 *)

BeginSet(s, m) ==
  /\ CliAt("idle") /\ Len(actions) < MaxActions /\ now[s] # m
  /\ CliGoes([NoCli EXCEPT !.pc = "set", !.todo = {s}, !.was = now, !.to = [now EXCEPT ![s] = m]])

SetService(s) ==
  /\ CliAt("set") /\ s \in cli.todo /\ MoveTo(s, cli.to[s])
  /\ cli' = [cli EXCEPT !.pc = "record", !.todo = {}, !.moved = {s}]
  /\ UNCHANGED <<previous, report, actions, astray, trouble>>

RecordAction ==
  /\ CliAt("record")
  /\ actions' = Append(actions, [things |-> cli.moved, was |-> cli.was, to |-> cli.to, undone |-> {}])
  /\ cli' = NoCli
  /\ UNCHANGED <<now, previous, latest, report, astray, trouble>>
-----------------------------------------------------------------------------
(* models upgrade and apply                                                   *)

(* A search reads the models and the prompts' versions when it starts, and    *)
(* recommends a model per service and to rewrite some prompts.                *)
Recommend(best, rewrites) ==
  /\ CliAt("idle") /\ report' = [was |-> now, best |-> best, rewrites |-> rewrites]
  /\ UNCHANGED <<now, previous, latest, actions, cli, astray, trouble>>

MovedSince_Unchecked(was) == FALSE
MovedSince(was) == \E s \in ModelServices : now[s] # was[s]

Better == {s \in ModelServices : report.best[s] # report.was[s]}

BeginApply ==
  /\ CliAt("idle") /\ Len(actions) < MaxActions /\ report # NoReport
  /\ ~MovedSince(report.was) /\ Better \cup report.rewrites # {}
  /\ CliGoes([NoCli EXCEPT !.pc = "check", !.was = report.was, !.todo = Better,
                           !.to = [x \in Things |-> IF x \in ModelServices THEN report.best[x] ELSE 0]])

(* Nothing is applied over a prompt that moved since the search started.      *)
CheckPrompts ==
  /\ CliAt("check")
  /\ IF \A x \in Prompts : now[x] = cli.was[x] THEN CliGoes([cli EXCEPT !.pc = "services"]) ELSE CliDone

Promoted(x, v) ==
  /\ MoveTo(x, v)
  /\ cli' = [cli EXCEPT !.todo = cli.todo \ {x}, !.moved = cli.moved \cup {x}, !.to = [cli.to EXCEPT ![x] = v]]
  /\ UNCHANGED <<previous, report, actions, astray, trouble>>

PromoteService(s) == CliAt("services") /\ s \in cli.todo /\ Promoted(s, cli.to[s])

ServicesDone ==
  /\ CliAt("services") /\ cli.todo = {}
  /\ CliGoes([cli EXCEPT !.pc = "rewrites", !.todo = report.rewrites])

KeepPrevious(x) ==
  /\ CliAt("rewrites") /\ x \in cli.todo /\ previous[x] # cli.was[x]
  /\ previous' = [previous EXCEPT ![x] = cli.was[x]]
  /\ UNCHANGED <<now, latest, report, actions, cli, astray, trouble>>

(* A version is registered and the alias moved to it.                         *)
PromotePrompt(x) ==
  /\ CliAt("rewrites") /\ x \in cli.todo /\ previous[x] = cli.was[x] /\ latest[x] < MaxVersions
  /\ Promoted(x, latest[x] + 1)

PromptsDone ==
  /\ CliAt("rewrites") /\ cli.todo = {}
  /\ CliGoes([cli EXCEPT !.pc = "record"])

ToRestore(moved) == moved

NewValue(x) == IF x \in ModelServices THEN cli.to[x] ELSE latest[x] + 1

(* A version is registered, and no alias names it.                            *)
Registered(x) ==
  /\ CliAt("rewrites") /\ x \in Prompts /\ latest' = [latest EXCEPT ![x] = @ + 1] /\ UNCHANGED now

(* A call of the promotion raises, perhaps after it took effect, or the alias *)
(* of a new version cannot be moved.                                          *)
PromoteFails(x) ==
  /\ cli.pc \in {"services", "rewrites"} /\ x \in cli.todo /\ Troubled
  /\ \/ UNCHANGED <<now, latest, astray>>
     \/ Registered(x) /\ UNCHANGED astray
     \/ MoveTo(x, NewValue(x)) /\ astray' = astray \cup {x}
  /\ cli' = [cli EXCEPT !.pc = "restore", !.todo = ToRestore(cli.moved)]
  /\ UNCHANGED <<previous, report, actions>>

Restore(x) ==
  /\ CliAt("restore") /\ x \in cli.todo
  /\ \/ MoveTo(x, cli.was[x]) /\ UNCHANGED <<astray, trouble>>
     \/ Troubled /\ astray' = astray \cup {x} /\ UNCHANGED <<now, latest>>
  /\ cli' = [cli EXCEPT !.todo = cli.todo \ {x}]
  /\ UNCHANGED <<previous, report, actions>>

RestoreDone == CliAt("restore") /\ cli.todo = {} /\ CliDone
-----------------------------------------------------------------------------
(* models rollback, of the last action or of one service's last switch        *)

Outstanding(a) == a.things \ a.undone
LastOf(S) == IF S = {} THEN 0 ELSE CHOOSE k \in S : \A j \in S : j <= k
LastAbout(x) == LastOf({k \in DOMAIN actions : x \in Outstanding(actions[k])})

BeginRollback(k, pending) ==
  /\ CliAt("idle") /\ k # 0
  /\ \A x \in pending : now[x] \in {actions[k].to[x], actions[k].was[x]}
  /\ CliGoes([NoCli EXCEPT !.pc = "undo", !.todo = pending, !.index = k, !.was = actions[k].was, !.to = now])

RollbackAction ==
  LET k == LastOf({k \in DOMAIN actions : Outstanding(actions[k]) # {}})
  IN  k # 0 /\ BeginRollback(k, Outstanding(actions[k]))

RollbackRole(s) == BeginRollback(LastAbout(s), {s})

(* Models first; each is moved, unless it was seen there, and then marked.    *)
UndoOrder_MarkFirst(step) == <<"mark", "move">>[step]
UndoOrder(step) == <<"move", "mark">>[step]

ToUndo == LET S == cli.todo \cap ModelServices
          IN  CHOOSE x \in (IF S # {} THEN S ELSE cli.todo) : TRUE

UndoMove ==
  /\ IF cli.to[ToUndo] # cli.was[ToUndo] THEN MoveTo(ToUndo, cli.was[ToUndo]) ELSE UNCHANGED <<now, latest>>
  /\ UNCHANGED actions

UndoMark ==
  /\ actions' = [actions EXCEPT ![cli.index] =
       [actions[cli.index] EXCEPT !.undone = actions[cli.index].undone \cup {ToUndo}]]
  /\ UNCHANGED <<now, latest>>

Undo ==
  /\ CliAt("undo") /\ cli.todo # {}
  /\ IF UndoOrder(cli.step) = "move" THEN UndoMove ELSE UndoMark
  /\ cli' = IF cli.step = 1 THEN [cli EXCEPT !.step = 2]
            ELSE [cli EXCEPT !.step = 1, !.todo = cli.todo \ {ToUndo}]
  /\ UNCHANGED <<previous, report, astray, trouble>>

UndoDone == CliAt("undo") /\ cli.todo = {} /\ CliDone
-----------------------------------------------------------------------------
(* A call of set or rollback fails, or the operator interrupts the command,   *)
(* within a call or between two; nothing is undone then.  A rollback can go   *)
(* on later.                                                                  *)
CutShort ==
  /\ ~CliAt("idle") /\ Troubled
  /\ \/ UNCHANGED <<now, latest>> /\ astray' = astray \cup (IF CliAt("undo") THEN {} ELSE cli.moved)
     \/ (\E x \in cli.todo : Registered(x)) /\ astray' = astray \cup cli.moved
     \/ \E x \in cli.todo : cli.pc \in {"set", "services", "rewrites"} /\ MoveTo(x, NewValue(x))
                            /\ astray' = astray \cup cli.moved \cup {x}
     \/ CliAt("undo") /\ cli.todo # {} /\ UndoOrder(cli.step) = "move" /\ MoveTo(ToUndo, cli.was[ToUndo])
        /\ UNCHANGED astray
  /\ cli' = NoCli
  /\ UNCHANGED <<previous, report, actions>>

(* Someone else moves a service or an alias.                                  *)
OthersMove(x) ==
  /\ Troubled /\ astray' = astray \cup {x}
  /\ \E v \in IF x \in ModelServices THEN ModelChoices ELSE 1..latest[x] + 1 :
       /\ v # now[x] /\ (x \in Prompts => v <= MaxVersions) /\ MoveTo(x, v)
  /\ cli' = IF CliAt("idle") THEN cli ELSE [cli EXCEPT !.raced = TRUE]
  /\ UNCHANGED <<previous, report, actions>>

SwitchNext ==
  \/ \E s \in ModelServices : (\E m \in ModelChoices : BeginSet(s, m)) \/ SetService(s) \/ PromoteService(s) \/ RollbackRole(s)
  \/ \E best \in [ModelServices -> ModelChoices], rewrites \in SUBSET Prompts : Recommend(best, rewrites)
  \/ BeginApply \/ CheckPrompts \/ ServicesDone \/ PromptsDone \/ RestoreDone \/ RecordAction
  \/ \E x \in Prompts : KeepPrevious(x) \/ PromotePrompt(x)
  \/ \E x \in Things : PromoteFails(x) \/ Restore(x) \/ OthersMove(x)
  \/ RollbackAction \/ Undo \/ UndoDone \/ CutShort

SwitchSpec == SwitchInit /\ [][SwitchNext]_switchVars
-----------------------------------------------------------------------------
(* Between commands a service routes to the model, and an alias names the     *)
(* version, of the last action that is not undone, or of the first day: a     *)
(* promotion that failed left nothing behind, and the rollbacks of the        *)
(* history lead all the way back (promote_to_prod, models_rollback).  An undo *)
(* that was cut short may have moved what it has not marked.                  *)
HistoryTellsWhatRuns ==
  CliAt("idle") =>
    \A x \in Things \ astray :
      IF LastAbout(x) = 0 THEN now[x] = First(x)
      ELSE now[x] \in {actions[LastAbout(x)].to[x], actions[LastAbout(x)].was[x]}

(* An apply or a rollback moves a thing only from where the report or the     *)
(* history has it; the move of another is overwritten only if it falls into   *)
(* the command (_apply_report, promote_to_prod, models_rollback).             *)
NothingIsStomped ==
  [][\A x \in Things :
       cli.pc \in {"services", "rewrites", "undo"} /\ ~cli.raced /\ ~cli'.raced /\ now'[x] # now[x] =>
         now[x] = IF CliAt("undo") THEN actions[cli.index].to[x] ELSE report.was[x]]_switchVars

(* Switches can be told from the history, and undone, and overwrite nobody.   *)
SwitchesAreSafe == []HistoryTellsWhatRuns /\ NothingIsStomped
=============================================================================
