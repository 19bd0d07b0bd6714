------------------------------- MODULE Bindings -------------------------------
(***************************************************************************)
(* What a project's agent.toml binds and what its deployed version gets:   *)
(* stores, a tracing experiment, a model service for each role, prompts    *)
(* and tools.  The commands that edit agent.toml read the whole file, edit *)
(* the document they hold and replace the file; `agentbricks deploy` does  *)
(* the same between its own checks, reads the file a second time, creates  *)
(* what is missing, writes the env of app.yaml, uploads both files as they *)
(* are by then, and grants the App access once the version runs.  No lock  *)
(* is held over any of it, every call can fail, and stores and model       *)
(* services have other owners.                                             *)
(*                                                                         *)
(* A definition named Op_Slip is operation Op with a plausible slip in it; *)
(* nothing uses it but the mutation runs listed in PROJECT.json.           *)
(***************************************************************************)
EXTENDS Naturals, FiniteSets, Sequences

CONSTANTS
  Names,      \* store names
  ModelNames, \* model services
  Roles,      \* LLM call sites; prompts are kept under the same keys
  Prompts,
  Configs,    \* what the one tool id may be configured as
  None,
  MaxMoves,   \* bound: edits, deploys and what other owners do, together
  MaxStores   \* bound: stores ever created

(* The variable of a role is named AGENT_MODEL_SERVICE_<ROLE>, like none of the others. *)
ASSUME BindAssumption ==
  /\ None \notin Names \cup ModelNames \cup Prompts \cup Configs
  /\ None \notin Nat /\ None \notin BOOLEAN
  /\ Roles \cap {"memory", "session", "tracing", "cors"} = {}
  /\ MaxMoves \in Nat /\ MaxStores \in Nat

Kinds == {"memory", "session"}

Doc == [memory : Names \cup {None}, session : Names \cup {None}, tracing : BOOLEAN,
        models : [Roles -> ModelNames \cup {None}], prompts : [Roles -> Prompts \cup {None}],
        tool : Configs \cup {None}, cors : BOOLEAN, named : BOOLEAN]

VARIABLES
  toml,      \* agent.toml
  edition,   \* how often it has been written
  cli,       \* a command: the document it holds, and the edition it read
  yaml,      \* the env of app.yaml
  dep,       \* a deploy
  made,      \* the stores ever created, <<kind, name>>, by id
  store,     \* the store that bears a name now, 0: none
  routed,    \* what a model service routes to
  granted,   \* what the App's service principal was given
  running,   \* the version that runs
  strange    \* what other owners have done so far

bindVars == <<toml, edition, cli, yaml, dep, made, store, routed, granted, running, strange>>

EnvKeys == {"memory", "session", "tracing", "cors"} \cup Roles
NoEnv == [k \in EnvKeys |-> None]

Nothing == [r \in Roles |-> None]

(* AgentProject.create, with the default names `init` gives or without. *)
Scaffold(n) ==
  [memory |-> n, session |-> n, tracing |-> n # None, models |-> Nothing,
   prompts |-> Nothing, tool |-> None, cors |-> FALSE, named |-> FALSE]

(* A project that was cloned: deployed before from elsewhere, with a role and a prompt *)
(* of its own.                                                                         *)
ClonedWith(n, r, s, p) ==
  [Scaffold(n) EXCEPT !.named = TRUE, !.models[r] = s, !.prompts[r] = p]
Cloned(n) == {ClonedWith(n, r, s, p) : r \in Roles, s \in ModelNames, p \in Prompts}

NoCli == [held |-> FALSE, doc |-> Scaffold(None), read |-> 0]

NoDeploy(n) ==
  [pc |-> "idle", n |-> n, doc |-> Scaffold(None), read |-> 0, kept |-> Scaffold(None),
   memory |-> None, session |-> None, tracing |-> "unbound",  \* resource_bindings
   id |-> None, todo |-> {}, env |-> NoEnv, upload |-> Scaffold(None), raced |-> FALSE]

NoVersion == [env |-> NoEnv, doc |-> Scaffold(None), traced |-> "unbound", raced |-> FALSE,
              reported |-> FALSE, told |-> {}]

BindInit ==
  /\ \E n \in Names : toml \in {Scaffold(n), Scaffold(None)} \cup Cloned(n)
  /\ edition = 0 /\ cli = NoCli /\ yaml = NoEnv /\ dep = NoDeploy(0)
  /\ made = <<>> /\ store = [k \in Kinds |-> [n \in Names |-> 0]]
  /\ routed = [s \in ModelNames |-> "absent"]
  /\ granted = {} /\ running = NoVersion /\ strange = 0
---------------------------------------------------------------------------
Moves == edition + dep.n + strange

(* The edits: what each command makes of the document it loaded *)

BindStore(doc) == {[doc EXCEPT ![k] = n] : k \in Kinds, n \in Names}

\* Nothing is written when nothing was bound.
UnbindStore(doc) == {[doc EXCEPT ![k] = None] : k \in {j \in Kinds : doc[j] # None}}

BindTracing(doc) == {[doc EXCEPT !.tracing = on] : on \in BOOLEAN}

(* A service backs one role. *)
BindModel_Shared(doc) == {[doc EXCEPT !.models[r] = s] : r \in Roles, s \in ModelNames}

BindModel(doc) ==
  {[doc EXCEPT !.models[x[1]] = x[2]] :
     x \in {y \in Roles \X ModelNames : \A other \in Roles \ {y[1]} : doc.models[other] # y[2]}}

UnbindModel(doc) ==
  {[doc EXCEPT !.models[r] = None] : r \in {q \in Roles : doc.models[q] # None}}

BindPrompt(doc) ==
  {[doc EXCEPT !.prompts[x[1]] = x[2]] :
     x \in {y \in Roles \X Prompts : \A other \in Roles \ {y[1]} : doc.prompts[other] # y[2]}}

(* The last prompt takes its table along, and [experimental] only if that is empty too. *)
UnbindPrompt_Experimental(doc) ==
  {[doc EXCEPT !.prompts[r] = None,
               !.models = IF \A q \in Roles \ {r} : doc.prompts[q] = None THEN Nothing ELSE @] :
     r \in Roles}

UnbindPrompt(doc) == {[doc EXCEPT !.prompts[r] = None] : r \in Roles}

(* An id that is taken is never given another configuration. *)
AddTool(doc) == IF doc.tool = None THEN {[doc EXCEPT !.tool = c] : c \in Configs} ELSE {}

RemoveTool(doc) == IF doc.tool = None THEN {} ELSE {[doc EXCEPT !.tool = None]}

Edits(doc) ==
  BindStore(doc) \cup UnbindStore(doc) \cup BindTracing(doc) \cup BindModel(doc)
  \cup UnbindModel(doc) \cup BindPrompt(doc) \cup UnbindPrompt(doc) \cup AddTool(doc)
  \cup RemoveTool(doc)
---------------------------------------------------------------------------
(* A command *)

(* It loads and edits; `tools add` looks its service up before it writes. *)
Edit ==
  /\ ~cli.held /\ Moves < MaxMoves
  /\ \E doc \in Edits(toml) : cli' = [held |-> TRUE, doc |-> doc, read |-> edition]
  /\ UNCHANGED <<toml, edition, yaml, dep, made, store, routed, granted, running, strange>>

Save ==
  /\ cli.held /\ cli' = NoCli
  /\ toml' = cli.doc /\ edition' = edition + 1
  /\ UNCHANGED <<yaml, dep, made, store, routed, granted, running, strange>>

(* The service that `tools add` looked up is not there. *)
NotThere ==
  /\ cli.held /\ cli' = NoCli
  /\ UNCHANGED <<toml, edition, yaml, dep, made, store, routed, granted, running, strange>>
---------------------------------------------------------------------------
(* `agentbricks deploy` *)

DepAt(pc) == dep.pc = pc
Onto(pc) == dep' = [dep EXCEPT !.pc = pc]
OnlyDeploy == UNCHANGED <<toml, edition, cli, yaml, made, store, routed, granted, running, strange>>

(* The origins of the command line, those of the file, or none, by what is asked for. *)
Load ==
  /\ DepAt("idle") /\ Moves < MaxMoves
  /\ \E origins \in BOOLEAN :
       dep' = [NoDeploy(dep.n + 1) EXCEPT !.pc = "prepare", !.doc = [toml EXCEPT !.cors = origins],
                                          !.read = edition, !.kept = toml]
  /\ OnlyDeploy

(* The name and the origins are kept for later deploys. *)
Persist ==
  /\ DepAt("prepare")
  /\ LET doc == [dep.doc EXCEPT !.named = TRUE]
         changed == doc # dep.kept
     IN
     /\ dep' = [dep EXCEPT !.pc = "bindings", !.doc = doc, !.kept = Scaffold(None),
                           !.read = IF changed /\ @ = edition THEN edition + 1 ELSE @]
     /\ IF changed THEN toml' = doc /\ edition' = edition + 1 ELSE UNCHANGED <<toml, edition>>
  /\ UNCHANGED <<cli, yaml, made, store, routed, granted, running, strange>>

(* The stores and the experiment come from a second reading. *)
ResourceBindings ==
  /\ DepAt("bindings")
  /\ dep' = [dep EXCEPT !.pc = "memory", !.memory = toml.memory, !.session = toml.session,
                        !.tracing = IF toml.tracing THEN "bound" ELSE "unbound"]
  /\ OnlyDeploy

Made(k, n) ==
  /\ store[k][n] = 0 /\ Len(made) < MaxStores
  /\ made' = Append(made, <<k, n>>) /\ store' = [store EXCEPT ![k][n] = Len(made) + 1]

(* A create that is refused because the store exists resolves it; one whose answer *)
(* was lost is repeated and refused.                                               *)
ReconcileMemory ==
  /\ DepAt("memory")
  /\ IF dep.memory = None
       THEN Onto("session") /\ UNCHANGED <<made, store>>
       ELSE /\ Made("memory", dep.memory) \/ (store["memory"][dep.memory] # 0 /\ UNCHANGED <<made, store>>)
            /\ dep' = [dep EXCEPT !.pc = "session", !.id = store'["memory"][dep.memory]]
  /\ UNCHANGED <<toml, edition, cli, yaml, routed, granted, running, strange>>

ReconcileSession ==
  /\ DepAt("session")
  /\ dep' = [dep EXCEPT !.pc = "models", !.todo = {r \in Roles : dep.doc.models[r] # None}]
  /\ \/ dep.session = None /\ UNCHANGED <<made, store>>
     \/ dep.session # None /\ Made("session", dep.session)
     \/ dep.session # None /\ store["session"][dep.session] # 0 /\ UNCHANGED <<made, store>>
  /\ UNCHANGED <<toml, edition, cli, yaml, routed, granted, running, strange>>

(* A service is created only where there is none, and left as it is where there is one; *)
(* a deploy that has no default model for a new one fails.                              *)
Routed_Set(now) == "default"

Routed(now) == IF now = "absent" THEN "default" ELSE now

ReconcileModel(r) ==
  /\ DepAt("models") /\ r \in dep.todo
  /\ routed' = [routed EXCEPT ![dep.doc.models[r]] = Routed(@)]
  /\ dep' = [dep EXCEPT !.todo = @ \ {r}]
  /\ UNCHANGED <<toml, edition, cli, yaml, made, store, granted, running, strange>>

(* An experiment that does not resolve never stops a deploy. *)
ReconcileTracing ==
  /\ DepAt("models") /\ dep.todo = {}
  /\ \E t \in IF dep.tracing = "bound" THEN {"bound", "failed"} ELSE {"unbound"} :
       dep' = [dep EXCEPT !.pc = "yaml", !.tracing = t]
  /\ OnlyDeploy

UpsertEnv(env, updates, removals, pruned) ==
  [k \in EnvKeys |-> IF k \in removals THEN None
                     ELSE IF k \in DOMAIN updates THEN updates[k]
                     ELSE IF k \in pruned THEN None ELSE env[k]]

(* What a clean unbind takes away: a failure to resolve is none. *)
Removals ==
  {k \in Kinds : dep[k] = None} \cup {k \in {"tracing"} : dep.tracing = "unbound"}
  \cup {k \in {"cors"} : ~dep.doc.cors}

Updates ==
  LET bound == {k \in Kinds : dep[k] # None} \cup {k \in {"tracing"} : dep.tracing = "bound"}
               \cup {k \in {"cors"} : dep.doc.cors} \cup {r \in Roles : dep.doc.models[r] # None}
  IN  [k \in bound |-> CASE k = "memory" -> dep.id
                         [] k = "session" -> dep.session
                         [] k \in Roles -> dep.doc.models[k]
                         [] OTHER -> TRUE]

WriteEnv ==
  /\ DepAt("yaml") /\ Onto("sync")
  /\ yaml' = UpsertEnv(yaml, Updates, Removals, Roles)
  /\ UNCHANGED <<toml, edition, cli, made, store, routed, granted, running, strange>>

Sync ==
  /\ DepAt("sync")
  /\ dep' = [dep EXCEPT !.pc = "rollout", !.env = yaml, !.upload = toml, !.raced = dep.read # edition]
  /\ OnlyDeploy

RollOut ==
  /\ DepAt("rollout") /\ Onto("grants")
  /\ running' = [env |-> dep.env, doc |-> dep.upload, traced |-> dep.tracing, raced |-> dep.raced,
                 reported |-> FALSE, told |-> {}]
  /\ UNCHANGED <<toml, edition, cli, yaml, made, store, routed, granted, strange>>

(* What the App needs; a grant on a store that is gone is refused. *)
Wanted ==
  {<<"memory", dep.id>> : k \in {j \in {"memory"} : dep.memory # None}}
  \cup {<<"session", store["session"][dep.session]>> : k \in {j \in {"session"} : dep.session # None}}
  \cup {<<"model", dep.doc.models[r]>> : r \in {q \in Roles : dep.doc.models[q] # None}}
  \cup {<<"prompt", dep.doc.prompts[r]>> : r \in {q \in Roles : dep.doc.prompts[q] # None}}

Grantable(w) ==
  w[1] \in Kinds => \E n \in Names : w[2] # 0 /\ store[w[1]][n] = w[2]

(* Without the App's service principal none is given, and one of them can fail: the *)
(* deploy says which.                                                              *)
Grants ==
  /\ DepAt("grants")
  /\ \E given \in {Wanted, {}} \cup {Wanted \ {w} : w \in Wanted} :
       /\ \A w \in given : Grantable(w)
       /\ granted' = granted \cup given
       /\ running' = [running EXCEPT !.reported = TRUE, !.told = Wanted \ given]
  /\ dep' = NoDeploy(dep.n)
  /\ UNCHANGED <<toml, edition, cli, yaml, made, store, routed, strange>>

(* A call that fails ends the deploy with an error. *)
DeployFails ==
  /\ ~DepAt("idle") /\ dep' = NoDeploy(dep.n)
  /\ OnlyDeploy
---------------------------------------------------------------------------
(* Other owners *)

Strange ==
  /\ Moves < MaxMoves /\ strange' = strange + 1
  /\ \/ \E k \in Kinds, n \in Names :
          \/ Made(k, n) /\ UNCHANGED routed
          \/ /\ store[k][n] # 0 /\ store' = [store EXCEPT ![k][n] = 0]
             /\ UNCHANGED <<made, routed>>
     \/ \E s \in ModelNames : routed' = [routed EXCEPT ![s] = "other"] /\ UNCHANGED <<made, store>>
  /\ UNCHANGED <<toml, edition, cli, yaml, dep, granted, running>>

BindNext ==
  \/ Edit \/ Save \/ NotThere
  \/ Load \/ Persist \/ ResourceBindings \/ ReconcileMemory \/ ReconcileSession
  \/ \E r \in Roles : ReconcileModel(r)
  \/ ReconcileTracing \/ WriteEnv \/ Sync \/ RollOut \/ Grants \/ DeployFails
  \/ Strange

BindSpec == BindInit /\ [][BindNext]_bindVars
---------------------------------------------------------------------------
(* What can be said about a version that runs *)

(* The env of a version says what its agent.toml binds, in the words the services know. *)
Agrees(env, doc, traced) ==
  /\ \A r \in Roles : /\ env[r] = doc.models[r]
                      /\ env[r] # None => routed[env[r]] # "absent"
  /\ env["session"] = doc.session
  /\ (env["memory"] # None) <=> (doc.memory # None)
  /\ env["memory"] # None => made[env["memory"]] = <<"memory", doc.memory>>
  /\ (env["cors"] # None) <=> doc.cors
  /\ traced # "failed" => ((env["tracing"] # None) <=> doc.tracing)

(* A version that was uploaded with the agent.toml its deploy had read agrees with it: *)
(* stores, roles, origins and the experiment, whatever an earlier or a failed deploy   *)
(* left in app.yaml.                                                                   *)
VersionsAgree == ~running.raced => Agrees(running.env, running.doc, running.traced)

(* One service backs one role and one prompt one key, however the commands interleave. *)
RolesHaveTheirOwn ==
  \A r, q \in Roles :
    r # q => /\ toml.models[r] # None => toml.models[r] # toml.models[q]
             /\ toml.prompts[r] # None => toml.prompts[r] # toml.prompts[q]

(* When a deploy has reported, its version was granted what its env names, or the user *)
(* was told what it was not.                                                           *)
GrantedOrTold ==
  running.reported =>
    LET settled == granted \cup running.told IN
    /\ running.env["memory"] # None => <<"memory", running.env["memory"]>> \in settled
    /\ running.env["session"] # None =>
         \E i \in 0..Len(made) : /\ <<"session", i>> \in settled
                                 /\ i # 0 => made[i] = <<"session", running.env["session"]>>
    /\ \A r \in Roles :
         /\ running.env[r] # None => <<"model", running.env[r]>> \in settled
         /\ ~running.raced /\ running.doc.prompts[r] # None =>
              <<"prompt", running.doc.prompts[r]>> \in settled

(* A write of agent.toml changes the tables of one command and no other, unless another *)
(* write came after its reading; nothing in it is lost.                                 *)
Changed == {k \in DOMAIN toml : toml[k] # toml'[k]}

WritesTouchOneTable ==
  toml' # toml =>
    \/ Cardinality(Changed) = 1
    \/ Changed \subseteq {"named", "cors"}
    \/ cli.held /\ cli.read # edition
    \/ DepAt("prepare") /\ dep.read # edition

(* A variable leaves app.yaml only when a reading of agent.toml no longer binds it, and *)
(* a deploy sends nobody's traffic elsewhere.                                           *)
DeploysTakeNothing ==
  /\ (yaml["tracing"] # None /\ yaml'["tracing"] = None) => dep.tracing = "unbound"
  /\ \A k \in Kinds : (yaml[k] # None /\ yaml'[k] = None) => dep[k] = None
  /\ \A s \in ModelNames :
       (dep # dep' /\ routed[s] # routed'[s]) => routed[s] = "absent"

(* An agent.toml and what the App gets from it stay together. *)
BindingsAreSound ==
  /\ [](VersionsAgree /\ RolesHaveTheirOwn /\ GrantedOrTold)
  /\ [][WritesTouchOneTable /\ DeploysTakeNothing]_bindVars
=============================================================================
