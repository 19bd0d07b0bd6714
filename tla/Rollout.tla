------------------------------- MODULE Rollout -------------------------------
(***************************************************************************)
(* `agentbricks deploy` and `agentbricks deployments delete`: one operator *)
(* runs them one after the other, each a sequence of remote calls that can *)
(* fail or be interrupted at any point, while the App itself moves and its *)
(* other owners change it.  What keeps the running version working is the  *)
(* order of the calls and what each of them read before it wrote.          *)
(*                                                                         *)
(* A project whose tools act for the request's user (userAuth) creates and *)
(* updates its App through a scope plan; any other project starts the      *)
(* App's compute first and joins on it later.                              *)
(*                                                                         *)
(* A definition named Op_Slip is operation Op with a plausible slip in it; *)
(* nothing uses it but the mutation runs listed in PROJECT.json.           *)
(***************************************************************************)
EXTENDS DatabricksApp

VARIABLES userAuth, \* the project's tools act for the request's user
          store,    \* the App that owns the managed Runtime Store, 0: no store
          folder,   \* the uploaded source
          yaml,     \* the project's app.yaml names the Runtime Store schema
          d         \* the operator's command

local == <<userAuth, store, folder, yaml>>
rolloutVars == <<app, apps, outside, late, userAuth, store, folder, yaml, d>>

Step == {"idle", "plan", "look", "start", "reconcile", "drift", "scopes", "converge", "ready",
         "store", "sync", "join", "settle", "grant", "addRead", "addWrite", "addVerify",
         "deploy", "deploying", "refused", "endRead", "endWrite", "endVerify",
         "traceRead", "traceWrite", "report", "drop", "delete", "await", "rmdir"}

Command ==
  [pc : Step, n : 0..MaxDeploys,
   bound : Manifests, trace : {"bound", "unbound", "failed"},
   saw : {"absent", "stopped", "other"},  \* the app_state that was read
   existed : BOOLEAN,                     \* ctx.deployment_exists
   scopes : SUBSET Scopes,                \* the scope plan's existing_scopes
   seen : Resources,                      \* the resource array last read
   retried : BOOLEAN,
   id : 0..MaxApps, rmdir : BOOLEAN]      \* delete: the App found, --delete-source

NoCommand(n) ==
  [pc |-> "idle", n |-> n, bound |-> {}, trace |-> "unbound", saw |-> "absent",
   existed |-> FALSE, scopes |-> {}, seen |-> NoResources, retried |-> FALSE,
   id |-> 0, rmdir |-> FALSE]

RolloutInit ==
  /\ userAuth \in BOOLEAN
  /\ app \in {NoApp, Legacy} /\ apps = app.id
  /\ store = app.id /\ folder = app.active /\ yaml = FALSE
  /\ d = NoCommand(0)
  /\ outside = 0 /\ late = {}

At(pc) == d.pc = pc
Proceed(pc) == d' = [d EXCEPT !.pc = pc]
Over == d' = NoCommand(d.n)
AppSame == UNCHANGED <<app, apps, outside, late>>

---------------------------------------------------------------------------
(* Tool access *)

(* plan_tool_access keeps the strongest permission asked for a securable. *)
Planned(m) ==
  [t \in Tools |-> IF <<t, 2>> \in m THEN 2 ELSE IF <<t, 1>> \in m THEN 1 ELSE 0]

Grants(m) == {s \in Services : \E level \in {1, 2} : <<s, level>> \in m}

Strongest_Replace(held, wanted) == wanted

(* Before the rollout nothing is removed and no permission lowered. *)
Strongest(held, wanted) ==
  [t \in Tools |-> IF held[t] < wanted[t] THEN wanted[t] ELSE held[t]]
---------------------------------------------------------------------------
(* deploy: preflight and compute *)

BeginDeploy(m, tracing) ==
  /\ At("idle") /\ d.n < MaxDeploys
  /\ d' = [NoCommand(d.n + 1) EXCEPT !.pc = IF userAuth THEN "plan" ELSE "look",
                                !.bound = m, !.trace = tracing]
  /\ AppSame /\ UNCHANGED local

(* plan_app_user_scope_update refuses to add scopes without the flag. *)
PlanScopes(allow) ==
  /\ At("plan")
  /\ IF Exists /\ ~(Required \subseteq app.scopes) /\ ~allow
       THEN Over
       ELSE d' = [d EXCEPT !.pc = "reconcile", !.existed = Exists, !.scopes = app.scopes]
  /\ AppSame /\ UNCHANGED local

(* An App that never rolled out is still a first deployment. *)
Look ==
  /\ At("look")
  /\ d' = [d EXCEPT !.pc = "start", !.existed = app.active # {},
                    !.saw = IF ~Exists THEN "absent"
                            ELSE IF app.compute = "STOPPED" THEN "stopped" ELSE "other"]
  /\ AppSame /\ UNCHANGED local
CreateApp ==
  /\ At("start") /\ d.saw = "absent" /\ Proceed("reconcile")
  /\ Create({}) /\ UNCHANGED <<outside, late>> /\ UNCHANGED local

StartApp ==
  /\ At("start") /\ d.saw = "stopped" /\ app.compute = "STOPPED" /\ Exists /\ Proceed("reconcile")
  /\ app' = [app EXCEPT !.compute = "STARTING", !.restart = app.active # {}]
  /\ UNCHANGED <<apps, outside, late>> /\ UNCHANGED local

NoStart ==
  /\ At("start") /\ d.saw = "other" /\ Proceed("reconcile")
  /\ AppSame /\ UNCHANGED local

(* A tracing experiment that does not resolve is noted, never a reason to stop. *)
Reconcile ==
  /\ At("reconcile")
  /\ \E resolved \in IF d.trace = "bound" THEN {"bound", "failed"} ELSE {"unbound"} :
       d' = [d EXCEPT !.pc = IF userAuth THEN "drift" ELSE "store", !.trace = resolved]
  /\ AppSame /\ UNCHANGED local

---------------------------------------------------------------------------
(* deploy: a request-user App *)

CreateScoped ==
  /\ At("drift") /\ ~d.existed /\ Proceed("converge")
  /\ Create(Required) /\ UNCHANGED <<outside, late>> /\ UNCHANGED local

CheckDrift ==
  /\ At("drift") /\ d.existed
  /\ IF Exists /\ app.scopes = d.scopes THEN Proceed("scopes") ELSE Over
  /\ late' = {} /\ UNCHANGED <<app, apps, outside>> /\ UNCHANGED local

AddScopes ==
  /\ At("scopes") /\ Exists /\ Proceed("converge")
  /\ app' = IF Required \subseteq d.scopes THEN app
            ELSE [app EXCEPT !.scopes = d.scopes \cup Required]
  /\ UNCHANGED <<apps, outside, late>> /\ UNCHANGED local

ScopesConverged ==
  /\ At("converge") /\ Exists /\ Proceed("ready")
  /\ app.scopes = d.scopes \cup Required /\ app.effective = app.scopes
  /\ AppSame /\ UNCHANGED local

ScopedAppActive ==
  /\ At("ready") /\ Exists /\ app.compute = "ACTIVE" /\ Proceed("store")
  /\ AppSame /\ UNCHANGED local

---------------------------------------------------------------------------

(* deploy: Runtime Store, source, join *)

(* validate_owner refuses a store that another App identity owns. *)
OwnStore == store \in {0, app.id}

NamesSchema_Rewritten == ~d.existed

(* A first deployment adds the schema to app.yaml, and what is there stays. *)
NamesSchema == yaml \/ ~d.existed

RuntimeStore ==
  /\ At("store") /\ Exists /\ app.sp
  /\ IF OwnStore
       THEN /\ Proceed(IF userAuth THEN "grant" ELSE "sync")
            /\ store' = IF store = 0 THEN app.id ELSE store
            /\ yaml' = NamesSchema
       ELSE Over /\ UNCHANGED <<store, yaml>>
  /\ AppSame /\ UNCHANGED <<userAuth, folder>>

Sync ==
  /\ At("sync") /\ Proceed(IF userAuth THEN "deploy" ELSE "join")
  /\ folder' = {[n |-> d.n, bound |-> d.bound, schema |-> yaml]}
  /\ AppSame /\ UNCHANGED <<userAuth, store, yaml>>

Join ==
  /\ At("join") /\ Exists /\ app.compute = "ACTIVE"
  /\ Proceed(IF app.pending # {} THEN "settle" ELSE "grant")
  /\ AppSame /\ UNCHANGED local

(* A read that fails counts as `not in progress`, and ends the wait early. *)
PreviousSettled(unreadable) ==
  /\ At("settle") /\ (app.pending = {} \/ unreadable)
  /\ Proceed(IF d.retried THEN "deploy" ELSE "grant")
  /\ AppSame /\ UNCHANGED local

---------------------------------------------------------------------------
(* deploy: access before the rollout *)

(* Grants are made and confirmed one by one: a failure leaves the earlier ones. *)
GrantServices ==
  /\ At("grant") /\ Exists /\ app.sp
  /\ \E got \in SUBSET (Grants(d.bound) \ app.uc) :
       /\ app' = [app EXCEPT !.uc = app.uc \cup got]
       /\ IF Grants(d.bound) \subseteq app.uc \cup got THEN Proceed("addRead") ELSE Over
  /\ UNCHANGED <<apps, outside, late>> /\ UNCHANGED local

Wanted(held) == IF At("addRead") \/ At("addWrite") \/ At("addVerify")
                  THEN Strongest(held, Planned(d.bound)) ELSE Planned(d.bound)

(* An Apps update replaces the whole array: read it, write what was read     *)
(* with the owned part replaced, read it again.                              *)
ReadTools(at, write, skip) ==
  /\ At(at) /\ Exists
  /\ d' = [d EXCEPT !.pc = IF Wanted(app.res.tool) = app.res.tool THEN skip ELSE write,
                    !.seen = app.res]
  /\ late' = {} /\ UNCHANGED <<app, apps, outside>> /\ UNCHANGED local

WriteTools(at, verify) ==
  /\ At(at) /\ Exists /\ app.compute = "ACTIVE" /\ Proceed(verify)
  /\ app' = [app EXCEPT !.res = [d.seen EXCEPT !.tool = Wanted(d.seen.tool)]]
  /\ UNCHANGED <<apps, outside, late>> /\ UNCHANGED local

VerifyTools(at, next) ==
  /\ At(at) /\ Exists /\ app.res.tool = Wanted(d.seen.tool) /\ Proceed(next)
  /\ AppSame /\ UNCHANGED local

AddTools ==
  \/ ReadTools("addRead", "addWrite", IF userAuth THEN "sync" ELSE "deploy")
  \/ WriteTools("addWrite", "addVerify")
  \/ VerifyTools("addVerify", IF userAuth THEN "sync" ELSE "deploy")

FinalizeTools ==
  \/ ReadTools("endRead", "endWrite", "traceRead")
  \/ WriteTools("endWrite", "endVerify")
  \/ VerifyTools("endVerify", "traceRead")

---------------------------------------------------------------------------
(* deploy: rollout *)

(* `apps deploy`; Apps takes one deployment at a time.  The one that a start *)
(* queued may still surface, during this one's finalizing and long after.    *)
DeployAccepted ==
  /\ At("deploy") /\ Exists /\ app.compute = "ACTIVE" /\ app.pending = {} /\ Proceed("deploying")
  /\ app' = [app EXCEPT !.pending = folder]
  /\ UNCHANGED <<apps, outside, late>> /\ UNCHANGED local

DeployRefused ==
  /\ At("deploy") /\ (app.pending # {} \/ app.compute # "ACTIVE") /\ Proceed("refused")
  /\ AppSame /\ UNCHANGED local

DeployEnds ==
  /\ At("deploying") /\ app.pending = {}
  /\ IF app.active = folder THEN Proceed("endRead") ELSE Proceed("refused")
  /\ AppSame /\ UNCHANGED local

(* The call is lost while the deployment goes on. *)
DeployLost ==
  /\ At("deploying") /\ app.pending # {} /\ Proceed("refused")
  /\ AppSame /\ UNCHANGED local

RetryOnce ==
  /\ At("refused")
  /\ IF app.pending # {} /\ ~d.retried
       THEN d' = [d EXCEPT !.pc = "settle", !.retried = TRUE]
       ELSE Over
  /\ AppSame /\ UNCHANGED local
---------------------------------------------------------------------------
ReadForTrace_Lenient ==
  /\ At("traceRead") /\ Exists
  /\ \/ /\ d.trace # "failed"
        /\ \E res \in {app.res, NoResources} :
             d' = [d EXCEPT !.pc = "traceWrite", !.seen = res] /\ late' = {}
     \/ Proceed("report") /\ UNCHANGED late
  /\ UNCHANGED <<app, apps, outside>> /\ UNCHANGED local

(* deploy: trace access, best effort *)

ReadForTrace ==
  /\ At("traceRead") /\ Exists
  /\ \/ /\ d.trace # "failed"
        /\ d' = [d EXCEPT !.pc = "traceWrite", !.seen = app.res] /\ late' = {}
     \/ Proceed("report") /\ UNCHANGED late
  /\ UNCHANGED <<app, apps, outside>> /\ UNCHANGED local
WriteTrace(ok) ==
  /\ At("traceWrite") /\ Exists /\ Proceed("report")
  /\ app' = IF ok /\ app.compute = "ACTIVE"
              THEN [app EXCEPT !.res = [d.seen EXCEPT !.trace = d.trace = "bound"]] ELSE app
  /\ UNCHANGED <<apps, outside, late>> /\ UNCHANGED local

Report ==
  /\ At("report") /\ Over
  /\ AppSame /\ UNCHANGED local

---------------------------------------------------------------------------
(* deployments delete *)

BeginDelete(rmdir) ==
  /\ At("idle") /\ Exists /\ app.sp
  /\ d' = [d EXCEPT !.pc = "drop", !.id = app.id,
                    !.rmdir = rmdir /\ app.active \cup app.pending # {}]
  /\ AppSame /\ UNCHANGED local

DropStore ==
  /\ At("drop")
  /\ IF store \in {0, d.id} THEN Proceed("delete") /\ store' = 0 ELSE Over /\ UNCHANGED store
  /\ AppSame /\ UNCHANGED <<userAuth, folder, yaml>>

DeleteApp ==
  /\ At("delete") /\ Exists /\ Proceed("await")
  /\ app' = [app EXCEPT !.deleting = TRUE]
  /\ UNCHANGED <<apps, outside, late>> /\ UNCHANGED local

ConfirmGone ==
  /\ At("await") /\ ~Exists
  /\ IF d.rmdir THEN Proceed("rmdir") ELSE Over
  /\ AppSame /\ UNCHANGED local
DeleteFolder ==
  /\ At("rmdir") /\ Over
  /\ folder' = {}
  /\ AppSame /\ UNCHANGED <<userAuth, store, yaml>>

(* Any call can fail, time out or be interrupted. *)
Fail ==
  /\ ~At("idle") /\ Over
  /\ AppSame /\ UNCHANGED local

---------------------------------------------------------------------------
Deploy ==
  \/ \E m \in Manifests, tracing \in {"bound", "unbound"} : BeginDeploy(m, tracing)
  \/ \E allow \in BOOLEAN : PlanScopes(allow)
  \/ Look \/ CreateApp \/ StartApp \/ NoStart \/ Reconcile
  \/ CreateScoped \/ CheckDrift \/ AddScopes \/ ScopesConverged \/ ScopedAppActive
  \/ RuntimeStore \/ Sync \/ Join \/ \E u \in BOOLEAN : PreviousSettled(u)
  \/ GrantServices \/ AddTools
  \/ DeployAccepted \/ DeployRefused \/ DeployEnds \/ DeployLost \/ RetryOnce
  \/ FinalizeTools \/ ReadForTrace \/ \E ok \in BOOLEAN : WriteTrace(ok)
  \/ Report

Delete ==
  \/ \E rmdir \in BOOLEAN : BeginDelete(rmdir)
  \/ DropStore \/ DeleteApp \/ ConfirmGone \/ DeleteFolder

RolloutNext ==
  \/ Deploy \/ Delete \/ Fail
  \/ Service /\ UNCHANGED <<userAuth, store, folder, yaml, d>>

RolloutSpec == RolloutInit /\ [][RolloutNext]_rolloutVars

---------------------------------------------------------------------------
RolloutTypeOK ==
  /\ app \in App /\ apps \in 0..MaxApps /\ outside \in 0..MaxOutside
  /\ late \subseteq Others \cup Scopes
  /\ userAuth \in BOOLEAN /\ store \in 0..MaxApps /\ folder \subseteq Version
  /\ yaml \in BOOLEAN /\ d \in Command

(* Whatever step of whatever deploy or delete failed, the version that runs, *)
(* and the one being rolled out, have every tool permission and grant their  *)
(* source asks for, a Runtime Store of their own App or none left, and the   *)
(* uploaded folder an App would recover from.                                *)
RunningVersionIsServed ==
  \A v \in app.active \cup app.pending :
    /\ \A t \in Tools : Planned(v.bound)[t] <= app.res.tool[t]
    /\ Grants(v.bound) \subseteq app.uc
    /\ store \in {0, app.id}
    /\ folder # {}

(* A deploy's update of the App removes another owner's resource or scope    *)
(* only if it was attached after the deploy last read the App, and the trace *)
(* resource only for a project that unbound its experiment: neither an       *)
(* unreadable App nor an experiment that failed to resolve looks like one.   *)
UpdatesDropOnlyTheLate ==
  [][ d' # d /\ app'.id = app.id =>
        /\ app.res.other \ app'.res.other \subseteq late
        /\ app.scopes \ app'.scopes \subseteq late
        /\ (app.res.trace /\ ~app'.res.trace => d.trace = "unbound") ]_rolloutVars

(* Every version of an App that this tool created names the Runtime Store    *)
(* schema a clean first deploy writes, whatever earlier deploys left undone; *)
(* an App that was there before never gets it.  A request-user project is    *)
(* exempt: its scope plan takes the App of a first deploy that stopped for   *)
(* one that was deployed before, and the resumed deploy writes no schema.    *)
(* There too a version that names the schema is never followed by one that   *)
(* does not, whatever is deployed, redone by a start or deleted in between.  *)
ResumeKeepsSchema ==
  /\ \A v \in app.active \cup app.pending :
       /\ v.schema => app.here
       /\ app.here /\ ~userAuth => v.schema
  /\ \A v \in app.active, w \in app.pending : v.schema => w.schema

(* A deploy that reports success has its own upload running, with exactly    *)
(* the tool permissions of its agent.toml.                                   *)
SuccessMeansRunning ==
  At("report") /\ Exists =>
    /\ app.active = folder /\ app.active # {} /\ \A v \in app.active : v.n = d.n
    /\ app.res.tool = Planned(d.bound)

(* Through failures, resumes and other owners a deploy keeps its promises,   *)
(* and its updates of the App drop nothing on the way.                       *)
RolloutsAreSafe ==
  /\ [](RolloutTypeOK /\ RunningVersionIsServed /\ ResumeKeepsSchema /\ SuccessMeansRunning)
  /\ UpdatesDropOnlyTheLate
=============================================================================
