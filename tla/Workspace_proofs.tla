--------------------------- MODULE Workspace_proofs ---------------------------
(***************************************************************************)
(* Theorems about components that MCWorkspace runs: Rollout, ModelSearch and *)
(* McpTools.                                                                 *)
(*                                                                         *)
(* Rollout, for any number of deploys, Apps, tools, scopes and changes by  *)
(* other owners: a deploy raises what the new version needs before it      *)
(* rolls it out, and lowers what the old one had only when the new one     *)
(* runs and no start can bring the old one back; what it writes back is    *)
(* what it read, up to what came late; and whatever it knows of the App it *)
(* still knows, or the App is gone, because nobody else creates one.       *)
(* ModelSearch: what a candidate is scored by is served by that candidate. *)
(* McpTools: a request serves the manifest it read, whatever became of it, *)
(* and what it heard of a server or a call is what the tool's identity     *)
(* makes of it.                                                            *)
(***************************************************************************)
EXTENDS Rollout, ModelSearch, McpTools, TLAPS

Versions == app.active \cup app.pending

(* The App that exists, and the schema that its versions and app.yaml name. *)
AppStands ==
  /\ app.id = 0 => app = NoApp
  /\ Exists /\ ~app.here => app.active # {}
  /\ yaml /\ Exists => app.here
  /\ app.here /\ ~userAuth /\ Versions # {} => yaml

(* What a version that runs, or is rolled out, rests on. *)
Served(v) ==
  /\ \A t \in Tools : Planned(v.bound)[t] <= app.res.tool[t]
  /\ Grants(v.bound) \subseteq app.uc
  /\ store \in {0, app.id}
  /\ folder # {}
  /\ v.schema => app.here
  /\ app.here /\ ~userAuth => v.schema

AllServed == \A v \in Versions : Served(v)

(* The schema, once named, is named by all that comes after: by what is rolled out after   *)
(* what runs, by the folder after both, and by app.yaml after the folder.                  *)
SchemaKept ==
  /\ \A v \in Versions : (v.schema => yaml) /\ \A w \in folder : v.schema => w.schema
  /\ \A v \in app.active, w \in Versions : v.schema => w.schema
  /\ \A v, w \in app.pending : v.schema => w.schema

(* The steps of a deploy, by what it knows when it is there. *)
First == {"start", "reconcile", "drift", "scopes", "converge", "ready", "store"}
Adding == {"addRead", "addWrite", "addVerify"}
Ending == {"endRead", "endWrite", "endVerify"}
Reporting == {"traceRead", "traceWrite", "report"}
Rolling == {"deploy", "deploying", "refused"} \cup Ending \cup Reporting
Stored == {"sync", "join", "settle", "grant"} \cup Adding \cup Rolling
Uploaded == Rolling \cup {"settle"} \cup (IF userAuth THEN {} ELSE Stored \ {"sync"})
Ready == {"deploy", "deploying", "refused"} \cup (IF userAuth THEN {"sync"} ELSE {})
           \cup (IF d.retried THEN {"settle"} ELSE {})

(* The version this deploy uploads. *)
Own == [n |-> d.n, bound |-> d.bound, schema |-> yaml]

FirstKnown ==
  /\ At("plan") => userAuth
  /\ At("start") /\ d.saw = "absent" => ~Exists /\ ~d.existed
  /\ d.pc \in First /\ Exists => /\ d.existed \/ app.here
                                 /\ d.existed /\ app.here /\ ~userAuth => yaml

StoreKnown ==
  /\ At("join") => ~userAuth
  /\ d.pc \in Stored /\ Exists => store = app.id /\ (app.here /\ ~userAuth => yaml)
  /\ d.pc \in Uploaded => folder = {Own}
  /\ d.retried => d.pc \in Rolling \cup {"settle"}

AccessKnown ==
  /\ d.pc \in Ready \cup Adding /\ Exists => Grants(d.bound) \subseteq app.uc
  /\ d.pc \in Ready /\ Exists => \A t \in Tools : Planned(d.bound)[t] <= app.res.tool[t]

(* What was read and will be written back. *)
SeenKnown ==
  /\ At("scopes") /\ Exists => app.scopes \ d.scopes \subseteq late
  /\ d.pc \in {"addWrite", "endWrite", "traceWrite"} /\ Exists =>
       /\ d.seen.tool = app.res.tool /\ d.seen.trace = app.res.trace
       /\ app.res.other \ d.seen.other \subseteq late

RunKnown ==
  /\ d.pc \in Ending \cup Reporting /\ Exists =>
       app.active = folder /\ app.pending \subseteq folder
  /\ d.pc \in Reporting /\ Exists => app.res.tool = Planned(d.bound)
  /\ At("traceWrite") => d.trace # "failed"
  /\ At("rmdir") => ~Exists

Knows == FirstKnown /\ StoreKnown /\ AccessKnown /\ SeenKnown /\ RunKnown

RolloutInv == RolloutTypeOK /\ AppStands /\ AllServed /\ SchemaKept /\ Knows

-----------------------------------------------------------------------------
(* Types *)

(* Proceed changes the step of the command and nothing else. *)
LEMMA Proceeds ==
  ASSUME d \in Command, NEW pc \in Step, Proceed(pc)
  PROVE  /\ d' \in Command /\ d'.pc = pc /\ d'.n = d.n /\ d'.bound = d.bound
         /\ d'.trace = d.trace /\ d'.saw = d.saw /\ d'.existed = d.existed
         /\ d'.scopes = d.scopes /\ d'.seen = d.seen /\ d'.retried = d.retried
         /\ d'.id = d.id /\ d'.rmdir = d.rmdir
BY DEF Proceed, Command

(* A command that is over leaves an operator who waits. *)
LEMMA NoCommandType ==
  ASSUME AppAssumption, NEW n \in 0..MaxDeploys
  PROVE  /\ NoCommand(n) \in Command
         /\ NoCommand(n).pc = "idle" /\ NoCommand(n).n = n /\ ~NoCommand(n).retried
<1>1. NoResources \in Resources
  BY DEF NoResources, Resources
<1>2. {} \in Manifests /\ 0 \in 0..MaxApps
  BY DEF AppAssumption
<1>. QED
  BY <1>1, <1>2 DEF NoCommand, Command, Step

(* A command that is over keeps its number and nothing else. *)
LEMMA OverType ==
  ASSUME AppAssumption, d \in Command, Over
  PROVE  d' \in Command /\ d'.pc = "idle" /\ ~d'.retried /\ d'.n = d.n
BY NoCommandType DEF Over, Command

(* What an operator without a command knows: nothing. *)
LEMMA IdleKnows == ASSUME d'.pc = "idle", ~d'.retried PROVE Knows'
BY DEF Knows, FirstKnown, StoreKnown, AccessKnown, SeenKnown, RunKnown, At, First, Stored,
       Uploaded, Ready, Rolling, Adding, Ending, Reporting

(* Permissions are levels, and the strongest of two is no weaker than either. *)
LEMMA Permissions ==
  /\ \A m : Planned(m) \in [Tools -> 0..2]
  /\ \A held, wanted \in [Tools -> 0..2] :
       /\ Strongest(held, wanted) \in [Tools -> 0..2]
       /\ \A t \in Tools : /\ held[t] <= Strongest(held, wanted)[t]
                           /\ wanted[t] <= Strongest(held, wanted)[t]
<1>1. ASSUME NEW m PROVE Planned(m) \in [Tools -> 0..2]
  BY DEF Planned
<1>2. ASSUME NEW held \in [Tools -> 0..2], NEW wanted \in [Tools -> 0..2]
      PROVE  /\ Strongest(held, wanted) \in [Tools -> 0..2]
             /\ \A t \in Tools : /\ held[t] <= Strongest(held, wanted)[t]
                                 /\ wanted[t] <= Strongest(held, wanted)[t]
  BY DEF Strongest
<1>. QED
  BY <1>1, <1>2

(* What a deploy wants of the tools it last saw. *)
LEMMA WantedType ==
  ASSUME NEW held \in [Tools -> 0..2] PROVE Wanted(held) \in [Tools -> 0..2]
BY Permissions DEF Wanted

(* An App whose fields are replaced is an App. *)
LEMMA AppUpdates ==
  ASSUME app \in App
  PROVE  /\ \A c \in {"STOPPED", "STARTING", "ACTIVE"}, b \in BOOLEAN :
              [app EXCEPT !.compute = c, !.restart = b] \in App
         /\ \A c \in {"STOPPED", "STARTING", "ACTIVE"} : [app EXCEPT !.compute = c] \in App
         /\ \A r \in Resources : [app EXCEPT !.res = r] \in App
         /\ \A s \in SUBSET Scopes : [app EXCEPT !.scopes = s] \in App
         /\ \A u \in SUBSET Services : [app EXCEPT !.uc = u] \in App
         /\ \A v \in SUBSET Version : [app EXCEPT !.pending = v] \in App
         /\ \A v, w \in SUBSET Version : [app EXCEPT !.pending = v, !.active = w] \in App
         /\ [app EXCEPT !.deleting = TRUE] \in App /\ [app EXCEPT !.sp = TRUE] \in App
         /\ [app EXCEPT !.effective = app.scopes] \in App
BY DEF App

(* No App and a new one are Apps. *)
LEMMA AppTypes ==
  ASSUME AppAssumption
  PROVE  /\ NoApp \in App /\ Legacy \in App
         /\ \A id \in 0..MaxApps, s \in SUBSET Scopes : Created(id, s) \in App
<1>1. NoResources \in Resources
  BY DEF NoResources, Resources
<1>2. NoApp \in App
  BY <1>1 DEF NoApp, App, AppAssumption
<1>3. [n |-> 0, bound |-> {}, schema |-> FALSE] \in Version /\ 1 \in 0..MaxApps
  BY DEF AppAssumption, Version
<1>4. Legacy \in App
  BY <1>2, <1>3 DEF Legacy, App
<1>5. ASSUME NEW id \in 0..MaxApps, NEW s \in SUBSET Scopes PROVE Created(id, s) \in App
  BY <1>2, <1>5 DEF Created, App
<1>. QED
  BY <1>2, <1>4, <1>5

(* The parts of the types that most steps leave alone. *)
LEMMA DeployCommandType ==
  ASSUME AppAssumption, RolloutTypeOK, Deploy
  PROVE  d' \in Command
<1>. d \in Command /\ app \in App
  BY DEF RolloutTypeOK
<1>1. ASSUME NEW m \in Manifests, NEW tracing \in {"bound", "unbound"}, BeginDeploy(m, tracing)
      PROVE  d' \in Command
  <2>1. d.n + 1 \in 0..MaxDeploys
    BY <1>1 DEF BeginDeploy, Command, AppAssumption
  <2>2. NoCommand(d.n + 1) \in Command
    BY <2>1, NoCommandType
  <2>. QED
    BY <1>1, <2>2 DEF BeginDeploy, Command, Step
<1>2. ASSUME NEW allow \in BOOLEAN, PlanScopes(allow) PROVE d' \in Command
  <2>1. app.scopes \in SUBSET Scopes /\ Exists \in BOOLEAN
    BY DEF App, Exists
  <2>2. [d EXCEPT !.pc = "reconcile", !.existed = Exists, !.scopes = app.scopes] \in Command
    BY <2>1 DEF Command, Step
  <2>3. Over \/ d' = [d EXCEPT !.pc = "reconcile", !.existed = Exists, !.scopes = app.scopes]
    BY <1>2, Zenon DEF PlanScopes
  <2>. QED
    BY <2>2, <2>3, OverType
<1>3. CASE Look
  <2>1. PICK saw \in {"absent", "stopped", "other"} :
          d' = [d EXCEPT !.pc = "start", !.existed = app.active # {}, !.saw = saw]
    BY <1>3, Zenon DEF Look
  <2>2. (app.active # {}) \in BOOLEAN
    OBVIOUS
  <2>. QED
    BY <2>1, <2>2 DEF Command, Step
<1>4. CASE CreateApp \/ StartApp \/ NoStart
  <2>1. Proceed("reconcile")
    BY <1>4 DEF CreateApp, StartApp, NoStart
  <2>2. "reconcile" \in Step
    BY DEF Step
  <2>. QED
    BY <2>1, <2>2, Proceeds
<1>5. CASE Reconcile
  <2>1. PICK resolved \in {"bound", "failed", "unbound"}, pc \in {"drift", "store"} :
          d' = [d EXCEPT !.pc = pc, !.trace = resolved]
    BY <1>5, Zenon DEF Reconcile
  <2>. QED
    BY <2>1 DEF Command, Step
<1>6. CASE CreateScoped \/ CheckDrift
  BY <1>6, Proceeds, OverType DEF CreateScoped, CheckDrift, Step
<1>7. CASE AddScopes \/ ScopesConverged \/ ScopedAppActive
  BY <1>7, Proceeds DEF AddScopes, ScopesConverged, ScopedAppActive, Step
<1>8. CASE RuntimeStore \/ Sync
  BY <1>8, Proceeds, OverType DEF RuntimeStore, Sync, Step
<1>9. CASE Join \/ \E u \in BOOLEAN : PreviousSettled(u)
  BY <1>9, Proceeds DEF Join, PreviousSettled, Step
<1>10. CASE GrantServices
  BY <1>10, Proceeds, OverType DEF GrantServices, Step
<1>11. ASSUME NEW at, NEW write \in Step, NEW skip \in Step, ReadTools(at, write, skip)
       PROVE  d' \in Command
  BY <1>11 DEF ReadTools, Command, App
<1>12. ASSUME NEW at, NEW verify \in Step, WriteTools(at, verify) \/ VerifyTools(at, verify)
       PROVE  d' \in Command
  BY <1>12, Proceeds DEF WriteTools, VerifyTools
<1>13. CASE AddTools \/ FinalizeTools
  BY <1>13, <1>11, <1>12 DEF AddTools, FinalizeTools, Step
<1>14. CASE DeployAccepted \/ DeployRefused \/ DeployEnds \/ DeployLost
  BY <1>14, Proceeds DEF DeployAccepted, DeployRefused, DeployEnds, DeployLost, Step
<1>15. CASE RetryOnce
  <2>1. [d EXCEPT !.pc = "settle", !.retried = TRUE] \in Command
    BY DEF Command, Step
  <2>. QED
    BY <1>15, <2>1, OverType DEF RetryOnce
<1>16. CASE ReadForTrace
  <2>1. [d EXCEPT !.pc = "traceWrite", !.seen = app.res] \in Command
    BY DEF Command, Step, App
  <2>2. "report" \in Step
    BY DEF Step
  <2>. QED
    BY <1>16, <2>1, <2>2, Proceeds DEF ReadForTrace
<1>17. CASE Report \/ \E ok \in BOOLEAN : WriteTrace(ok)
  BY <1>17, Proceeds, OverType DEF Report, WriteTrace, Step
<1>. QED
  BY <1>1, <1>2, <1>3, <1>4, <1>5, <1>6, <1>7, <1>8, <1>9, <1>10, <1>13, <1>14, <1>15, <1>16,
     <1>17 DEF Deploy

(* A delete keeps the command in its type. *)
LEMMA DeleteCommandType ==
  ASSUME AppAssumption, RolloutTypeOK, Delete \/ Fail
  PROVE  d' \in Command
<1>. d \in Command /\ app \in App
  BY DEF RolloutTypeOK
<1>1. ASSUME NEW rmdir \in BOOLEAN, BeginDelete(rmdir) PROVE d' \in Command
  <2>1. app.id \in 0..MaxApps
    BY DEF App
  <2>. QED
    BY <1>1, <2>1 DEF BeginDelete, Command, Step
<1>2. CASE DropStore \/ DeleteApp \/ ConfirmGone
  BY <1>2, Proceeds, OverType DEF DropStore, DeleteApp, ConfirmGone, Step
<1>3. CASE DeleteFolder \/ Fail
  BY <1>3, OverType DEF DeleteFolder, Fail
<1>. QED
  BY <1>1, <1>2, <1>3 DEF Delete

(* The actions that change neither the App nor what the operator keeps. *)
Plain ==
  \/ \E m \in Manifests, tracing \in {"bound", "unbound"} : BeginDeploy(m, tracing)
  \/ \E allow \in BOOLEAN : PlanScopes(allow)
  \/ Look \/ NoStart \/ Reconcile \/ CheckDrift \/ ScopesConverged \/ ScopedAppActive
  \/ Join \/ \E u \in BOOLEAN : PreviousSettled(u)
  \/ \E at, write, skip \in Step : ReadTools(at, write, skip)
  \/ \E at, next \in Step : VerifyTools(at, next)
  \/ DeployRefused \/ DeployEnds \/ DeployLost \/ RetryOnce \/ ReadForTrace \/ Report
  \/ \E rmdir \in BOOLEAN : BeginDelete(rmdir)
  \/ ConfirmGone \/ Fail

(* A plain step of a deploy leaves the App and what the deploy knows alone. *)
LEMMA PlainIs ==
  ASSUME Plain
  PROVE  UNCHANGED <<app, apps, outside>> /\ late' \in {late, {}} /\ UNCHANGED local
BY DEF Plain, BeginDeploy, PlanScopes, Look, NoStart, Reconcile, CheckDrift, ScopesConverged,
       ScopedAppActive, Join, PreviousSettled, ReadTools, VerifyTools, DeployRefused, DeployEnds,
       DeployLost, RetryOnce, ReadForTrace, Report, BeginDelete, ConfirmGone, Fail, AppSame

(* The actions of a command that change the App. *)
LEMMA CommandKeepsTypes ==
  ASSUME AppAssumption, RolloutTypeOK, Deploy \/ Delete \/ Fail
  PROVE  RolloutTypeOK'
<1>. app \in App /\ d \in Command /\ apps \in 0..MaxApps
  BY DEF RolloutTypeOK
<1>0. d' \in Command
  BY DeployCommandType, DeleteCommandType
<1>1. CASE Plain
  BY <1>0, <1>1, PlainIs DEF RolloutTypeOK, local
<1>2. ASSUME NEW scopes \in SUBSET Scopes, Create(scopes), UNCHANGED <<outside, late>>,
             UNCHANGED local
      PROVE  RolloutTypeOK'
  <2>1. apps + 1 \in 0..MaxApps
    BY <1>2 DEF Create, AppAssumption
  <2>. QED
    BY <1>0, <1>2, <2>1, AppTypes DEF Create, RolloutTypeOK, local
<1>3. ASSUME app' \in App, UNCHANGED <<apps, outside, late>>, UNCHANGED local
      PROVE  RolloutTypeOK'
  BY <1>0, <1>3 DEF RolloutTypeOK, local
<1>4. CASE StartApp
  <2>1. PICK b \in BOOLEAN : app' = [app EXCEPT !.compute = "STARTING", !.restart = b]
    BY <1>4 DEF StartApp
  <2>. QED
    BY <1>3, <1>4, <2>1, AppUpdates DEF StartApp
<1>5. CASE AddScopes
  <2>1. d.scopes \cup Required \in SUBSET Scopes
    BY DEF Command, Scopes
  <2>2. app' \in App
    BY <1>5, <2>1, AppUpdates DEF AddScopes
  <2>. QED
    BY <1>3, <1>5, <2>2 DEF AddScopes
<1>6. CASE RuntimeStore
  <2>1. app.id \in 0..MaxApps
    BY DEF App
  <2>2. store' \in 0..MaxApps /\ yaml' \in BOOLEAN
    BY <1>6, <2>1 DEF RuntimeStore, NamesSchema, RolloutTypeOK
  <2>. QED
    BY <1>0, <1>6, <2>2 DEF RuntimeStore, AppSame, RolloutTypeOK
<1>7. CASE Sync
  <2>1. [n |-> d.n, bound |-> d.bound, schema |-> yaml] \in Version
    BY DEF Version, Command, RolloutTypeOK
  <2>. QED
    BY <1>0, <1>7, <2>1 DEF Sync, AppSame, RolloutTypeOK
<1>8. CASE GrantServices
  <2>1. PICK got \in SUBSET (Grants(d.bound) \ app.uc) : app' = [app EXCEPT !.uc = app.uc \cup got]
    BY <1>8, Zenon DEF GrantServices
  <2>2. app.uc \cup got \in SUBSET Services
    BY DEF Grants, App
  <2>. QED
    BY <1>3, <1>8, <2>1, <2>2, AppUpdates DEF GrantServices
<1>9. ASSUME NEW at, NEW verify, WriteTools(at, verify) PROVE RolloutTypeOK'
  <2>1. d.seen \in Resources /\ d.seen.tool \in [Tools -> 0..2]
    BY DEF Command, Resources
  <2>2. [d.seen EXCEPT !.tool = Wanted(d.seen.tool)] \in Resources
    BY <2>1, WantedType DEF Resources
  <2>. QED
    BY <1>3, <1>9, <2>2, AppUpdates DEF WriteTools
<1>10. CASE DeployAccepted
  BY <1>3, <1>10, AppUpdates DEF DeployAccepted, RolloutTypeOK
<1>11. ASSUME NEW ok \in BOOLEAN, WriteTrace(ok) PROVE RolloutTypeOK'
  <2>1. d.seen \in Resources /\ (d.trace = "bound") \in BOOLEAN
    BY DEF Command
  <2>2. [d.seen EXCEPT !.trace = d.trace = "bound"] \in Resources
    BY <2>1 DEF Resources
  <2>3. app' \in {app, [app EXCEPT !.res = [d.seen EXCEPT !.trace = d.trace = "bound"]]}
    BY <1>11 DEF WriteTrace
  <2>. QED
    BY <1>3, <1>11, <2>2, <2>3, AppUpdates DEF WriteTrace
<1>12. CASE DropStore \/ DeleteFolder
  <2>1. store' \in 0..MaxApps /\ folder' \subseteq Version /\ yaml' = yaml /\ userAuth' = userAuth
    BY <1>12 DEF DropStore, DeleteFolder, RolloutTypeOK, AppAssumption
  <2>. QED
    BY <1>0, <1>12, <2>1 DEF DropStore, DeleteFolder, AppSame, RolloutTypeOK
<1>13. CASE DeleteApp
  BY <1>3, <1>13, AppUpdates DEF DeleteApp
<1>14. CASE CreateApp \/ CreateScoped
  <2>1. {} \subseteq Scopes /\ Required \subseteq Scopes
    BY DEF Scopes
  <2>. QED
    BY <1>2, <1>14, <2>1 DEF CreateApp, CreateScoped
<1>15. CASE AddTools \/ FinalizeTools
  <2>1. Plain \/ \E at, verify \in Step : WriteTools(at, verify)
    BY <1>15 DEF AddTools, FinalizeTools, Plain, Step
  <2>. QED
    BY <1>1, <1>9, <2>1
<1>16. CASE Delete \/ Fail
  BY <1>1, <1>12, <1>13, <1>16 DEF Delete, Plain
<1>. QED
  BY <1>1, <1>4, <1>5, <1>6, <1>7, <1>8, <1>10, <1>11, <1>14, <1>15, <1>16 DEF Deploy, Plain

(* What the Apps service and the App's other owners do. *)
LEMMA ServiceKeepsTypes ==
  ASSUME AppAssumption, RolloutTypeOK, Service, UNCHANGED <<userAuth, store, folder, yaml, d>>
  PROVE  RolloutTypeOK'
<1>. app \in App /\ outside \in 0..MaxOutside /\ late \subseteq Others \cup Scopes
  BY DEF RolloutTypeOK
<1>1. ASSUME app' \in App, apps' = apps, outside' \in {outside, outside + 1},
             outside' = outside \/ outside < MaxOutside, late' \subseteq Others \cup Scopes
      PROVE  RolloutTypeOK'
  <2>1. outside' \in 0..MaxOutside
    BY <1>1 DEF AppAssumption
  <2>. QED
    BY <1>1, <2>1 DEF RolloutTypeOK
<1>2. CASE BecomeActive \/ PrincipalAppears \/ Converge
  BY <1>1, <1>2, AppUpdates DEF BecomeActive, PrincipalAppears, Converge
<1>3. CASE Surface
  <2>1. app' = [app EXCEPT !.restart = FALSE, !.pending = app.active]
    BY <1>3 DEF Surface
  <2>2. app' \in App
    BY <2>1 DEF App
  <2>. QED
    BY <1>1, <1>3, <2>2 DEF Surface
<1>4. ASSUME NEW ok \in BOOLEAN, Settle(ok) PROVE RolloutTypeOK'
  <2>1. PICK v \in {app.active, app.pending} : app' = [app EXCEPT !.pending = {}, !.active = v]
    BY <1>4, Zenon DEF Settle
  <2>2. v \in SUBSET Version
    BY DEF App
  <2>3. app' \in App
    BY <2>1, <2>2 DEF App
  <2>. QED
    BY <1>1, <1>4, <2>3 DEF Settle
<1>5. CASE Gone
  BY <1>1, <1>5, AppTypes DEF Gone
<1>6. ASSUME NEW rs \in SUBSET Others, OtherResources(rs) PROVE RolloutTypeOK'
  <2>1. [app.res EXCEPT !.other = rs] \in Resources
    BY DEF App, Resources
  <2>. QED
    BY <1>1, <1>6, <2>1, AppUpdates DEF OtherResources
<1>7. ASSUME NEW s \in OtherScopes, OtherScope(s) PROVE RolloutTypeOK'
  <2>1. app.scopes \cup {s} \in SUBSET Scopes /\ late' \subseteq Others \cup Scopes
    BY <1>7 DEF App, Scopes, OtherScope
  <2>. QED
    BY <1>1, <1>7, <2>1, AppUpdates DEF OtherScope
<1>8. CASE StopApp
  BY <1>1, <1>8, AppUpdates DEF StopApp
<1>. QED
  BY <1>2, <1>3, <1>4, <1>5, <1>6, <1>7, <1>8 DEF Service

-----------------------------------------------------------------------------
(* What the Apps service does under a deploy *)

(* What the invariant says of an App depends on these of its fields. *)
AppLooksTheSame ==
  /\ app'.id = app.id /\ app'.here = app.here /\ app'.active = app.active
  /\ app'.pending = app.pending /\ app'.restart = app.restart /\ app'.res = app.res
  /\ app'.uc = app.uc /\ app'.scopes = app.scopes

(* An App that is gone leaves nothing to be known. *)
LEMMA GoneKeeps ==
  ASSUME RolloutInv, Gone, UNCHANGED <<userAuth, store, folder, yaml, d>>
  PROVE  AppStands' /\ AllServed' /\ Knows'
<1>1. /\ app'.id = 0 /\ app' = NoApp /\ app'.active = {} /\ app'.pending = {} /\ ~app'.restart
      /\ ~Exists'
  BY DEF Gone, NoApp, Exists
<1>2. AppStands' /\ AllServed'
  BY <1>1 DEF AppStands, AllServed, Versions
<1>3. FirstKnown' /\ SeenKnown' /\ AccessKnown'
  BY <1>1 DEF RolloutInv, Knows, FirstKnown, SeenKnown, AccessKnown, At
<1>4. StoreKnown' /\ RunKnown'
  BY <1>1 DEF RolloutInv, Knows, StoreKnown, RunKnown, At, Uploaded, Own
<1>. QED
  BY <1>2, <1>3, <1>4 DEF Knows

(* A step that the invariant does not look at keeps it. *)
LEMMA LooksKeeps ==
  ASSUME RolloutInv, Exists, AppLooksTheSame, UNCHANGED <<userAuth, store, folder, yaml, d>>,
         late \subseteq late'
  PROVE  AppStands' /\ AllServed' /\ Knows'
<1>1. Exists' /\ Versions' = Versions
  BY DEF Exists, AppLooksTheSame, Versions
<1>2. AppStands'
  BY <1>1 DEF AppLooksTheSame, RolloutInv, AppStands, Exists
<1>3. AllServed'
  BY <1>1 DEF AppLooksTheSame, RolloutInv, AllServed, Served
<1>4. FirstKnown' /\ StoreKnown' /\ AccessKnown'
  BY <1>1 DEF AppLooksTheSame, RolloutInv, Knows, FirstKnown, StoreKnown, AccessKnown, At,
              Uploaded, Ready, Own
<1>5. SeenKnown' /\ RunKnown'
  BY <1>1 DEF AppLooksTheSame, RolloutInv, Knows, SeenKnown, RunKnown, At
<1>. QED
  BY <1>4, <1>5, <1>2, <1>3 DEF Knows

(* A start's rollout surfaces: what runs is rolled out again. *)
LEMMA SurfaceKeeps ==
  ASSUME RolloutInv, Surface, UNCHANGED <<userAuth, store, folder, yaml, d>>
  PROVE  AppStands' /\ AllServed' /\ Knows'
<1>. app \in App /\ app.restart /\ app.pending = {}
  BY DEF RolloutInv, RolloutTypeOK, Surface
<1>0. Exists
  BY DEF RolloutInv, AppStands, NoApp, Exists
<1>1. /\ app'.id = app.id /\ app'.here = app.here /\ app'.active = app.active
      /\ app'.pending = app.active /\ ~app'.restart /\ app'.res = app.res
      /\ app'.uc = app.uc /\ app'.scopes = app.scopes /\ late' = late
  BY DEF Surface, App
<1>2. Versions' = Versions /\ Exists' = Exists
  BY <1>1 DEF Versions, Exists
<1>3. AppStands'
  BY <1>0, <1>1, <1>2 DEF RolloutInv, AppStands, Exists
<1>4. AllServed'
  BY <1>1, <1>2 DEF RolloutInv, AllServed, Served
<1>5. FirstKnown' /\ StoreKnown' /\ AccessKnown'
  BY <1>1, <1>2 DEF RolloutInv, Knows, FirstKnown, StoreKnown, AccessKnown, At, Uploaded, Ready, Own
<1>6. SeenKnown' /\ RunKnown'
  BY <1>1, <1>2 DEF RolloutInv, Knows, SeenKnown, RunKnown, At
<1>. QED
  BY <1>3, <1>4, <1>5, <1>6 DEF Knows

(* A rollout ends, with its version or without. *)
LEMMA SettleKeeps ==
  ASSUME RolloutInv, NEW ok \in BOOLEAN, Settle(ok), UNCHANGED <<userAuth, store, folder, yaml, d>>
  PROVE  AppStands' /\ AllServed' /\ Knows'
<1>. app \in App /\ app.pending # {}
  BY DEF RolloutInv, RolloutTypeOK, Settle
<1>0. Exists
  BY DEF RolloutInv, AppStands, NoApp, Exists
<1>1. /\ app'.id = app.id /\ app'.here = app.here /\ app'.active \in {app.pending, app.active}
      /\ app'.pending = {} /\ app'.restart = app.restart /\ app'.res = app.res
      /\ app'.uc = app.uc /\ app'.scopes = app.scopes /\ late' = late
  BY DEF Settle, App
<1>2. Versions' \subseteq Versions /\ Exists' = Exists
  BY <1>1 DEF Versions, Exists
<1>3. AppStands'
  BY <1>0, <1>1, <1>2 DEF RolloutInv, AppStands, Exists
<1>4. AllServed'
  BY <1>1, <1>2 DEF RolloutInv, AllServed, Served
<1>5. FirstKnown' /\ StoreKnown' /\ AccessKnown'
  BY <1>1, <1>2 DEF RolloutInv, Knows, FirstKnown, StoreKnown, AccessKnown, At, Uploaded, Ready, Own
<1>6. SeenKnown'
  BY <1>1, <1>2 DEF RolloutInv, Knows, SeenKnown, At
<1>7. RunKnown'
  <2>1. ASSUME d.pc \in Ending \cup Reporting PROVE app'.active = folder
    <3>1. folder = {Own}
      BY <2>1 DEF RolloutInv, Knows, StoreKnown, Uploaded, Rolling
    <3>2. app.active = folder /\ app.pending \subseteq folder
      BY <1>0, <2>1 DEF RolloutInv, Knows, RunKnown
    <3>. QED
      BY <1>1, <3>1, <3>2
  <2>. QED
    BY <1>1, <1>2, <2>1 DEF RolloutInv, Knows, RunKnown, At
<1>. QED
  BY <1>3, <1>4, <1>5, <1>6, <1>7 DEF Knows

(* What other owners leave of an App. *)
OthersLeave ==
  /\ app'.id = app.id /\ app'.here = app.here /\ app'.active = app.active
  /\ app'.pending = app.pending /\ app'.restart \in {app.restart, FALSE}
  /\ app'.res.tool = app.res.tool /\ app'.res.trace = app.res.trace
  /\ app'.uc = app.uc
  /\ app'.res.other \subseteq app.res.other \cup late' /\ app'.scopes \subseteq app.scopes \cup late'

(* Another owner attaches or removes a resource, adds a scope, or stops the App. *)
LEMMA OthersKeep ==
  ASSUME RolloutInv, UNCHANGED <<userAuth, store, folder, yaml, d>>,
         \/ \E rs \in SUBSET Others : OtherResources(rs)
         \/ \E s \in OtherScopes : OtherScope(s)
         \/ StopApp
  PROVE  AppStands' /\ AllServed' /\ Knows'
<1>. app \in App /\ app.res \in Resources
  BY DEF RolloutInv, RolloutTypeOK, App
<1>0. Exists /\ late \subseteq late'
  BY DEF OtherResources, OtherScope, StopApp
<1>a. ASSUME \E rs \in SUBSET Others : OtherResources(rs)
      PROVE  OthersLeave
  <2>1. PICK rs \in SUBSET Others : OtherResources(rs)
    BY <1>a
  <2>2. /\ app'.id = app.id /\ app'.here = app.here /\ app'.active = app.active
        /\ app'.pending = app.pending /\ app'.restart = app.restart /\ app'.uc = app.uc
        /\ app'.scopes = app.scopes /\ app'.res = [app.res EXCEPT !.other = rs]
        /\ late' = late \cup (rs \ app.res.other)
    BY <2>1 DEF OtherResources, App
  <2>3. /\ app'.res.tool = app.res.tool /\ app'.res.trace = app.res.trace
        /\ app'.res.other = rs
    BY <2>2 DEF Resources
  <2>. QED
    BY <2>2, <2>3 DEF OthersLeave
<1>b. ASSUME \E s \in OtherScopes : OtherScope(s) PROVE OthersLeave
  <2>1. PICK s \in OtherScopes : OtherScope(s)
    BY <1>b
  <2>2. /\ app'.id = app.id /\ app'.here = app.here /\ app'.active = app.active
        /\ app'.pending = app.pending /\ app'.restart = app.restart /\ app'.uc = app.uc
        /\ app'.res = app.res /\ app'.scopes = app.scopes \cup {s} /\ late' = late \cup {s}
    BY <2>1 DEF OtherScope, App
  <2>. QED
    BY <2>2 DEF OthersLeave
<1>c. ASSUME StopApp PROVE OthersLeave
  <2>1. /\ app'.id = app.id /\ app'.here = app.here /\ app'.active = app.active
        /\ app'.pending = app.pending /\ app'.restart = FALSE /\ app'.uc = app.uc
        /\ app'.res = app.res /\ app'.scopes = app.scopes /\ late' = late
    BY <1>c DEF StopApp, App
  <2>. QED
    BY <2>1 DEF OthersLeave
<1>1. OthersLeave
  BY <1>a, <1>b, <1>c
<1>3. Versions' = Versions /\ Exists' = Exists
  BY <1>1 DEF OthersLeave, Versions, Exists
<1>4. AppStands'
  BY <1>0, <1>1, <1>3 DEF OthersLeave, RolloutInv, AppStands, Exists
<1>5. AllServed'
  BY <1>1, <1>3 DEF OthersLeave, RolloutInv, AllServed, Served
<1>6. FirstKnown' /\ StoreKnown' /\ AccessKnown'
  BY <1>1, <1>3 DEF OthersLeave, RolloutInv, Knows, FirstKnown, StoreKnown, AccessKnown, At, Uploaded, Ready, Own
<1>7. SeenKnown'
  BY <1>0, <1>1, <1>3 DEF OthersLeave, RolloutInv, Knows, SeenKnown, At
<1>8. RunKnown'
  BY <1>1, <1>3 DEF OthersLeave, RolloutInv, Knows, RunKnown, At
<1>. QED
  BY <1>4, <1>5, <1>6, <1>7, <1>8 DEF Knows

(* Whatever the service and other owners do, the invariant stands. *)
LEMMA ServiceKeeps ==
  ASSUME RolloutInv, Service, UNCHANGED <<userAuth, store, folder, yaml, d>>
  PROVE  AppStands' /\ AllServed' /\ Knows'
<1>. app \in App
  BY DEF RolloutInv, RolloutTypeOK
<1>1. CASE BecomeActive \/ PrincipalAppears \/ Converge
  <2>1. AppLooksTheSame /\ late' = late
    BY <1>1 DEF BecomeActive, PrincipalAppears, Converge, AppLooksTheSame, App
  <2>2. app # NoApp
    BY <1>1 DEF BecomeActive, PrincipalAppears, Converge, NoApp, Exists
  <2>3. Exists
    BY <2>2 DEF RolloutInv, AppStands, Exists
  <2>. QED
    BY <2>1, <2>3, LooksKeeps
<1>. QED
  BY <1>1, SurfaceKeeps, SettleKeeps, GoneKeeps, OthersKeep DEF Service

-----------------------------------------------------------------------------
(* What a command knows when it only reads and moves on *)

(* Before its Runtime Store a deploy learns whether the App is a first one's. *)
LEMMA FirstMoves ==
  ASSUME AppAssumption, RolloutInv, UNCHANGED app, UNCHANGED local,
         \/ \E m \in Manifests, tracing \in {"bound", "unbound"} : BeginDeploy(m, tracing)
         \/ \E allow \in BOOLEAN : PlanScopes(allow)
         \/ Look \/ NoStart \/ Reconcile \/ ScopesConverged \/ ScopedAppActive
  PROVE  Knows'
<1>. d \in Command /\ app \in App
  BY DEF RolloutInv, RolloutTypeOK
<1>0. Exists' = Exists /\ userAuth' = userAuth /\ store' = store /\ folder' = folder /\ yaml' = yaml
  BY DEF Exists, local
<1>1. ASSUME d'.pc \in First, d'.pc # "scopes", d.pc \in First \cup {"plan", "look"},
             d'.retried = d.retried, FirstKnown'
      PROVE  Knows'
  <2>1. ~d.retried
    BY <1>1 DEF RolloutInv, Knows, StoreKnown, First, Rolling, Ending, Reporting
  <2>. QED
    BY <1>1, <2>1 DEF Knows, StoreKnown, AccessKnown, SeenKnown, RunKnown, At, Uploaded, Ready,
                      First, Adding, Ending, Reporting, Rolling, Stored
<1>2. ASSUME NEW m \in Manifests, NEW tracing \in {"bound", "unbound"}, BeginDeploy(m, tracing)
      PROVE  Knows'
  <2>1. d.n + 1 \in 0..MaxDeploys
    <3>1. d.n \in 0..MaxDeploys /\ d.n < MaxDeploys
      BY <1>2 DEF BeginDeploy, Command
    <3>. QED
      BY <3>1 DEF AppAssumption
  <2>2. ~NoCommand(d.n + 1).retried /\ NoCommand(d.n + 1) \in Command
    BY <2>1, NoCommandType
  <2>3. ~d'.retried /\ d'.pc = IF userAuth THEN "plan" ELSE "look"
    BY <1>2, <2>2 DEF BeginDeploy, Command
  <2>. QED
    BY <1>0, <2>3 DEF Knows, FirstKnown, StoreKnown, AccessKnown, SeenKnown, RunKnown, At, Uploaded,
                      Ready, First, Adding, Ending, Reporting, Rolling, Stored
<1>3. ASSUME NEW allow \in BOOLEAN, PlanScopes(allow) PROVE Knows'
  <2>1. Over \/ d' = [d EXCEPT !.pc = "reconcile", !.existed = Exists, !.scopes = app.scopes]
    BY <1>3, Zenon DEF PlanScopes
  <2>2. CASE Over
    BY <2>2, OverType, IdleKnows
  <2>3. CASE d' = [d EXCEPT !.pc = "reconcile", !.existed = Exists, !.scopes = app.scopes]
    <3>1. d'.pc = "reconcile" /\ d'.existed = Exists /\ d'.retried = d.retried
      BY <2>3 DEF Command
    <3>2. userAuth /\ d.pc = "plan"
      BY <1>3 DEF PlanScopes, At, RolloutInv, Knows, FirstKnown
    <3>. QED
      BY <1>0, <1>1, <3>1, <3>2 DEF FirstKnown, At, First
  <2>. QED
    BY <2>1, <2>2, <2>3
<1>4. CASE Look
  <2>1. PICK saw \in {"absent", "stopped", "other"} :
          /\ d' = [d EXCEPT !.pc = "start", !.existed = app.active # {}, !.saw = saw]
          /\ saw = "absent" => ~Exists
    BY <1>4, Zenon DEF Look
  <2>2. d'.pc = "start" /\ d'.saw = saw /\ d'.existed = (app.active # {}) /\ d'.retried = d.retried
    BY <2>1 DEF Command
  <2>3. d.pc = "look" /\ (~Exists => app.active = {})
    BY <1>4 DEF Look, At, RolloutInv, AppStands, Exists, NoApp
  <2>4. FirstKnown'
    BY <1>0, <2>1, <2>2, <2>3 DEF FirstKnown, At, RolloutInv, AppStands, Versions
  <2>. QED
    BY <1>1, <2>2, <2>3, <2>4 DEF First
<1>5. CASE Reconcile
  <2>1. PICK resolved \in {"bound", "failed", "unbound"}, pc \in {"drift", "store"} :
          d' = [d EXCEPT !.pc = pc, !.trace = resolved]
    BY <1>5, Zenon DEF Reconcile
  <2>2. d'.pc = pc /\ d'.existed = d.existed /\ d'.retried = d.retried
    BY <2>1 DEF Command
  <2>3. d.pc = "reconcile"
    BY <1>5 DEF Reconcile, At
  <2>. QED
    BY <1>0, <1>1, <2>2, <2>3 DEF FirstKnown, At, First, RolloutInv, Knows
<1>6. CASE NoStart \/ ScopesConverged \/ ScopedAppActive
  <2>1. PICK pc \in {"reconcile", "ready", "store"} :
          Proceed(pc) /\ d.pc \in {"start", "converge", "ready"}
    BY <1>6 DEF NoStart, ScopesConverged, ScopedAppActive, At
  <2>2. d'.pc = pc /\ d'.existed = d.existed /\ d'.retried = d.retried
    BY <2>1, Proceeds DEF Step
  <2>. QED
    BY <1>0, <1>1, <2>1, <2>2 DEF FirstKnown, At, First, RolloutInv, Knows
<1>. QED
  BY <1>2, <1>3, <1>4, <1>5, <1>6

(* Between two reads of the App a request-user deploy plans its scopes. *)
LEMMA DriftMoves ==
  ASSUME AppAssumption, RolloutInv, CheckDrift, UNCHANGED local
  PROVE  Knows'
<1>. d \in Command /\ app \in App
  BY DEF RolloutInv, RolloutTypeOK
<1>1. d.pc = "drift" /\ app' = app
  BY DEF CheckDrift, At
<1>2. CASE Over
  BY <1>2, OverType, IdleKnows
<1>3. CASE Exists /\ app.scopes = d.scopes /\ Proceed("scopes")
  <2>1. /\ d'.pc = "scopes" /\ d'.existed = d.existed /\ d'.retried = d.retried
        /\ d'.scopes = d.scopes
    BY <1>3, Proceeds DEF Step
  <2>. QED
    BY <1>1, <1>3, <2>1 DEF local, Exists, RolloutInv, Knows, FirstKnown, StoreKnown, AccessKnown,
                            SeenKnown, RunKnown, At, Uploaded, Ready,
                            First, Adding, Ending, Reporting, Rolling, Stored
<1>. QED
  BY <1>2, <1>3 DEF CheckDrift

(* A deploy that joins the App's compute, and waits for a start's rollout. *)
LEMMA JoinMoves ==
  ASSUME AppAssumption, RolloutInv, UNCHANGED local,
         Join \/ \E u \in BOOLEAN : PreviousSettled(u)
  PROVE  Knows'
<1>. d \in Command /\ app \in App
  BY DEF RolloutInv, RolloutTypeOK
<1>0. app' = app /\ Exists' = Exists
  BY DEF Join, PreviousSettled, AppSame, Exists
<1>1. CASE Join
  <2>1. PICK pc \in {"settle", "grant"} : Proceed(pc)
    BY <1>1 DEF Join
  <2>2. d'.pc = pc /\ d'.retried = d.retried /\ d'.n = d.n /\ d'.bound = d.bound
    BY <2>1, Proceeds DEF Step
  <2>3. d.pc = "join"
    BY <1>1 DEF Join, At
  <2>. QED
    BY <1>0, <2>2, <2>3 DEF local, RolloutInv, Knows, FirstKnown, StoreKnown, AccessKnown,
                            SeenKnown, RunKnown, At, Uploaded, Ready, Own,
                            First, Adding, Ending, Reporting, Rolling, Stored
<1>2. CASE \E u \in BOOLEAN : PreviousSettled(u)
  <2>1. PICK pc \in {"deploy", "grant"} : Proceed(pc) /\ (pc = "deploy" <=> d.retried)
    BY <1>2 DEF PreviousSettled
  <2>2. d'.pc = pc /\ d'.retried = d.retried /\ d'.n = d.n /\ d'.bound = d.bound
    BY <2>1, Proceeds DEF Step
  <2>3. d.pc = "settle"
    BY <1>2 DEF PreviousSettled, At
  <2>. QED
    BY <1>0, <2>1, <2>2, <2>3
       DEF local, RolloutInv, Knows, FirstKnown, StoreKnown, AccessKnown,
           SeenKnown, RunKnown, At, Uploaded, Ready, Own,
           First, Adding, Ending, Reporting, Rolling, Stored
<1>. QED
  BY <1>1, <1>2

(* What a deploy wants before the rollout, and after it. *)
LEMMA WantedIs ==
  /\ d.pc \in Adding => \A held : Wanted(held) = Strongest(held, Planned(d.bound))
  /\ d.pc \in Ending => \A held : Wanted(held) = Planned(d.bound)
BY DEF Wanted, At, Adding, Ending

(* A read of the resource array finds it as wanted, or keeps it for the write. *)
LEMMA ReadMoves ==
  ASSUME AppAssumption, RolloutInv, UNCHANGED local,
         \/ ReadTools("addRead", "addWrite", IF userAuth THEN "sync" ELSE "deploy")
         \/ ReadTools("endRead", "endWrite", "traceRead")
  PROVE  Knows'
<1>. d \in Command /\ app \in App /\ app.res.tool \in [Tools -> 0..2]
  BY DEF RolloutInv, RolloutTypeOK, App, Resources
<1>0. app' = app /\ Exists' = Exists
  BY DEF ReadTools, Exists
<1>1. CASE ReadTools("addRead", "addWrite", IF userAuth THEN "sync" ELSE "deploy")
  <2>0. d.pc = "addRead"
    BY <1>1 DEF ReadTools, At
  <2>1. PICK pc \in {"addWrite", "sync", "deploy"} :
          /\ d' = [d EXCEPT !.pc = pc, !.seen = app.res]
          /\ pc # "addWrite" => /\ Wanted(app.res.tool) = app.res.tool
                                /\ pc = IF userAuth THEN "sync" ELSE "deploy"
    BY <1>1 DEF ReadTools
  <2>2. /\ d'.pc = pc /\ d'.seen = app.res /\ d'.retried = d.retried /\ d'.n = d.n
        /\ d'.bound = d.bound
    BY <2>1 DEF Command
  <2>3. pc # "addWrite" => \A t \in Tools : Planned(d.bound)[t] <= app.res.tool[t]
    BY <2>0, <2>1, WantedIs, Permissions DEF Adding
  <2>. QED
    BY <1>0, <2>0, <2>1, <2>2, <2>3
       DEF local, RolloutInv, Knows, FirstKnown, StoreKnown, AccessKnown,
           SeenKnown, RunKnown, At, Uploaded, Ready, Own,
           First, Adding, Ending, Reporting, Rolling, Stored
<1>2. CASE ReadTools("endRead", "endWrite", "traceRead")
  <2>0. d.pc = "endRead"
    BY <1>2 DEF ReadTools, At
  <2>1. PICK pc \in {"endWrite", "traceRead"} :
          /\ d' = [d EXCEPT !.pc = pc, !.seen = app.res]
          /\ pc # "endWrite" => Wanted(app.res.tool) = app.res.tool
    BY <1>2 DEF ReadTools
  <2>2. /\ d'.pc = pc /\ d'.seen = app.res /\ d'.retried = d.retried /\ d'.n = d.n
        /\ d'.bound = d.bound
    BY <2>1 DEF Command
  <2>3. pc # "endWrite" => app.res.tool = Planned(d.bound)
    BY <2>0, <2>1, WantedIs DEF Ending
  <2>. QED
    BY <1>0, <2>0, <2>1, <2>2, <2>3
       DEF local, RolloutInv, Knows, FirstKnown, StoreKnown, AccessKnown,
           SeenKnown, RunKnown, At, Uploaded, Ready, Own,
           First, Adding, Ending, Reporting, Rolling, Stored
<1>. QED
  BY <1>1, <1>2

(* A read after the write finds what was written. *)
LEMMA VerifyMoves ==
  ASSUME AppAssumption, RolloutInv, UNCHANGED local,
         \/ VerifyTools("addVerify", IF userAuth THEN "sync" ELSE "deploy")
         \/ VerifyTools("endVerify", "traceRead")
  PROVE  Knows'
<1>. d \in Command /\ app \in App /\ d.seen.tool \in [Tools -> 0..2]
  BY DEF RolloutInv, RolloutTypeOK, Command, Resources
<1>0. app' = app /\ Exists' = Exists
  BY DEF VerifyTools, AppSame, Exists
<1>1. CASE VerifyTools("addVerify", IF userAuth THEN "sync" ELSE "deploy")
  <2>0. d.pc = "addVerify" /\ app.res.tool = Wanted(d.seen.tool)
    BY <1>1 DEF VerifyTools, At
  <2>1. PICK pc \in {"sync", "deploy"} : Proceed(pc) /\ (pc = "sync" <=> userAuth)
    BY <1>1 DEF VerifyTools
  <2>2. d'.pc = pc /\ d'.retried = d.retried /\ d'.n = d.n /\ d'.bound = d.bound
    BY <2>1, Proceeds DEF Step
  <2>3. \A t \in Tools : Planned(d.bound)[t] <= app.res.tool[t]
    BY <2>0, WantedIs, Permissions DEF Adding
  <2>. QED
    BY <1>0, <2>0, <2>1, <2>2, <2>3
       DEF local, RolloutInv, Knows, FirstKnown, StoreKnown, AccessKnown,
           SeenKnown, RunKnown, At, Uploaded, Ready, Own,
           First, Adding, Ending, Reporting, Rolling, Stored
<1>2. CASE VerifyTools("endVerify", "traceRead")
  <2>0. d.pc = "endVerify" /\ app.res.tool = Wanted(d.seen.tool) /\ Proceed("traceRead")
    BY <1>2 DEF VerifyTools, At
  <2>1. d'.pc = "traceRead" /\ d'.retried = d.retried /\ d'.n = d.n /\ d'.bound = d.bound
    BY <2>0, Proceeds DEF Step
  <2>2. app.res.tool = Planned(d.bound)
    BY <2>0, WantedIs DEF Ending
  <2>. QED
    BY <1>0, <2>0, <2>1, <2>2
       DEF local, RolloutInv, Knows, FirstKnown, StoreKnown, AccessKnown,
           SeenKnown, RunKnown, At, Uploaded, Ready, Own,
           First, Adding, Ending, Reporting, Rolling, Stored
<1>. QED
  BY <1>1, <1>2

(* The rollout refused, lost, ended, or tried once more. *)
LEMMA RollMoves ==
  ASSUME AppAssumption, RolloutInv, UNCHANGED local,
         DeployRefused \/ DeployEnds \/ DeployLost \/ RetryOnce
  PROVE  Knows'
<1>. d \in Command /\ app \in App
  BY DEF RolloutInv, RolloutTypeOK
<1>0. app' = app /\ Exists' = Exists
  BY DEF DeployRefused, DeployEnds, DeployLost, RetryOnce, AppSame, Exists
<1>1. CASE DeployRefused \/ DeployEnds \/ DeployLost
  <2>1. PICK pc \in {"refused", "endRead"} :
          /\ Proceed(pc) /\ d.pc \in {"deploy", "deploying"}
          /\ pc = "endRead" => At("deploying") /\ app.pending = {} /\ app.active = folder
    BY <1>1 DEF DeployRefused, DeployEnds, DeployLost, At
  <2>2. d'.pc = pc /\ d'.retried = d.retried /\ d'.n = d.n /\ d'.bound = d.bound
    BY <2>1, Proceeds DEF Step
  <2>. QED
    BY <1>0, <2>1, <2>2
       DEF local, RolloutInv, Knows, FirstKnown, StoreKnown, AccessKnown,
           SeenKnown, RunKnown, At, Uploaded, Ready, Own,
           First, Adding, Ending, Reporting, Rolling, Stored
<1>2. CASE RetryOnce /\ ~Over
  <2>1. d.pc = "refused" /\ d' = [d EXCEPT !.pc = "settle", !.retried = TRUE]
    BY <1>2 DEF RetryOnce, At
  <2>2. d'.pc = "settle" /\ d'.retried /\ d'.n = d.n /\ d'.bound = d.bound
    BY <2>1 DEF Command
  <2>. QED
    BY <1>0, <2>1, <2>2
       DEF local, RolloutInv, Knows, FirstKnown, StoreKnown, AccessKnown,
           SeenKnown, RunKnown, At, Uploaded, Ready, Own,
           First, Adding, Ending, Reporting, Rolling, Stored
<1>3. CASE Over
  BY <1>3, OverType, IdleKnows
<1>. QED
  BY <1>1, <1>2, <1>3

(* The read for trace access. *)
LEMMA TraceMoves ==
  ASSUME AppAssumption, RolloutInv, UNCHANGED local, ReadForTrace
  PROVE  Knows'
<1>. d \in Command /\ app \in App
  BY DEF RolloutInv, RolloutTypeOK
<1>0. app' = app /\ Exists' = Exists /\ d.pc = "traceRead"
  BY DEF ReadForTrace, Exists, At
<1>1. CASE d.trace # "failed" /\ d' = [d EXCEPT !.pc = "traceWrite", !.seen = app.res]
  <2>1. /\ d'.pc = "traceWrite" /\ d'.seen = app.res /\ d'.retried = d.retried
        /\ d'.n = d.n /\ d'.bound = d.bound /\ d'.trace = d.trace
    BY <1>1 DEF Command
  <2>. QED
    BY <1>0, <1>1, <2>1
       DEF local, RolloutInv, Knows, FirstKnown, StoreKnown, AccessKnown,
           SeenKnown, RunKnown, At, Uploaded, Ready, Own,
           First, Adding, Ending, Reporting, Rolling, Stored
<1>2. CASE Proceed("report")
  <2>1. d'.pc = "report" /\ d'.retried = d.retried /\ d'.n = d.n /\ d'.bound = d.bound
    BY <1>2, Proceeds DEF Step
  <2>. QED
    BY <1>0, <2>1
       DEF local, RolloutInv, Knows, FirstKnown, StoreKnown, AccessKnown,
           SeenKnown, RunKnown, At, Uploaded, Ready, Own,
           First, Adding, Ending, Reporting, Rolling, Stored
<1>. QED
  BY <1>1, <1>2 DEF ReadForTrace

(* A delete begins and ends. *)
LEMMA DeleteMoves ==
  ASSUME AppAssumption, RolloutInv, UNCHANGED local,
         (\E rmdir \in BOOLEAN : BeginDelete(rmdir)) \/ ConfirmGone
  PROVE  Knows'
<1>. d \in Command /\ app \in App
  BY DEF RolloutInv, RolloutTypeOK
<1>0. Exists' = Exists /\ ~d.retried
  BY DEF BeginDelete, ConfirmGone, AppSame, Exists, At, RolloutInv, Knows, StoreKnown, Rolling,
         Ending, Reporting
<1>1. ASSUME ~d'.retried, d'.pc \in {"drop", "rmdir"}, d'.pc = "rmdir" => ~Exists PROVE Knows'
  BY <1>0, <1>1 DEF Knows, FirstKnown, StoreKnown, AccessKnown,
                    SeenKnown, RunKnown, At, Uploaded, Ready,
                    First, Adding, Ending, Reporting, Rolling, Stored
<1>2. CASE \E rmdir \in BOOLEAN : BeginDelete(rmdir)
  BY <1>0, <1>1, <1>2 DEF BeginDelete, Command
<1>3. CASE ConfirmGone
  <2>1. Over \/ (Proceed("rmdir") /\ ~Exists)
    BY <1>3 DEF ConfirmGone
  <2>2. CASE Proceed("rmdir") /\ ~Exists
    BY <1>0, <1>1, <2>2, Proceeds DEF Step
  <2>. QED
    BY <2>1, <2>2, OverType, IdleKnows
<1>. QED
  BY <1>2, <1>3

(* A command that only reads keeps the invariant. *)
LEMMA PlainKeeps ==
  ASSUME AppAssumption, RolloutInv, Plain, Knows'
  PROVE  AppStands' /\ AllServed' /\ Knows'
<1>0. app' = app /\ UNCHANGED local
  BY PlainIs
<1>. QED
  BY <1>0 DEF local, RolloutInv, AppStands, AllServed, Versions, Served, Exists

-----------------------------------------------------------------------------
(* The calls that change the App *)

(* A new App has no version yet, and is this tool's. *)
LEMMA CreateKeeps ==
  ASSUME AppAssumption, RolloutInv, CreateApp \/ CreateScoped
  PROVE  AppStands' /\ AllServed' /\ Knows'
<1>. d \in Command /\ app \in App /\ apps \in 0..MaxApps
  BY DEF RolloutInv, RolloutTypeOK
<1>0. UNCHANGED local
  BY DEF CreateApp, CreateScoped
<1>1. /\ app'.id = apps + 1 /\ app'.here /\ app'.active = {} /\ app'.pending = {}
  BY DEF CreateApp, CreateScoped, Create, Created, NoApp
<1>2. app'.id # 0 /\ Exists' /\ Versions' = {}
  BY <1>1 DEF Exists, Versions
<1>3. AppStands' /\ AllServed'
  BY <1>1, <1>2 DEF AppStands, AllServed
<1>4. PICK pc \in {"reconcile", "converge"} : Proceed(pc)
  BY DEF CreateApp, CreateScoped
<1>5. d'.pc = pc /\ d'.existed = d.existed /\ d'.retried = d.retried
  BY <1>4, Proceeds DEF Step
<1>6. ~d.existed /\ ~d.retried
  BY DEF CreateApp, CreateScoped, RolloutInv, Knows, FirstKnown, StoreKnown, At, Rolling,
         Ending, Reporting
<1>. QED
  BY <1>0, <1>1, <1>2, <1>3, <1>5, <1>6
     DEF Knows, FirstKnown, StoreKnown, AccessKnown, SeenKnown, RunKnown, At, Uploaded, Ready,
         First, Adding, Ending, Reporting, Rolling, Stored

(* A start and a scope update touch nothing a version rests on. *)
LEMMA StartKeeps ==
  ASSUME AppAssumption, RolloutInv, StartApp \/ AddScopes
  PROVE  AppStands' /\ AllServed' /\ Knows'
<1>. d \in Command /\ app \in App
  BY DEF RolloutInv, RolloutTypeOK
<1>0. UNCHANGED local /\ late' = late /\ Exists
  BY DEF StartApp, AddScopes
<1>1. /\ app'.id = app.id /\ app'.here = app.here /\ app'.active = app.active
      /\ app'.pending = app.pending /\ app'.res = app.res /\ app'.uc = app.uc
  <2>1. CASE StartApp
    BY <2>1 DEF StartApp, App
  <2>2. CASE AddScopes
    <3>1. app' = app \/ app' = [app EXCEPT !.scopes = d.scopes \cup Required]
      BY <2>2 DEF AddScopes
    <3>. QED
      BY <3>1 DEF App
  <2>. QED
    BY <2>1, <2>2
<1>2. Exists' /\ Versions' = Versions
  BY <1>0, <1>1 DEF Exists, Versions
<1>3. AppStands'
  BY <1>0, <1>1, <1>2 DEF RolloutInv, AppStands, local, Exists
<1>4. AllServed'
  BY <1>0, <1>1, <1>2 DEF RolloutInv, AllServed, Served, local
<1>5. PICK pc \in {"reconcile", "converge"} : Proceed(pc) /\ d.pc \in {"start", "scopes"}
  BY DEF StartApp, AddScopes, At
<1>6. d'.pc = pc /\ d'.existed = d.existed /\ d'.retried = d.retried
  BY <1>5, Proceeds DEF Step
<1>7. Knows'
  BY <1>0, <1>1, <1>2, <1>5, <1>6
     DEF local, RolloutInv, Knows, FirstKnown, StoreKnown, AccessKnown, SeenKnown, RunKnown, At,
         Uploaded, Ready, First, Adding, Ending, Reporting, Rolling, Stored
<1>. QED
  BY <1>3, <1>4, <1>7

(* The Runtime Store gets its owner, and app.yaml its schema. *)
LEMMA StoreKeeps ==
  ASSUME AppAssumption, RolloutInv, RuntimeStore
  PROVE  AppStands' /\ AllServed' /\ Knows'
<1>. d \in Command /\ app \in App
  BY DEF RolloutInv, RolloutTypeOK
<1>0. app' = app /\ userAuth' = userAuth /\ folder' = folder /\ Exists /\ Exists'
      /\ Versions' = Versions /\ d.pc = "store"
  BY DEF RuntimeStore, AppSame, Exists, Versions, At
<1>1. CASE OwnStore
  <2>1. store' = app.id /\ yaml' = (yaml \/ ~d.existed)
    BY <1>1 DEF RuntimeStore, OwnStore, NamesSchema
  <2>2. AppStands'
    BY <1>0, <2>1 DEF RolloutInv, AppStands, Knows, FirstKnown, First, Exists
  <2>3. AllServed'
    BY <1>0, <2>1 DEF RolloutInv, AllServed, Served
  <2>4. PICK pc \in {"grant", "sync"} : Proceed(pc) /\ (pc = "grant" <=> userAuth)
    BY <1>1 DEF RuntimeStore
  <2>5. d'.pc = pc /\ d'.retried = d.retried
    BY <2>4, Proceeds DEF Step
  <2>6. app.here /\ ~userAuth => yaml'
    BY <1>0, <2>1 DEF RolloutInv, Knows, FirstKnown, First
  <2>7. Knows'
    BY <1>0, <2>1, <2>4, <2>5, <2>6
       DEF RolloutInv, Knows, FirstKnown, StoreKnown, AccessKnown, SeenKnown, RunKnown, At,
           Uploaded, Ready, First, Adding, Ending, Reporting, Rolling, Stored
  <2>. QED
    BY <2>2, <2>3, <2>7
<1>2. CASE ~OwnStore
  <2>1. Over /\ store' = store /\ yaml' = yaml
    BY <1>2 DEF RuntimeStore
  <2>2. Knows'
    BY <2>1, OverType, IdleKnows
  <2>. QED
    BY <1>0, <2>1, <2>2 DEF RolloutInv, AppStands, AllServed, Served, Exists
<1>. QED
  BY <1>1, <1>2

(* The upload replaces the folder by this deploy's source. *)
LEMMA SyncKeeps ==
  ASSUME AppAssumption, RolloutInv, Sync
  PROVE  AppStands' /\ AllServed' /\ Knows'
<1>. d \in Command /\ app \in App
  BY DEF RolloutInv, RolloutTypeOK
<1>0. app' = app /\ userAuth' = userAuth /\ store' = store /\ yaml' = yaml /\ Exists' = Exists
      /\ Versions' = Versions /\ d.pc = "sync" /\ folder' = {Own}
  BY DEF Sync, AppSame, Exists, Versions, At, Own
<1>1. AppStands' /\ AllServed'
  BY <1>0 DEF RolloutInv, AppStands, AllServed, Served
<1>2. PICK pc \in {"deploy", "join"} : Proceed(pc) /\ (pc = "deploy" <=> userAuth)
  BY DEF Sync
<1>3. d'.pc = pc /\ d'.retried = d.retried /\ d'.n = d.n /\ d'.bound = d.bound
  BY <1>2, Proceeds DEF Step
<1>4. Own' = Own
  BY <1>0, <1>3 DEF Own
<1>5. Knows'
  BY <1>0, <1>2, <1>3, <1>4
     DEF RolloutInv, Knows, FirstKnown, StoreKnown, AccessKnown, SeenKnown, RunKnown, At,
         Uploaded, Ready, First, Adding, Ending, Reporting, Rolling, Stored
<1>. QED
  BY <1>1, <1>5

(* Grants only grow. *)
LEMMA GrantKeeps ==
  ASSUME AppAssumption, RolloutInv, GrantServices
  PROVE  AppStands' /\ AllServed' /\ Knows'
<1>. d \in Command /\ app \in App
  BY DEF RolloutInv, RolloutTypeOK
<1>0. UNCHANGED local /\ Exists /\ late' = late /\ d.pc = "grant"
  BY DEF GrantServices, At
<1>1. PICK got \in SUBSET (Grants(d.bound) \ app.uc) :
        /\ app' = [app EXCEPT !.uc = app.uc \cup got]
        /\ Over \/ (Proceed("addRead") /\ Grants(d.bound) \subseteq app.uc \cup got)
  BY DEF GrantServices
<1>2. /\ app'.id = app.id /\ app'.here = app.here /\ app'.active = app.active
      /\ app'.pending = app.pending /\ app'.res = app.res /\ app'.uc = app.uc \cup got
  BY <1>1 DEF App
<1>3. Exists' /\ Versions' = Versions
  BY <1>0, <1>2 DEF Exists, Versions
<1>4. AppStands' /\ AllServed'
  BY <1>0, <1>2, <1>3 DEF RolloutInv, AppStands, AllServed, Served, local, Exists
<1>5. CASE Over
  BY <1>4, <1>5, OverType, IdleKnows
<1>6. CASE Proceed("addRead") /\ Grants(d.bound) \subseteq app.uc \cup got
  <2>1. d'.pc = "addRead" /\ d'.retried = d.retried /\ d'.n = d.n /\ d'.bound = d.bound
    BY <1>6, Proceeds DEF Step
  <2>2. Knows'
    BY <1>0, <1>2, <1>3, <1>6, <2>1
       DEF local, RolloutInv, Knows, FirstKnown, StoreKnown, AccessKnown, SeenKnown, RunKnown, At,
           Uploaded, Ready, Own, First, Adding, Ending, Reporting, Rolling, Stored
  <2>. QED
    BY <1>4, <2>2
<1>. QED
  BY <1>1, <1>5, <1>6

(* The resource array is written back as it was read, with the tools wanted: before the   *)
(* rollout no permission gets weaker, and after it only the new version is there.         *)
LEMMA WriteKeeps ==
  ASSUME AppAssumption, RolloutInv,
         WriteTools("addWrite", "addVerify") \/ WriteTools("endWrite", "endVerify")
  PROVE  /\ AppStands' /\ AllServed' /\ Knows'
         /\ app'.id = app.id /\ app'.scopes = app.scopes /\ app'.res.trace = app.res.trace
         /\ app.res.other \ app'.res.other \subseteq late
<1>. d \in Command /\ app \in App /\ d.seen \in Resources /\ app.res.tool \in [Tools -> 0..2]
  BY DEF RolloutInv, RolloutTypeOK, Command, App, Resources
<1>0. UNCHANGED local /\ Exists /\ late' = late
      /\ app' = [app EXCEPT !.res = [d.seen EXCEPT !.tool = Wanted(d.seen.tool)]]
      /\ d.pc \in {"addWrite", "endWrite"}
  BY DEF WriteTools, At
<1>1. /\ app'.id = app.id /\ app'.here = app.here /\ app'.active = app.active
      /\ app'.pending = app.pending /\ app'.restart = app.restart /\ app'.uc = app.uc
      /\ app'.scopes = app.scopes /\ app'.res = [d.seen EXCEPT !.tool = Wanted(d.seen.tool)]
  BY <1>0 DEF App
<1>2. /\ app'.res.tool = Wanted(d.seen.tool) /\ app'.res.trace = d.seen.trace
      /\ app'.res.other = d.seen.other
  BY <1>1 DEF Resources
<1>3. Exists' /\ Versions' = Versions
  BY <1>0, <1>1 DEF Exists, Versions
<1>4. /\ d.seen.tool = app.res.tool /\ d.seen.trace = app.res.trace
      /\ app.res.other \ d.seen.other \subseteq late
  BY <1>0 DEF RolloutInv, Knows, SeenKnown
<1>5. AppStands'
  BY <1>0, <1>1, <1>3 DEF RolloutInv, AppStands, local, Exists
<1>6. ASSUME NEW v \in Versions, \A t \in Tools : Planned(v.bound)[t] <= app'.res.tool[t]
      PROVE  Served(v)'
  BY <1>0, <1>1, <1>6 DEF RolloutInv, AllServed, Served, local
<1>7. CASE d.pc = "addWrite"
  <2>1. app'.res.tool = Strongest(app.res.tool, Planned(d.bound))
    BY <1>2, <1>4, <1>7, WantedIs DEF Adding
  <2>2. \A t \in Tools : /\ app.res.tool[t] <= app'.res.tool[t]
                         /\ Planned(d.bound)[t] <= app'.res.tool[t]
    BY <2>1, Permissions
  <2>3. app'.res.tool \in [Tools -> 0..2]
    BY <2>1, Permissions
  <2>4. ASSUME NEW v \in Versions, NEW t \in Tools PROVE Planned(v.bound)[t] <= app'.res.tool[t]
    <3>1. Planned(v.bound)[t] <= app.res.tool[t]
      BY DEF RolloutInv, AllServed, Served
    <3>2. Planned(v.bound)[t] \in 0..2 /\ app.res.tool[t] \in 0..2 /\ app'.res.tool[t] \in 0..2
      BY <2>3, Permissions
    <3>. QED
      BY <2>2, <3>1, <3>2
  <2>5. AllServed'
    BY <1>3, <1>6, <2>4 DEF AllServed
  <2>6. Proceed("addVerify")
    BY <1>7 DEF WriteTools, At
  <2>7. d'.pc = "addVerify" /\ d'.retried = d.retried /\ d'.n = d.n /\ d'.bound = d.bound
    BY <2>6, Proceeds DEF Step
  <2>8. Knows'
    BY <1>0, <1>1, <1>3, <1>7, <2>7
       DEF local, RolloutInv, Knows, FirstKnown, StoreKnown, AccessKnown, SeenKnown, RunKnown, At,
           Uploaded, Ready, Own, First, Adding, Ending, Reporting, Rolling, Stored
  <2>. QED
    BY <1>1, <1>2, <1>4, <1>5, <2>5, <2>8
<1>8. CASE d.pc = "endWrite"
  <2>1. app'.res.tool = Planned(d.bound)
    BY <1>2, <1>8, WantedIs DEF Ending
  <2>2. app.pending \subseteq {Own} /\ app.active = {Own}
    BY <1>0, <1>8 DEF RolloutInv, Knows, RunKnown, StoreKnown, Uploaded, Rolling, Ending
  <2>3. \A v \in Versions : v.bound = d.bound
    BY <2>2 DEF Versions, Own
  <2>4. ASSUME NEW t \in Tools PROVE Planned(d.bound)[t] <= app'.res.tool[t]
    <3>1. Planned(d.bound)[t] \in 0..2
      BY Permissions
    <3>. QED
      BY <2>1, <3>1
  <2>5. AllServed'
    BY <1>3, <1>6, <2>3, <2>4 DEF AllServed
  <2>6. Proceed("endVerify")
    BY <1>8 DEF WriteTools, At
  <2>7. d'.pc = "endVerify" /\ d'.retried = d.retried /\ d'.n = d.n /\ d'.bound = d.bound
    BY <2>6, Proceeds DEF Step
  <2>8. Knows'
    BY <1>0, <1>1, <1>3, <1>8, <2>7
       DEF local, RolloutInv, Knows, FirstKnown, StoreKnown, AccessKnown, SeenKnown, RunKnown, At,
           Uploaded, Ready, Own, First, Adding, Ending, Reporting, Rolling, Stored
  <2>. QED
    BY <1>1, <1>2, <1>4, <1>5, <2>5, <2>8
<1>. QED
  BY <1>0, <1>7, <1>8

(* Apps accepts the upload: the new version has what it needs already. *)
LEMMA AcceptKeeps ==
  ASSUME AppAssumption, RolloutInv, DeployAccepted
  PROVE  AppStands' /\ AllServed' /\ Knows'
<1>. d \in Command /\ app \in App
  BY DEF RolloutInv, RolloutTypeOK
<1>0. UNCHANGED local /\ Exists /\ late' = late /\ d.pc = "deploy" /\ Proceed("deploying")
      /\ app' = [app EXCEPT !.pending = folder] /\ app.pending = {}
  BY DEF DeployAccepted, At
<1>1. /\ app'.id = app.id /\ app'.here = app.here /\ app'.active = app.active
      /\ app'.pending = folder /\ app'.restart = app.restart /\ app'.res = app.res
      /\ app'.uc = app.uc /\ app'.scopes = app.scopes
  BY <1>0 DEF App
<1>2. folder = {Own}
  BY <1>0 DEF RolloutInv, Knows, StoreKnown, Uploaded, Rolling
<1>3. Exists' /\ Versions' = Versions \cup {Own}
  BY <1>0, <1>1, <1>2 DEF Exists, Versions
<1>4. store = app.id /\ (app.here /\ ~userAuth => yaml)
  BY <1>0 DEF RolloutInv, Knows, StoreKnown, Stored, Rolling
<1>5. Grants(d.bound) \subseteq app.uc /\ \A t \in Tools : Planned(d.bound)[t] <= app.res.tool[t]
  BY <1>0 DEF RolloutInv, Knows, AccessKnown, Ready
<1>6. yaml => app.here
  BY <1>0 DEF RolloutInv, AppStands
<1>7. AppStands'
  BY <1>0, <1>1, <1>3, <1>4 DEF RolloutInv, AppStands, local, Exists
<1>8. Served(Own)
  BY <1>2, <1>4, <1>5, <1>6 DEF Served, Own
<1>9. \A v \in Versions \cup {Own} : Served(v)
  BY <1>8 DEF RolloutInv, AllServed
<1>10. ASSUME NEW v, Served(v) PROVE Served(v)'
  BY <1>0, <1>1, <1>10 DEF Served, local
<1>11. AllServed'
  BY <1>3, <1>9, <1>10 DEF AllServed
<1>12. d'.pc = "deploying" /\ d'.retried = d.retried /\ d'.n = d.n /\ d'.bound = d.bound
  BY <1>0, Proceeds DEF Step
<1>13. Knows'
  BY <1>0, <1>1, <1>3, <1>12
     DEF local, RolloutInv, Knows, FirstKnown, StoreKnown, AccessKnown, SeenKnown, RunKnown, At,
         Uploaded, Ready, Own, First, Adding, Ending, Reporting, Rolling, Stored
<1>. QED
  BY <1>7, <1>11, <1>13

(* Trace access is written as it was read, but for the experiment the project binds. *)
LEMMA TraceKeeps ==
  ASSUME AppAssumption, RolloutInv, NEW ok \in BOOLEAN, WriteTrace(ok)
  PROVE  /\ AppStands' /\ AllServed' /\ Knows'
         /\ app'.id = app.id /\ app'.scopes = app.scopes
         /\ app.res.other \ app'.res.other \subseteq late
         /\ app.res.trace /\ ~app'.res.trace => d.trace = "unbound"
<1>. d \in Command /\ app \in App /\ d.seen \in Resources
  BY DEF RolloutInv, RolloutTypeOK, Command
<1>0. UNCHANGED local /\ Exists /\ late' = late /\ d.pc = "traceWrite" /\ Proceed("report")
      /\ app' \in {app, [app EXCEPT !.res = [d.seen EXCEPT !.trace = d.trace = "bound"]]}
  BY DEF WriteTrace, At
<1>1. /\ d.seen.tool = app.res.tool /\ app.res.other \ d.seen.other \subseteq late
      /\ d.trace \in {"bound", "unbound"}
  BY <1>0 DEF RolloutInv, Knows, SeenKnown, RunKnown, At, Command
<1>2. /\ app'.id = app.id /\ app'.here = app.here /\ app'.active = app.active
      /\ app'.pending = app.pending /\ app'.restart = app.restart /\ app'.uc = app.uc
      /\ app'.scopes = app.scopes
      /\ app'.res \in {app.res, [d.seen EXCEPT !.trace = d.trace = "bound"]}
  BY <1>0 DEF App
<1>3. /\ app'.res.tool = app.res.tool /\ app.res.other \ app'.res.other \subseteq late
      /\ app.res.trace /\ ~app'.res.trace => d.trace = "unbound"
  <2>1. CASE app'.res = app.res
    BY <2>1
  <2>2. CASE app'.res = [d.seen EXCEPT !.trace = d.trace = "bound"]
    <3>1. /\ app'.res.tool = d.seen.tool /\ app'.res.other = d.seen.other
          /\ app'.res.trace = (d.trace = "bound")
      BY <2>2 DEF Resources
    <3>. QED
      BY <1>1, <3>1
  <2>. QED
    BY <1>2, <2>1, <2>2
<1>4. Exists' /\ Versions' = Versions
  BY <1>0, <1>2 DEF Exists, Versions
<1>5. AppStands' /\ AllServed'
  BY <1>0, <1>2, <1>3, <1>4 DEF RolloutInv, AppStands, AllServed, Served, local, Exists
<1>6. d'.pc = "report" /\ d'.retried = d.retried /\ d'.n = d.n /\ d'.bound = d.bound
  BY <1>0, Proceeds DEF Step
<1>7. Knows'
  BY <1>0, <1>2, <1>3, <1>4, <1>6
     DEF local, RolloutInv, Knows, FirstKnown, StoreKnown, AccessKnown, SeenKnown, RunKnown, At,
         Uploaded, Ready, Own, First, Adding, Ending, Reporting, Rolling, Stored
<1>. QED
  BY <1>2, <1>3, <1>5, <1>7

(* A delete drops the Runtime Store first, and the folder when the App is gone. *)
LEMMA DeleteKeeps ==
  ASSUME AppAssumption, RolloutInv, DropStore \/ DeleteApp \/ DeleteFolder
  PROVE  AppStands' /\ AllServed' /\ Knows'
<1>. d \in Command /\ app \in App
  BY DEF RolloutInv, RolloutTypeOK
<1>0. ~d.retried
  BY DEF DropStore, DeleteApp, DeleteFolder, At, RolloutInv, Knows, StoreKnown, Rolling, Ending,
         Reporting
<1>1. ASSUME NEW pc \in {"delete", "await"}, Proceed(pc) PROVE Knows'
  <2>1. d'.pc = pc /\ d'.retried = d.retried
    BY <1>1, Proceeds DEF Step
  <2>. QED
    BY <1>0, <2>1 DEF Knows, FirstKnown, StoreKnown, AccessKnown, SeenKnown, RunKnown, At,
         Uploaded, Ready, First, Adding, Ending, Reporting, Rolling, Stored
<1>2. CASE DropStore
  <2>1. /\ app' = app /\ userAuth' = userAuth /\ folder' = folder /\ yaml' = yaml
        /\ store' \in {store, 0} /\ (Over \/ Proceed("delete"))
    BY <1>2 DEF DropStore, AppSame
  <2>2. Knows'
    BY <1>1, <2>1, OverType, IdleKnows
  <2>3. Exists' = Exists /\ Versions' = Versions
    BY <2>1 DEF Exists, Versions
  <2>4. AppStands'
    BY <2>1, <2>3 DEF RolloutInv, AppStands
  <2>5. AllServed'
    BY <2>1, <2>3 DEF RolloutInv, AllServed, Served
  <2>. QED
    BY <2>2, <2>4, <2>5
<1>3. CASE DeleteApp
  <2>1. AppLooksTheSame /\ UNCHANGED local /\ Exists /\ Proceed("await")
    BY <1>3 DEF DeleteApp, AppLooksTheSame, App
  <2>2. Knows'
    BY <1>1, <2>1
  <2>3. Exists' /\ Versions' = Versions
    BY <2>1 DEF Exists, AppLooksTheSame, Versions
  <2>4. AppStands' /\ AllServed'
    BY <2>1, <2>3 DEF AppLooksTheSame, RolloutInv, AppStands, AllServed, Served, local, Exists
  <2>. QED
    BY <2>2, <2>4
<1>4. CASE DeleteFolder
  <2>1. /\ app' = app /\ userAuth' = userAuth /\ store' = store /\ yaml' = yaml /\ Over
        /\ At("rmdir")
    BY <1>4 DEF DeleteFolder, AppSame
  <2>2. Versions' = {}
    BY <2>1 DEF RolloutInv, Knows, RunKnown, AppStands, Versions, Exists, NoApp
  <2>3. Knows'
    BY <2>1, OverType, IdleKnows
  <2>. QED
    BY <2>1, <2>2, <2>3 DEF RolloutInv, AppStands, AllServed, Exists
<1>. QED
  BY <1>2, <1>3, <1>4

-----------------------------------------------------------------------------
(* The theorems *)

(* The steps of both rounds of tools, before and after the rollout, are reads, writes and *)
(* verifications.                                                                         *)
LEMMA ToolsAre ==
  ASSUME AddTools \/ FinalizeTools
  PROVE  \/ Plain /\ (\/ ReadTools("addRead", "addWrite", IF userAuth THEN "sync" ELSE "deploy")
                      \/ ReadTools("endRead", "endWrite", "traceRead")
                      \/ VerifyTools("addVerify", IF userAuth THEN "sync" ELSE "deploy")
                      \/ VerifyTools("endVerify", "traceRead"))
         \/ WriteTools("addWrite", "addVerify") \/ WriteTools("endWrite", "endVerify")
BY DEF AddTools, FinalizeTools, Plain, Step

(* Every step of a command keeps the invariant. *)
LEMMA CommandKeeps ==
  ASSUME AppAssumption, RolloutInv, Deploy \/ Delete \/ Fail
  PROVE  AppStands' /\ AllServed' /\ Knows'
<1>. d \in Command
  BY DEF RolloutInv, RolloutTypeOK
<1>0. ASSUME Plain PROVE app' = app /\ UNCHANGED local
  BY <1>0, PlainIs
<1>1. CASE Report \/ Fail
  <2>1. Plain /\ Over
    BY <1>1 DEF Plain, Report, Fail
  <2>. QED
    BY <2>1, OverType, IdleKnows, PlainKeeps
<1>2. CASE \/ \E m \in Manifests, tracing \in {"bound", "unbound"} : BeginDeploy(m, tracing)
           \/ \E allow \in BOOLEAN : PlanScopes(allow)
           \/ Look \/ NoStart \/ Reconcile \/ ScopesConverged \/ ScopedAppActive
  <2>1. Plain
    BY <1>2 DEF Plain
  <2>2. Knows'
    BY <1>0, <1>2, <2>1, FirstMoves
  <2>. QED
    BY <2>1, <2>2, PlainKeeps
<1>3. CASE CheckDrift \/ Join \/ \E u \in BOOLEAN : PreviousSettled(u)
  <2>1. Plain
    BY <1>3 DEF Plain
  <2>2. Knows'
    BY <1>0, <1>3, <2>1, DriftMoves, JoinMoves
  <2>. QED
    BY <2>1, <2>2, PlainKeeps
<1>4. CASE DeployRefused \/ DeployEnds \/ DeployLost \/ RetryOnce \/ ReadForTrace
  <2>1. Plain
    BY <1>4 DEF Plain
  <2>2. Knows'
    BY <1>0, <1>4, <2>1, RollMoves, TraceMoves
  <2>. QED
    BY <2>1, <2>2, PlainKeeps
<1>5. CASE (\E rmdir \in BOOLEAN : BeginDelete(rmdir)) \/ ConfirmGone
  <2>1. Plain
    BY <1>5 DEF Plain
  <2>2. Knows'
    BY <1>0, <1>5, <2>1, DeleteMoves
  <2>. QED
    BY <2>1, <2>2, PlainKeeps
<1>6. CASE AddTools \/ FinalizeTools
  <2>1. CASE Plain /\ (\/ ReadTools("addRead", "addWrite", IF userAuth THEN "sync" ELSE "deploy")
                       \/ ReadTools("endRead", "endWrite", "traceRead")
                       \/ VerifyTools("addVerify", IF userAuth THEN "sync" ELSE "deploy")
                       \/ VerifyTools("endVerify", "traceRead"))
    <3>1. Knows'
      BY <1>0, <2>1, ReadMoves, VerifyMoves
    <3>. QED
      BY <2>1, <3>1, PlainKeeps
  <2>. QED
    BY <1>6, <2>1, ToolsAre, WriteKeeps
<1>7. CASE \/ CreateApp \/ CreateScoped \/ StartApp \/ AddScopes \/ RuntimeStore \/ Sync
           \/ GrantServices \/ DeployAccepted \/ \E ok \in BOOLEAN : WriteTrace(ok)
  BY <1>7, CreateKeeps, StartKeeps, StoreKeeps, SyncKeeps, GrantKeeps, AcceptKeeps, TraceKeeps
<1>8. CASE Delete
  BY <1>5, <1>8, DeleteKeeps DEF Delete
<1>. QED
  BY <1>1, <1>2, <1>3, <1>4, <1>6, <1>7, <1>8 DEF Deploy

(* What keeps the versions and the folder keeps the order in which they name the schema. *)
LEMMA SchemaSame ==
  ASSUME SchemaKept, app'.active = app.active, app'.pending = app.pending, folder' = folder,
         yaml => yaml'
  PROVE  SchemaKept'
BY DEF SchemaKept, Versions

(* Nothing that names the schema is followed by something that does not. *)
LEMMA SchemaStaysNamed ==
  ASSUME AppAssumption, RolloutInv, RolloutNext PROVE SchemaKept'
<1>. app \in App /\ d \in Command /\ SchemaKept
  BY DEF RolloutInv, RolloutTypeOK
<1>0. CASE app'.active = app.active /\ app'.pending = app.pending /\ folder' = folder
           /\ (yaml => yaml')
  BY <1>0, SchemaSame
<1>1. ASSUME Plain PROVE SchemaKept'
  <2>1. app' = app /\ UNCHANGED local
    BY <1>1, PlainIs
  <2>. QED
    BY <1>0, <2>1 DEF local
<1>2. ASSUME \/ StartApp \/ AddScopes \/ GrantServices \/ DeleteApp
             \/ WriteTools("addWrite", "addVerify") \/ WriteTools("endWrite", "endVerify")
             \/ \E ok \in BOOLEAN : WriteTrace(ok)
      PROVE  SchemaKept'
  <2>1. UNCHANGED local
    BY <1>2 DEF StartApp, AddScopes, GrantServices, DeleteApp, WriteTools, WriteTrace
  <2>2. CASE StartApp \/ AddScopes \/ GrantServices \/ DeleteApp
    <3>1. app'.active = app.active /\ app'.pending = app.pending
      BY <2>2 DEF StartApp, AddScopes, GrantServices, DeleteApp, App
    <3>. QED
      BY <1>0, <2>1, <3>1 DEF local
  <2>3. CASE \/ WriteTools("addWrite", "addVerify") \/ WriteTools("endWrite", "endVerify")
             \/ \E ok \in BOOLEAN : WriteTrace(ok)
    <3>1. app' = app \/ \E res : app' = [app EXCEPT !.res = res]
      BY <2>3 DEF WriteTools, WriteTrace
    <3>2. app'.active = app.active /\ app'.pending = app.pending
      BY <3>1 DEF App
    <3>. QED
      BY <1>0, <2>1, <3>2 DEF local
  <2>. QED
    BY <1>2, <2>2, <2>3
<1>3. ASSUME CreateApp \/ CreateScoped \/ Gone PROVE SchemaKept'
  <2>1. ASSUME CreateApp \/ CreateScoped PROVE app'.active = {} /\ app'.pending = {}
    BY <2>1 DEF CreateApp, CreateScoped, Create, Created, NoApp
  <2>2. ASSUME Gone PROVE app'.active = {} /\ app'.pending = {}
    BY <2>2 DEF Gone, NoApp
  <2>. QED
    BY <1>3, <2>1, <2>2 DEF SchemaKept, Versions
<1>4. ASSUME RuntimeStore PROVE SchemaKept'
  <2>1. app' = app /\ folder' = folder /\ yaml' \in {yaml, yaml \/ ~d.existed}
    BY <1>4 DEF RuntimeStore, AppSame, NamesSchema
  <2>. QED
    BY <1>0, <2>1
<1>5. ASSUME Sync PROVE SchemaKept'
  <2>1. app' = app /\ yaml' = yaml /\ folder' = {Own}
    BY <1>5 DEF Sync, AppSame, Own
  <2>. QED
    BY <2>1 DEF SchemaKept, Versions, Own
<1>6. ASSUME DropStore PROVE SchemaKept'
  BY <1>0, <1>6 DEF DropStore, AppSame
<1>7. ASSUME DeleteFolder PROVE SchemaKept'
  <2>1. app' = app /\ yaml' = yaml /\ folder' = {}
    BY <1>7 DEF DeleteFolder, AppSame
  <2>. QED
    BY <2>1 DEF SchemaKept, Versions
<1>8. ASSUME DeployAccepted PROVE SchemaKept'
  <2>1. app'.active = app.active /\ app'.pending = folder /\ folder' = folder /\ yaml' = yaml
    BY <1>8 DEF DeployAccepted, local, App
  <2>2. folder = {Own}
    BY <1>8 DEF DeployAccepted, At, RolloutInv, Knows, StoreKnown, Uploaded, Rolling
  <2>. QED
    BY <2>1, <2>2 DEF SchemaKept, Versions, Own
<1>9. ASSUME Service, UNCHANGED <<userAuth, store, folder, yaml, d>> PROVE SchemaKept'
  <2>1. CASE Surface
    <3>1. app'.active = app.active /\ app'.pending = app.active
      BY <2>1 DEF Surface, App
    <3>. QED
      BY <1>9, <3>1 DEF SchemaKept, Versions
  <2>2. CASE \E ok \in BOOLEAN : Settle(ok)
    <3>1. app'.active \in {app.active, app.pending} /\ app'.pending = {}
      BY <2>2 DEF Settle, App
    <3>. QED
      BY <1>9, <3>1 DEF SchemaKept, Versions
  <2>3. CASE \/ BecomeActive \/ PrincipalAppears \/ Converge \/ StopApp
             \/ (\E rs \in SUBSET Others : OtherResources(rs))
             \/ (\E s \in OtherScopes : OtherScope(s))
    <3>1. app'.active = app.active /\ app'.pending = app.pending
      BY <2>3 DEF BecomeActive, PrincipalAppears, Converge, StopApp, OtherResources, OtherScope, App
    <3>. QED
      BY <1>0, <1>9, <3>1
  <2>. QED
    BY <1>3, <1>9, <2>1, <2>2, <2>3 DEF Service
<1>10. ASSUME Delete \/ Fail PROVE SchemaKept'
  BY <1>1, <1>2, <1>6, <1>7, <1>10 DEF Delete, Plain
<1>11. ASSUME AddTools \/ FinalizeTools PROVE SchemaKept'
  BY <1>1, <1>2, <1>11, ToolsAre
<1>12. ASSUME Deploy PROVE SchemaKept'
  BY <1>1, <1>2, <1>3, <1>4, <1>5, <1>8, <1>11, <1>12 DEF Deploy, Plain
<1>. QED
  BY <1>9, <1>10, <1>12 DEF RolloutNext

(* The first state, with an App that an earlier version left or without. *)
LEMMA RolloutBegins == ASSUME AppAssumption, RolloutInit PROVE RolloutInv
<1>1. 0 \in 0..MaxDeploys /\ 0 \in 0..MaxApps /\ 0 \in 0..MaxOutside /\ 1 \in 0..MaxApps
  BY DEF AppAssumption
<1>2. d \in Command /\ d.pc = "idle" /\ ~d.retried
  BY <1>1, NoCommandType DEF RolloutInit
<1>3. app \in App
  BY AppTypes DEF RolloutInit
<1>4. CASE app = NoApp
  <2>1. app.id = 0 /\ app.active = {} /\ app.pending = {}
    BY <1>4 DEF NoApp
  <2>2. RolloutTypeOK
    BY <1>1, <1>2, <1>3, <2>1 DEF RolloutInit, RolloutTypeOK
  <2>3. AppStands /\ AllServed /\ SchemaKept
    BY <1>4, <2>1 DEF RolloutInit, AppStands, AllServed, SchemaKept, Versions, Exists
  <2>. QED
    BY <1>2, <2>2, <2>3 DEF RolloutInv, Knows, FirstKnown, StoreKnown, AccessKnown, SeenKnown,
         RunKnown, At, Uploaded, Ready, First, Adding, Ending, Reporting, Rolling, Stored
<1>5. CASE app = Legacy
  <2>1. /\ app.id = 1 /\ ~app.here /\ app.pending = {} /\ app.res = NoResources /\ app.uc = {}
        /\ app.active = {[n |-> 0, bound |-> {}, schema |-> FALSE]}
    BY <1>5 DEF Legacy, NoApp
  <2>2. app.active \subseteq Version
    BY <1>3 DEF App
  <2>3. RolloutTypeOK
    BY <1>1, <1>2, <1>3, <2>1, <2>2 DEF RolloutInit, RolloutTypeOK
  <2>4. \A t \in Tools : Planned({})[t] = 0 /\ NoResources.tool[t] = 0
    BY DEF Planned, NoResources
  <2>5. Grants({}) = {}
    BY DEF Grants
  <2>6. AppStands
    BY <2>1 DEF RolloutInit, AppStands, Versions, Exists
  <2>7. ASSUME NEW v \in Versions PROVE Served(v)
    <3>1. v.bound = {} /\ v.schema = FALSE
      BY <2>1 DEF Versions
    <3>2. store = app.id /\ folder # {}
      BY <2>1 DEF RolloutInit
    <3>3. \A t \in Tools : Planned(v.bound)[t] <= app.res.tool[t]
      BY <2>1, <2>4, <3>1
    <3>. QED
      BY <2>1, <2>5, <3>1, <3>2, <3>3 DEF Served
  <2>8. SchemaKept
    <3>1. \A v \in Versions : ~v.schema
      BY <2>1 DEF Versions
    <3>. QED
      BY <3>1 DEF SchemaKept, Versions
  <2>. QED
    BY <1>2, <2>3, <2>6, <2>7, <2>8
       DEF RolloutInv, AllServed, Knows, FirstKnown, StoreKnown, AccessKnown, SeenKnown,
         RunKnown, At, Uploaded, Ready, First, Adding, Ending, Reporting, Rolling, Stored
<1>. QED
  BY <1>4, <1>5 DEF RolloutInit

(* The invariant is inductive. *)
LEMMA RolloutContinues ==
  ASSUME AppAssumption, RolloutInv, [RolloutNext]_rolloutVars PROVE RolloutInv'
<1>1. CASE UNCHANGED rolloutVars
  BY <1>1 DEF rolloutVars, RolloutInv, RolloutTypeOK, AppStands, AllServed, SchemaKept, Served, Versions,
              Exists, Knows, FirstKnown, StoreKnown, AccessKnown, SeenKnown, RunKnown, At, Uploaded, Ready, Own
<1>2. CASE Deploy \/ Delete \/ Fail
  BY <1>2, CommandKeepsTypes, CommandKeeps, SchemaStaysNamed DEF RolloutInv, RolloutNext
<1>3. CASE Service /\ UNCHANGED <<userAuth, store, folder, yaml, d>>
  BY <1>3, ServiceKeepsTypes, ServiceKeeps, SchemaStaysNamed DEF RolloutInv, RolloutNext
<1>. QED
  BY <1>1, <1>2, <1>3 DEF RolloutNext

(* Whatever fails, a deploy knows of its App what it has read and written. *)
THEOREM RolloutInvariant == RolloutSpec => []RolloutInv
<1>1. RolloutInit => RolloutInv
  BY AppAssumption, RolloutBegins
<1>2. RolloutInv /\ [RolloutNext]_rolloutVars => RolloutInv'
  BY AppAssumption, RolloutContinues
<1>. QED
  BY <1>1, <1>2, PTL DEF RolloutSpec

(* What the invariant says of the versions is what a deploy promises. *)
LEMMA InvIsSound ==
  ASSUME RolloutInv
  PROVE  RolloutTypeOK /\ RunningVersionIsServed /\ ResumeKeepsSchema /\ SuccessMeansRunning
<1>1. RunningVersionIsServed /\ ResumeKeepsSchema
  BY DEF RolloutInv, AllServed, Served, SchemaKept, Versions, RunningVersionIsServed,
         ResumeKeepsSchema
<1>2. ASSUME At("report"), Exists
      PROVE  /\ app.active = folder /\ app.active # {} /\ \A v \in app.active : v.n = d.n
             /\ app.res.tool = Planned(d.bound)
  <2>1. folder = {Own} /\ app.active = folder /\ app.res.tool = Planned(d.bound)
    BY <1>2 DEF RolloutInv, Knows, StoreKnown, RunKnown, At, Uploaded, Rolling, Reporting
  <2>. QED
    BY <2>1 DEF Own
<1>3. SuccessMeansRunning
  BY <1>2 DEF SuccessMeansRunning
<1>. QED
  BY <1>1, <1>3 DEF RolloutInv

(* A command's step removes of another owner's what came late, and nothing else. *)
LEMMA StepsDropTheLate ==
  ASSUME AppAssumption, RolloutInv, RolloutNext, d' # d, app'.id = app.id
  PROVE  /\ app.res.other \ app'.res.other \subseteq late
         /\ app.scopes \ app'.scopes \subseteq late
         /\ (app.res.trace /\ ~app'.res.trace => d.trace = "unbound")
<1>. app \in App /\ d \in Command
  BY DEF RolloutInv, RolloutTypeOK
<1>0. CASE app'.res = app.res /\ app'.scopes = app.scopes
  BY <1>0
<1>1. CASE Plain
  BY <1>0, <1>1, PlainIs
<1>2. CASE \/ StartApp \/ GrantServices \/ DeployAccepted \/ DeleteApp
  <2>1. app'.res = app.res /\ app'.scopes = app.scopes
    BY <1>2 DEF StartApp, GrantServices, DeployAccepted, DeleteApp, App
  <2>. QED
    BY <1>0, <2>1
<1>3. CASE RuntimeStore \/ Sync \/ DropStore \/ DeleteFolder
  BY <1>0, <1>3 DEF RuntimeStore, Sync, DropStore, DeleteFolder, AppSame
<1>4. CASE CreateApp \/ CreateScoped
  <2>1. app.id = 0 /\ app'.id = apps + 1 /\ apps \in 0..MaxApps
    BY <1>4 DEF CreateApp, CreateScoped, Create, Created, NoApp, RolloutInv, RolloutTypeOK
  <2>. QED
    BY <2>1
<1>5. CASE AddScopes
  <2>1. app' = app \/ app' = [app EXCEPT !.scopes = d.scopes \cup Required]
    BY <1>5 DEF AddScopes
  <2>2. app'.res = app.res /\ (app'.scopes = app.scopes \/ d.scopes \subseteq app'.scopes)
    BY <2>1 DEF App
  <2>3. app.scopes \ d.scopes \subseteq late
    BY <1>5 DEF AddScopes, RolloutInv, Knows, SeenKnown
  <2>. QED
    BY <2>2, <2>3
<1>6. CASE AddTools \/ FinalizeTools
  <2>1. ASSUME WriteTools("addWrite", "addVerify") \/ WriteTools("endWrite", "endVerify")
        PROVE  /\ app'.scopes = app.scopes /\ app'.res.trace = app.res.trace
               /\ app.res.other \ app'.res.other \subseteq late
    BY <2>1, WriteKeeps
  <2>. QED
    BY <1>1, <1>6, <2>1, ToolsAre
<1>7. CASE \E ok \in BOOLEAN : WriteTrace(ok)
  BY <1>7, TraceKeeps
<1>8. CASE Delete \/ Fail
  BY <1>1, <1>2, <1>3, <1>8 DEF Delete, Plain
<1>9. CASE Service /\ UNCHANGED <<userAuth, store, folder, yaml, d>>
  BY <1>9
<1>10. CASE Deploy
  BY <1>1, <1>2, <1>3, <1>4, <1>5, <1>6, <1>7, <1>10 DEF Deploy, Plain
<1>. QED
  BY <1>8, <1>9, <1>10 DEF RolloutNext

(* Whatever fails, is interrupted or done again, and whatever other owners do beside it,   *)
(* the version that runs has what its source needs, a success means that the own upload    *)
(* runs, and an update of the App drops nothing of another owner that the deploy had read. *)
THEOREM RolloutsStaySafe == RolloutSpec => RolloutsAreSafe
<1>1. RolloutInv => RolloutTypeOK /\ RunningVersionIsServed /\ ResumeKeepsSchema /\ SuccessMeansRunning
  BY InvIsSound
<1>2. RolloutInv /\ [RolloutNext]_rolloutVars =>
        [ d' # d /\ app'.id = app.id =>
            /\ app.res.other \ app'.res.other \subseteq late
            /\ app.scopes \ app'.scopes \subseteq late
            /\ (app.res.trace /\ ~app'.res.trace => d.trace = "unbound") ]_rolloutVars
  BY AppAssumption, StepsDropTheLate
<1>. QED
  BY <1>1, <1>2, RolloutInvariant, PTL DEF RolloutSpec, RolloutsAreSafe, UpdatesDropOnlyTheLate
-----------------------------------------------------------------------------
(***************************************************************************)
(* ModelSearch.  What a candidate is scored by is a trace of the very       *)
(* prediction, every call of which was served by the model `ready` names,   *)
(* and `ready` has been the candidate for every service since before the    *)
(* prediction; and a service that exists is on a list of things to delete.  *)
(***************************************************************************)
SearchSteps == {"create", "choose", "sync", "wait", "predict", "verify", "cleanup"}
Backends == Models \cup {NoModel}
Calls == Endpoints \X Models

SearchTypeOK ==
  /\ route \in [Endpoints -> [exists : BOOLEAN, conf : Backends, serves : [Replicas -> Backends]]]
  /\ search \in [pc : SearchSteps, cand : [Endpoints -> Backends], todo : SUBSET Endpoints,
                 matches : Nat, calls : SUBSET Calls, failed : BOOLEAN, created : SUBSET Endpoints,
                 lost : SUBSET Endpoints, evals : Nat]
  /\ ready \in [Endpoints -> Backends]
  /\ trace \in [known : BOOLEAN, fresh : BOOLEAN, calls : SUBSET Calls]

(* Every service that exists was created by this search, which deletes it or says so. *)
CreationsAreKnown ==
  /\ SearchAt("create") => search.created = Endpoints \ search.todo
  /\ search.pc \notin {"create", "cleanup"} => search.created = Endpoints
  /\ ~SearchAt("cleanup") => \A e \in Endpoints : route[e].exists => e \in search.created
  /\ SearchAt("cleanup") => \A e \in Endpoints : route[e].exists => e \in search.todo \cup search.lost

(* Nothing is asked before every service was seen to serve its model. *)
ReadyIsTheCandidate ==
  /\ SearchAt("sync") => Stale \subseteq search.todo
  /\ search.pc \in {"predict", "verify"} => Stale = {}
  /\ SearchAt("verify") /\ Fresh(trace) => trace.calls = search.calls

SearchInv == SearchTypeOK /\ CreationsAreKnown /\ ReadyIsTheCandidate /\ ScoresAreTheCandidates

-----------------------------------------------------------------------------
(* What a step leaves of the search, by the names of its fields. *)
LEMMA SearchFields ==
  ASSUME SearchTypeOK
  PROVE  /\ search.pc \in SearchSteps /\ search.cand \in [Endpoints -> Backends]
         /\ search.todo \subseteq Endpoints /\ search.matches \in Nat
         /\ search.calls \subseteq Calls /\ search.failed \in BOOLEAN
         /\ search.created \subseteq Endpoints /\ search.lost \subseteq Endpoints /\ search.evals \in Nat
  BY DEF SearchTypeOK

(* A route that is made or pointed at a model exists, and no other one begins to. *)
LEMMA RoutesAre ==
  ASSUME SearchTypeOK, NEW e \in Endpoints, NEW m \in Backends
  PROVE  /\ Routes(e, m) \in [Endpoints -> [exists : BOOLEAN, conf : Backends, serves : [Replicas -> Backends]]]
         /\ \A f \in Endpoints : Routes(e, m)[f].exists => f = e \/ route[f].exists
  BY DEF SearchTypeOK, Routes

(* The search gives up, or gepa goes on to the next candidate. *)
LEMMA RaisesIs ==
  ASSUME SearchTypeOK, CreationsAreKnown, search.pc \in {"sync", "wait", "verify"}, Raises
  PROVE  /\ search' \in [pc : SearchSteps, cand : [Endpoints -> Backends], todo : SUBSET Endpoints,
                         matches : Nat, calls : SUBSET Calls, failed : BOOLEAN, created : SUBSET Endpoints,
                         lost : SUBSET Endpoints, evals : Nat]
         /\ search'.pc \in {"cleanup", "choose"} /\ search'.created = Endpoints
         /\ search'.pc = "cleanup" => search'.todo = Endpoints
<1>. /\ search.created = Endpoints /\ search.todo \subseteq Endpoints
  BY SearchFields DEF CreationsAreKnown
<1>1. CASE search' = [search EXCEPT !.pc = "cleanup", !.todo = search.created]
  BY <1>1 DEF SearchTypeOK, SearchSteps
<1>2. CASE search' = [search EXCEPT !.pc = "choose", !.todo = {}]
  BY <1>2 DEF SearchTypeOK, SearchSteps
<1>. QED
  BY <1>1, <1>2 DEF Raises

(* There are no services and no scores at first. *)
LEMMA SearchInvInit == SearchInit => SearchInv
  BY DEF SearchInit, SearchInv, SearchTypeOK, SearchSteps, Backends, NoRoute, NoTrace, CreationsAreKnown,
         ReadyIsTheCandidate, SearchAt, ScoresAreTheCandidates

(* Each step keeps the types ... *)
LEMMA SearchTypes ==
  ASSUME SearchTypeOK, CreationsAreKnown, SearchNext
  PROVE  SearchTypeOK'
<1>. DEFINE Shape == [pc : SearchSteps, cand : [Endpoints -> Backends], todo : SUBSET Endpoints,
                      matches : Nat, calls : SUBSET Calls, failed : BOOLEAN, created : SUBSET Endpoints,
                      lost : SUBSET Endpoints, evals : Nat]
<1>. DEFINE ServedBy == [Endpoints -> [exists : BOOLEAN, conf : Backends, serves : [Replicas -> Backends]]]
<1>0. /\ search \in Shape /\ ready \in [Endpoints -> Backends]
      /\ trace \in [known : BOOLEAN, fresh : BOOLEAN, calls : SUBSET Calls]
      /\ route \in ServedBy
      /\ Models \subseteq Backends /\ NoModel \in Backends
  BY DEF SearchTypeOK, Backends
<1>1. ASSUME NEW e \in Endpoints, NEW m \in Models, CreateExp(e, m) PROVE SearchTypeOK'
  <2>1. search' \in Shape
    BY <1>0, <1>1 DEF CreateExp, SearchSteps
  <2>. QED
    BY <1>0, <1>1, <2>1, RoutesAre DEF CreateExp, SearchTypeOK
<1>2. ASSUME NEW e \in Endpoints, NEW m \in Models, CreateFails(e, m) PROVE SearchTypeOK'
  <2>1. search' \in Shape
    BY <1>0, <1>2 DEF CreateFails, SearchSteps
  <2>2. Routes(e, m) \in ServedBy
    BY <1>0, RoutesAre
  <2>. QED
    BY <1>0, <1>2, <2>1, <2>2 DEF CreateFails, SearchTypeOK
<1>3. ASSUME NEW c \in Candidates, Choose(c) PROVE SearchTypeOK'
  <2>1. search' \in Shape
    <3>1. c \in [Endpoints -> Backends]
      BY <1>0 DEF Candidates
    <3>2. PICK todo \in SUBSET Endpoints :
            search' = [search EXCEPT !.pc = "sync", !.cand = c, !.evals = search.evals + 1, !.calls = {},
                                     !.todo = todo]
      BY <1>3, Zenon DEF Choose
    <3>3. search.evals + 1 \in Nat /\ "sync" \in SearchSteps /\ todo \subseteq Endpoints
      BY <1>0, <3>2 DEF SearchSteps
    <3>. QED
      BY <1>0, <3>1, <3>2, <3>3
  <2>. QED
    BY <1>0, <1>3, <2>1 DEF Choose, SearchTypeOK
<1>4. ASSUME NEW e \in Endpoints, SetModel(e) PROVE SearchTypeOK'
  <2>1. search' \in Shape
    <3>1. CASE search' = [search EXCEPT !.pc = "wait", !.todo = {e}, !.matches = 0]
      BY <1>0, <1>4, <3>1 DEF SearchSteps
    <3>. QED
      BY <1>4, <3>1, RaisesIs DEF SetModel, SearchAt
  <2>2. Routes(e, search.cand[e]) \in ServedBy
    <3>1. search.cand[e] \in Backends
      BY <1>0
    <3>. QED
      BY <3>1, RoutesAre
  <2>. QED
    BY <1>0, <1>4, <2>1, <2>2 DEF SetModel, SearchTypeOK
<1>5. ASSUME NEW e \in Endpoints, NEW r \in Replicas, ProbeRoute(e, r) PROVE SearchTypeOK'
  <2>1. search' \in Shape
    <3>. DEFINE left == (Stale \cup search.todo) \ {e}
    <3>1. left \subseteq Endpoints
      BY <1>0 DEF Stale
    <3>2. PICK pc \in SearchSteps :
            \/ search' = [search EXCEPT !.matches = 0]
            \/ search' = [search EXCEPT !.matches = search.matches + 1]
            \/ search' = [search EXCEPT !.matches = 0, !.todo = left, !.pc = pc]
      <4>1. (IF left = {} THEN "predict" ELSE IF left \subseteq Stale THEN "sync" ELSE "wait") \in SearchSteps
        BY DEF SearchSteps
      <4>. HIDE DEF SearchSteps
      <4>. QED
        BY <1>5, <4>1, Zenon DEF ProbeRoute
    <3>. HIDE DEF left
    <3>3. search.matches + 1 \in Nat /\ 0 \in Nat
      BY <1>0
    <3>4. CASE search' = [search EXCEPT !.matches = 0]
      BY <1>0, <3>3, <3>4
    <3>5. CASE search' = [search EXCEPT !.matches = search.matches + 1]
      BY <1>0, <3>3, <3>5
    <3>6. CASE search' = [search EXCEPT !.matches = 0, !.todo = left, !.pc = pc]
      BY <1>0, <3>1, <3>2, <3>3, <3>6
    <3>. QED
      BY <3>2, <3>4, <3>5, <3>6
  <2>2. search.cand[e] \in Backends
    BY <1>0, <1>5
  <2>. QED
    BY <1>0, <1>5, <2>1, <2>2 DEF ProbeRoute, SearchTypeOK
<1>6. ASSUME WaitTimesOut PROVE SearchTypeOK'
  BY <1>0, <1>6, RaisesIs DEF WaitTimesOut, SearchAt, SearchTypeOK
<1>7. ASSUME AllReady \/ Smoke \/ ScoreFailed \/ EndSearch PROVE SearchTypeOK'
  <2>1. search' \in Shape
    BY <1>0, <1>7 DEF AllReady, Smoke, ScoreFailed, EndSearch, SearchSteps
  <2>. QED
    BY <1>0, <1>7, <2>1 DEF AllReady, Smoke, ScoreFailed, EndSearch, SearchTypeOK
<1>8. ASSUME Verify PROVE SearchTypeOK'
  <2>1. search' \in Shape
    <3>1. CASE Raises
      BY <1>8, <3>1, RaisesIs DEF Verify, SearchAt
    <3>2. Mismatches(trace.calls) \subseteq Endpoints
      BY DEF Mismatches
    <3>3. CASE search' = [search EXCEPT !.pc = "wait", !.todo = Mismatches(trace.calls), !.matches = 0]
      BY <1>0, <3>2, <3>3 DEF SearchSteps
    <3>4. CASE search' = [search EXCEPT !.pc = "choose"]
      BY <1>0, <3>4 DEF SearchSteps
    <3>. QED
      BY <1>8, <3>1, <3>3, <3>4 DEF Verify
  <2>. QED
    BY <1>0, <1>8, <2>1 DEF Verify, SearchTypeOK
<1>9. ASSUME NEW calls \in SUBSET (Endpoints \X Models), NEW traced \in BOOLEAN, NEW failed \in BOOLEAN,
             Predict(calls, traced, failed)
      PROVE  SearchTypeOK'
  <2>1. search' \in Shape /\ trace' \in [known : BOOLEAN, fresh : BOOLEAN, calls : SUBSET Calls]
    BY <1>0, <1>9 DEF Predict, SearchSteps, Calls
  <2>. QED
    BY <1>0, <1>9, <2>1 DEF Predict, SearchTypeOK
<1>10. ASSUME NEW e \in Endpoints, NEW works \in BOOLEAN, DeleteExp(e, works) PROVE SearchTypeOK'
  <2>1. search' \in Shape
    BY <1>0, <1>10 DEF DeleteExp, DeleteFails, SearchSteps
  <2>2. NoRoute \in [exists : BOOLEAN, conf : Backends, serves : [Replicas -> Backends]]
    BY <1>0 DEF NoRoute
  <2>. QED
    BY <1>0, <1>10, <2>1, <2>2 DEF DeleteExp, SearchTypeOK
<1>11. ASSUME NEW e \in Endpoints, NEW r \in Replicas, Converges(e, r) PROVE SearchTypeOK'
  BY <1>0, <1>11 DEF Converges, SearchTypeOK
<1>. QED
  BY <1>1, <1>2, <1>3, <1>4, <1>5, <1>6, <1>7, <1>8, <1>9, <1>10, <1>11 DEF SearchNext

(* ... the list of what has to be deleted ... *)
LEMMA SearchCreations ==
  ASSUME SearchTypeOK, CreationsAreKnown, SearchNext
  PROVE  CreationsAreKnown'
<1>. USE DEF CreationsAreKnown, SearchAt
<1>0. /\ search.pc \in SearchSteps /\ search.todo \subseteq Endpoints /\ search.created \subseteq Endpoints
      /\ Models \subseteq Backends
  BY SearchFields DEF Backends
<1>1. ASSUME NEW e \in Endpoints, NEW m \in Models, CreateExp(e, m) PROVE CreationsAreKnown'
  <2>1. /\ search'.created = search.created \cup {e} /\ search'.todo = search.todo \ {e}
        /\ search'.pc = IF search.todo = {e} THEN "choose" ELSE "create"
    BY <1>1 DEF CreateExp, SearchTypeOK
  <2>2. /\ search.created = Endpoints \ search.todo /\ e \in search.todo
        /\ \A f \in Endpoints : route[f].exists => f \in search.created
    BY <1>1 DEF CreateExp
  <2>3. \A f \in Endpoints : route'[f].exists => f = e \/ route[f].exists
    BY <1>0, <1>1, RoutesAre DEF CreateExp
  <2>4. search'.created = Endpoints \ search'.todo /\ (search'.pc = "choose" => search'.created = Endpoints)
    BY <1>0, <2>1, <2>2
  <2>. QED
    BY <2>1, <2>2, <2>3, <2>4
<1>2. ASSUME NEW e \in Endpoints, NEW m \in Models, CreateFails(e, m) PROVE CreationsAreKnown'
  <2>1. search'.todo = search.created /\ search'.pc = "cleanup" /\ search'.lost = {e}
    BY <1>2 DEF CreateFails, SearchTypeOK
  <2>. QED
    BY <1>0, <1>2, <2>1, RoutesAre DEF CreateFails
<1>3. ASSUME NEW c \in Candidates, Choose(c) PROVE CreationsAreKnown'
  <2>1. search'.pc = "sync" /\ search'.created = search.created
    BY <1>3 DEF Choose, SearchTypeOK
  <2>. QED
    BY <1>0, <1>3, <2>1 DEF Choose
<1>4. ASSUME NEW e \in Endpoints, SetModel(e) PROVE CreationsAreKnown'
  <2>1. /\ search'.created = Endpoints /\ search'.pc \in {"wait", "cleanup", "choose"}
        /\ search'.pc = "cleanup" => search'.todo = Endpoints
    <3>1. CASE search' = [search EXCEPT !.pc = "wait", !.todo = {e}, !.matches = 0]
      BY <1>4, <3>1 DEF SetModel, SearchTypeOK
    <3>. QED
      BY <1>4, <3>1, RaisesIs DEF SetModel
  <2>. QED
    BY <2>1
<1>5. ASSUME NEW e \in Endpoints, NEW r \in Replicas, ProbeRoute(e, r) PROVE CreationsAreKnown'
  <2>1. search'.pc \in {"wait", "predict", "sync"} /\ search'.created = search.created
    BY <1>5 DEF ProbeRoute, SearchTypeOK
  <2>. QED
    BY <1>0, <1>5, <2>1 DEF ProbeRoute
<1>6. ASSUME WaitTimesOut PROVE CreationsAreKnown'
  BY <1>0, <1>6, RaisesIs DEF WaitTimesOut
<1>7. ASSUME AllReady \/ Smoke \/ ScoreFailed \/ EndSearch PROVE CreationsAreKnown'
  <2>1. /\ search'.created = Endpoints /\ search'.pc \in {"choose", "predict", "cleanup"}
        /\ search'.pc = "cleanup" => search'.todo = Endpoints
    BY <1>0, <1>7 DEF AllReady, Smoke, ScoreFailed, EndSearch, SearchTypeOK
  <2>. QED
    BY <1>7, <2>1 DEF AllReady, Smoke, ScoreFailed, EndSearch
<1>8. ASSUME Verify PROVE CreationsAreKnown'
  <2>1. /\ search'.created = Endpoints /\ search'.pc \in {"choose", "wait", "cleanup"}
        /\ search'.pc = "cleanup" => search'.todo = Endpoints
    <3>1. CASE Raises
      BY <1>8, <3>1, RaisesIs DEF Verify
    <3>. QED
      BY <1>0, <1>8, <3>1 DEF Verify, SearchTypeOK
  <2>. QED
    BY <1>8, <2>1 DEF Verify
<1>9. ASSUME NEW calls \in SUBSET (Endpoints \X Models), NEW traced \in BOOLEAN, NEW failed \in BOOLEAN,
             Predict(calls, traced, failed)
      PROVE  CreationsAreKnown'
  <2>1. search'.pc = "verify" /\ search'.created = search.created
    BY <1>9 DEF Predict, SearchTypeOK
  <2>. QED
    BY <1>0, <1>9, <2>1 DEF Predict
<1>10. ASSUME NEW e \in Endpoints, NEW works \in BOOLEAN, DeleteExp(e, works) PROVE CreationsAreKnown'
  <2>1. /\ search'.pc = "cleanup" /\ search'.todo = search.todo \ {e}
        /\ search'.lost = IF works THEN search.lost ELSE search.lost \cup {e}
    BY <1>10 DEF DeleteExp, DeleteFails, SearchTypeOK
  <2>2. \A f \in Endpoints : route'[f].exists => route[f].exists /\ (f = e => ~works)
    BY <1>10 DEF DeleteExp, NoRoute, SearchTypeOK
  <2>. QED
    BY <1>0, <1>10, <2>1, <2>2 DEF DeleteExp
<1>11. ASSUME NEW e \in Endpoints, NEW r \in Replicas, Converges(e, r) PROVE CreationsAreKnown'
  <2>1. \A f \in Endpoints : route'[f].exists = route[f].exists
    BY <1>11 DEF Converges, SearchTypeOK
  <2>. QED
    BY <1>11, <2>1 DEF Converges
<1>. QED
  BY <1>1, <1>2, <1>3, <1>4, <1>5, <1>6, <1>7, <1>8, <1>9, <1>10, <1>11 DEF SearchNext

(* ... that what was asked was ready, and that what was scored was asked. *)
LEMMA SearchReady ==
  ASSUME SearchTypeOK, CreationsAreKnown, ReadyIsTheCandidate, ScoresAreTheCandidates, SearchNext
  PROVE  ReadyIsTheCandidate' /\ ScoresAreTheCandidates'
<1>. USE DEF ReadyIsTheCandidate, SearchAt, Fresh
<1>. DEFINE Goal == ReadyIsTheCandidate' /\ ScoresAreTheCandidates'
<1>0. /\ search.pc \in SearchSteps /\ search.todo \subseteq Endpoints
  BY SearchFields
<1>1. ASSUME search'.pc \in {"create", "choose", "wait", "cleanup"}, scores' = scores
      PROVE  Goal
  BY <1>1 DEF ScoresAreTheCandidates
<1>2. ASSUME NEW e \in Endpoints, NEW m \in Models, CreateExp(e, m) \/ CreateFails(e, m) PROVE Goal
  <2>1. search'.pc \in {"create", "choose", "cleanup"} /\ scores' = scores
    BY <1>2 DEF CreateExp, CreateFails, SearchTypeOK
  <2>. QED
    BY <1>1, <2>1
<1>3. ASSUME NEW c \in Candidates, Choose(c) PROVE Goal
  <2>1. search'.pc = "sync" /\ search'.cand = c /\ search'.todo = {e \in Endpoints : c[e] # ready[e]}
    BY <1>3 DEF Choose, SearchTypeOK
  <2>. QED
    BY <1>3, <2>1 DEF Choose, Stale, ScoresAreTheCandidates
<1>4. ASSUME NEW e \in Endpoints, SetModel(e) PROVE Goal
  <2>1. CASE search' = [search EXCEPT !.pc = "wait", !.todo = {e}, !.matches = 0]
    BY <1>1, <1>4, <2>1 DEF SetModel, SearchTypeOK
  <2>. QED
    BY <1>1, <1>4, <2>1, RaisesIs DEF SetModel
<1>5. ASSUME NEW e \in Endpoints, NEW r \in Replicas, ProbeRoute(e, r) PROVE Goal
  <2>. DEFINE left == (Stale \cup search.todo) \ {e}
  <2>1. CASE \/ search' = [search EXCEPT !.matches = 0]
             \/ search' = [search EXCEPT !.matches = search.matches + 1]
    BY <1>1, <1>5, <2>1 DEF ProbeRoute, SearchTypeOK
  <2>2. ASSUME ready' = [ready EXCEPT ![e] = search.cand[e]],
               search' = [search EXCEPT !.matches = 0, !.todo = left,
                 !.pc = IF left = {} THEN "predict" ELSE IF left \subseteq Stale THEN "sync" ELSE "wait"]
        PROVE  Goal
    <3>1. /\ search'.todo = left /\ search'.cand = search.cand
          /\ search'.pc = IF left = {} THEN "predict" ELSE IF left \subseteq Stale THEN "sync" ELSE "wait"
      BY <2>2 DEF SearchTypeOK
    <3>2. Stale' \subseteq left
      BY <2>2, <3>1 DEF Stale, SearchTypeOK
    <3>. QED
      BY <1>5, <3>1, <3>2 DEF ProbeRoute, ScoresAreTheCandidates
  <2>. QED
    BY <1>5, <2>1, <2>2 DEF ProbeRoute
<1>6. ASSUME WaitTimesOut PROVE Goal
  BY <1>1, <1>6, RaisesIs DEF WaitTimesOut
<1>7. ASSUME AllReady \/ Smoke \/ ScoreFailed \/ EndSearch PROVE Goal
  <2>1. /\ search'.pc \in {"choose", "cleanup"} \/ (search'.pc = "predict" /\ Stale = {})
        /\ search'.cand = search.cand
    BY <1>7 DEF AllReady, Smoke, ScoreFailed, EndSearch, SearchTypeOK
  <2>. QED
    BY <1>7, <2>1 DEF AllReady, Smoke, ScoreFailed, EndSearch, Stale, ScoresAreTheCandidates
<1>8. ASSUME Verify PROVE Goal
  <2>1. CASE Raises /\ scores' = scores
    BY <1>1, <1>8, <2>1, RaisesIs DEF Verify
  <2>2. CASE search' = [search EXCEPT !.pc = "wait", !.todo = Mismatches(trace.calls), !.matches = 0]
             /\ scores' = scores
    BY <1>1, <2>2 DEF SearchTypeOK
  <2>3. ASSUME Fresh(trace), Mismatches(trace.calls) = {},
               scores' = scores \cup {[cand |-> search.cand, calls |-> search.calls]},
               search' = [search EXCEPT !.pc = "choose"]
        PROVE  Goal
    <3>1. trace.calls = search.calls /\ search.calls \subseteq Endpoints \X Models /\ Stale = {}
      BY <1>8, <2>3, SearchFields DEF Verify, Calls
    <3>2. \A c \in search.calls : c[2] = search.cand[c[1]]
      BY <2>3, <3>1 DEF Mismatches, Stale
    <3>3. search'.pc = "choose"
      BY <2>3 DEF SearchTypeOK
    <3>. QED
      BY <2>3, <3>2, <3>3 DEF ScoresAreTheCandidates
  <2>. QED
    BY <1>8, <2>1, <2>2, <2>3 DEF Verify
<1>9. ASSUME NEW calls \in SUBSET (Endpoints \X Models), NEW traced \in BOOLEAN, NEW failed \in BOOLEAN,
             Predict(calls, traced, failed)
      PROVE  Goal
  <2>1. search'.pc = "verify" /\ search'.cand = search.cand /\ search'.calls = calls
    BY <1>9 DEF Predict, SearchTypeOK
  <2>2. trace'.fresh => trace'.calls = calls
    BY <1>9 DEF Predict, SearchTypeOK
  <2>. QED
    BY <1>9, <2>1, <2>2 DEF Predict, Stale, ScoresAreTheCandidates
<1>10. ASSUME NEW e \in Endpoints, NEW works \in BOOLEAN, DeleteExp(e, works) PROVE Goal
  <2>1. search'.pc = "cleanup"
    BY <1>10 DEF DeleteExp, SearchTypeOK
  <2>. QED
    BY <1>1, <1>10, <2>1 DEF DeleteExp
<1>11. ASSUME NEW e \in Endpoints, NEW r \in Replicas, Converges(e, r) PROVE Goal
  BY <1>11 DEF Converges, Stale, ScoresAreTheCandidates
<1>. QED
  BY <1>2, <1>3, <1>4, <1>5, <1>6, <1>7, <1>8, <1>9, <1>10, <1>11 DEF SearchNext

(* For any number of services, models, replicas and candidates.             *)
THEOREM SearchInvariant == SearchSpec => []SearchInv
<1>1. SearchInit => SearchInv
  BY SearchInvInit
<1>2. SearchInv /\ [SearchNext]_searchVars => SearchInv'
  <2>1. SearchInv /\ SearchNext => SearchInv'
    BY SearchTypes, SearchCreations, SearchReady DEF SearchInv
  <2>2. SearchInv /\ UNCHANGED searchVars => SearchInv'
    BY DEF searchVars, SearchInv, SearchTypeOK, CreationsAreKnown, ReadyIsTheCandidate, ScoresAreTheCandidates,
           SearchAt, Stale, Fresh
  <2>. QED
    BY <2>1, <2>2
<1>. QED
  BY <1>1, <1>2, PTL DEF SearchSpec

(* However late the replicas of a route switch and whichever call fails: every score is     *)
(* about answers of the candidate's own models, and a search that has cleaned up leaves no  *)
(* experimental service that it did not report.                                             *)
THEOREM SearchesAreSound == SearchSpec => []SearchIsSound
<1>1. SearchInv => SearchIsSound
  BY DEF SearchInv, SearchIsSound, CreationsAreKnown, NothingIsLeftBehind
<1>. QED
  BY <1>1, SearchInvariant, PTL

-----------------------------------------------------------------------------
(* McpTools.                                                                  *)


(* A manifest that a request serves: whom it may act for, and what is protected. *)
Offered(snap) ==
  \A i \in 1..Len(snap) : /\ ~Refused(snap[i])
                          /\ (snap[i].kind = "sandbox") = (snap[i].policy # NoPolicy)

(* A server's failure was heard as what its identity makes of it. *)
ServerIs(s) ==
  /\ s = [state |-> s.state, token |-> s.token, heard |-> s.heard]
  /\ s.state \in {"new", "up", "down"}
  /\ s.state = "down" => s.heard \in {"raw", "coded", "failed"}

(* What can be said of a call, by the manifest its request read. *)
CallIs(c, snap, t) ==
  LET tool == snap[t.tool] IN
  /\ t.tool \in 1..Len(snap)
  /\ ActsForUser(tool) /\ t.coded => t.heard = "coded"
  /\ ~ActsForUser(tool) /\ tool.kind = "mcp" => t.heard \in {"raw", "result"}
  /\ ActsForUser(tool) /\ (setup.deployed \/ setup.resolver) => t.as = c
  /\ ~ActsForUser(tool) => t.as = Env
  /\ tool.kind = "sandbox" => t.meta = tool.policy
  /\ setup.adapter = "langgraph" => t.fresh

TurnIs(c, t) ==
  /\ t = [pc |-> t.pc, snap |-> t.snap, servers |-> t.servers, last |-> t.last]
  /\ Offered(t.snap)
  /\ DOMAIN t.servers = 1..Len(t.snap) /\ \A i \in 1..Len(t.snap) : ServerIs(t.servers[i])
  /\ t.pc = "ready" /\ setup.adapter = "langgraph" =>
       \A i \in 1..Len(t.snap) : t.servers[i].state # "new" /\ t.servers[i].heard \notin {"coded", "failed"}
  /\ t.last # NoCall => CallIs(c, t.snap, t.last)

ToolsInv ==
  /\ setup \in [adapter : {"langgraph", "openai"}, deployed : BOOLEAN, resolver : BOOLEAN]
  /\ DOMAIN turn = Callers /\ \A c \in Callers : TurnIs(c, turn[c])

(* A request that is not there, or that failed, serves nothing. *)
LEMMA NoTurnIs ==
  ASSUME NEW c
  PROVE  TurnIs(c, NoTurn) /\ TurnIs(c, [NoTurn EXCEPT !.pc = "failed"])
  BY DEF NoTurn, TurnIs, Offered

(* A step of one request leaves the others alone. *)
LEMMA TurnMoves ==
  ASSUME ToolsInv, NEW c \in Callers, NEW t, OfTurn(c, t), TurnIs(c, t)
  PROVE  ToolsInv'
<1>1. setup' = setup /\ DOMAIN turn' = Callers /\ turn'[c] = t /\ \A peer \in Callers \ {c} : turn'[peer] = turn[peer]
  BY DEF OfTurn, ToolsInv
<1>2. \A peer \in Callers : TurnIs(peer, turn'[peer])
  BY <1>1 DEF ToolsInv
<1>3. ASSUME NEW peer, NEW u, TurnIs(peer, u)
      PROVE  TurnIs(peer, u)'
  BY <1>1, <1>3 DEF TurnIs, Offered, Refused, CallIs, ServerIs
<1>4. \A peer \in Callers : TurnIs(peer, turn[peer])'
  BY <1>1, <1>2 DEF TurnIs, Offered, Refused, CallIs, ServerIs
<1>. QED
  BY <1>1, <1>4 DEF ToolsInv

(* A request reads the manifest. *)
LEMMA LoadToolsKeeps ==
  ASSUME ToolsInv, NEW c \in Callers, LoadTools(c)
  PROVE  ToolsInv'
<1>1. CASE OfTurn(c, [NoTurn EXCEPT !.pc = "failed"])
  BY <1>1, NoTurnIs, TurnMoves
<1>2. CASE /\ Accepted(manifest) /\ ~\E i \in 1..Len(manifest) : Refused(manifest[i])
           /\ OfTurn(c, [pc |-> IF setup.adapter = "langgraph" THEN "discover" ELSE "ready", snap |-> manifest,
                         servers |-> ServersOf(manifest), last |-> NoCall])
  <2>. DEFINE t == [pc |-> IF setup.adapter = "langgraph" THEN "discover" ELSE "ready", snap |-> manifest,
                    servers |-> ServersOf(manifest), last |-> NoCall]
  <2>1. Offered(manifest)
    BY <1>2 DEF Offered, Accepted
  <2>2. /\ DOMAIN ServersOf(manifest) = 1..Len(manifest)
        /\ \A i \in 1..Len(manifest) : ServerIs(ServersOf(manifest)[i])
    BY DEF ServersOf, ServerIs
  <2>3. TurnIs(c, t)
    BY <2>1, <2>2 DEF TurnIs
  <2>. QED
    BY <1>2, <2>3, TurnMoves
<1>. QED
  BY <1>1, <1>2 DEF LoadTools

(* A server answers, or does not. *)
LEMMA DiscoverKeeps ==
  ASSUME ToolsInv, NEW c \in Callers, NEW i \in 1..Len(turn[c].snap), Discover(c, i)
  PROVE  ToolsInv'
<1>. DEFINE u == turn[c]
<1>1. TurnIs(c, u) /\ u.pc \in {"discover", "ready"} /\ u.servers[i].state = "new"
  BY DEF ToolsInv, Discover
<1>2. PICK s : OfTurn(c, [u EXCEPT !.servers[i] = s]) /\ ServerIs(s)
  <2>1. CASE OfTurn(c, [u EXCEPT !.servers[i] = Opened])
    <3>1. ServerIs(Opened)
      BY DEF ServerIs, Opened
    <3>. QED
      BY <2>1, <3>1
  <2>2. CASE \E f \in Raised : OfTurn(c, [u EXCEPT !.servers[i] = [state |-> "down", token |-> token,
                                                                   heard |-> Hears(u.snap[i], f)]])
    <3>1. PICK f \in Raised : OfTurn(c, [u EXCEPT !.servers[i] = [state |-> "down", token |-> token,
                                                                   heard |-> Hears(u.snap[i], f)]])
      BY <2>2
    <3>2. ServerIs([state |-> "down", token |-> token, heard |-> Hears(u.snap[i], f)])
      BY DEF ServerIs, Hears
    <3>. QED
      BY <3>1, <3>2
  <2>. QED
    BY <2>1, <2>2 DEF Discover
<1>. DEFINE servers == [u.servers EXCEPT ![i] = s]
            t == [u EXCEPT !.servers[i] = s]
<1>3. t = [pc |-> u.pc, snap |-> u.snap, servers |-> servers, last |-> u.last]
  <2>1. u = [pc |-> u.pc, snap |-> u.snap, servers |-> u.servers, last |-> u.last]
    BY <1>1 DEF TurnIs
  <2>2. \A p, q, v, w : [[pc |-> p, snap |-> q, servers |-> v, last |-> w] EXCEPT !.servers[i] = s]
                         = [pc |-> p, snap |-> q, servers |-> [v EXCEPT ![i] = s], last |-> w]
    OBVIOUS
  <2>. HIDE DEF u
  <2>. QED
    BY <2>1, <2>2
<1>4. /\ DOMAIN servers = 1..Len(u.snap)
      /\ \A j \in 1..Len(u.snap) : ServerIs(servers[j])
  BY <1>1, <1>2 DEF TurnIs
<1>5. ~(u.pc = "ready" /\ setup.adapter = "langgraph")
  BY <1>1 DEF TurnIs
<1>6. TurnIs(c, t)
  <2>1. t.pc = u.pc /\ t.snap = u.snap /\ t.servers = servers /\ t.last = u.last
    BY <1>3
  <2>2. t = [pc |-> t.pc, snap |-> t.snap, servers |-> t.servers, last |-> t.last]
    BY <1>3, <2>1
  <2>. HIDE DEF t, servers
  <2>. QED
    BY <1>1, <1>4, <1>5, <2>1, <2>2 DEF TurnIs
<1>. HIDE DEF u
<1>. QED
  BY <1>2, <1>6, TurnMoves

(* No failure of a user's tool is passed over. *)
LEMMA GatherKeeps ==
  ASSUME ToolsInv, NEW c \in Callers, Gather(c)
  PROVE  ToolsInv'
<1>. DEFINE u == turn[c]
            pc == IF \E i \in 1..Len(u.snap) : u.servers[i].heard \in {"coded", "failed"} THEN "failed" ELSE "ready"
            t == [u EXCEPT !.pc = pc]
<1>1. /\ TurnIs(c, u) /\ \A i \in 1..Len(u.snap) : u.servers[i].state # "new"
      /\ OfTurn(c, t)
  BY DEF ToolsInv, Gather
<1>2. t = [pc |-> pc, snap |-> u.snap, servers |-> u.servers, last |-> u.last]
  BY <1>1 DEF TurnIs
<1>3. t.pc = pc /\ t.snap = u.snap /\ t.servers = u.servers /\ t.last = u.last
  BY <1>2
<1>4. TurnIs(c, t)
  BY <1>1, <1>2, <1>3 DEF TurnIs
<1>. HIDE DEF t
<1>. QED
  BY <1>1, <1>4, TurnMoves

(* What is heard of a failure, by whom the tool acts for. *)
LEMMA FailuresAreHeard ==
  ASSUME NEW tool, NEW f
  PROVE  /\ ~ActsForUser(tool) => Hears(tool, f) = "raw"
         /\ ActsForUser(tool) /\ f.heard # "none" => Hears(tool, f) = "coded"
BY DEF Hears, ActsForUser

(* A call is made, protected, and heard as its identity makes of it. *)
LEMMA CallToolKeeps ==
  ASSUME CodesAreFound, ToolsInv, NEW c \in Callers, NEW i \in 1..Len(turn[c].snap), NEW own, CallTool(c, i, own)
  PROVE  ToolsInv'
<1>. DEFINE u == turn[c]
            tool == u.snap[i]
            meta == IF setup.adapter = "langgraph" THEN tool.policy ELSE Meta(tool, own)
            Call(coded, heard) == [tool |-> i, as |-> Identity(c, tool), fresh |-> Sent(c, i) = token,
                                   coded |-> coded, heard |-> heard, meta |-> meta]
<1>1. TurnIs(c, u)
  BY DEF ToolsInv
<1>2. PICK coded, heard :
        /\ OfTurn(c, [u EXCEPT !.last = Call(coded, heard)])
        /\ ActsForUser(tool) /\ coded => heard = "coded"
        /\ ~ActsForUser(tool) /\ tool.kind = "mcp" => heard \in {"raw", "result"}
  <2>1. CASE OfTurn(c, [u EXCEPT !.last = Call(FALSE, "result")])
    BY <2>1
  <2>2. CASE \E f \in Raised : OfTurn(c, [u EXCEPT !.last = Call(f.coded, Hears(tool, f))])
    <3>1. PICK f \in Raised : OfTurn(c, [u EXCEPT !.last = Call(f.coded, Hears(tool, f))])
      BY <2>2
    <3>2. f.coded => f.heard # "none"
      BY DEF CodesAreFound
    <3>3. /\ ActsForUser(tool) /\ f.coded => Hears(tool, f) = "coded"
          /\ ~ActsForUser(tool) => Hears(tool, f) = "raw"
      BY <3>2, FailuresAreHeard
    <3>. QED
      BY <3>1, <3>3
  <2>3. CASE OfTurn(c, [u EXCEPT !.last = Call(TRUE, Flags(tool))])
    <3>1. /\ ActsForUser(tool) => Flags(tool) = "coded"
          /\ ~ActsForUser(tool) => Flags(tool) = "result"
      BY DEF Flags
    <3>. QED
      BY <2>3, <3>1
  <2>4. CASE /\ setup.adapter = "langgraph" /\ tool.kind = "sandbox"
             /\ \E f \in Raised : OfTurn(c, [u EXCEPT !.last = Call(f.coded, IF f.heard = "none" THEN "failed" ELSE "coded")])
    <3>1. PICK f \in Raised : OfTurn(c, [u EXCEPT !.last = Call(f.coded, IF f.heard = "none" THEN "failed" ELSE "coded")])
      BY <2>4
    <3>2. f.coded => (IF f.heard = "none" THEN "failed" ELSE "coded") = "coded"
      BY DEF CodesAreFound
    <3>3. tool.kind # "mcp"
      BY <2>4
    <3>. QED
      BY <3>1, <3>2, <3>3
  <2>. QED
    BY <2>1, <2>2, <2>3, <2>4 DEF CallTool
<1>. DEFINE last == Call(coded, heard)
            t == [u EXCEPT !.last = last]
<1>3. t = [pc |-> u.pc, snap |-> u.snap, servers |-> u.servers, last |-> last]
  BY <1>1 DEF TurnIs
<1>4. /\ last.tool = i /\ last.as = Identity(c, tool) /\ last.fresh = (Sent(c, i) = token) /\ last.coded = coded
      /\ last.heard = heard /\ last.meta = meta
  OBVIOUS
<1>5. ~Refused(tool) /\ (tool.kind = "sandbox") = (tool.policy # NoPolicy)
  BY <1>1 DEF TurnIs, Offered
<1>6. /\ setup \in [adapter : {"langgraph", "openai"}, deployed : BOOLEAN, resolver : BOOLEAN]
      /\ setup.resolver \in BOOLEAN /\ setup.deployed \in BOOLEAN
  BY DEF ToolsInv
<1>7. /\ ActsForUser(tool) /\ (setup.deployed \/ setup.resolver) => Identity(c, tool) = c
      /\ ~ActsForUser(tool) => Identity(c, tool) = Env
  BY <1>5, <1>6 DEF ActsForUser, Identity, Mode, Refused
<1>8. tool.kind = "sandbox" => meta = tool.policy
  BY <1>5 DEF Meta
<1>9. setup.adapter = "langgraph" => Sent(c, i) = token
  BY DEF Sent
<1>. HIDE DEF last
<1>10. CallIs(c, u.snap, last)
  BY <1>2, <1>4, <1>7, <1>8, <1>9 DEF CallIs
<1>11. TurnIs(c, t)
  <2>1. t.pc = u.pc /\ t.snap = u.snap /\ t.servers = u.servers /\ t.last = last
    BY <1>3
  <2>. HIDE DEF t
  <2>. QED
    BY <1>1, <1>3, <1>10, <2>1 DEF TurnIs
<1>12. OfTurn(c, t)
  BY <1>2 DEF last
<1>. HIDE DEF t
<1>. QED
  BY <1>11, <1>12, TurnMoves

(* Every step keeps the invariant. *)
LEMMA ToolsStepHolds ==
  ASSUME CodesAreFound, ToolsInv, [ToolsNext]_toolVars
  PROVE  ToolsInv'
<1>1. CASE EditManifest \/ Rotate \/ UNCHANGED toolVars
  <2>1. setup' = setup /\ turn' = turn
    BY <1>1 DEF EditManifest, Rotate, toolVars
  <2>2. ASSUME NEW peer \in Callers, TurnIs(peer, turn[peer])
        PROVE  TurnIs(peer, turn[peer])'
    BY <2>1, <2>2 DEF TurnIs, Offered, Refused, CallIs, ServerIs
  <2>. QED
    BY <2>1, <2>2 DEF ToolsInv
<1>2. ASSUME NEW c \in Callers, LoadTools(c) \/ Gather(c) \/ EndTurn(c)
      PROVE  ToolsInv'
  BY <1>2, LoadToolsKeeps, GatherKeeps, NoTurnIs, TurnMoves DEF EndTurn
<1>3. ASSUME NEW c \in Callers, NEW i \in 1..Len(turn[c].snap),
             Discover(c, i) \/ \E own \in {NoPolicy, 9} : CallTool(c, i, own)
      PROVE  ToolsInv'
  BY <1>3, DiscoverKeeps, CallToolKeeps
<1>. QED
  BY <1>1, <1>2, <1>3 DEF ToolsNext

(* The invariant of the MCP tools (databricks_agentkit/langgraph/mcp.py, openai/mcp.py): a    *)
(* request serves the manifest it read, as whom it may, and has heard its servers. What the   *)
(* classification of an exception computes, CodesAreFound, is a hypothesis: a run checks it.  *)
THEOREM ToolsInvariant == CodesAreFound => (ToolsSpec => []ToolsInv)
<1>1. ToolsInit => ToolsInv
  BY NoTurnIs DEF ToolsInit, ToolsInv
<1>. SUFFICES ASSUME CodesAreFound
              PROVE  ToolsSpec => []ToolsInv
  OBVIOUS
<1>2. ToolsInv /\ [ToolsNext]_toolVars => ToolsInv'
  BY ToolsStepHolds
<1>. QED
  BY <1>1, <1>2, PTL DEF ToolsSpec

(* McpToolsAreSafe (runtime/mcp_auth.py, langgraph/mcp.py, openai/mcp.py): a failure of a     *)
(* user's tool is an AuthError with its code, a call acts for whom the manifest says and      *)
(* under its policy, and an agent is offered every tool of the user's; given CodesAreFound.   *)
THEOREM ToolsStaySafe == CodesAreFound => (ToolsSpec => []McpToolsAreSafe)
<1>1. ToolsInv => McpToolsAreSafe
  <2>1. ASSUME ToolsInv, NEW c \in Callers, NEW t \in CallsOf(c)
        PROVE  CallIs(c, turn[c].snap, t)
    BY <2>1 DEF ToolsInv, TurnIs, CallsOf
  <2>2. ToolsInv => UserFailuresAreTyped
    BY <2>1 DEF CallIs, UserFailuresAreTyped
  <2>3. ToolsInv => CallsAreProtected
    <3>. SUFFICES ASSUME ToolsInv, NEW c \in Callers, NEW t \in CallsOf(c)
                  PROVE  /\ ActsForUser(turn[c].snap[t.tool]) /\ (setup.deployed \/ setup.resolver) => t.as = c
                         /\ ~ActsForUser(turn[c].snap[t.tool]) => t.as = Env
                         /\ turn[c].snap[t.tool].kind = "sandbox" => t.meta = turn[c].snap[t.tool].policy
                         /\ setup.adapter = "langgraph" => t.fresh
      BY Zenon DEF CallsAreProtected
    <3>. QED
      BY <2>1 DEF CallIs
  <2>4. ToolsInv => OffersAreWhole
    <3>1. ASSUME ToolsInv, NEW c \in Callers, turn[c].pc = "ready", setup.adapter = "langgraph",
                 NEW i \in 1..Len(turn[c].snap)
          PROVE  turn[c].servers[i].state = "up" \/ turn[c].servers[i].heard = "raw"
      <4>1. TurnIs(c, turn[c])
        BY <3>1 DEF ToolsInv
      <4>2. /\ ServerIs(turn[c].servers[i])
            /\ turn[c].servers[i].state # "new" /\ turn[c].servers[i].heard \notin {"coded", "failed"}
        BY <3>1, <4>1 DEF TurnIs
      <4>. QED
        BY <4>2 DEF ServerIs
    <3>. QED
      BY <3>1 DEF OffersAreWhole
  <2>. QED
    BY <2>2, <2>3, <2>4 DEF McpToolsAreSafe
<1>. QED
  BY <1>1, ToolsInvariant, PTL
=============================================================================
