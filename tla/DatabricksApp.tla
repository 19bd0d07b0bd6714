---------------------------- MODULE DatabricksApp ----------------------------
(***************************************************************************)
(* A Databricks App as `agentbricks deploy` and `deployments delete` see   *)
(* it through the `databricks apps` calls: compute, the deployment that    *)
(* runs and the one being rolled out, its resources and user scopes.  The  *)
(* Apps service is not part of the repository: its steps are what the      *)
(* callers' code waits for, retries and guards against.                    *)
(*                                                                         *)
(* Options are sets with at most one element.  A permission is its         *)
(* strength: 0 none, 1 the weaker, 2 the stronger (SELECT < MODIFY, ...).  *)
(***************************************************************************)
EXTENDS Integers, FiniteSets

CONSTANTS Tools,       \* securables an App resource grants access to
          Services,    \* MCP services the service principal needs a grant on
          Manifests,   \* the tool lists an agent.toml can have
          Others,      \* App resources that other owners attach
          Required,    \* user scopes the request-user tools need
          OtherScopes, \* user scopes that other owners add
          MaxDeploys,  \* bound: deploys
          MaxApps,     \* bound: Apps created under the name
          MaxOutside   \* bound: changes made by other owners

ASSUME AppAssumption ==
  /\ MaxDeploys \in Nat /\ MaxApps \in Nat \ {0} /\ MaxOutside \in Nat
  /\ {} \in Manifests /\ \A m \in Manifests : m \subseteq (Tools \cup Services) \X {1, 2}

VARIABLES app,     \* the App under the deployment's name
          apps,    \* Apps that have had the name so far
          outside, \* changes made by other owners so far
          late     \* history: what others attached since the deploy last read the App

Scopes == Required \cup OtherScopes

(* What a rolled-out source needs: its tools, and the schema its app.yaml names. *)
Version == [n : 0..MaxDeploys, bound : Manifests, schema : BOOLEAN]

Resources == [tool : [Tools -> 0..2], trace : BOOLEAN, other : SUBSET Others]

NoResources == [tool |-> [t \in Tools |-> 0], trace |-> FALSE, other |-> {}]

App == [id : 0..MaxApps,            \* 0: no App has the name
        here : BOOLEAN,             \* created by this tool's deploys
        deleting : BOOLEAN,
        compute : {"STOPPED", "STARTING", "ACTIVE"},
        active : SUBSET Version, pending : SUBSET Version,
        restart : BOOLEAN,          \* a start's rollout of `active` that has not surfaced
        sp : BOOLEAN,               \* the service principal resolves
        res : Resources, uc : SUBSET Services,
        scopes : SUBSET Scopes, effective : SUBSET Scopes]

NoApp == [id |-> 0, here |-> FALSE, deleting |-> FALSE, compute |-> "STOPPED",
          active |-> {}, pending |-> {}, restart |-> FALSE, sp |-> FALSE,
          res |-> NoResources, uc |-> {}, scopes |-> {}, effective |-> {}]

(* An App created with --no-wait: compute boots, the principal may lag. *)
Created(id, scopes) ==
  [NoApp EXCEPT !.id = id, !.here = TRUE, !.compute = "STARTING", !.scopes = scopes]

(* An App that an earlier version of the tool rolled out, without a schema in its env. *)
Legacy ==
  [NoApp EXCEPT !.id = 1, !.compute = "ACTIVE", !.sp = TRUE,
                !.active = {[n |-> 0, bound |-> {}, schema |-> FALSE]}]

Create(scopes) ==
  /\ app.id = 0 /\ apps < MaxApps
  /\ app' = Created(apps + 1, scopes) /\ apps' = apps + 1

Exists == app.id # 0

---------------------------------------------------------------------------
(* The Apps service *)

BecomeActive ==
  /\ Exists /\ app.compute = "STARTING"
  /\ app' = [app EXCEPT !.compute = "ACTIVE"]
  /\ UNCHANGED <<apps, outside, late>>

PrincipalAppears ==
  /\ Exists /\ ~app.sp
  /\ app' = [app EXCEPT !.sp = TRUE]
  /\ UNCHANGED <<apps, outside, late>>

(* `apps start` rolls out the last active deployment again; it can surface   *)
(* late, after any number of deploys.  It is the version active at that time *)
(* that it rolls out: what Apps does with one queued before a newer deploy,  *)
(* the code neither asks nor guards against.                                 *)
Surface ==
  /\ app.restart /\ app.pending = {}
  /\ app' = [app EXCEPT !.restart = FALSE, !.pending = app.active]
  /\ UNCHANGED <<apps, outside, late>>

Settle(ok) ==
  /\ app.pending # {}
  /\ app' = [app EXCEPT !.pending = {}, !.active = IF ok THEN app.pending ELSE app.active]
  /\ UNCHANGED <<apps, outside, late>>

Converge ==
  /\ app.effective # app.scopes
  /\ app' = [app EXCEPT !.effective = app.scopes]
  /\ UNCHANGED <<apps, outside, late>>

Gone ==
  /\ app.deleting
  /\ app' = NoApp /\ late' = {}
  /\ UNCHANGED <<apps, outside>>

---------------------------------------------------------------------------
(* The App's other owners *)

OtherResources(rs) ==
  /\ Exists /\ outside < MaxOutside /\ rs # app.res.other
  /\ app' = [app EXCEPT !.res = [app.res EXCEPT !.other = rs]]
  /\ late' = late \cup (rs \ app.res.other)
  /\ outside' = outside + 1 /\ UNCHANGED apps

OtherScope(s) ==
  /\ Exists /\ outside < MaxOutside /\ s \notin app.scopes
  /\ app' = [app EXCEPT !.scopes = app.scopes \cup {s}]
  /\ late' = late \cup {s}
  /\ outside' = outside + 1 /\ UNCHANGED apps

StopApp ==
  /\ Exists /\ outside < MaxOutside /\ app.compute = "ACTIVE" /\ app.pending = {}
  /\ app' = [app EXCEPT !.compute = "STOPPED", !.restart = FALSE]
  /\ outside' = outside + 1 /\ UNCHANGED <<apps, late>>

Service ==
  \/ BecomeActive \/ PrincipalAppears \/ Surface \/ Converge \/ Gone
  \/ \E ok \in BOOLEAN : Settle(ok)
  \/ \E rs \in SUBSET Others : OtherResources(rs)
  \/ \E s \in OtherScopes : OtherScope(s)
  \/ StopApp
=============================================================================
