----------------------------- MODULE ModelSearch -----------------------------
(* The search of optimize_prompts_and_models                                  *)
(* (databricks_agentkit/model_upgrades/optimization.py): a candidate gives    *)
(* each bound service a model, the experimental copies of the services are    *)
(* pointed at them, the agent answers a record, and the answer is scored.     *)
(* The replicas of a route switch one by one, so neither the route's          *)
(* configuration nor one probe tells which model will answer.  Which          *)
(* candidate is next (GEPA, UCB1) is left open, and so is the score.          *)
EXTENDS Naturals, FiniteSets

CONSTANTS Endpoints, Models,
          Replicas,         \* what answers for a route
          RouteMatches,     \* _ROUTE_READY_MATCHES
          MaxEvals          \* bound: candidates evaluated, the smoke test's included

VARIABLES route,    \* the experimental services
          search,   \* the running optimization
          ready,    \* ready[e]: last_gateway_synced and expected_backends
          trace,    \* the trace mlflow returns as the last active one
          scores    \* _model_history, and the calls each score is about

searchVars == <<route, search, ready, trace, scores>>

Candidates == [Endpoints -> Models]
NoModel    == "none"
NoRoute    == [exists |-> FALSE, conf |-> NoModel, serves |-> [r \in Replicas |-> NoModel]]
NoTrace    == [known |-> FALSE, fresh |-> FALSE, calls |-> {}]

(* search: pc; the candidate; todo: the endpoints the current step has left;  *)
(* matches: consecutive probes of the expected model; calls: the responses of *)
(* the last prediction; failed: it raised; created: created_exp_endpoints;    *)
(* lost: services whose creation or deletion raised.                          *)
SearchInit ==
  /\ route = [e \in Endpoints |-> NoRoute]
  /\ search = [pc |-> "create", cand |-> [e \in Endpoints |-> NoModel], todo |-> Endpoints,
               matches |-> 0, calls |-> {}, failed |-> FALSE, created |-> {}, lost |-> {}, evals |-> 0]
  /\ ready = [e \in Endpoints |-> NoModel]
  /\ trace = NoTrace
  /\ scores = {}

SearchAt(pc) == search.pc = pc
Routes(e, m) == [route EXCEPT ![e] = [route[e] EXCEPT !.exists = TRUE, !.conf = m]]

(* An exception leaves the search, or gepa goes on to another candidate if it *)
(* was told not to raise; the smoke test, evaluation 1, is not gepa's.        *)
Raises ==
  \/ search' = [search EXCEPT !.pc = "cleanup", !.todo = search.created]
  \/ search.evals > 1 /\ search' = [search EXCEPT !.pc = "choose", !.todo = {}]
-----------------------------------------------------------------------------
CreateExp(e, m) ==
  /\ SearchAt("create") /\ e \in search.todo
  /\ LET made == search.created \cup {e}
     IN  search' = [search EXCEPT !.created = made, !.todo = search.todo \ {e},
                                  !.cand = [search.cand EXCEPT ![e] = m],
                                  !.pc = IF search.todo = {e} THEN "choose" ELSE "create"]
  /\ route' = Routes(e, m)
  /\ UNCHANGED <<ready, trace, scores>>

CreateFails(e, m) ==
  /\ SearchAt("create") /\ e \in search.todo
  /\ search' = [search EXCEPT !.pc = "cleanup", !.todo = search.created, !.lost = {e}]
  /\ route' \in {route, Routes(e, m)}
  /\ UNCHANGED <<ready, trace, scores>>

(* The seed is what the services were created with.                           *)
Choose(c) ==
  /\ SearchAt("choose") /\ search.evals < MaxEvals
  /\ search.evals = 0 => c = search.cand
  /\ search' = [search EXCEPT !.pc = "sync", !.cand = c, !.evals = search.evals + 1, !.calls = {},
                              !.todo = {e \in Endpoints : c[e] # ready[e]}]
  /\ UNCHANGED <<route, ready, trace, scores>>

(* The switch is invalidated before it is tried.                              *)
SetModel(e) ==
  /\ SearchAt("sync") /\ e \in search.todo
  /\ ready' = [ready EXCEPT ![e] = NoModel]
  /\ \/ /\ route' = Routes(e, search.cand[e])
        /\ search' = [search EXCEPT !.pc = "wait", !.todo = {e}, !.matches = 0]
     \/ route' \in {route, Routes(e, search.cand[e])} /\ Raises
  /\ UNCHANGED <<trace, scores>>

Stale == {e \in Endpoints : search.cand[e] # ready[e]}

(* Of the probes only consecutive ones count.                                 *)
ProbeRoute(e, r) ==
  /\ SearchAt("wait") /\ e \in search.todo
  /\ IF route[e].serves[r] # search.cand[e]
     THEN search' = [search EXCEPT !.matches = 0] /\ UNCHANGED ready
     ELSE IF search.matches + 1 < RouteMatches
     THEN search' = [search EXCEPT !.matches = search.matches + 1] /\ UNCHANGED ready
     ELSE /\ ready' = [ready EXCEPT ![e] = search.cand[e]]
          /\ LET left == (Stale \cup search.todo) \ {e}
             IN  search' = [search EXCEPT !.matches = 0, !.todo = left,
                              !.pc = IF left = {} THEN "predict" ELSE IF left \subseteq Stale THEN "sync" ELSE "wait"]
  /\ UNCHANGED <<route, trace, scores>>

WaitTimesOut ==
  /\ SearchAt("wait") /\ Raises
  /\ UNCHANGED <<route, ready, trace, scores>>

AllReady ==
  /\ SearchAt("sync") /\ search.todo = {}
  /\ search' = [search EXCEPT !.pc = "predict"]
  /\ UNCHANGED <<route, ready, trace, scores>>

(* The agent calls services, some perhaps more than once; it may fail, and    *)
(* its calls may go untraced.                                                 *)
Predict(calls, traced, failed) ==
  /\ SearchAt("predict")
  /\ \A c \in calls : \E r \in Replicas : route[c[1]].serves[r] = c[2]
  /\ search' = [search EXCEPT !.pc = "verify", !.calls = calls, !.failed = failed]
  /\ trace' = IF traced THEN [known |-> TRUE, fresh |-> TRUE, calls |-> calls]
                        ELSE [trace EXCEPT !.fresh = FALSE]
  /\ UNCHANGED <<route, ready, scores>>

Mismatches_None(calls) == {}
Mismatches(calls) == {e \in Endpoints : \E c \in calls : c[1] = e /\ c[2] # ready[e]}

Fresh(t) == t.fresh

(* Without a trace there are no spans, and without a call in it no proof.     *)
Verify ==
  /\ SearchAt("verify") /\ ~search.failed /\ search.evals > 1
  /\ IF ~Fresh(trace) \/ trace.calls = {} THEN Raises /\ UNCHANGED scores
     ELSE IF Mismatches(trace.calls) # {}
     THEN /\ search' = [search EXCEPT !.pc = "wait", !.todo = Mismatches(trace.calls), !.matches = 0]
          /\ UNCHANGED scores
     ELSE /\ scores' = scores \cup {[cand |-> search.cand, calls |-> search.calls]}
          /\ search' = [search EXCEPT !.pc = "choose"]
  /\ UNCHANGED <<route, ready, trace>>

(* A failed prediction scores 0, whatever served it.                          *)
ScoreFailed ==
  /\ SearchAt("verify") /\ search.failed /\ search.evals > 1
  /\ search' = [search EXCEPT !.pc = "choose"]
  /\ UNCHANGED <<route, ready, trace, scores>>

(* One record that is answered passes the smoke test; all of a few that fail  *)
(* end the search.                                                            *)
Smoke ==
  /\ SearchAt("verify") /\ search.evals = 1
  /\ IF search.failed
     THEN \/ search' = [search EXCEPT !.pc = "predict"]
          \/ search' = [search EXCEPT !.pc = "cleanup", !.todo = search.created]
     ELSE search' = [search EXCEPT !.pc = "choose"]
  /\ UNCHANGED <<route, ready, trace, scores>>

EndSearch ==
  /\ SearchAt("choose") /\ search.evals > 0
  /\ search' = [search EXCEPT !.pc = "cleanup", !.todo = search.created]
  /\ UNCHANGED <<route, ready, trace, scores>>

DeleteFails(todo, e) == todo \ {e}

DeleteExp(e, works) ==
  /\ SearchAt("cleanup") /\ e \in search.todo
  /\ route' = IF works THEN [route EXCEPT ![e] = NoRoute] ELSE route
  /\ search' = [search EXCEPT !.todo = IF works THEN search.todo \ {e} ELSE DeleteFails(search.todo, e),
                              !.lost = IF works THEN search.lost ELSE search.lost \cup {e}]
  /\ UNCHANGED <<ready, trace, scores>>

(* The route, apart from the code: a replica takes up the configuration.      *)
Converges(e, r) ==
  /\ route[e].exists /\ route[e].serves[r] # route[e].conf
  /\ route' = [route EXCEPT ![e] = [route[e] EXCEPT !.serves = [route[e].serves EXCEPT ![r] = route[e].conf]]]
  /\ UNCHANGED <<search, ready, trace, scores>>

SearchNext ==
  \/ \E e \in Endpoints :
       \/ \E m \in Models : CreateExp(e, m) \/ CreateFails(e, m)
       \/ SetModel(e)
       \/ \E works \in BOOLEAN : DeleteExp(e, works)
       \/ \E r \in Replicas : ProbeRoute(e, r) \/ Converges(e, r)
  \/ \E c \in Candidates : Choose(c)
  \/ WaitTimesOut \/ AllReady \/ Smoke \/ Verify \/ ScoreFailed \/ EndSearch
  \/ \E calls \in SUBSET (Endpoints \X Models), traced, failed \in BOOLEAN : Predict(calls, traced, failed)

SearchSpec == SearchInit /\ [][SearchNext]_searchVars
-----------------------------------------------------------------------------
(* A candidate's score is about answers of the models it names, however the   *)
(* replicas of its routes switch (_run_one).                                  *)
ScoresAreTheCandidates ==
  \A s \in scores : \A c \in s.calls : c[2] = s.cand[c[1]]

(* What a search leaves behind is what it was told it could not create or     *)
(* delete (optimize_prompts_and_models).                                      *)
NothingIsLeftBehind ==
  SearchAt("cleanup") /\ search.todo = {} =>
    \A e \in Endpoints : route[e].exists => e \in search.lost

SearchIsSound == ScoresAreTheCandidates /\ NothingIsLeftBehind
=============================================================================
