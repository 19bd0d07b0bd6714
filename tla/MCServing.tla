------------------------------ MODULE MCServing ------------------------------
(* What a deployed agent serves its requests with, side by side: the callers'  *)
(* credentials and the bindings of agent.toml.  A behaviour picks one of them  *)
(* and lets it run while the others rest.                                      *)
EXTENDS RequestAuth, Bindings, TLC

CONSTANTS p1, i1, i2, q1, q2, s1, r1, n1

VARIABLE part    \* the component that runs

Rests(p, vs) == part # p => UNCHANGED vs

\* A component that rests stays in one of its initial states.
ServingInit ==
  /\ part \in {"auth", "bindings"}
  /\ AInit
  /\ BindInit /\ (part # "bindings" => toml = Scaffold(None))

ServingNext ==
  /\ UNCHANGED part
  /\ \/ part = "auth" /\ ANext
     \/ part = "bindings" /\ BindNext
  /\ Rests("auth", requestVars) /\ Rests("bindings", bindVars)

\* The roles of an agent are its invocations here, and its model services the posts.
ServingSymmetry == Permutations({i1, i2}) \cup Permutations({q1, q2})

\* A component that rests never changes: a state is known by the one that runs.
Running == <<part, IF part = "auth" THEN requestVars ELSE bindVars>>
=============================================================================
