---------------------------- MODULE SessionQueue ----------------------------
(***************************************************************************)
(* What the runtime promises its callers, with no pods, attempts,          *)
(* heartbeats or events in it: a session is a line.  Invocations join at   *)
(* the end, are served one at a time in the order they joined, and are     *)
(* done for good.  Invocations without a session wait for nobody.          *)
(***************************************************************************)
EXTENDS Integers

CONSTANTS Invocations, Sessions, NoSession

VARIABLES session,   \* session[i]: the session i joined
          place,     \* place[i]: its place in that session's line
          phase      \* phase[i]: "new", "waiting", "served", "completed" or "failed"

qvars == <<session, place, phase>>

Line(s) == {i \in Invocations : phase[i] # "new" /\ session[i] = s}
Done(i) == phase[i] \in {"completed", "failed"}

Ahead(i) == {j \in Line(session[i]) : session[i] # NoSession /\ place[j] < place[i]}

Init ==
  /\ session = [i \in Invocations |-> NoSession]
  /\ place = [i \in Invocations |-> 0]
  /\ phase = [i \in Invocations |-> "new"]

(* Joining: any place behind everyone who is in the line already. *)
Join(i, s) ==
  /\ phase[i] = "new"
  /\ phase' = [phase EXCEPT ![i] = "waiting"]
  /\ session' = [session EXCEPT ![i] = s]
  /\ place'[i] \in Nat
  /\ place' = [place EXCEPT ![i] = place'[i]]
  /\ s # NoSession => \A j \in Line(s) : place[j] < place'[i]

Serve(i) ==
  /\ phase[i] = "waiting"
  /\ \A j \in Ahead(i) : Done(j)
  /\ phase' = [phase EXCEPT ![i] = "served"]
  /\ UNCHANGED <<session, place>>

Leave(i) ==
  /\ phase[i] = "served"
  /\ \E outcome \in {"completed", "failed"} : phase' = [phase EXCEPT ![i] = outcome]
  /\ UNCHANGED <<session, place>>

Next == \E i \in Invocations :
          \/ \E s \in Sessions \cup {NoSession} : Join(i, s)
          \/ Serve(i)
          \/ Leave(i)

Spec == Init /\ [][Next]_qvars
=============================================================================
