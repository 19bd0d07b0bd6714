----------------------------- MODULE RequestAuth -----------------------------
(***************************************************************************)
(* Request-user credentials of DurableAgentServer on top of                *)
(* DurableRuntime.  A POST brings a credential, which is registered in the *)
(* memory of the pod that serves it (`_request_auth`); the attempt that    *)
(* runs the invocation pops it there before it calls the agent's hook, and *)
(* closes it when the hook is over.  Nothing persists a credential, but    *)
(* any pod that shares the Runtime Store may claim the invocation.         *)
(*                                                                         *)
(* A credential is named after the request that brought it.                *)
(***************************************************************************)
EXTENDS DurableRuntime

CONSTANTS Posts,        \* POST requests
          NoPost,
          Retries,      \* clients may POST an id again
          MaxCancels    \* bound: requests cut short while they are served

ASSUME AuthAssumption ==
  NoPost \notin Posts /\ Retries \in BOOLEAN /\ MaxCancels \in Nat /\ Pods # {}

VARIABLES post,       \* post[q]: the handler `_invoke_request` of q
          open,       \* credentials that are not closed
          reg,        \* reg[p][i]: `_request_auth` of pod p
          starting,   \* <<p, i>>: the attempt is claimed, `_execute` has not begun
          hook,       \* hook[p][i]: the credential given to the running hook
          cancels

authVars == <<post, open, reg, starting, hook, cancels>>
requestVars == <<row, log, task, retry, faults, post, open, reg, starting, hook, cancels>>

(* accept   registered, awaiting accept       answer  accept has returned   *)
(* wait     a synchronous request, polling    done    the response is out   *)
Post == [pc         : {"new", "accept", "answer", "wait", "done"},
         pod        : Pods,
         inv        : Invocations \cup {NoPost},
         sync       : BOOLEAN,    \* neither background nor stream
         registered : BOOLEAN,    \* registered_auth
         queued     : BOOLEAN]    \* accept returned a QUEUED state

InFlight(q) == post[q].pc \in {"accept", "answer", "wait"}

AInit ==
  /\ Init
  /\ post = [q \in Posts |-> [pc |-> "new", pod |-> CHOOSE p \in Pods : TRUE,
                              inv |-> NoPost,
                              sync |-> FALSE, registered |-> FALSE, queued |-> FALSE]]
  /\ open = {}
  /\ reg = [p \in Pods |-> [i \in Invocations |-> NoPost]]
  /\ starting = {}
  /\ hook = [p \in Pods |-> [i \in Invocations |-> NoPost]]
  /\ cancels = 0

SetReg(p, i, q)  == reg' = [reg EXCEPT ![p] = [reg[p] EXCEPT ![i] = q]]
SetHook(p, i, q) == hook' = [hook EXCEPT ![p] = [hook[p] EXCEPT ![i] = q]]

-----------------------------------------------------------------------------
(* _invoke_request up to the await of accept: the first credential of an    *)
(* invocation is registered, a later one is closed at once.                 *)
Arrive(q, p, i, sync) ==
  /\ post[q].pc = "new"
  /\ Retries \/ \A o \in Posts : post[o].pc # "new" => post[o].inv # i
  /\ post' = [post EXCEPT ![q] = [pc |-> "accept", pod |-> p, inv |-> i, sync |-> sync,
                                  registered |-> reg[p][i] = NoPost, queued |-> FALSE]]
  /\ IF reg[p][i] = NoPost
     THEN SetReg(p, i, q) /\ open' = open \cup {q}
     ELSE UNCHANGED <<reg, open>>
  /\ UNCHANGED <<vars, starting, hook, cancels>>

(* _discard_request_auth, or nothing when the request leaves its credential *)
(* to the execution or never registered it.                                 *)
Release(q, keep) ==
  LET p == post[q].pod
      i == post[q].inv
  IN  IF post[q].registered /\ ~keep
      THEN /\ open' = open \ {q}
           /\ IF reg[p][i] = q THEN SetReg(p, i, NoPost) ELSE UNCHANGED reg
      ELSE UNCHANGED <<open, reg>>

KeepsAuth_AnyStatus(q) == ~post[q].sync

KeepsAuth_Never(q) == FALSE

(* execution_owns_auth *)
KeepsAuth(q) == ~post[q].sync /\ post[q].queued

(* Runtime.submit: the store's transaction.  A conflict is a 409. *)
Accepted(q) ==
  LET i == post[q].inv IN
  /\ post[q].pc = "accept"
  /\ \E s \in Sessions \cup {NoSession}, r \in Requests :
       /\ Accept(i, s, r)
       /\ IF Conflicts(i, s, r)
          THEN /\ post' = [post EXCEPT ![q].pc = "done"]
               /\ Release(q, FALSE)
          ELSE /\ post' = [post EXCEPT ![q] = [post[q] EXCEPT !.pc = "answer",
                                                 !.queued = row'[i].status = "QUEUED"]]
               /\ UNCHANGED <<open, reg>>
  /\ UNCHANGED <<task, retry, faults, starting, hook, cancels>>

(* The rest of the handler: the invocation is scheduled if it was   *)
(* queued; a background or streaming request is answered, a synchronous one *)
(* starts to wait.                                                          *)
Answer(q) ==
  LET p == post[q].pod
      i == post[q].inv
  IN  /\ post[q].pc = "answer"
      /\ IF post[q].queued THEN ScheduleAll(p, {i}, FALSE) ELSE UNCHANGED task
      /\ post' = [post EXCEPT ![q].pc = IF post[q].sync THEN "wait" ELSE "done"]
      /\ IF post[q].sync THEN UNCHANGED <<open, reg>> ELSE Release(q, KeepsAuth(q))
      /\ UNCHANGED <<row, log, retry, faults, starting, hook, cancels>>

(* wait has seen the invocation's end. *)
WaitOver(q) ==
  /\ post[q].pc = "wait"
  /\ row[post[q].inv].status \in Terminal
  /\ post' = [post EXCEPT ![q].pc = "done"]
  /\ Release(q, FALSE)
  /\ UNCHANGED <<vars, starting, hook, cancels>>

(* The handler is cancelled, or the store raises, at an await: its finally  *)
(* gives up the credential even if the hook is using it.                    *)
CancelPost(q) ==
  /\ InFlight(q)
  /\ cancels < MaxCancels /\ cancels' = cancels + 1
  /\ post' = [post EXCEPT ![q].pc = "done"]
  /\ Release(q, FALSE)
  /\ UNCHANGED <<vars, starting, hook>>

-----------------------------------------------------------------------------
ClaimTask(p, i) ==
  /\ ClaimGranted(p, i)
  /\ starting' = starting \cup {<<p, i>>}
  /\ UNCHANGED <<post, open, reg, hook, cancels>>

(* _execute: pop the credential.  A replacement attempt, and an attempt     *)
(* that finds none, raises AuthError before any agent code runs.            *)
StartHook(p, i) ==
  LET q == reg[p][i] IN
  /\ <<p, i>> \in starting
  /\ starting' = starting \ {<<p, i>>}
  /\ SetReg(p, i, NoPost)
  /\ IF q # NoPost /\ task[p][i].attempt = 1
     THEN SetHook(p, i, q) /\ UNCHANGED <<vars, open>>
     ELSE HookRaises(p, i) /\ open' = open \ {q} /\ UNCHANGED hook
  /\ UNCHANGED <<post, cancels>>

EmitAuth(p, i) ==
  /\ <<p, i>> \notin starting
  /\ Emit(p, i)
  /\ UNCHANGED authVars

(* The hook is over, one way or another: _execute closes its credential.    *)
LeaveAuth(p, i) ==
  /\ <<p, i>> \notin starting
  /\ EndHook(p, i) \/ CompleteError(p, i) \/ HookCancelled(p, i)
  /\ SetHook(p, i, NoPost)
  /\ open' = open \ {hook[p][i]}
  /\ UNCHANGED <<post, reg, starting, cancels>>

(* The task is cancelled before _execute begins. *)
CancelStart(p, i) ==
  /\ <<p, i>> \in starting
  /\ HookCancelled(p, i)
  /\ starting' = starting \ {<<p, i>>}
  /\ UNCHANGED <<post, open, reg, hook, cancels>>

(* The process ends: its credentials and its requests are gone.             *)
CrashAuth(p) ==
  /\ Crash(p)
  /\ post' = [q \in Posts |-> IF InFlight(q) /\ post[q].pod = p
                              THEN [post[q] EXCEPT !.pc = "done"] ELSE post[q]]
  /\ open' = open \ {q \in Posts : post[q].pod = p}
  /\ reg' = [reg EXCEPT ![p] = [i \in Invocations |-> NoPost]]
  /\ hook' = [hook EXCEPT ![p] = [i \in Invocations |-> NoPost]]
  /\ starting' = {s \in starting : s[1] # p}
  /\ UNCHANGED cancels

(* What goes on without touching a credential *)
Unrelated ==
  /\ \/ \E p \in Pods : ScanQueued(p) \/ ScanStale(p)
     \/ \E p \in Pods, i \in Invocations :
          \/ GetInvocation(p, i)
          \/ ClaimDenied(p, i) \/ ClaimError(p, i) \/ Resume(p, i) \/ Beat(p, i)
          \/ PersistFailure(p, i) \/ PersistFailureError(p, i)
          \/ HandOff(p, i) \/ LookUpError(p, i)
     \/ \E i \in Invocations : Lapse(i) \/ Stall(i)
  /\ UNCHANGED authVars

Handler(q) == Accepted(q) \/ Answer(q) \/ WaitOver(q) \/ CancelPost(q)

ANext ==
  \/ Unrelated
  \/ \E q \in Posts : Handler(q)
  \/ \E q \in Posts, p \in Pods, i \in Invocations, sync \in BOOLEAN : Arrive(q, p, i, sync)
  \/ \E p \in Pods, i \in Invocations :
       ClaimTask(p, i) \/ StartHook(p, i) \/ EmitAuth(p, i) \/ LeaveAuth(p, i) \/ CancelStart(p, i)
  \/ \E p \in Pods : CrashAuth(p)

ASpec == AInit /\ [][ANext]_requestVars

-----------------------------------------------------------------------------
AuthTypeOK ==
  /\ post \in [Posts -> Post]
  /\ open \subseteq Posts
  /\ reg \in [Pods -> [Invocations -> Posts \cup {NoPost}]]
  /\ starting \subseteq Pods \X Invocations
  /\ hook \in [Pods -> [Invocations -> Posts \cup {NoPost}]]
  /\ cancels \in 0..MaxCancels

(* README.md: "trusted Databricks Apps ingress headers supply a             *)
(* process-local credential for the first execution attempt".  A first      *)
(* attempt that is about to start finds one in the memory of its pod ...    *)
FirstAttemptAuthorized ==
  \A p \in Pods, i \in Invocations :
    <<p, i>> \in starting /\ task[p][i].attempt = 1 => reg[p][i] # NoPost

(* ... and keeps it: nobody closes the credential of a hook that runs.      *)
HookAuthOpen ==
  \A p \in Pods, i \in Invocations : hook[p][i] # NoPost => hook[p][i] \in open

(* No client has repeated an id. *)
NoRepeats ==
  \A q, o \in Posts : post[q].pc # "new" /\ post[o].pc # "new" /\ post[q].inv = post[o].inv => q = o

(* In a single process both hold, also for an invocation that queues behind *)
(* another of its session, as long as no client repeats an id, no request   *)
(* is cut short and, for the first, the process does not fail.              *)
FirstAttemptFindsAuth == NoRepeats /\ cancels = 0 /\ faults = 0 => FirstAttemptAuthorized
HookKeepsAuth         == NoRepeats /\ cancels = 0 => HookAuthOpen

(* A hook has the credentials of the request it answers from its start to   *)
(* its end.                                                                 *)
HooksHaveTheirAuth == AuthTypeOK /\ FirstAttemptFindsAuth /\ HookKeepsAuth

(* A credential is open only while somebody has a use for it: the request   *)
(* that brought it, an invocation that is yet to be executed, or a hook.    *)
CredentialsReleased ==
  \A q \in open :
    \/ InFlight(q)
    \/ hook[post[q].pod][post[q].inv] = q
    \/ reg[post[q].pod][post[q].inv] = q /\ row[post[q].inv].status \notin Terminal
=============================================================================
