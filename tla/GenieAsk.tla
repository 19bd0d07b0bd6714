------------------------------ MODULE GenieAsk ------------------------------
(***************************************************************************)
(* GenieAgent, the Genie tool of an agent: ask and poll run SDK calls in     *)
(* worker threads under one deadline, and tell the model what it may do     *)
(* next.  A thread cannot be interrupted: its call may take effect after    *)
(* the deadline, or after the run was cancelled.                            *)
(***************************************************************************)
EXTENDS Naturals

CONSTANTS MaxAsks,     \* bound: questions that reach Genie
          MaxCalls     \* bound: tool calls of the model

VARIABLES tool_call,   \* the call of ask or poll under way
          worker,      \* the worker thread that was started last
          sent,        \* messages that the question has made in the space
          status,      \* status of the latest
          model        \* what the model knows: "ask", "poll" or "stop"

askVars == <<tool_call, worker, sent, status, model>>

Ended == {"COMPLETED", "FAILED", "CANCELLED"}
NoCall(n) == [pc |-> "idle", calls |-> n, late |-> FALSE, cancelled |-> FALSE]
NoWorker == [runs |-> "none", done |-> FALSE, saw |-> "none"]
Works(what) == [NoWorker EXCEPT !.runs = what]

AskInit ==
  /\ tool_call = NoCall(0) /\ worker = NoWorker
  /\ sent = 0 /\ status = "none" /\ model = "ask"

Stage == tool_call.pc
(* The call ends with a reply or an exception.  That leaves its thread as it is. *)
Say(next) == model' = next /\ tool_call' = NoCall(tool_call.calls)

NoThread == worker.runs = "none" \/ worker.done

Drained_Abandoned == TRUE

(* _run_in_thread: a time-out (wait_for cancels it) or a cancellation, and  *)
(* however many more that come, leave it only when its thread is done.      *)
Drained == NoThread
-----------------------------------------------------------------------------
(* ask and poll: the client, the submission, the wait                      *)

CallTool ==
  /\ Stage = "idle" /\ model \in {"ask", "poll"} /\ tool_call.calls < MaxCalls
  /\ tool_call' = [NoCall(tool_call.calls + 1) EXCEPT !.pc = "client"]
  /\ worker' = Works("client")
  /\ UNCHANGED <<sent, status, model>>

Deadline ==
  /\ Stage # "idle" /\ ~tool_call.late
  /\ tool_call' = [tool_call EXCEPT !.late = TRUE]
  /\ UNCHANGED <<worker, sent, status, model>>

(* wait_for with no time left cancels the call before its thread starts.    *)
GotClient ==
  /\ Stage = "client" /\ worker.done /\ ~tool_call.cancelled
  /\ \E late \in {tool_call.late, TRUE} :
       IF model = "poll"
       THEN /\ tool_call' = [tool_call EXCEPT !.pc = "wait", !.late = late]
            /\ worker' = NoWorker /\ UNCHANGED model
       ELSE IF late THEN Say("stop") /\ UNCHANGED worker
       ELSE /\ tool_call' = [tool_call EXCEPT !.pc = "submit"]
            /\ worker' = Works("submit") /\ UNCHANGED model
  /\ UNCHANGED <<sent, status>>

GotMessage ==
  /\ Stage = "submit" /\ worker.done /\ ~tool_call.cancelled /\ ~tool_call.late
  /\ tool_call' = [tool_call EXCEPT !.pc = "wait"]
  /\ worker' = NoWorker /\ UNCHANGED <<sent, status, model>>

GetMessage ==
  /\ Stage = "wait" /\ worker = NoWorker /\ ~tool_call.late /\ ~tool_call.cancelled
  /\ worker' = Works("get")
  /\ UNCHANGED <<tool_call, sent, status, model>>

(* A terminal status is the answer; any other is asked for again later.     *)
GotStatus ==
  /\ Stage = "wait" /\ worker.done /\ ~tool_call.cancelled /\ ~tool_call.late
  /\ IF worker.saw \in Ended THEN Say("stop") /\ UNCHANGED worker
     ELSE worker' = NoWorker /\ UNCHANGED <<tool_call, model>>
  /\ UNCHANGED <<sent, status>>

AfterTimeout_NeverSubmitted(stage) ==
  CASE stage \in {"client", "submit"} -> "ask"
    [] OTHER -> "poll"

(* NOT_SUBMITTED lets the model ask again, INDETERMINATE_SUBMISSION tells   *)
(* it not to, a time-out with the message's ids to poll.                    *)
AfterTimeout(stage) ==
  CASE stage = "client" -> model
    [] stage = "submit" -> "stop"
    [] OTHER            -> "poll"

TimedOut ==
  /\ Stage # "idle" /\ tool_call.late /\ ~tool_call.cancelled /\ Drained
  /\ Say(AfterTimeout(Stage))
  /\ UNCHANGED <<worker, sent, status>>
-----------------------------------------------------------------------------
(* The run is cancelled, perhaps again while it waits for its thread.       *)

CancelCall ==
  /\ Stage # "idle"
  /\ tool_call' = [tool_call EXCEPT !.cancelled = TRUE]
  /\ UNCHANGED <<worker, sent, status, model>>

LeaveCall ==
  /\ Stage # "idle" /\ tool_call.cancelled /\ Drained
  /\ Say("stop")
  /\ UNCHANGED <<worker, sent, status>>
-----------------------------------------------------------------------------
(* Worker threads and the Genie space                                      *)

Submit ==
  /\ worker.runs = "submit" /\ ~worker.done /\ sent < MaxAsks
  /\ sent' = sent + 1 /\ status' = "IN_PROGRESS"
  /\ worker' = Works("answer")
  /\ UNCHANGED <<tool_call, model>>

Read ==
  /\ worker.runs = "get" /\ ~worker.done /\ worker.saw = "none"
  /\ worker' = [worker EXCEPT !.saw = status]
  /\ UNCHANGED <<tool_call, sent, status, model>>

WorkerReturns ==
  /\ ~worker.done
  /\ \/ worker.runs \in {"client", "answer"}
     \/ worker.runs = "get" /\ worker.saw # "none"
  /\ worker' = [worker EXCEPT !.done = TRUE]
  /\ UNCHANGED <<tool_call, sent, status, model>>

(* An SDK call raises, before or after it took effect; the tool fails unless *)
(* the deadline or a cancellation is what it reports.                        *)
WorkerRaises ==
  /\ worker.runs # "none" /\ ~worker.done
  /\ worker' = [worker EXCEPT !.done = TRUE]
  /\ IF Stage = "idle" \/ tool_call.late \/ tool_call.cancelled THEN UNCHANGED <<tool_call, model>>
     ELSE Say("stop")
  /\ UNCHANGED <<sent, status>>

Progress ==
  /\ status = "IN_PROGRESS" /\ status' \in Ended
  /\ UNCHANGED <<tool_call, worker, sent, model>>

AskNext ==
  \/ CallTool \/ Deadline \/ GotClient \/ GotMessage \/ GetMessage \/ GotStatus \/ TimedOut
  \/ CancelCall \/ LeaveCall
  \/ Submit \/ Read \/ WorkerReturns \/ WorkerRaises \/ Progress

AskSpec == AskInit /\ [][AskNext]_askVars
-----------------------------------------------------------------------------
(* A model that does what the replies say, through any number of time-outs, *)
(* asks Genie its question at most once.                                    *)
AskedOnce == sent <= 1

(* A call that has ended, by its deadline or by any number of cancellations *)
(* too, has left no thread at work with the credentials it was given.       *)
NoThreadOutlives == Stage = "idle" => NoThread

GenieAskIsSafe == AskedOnce /\ NoThreadOutlives
=============================================================================
