------------------------------ MODULE MCAgents ------------------------------
(* The components that serve an agent's answers and the models it is run with,  *)
(* side by side: a behaviour picks one of them and lets it run while the others *)
(* rest.                                                                        *)
EXTENDS LongRunning, AnswerStreams, ChatStream, Conversations, ModelSwitch

CONSTANTS x1, x2, s1, prompt

VARIABLE part    \* the component that runs

agentsVars == <<part, vars, answerVars, chatVars, talkVars, switchVars>>

AgentsInit ==
  /\ part \in {"longrunning", "answer", "chat", "talk", "switch"}
  /\ Init /\ (part # "longrunning" => mode = "stream")
  /\ AnswerInit /\ (part # "answer" => ~answer.remote)
  /\ ChatInit /\ (part # "chat" => ~chat.agent /\ ~chat.remote)
  /\ TalkInit /\ (part # "talk" => ~talk.merged)
  /\ SwitchInit

Rests(p, vs) == part # p => UNCHANGED vs

AgentsNext ==
  /\ UNCHANGED part
  /\ \/ part = "longrunning" /\ Next
     \/ part = "answer" /\ AnswerNext
     \/ part = "chat" /\ ChatNext
     \/ part = "talk" /\ TalkNext
     \/ part = "switch" /\ SwitchNext
  /\ Rests("longrunning", vars) /\ Rests("answer", answerVars) /\ Rests("chat", chatVars)
  /\ Rests("talk", talkVars) /\ Rests("switch", switchVars)

\* Only the long-running server is asked to make progress.
AgentsSpec == AgentsInit /\ [][AgentsNext]_agentsVars /\ Fairness

\* What a server sent is what each client assembles, from events or from chunks: every text
\* once, every call with its arguments, and the end of it told (AnswerStreams, ChatStream).
AllArrives == AnswersArrive /\ ChatsArrive
=============================================================================
