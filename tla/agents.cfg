SPECIFICATION AgentsSpec
CONSTANTS
  x1 = x1  x2 = x2  s1 = s1  prompt = prompt
\* LongRunning
  Handlers = {"stream"}
  MaxAttempts = 5
  MaxEmits = 2
  MaxFaults = 1
\* AnswerStreams: two pieces of text, three items
  Pieces = {x1, x2}
  MaxItems = 3
  MaxEvents = 4
\* ChatStream: two calls, four chunks; Conversations: six messages
  MaxCalls = 2
  MaxChunks = 4
  MaxSaid = 6
\* ModelSwitch: one service, one prompt, one failed or interrupted call
  ModelServices = {s1}
  ModelChoices = {"a", "b", "c"}
  Prompts = {prompt}
  MaxActions = 2
  MaxVersions = 2
  MaxTrouble = 1
INVARIANTS OutcomeMatchesLog AllArrives TalkReplays
PROPERTIES LogGrowsAtItsEnd OutcomeIsItsAttempts EveryResponseEnds SwitchesAreSafe
CHECK_DEADLOCK FALSE
