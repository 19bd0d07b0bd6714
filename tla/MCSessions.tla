----------------------------- MODULE MCSessions -----------------------------
(* The components a conversation's state passes through, side by side: a       *)
(* behaviour picks one of them and lets it run while the others rest.          *)
EXTENDS ResponseStream, Transcript, LongTermMemory, LakebaseEngines,
        GeniePoll, ResultTruncation, McpRegistration, TLC

CONSTANTS p1, p2, f1, f2, s1, c1

VARIABLE part    \* the component that runs

SessionsInit ==
  /\ part \in {"stream", "saver", "talk", "memory", "lakebase", "ask", "poll", "truncation",
              "registration"}
  /\ StreamInit /\ SaverInit /\ TranscriptInit /\ MemoryInit /\ LakebaseInit /\ AskInit /\ PollInit
  /\ RegisterInit /\ TruncationInit /\ (part # "truncation" => size = [n \in 0..Rows |-> 0])

Rests(p, vs) == part # p => UNCHANGED vs

SessionsNext ==
  /\ UNCHANGED part
  /\ \/ part = "stream" /\ StreamNext
     \/ part = "saver" /\ SaverNext
     \/ part = "talk" /\ TranscriptNext
     \/ part = "memory" /\ MemoryNext
     \/ part = "lakebase" /\ LakebaseNext
     \/ part = "ask" /\ AskNext
     \/ part = "poll" /\ PollNext
     \/ part = "truncation" /\ TruncationNext
     \/ part = "registration" /\ RegisterNext
  /\ Rests("stream", svars) /\ Rests("saver", saverVars) /\ Rests("talk", transcriptVars)
  /\ Rests("memory", memoryVars) /\ Rests("lakebase", lakebaseVars) /\ Rests("ask", askVars)
  /\ Rests("poll", pollVars) /\ Rests("truncation", truncationVars)
  /\ Rests("registration", registerVars)

W(kind, schema, setup) ==
  [kind |-> kind, schema |-> schema, cached |-> kind = "engine", setup |-> setup, pool_recycle |-> 14]
MCWants == {W("engine", s1, TRUE), W("engine", Public, FALSE), W("pool", s1, TRUE)}

SessionsSymmetry == Permutations({p1, p2})

\* What a client has been given in order is known by its last message: the repeats of
\* message 0, as many as there are polls, make no new state.
Followed == [stream EXCEPT !.got = IF DeliversInOrder THEN stream.got # <<>> ELSE stream.got]

\* A component that rests never changes: a state is known by the one that runs.
Running ==
  <<part, CASE part = "stream" -> <<vars, Followed>> [] part = "saver" -> saverVars [] part = "talk" -> transcriptVars
            [] part = "memory" -> memoryVars [] part = "lakebase" -> lakebaseVars [] part = "ask" -> askVars
            [] part = "poll" -> pollVars [] part = "truncation" -> truncationVars
            [] part = "registration" -> registerVars>>
=============================================================================
