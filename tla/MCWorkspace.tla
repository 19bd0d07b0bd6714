----------------------------- MODULE MCWorkspace -----------------------------
(* The components that change an operator's workspace and the Runtime Store,    *)
(* side by side: a behaviour picks one of them and lets it run while the others *)
(* rest.                                                                        *)
EXTENDS StoreTransactions, Rollout, ModelSearch, McpTools, TLC

CONSTANTS a1, a2, b1, b2, s1, r1, table, mcp

VARIABLE part    \* the component that runs

Tool(id, kind, auth, policy) == [id |-> id, kind |-> kind, auth |-> auth, policy |-> policy]

\* A component that rests stays in one of its initial states.
WorkspaceInit ==
  /\ part \in {"transactions", "rollout", "search", "tools"}
  /\ Init
  /\ RolloutInit /\ (part # "rollout" => app = NoApp /\ ~userAuth)
  /\ SearchInit
  /\ ToolsInit /\ (part # "tools" => setup = [adapter |-> "langgraph", deployed |-> TRUE, resolver |-> TRUE]
                                    /\ manifest = <<Tool("a", "mcp", "app", NoPolicy)>>)

Rests(p, vs) == part # p => UNCHANGED vs

WorkspaceNext ==
  /\ UNCHANGED part
  /\ \/ part = "transactions" /\ Next
     \/ part = "rollout" /\ RolloutNext
     \/ part = "search" /\ SearchNext
     \/ part = "tools" /\ ToolsNext
  /\ Rests("transactions", vars) /\ Rests("rollout", rolloutVars)
  /\ Rests("search", searchVars) /\ Rests("tools", toolVars)

\* What agent.toml may declare: a sandbox and a server in either identity, two entries of
\* one id, a policy where none belongs.
MCDocuments ==
  {<<Tool("a", "sandbox", "user", 1), Tool("b", "mcp", "app", NoPolicy)>>,
   <<Tool("a", "sandbox", "none", 2), Tool("b", "mcp", "user", NoPolicy)>>,
   <<Tool("a", "mcp", "app", NoPolicy)>>,
   <<Tool("a", "mcp", "user", NoPolicy), Tool("a", "mcp", "app", NoPolicy)>>,
   <<Tool("b", "mcp", "app", 3)>>}

MCManifests == {{}, {<<table, 1>>, <<table, 2>>, <<mcp, 1>>}}

\* The parts share the interchangeable values: a smaller group of permutations.
WorkspaceSymmetry == Permutations({a1, a2}) \cup Permutations({b1, b2})

\* A component that rests never changes: a state is known by the one that runs.
Running ==
  <<part, CASE part = "transactions" -> vars
            [] part = "rollout" -> rolloutVars
            [] part = "search" -> searchVars
            [] part = "tools" -> toolVars>>
=============================================================================
