------------------------------ MODULE McpTools ------------------------------
(* The MCP tools of agent.toml as an agent uses them, through LangGraph       *)
(* (databricks_agentkit/langgraph/mcp.py) or the OpenAI Agents SDK            *)
(* (openai/mcp.py): every request reads the manifest, resolves a client for   *)
(* each tool, discovers the servers and calls them, while the manifest is     *)
(* edited, credentials rotate and other requests run. What fails for a tool   *)
(* that acts for the request's user must come out as an AuthError (runtime/   *)
(* mcp_auth.py), never as text for the model.                                 *)
EXTENDS Integers, Sequences
LOCAL INSTANCE SequencesExt
LOCAL INSTANCE Functions

CONSTANTS
  Callers,      \* the users whose requests run at the same time, one each
  Documents,    \* the manifests an editor may leave in agent.toml
  MaxEdits, MaxRotations   \* bounds

VARIABLES
  setup,        \* the adapter, whether it is deployed, whether requests bring a resolver
  manifest,     \* agent.toml as it is
  edits,        \* how often it has been edited
  token,        \* the number of the current credentials
  turn          \* caller -> the request: pc, snapshot, servers and its last call

toolVars == <<setup, manifest, edits, token, turn>>

Env == "env"                                  \* the identity of the process itself
Kinds == {"sandbox", "mcp"}                   \* the other two are addresses of "mcp"
NoPolicy == 0

-----------------------------------------------------------------------------
(* Exceptions: node 1 is raised, the nodes hang together by groups, causes and *)
(* contexts, and may do so in a circle.                                        *)

Codes == {"denied", "invalid", "challenge"}
Failures ==
  [of : [{1, 2} -> Codes \cup {"typed", "plain"}],
   nested : [{1, 2} -> {<<>>, <<1>>, <<2>>, <<1, 2>>, <<2, 1>>}]]

\* mcp_auth_error: an AuthError is taken at once, another node after its nested ones;
\* no node is looked at twice.
Frames == [node : {1, 2}, own : BOOLEAN]
Walk[e \in Failures, stack \in Seq(Frames), seen \in SUBSET {1, 2}] ==
  IF stack = <<>> THEN "none"
  ELSE LET n == Head(stack).node IN
       CASE Head(stack).own /\ e.of[n] # "plain" -> e.of[n]
         [] (IF Head(stack).own THEN e.of[n] = "plain" ELSE n \in seen) -> Walk[e, Tail(stack), seen]
         [] ~Head(stack).own /\ n \notin seen ->
              IF e.of[n] = "typed" THEN "typed"
              ELSE Walk[e, [i \in 1..Len(e.nested[n]) |-> [node |-> e.nested[n][i], own |-> FALSE]]
                             \o <<[node |-> n, own |-> TRUE]>> \o Tail(stack),
                        seen \cup {n}]

\* Only the exception that was raised is looked at.
mcp_auth_error_Shallow(e) == IF e.of[1] = "plain" THEN "none" ELSE e.of[1]

mcp_auth_error(e) == Walk[e, <<[node |-> 1, own |-> FALSE]>>, {}]

\* An exception as the caller may tell it apart: whether a node of it has a code, and
\* whether the classification says so.
Coded(e) == LET near == {1} \cup Range(e.nested[1]) IN
            \E n \in near \cup UNION {Range(e.nested[m]) : m \in near} : e.of[n] # "plain"
Raised == {[coded |-> Coded(e), heard |-> mcp_auth_error(e)] : e \in Failures}

\* The classification finds a code wherever it is.
CodesAreFound == \A f \in Raised : f.coded => f.heard # "none"

-----------------------------------------------------------------------------
(* The manifest.                                                              *)

\* parse_tools: ids are unique, a sandbox and nothing else has a policy.
Accepted(doc) ==
  /\ IsInjective([i \in 1..Len(doc) |-> doc[i].id])
  /\ \A i \in 1..Len(doc) : /\ doc[i].kind \in Kinds /\ doc[i].auth \in {"user", "app", "none"}
                            /\ (doc[i].kind = "sandbox") = (doc[i].policy # NoPolicy)

ActsForUser(tool) == tool.auth = "user"
Mode(tool) == IF tool.auth = "none" THEN "app" ELSE tool.auth

\* resolve_mcp_workspace_client: without a resolver a deployed agent has nobody to act for.
Refused(tool) == Mode(tool) = "user" /\ ~setup.resolver /\ setup.deployed
Identity(c, tool) == IF setup.resolver /\ Mode(tool) = "user" THEN c ELSE Env

-----------------------------------------------------------------------------

NoCall == <<>>
NoTurn == [pc |-> "idle", snap |-> <<>>, servers |-> <<>>, last |-> NoCall]

ToolsInit ==
  /\ setup \in [adapter : {"langgraph", "openai"}, deployed : BOOLEAN, resolver : BOOLEAN]
  /\ manifest \in {doc \in Documents : Accepted(doc)} /\ edits = 0 /\ token = 0
  /\ turn = [c \in Callers |-> NoTurn]

EditManifest ==
  /\ edits < MaxEdits /\ edits' = edits + 1
  /\ manifest' \in Documents \ {manifest}
  /\ UNCHANGED <<setup, token, turn>>

Rotate ==
  /\ token < MaxRotations /\ token' = token + 1
  /\ UNCHANGED <<setup, manifest, edits, turn>>

OfTurn(c, t) == turn' = [turn EXCEPT ![c] = t] /\ UNCHANGED <<setup, manifest, edits, token>>

\* What is heard of an exception: for a tool that acts for the user the AuthError of its
\* code or one that only says the tool failed, for another the exception as it is.
Hears(tool, f) == IF ~ActsForUser(tool) THEN "raw" ELSE IF f.heard # "none" THEN "coded" ELSE "failed"

\* A result that says it is an error with a code: an AuthError for the user's tool.
Flags(tool) == IF ActsForUser(tool) THEN "coded" ELSE "result"

\* The servers of a manifest, not yet connected, and one that answers.
ServersOf(doc) == [i \in 1..Len(doc) |-> [state |-> "new", token |-> 0, heard |-> "none"]]
Opened == [state |-> "up", token |-> token, heard |-> "none"]

\* LangGraph opens a session for every call, with the credentials of that moment;
\* OpenAI's server keeps the connection it has.
Sent(c, i) == IF setup.adapter = "langgraph" THEN token ELSE turn[c].servers[i].token

\* A request builds the servers of the manifest it reads; a client that cannot be
\* resolved is an AuthError, whomever the tool acts for.
LoadTools(c) ==
  /\ turn[c].pc = "idle"
  /\ \/ OfTurn(c, [NoTurn EXCEPT !.pc = "failed"])
     \/ /\ Accepted(manifest) /\ ~\E i \in 1..Len(manifest) : Refused(manifest[i])
        /\ OfTurn(c, [pc |-> IF setup.adapter = "langgraph" THEN "discover" ELSE "ready", snap |-> manifest,
                      servers |-> ServersOf(manifest), last |-> NoCall])

\* The servers of a request answer in any order. LangGraph's adapter drops an App tool that
\* fails; with the OpenAI SDK a connection is opened once, when the agent comes to it.
Discover(c, i) ==
  LET tool == turn[c].snap[i] IN
  /\ turn[c].pc \in {"discover", "ready"} /\ turn[c].servers[i].state = "new"
  /\ \/ OfTurn(c, [turn[c] EXCEPT !.servers[i] = Opened])
     \/ \E f \in Raised :
          OfTurn(c, [turn[c] EXCEPT !.servers[i] = [state |-> "down", token |-> token,
                                                    heard |-> Hears(tool, f)]])

\* mcp_tools waits for all of them and raises the first failure of a user's tool.
Gather(c) ==
  /\ turn[c].pc = "discover" /\ \A i \in 1..Len(turn[c].snap) : turn[c].servers[i].state # "new"
  /\ OfTurn(c, [turn[c] EXCEPT !.pc =
       IF \E i \in 1..Len(turn[c].snap) : turn[c].servers[i].heard \in {"coded", "failed"}
       THEN "failed" ELSE "ready"])

\* The protected policy covers what the caller says about the same.
Meta(tool, own) == IF tool.policy # NoPolicy THEN tool.policy ELSE own

\* A call of a tool: its result, an exception, a result that is an error with a code; a
\* sandbox of LangGraph's resolves its client again before.
CallTool(c, i, own) ==
  LET tool == turn[c].snap[i]
      Call(coded, heard) ==
        OfTurn(c, [turn[c] EXCEPT !.last =
          [tool |-> i, as |-> Identity(c, tool), fresh |-> Sent(c, i) = token, coded |-> coded, heard |-> heard,
           meta |-> IF setup.adapter = "langgraph" THEN tool.policy ELSE Meta(tool, own)]]) IN
  /\ turn[c].pc = "ready" /\ turn[c].servers[i].state = "up"
  /\ \/ Call(FALSE, "result")
     \/ \E f \in Raised : Call(f.coded, Hears(tool, f))
     \/ Call(TRUE, Flags(tool))
     \/ /\ setup.adapter = "langgraph" /\ tool.kind = "sandbox"
        /\ \E f \in Raised : Call(f.coded, IF f.heard = "none" THEN "failed" ELSE "coded")

EndTurn(c) == turn[c].pc \in {"ready", "failed"} /\ OfTurn(c, NoTurn)

ToolsNext ==
  \/ EditManifest \/ Rotate
  \/ \E c \in Callers :
       \/ LoadTools(c) \/ Gather(c) \/ EndTurn(c)
       \/ \E i \in 1..Len(turn[c].snap) :
            Discover(c, i) \/ \E own \in {NoPolicy, 9} : CallTool(c, i, own)

ToolsSpec == ToolsInit /\ [][ToolsNext]_toolVars

-----------------------------------------------------------------------------
(* Properties.                                                                *)

CallsOf(c) == {t \in {turn[c].last} : t # NoCall}

\* A failure of a tool that acts for the user is heard as an AuthError, with its code
\* wherever in the exception the code was; of another tool as it came.
UserFailuresAreTyped ==
  \A c \in Callers : \A t \in CallsOf(c) :
    /\ ActsForUser(turn[c].snap[t.tool]) /\ t.coded => t.heard = "coded"
    /\ ~ActsForUser(turn[c].snap[t.tool]) /\ turn[c].snap[t.tool].kind = "mcp" => t.heard \in {"raw", "result"}

\* A call acts for whom the manifest says: deployed, a user's tool only ever for the user
\* of its own request, and a sandbox runs under the policy of the manifest its request
\* read, whatever the caller adds and however the manifest is edited meanwhile.
CallsAreProtected ==
  \A c \in Callers : \A t \in CallsOf(c) :
    LET tool == turn[c].snap[t.tool] IN
    /\ ActsForUser(tool) /\ (setup.deployed \/ setup.resolver) => t.as = c
    /\ ~ActsForUser(tool) => t.as = Env
    /\ tool.kind = "sandbox" => t.meta = tool.policy
    /\ setup.adapter = "langgraph" => t.fresh

\* What LangGraph's agent is offered lacks no tool of the user's.
OffersAreWhole ==
  \A c \in Callers : turn[c].pc = "ready" /\ setup.adapter = "langgraph" =>
    \A i \in 1..Len(turn[c].snap) :
      turn[c].servers[i].state = "up" \/ turn[c].servers[i].heard = "raw"

McpToolsAreSafe == UserFailuresAreTyped /\ CallsAreProtected /\ OffersAreWhole
=============================================================================
