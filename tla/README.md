# databricks-ai-bridge in TLA+

This directory models the parts of the repository whose correctness depends on
the order in which several processes, tasks, connections, clients or remote
calls do things: the agent runtime, the long-running agent server, what an
agent's conversation rests on (sessions, memories, Lakebase, Genie, MCP), how
its streamed answers are put together again by clients, and how it is deployed,
bound and upgraded. Each component has a TLA+ module, TLC configurations that
check it on small instances, and, for most, theorems that TLAPS checks for
every value of the constants.

`PROJECT.json` holds the exact tables: which definition models which lines
(`map`), what each run checks (`runs`), which slip of the code each property
catches (`mutants`), what the models disagree with the documentation about
(`findings`), what is hard to test in this code (`hazards`) and what is proved
(`theorems`).

Paths below are relative to the repository. `runtime/` stands for
`integrations/agentbricks/src/databricks_agentkit/runtime/`, `agentkit/` for
`integrations/agentbricks/src/databricks_agentkit/`, `agentbricks/` for
`integrations/agentbricks/src/databricks_agentbricks/`, `bridge/` for
`src/databricks_ai_bridge/`.

## 1. The system

### Components that are modelled

| Component | State it keeps | Operations | What makes it correct |
|---|---|---|---|
| Lakebase Runtime Store, `runtime/durability/lakebase_runtime_store.py` | table `invocations` (status, session, order in the session, attempt, heartbeat), table `invocation_events` with a BIGSERIAL | accept, claim, complete, fail, append_event, heartbeat; reads by id, by session, of queued and of stale rows | one ACTIVE row per session; service in acceptance order; writes fenced by the attempt; row and log written together; cursors that skip nothing |
| Durable executor, `runtime/durability/{execution,heartbeat,recovery}.py`, `runtime/execution.py` | `_tasks`, `_claim_retries`, one heartbeat per running attempt; all lost in a crash | submit, read, two scanners, the task of an invocation (claim, hook, outcome, hand-over), crash | every accepted invocation ends, once, in order, whichever pods run it |
| In-memory Runtime Store and local executor, `runtime/store.py`, `runtime/execution.py` | one dictionary, one list of events; `_tasks`, `_claim_retries` | the same calls, no scanner, `stop` | nothing that could start is forgotten between a denied claim and a hand-over |
| Event stream, `runtime/app.py` `_event_stream` | per reader: cursor, what it read, the `changed` event | poll, wake-up, resume after a disconnect | a stream that ends carried every event once; an emit on the reader's pod wakes it |
| POST and request credentials, `runtime/app.py`, `runtime/auth.py` | `_request_auth`, in the memory of one process | POST registers, the first attempt pops, either closes | the first attempt runs with its credential, which is closed when nobody can use it |
| MCP servers of the manifest, `agentkit/langgraph/mcp.py`, `agentkit/openai/mcp.py`, `runtime/mcp_auth.py` | what a request read of agent.toml, its clients and servers | resolve, discover or connect, call; classify what fails | a tool that acts for its user fails as an AuthError, never as text for the model |
| Long-running server, `bridge/long_running/{server,repository,models}.py` | tables `responses` and `messages`; one task per attempt | background POST, claim of a silent response, handler, heartbeat, timeout, error report, deferred failure, sweep, crash | one ordered log in spite of several unlocked writers; outcomes of the attempts that own the response |
| Stream retrieval, `bridge/long_running/server.py` `_stream_retrieve` | the client's cursor | poll status, poll messages, drop, reopen | every message in its order, none twice but message 0, and all of them at `[DONE]` |
| Streams and turns of the framework integrations: AI SDK provider, LangChain, LangChain.js | the parts of an answer so far | one event or chunk at a time; the next turn | every text, call and result arrives once, in its own block; the next turn gives the conversation back |
| Session Store clients, `agentkit/langgraph/session_store.py`, `agentkit/openai/sessions.py` | an append-only log of items, listed page by page | put, put_writes, get, delete; add, read, pop_item, clear | a checkpoint read back is the one that was put; a transcript is what was said |
| Memory tools, `agentkit/memory_store.py`, `agentkit/{openai,langgraph}/memory.py` | one document per path | remember, forget: a read, then a write | a fact once; nothing lost but by an unread overwrite |
| Lakebase engines, pools and tokens, `bridge/lakebase.py` and its users in `databricks_openai`, `databricks_langchain` | engines by cache key, pooled connections, one cached token | log in, check out, set the search path, set up | a login with a live token; a statement under its own schema |
| Genie, `bridge/genie.py`, `runtime/genie.py` | one message in a space; worker threads | submit, poll, time out, cancel; choose the answer; cut the result | asked once; the text, query and result of one attempt; what is shown fits |
| MCP registration, `databricks_mcp/connector.py` | clients at authorization servers, connections | discover, register a client, create the connection | a reported connection exists, with a client of its own |
| Deploy record, `agentbricks/services/deployment/deploy_state.py`, `deploy_service.py`, `cli/deploy.py` | one JSON file per App; the pids of deploys | check, record, phases, outcome, `--no-wait`, `deployments wait` | no two rollouts at once; a wait reports the deploy it was started for, and ends |
| Rollout, `deploy_service.py` and the provisioners | the App, its resources and scopes, the Runtime Store, the uploaded source | deploy, `deployments delete`, with an interrupt anywhere | a version that runs has what it needs; an App of other owners keeps what is theirs |
| Project files and bindings, `agentbricks/projects/`, `deploy_service.py` | agent.toml, app.yaml | the commands that edit agent.toml; the deploy's two readings | a version runs with what its agent.toml binds |
| Model upgrades, `agentkit/model_upgrades/`, `agentbricks/cli/models.py` | experimental services and traces; production services, prompt aliases, a history file | search; set, apply, promote, roll back | a score is about the models it names; the history leads back |

### Components that are not modelled

`PROJECT.json` lists every one with its reason: CORS, tracing and model
services (configuration read at start, stateless calls); the CLI's parsing,
rendering and local diagnosis; vector search, model serving credentials and
utilities; the OpenAI clients, DSPy, LlamaIndex and the retrievers; the API
client and pagination; templates, release scripts and documentation. They
convert data around single calls and keep no state between them.

### How they interact

A POST reaches `DurableAgentServer`, which registers the request's credential
and calls `Runtime.submit`. `submit` inserts a QUEUED row and schedules a task
on the same pod; a read of a QUEUED row, the queue scanner and the stale
scanner, on any pod, schedule one too. A task claims the row. The store grants
the claim when no earlier row of the session is unfinished, and marks it with a
new attempt number. The task then runs the agent's hook under a heartbeat,
writes the outcome, and hands the session over to its next row. Event streams
only read the store. Pods share nothing but the store.

The hook reads and writes what outlives a request through clients of remote
services: checkpoints or a transcript in the Session Store, memories, tables in
Lakebase, questions to Genie, MCP tools. None of these holds a lock from a read
to the write that follows from it, so another run of the same thread, also one
whose attempt was taken over, may come in between. The answer leaves as a stream
of events, which client libraries in two languages put together again and give
back with the next turn.

The long-running server has the runtime's shape with weaker means. A claim is a
conditional UPDATE on attempt number and heartbeat. Messages are numbered by
whoever writes them, and only the primary key (response_id, sequence_number)
stands between two writers.

Deploys share one file. Writes replace it atomically, but what a process read
may be old when it writes. The same is true of agent.toml and of the App, which
other owners change while a deploy or a delete runs. A model upgrade moves the
services and prompts a deployed agent names, one call at a time.

### What is hard here

- Two pods or connections that claim, accept or emit at once (READ COMMITTED).
- A worker that lost its attempt and does not know yet: it beats, emits,
  completes and fails late.
- A crash between any two statements, and a heartbeat that stalls although its
  owner lives.
- A hand-over that meets a task which is about to give up.
- Sequence numbers that are drawn, or computed, before they are committed.
- A reader that polls two tables in two reads, or clears its wake-up first.
- A deploy process that dies, and whose pid is used again.
- Reads and writes of a remote document in two calls, beside other owners of it.
- A remote call that takes effect although its caller sees a failure, or whose
  thread outlives the deadline of the call that waits for it.
- A rollout, promotion or registration that stops half-way.
- Deltas, whole items, parallel calls and results that tell the same thing twice.

The `hazards` table has each with its line, and the properties that cover it.

## 2. Modules

| Module | Models | Builds on |
|---|---|---|
| `RuntimeStore` | both tables of the Lakebase Runtime Store, each operation one atomic step | |
| `SessionQueue` | abstract: what a caller is promised; a session is a line | |
| `DurableRuntime` | pods with tasks, scanners, heartbeats, crashes; shown to implement `SessionQueue` | `RuntimeStore` |
| `MemoryStore` | the in-memory store: one dictionary, one list of events | |
| `LocalRuntime` | one process without scanners, with `stop`; shown to implement `SessionQueue` too | `MemoryStore` |
| `AtomicStore` | abstract: the operations of `RuntimeStore` by any caller in any order | `RuntimeStore` |
| `StoreTransactions` | the same operations statement by statement, on several connections; shown to implement `AtomicStore` | |
| `EventStream` | readers of the event log, composed with the runtime | `DurableRuntime` |
| `RequestAuth` | POST handlers and credentials, composed with the runtime | `DurableRuntime` |
| `McpTools` | requests that discover and call the MCP tools of a manifest | |
| `ResponseStore` | tables `responses` and `messages`, for one response | |
| `LongRunning` | the attempts of a background response, sweep, scanner | `ResponseStore` |
| `ResponseStream` | a client that streams it, composed with the server | `LongRunning` |
| `SdkParts` | the blocks of the AI SDK provider and the chunks of LangChain.js | |
| `AnswerStreams`, `ChatStream` | a streamed answer of the Responses API; one of chat completions | `SdkParts` |
| `Conversations` | the turn after an answer, as three clients write it | |
| `SessionItems` | a session of the Session Store: a stamped log, listed by pages | |
| `Checkpointer`, `Transcript` | LangGraph's checkpoints of a thread; an OpenAI session | `SessionItems` |
| `LongTermMemory` | remember and forget of several agents at one path | |
| `LakebaseEngines` | engines, pools, tokens and search paths | |
| `GenieAsk`, `GeniePoll` | the agent's Genie tool with its threads; the bridge's `ask_question` | |
| `ResultTruncation` | the cut of a result to a token budget | |
| `McpRegistration` | `register_mcp_server_via_dcr` request by request | |
| `DeployRecord` | deploys, `--no-wait` launchers and a wait around one file | |
| `DatabricksApp` | the App as deploys see it | |
| `Rollout` | `deploy` and `deployments delete` | `DatabricksApp` |
| `Bindings` | agent.toml, app.yaml, the stores, services and grants they name | |
| `ModelSearch`, `ModelSwitch` | the search for models and prompts; their promotion and rollback | |
| `MCDurableRuntime`, `MCDeployRecord` | model values and symmetry for TLC | the module they name |
| `MCServing` | `RequestAuth` or `Bindings` | |
| `MCAgents` | `LongRunning`, `AnswerStreams`, `ChatStream`, `Conversations` or `ModelSwitch` | |
| `MCSessions` | `ResponseStream`, `Checkpointer`, `Transcript`, `LongTermMemory`, `LakebaseEngines`, `GenieAsk`, `GeniePoll`, `ResultTruncation` or `McpRegistration` | |
| `MCWorkspace` | `StoreTransactions`, `Rollout`, `ModelSearch` or `McpTools` | |
| `*_proofs` | theorems: `DurableRuntime`, `LocalRuntime`, `StoreTransactions`, `LongRunning` for the module of that name, `DeployRecord` for it and `ModelSwitch`, `AgentServer` for `EventStream`, `RequestAuth` and `Bindings`, `Workspace` for `Rollout`, `ModelSearch` and `McpTools`, `Sessions` for the components of `MCSessions` | |

The last four `MC` modules put components that share no state side by side: a
variable `part` picks one in the initial state, that one runs and the others
rest (`Rests`), and the view `Running` reads the state of the one that runs. One
run then checks them all, and its state space is the sum, not the product, of
theirs.

A definition named `Op_Slip` (`Emit_NumberedByDatabase`, `Owns_AttemptOnly`) is
operation `Op` with a plausible slip in it. No specification uses it; the
`mutants` table pairs each with the property that catches it.

### How the code appears in them

An action is the code between two awaits (or two statements, two remote calls,
or two file accesses) with the one transaction or call it performs. What a task
read before is kept in its own record, and the store may have moved on since. A
remote call that can fail may do so before or after it took effect.

- **`RuntimeStore`.** `row[i]` is the row of invocation `i`, `log[i]` its events
  in sequence order. `Accept`, `TakeOver`, `Complete`, `Fail`, `AppendEvent`,
  `Heartbeat` are the methods of `LakebaseRuntimeStore`. Atomicity of each is an
  assumption of this module and the subject of `StoreTransactions`.
  Time is one bit: a row is `fresh` while its heartbeat is younger than
  `stale_seconds`.
- **`DurableRuntime`.** `task[p][i]` is the entry of `_tasks` on pod `p`, with
  the control point of `_run`, the attempt it holds and whether its heartbeat
  task lives; `retry[p]` is `_claim_retries`. Faults (counted by `faults`) are:
  a claim, complete or fail that raises before or after its commit, the read of
  a hand-over that raises, a hook that is cancelled, a heartbeat that stalls, a crash of the pod.
  A hand-over is two steps (`LookUp`, `HandOver`): the row it read may have been
  claimed before it schedules it.
- **`LocalRuntime`.** Cuts a call at every await, also between the read that
  returned QUEUED and the scheduling it leads to (`calls`).
  `InMemoryRuntimeStore` happens never to suspend, so it has a subset of these
  behaviours; the executor is written for any store.
- **`StoreTransactions`.** A transaction is a sequence of statements: advisory
  lock, `MAX + 1`, INSERT, the snapshot of an UPDATE and the UPDATE itself
  (which waits for the row and matches its latest version, as PostgreSQL does
  under READ COMMITTED), the INSERT of the event, COMMIT. `Rollback` may come at
  any point and does not give sequence numbers back.
- **`EventStream`.** `reader[c]` is the generator that serves client `c`, `got[c]`
  what the client received. Cursors are positions in the invocation's log: the
  order of the sequence numbers without the gaps other invocations leave.
- **`RequestAuth`.** A credential is named after the POST that brought it. `reg`
  is `_request_auth` of each pod, `hook` the credential a running hook has.
- **`McpTools`.** `turn[c]` is a request: the snapshot of the manifest it took,
  the servers it discovered, its last call and what came out of it. `token`
  numbers the credentials, which are renewed between any two steps.
- **`LongRunning`.** `task[a]` is whatever works for attempt `a`: the claim, the
  handler, its error report, the deferred failure. Pods need no names: the
  claim that makes the attempt number `a` gives birth to exactly one task.
- **`ResponseStream`.** One client, with the cursor it would reopen with. `got`
  is the sequence of everything that was delivered to it, one message at a time;
  a connection may break between any two.
- **`AnswerStreams`, `ChatStream`, `Conversations`.** A text is a sequence of
  pieces, a call an index with an id, a name and its arguments. What was sent is
  kept (`answer`, `chat`), next to what each client has made of it; the
  properties compare the two. `Conversations` keeps what was said and compares
  it with what the next request says.
- **`Checkpointer`, `Transcript`.** A session is the log of `SessionItems`. A
  channel's value is the version it was written with; `written[c]` remembers
  what checkpoint `c` was put with, `said` what the operations add up to.
- **`LongTermMemory`.** A memory is how often each fact is a line of it; a
  call keeps what it read (`read`) until it writes. `known` and `overwrote` are
  history variables.
- **`LakebaseEngines`.** Time is in ticks. A user has a wish (engine or pool,
  schema, cached or not), an engine or pool, and the search path of the
  connection it holds. Postgres, SQLAlchemy and LangGraph are modelled from how
  the code uses them.
- **`GenieAsk`, `GeniePoll`.** A worker thread goes on whatever becomes of its
  call; it is `_run_in_thread` that does not let go of it (`Drained`), and no
  reply resets it. Attachments belong to one of Genie's attempts and each
  attempt begins with its query, which Genie may have given no id; which
  attachment the reply takes is the code's choice, by position.
- **`McpRegistration`.** A client is its authorization server and its number
  there. Registration and creation may take effect unseen.
- **`DeployRecord`.** A process is its pid; `reused` are pids of dead deploys
  that an unrelated process has now. `raced` is a history variable: two deploys
  were between their check and their record at once.
- **`DatabricksApp`, `Rollout`.** A version is the source it was uploaded with; a
  permission is its strength. The operator's command `d` has a control point per
  remote call, and what it read (scopes, tools, the deployment it waits for).
- **`Bindings`.** A command is the document it holds and the edition it read.
  `made` are the stores ever created, by id: a name can be another store later.
- **`ModelSearch`, `ModelSwitch`.** Replicas of a route switch model one by one;
  a trace is the set of models that answered. `previous` is `@production_previous`,
  `actions` the history file, `astray` what was moved and not recorded.

## 3. Runs

| Run | Question | Bounds |
|---|---|---|
| `durable_safety` | Does the durable runtime keep its rows: one ACTIVE row per session, service in order, fenced attempts, a log that tells the row's story, nothing accepted or ended that changes? | 2 pods, 2 invocations, a session or none, 2 requests, 1 emit per attempt, 1 fault |
| `durable_live` | Does every accepted invocation end? Is the runtime a session queue (`ImplementsSessionQueue`)? | the same with 1 request and no emits, 1 fault |
| `local` | The session queue, serial hooks, replay order and no lost hand-over in one process | 2 invocations, 1 emit, 1 fault, `stop` at any time |
| `events` | Does a stream carry every event once, wake in time, and end? | 2 pods, 1 invocation, 1 emit per attempt, 1 fault, 1 dropped connection |
| `auth` | Is a credential there when needed and closed when not? Does a version run with what its agent.toml binds? | 1 process, 2 invocations of a session, 2 POSTs also of one id, 1 cancelled request, 2 faults; one store name, two model services, two roles, one prompt, one tool, 3 moves of commands and other owners, 2 stores |
| `agents` | Is the log of a response ordered, its outcome its owner's to give, revise and explain, and does it end? Does a streamed answer arrive as it was sent and go back as it arrived? Does the history of switches lead back? | 2 messages per attempt, 1 fault, 5 attempts; 3 items in 4 events, 2 calls in 4 chunks, 6 messages; 1 service and 1 prompt, 2 actions, 2 versions, 1 failure or interrupt |
| `sessions` | Is what a conversation stored what is read back, and what is reported what happened? | 2 attempts, 1 emit, 1 fault; pages of 2, 3 checkpoints, 4 items, 2 processes; 2 agents, 2 facts, 3 memories, 2 updates; tokens of 3 ticks, 2 engines; 2 asks, 3 calls, 4 iterations, 3 queries, 3 attachments of an attempt, 5 rows; 2 registrars, 2 registered clients |
| `workspace` | Do the SQL transactions add up to the atomic store? May a cursor skip an event? Does a version that runs keep what it needs? Is a score about its models? Do MCP tools fail as what they are? | 2 connections, 2 invocations, 2 attempts, 3 sequence numbers; 1 tool, 1 service, 2 deploys, 2 Apps, 1 change from outside; 2 services of 2 replicas, 2 evaluations; 1 request at a time, 1 edit, 1 rotation |
| `deploy` | Do rollouts overlap only through the known race, does a wait report the right deploy, and end? | 2 foreground deploys, one `--no-wait`, 1 phase, 1 kill |
| `durable_overlap`, `longrunning_invoke`, `deploy_outcome` | What a document promises and the code does not do (section 5) | the smallest instance that shows it |

Several properties are conjunctions of named parts, so that one run can ask
them together: `SessionsRunSerially` is types, `HooksSerial` and
`SessionReplaysInOrder`; `ReadersMissNothing` is `EndedMeansAll` and `NoLostWake`;
`HooksHaveTheirAuth` is `FirstAttemptFindsAuth` and `HookKeepsAuth`; `RowsStayUnique` is
`IndexesNeverReject`; `AllArrives` is `AnswersArrive` and `ChatsArrive`;
`ConversationsReadBack` is `CheckpointReadsBack` and `TranscriptIsWhole`;
`MemoryIsSound` is `FactsAppearOnce`, `FactsAreKept` and `AbortedByOthers`;
`LakebaseIsSound` is `LoginsUseLiveTokens`, `StatementsKeepTheirPath` and
`StoresFindTheirTables`; `StreamIsSound` is `DeliversInOrder`
and `DoneIsComplete`; `OutcomeIsItsAttempts` is `EndedIsNotResumed` and
`OnlyItsAttemptRevises`; `GenieIsSound` is `AskedOnce`, `NoThreadOutlives`,
`AnswerIsFinal`, `RepliesAreHonest` and `SpansAreEnded`; `RegistrationIsSound` is
`DoneIsConnected` and `OrphansAreOfFailures`; `SearchIsSound` is
`ScoresAreTheCandidates` and `NothingIsLeftBehind`; `McpToolsAreSafe` is
`UserFailuresAreTyped`, `CallsAreProtected` and `OffersAreWhole`; `RolloutsAreSafe`
is `RunningVersionIsServed`, `ResumeKeepsSchema` and `SuccessMeansRunning` in every
state and `UpdatesDropOnlyTheLate` at every step;
`BindingsAreSound` and `SwitchesAreSafe` likewise.

**Why these bounds are enough to be interesting.** Every hazard of a shared
store needs two workers and, for order, two invocations of one session. One
fault makes a second attempt while the first is still alive, which is where
fencing matters, and the fault may itself be followed by any interleaving. The
same holds of documents, Apps and servers with two writers: one reads, the other
writes, the first writes what it read. The properties that carry the design are
proved for every number of pods, invocations, attempts, messages, connections,
readers, deploys, agents, engines, asks, rows, registrars, services and faults
(section 6), so the runs there only have to find mistakes early.

`agents` registers a stream function only: the two kinds of POST differ in
nothing but whether a handler is found, so a POST with `stream` shows all that a
served one does and a POST without shows `NoHandler`; its bound of five attempts
is never reached with one fault, so no behaviour is cut. In `workspace` three
sequence numbers allow a claim, an append and an outcome on either invocation,
in either order, one of them lost to a rollback; requests with MCP tools share
nothing but the manifest and the credentials, which change under each of them,
so one caller shows what several do. In `sessions` three checkpoints are a chain
and a branch, and a page of two makes every list of a thread take several reads.
Four events are the least in which two texts interleave with a tool call.

Bounds appear as guards: `MaxEmits`, `MaxFaults`, `MaxAttempts`, `MaxSequence`,
`MaxDrops`, `MaxCancels`, `MaxPhases`, `MaxKills`, `MaxSleeps`, `MaxMoves`,
`MaxStores`, `MaxItems`, `MaxEvents`, `MaxCalls`, `MaxChunks`, `MaxSaid`,
`MaxActions`, `MaxVersions`, `MaxTrouble`, `MaxCheckpoints`, `MaxTasks`,
`MaxMemories`, `MaxUpdates`, `MaxEngines`, `MaxAsks`, `MaxIterations`,
`MaxQueries`, `MaxAttachments`, `MaxRegisters`, `MaxDeploys`, `MaxApps`,
`MaxOutside`, `MaxEvals`, `MaxEdits`, `MaxRotations`. `TokenLife`, `CacheFor` and
`MaxDelay` are the times of the token cache, `MaxTokens` a budget.

**Symmetry** is used only in runs without liveness properties
(`durable_safety`, `auth`, `sessions`, `workspace`, `deploy_outcome`): ids, pods,
connections, processes, users and requests are compared for equality only.
`sessions` has a view besides: of deliveries that are in order it keeps whether
there are any, since the client's cursor then says which (`Followed`). So the
number of times message 0 is repeated has no bound, and none is needed.
`agents` has neither symmetry nor view, because it checks `EveryResponseEnds`.

**Deadlock** is checked for the durable runtime and its streams. The other
systems really stop: a Runtime that was stopped, a response that has ended, POSTs that are
answered, deploys and registrations that are over, an answer that is complete.

## 4. Fairness

- `DurableRuntime`: a task that can run does (`asyncio` schedules every ready
  task), both scanners wake every `scan_seconds`, a hook ends, and time passes
  for a row nobody refreshes. Clients owe nothing: no fairness on submits or
  reads, none on emits, none on faults, stalls or crashes. Recovery needs a
  recovery hook; without one the stale scanner does not exist and the code only
  warns (`runtime/app.py:100`).
- `LocalRuntime`: the same for tasks and for a call that has to resume. Nobody
  has to submit, poll or stop. Its liveness speaks of executions without fault:
  a claim that raised, or a hook that was cancelled, leaves a row that nothing
  in the process looks for again.
- `EventStream`: additionally, a generator whose client reads goes on, and
  `poll_seconds` pass.
- `LongRunning`: tasks run, a handler ends or `asyncio.timeout` ends it, time
  passes, and the scanner (`bridge/long_running/server.py:579`) comes round. No client
  has to ask again.
- `DeployRecord`: time passes, a deploy that is not killed goes on, and a wait polls.

All of it is weak fairness: each of these steps stays enabled until it is taken.
The other components have safety properties only: their callers may stop asking
at any time, and what a remote service owes is not in this repository.

## 5. What the models found

Three disagreements between a document and the code have a run of their own:

- `durable_overlap` / `SessionHooksSerial`: "Invocations in one session execute
  serially" (`runtime/ARCHITECTURE.md:46`). Rows do, hooks do not: a stalled
  heartbeat hands the row to another pod, and the first hook is not cancelled
  (`heartbeat.py:62`).
- `longrunning_invoke` / `RegisteredHandlerIsReinvoked`: a resume always starts
  the stream function (`server.py:1144`), also for an agent that registered only
  an invoke function.
- `deploy_outcome` / `OutcomeKept`: `deploy --no-wait` may overwrite the outcome
  its child has written already (`deploy_state.py:216`); the wait then reports a
  successful deploy as "exited unexpectedly".

Others were met on the way. Each is stated by a definition of its module that
no run lists; to see the behaviour, add it as an INVARIANT to the run named.

- `CleanupSparesNewOwner` (`LongRunning`, in `agents` with `sweep` idle): the
  comment at `server.py:728-730` says the cleanup of an old attempt does not
  clobber its successor. Its status write is fenced; its error message is not,
  and takes the number the successor is about to use.
- `LateEmissionsAreTagged` (`LongRunning`, in `agents`): the comment at
  `server.py:663-666` says a superseded handler goes on writing messages that are
  ignored. Its next INSERT collides with `response.resumed` and ends it.
- `StopLeavesNothing` (`LocalRuntime`, in `local`): a submit that is accepted
  while `stop` waits for cancelled tasks starts a task that `stop` neither
  cancels nor awaits (`runtime/execution.py:142`).
- `FirstAttemptAuthorized` (`RequestAuth`, in `auth` with two pods and no
  faults): the queue scanner of a replica that did not serve the POST may claim
  the first attempt and finds no credential (`runtime/app.py:166`), although the
  README says the headers supply one "for the first execution attempt".
- `HookAuthOpen` (`RequestAuth`, in `auth`): when a POST is overtaken at the
  store by its own retry, it gets the invocation back ACTIVE, concludes that the
  execution does not own its credential, and closes it under the running hook
  (`runtime/app.py:235`). A cancelled synchronous request does the same, by
  design.
- `OneRollout` (`DeployRecord`, in `deploy`): two deploys that both pass
  `running_deploy` before either records itself both roll out
  (`deploy_service.py:897`, `:592`).

Behaviour worth knowing that contradicts no document:

- In the long-running server nothing locks the log. What keeps it in order is
  that a writer never holds a number beyond the log's end, so an INSERT either
  collides or appends; `response.resumed` is the sentinel that takes the number
  an old handler would use next. The TODO at `server.py:84` (numbers from the
  database) would remove that protection: the slip `Emit_NumberedByDatabase`
  breaks `HandlersWriteBlocks`.
- The outcome of a response is not final: a completed status whose write raised
  after its commit is later turned into failed by the error report of the same
  attempt, and a response the sweep failed may still be completed by its live
  handler (`server.py:770`, `:896` are fenced by the attempt, not by the status).
  What holds, and is checked, is `OutcomeIsItsAttempts`: nobody but the attempt
  the row names, or the sweep, gives or revises an outcome, and an ended response
  is not resumed. `FailureIsExplained` exempts the response for which no handler
  is registered (`server.py:827`), beside the one the sweep failed.
- A stream re-delivers message 0 on every poll or reconnect while its cursor is 0
  (`server.py:1332`), which is the one repeat `DeliversInOrder` allows, and may
  end on `failed` without the error message, which the sweep appends after the status.
- An attempt that was claimed but whose `response.resumed` collides is run by
  nobody until it is stale again.
- In the Runtime Store cursors into a BIGSERIAL are safe only because a row
  lock is held from the draw to the commit, and a session has one ACTIVE row
  (`CursorsSkipNothing`; the slip `Update_NoForUpdate` breaks it).
- A cancelled hook leaves its row ACTIVE. In memory, or without a recovery hook,
  its session is blocked from then on.
- A phase of a deploy has no time limit: a live deploy that spends more than
  STALE_AFTER_S in one, or whose machine sleeps, is taken for dead.
- `ask_question` answers with the texts alone when Genie gave the last query no
  id (`bridge/genie.py:421`); it does not fall back to the query of an earlier attempt.
- A credential stays open on a pod whose invocation another pod runs. Everything
  said of credentials is said of one process (`OneProcess` in the proofs).
- A database login presents a live token only if a token outlives two delays of
  its minting, even with an empty cache (`LakebaseAssumption`; found by the
  proof). The engine cache does not tell workspace clients apart
  (`databricks_openai/agents/session.py:182`).
- The OpenAI session's `pop_item` clears the transcript before it writes it back:
  a failure in between, or an item added meanwhile, is lost (`disturbed` in
  `Transcript`).
- A run that lists a thread while it is deleted and written anew may put a
  checkpoint together from pages of before and after. `ValuesReadBack` exempts
  such a run, and the checkpoints it puts. With two processes TLC never met one;
  the proof did not go through without the exemption, and three processes with
  pages of one item show why.
- remember and forget may write back content that another agent has changed
  since they read it; the model only knows that this is the one way to lose a
  fact (`overwrote`). Neither this nor the loss of a `pop_item` is a violation of
  a property: `MemoryIsSound` and `ConversationsReadBack` say what holds until then.
- A registration whose answer was lost leaves a client no connection names; a
  connection that exists is returned without a look at its URL.
- `deploy` resumes an App without writing the schema into the env when its tools
  act for the request's user, and `ResumeKeepsSchema` exempts these projects from
  the schema a clean first deploy writes; what it says of them is that a version
  that has the schema is not followed by one without. `deploy` does not start
  such an App when it is stopped. A failure of the steps after the rollout skips the grants while the version runs.
- What an `apps start` queued may surface late (`app_provisioner.py:310`), also
  after the deploy was accepted. `DatabricksApp` assumes that the Apps service
  rolls out the version that is active by then; if it rolled out the one that was
  active when the App was started, a deploy could report a version that does not
  run, and nothing in `app_provisioner.py` would notice.
- agent.toml is read twice in a deploy and uploaded as it is by then; commands
  and deploys replace the whole file from what they read (`Bindings` has the
  windows in which something is lost; `BindingsAreSound` exempts the lost edit).
- A promotion call that took effect but raised is not rolled back, a prompt may
  have a registered version that no alias names (`optimization.py:1943`), and an
  interrupt is not caught; the history file is read, changed and written without
  a lock (`model_upgrade.py:589`).
- Clients of streamed answers drop the text of an item that follows an annotation
  or a tool part of it, and repeat text when two items are mixed; the properties
  of `AnswerStreams` exempt such items.

## 6. Proofs

`tlapm` checks every leaf. Assumptions are the named ASSUMEs of the modules and
nothing else: bounds are natural numbers, `NoSession` is no session, there is at
least one request, `Handlers` is some set of the two kinds, a token outlives its
cache and two delays, and the like. Sets of pods, invocations, sessions,
connections, readers, agents, users, registrars, tools or services may be
infinite unless a module says otherwise. Each result below is shown the same
way: an invariant that is inductive together with the types, one lemma per group
of actions, and the property from it.

**`DurableRuntime_proofs`.** Every step of the runtime changes the rows in one of
four ways (`RowStep`): a row is enqueued, started, ended, or kept up to its
heartbeat bit. `QueueInv` is preserved by each of the four and inductive together
with the types (`TypeAndQueue`): the orders of a session are distinct and have a
maximum, so that `MAX + 1` is new; a row has an attempt exactly when it was
claimed; and whoever started has only ended rows before it (`ServedInOrder`).
None of the three follows without the others: a new row could be placed before a
running one, or a QUEUED row could count as started. From it follow

- `TypeCorrect`, `SessionsServedInOrder`, `MutualExclusion` (one ACTIVE row per
  session: of two, the later would have an unfinished predecessor),
- `RowsStay`: what was accepted never changes, an attempt never goes back, a
  terminal row and its log stay (action properties),
- `RuntimeIsASessionQueue`: the four kinds of row step are the actions of
  `SessionQueue` or stutters,
- `AttemptsFence`: attempts of a row only grow, a claim hands out a new one, and
  a task gets no attempt in any other way,
- `EventsTellTheStory`: the log of an invocation replays into its row.

**`LocalRuntime_proofs`.** `LocalInv` (theorem `LocalInvariant`) has four parts:
the line of each session (`LineInv`), the order of its events (`EventInv`), what
each task knows of its row (`TaskInv`), and `HandedOn`: whoever could start is
minded by a task that has yet to claim, by a call that has yet to schedule it, or
by a finished task on its way to hand over. The last needs the retry mark of a
denied claim: without it the task that was denied could leave just after the
hand-over found it alive. From it: `SessionsAreSerial`, `HandOversAreNotLost`
(while nothing failed), `LocalRuntimeIsASessionQueue`.

**`StoreTransactions_proofs`.** What a transaction has found out stays true until
its commit, because it holds the lock under which others would change it
(`LocksHeld`) or because the fenced WHERE looked again at the latest version
(`WriteIsDue`); and two transactions that both drew a sequence number cannot be
of one session, since one of them would have an ACTIVE row that the eligibility
of the other excludes (`EventsInv`). Theorem `TransactionInvariant`; from it
`RowsAreUnique`, `CursorsAreSafe` and the refinement `TransactionsAreAtomic`:
every statement is a stutter of `AtomicStore`, but for the commit, which is its
operation. The models of the executors rest on it.

**`AgentServer_proofs`.** The steps of the agent server are steps of the runtime
or leave it alone (`ServerIsARuntime`), so that what is proved of the runtime
holds under the streams. `StreamInvariant` needs two facts of it only: logs grow,
and that of a terminal row stays. `StreamsMissNothing`: a response that ends
carried every event once, in order, and a reader that is about to wait with
events unseen has its wake-up pending. `CredentialInvariant` says where each
credential is: with a POST that will register or close it, in the registry with
a row that waits and nobody else, or with a hook. It holds in one process
(`OneProcess`, a hypothesis of the theorems, as the property says): another pod
could claim the row. `FirstAttemptsAreAuthorized`, `NoCredentialIsLeft`.
The bindings of agent.toml have nothing to do with the runtime and an invariant
of their own. `BindInvariant`: a command holds the document it read, changed in
one table, and a deploy the edition it read, as long as nobody wrote in between
(`CommandIs`, `ReadingIs`); what it bound exists (`IsThere`); and the env is
followed from the deploy that writes it (`Written`) to the version that is
uploaded and runs (`VersionIs`), granted when the deploy is over (`Settled`). No
part is inductive alone: that a running version agrees with its file rests on
what the deploy knew when it wrote app.yaml. `BindingsStaySound` is the state part
and the action part of `BindingsAreSound`. `BindAssumption` says what the names
of a manifest are: None is no name, and a role is none of the four keys of the
env that are not roles (they have the prefix AGENT_MODEL_SERVICE_).

**`LongRunning_proofs`.** `IInv` (theorem `ServerInvariant`) has four parts. The
types; `LogInv`: the log is numbered without a gap and no writer holds a number
beyond its end, so an INSERT collides or appends (`AppendShape`); `LifeInv`: no
task has an attempt the row has not reached, a handler that is early in its life
has neither collided nor returned, a completed response has an owner that
returned; `StoryInv`: a running handler that has written can only write at the
end while its block is the end of the log, and an error is in the log before the
status says failed. The block property needs `LogInv`: without it a stale number
could fall into a gap. From it: `CursorsAreSound`, `OutcomesAreTold` and, since a
late writer is fenced by the attempt (`RevisionsAreOwned`), `OutcomesAreOwned`.

**`DeployRecord_proofs`.** `LifeInv`: a launcher that has not spawned its child
has none, and the deploys that were over at the spawn (`before`) stay over.
`RaceInv`: as long as nobody raced, no launcher of a deploy in another's
`before` can still record it (`NoLateRecord`: both would be in their window), so
once a launcher returned the file names none of its `before` (`RecordedSince`),
which is what a wait reads. `RollInv`: a deploy that rolls out is named by the
record, fresh and running, and nobody else is in the window; whoever checks is
refused, and only one deploy can be named by the record. Hence
`WaitIsForThisDeploy`, `OneRolloutIsEnforced`: the window between check and
record, and a rollout that stays in a phase for STALE_AFTER_S, are the only ways to a
second rollout.

The module also has the other record of the command line, the history of
`ModelSwitch`. `SwitchInvariant`: the actions that were not undone for a thing
are chained, each from where the one before left it (`HistoryIsWhole`); a running
command knows where its things are unless somebody fell into it (`CommandKnows`).
The last action of a thing is found by well-founded induction on the numbers
(`LastExists`), so the history may have any length. `SwitchesStaySafe`: between
commands every thing is where the history tells.

**`Workspace_proofs`.** Of `Rollout`, `RolloutInv` (theorem `RolloutInvariant`)
says what stands of an App while it is built up or taken down (`AppStands`), that
whatever version runs or is being rolled out is served with what it needs
(`AllServed`), which versions, uploads and app.yaml name the schema
(`SchemaKept`), and what the command knows at each of its steps (`Knows`): nobody
else creates an App, so what a deploy read of it stays true or the App is gone.
`AllServed` is not inductive without `Knows`: the removals after the rollout rely
on the version the deploy waited for being the only one that can still run.
`RolloutsStaySafe` has the state part and the action part of `RolloutsAreSafe`.
Of `ModelSearch`, `ReadyIsTheCandidate` says that every service has been seen to
serve its model since before the prediction, and `CreationsAreKnown` that every
service that exists is on a list of things to delete: `SearchInvariant`,
`SearchesAreSound`.
Of `McpTools`, `ToolsInvariant` says of each request that it serves tools of one
manifest that was accepted, whatever has become of it, and that what it heard of
a server, or of a call, is what the identity of the tool makes of it.
`ToolsStaySafe`: `McpToolsAreSafe`. Both have the hypothesis `CodesAreFound`, that
the walk through the causes, contexts and groups of an exception finds a code
wherever it is: the walk is a recursive function, what it computes cannot be
proved here, and TLC evaluates it for every exception of two nodes, circles
included (the run `workspace`, through `McpToolsAreSafe`).

**`Sessions_proofs`.** One invariant per component.

- `AskInvariant`: the model may ask only while the space has nothing from it, and
  the one thread that can still put something there belongs to the call whose
  stage says so; a call that ends has no thread at work, because every way out of
  it waits for `Drained`. `PollInvariant`: attachments stand in the order of Genie's
  attempts, each begun by its query, so that the last query of the list and the
  texts behind it are of one attempt. Together `GenieAnswersOnce`.
- `MemoryInvariant`, `MemoriesAreSound`: what is stored, and what a call has
  read, has every fact at most once; a call about to try again has seen a
  deletion for every try but its first.
- `LakebaseInvariant`, `EnginesAreSound`: a cached token is as old as the time it
  was cached and its mint took; an engine is its user's own or was cached under
  the schema the user wants; an idle connection has the search path of a login
  or of a committed transaction of that engine.
- `RegisterInvariant`, `RegistrationsAreSound`: every client an authorization
  server has registered has one owner: a connection, a call about to create one,
  or a failed call.
- `StreamsAreSound`: what the client was given ends with its cursor and runs from
  0 to it without a gap, whatever the server does (`ClientsReadInOrder`; it only
  needs that the log grows at its end), and
  once a response is completed its owner writes nothing more (`StaysSettled`).
- `TruncationFits`: for any number of rows and any sizes that grow with them,
  the rows shown fit and one more would not.

- `TalkInvariant`, `TranscriptsStayWhole`: the log of a session is in the order of
  its stamps, so a listing from which nothing was taken away is a beginning of it
  (`Follows`, for any `PageSize`); while nobody overtakes a pop, the log is what
  was said, or empty with the pop that emptied it holding the whole of it.
- `SaverInvariant`: no two puts draw one version (`NextVersionIs`: the random
  digits of a version are named after the put that drew it), so every item that
  names it has the value of that put (`ItemIs`), and the value a channel reads
  back as does not depend on the order or the pages of the items (`ValueIn`). A
  run that nobody deleted the thread under is only ever behind the log, never
  beside it (`Follows`, `Owes`). With `TranscriptsStayWhole`:
  `ConversationsStayWhole`. The assumptions are `PageAssumption`, a page has an
  item, and `SaverAssumption`, a graph has finitely many channels.

**Only model-checked:** `AllArrives` and `TalkReplays` (a message is put together
by recursion over a sequence of pieces: what it comes to for every sequence is
induction over data).

**Out of reach of the prover:** liveness under fairness and ENABLED
(`EveryInvocationEnds`, `EveryResponseEnds`, `StreamsEnd`, `WaitEnds` stay with
TLC); induction over data, `CodesAreFound` included.

## 7. What is abstracted, and what comes next

Left out of the modelled components: payloads of requests, responses and
events (an event is its type and attempt); wall-clock times (one bit each, or
ticks); JSON, SSE, TOML and HTTP formatting; tracing; schema creation; the cancel
and debug routes of the long-running server; the rewriting of conversation
history on a resume; `deployments wait` without a local record, which follows
the App's state; model, job and vector grants of a rollout (read and written as
those of a tool); the search of memories; MCP sessions built by an application
itself; the candidates GEPA proposes and the arithmetic of scores; structured
output, usage and answers that are not streamed.

Plan, in order:

1. What of `AnswerStreams`, `ChatStream` and `Conversations` can be shown without
   induction over data: blocks are opened and closed in turn, a call is settled once.
2. The cancel and debug routes of the long-running server with `_running_tasks`
   as state.
