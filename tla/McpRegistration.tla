-------------------------- MODULE McpRegistration --------------------------
(* Registration of an MCP server by OAuth discovery and dynamic client        *)
(* registration (databricks_mcp/connector.py, register_mcp_server_via_dcr):   *)
(* look for the connection, read the server's challenge, its resource         *)
(* metadata and its authorization server's metadata, register a client there  *)
(* and create the Unity Catalog connection that carries it. Every request may *)
(* fail; two of them may take effect although their caller sees a failure.    *)
(* Several registrars work at once, and one that failed may call again.       *)
(* Nobody deletes a connection.                                               *)
EXTENDS Integers

CONSTANTS
  Registrars,   \* the processes that call register_mcp_server_via_dcr
  Names,        \* connection names of the metastore
  AuthServers,  \* authorization servers
  MaxRegisters  \* bound: calls of one registrar

VARIABLES
  connections,  \* name -> the client its connection carries, or NoClient
  clients,      \* authorization server -> how many clients it has registered
  reg,          \* registrar -> its call
  lost          \* the clients of calls that failed

registerVars == <<connections, clients, reg, lost>>

NoClient == <<>>
\* How many addresses the resource metadata may be at, and the server's metadata.
ResourceUrls == {2, 3}
ServerUrls == {2, 4}

\* A registrar before its first call.
Idle == [pc |-> "idle", name |-> NoClient, left |-> 0, as |-> NoClient, client |-> NoClient, calls |-> 0]

RegisterInit ==
  /\ connections = [n \in Names |-> NoClient]
  /\ clients = [a \in AuthServers |-> 0]
  /\ reg = [r \in Registrars |-> Idle]
  /\ lost = {}

Goes(r, pc) == reg' = [reg EXCEPT ![r].pc = pc]
Ends(r) == reg' = [reg EXCEPT ![r] = [Idle EXCEPT !.pc = "done", !.name = reg[r].name, !.calls = reg[r].calls]]
Fails(r) == reg' = [reg EXCEPT ![r] = [Idle EXCEPT !.pc = "failed", !.calls = reg[r].calls]]

\* A call begins, the first one or another after the last has ended.
StartRegister(r) ==
  /\ reg[r].pc \in {"idle", "failed", "done"} /\ reg[r].calls < MaxRegisters
  /\ \E n \in Names :
       reg' = [reg EXCEPT ![r] = [Idle EXCEPT !.pc = "look", !.name = n, !.calls = reg[r].calls + 1]]
  /\ UNCHANGED <<connections, clients, lost>>

\* The existing connection is the answer; any error, of the look-up or of the
\* workspace id that completes it, counts as "there is none".
LookForConnection(r) ==
  /\ reg[r].pc = "look"
  /\ \/ connections[reg[r].name] # NoClient /\ Ends(r)
     \/ Goes(r, "challenge")
  /\ UNCHANGED <<connections, clients, lost>>

\* The MCP server must answer 401; its header may link the resource metadata,
\* otherwise, and when the link fails, two well-known addresses are tried.
ReadChallenge(r) ==
  /\ reg[r].pc = "challenge"
  /\ \/ \E urls \in ResourceUrls : reg' = [reg EXCEPT ![r].pc = "resource", ![r].left = urls]
     \/ Fails(r)
  /\ UNCHANGED <<connections, clients, lost>>

\* The first document that can be read is the one used: it names an authorization
\* server, with two addresses of its metadata or four, or the call fails.
FetchResource(r) ==
  /\ reg[r].pc = "resource"
  /\ \/ \E a \in AuthServers, urls \in ServerUrls :
          reg' = [reg EXCEPT ![r].pc = "server", ![r].as = a, ![r].left = urls]
     \/ Fails(r)
     \/ reg[r].left > 1 /\ reg' = [reg EXCEPT ![r].left = @ - 1]
  /\ UNCHANGED <<connections, clients, lost>>

\* The authorization server's metadata: the first that can be read must name its
\* three endpoints.
FetchServer(r) ==
  /\ reg[r].pc = "server"
  /\ \/ Goes(r, "dcr")
     \/ Fails(r)
     \/ reg[r].left > 1 /\ reg' = [reg EXCEPT ![r].left = @ - 1]
  /\ UNCHANGED <<connections, clients, lost>>

\* One POST registers a client; its answer may be lost or malformed after it has.
RegisterClient(r) ==
  LET a == reg[r].as
      client == <<a, clients[a] + 1>>
  IN
  /\ reg[r].pc = "dcr"
  /\ \/ /\ clients' = [clients EXCEPT ![a] = @ + 1]
        /\ \/ reg' = [reg EXCEPT ![r].pc = "create", ![r].client = client] /\ UNCHANGED lost
           \/ Fails(r) /\ lost' = lost \cup {client}
     \/ Fails(r) /\ UNCHANGED <<clients, lost>>
  /\ UNCHANGED connections

\* The call fails and its client stays behind.
Leaves(r) == Fails(r) /\ lost' = lost \cup {reg[r].client}

\* A name that is taken counts as created.
CreateConnection_TakenIsDone(r) ==
  /\ reg[r].pc = "create"
  /\ connections' = [connections EXCEPT ![reg[r].name] = IF @ = NoClient THEN reg[r].client ELSE @]
  /\ (Ends(r) /\ UNCHANGED lost) \/ Leaves(r)
  /\ UNCHANGED clients

\* The metastore refuses a name it has, so a racing registrar's connection stays. A
\* failure after the create, of its answer or of the workspace id, is a failed call too.
CreateConnection(r) ==
  /\ reg[r].pc = "create"
  /\ \/ /\ connections[reg[r].name] = NoClient
        /\ connections' = [connections EXCEPT ![reg[r].name] = reg[r].client]
        /\ (Ends(r) /\ UNCHANGED lost) \/ Leaves(r)
     \/ Leaves(r) /\ UNCHANGED connections
  /\ UNCHANGED clients

RegisterNext ==
  \E r \in Registrars :
    \/ StartRegister(r) \/ LookForConnection(r) \/ ReadChallenge(r) \/ FetchResource(r)
    \/ FetchServer(r) \/ RegisterClient(r) \/ CreateConnection(r)

RegisterSpec == RegisterInit /\ [][RegisterNext]_registerVars
-----------------------------------------------------------------------------
(* Properties.                                                                *)

\* A call that reports a connection leaves one of that name, with a client its
\* authorization server has registered for it and for no other connection.
DoneIsConnected ==
  /\ \A r \in Registrars : reg[r].pc = "done" => connections[reg[r].name] # NoClient
  /\ \A n \in Names : connections[n] # NoClient => connections[n][2] \in 1..clients[connections[n][1]]
  /\ \A n, o \in Names : connections[n] # NoClient /\ connections[n] = connections[o] => n = o

\* A client without a connection is the remains of a call that failed or still runs: a
\* call that succeeded, whether it created the connection or found it, wasted none.
OrphansAreOfFailures ==
  \A a \in AuthServers : \A k \in 1..clients[a] :
    \/ \E n \in Names : connections[n] = <<a, k>>
    \/ \E r \in Registrars : reg[r].pc = "create" /\ reg[r].client = <<a, k>>
    \/ <<a, k>> \in lost

RegistrationIsSound == DoneIsConnected /\ OrphansAreOfFailures
=============================================================================
