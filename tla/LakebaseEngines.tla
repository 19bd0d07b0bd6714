--------------------------- MODULE LakebaseEngines ---------------------------
(***************************************************************************)
(* Sessions, stores and checkpointers over Lakebase: the engines and pools  *)
(* they log in through, the OAuth token an engine caches, the cache of      *)
(* engines, and the schema their tables live in.  Postgres, SQLAlchemy and  *)
(* LangGraph are modelled from how the code uses them.                      *)
(*                                                                         *)
(* Time is in ticks; ages count up to TokenLife and stay there.             *)
(***************************************************************************)
EXTENDS Naturals, FiniteSets

CONSTANTS Users,        \* tasks that each hold one session, store or saver
          Wants,        \* what they are constructed with
          TokenLife,    \* ticks the service accepts a token for
          CacheFor,     \* token_cache_duration_seconds
          MaxDelay,     \* bound: ticks a mint or a login takes
          MaxEngines    \* bound: engines ever made

CONSTANT Public         \* the schema `public`

(* CacheFor is 15 minutes, the life of a token an hour.  Only a session or a *)
(* store asks for a cached engine; a pool belongs to one saver.              *)
ASSUME LakebaseAssumption ==
  /\ {TokenLife, CacheFor, MaxDelay, MaxEngines} \subseteq Nat
  /\ CacheFor + 2 * MaxDelay <= TokenLife /\ 2 * MaxDelay < TokenLife
  /\ Wants # {}
  /\ \A w \in Wants : /\ w.kind \in {"engine", "pool"} /\ {w.setup, w.cached} \subseteq BOOLEAN
                      /\ w.cached => w.kind = "engine"

VARIABLES engine,    \* the engines and pools made so far
          cache,     \* _lakebase_sql_alchemy_cache: key to engine
          user,      \* user[u]: the task
          schemas,   \* schemas that exist
          tables     \* schemas that hold the tables

lakebaseVars == <<engine, cache, user, schemas, tables>>

Engines == 1..MaxEngines
Made    == {e \in Engines : engine[e].made}
NoToken == TokenLife    \* a token is its age
NoWant  == CHOOSE w \in Wants : TRUE
NoEngine == [made |-> FALSE, kind |-> "engine", schema |-> Public,
             token |-> NoToken, stamp |-> CacheFor,    \* _cached_token and the age of _cache_ts
             locked |-> FALSE,
             idle |-> {}]                              \* search paths of the idle connections
Away == [pc |-> "idle", want |-> NoWant, engine |-> 0, todo |-> {},
         token |-> NoToken, waited |-> 0,
         base |-> Public,    \* search_path of the connection outside its transaction
         path |-> Public]    \* and in it

LakebaseInit ==
  /\ engine = [e \in Engines |-> NoEngine]
  /\ cache = {} /\ user = [u \in Users |-> Away]
  /\ schemas = {Public} /\ tables = {}

EngineOf(u) == engine[user[u].engine]
Database == <<schemas, tables>>
-----------------------------------------------------------------------------
(* A session, store or saver is constructed                                *)

Key(w) == <<w.pool_recycle, w.schema>>

Construct(u, w) ==
  LET hit == {c \in cache : c.key = Key(w)}
  IN  /\ user[u].pc = "idle"
      /\ user' = [user EXCEPT ![u] =
           [Away EXCEPT !.want = w,
                        !.todo = IF w.setup THEN {"schema", "tables"} ELSE {},
                        !.engine = IF w.cached /\ hit # {} THEN (CHOOSE c \in hit : TRUE).engine ELSE 0,
                        !.pc = IF w.cached /\ hit # {} THEN "ready" ELSE "make"]]
      /\ UNCHANGED <<engine, cache, schemas, tables>>

MakeEngine(u) ==
  LET w == user[u].want
  IN  \E e \in Engines \ Made :
      /\ user[u].pc = "make" /\ \A f \in Engines \ Made : e <= f
      /\ engine' = [engine EXCEPT ![e] =
           [NoEngine EXCEPT !.made = TRUE, !.kind = w.kind, !.schema = w.schema]]
      /\ user' = [user EXCEPT ![u] =
           [user[u] EXCEPT !.engine = e, !.pc = IF w.cached THEN "register" ELSE "ready"]]
      /\ UNCHANGED <<cache, schemas, tables>>

(* Of two tasks that both missed the cache the later one's engine stays.    *)
RegisterEngine(u) ==
  /\ user[u].pc = "register"
  /\ cache' = {c \in cache : c.key # Key(user[u].want)}
              \cup {[key |-> Key(user[u].want), engine |-> user[u].engine]}
  /\ user' = [user EXCEPT ![u] = [user[u] EXCEPT !.pc = "ready"]]
  /\ UNCHANGED <<engine, schemas, tables>>
-----------------------------------------------------------------------------
(* A connection is checked out                                             *)

SetPath_OnConnect(e, base, fresh) ==
  IF e.schema = Public \/ (e.kind = "engine" /\ ~fresh) THEN base ELSE e.schema

(* An engine sets search_path whenever a connection is checked out, inside *)
(* the transaction that the statement opens.                               *)
SetPath(e, base, fresh) ==
  IF e.schema = Public THEN base ELSE e.schema

NextOp(todo) == IF "schema" \in todo THEN "schema" ELSE IF "tables" \in todo THEN "tables" ELSE "query"

Checkout(u, base) ==
  LET e == EngineOf(u)
  IN  /\ user[u].pc = "ready" /\ base \in e.idle
      /\ user' = [user EXCEPT ![u] =
           [user[u] EXCEPT !.pc = "run", !.base = base,
                           !.path = SetPath(e, base, FALSE)]]
      /\ engine' = [engine EXCEPT ![user[u].engine] = [e EXCEPT !.idle = e.idle \ {base}]]
      /\ UNCHANGED <<cache, schemas, tables>>

(* The connection is new: the creator waits for the lock of the token cache. *)
Connect(u) ==
  /\ user[u].pc = "ready" /\ EngineOf(u).idle = {}
  /\ user' = [user EXCEPT ![u] = [user[u] EXCEPT !.pc = "token"]]
  /\ UNCHANGED <<engine, cache, schemas, tables>>

Fresh(e) == e.stamp < CacheFor

GetToken(u) ==
  LET e   == EngineOf(u)
      hit == Fresh(e)
  IN  /\ user[u].pc = "token" /\ ~e.locked
      /\ user' = [user EXCEPT ![u] =
           [user[u] EXCEPT !.pc = IF hit THEN "login" ELSE "mint", !.waited = 0,
                           !.token = IF hit THEN e.token ELSE NoToken]]
      /\ engine' = [engine EXCEPT ![user[u].engine] = [e EXCEPT !.locked = ~hit]]
      /\ UNCHANGED <<cache, schemas, tables>>

MintToken(u) ==
  /\ user[u].pc = "mint"
  /\ user' = [user EXCEPT ![u] = [user[u] EXCEPT !.pc = "minted", !.token = 0]]
  /\ UNCHANGED <<engine, cache, schemas, tables>>

KeepToken(e, token) == [e EXCEPT !.token = token, !.stamp = 0, !.locked = FALSE]

StoreToken(u) ==
  /\ user[u].pc = "minted"
  /\ engine' = [engine EXCEPT ![user[u].engine] = KeepToken(EngineOf(u), user[u].token)]
  /\ user' = [user EXCEPT ![u] = [user[u] EXCEPT !.pc = "login", !.waited = 0]]
  /\ UNCHANGED <<cache, schemas, tables>>

(* A pool configures a new connection, in autocommit, before it lends it.   *)
Login(u) ==
  LET e    == EngineOf(u)
      base == IF e.kind = "pool" THEN e.schema ELSE Public
  IN  /\ user[u].pc = "login" /\ user[u].token < TokenLife
      /\ user' = [user EXCEPT ![u] =
           [user[u] EXCEPT !.pc = "run", !.token = NoToken, !.waited = 0, !.base = base,
                           !.path = SetPath(e, base, TRUE)]]
      /\ UNCHANGED <<engine, cache, schemas, tables>>

(* The mint, the login or the task's wait for it fails.                     *)
ConnectFails(u) ==
  /\ user[u].pc \in {"token", "mint", "minted", "login"}
  /\ engine' = [engine EXCEPT ![user[u].engine] =
       [EngineOf(u) EXCEPT !.locked = EngineOf(u).locked /\ user[u].pc \in {"token", "login"}]]
  /\ user' = [user EXCEPT ![u] =
       [user[u] EXCEPT !.pc = "ready", !.token = NoToken, !.waited = 0]]
  /\ UNCHANGED <<cache, schemas, tables>>
-----------------------------------------------------------------------------
(* What runs on it                                                         *)

First(path) == IF path \in schemas THEN path ELSE Public
Seen(path)  == IF path \in tables THEN path ELSE Public

(* create_all creates the tables that are not visible on the path, LangGraph's  *)
(* setup the ones that are not in its first schema.                             *)
CreatedIn(kind, path) ==
  IF kind = "engine" /\ Seen(path) \in tables THEN {} ELSE {First(path)}

Effect(u) ==
  CASE NextOp(user[u].todo) = "schema" -> schemas' = schemas \cup {user[u].want.schema} /\ UNCHANGED tables
    [] NextOp(user[u].todo) = "tables" -> tables' = tables \cup CreatedIn(user[u].want.kind, user[u].path)
                                /\ UNCHANGED schemas
    [] OTHER                 -> UNCHANGED <<schemas, tables>>

(* A transaction ends and its connection goes back; a rollback takes the    *)
(* engine's SET with it.                                                    *)
EndTransaction(u, commit) ==
  LET e    == EngineOf(u)
      base == IF commit THEN user[u].path ELSE user[u].base
  IN  /\ user[u].pc = "run"
      /\ IF commit THEN Effect(u) ELSE UNCHANGED Database
      /\ engine' = [engine EXCEPT ![user[u].engine] = [e EXCEPT !.idle = e.idle \cup {base}]]
      /\ user' = [user EXCEPT ![u] =
           [user[u] EXCEPT !.pc = "ready", !.base = Public, !.path = Public,
                           !.todo = IF commit THEN user[u].todo \ {NextOp(user[u].todo)} ELSE user[u].todo]]
      /\ UNCHANGED cache

(* The host cannot be resolved, or has no READ_WRITE endpoint.             *)
MakeFails(u) ==
  /\ user[u].pc = "make"
  /\ user' = [user EXCEPT ![u] = Away]
  /\ UNCHANGED <<engine, cache, schemas, tables>>

(* The task is done with its session; a pool of its own is closed, an       *)
(* engine stays.                                                            *)
LeaveBlock(u) ==
  /\ user[u].pc = "ready"
  /\ user' = [user EXCEPT ![u] = Away]
  /\ engine' = IF EngineOf(u).kind = "pool" THEN [engine EXCEPT ![user[u].engine] = NoEngine] ELSE engine
  /\ UNCHANGED <<cache, schemas, tables>>
-----------------------------------------------------------------------------
(* The rest of the world                                                   *)

(* A connection is recycled, found dead by a pre-ping, or closed.           *)
DropIdle(e, base) ==
  /\ base \in engine[e].idle
  /\ engine' = [engine EXCEPT ![e] = [engine[e] EXCEPT !.idle = engine[e].idle \ {base}]]
  /\ UNCHANGED <<cache, user, schemas, tables>>

Older(token) == IF token < TokenLife THEN token + 1 ELSE TokenLife

Waits(u) == user[u].pc \in {"minted", "login"}

(* A cached token that is past its time in the cache is never read again:   *)
(* it counts as none.                                                       *)
Aged(e) ==
  IF e.stamp + 1 < CacheFor
  THEN [e EXCEPT !.token = Older(e.token), !.stamp = e.stamp + 1]
  ELSE [e EXCEPT !.token = NoToken, !.stamp = CacheFor]

LakebaseTick ==
  /\ \A u \in Users : Waits(u) => user[u].waited < MaxDelay
  /\ engine' = [e \in Engines |-> Aged(engine[e])]
  /\ user' = [u \in Users |->
       [user[u] EXCEPT !.token = Older(user[u].token),
                       !.waited = IF Waits(u) THEN user[u].waited + 1 ELSE 0]]
  /\ UNCHANGED <<cache, schemas, tables>>

LakebaseNext ==
  \/ \E u \in Users :
       \/ \E w \in Wants : Construct(u, w)
       \/ MakeEngine(u) \/ MakeFails(u) \/ RegisterEngine(u) \/ LeaveBlock(u)
       \/ \E base \in schemas \cup {user[u].want.schema} : Checkout(u, base)
       \/ Connect(u) \/ GetToken(u) \/ MintToken(u) \/ StoreToken(u) \/ Login(u) \/ ConnectFails(u)
       \/ \E commit \in BOOLEAN : EndTransaction(u, commit)
  \/ \E e \in Made : \E base \in engine[e].idle : DropIdle(e, base)
  \/ LakebaseTick

LakebaseSpec == LakebaseInit /\ [][LakebaseNext]_lakebaseVars
-----------------------------------------------------------------------------
(* A connection that is logged in with a cached token, however slow the    *)
(* mint was and the login is, uses one that the service still accepts.      *)
LoginsUseLiveTokens ==
  \A u \in Users : user[u].pc = "login" => user[u].token < TokenLife

(* Statements run on the search path the session asked for, whatever was   *)
(* rolled back before on the connection and whoever made the engine.       *)
StatementsKeepTheirPath ==
  \A u \in Users : user[u].pc = "run" => user[u].path = user[u].want.schema

(* A store or saver that was set up finds its tables in its own schema.    *)
StoresFindTheirTables ==
  \A u \in Users :
    user[u].pc = "run" /\ user[u].want.setup /\ user[u].todo = {} /\ user[u].want.kind = "pool"
      => Seen(user[u].path) = user[u].want.schema

LakebaseIsSound == LoginsUseLiveTokens /\ StatementsKeepTheirPath /\ StoresFindTheirTables

(* AsyncDatabricksSession's documentation of `schema`: all tables are      *)
(* created in and queried from this schema instead of public.              *)
SessionsKeepTheirSchema ==
  \A u \in Users :
    user[u].pc = "run" /\ user[u].want.setup /\ user[u].todo = {}
      => Seen(user[u].path) = user[u].want.schema
=============================================================================
