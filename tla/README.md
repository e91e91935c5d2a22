# smoothdb in TLA+

smoothdb turns PostgreSQL databases into a REST API. A request goes through the
auth middleware, which gives it a *session* with a database connection, is
parsed and translated to SQL, executed under the role of its token, and its
result is serialized. Around this run a watcher goroutine that retires idle
sessions, a listener for schema-reload notifications, and an engine that
activates databases on first use.

This directory holds TLA+ models of that machinery, the TLC configurations that
check them on small instances, and TLAPS proofs of what holds on every instance.
Paths below are relative to the repository; `sessions.go:210` is a line of
`authn/sessions.go`, and so on. The models are translated from the code; where a
document or a comment and the code disagree, the model has what the code does
and a run shows the disagreement (see *Findings*).

Contents: [inventory](#inventory) · [modules](#modules) ·
[correspondence](#correspondence-with-the-code) · [runs](#runs) ·
[fairness](#fairness) · [proofs](#proofs) · [findings](#findings) ·
[not modelled](#not-modelled) · [plan](#plan)

How to run: `tlc -workers 2 -config Sessions.cfg MCSessions.tla` (every run is
listed below with its module), `tlapm Sessions_proofs.tla`.

## Inventory

The first table has the components with state and concurrency, the second those
that are functions of their input. *Status*: M modelled, P partly, – not.

| Component | State | Operations | Status |
|---|---|---|---|
| session manager, `authn/sessions.go` | `slots` (key → list of sessions), per session `inUse`, `DbConn`, `LastUsedAt`, `Claims` | `getSession`, `newSession`, `leaveSession`, the watcher's pass, its shutdown | M |
| auth middleware, `authn/middleware.go` | local: the session, `newAcquire` | `acquireSession`, `releaseSession`, `Middleware` | M |
| connections and transactions, `database/conn.go`, `context.go` | the pools; per connection the role, the claims, an open transaction | `PrepareConnection`, `ReleaseConnection`, `ContextWithDb`, `HasTX` | P (`ContextWithDb` left) |
| database engine, `database/dbengine.go` | `activeDatabases`, `dbCreationLock`, the main pool | `GetActiveDatabase`, `GetOrCreateActiveDatabase`, `CreateActiveDatabase`, `DeleteDatabase`, `CloneDatabase`, `UpdateDatabase`, reloads, `Close` | P (clone, rename, main pool left) |
| database, `database/database.go` | `activation`, `activationErr`, `pool`, `info` | `activate`, `AcquireConnection`, `ReloadSchemaCache`, `Close` | M |
| notification listener, `database/notification_listener.go` | its connection, its context, `stopped` | `Start`, `Stop`, the loop, the handler | M |
| schema cache, `database/schemainfo.go` | a snapshot of tables, columns, keys, relationships, functions | `NewSchemaInfo`, the look-ups | P (type and table caches left) |
| jq updates, `database/jqupdate.go`, `api/jq.go` | its own transaction | `UpdateRecordsWithJQ`, `JQTransformResponse` | M |
| jq cache, `jqeval/jqeval.go` | an LRU list and a map under a mutex | `get`, `put`, `compile` | M |
| catalog operations, `database/{tables,columns,roles,users,schemas,...}.go` | their own transactions | create, update, delete of catalog objects | P (their transactions) |
| server, `server/server.go`, `http_server.go` | HTTP server, shutdown channels, `draining` | `Start`, `Run`, `Shutdown`, `stopHandler` | M |
| configuration, `server/config.go`, `config/config.go` | – | defaults, file, environment, flags | P (the settings, not their reading) |

| Component | What it computes | Status |
|---|---|---|
| token authentication, `authn/auth.go` | claims of a token, the anonymous role | P (an outcome) |
| request parser, `database/requestparser.go` | select, filter, order, range, recursion and preference parts | M |
| query builder, `database/querybuilder.go` | SQL text, joins over relationships | M |
| query execution, `database/queryexecutor.go` | parse, build, query, serialize | M |
| serializers, `database/textserializer.go`, `content_type.go` | JSON, CSV, binary; content negotiation | P (the text of values left) |
| HTTP API, `api/*.go` | routes, request bodies, `Content-Range`, statuses | P (admin and login left) |
| plugins, logging, CORS, UI, version | loading shared objects, output, assets | – |

### How the components interact

A request goroutine (one per HTTP request) runs `Middleware`: `getSession` under
the manager's mutex, then, *without* the mutex, token and database
(`GetActiveDatabase`), the pool (`AcquireConnection`), `PrepareConnection`
(`BEGIN`, `SET ROLE`), the handler, `releaseSession` and, under the mutex again,
`leaveSession`. The watcher goroutine runs whole passes under the mutex, and
executes SQL (`SET ROLE NONE`, `COMMIT`, `ROLLBACK`) in them. Only `inUse`
keeps the two apart. Every request may find its connection closed by the
database, its client gone, its handler panicking.

Database objects are shared through a `sync.Map`. The goroutine that stores the
placeholder activates it; the others wait on its channel. `DeleteDatabase` and
the listener's reloads take whatever the map holds.

### What is hard, and what makes each part correct

*Session manager and middleware.* Interleaving of requests, watcher and pool;
errors between the steps of `acquireSession`; the order of the list, which is
all that makes looking at its head sufficient; connection state that outlives a
request. Correct when: a session serves one request and a connection one session
(`Exclusive`), nobody takes a session between the watcher's look at its flag and
what the watcher then does to it (`WatcherHandsOff`), a free session is always
preferred to a new one (`FreeFirst`, `SlotsSpec`), a connection that is out stays
attached to a session that the walk can meet (`NoLostConn`; that it is given back
is `ReleasedInTheEnd`, which fails: finding 1), a handler has the role of its claims
(`RoleMatches`) and its connection came without an open transaction
(`OwnTransaction`), free sessions are retired (`FreeSessionRetired`), waiters are
served (`WaiterServed`).

*Database engine.* Racing activations, failures before, in and after the
schema load, deletion under use, reloads at any point. Correct when: one
goroutine activates an entry and its waiters hear of it (`OneActivator`,
`OperationsEnd`), an open pool can be found and closed (`OpenPoolsReachable`),
`DROP` meets no connection of the closed pool (`DropQuiesced`).

*Requests.* A query string means something, and the program turns it into SQL by
several passes that agree only by convention: the parser on separators and
quotes, the builder on labels, aliases and markers, the executor on the order of
values, the handler on which page `Content-Range` announces. Correct when what
comes out is what was meant (`SelectParsed`, `FilterMeaning`, `EmbedMeaning`,
`OrderMeaning`, `WalkMeaning`, `PageMeaning`, `WriteMeaning`, `CallMeaning`), what is
bound is what is marked (`MarkersBound`), what is too deep is refused and nothing
else (`NestingBounded`), and what is refused was not done (`WriteRefused`).

*Listener and schema cache.* A reconnecting loop that misses notifications while
it is not connected, reloads that fail. Correct when every change that somebody
was told of is in the cache in the end (`CachesFollow`).

*jq updates.* Rows are locked one by one, changed one by one, found again by
their place, in a transaction of the request or of its own, with a program that
other requests share through a cache. Correct when what matches is changed all
at once or not at all (`AllOrNone`), nothing else is and nothing that stayed as it was
is left out (`OnlyMatched`), by the own
program (`OwnProgram`), the answer says which (`AnswerTrue`), and nobody waits for
ever (`AllEnd`).

*Shutdown.* Three who may start it, a grace period that may expire, pools closed
under handlers, the watcher's last pass without the mutex. Correct when each part
stops after those that need it (`InOrder`) and the process ends (`AllStops`).

The list of hazards with their lines is in `PROJECT.json`.

## Modules

```
SessionPool            the promise of one slot: two sets
   ^ refines (proved: SlotKeepsPromise)
SessionQueue           one slot as a sequence
   ^ refines (proved: SlotSpec)  ^ refines, per key (proved: SlotsSpec)
SessionList            Sessions                      DbEngine
the linked list,       requests, watcher,            activation, deletion,
pointer by pointer     connections, pool             reload

RequestParser   SchemaInfo           RowUpdates           NotificationListener
       \          /                     ^ refines                 |
       QueryBuilder    Postgres      JQUpdates - JQCache        Server
             \           /           (proved: AllOrNone)
               Requests - RequestMeaning
                  |
           RequestHandler   (proved: for any parser, builder and database)
```

| Module | What it is |
|---|---|
| `SessionOrder` | `SessionList`'s operations as functions on sequences, and the order `FreePrefix` |
| `SessionPool` | abstract specification of a slot: which session a request may be given, and which may expire |
| `SessionQueue` | a slot as a sequence and a set of flags, under `getSession`, `leaveSession`, `watch` |
| `SessionList` | `head`, `tail`, `next`, `prev` of the Go list |
| `Sessions` | the request life: session manager, middleware, connections |
| `DbEngine` | the active databases: activation, creation, deletion, reloads |
| `RequestParser` | the clauses of a query string, to the parts of a query: scanner, select, order, filters, recursion, arguments |
| `SchemaInfo` | relationships of tables and views, from a catalog |
| `QueryBuilder` | the parts of a query, to statements: select with joins, recursive select, insert, update, delete, call |
| `Postgres` | (external) what a statement does to rows: conditions with nulls, joins, recursion, pages, writes |
| `RequestHandler` | a request on its way through the handler: headers, body, statement, serializer, answer; parser, builder and database are operators it leaves open |
| `Requests` | the handler with its parser, its builder and PostgreSQL |
| `RequestMeaning` | what a client means by a request, how it is written, and what the answer owes it |
| `JQCache` | the LRU cache of compiled programs |
| `JQUpdates` | jq updates and calls with a transform, on rows with locks and versions |
| `RowUpdates` | abstract specification of a jq update: one atomic change of rows that match |
| `NotificationListener` | the listener's loop and the reloads it runs |
| `Server` | the life of the process: start, signals, shutdown, and what is stopped; composes the listener |
| `MCSessions`, `MCRequests`, `MCJQUpdates`, `MCServer` | configurations, requests and symmetry for TLC |
| `SessionOrder_proofs`, `SessionQueue_proofs`, `SessionList_proofs`, `Sessions_proofs` | theorems about sessions: the operations on sequences, a slot, the linked list, the request life |
| `DbEngine_proofs` | theorems about activation and deletion |
| `RequestHandler_proofs` | theorems about requests: what is sent, answered and announced |
| `JQUpdates_proofs` | theorems about jq updates: cache, transactions and answers; and the rows of a table without partitions |
| `Server_proofs` | theorems about the life of the process |

The chain has a use at each end. `SessionList` shows that the pointer code,
which leaves stale `prev` pointers behind (sessions.go:59-69), behaves as a
sequence. `Sessions` can then work with sequences, and what it shows about them
holds of the lists. Every list of `Sessions` implements `SessionQueue` although
failed requests leave sessions in use for ever and never call `leaveSession`.

## Correspondence with the code

`PROJECT.json` (`map`) has the lines of every definition. The essentials:

### Sessions

| Variable | Code |
|---|---|
| `slots` | `SessionManager.slots`; an absent key is the empty sequence |
| `inUse` | the sessions with `Session.inUse` set |
| `dbConn` | `Session.DbConn` |
| `age` | the time since `LastUsedAt`, by thresholds: 0, past the connection timeout, past the session timeout |
| `conn` | per connection: in the pool, out or absent; open, broken (closed by the database, unnoticed), closed; the role; the transaction |
| `req` | per request: its place in `Middleware`, key, session, `newAcquire`, status |
| `watcher` | a pass under way: the keys left, the rest of the walk, and `at`, what it does with the session it is at. While `on`, the pass holds the mutex |
| `config` | `SessionMode` ≠ none, `TransactionMode` |

A request takes these actions, each a piece of code that runs without waiting
or giving up the mutex:

| Action | Code |
|---|---|
| `GetUnmanaged`, `GetNew`, `GetFree` | `getSession`: disabled; no list or its head in use; head taken by compare-and-swap |
| `Authenticate`, `Reject` | token and database of a new session; 401, 404 leave the session in use (middleware.go:53-71) |
| `Reconnect`, `Disconnect` | the connection is there and open; it is absent or closed (73-78) |
| `Acquire`, `AcquireFails` | `AcquireConnection` (79-85) |
| `Prepare`, `PrepareFails` | `PrepareConnection` (88-92, conn.go:32-60) |
| `Handle`, `HandlePanics` | the handler: status, and what its own transactions do to the connection |
| `Release`, `Keep` | `releaseSession`: without the manager or with an open transaction the connection is released, else kept (97-117, conn.go:62-109) |
| `Leave` | `leaveSession` |

`WatchStart` … `WatchEnd` are a pass of `watch`: it visits the lists in any order
(a Go map) and every session once. With each it does what the code does in
separate statements: it looks at flag and age (`WatchDecide`, sessions.go:130-137),
then deletes the session (`WatchDelete`) or gives back its connection
(`WatchRelease`, 151) and detaches it (`WatchDetach`, 155). Requests go on between
these steps, except for those that want the mutex: no step but the first looks at the flag
again, and under the mutant of `WatcherHandsOff`, where requests do not take the mutex,
one takes the session in between.

`OwnTransaction` looks at the connection *before* `PrepareConnection`, whose `BEGIN`
would hide what it meets: inside an open transaction PostgreSQL only warns, and
the handler would go on in the old one (`Begun`). `Tick`, `ConnDies`, `PoolDrops` are
the clock, the database and pgxpool's maintenance. pgxpool and PostgreSQL are
external; `PoolReturn` (a connection that is closed or in a transaction is
destroyed), `Exec` (a canceled statement is not sent, or closes the
connection) and the transaction functions say what the code relies on.
`SET ROLE` takes part in transactions: `ROLLBACK` restores the role it found.

Claims are set together with the role and on the same condition (conn.go:45-57)
and need no state of their own. A key stands for a token and a database
name, hence for the claims; the role of a key is the key itself, none for keys
in `Roleless`.

### DbEngine

| Variable | Code |
|---|---|
| `cluster` | the databases that exist in PostgreSQL |
| `active` | `activeDatabases`, a `sync.Map` |
| `db` | the `Database` objects: the activation channel (`closed`), `activationErr`, the pool (nil, open, closed), the schema |
| `lock` | `dbCreationLock` |
| `call` | the goroutines: their place, the entry point they came by, `attempt`: which of the calls of `GetActiveDatabase` in `GetOrCreateActiveDatabase` this is |

`StorePlaceholder` and `LoadEntry` are the two outcomes of `LoadOrStore`; `Awaken`
and `WaitCanceled` the two of the `select`; `LookupFails` closes the channel
without setting `activationErr`, as the code does; `ActivateFails` sets it.
`Created` is the look-up that follows `CREATE DATABASE` (dbengine.go:250): it may fail, and
the caller gets an error for a database that now exists. `ReloadStore` may fail to
read the schema and then keeps the old one (database.go:141-144).
`Undo` is the deferred `activeDatabases.Delete(name)`, which deletes whatever is
stored. `ClosePool`, `DeleteEntry`, `Drop` are `DeleteDatabase`; `pool.Close` is
two steps, because it first closes the pool and then waits for its connections.
A nil pool gives a panic: recovered in a request (`UseFails`, `DeletePanics`),
not in the listener's goroutine (`ReloadFails`, state "crashed").

### SessionList

One action per caller; all of them run under the mutex, so each is one step.
`Create` may return any object that is not in the list: a new one, or one the
garbage collector took back, with its links reset.

### Requests

A request is one record: method, table, the query string as it came, headers,
body, and the catalog and rows it meets. Seven actions take it through the
handler, in the order of the code (`stage`); each can end it with an error. They
are in `RequestHandler`, for which parser, builder and database are constant
operators (`Parser`, `Builder`, `Database`, `ReturnsSet`); the configuration gives
them the definitions of `Requests` (`Parsing`, `Building`, `Answering`,
`FunctionIsSet`). So the handler's own promises can be proved without the
recursions of the parser, and are checked with them.

| Action | Code |
|---|---|
| `GetQueryOptions` | `Prefer`, `Range`, `Accept`, schema (requestparser.go:1414-1501, content_type.go) |
| `ReadRequest` | the body and its refusals; empty writes (api/utils.go:183-352) |
| `ParseRequest` | `PostgRestParser.parse`; for calls `filterParameters` |
| `Build` | `BuildSelect`, `buildRecursiveSelect`, `BuildInsert`, `BuildUpdate`, `BuildDelete`, `BuildExecute` |
| `Query` | `querySerialize` up to the rows; the statement runs in `Postgres` |
| `Serialize` | rows to a body: singular, counted, binary |
| `Respond` | `SetResponseHeaders` and the handler's status |

A query string is a sequence of symbols (a name, a separator, a quote), which is
what the scanner makes of the text; the module has the scanner, too, so that
quotes, escapes and separators inside values count. A statement is a record of its
clauses; the WHERE is a sequence of symbols, because SQL reads it again by its own
precedence and that is where brackets matter. The lists of a select and of a
RETURNING keep their commas, because the code puts a comma before a key whether or not
something precedes it, and `Postgres` refuses a list that does not read as one
(`Separated`, `Legible`) and a name that is not there exactly once
(`ReturningError`). Go's maps are read in any order:
where the code ranges over one, the order is part of the request (`ranged` for the
query string, `keys` for the columns of a record, `tables` for the catalog), and the
families of requests vary it (`Shuffled`, both orders of `keys`); where the code sorts,
so does the model.

`Postgres` is external and says what the code relies on: three-valued logic,
`IN` and `ANY`, lateral joins, recursion to a fixed depth, `DISTINCT`, `LIMIT`. It
is evaluated on the rows that come with the request.

### JQUpdates

| Variable | Code |
|---|---|
| `rows`, `draft`, `owner` | (PostgreSQL) per row: the committed version, the newest one, who holds the lock |
| `cache` | `jqeval.cache` |
| `req` | a request: its place, the program and the compiled one, whether it is in a transaction, what the rows were at its snapshot (`seen`), the rows read (`got`), how many are done, status, whether the client is gone |

A version has a place (`ctid`), whether it matches the filters (`open`), whether it
is there (`live`), and the changes it includes (`history`), which is what tells a
lost update. `Lookup` and `Compile` are the two critical sections of `compile`; a
request passes them once before it touches the database and once per row.
`Select` … `Commit` are the statements of `UpdateRecordsWithJQ`, `Lock` one row of
the `SELECT ... FOR UPDATE`. `Write` and `Transform` are `POST /rpc` with a program.
`Release` is the middleware's end of the request, `Cancel` a client that goes.

A call may do to a row whatever a function may: make it match or no longer match,
insert it, delete it; and the program of an update may set a filtered column
(the `open` of its new version). Under READ COMMITTED the `SELECT ... FOR UPDATE`
reads a row again that others have changed since its snapshot, and leaves it out
when it no longer matches; a row that has come to match, or was inserted, after the
snapshot it does not see. `OnlyMatched` therefore claims of the rows that none is
missing that matched at the snapshot and is still what it was (`Stayed`); the
others are the code's to miss, and `RowUpdates` allows it.

### NotificationListener and Server

`loop` is the place of the listener's goroutine, with the databases of the
reload at hand and the version it has read. A change of a schema is told to
whoever listens; `missed` are the databases of which nobody was told, or whose reload failed.

| Variable of `Server` | Code |
|---|---|
| `signals`, `stopper` | the channel of `Run`; `stopHandler`'s place |
| `caller`, `once` | who calls `Shutdown`, and who runs its body (`sync.Once`) |
| `server` | `draining`, the channels `shutdown` and `shutdownCompleted`, the state of `http.Server`; whether the window expired with requests active |
| `closer` | the goroutine that runs `DbEngine.Close` |
| `session`, `watcher`, `out`, `req` | sessions, watcher, acquired connections and requests, in less detail than `Sessions` has them |

A request ends in four steps, as the shutdown's walk, which holds no mutex, can come
between them: the handler returns (`HandlerEnds`), the connection is released
(`Release`), the session detached (`Detach`) and given back (`Leave`). The walk
leaves `DbConn` set to a connection that was released; so does a request between `Release` and
`Detach`. `Dead` stands for such a connection: using it again panics, which a request
survives (net/http recovers it) and the walk's goroutine does not (`exit` = "crashed").
It takes a window that expired under a request with transactions, and is part of
the hazard at sessions.go:173.

Sessions share one key here. That a list keeps its order and a connection its
role and transaction is in `Sessions`; what is added is the shutdown branch of
the watcher, which takes neither the mutex nor heed of `inUse`.

## Runs

Bounds are constants of the `.cfg` files. Every property has a mutant in
`PROJECT.json`: a plausible bug in a named definition, under which TLC finds the
property violated in the same run, so no property holds vacuously.

| Run | Module, `.cfg` | Question |
|---|---|---|
| `session_list` | `SessionList` | do the pointers implement the queue? |
| `sessions` | `MCSessions`, `Sessions` | is the request life safe under all interleavings and failures? |
| `sessions_live` | `MCSessions`, `SessionsLive` | are free sessions retired and waiters served? |
| `sessions_leak` | `MCSessions`, `SessionsLeak` | (violated) is every connection given back in the end? |
| `sessions_role` | `MCSessions`, `SessionsRole` | (violated) does the role hold under a handler's own rollback? |
| `dbengine` | `DbEngine` | do activations, deletions and reloads keep the engine consistent, and do they end? |
| `dbengine_waiter` | `DbEngine`, `DbEngineWaiter` | (violated) is what a caller gets activated? |
| `dbengine_reload` | `DbEngine`, `DbEngineReload` | (violated) is a reload of an inactive database ignored? |
| `requests` | `MCRequests` | does every request do what it means? |
| `jq_updates` | `MCJQUpdates`, `JQUpdates` | are jq updates atomic, their answers true, and do they end? |
| `jq_partitions` | `MCJQUpdates`, `JQPartitions` | (violated) does a jq update change only the rows it matched? |
| `server` | `MCServer`, `Server` | do the parts stop in order, does the process end, do the caches follow? |

**session_list.** `LinksConsistent`: along the walk, `prev` is the inverse of
`next`, and `tail` the last. `SlotSpec`: refinement of `SessionQueue`. Four
objects make a list with an inner session that has neighbours on both sides
which are neither head nor tail's only link; a fifth adds no new shape of the
three operations, which touch a session and its neighbours, head and tail.

**sessions.** Two requests, two keys, two Session objects, two connections, with
sessions on or off and without or with transactions
(`commit-allow-override`, whose ends are those of all modes). Two of each is
what it takes for a conflict: two requests for one key, or one for each; a
session kept by a failed request beside a free one; two connections for two
sessions and none left. `Events` enables every failure but the nested rollback
(see `sessions_role`). Key, role, session and connection are interchangeable
here (`Roleless` is empty), hence the symmetry; the run has no liveness property.
About 1.7 million states.

`SessionIds` bounds the Session objects: `Unused` is what `new` may return, and
with all of them kept by failed requests no further session is made. Two are
enough for a list with order and for a list beside another.

**sessions_live.** One connection for two requests, two keys of which one has
no role, a handler that may panic. `FreeSessionRetired` covers every
configuration that manages sessions. `WaiterServed` is claimed only where
connections are given back at the end of a request: with sessions and without
transactions a kept connection goes back after the connection timeout, and only
if the session is not used again first, so a waiter can starve behind a busy
session. That is how the code works and contradicts no document; the property
says where it does not happen. No symmetry is used.

**dbengine.** A request that gets or creates, one that may also delete, the
listener; one name; three Database objects (an old one being drained, a new
one, and one to be made). Activation may fail at any stage, waiters may be
canceled, the database may be absent from or present in the cluster at the
start. Deadlock is not checked because a crash of the process, which the model
includes, ends everything; that nothing blocks before it is `OperationsEnd`.

Some limits of this run are deliberate:

- *One deleter.* With two, a `DeleteEntry` can remove the entry of a database
  that was activated again after the first deletion, and its open pool is then
  unreachable: `OpenPoolsReachable` fails. No document says that two deletions
  of one name may overlap, so it is recorded as a hazard, not as a finding.
- *`lookup`, `create` and `drop` failures off.* A look-up fails when the name is
  not in the cluster. One that fails although the database exists (a lost
  connection) has the same effect on the entry as the first kind; off, like the
  other two, to keep the run small.
- *`create`* (the operation `CreateActiveDatabase`) runs in the two violation
  runs; its steps are those of "get or create" after the lock.

**requests.** No bounds on a behaviour: every request ends after seven steps.
What is bounded is which requests there are. `MCRequests` has families of them,
each made *from its meaning* and then printed as the documented query string, so
that the properties compare what comes out with something the program has not
computed: select lists nested to two levels with labels, json paths, casts,
aggregates and hints; every tree of and, or and not up to three levels over two
columns that are null, equal or not, in reads, updates and deletes; pages of
four rows by limit, offset and range, counted or not; orders; resources embedded
to one, to many, through a junction and through a view, found by the name of the
table, the column or the key, with filters and inner joins at both levels; walks in
all four modes over every tree and graph of three nodes, cycles included; inserts that merge or ignore, with columns
and orders of keys; bodies that are too large, cannot be decoded or are of another
media type, and must be refused; calls with
arguments of every form. `MaxFilterDepth` is 3 so that a filter can be too deep,
`MaxRecursiveDepth` 2 so that a walk can be cut. About 200,000 states.

A write that asks for its rows with resources embedded (`EmbedWrites`) is not always
one that PostgreSQL can carry out. `ReturningClause` (querybuilder.go:733-772)
appends the keys that the joins need to the columns selected, each with a comma
before it, since its test for an empty list looks at a text that already begins with
`RETURNING`; and it does not note a key it has appended. So a select list with
only resources gives `RETURNING , "project"."id"`, a syntax error; a key that two
resources need is returned twice and then ambiguous (42702); a key that is selected
under another name is missing (42703). The family varies what stands in front of the
resources (`Leading`: nothing, the key, another column, the key renamed) and has 448 such
requests: 280 are carried out, 154 are answered with 500 and 14 with 400. Of those
answered with an error `WriteRefused` says that they have changed nothing; `EmbedMeaning` and
`WriteMeaning` claim something of the others only. No document promises that
such a write works, so this is not among the findings.

Requests that the program is known to treat in another way than one might
expect, and for which no document says which, are left out of the families and
listed under *Not modelled*.

**jq_updates.** Two updates and one call on two rows, each there from the start or
inserted meanwhile; no transaction mode with both rows allowed, and commit with one;
a cache with one entry, for two programs with the same text and different
variables and one that does not compile; one client may go away at any step. Two
rows are what a deadlock takes, and a partial update; two updates and a writer are
what a lost update, a row that no longer matches, one that matches too late and a
cache race take. About 1.2 million states. *jq_partitions* has one update and two
partitions with one row each.

**server.** Five configurations (`SomeConfigs`): sessions with a deadline; a drain
that a second signal may cut short; transactions, with an embedder beside the
signal handler; no sessions and no deadline; and one in which schemas change,
connections fail and nobody sends requests. Two requests, one of which may hang
in its handler, one connection, so that one can wait for the other. Two signals,
as a third finds the same states. About 777,000 states. Deadlock is not checked
in these three runs, since requests and processes end; that nothing blocks
before is `AllEnd` and `AllStops` in two of them.

**The violation runs** are the smallest instances on which TLC finds what
*Findings* describes. Each checks one property, which quotes what the
repository says.

## Fairness

*Sessions.* A request's goroutine goes on (weak): the handler returns, the
database answers. `Acquire` is strong: pgxpool serves those who wait in order, so
one that could be served again and again is. `Leave` is strong: a `sync.Mutex`
in starvation mode hands itself to the oldest locker. The watcher goes on once
it runs, and the ticker starts it again (weak). Time passes between passes
(strong on `Tick`, which passes interrupt): they are a second apart. A request
that is idle need not begin; nothing says that a rejection, a panic, a lost
connection or an exhausted pool ever happens, or stops happening.

*DbEngine.* Every operation under way goes on by itself (weak on `Progress`, which
leaves the cancellation of a waiter out: no property counts on it); the creation
lock does not starve a locker (strong on `Lock`). Nobody needs to enter. Fairness
ends with a crash.

*JQUpdates.* Every request goes on by itself (weak on `Step`): statements
return, locks are given when they are free, PostgreSQL breaks deadlocks. No
client need go away.

*Server.* Every goroutine that can go on does (weak), requests included, except
that nobody need call `Shutdown`, send a signal or a request, and a handler
named in `Hanging` may never return. `AllStops` excludes one situation (`Stuck`): a
shutdown without a deadline waits for such a handler for ever. The comment at
server.go:162-164 counts on `ReadTimeout` and `WriteTimeout` here, which bound the
connection and not the handler; a second signal is what ends it.
*NotificationListener.* Its loop goes on (weak); errors end (`MaxErrors`), which
is how the code's retrying forever is bounded.

`FairSpec` (`LiveSpec` in the newer modules) is used where a liveness property is checked, `Spec` elsewhere.

## Proofs

`tlapm X_proofs.tla` checks each module. What is proved holds for every value of
the constants under the module's named assumption, which says that null values
are none of the objects and that configurations, operations and events are those
that exist, and of every size. Two assumptions say more: `FiniteAssumption`
(the Session objects of `SessionList` are finitely many) and `UpdatesAssumption`
(so are the rows of a table; an actor is either an update or a call). Two theorems
have a hypothesis of their own, `OneDeleter` and `OneTable`; without it they are
false, as told below.

| Module | Theorem | Says |
|---|---|---|
| `SessionQueue_proofs` | `SlotInvariant` | in a slot without repetitions, free sessions precede those in use |
| | `SlotKeepsPromise` | `SessionQueue` implements `SessionPool` |
| `SessionList_proofs` | `LinkedInvariant` | the pointers stand for one sequence, which is what a walk meets |
| | `TypeCorrect`, `LinksConsistentCorrect` | the invariants `TypeOK`, `LinksConsistent` |
| | `ListIsQueue` | the linked list implements `SessionQueue` (`SlotSpec`) |
| | `ListKeepsPromise` | hence it implements `SessionPool` |
| `Sessions_proofs` | `Inductive` | the invariant `IInv` of the request life |
| | `TypeCorrect`, `FreeFirstCorrect`, `ExclusiveCorrect`, `NoLostConnCorrect` | the invariants of the same names |
| | `WatcherHandsOffCorrect` | the action property `WatcherHandsOff` |
| | `SlotsSpecCorrect` | the list of every key implements `SessionQueue` (`SlotsSpec`) |
| | `AlwaysClean` | the invariant `Clean`, about what is left on connections |
| | `OwnTransactionCorrect` | `OwnTransaction` |
| | `RoleMatchesCorrect` | `RoleMatches`, if no handler rolls back a transaction of its own |
| `DbEngine_proofs` | `Invariance` | the invariant `IInv` of the engine |
| | `TypeCorrect`, `OneActivatorCorrect`, `DropQuiescedCorrect` | the invariants of the same names |
| | `OpenPoolsReachableCorrect` | `OpenPoolsReachable`, if at most one caller deletes (`OneDeleter`) |
| `JQUpdates_proofs` | `Invariance` | the invariant `IInv` of jq updates, on any table |
| | `TypeCorrect`, `OwnProgramCorrect` | the invariants of the same names |
| | `AnswerTrueCorrect` | the action property `AnswerTrue` |
| | `RowsInvariance` | the invariant `RInv`, if the table is one partition (`OneTable`) |
| | `OnlyMatchedCorrect` | `OnlyMatched`, for such a table |
| | `AllOrNoneCorrect` | `JQUpdates` implements `RowUpdates` (`AllOrNone`), for such a table |
| `RequestHandler_proofs` | `Invariance` | the invariant `IInv` of a request, for any parser, builder and database |
| | `TypeCorrect`, `WriteRefusedCorrect` | the invariants `TypeOK`, `WriteRefused` |
| | `RangeAgreesCorrect` | without a count, the `Content-Range` names as many rows as the body has |
| `Server_proofs` | `Invariance` | the invariant `IInv` of the server |
| | `TypeCorrect`, `InOrderCorrect` | `TypeOK` and `InOrder` |

### Sessions

**The lists.** `SessionOrder_proofs` shows of each list operation what it
returns: the members, that nothing repeats, that `FreePrefix` is kept. The order
is inductive by itself: a reused head goes to the back among those in use, a
new session is appended, a session that is given back goes to the front, a
removal keeps the order. `getSession` may therefore look at the head only, and
`Create` finds `free = {}`, which is what `SessionPool` demands.

**The pointers.** `Linked(q)` says that `head`, `next`, `tail` and `prev` stand for
the sequence `q`: `next` and `prev` of neighbours are inverse, the ends are what
`head` and `tail` name. Nothing is said of the `prev` of the first session,
which the code leaves stale, and nothing of objects outside of the list. Each
operation takes a list linked as `q` to one linked as the operation's result on
`q`. What remains is that `Queue`, defined by a recursive walk along `next`, *is*
that `q`. Such a fact asks for induction over the walk, which here is done by a
least counterexample: the function that a walk must equal is written down (`Met`),
it satisfies the recursive equation, and if another one did, there would be a least
number at which the two differ (`LeastNumber`, from the well-foundedness of the
natural numbers), where by the equation they cannot.

**The request life.** `Exclusive` and `NoLostConn` are not inductive: whether a
connection is attached twice depends on who may touch a session, and that on
the flags and the lists. The invariant has five parts,

- `TypeOK`;
- `Lists`: the lists of two keys are disjoint, and `FreeFirst` in each;
- `Owned`: a request that is under way has a session, which no other request
  has and which, if sessions are managed, is in use and in the list of the
  request's key;
- `Attached`: `Exclusive`'s part about connections, `NoLostConn`, and that a
  session about to acquire a connection has none, so that none is overwritten.
  It speaks of the connections that sessions *own* (`Own`): between the watcher's
  release and its detach, `DbConn` names one that may already be another's;
- `Watched`: a pass runs only where sessions are managed, has sessions left
  to visit only while it runs, and what it has found of the session it is at stays
  true until it is done with it: the session is in its list and not in use, and has a
  connection, or none, as found.

Each part has a lemma per kind of step: a list operation, a request that goes
on, begins, finishes, a connection attached or detached, the watcher. The key
fact, used for both the middleware and the watcher, is that a session stays in
its list unless it is neither in use nor connected. `WatcherHandsOff` is `Watched`
seen from the sessions: after `WatchDecide` no step of the walk has a guard on the
flag, and that the session is still free is because `GetFree`, the one step that
sets the flag of a listed session, needs the mutex that the pass holds. Likewise the
connection that is given back is nobody else's by `Attached`.

**The lists as slots.** A step changes the list of one key and flags of its
sessions; by `Lists` and `Owned` those flags are in no other list, so every other
slot stutters. `GetNew`, `GetFree`, `Leave` and `WatchDelete` are the four
operations of `SessionQueue` on that one; all else leaves lists and flags alone.
With `SlotKeepsPromise`, which holds of any queue, every list keeps the promise
of `SessionPool`; that last composition is not a theorem of its own because the
proof system cannot cite a theorem through an instance with a parameter.

**What is left on connections.** `RoleMatches` and `OwnTransaction` speak of a handler
that starts, but what it finds was left by others: by the last user of a pooled
connection, by the last request of the session, by the steps of the request
itself. `Clean` says what must be left at each of these places: a connection in the
pool is in no transaction (its role does not matter, because `newAcquire` sets it);
one that a free session keeps is in no transaction and has the role of the
session's key; one under a request is as its place in the code requires
(`Prepared`). The steps are of three kinds, with a lemma each: the connections
stay where and as they are, a request changes its own, a session gives one
back. The assumption of `RoleMatchesCorrect` cannot be dropped: `sessions_role`
is the counterexample.

### The database engine

Three things change at different moments: the entry of a name in
`activeDatabases`, the object it points to, the callers that hold that object.
`IInv` says who may change an object: one under activation belongs to the caller
that made it and has no pool yet (`MadeAlone`); a deletion that waits for
connections has closed the pool (`Draining`), after which `Connect` finds it
closed, so that the number of connections out only falls and is 0 when the wait
ends (`DropQuiesced`); the lock is held only at places from `Lock` to the end
(`Locked`). None of this needs `OneDeleter`.

`OpenPoolsReachable` does, and more (`Listed`): an activation's entry is in the
map until its own `Undo` (`MadeListed`), and what a deletion has looked up is still
the entry when it removes it (`DeletesItsOwn`). The code guards neither removal
(dbengine.go:333, 361 delete whatever is stored). `Undo` is safe because nobody
replaces the entry of an activation; the deletion only because nobody else
deletes. With two deleters `DeletesItsOwn` fails, and then the property: the hazard
at dbengine.go:333.

### jq updates

**Cache and transactions, on every table.** `CacheOK` says that list and map have
the same keys, each once, with the code of its key, and no more than allowed. `get`
and `put` keep it: a move to the front permutes the entries (`ToFrontLemma`), an
eviction drops as many as there are too many (`PutLemma`). As critical sections of
requests alternate, what a request finds is the code of its own key, whoever put it
there (`OwnProgram`). `Stage` says of each place in the code what the request has:
a program, a compiled one, an open transaction, how many rows are read and done.
`Truth` relates its status to what was committed. `AnswerTrue` follows from `Truth`
and the two ends of a request.

**Rows, on a table that is one partition.** `OnlyMatched` and `AllOrNone` are about
rows found again by `ctid`. `Apart` says that no two rows share a place in any
version; that the place of a new version exists and is free is a lemma on
cardinalities (two versions per row, one place more). With it the `UPDATE` hits the
row that was read and no other. `ClientRows` says the rest of what an update relies
on: the rows read are locked by it and are as they were read until it changes them
(`LockedAsRead`), and at each place which rows it has already of those that matched at
the snapshot and stayed as they were (`SeenBefore`, `Stayed`).
Then a `COMMIT` publishes rows that matched, each with the update's own mark and no
change of another missing: a step of `RowUpdates`. Every other step leaves the
committed rows alone. `OneTable` cannot be dropped: `jq_partitions` is the
counterexample.

### Requests

The constants of `RequestHandler` have no assumption: the parser may return
anything, the builder any statement, the database any rows. `WriteRefused` needs
that nothing is kept as a result before the statement was sent (`Sent`), and what
each way to an answer writes. Every end before the statement has an empty body and
one of the `EarlyStatuses`, so one lemma covers four actions (`UnsentStep`). After it there are
three: the database's error, of which nothing is kept (`ServerStatusLemma`); the
serializer, which refuses a write only for its media type; and the handler, which
heeds the status of `SetResponseHeaders` (`HeadersLemma`) for a read only.

`RangeAgrees` relates places that do not see each other: `SetResponseHeaders`
computes the range from a page and a number of rows, the serializer counts what it
writes. The invariant `CountsRows` says that the number is that of the rows written
wherever a body follows, and `RangeLemma` that a range shown without a count is from
the first row of the page to that many rows further, whichever ends the client
left open, and that the handler then answers with a body rather than with 416. It says
nothing of an answer with a count, whose range may reach past the last row
(`PageMeaning` has what it does). Its conditions are that the page's start is an
integer and that the database answered with a sequence of rows (`HasRows`), as every
statement of `Postgres` does. It is a theorem only: TLC checks the rows that are
announced, as part of `PageMeaning`.

### The server

`InOrder` looks at moments: HTTP closed, the pool about to close, the exit. That
they are in order depends on who has run what, so the invariant says it of every
place of `Shutdown`. `Stopping`: one caller runs its body, and its place tells which
flags are set; `closer` comes to the pool only when the listener is over. `Using`
and `Connected` are what `Sessions` has in more detail: one session per request,
one connection per session. `Detaching`: a request on its way out has
nothing attached that is still acquired. `Orderly` holds as long as the grace period has not
expired: after the shutdown no request is active, a handler has the connection of
its session, and, where sessions are managed, every acquired connection is one that
the watcher's last pass has still to visit. Hence nothing is out when the pool is
closed after the pass, and a pass that closes sessions without the mutex meets none
in use.

### What stays with TLC

The liveness properties (`FreeSessionRetired`, `WaiterServed`, `OperationsEnd`,
`AllEnd`, `AllStops`, `CachesFollow`): the proof system handles neither ENABLED nor
fairness. The properties of `RequestMeaning`: they compare what parser, builder and
PostgreSQL do with a meaning, and all of these are RECURSIVE operators, in the reach
of which the provers lose their arithmetic; what such an operator computes for every
input asks for induction over data. Every other property of a passing run is a
theorem.

## Findings

Five places where the code does not do what the repository says:

1. **A failed `PrepareConnection` leaks** (`sessions_leak`, middleware.go:91):
   the error return gives back neither the session nor the connection. The
   session stays in use, so the watcher leaves it alone. The returns before it
   leak the session (but no connection), and a panic both.
2. **A rolled-back handler loses the role** (`sessions_role`, conn.go:45): `SET
   ROLE` runs inside the request's transaction; a handler's own `ROLLBACK` ends
   that transaction and restores the old role; the session keeps the
   connection, and the next request does not set the role again.
3. **Waiters of a failed look-up get an empty database** (`dbengine_waiter`,
   dbengine.go:367): the channel is closed with `activationErr` nil.
4. **A reload can crash the process** (`dbengine_reload`, database.go:131): it
   uses the nil pool of an entry under activation, in a goroutine that does not
   recover panics.
5. **A jq update changes rows of other partitions** (`jq_partitions`,
   jqupdate.go:240): rows are found again by `ctid`, which is unique in one
   partition only. The update changes, unlocked, whatever lies at the same place of
   another one.

The invariants of the passing runs hold in spite of 1 (they are checked with
these failures enabled), and 2 is why `sessions` leaves the nested rollback out.

## Not modelled

- `watch`'s test-only pause, and its counters.
- Which database of several a key belongs to: with more pools, less competes.
  A session of the main database (`forceDBE`) uses the main pool in the same way.
- The lifetime of a token: a reused session has the claims it was made with.
- `CloneDatabase` and `UpdateDatabase`: statements on the catalog, between which
  the program keeps no state of its own. The main pool as a resource that admin
  handlers and `GetDatabase` compete for: its bound is pgx's.
- Catalog operations beyond their transactions: each is DDL that PostgreSQL
  carries out. What a failure half-way leaves is decided by the transaction, which
  `Sessions` has.
- Reading the configuration, once at startup; plugins, logging, CORS, the UI and
  version: input, output and assets.
- The text of values: numbers, dates, intervals, arrays, ranges, composites,
  quoting in CSV and SQL. No property of the models tells two texts of a value
  apart.
- A reload in the middle of a statement: a request of `Requests` sees one cache.
- A trigger that moves a matched row before a jq update comes to it: the UPDATE
  by `ctid` then changes nothing, and the count says it did. Whether it
  happens is the trigger's doing.
- Keys of the jq cache of arguments whose name has a comma: `"a,b"` and `a`, `b`
  make the same key.

Requests left out of `MCRequests`, because the program does something with them
that no document settles (or that only shows in the text): a counted query as CSV
(a header for the count but no column), `limit=0` or an offset alone with a count
(the announced range is not that of the page), a limit with an open range
(a negative LIMIT, against README.md:268), `columns` that leaves nothing to set, PATCH
with several records, an operator without a value, one resource embedded twice and
filtered by table and by label, and/or nested in a filter of an embedded resource,
an empty resource in front of a select list, `order` of a resource below the
first level, filters and orders on a self-relationship, `order` given under two keys,
`not.and` and `not.or` in the query string of a call (they are taken for arguments).
Relationships of a table to itself and computed ones are in `SchemaInfo`, and so is
the rule that leaves out keys of partitions, but no family asks for them.

## Plan

Done: the modules and runs above, and the theorems of *Proofs*: of the passing
runs, every invariant, action property and refinement outside of `RequestMeaning`.
Left, by importance:

1. **`RequestMeaning`.** Which recursions of the parser and the builder can be written
   as recursive functions, for which the least counterexample of `SessionList_proofs`
   is a way to prove something: `NestingBounded` first, then `MarkersBound`.
2. **Composition.** `Server` repeats sessions and connections in less detail than
   `Sessions`; that it is an abstraction of it is argued above, not shown.
3. **`OpenPoolsReachable` for two deleters** under the weakest condition on what they
   delete that makes it true.
