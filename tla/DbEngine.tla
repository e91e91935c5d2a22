------------------------------ MODULE DbEngine ------------------------------
(***************************************************************************)
(* The activation of databases: database/dbengine.go (GetActiveDatabase,   *)
(* CreateActiveDatabase, GetOrCreateActiveDatabase, DeleteDatabase, the    *)
(* schema reloads) and database/database.go (activate, ReloadSchemaCache). *)
(*                                                                         *)
(* The goroutines share activeDatabases, a sync.Map, and the Database      *)
(* objects it points to.  A Database is stored as a placeholder first; its *)
(* activation channel is closed once it is known how the activation went.  *)
(* The cluster's databases are external.                                   *)
(***************************************************************************)
EXTENDS Naturals, FiniteSets

CONSTANTS
    Callers,    \* goroutines: requests, and the notification listener
    Listeners,  \* those of the notification listener: they only reload
    Names,      \* database names
    Databases,  \* Database objects (a bound: enough of them must be given)
    Ops,        \* how the other callers get a database, see AllOps
    Deleters,   \* the callers that may also delete a database
    Failures,   \* what may fail, see AllFailures
    None        \* no name, no object, no caller

AllOps == {"get", "get or create", "create"}
AllFailures ==
    {"lookup",      \* GetDatabase: no connection of the main pool, canceled
     "activate",    \* connect, NewSchemaInfo or NewWithConfig
     "cancel",      \* the context of a waiter
     "create",      \* CREATE DATABASE
     "reload",      \* NewSchemaInfo, in a reload
     "drop"}        \* DROP DATABASE

ASSUME ConstantsAssumption ==
    /\ Ops \subseteq AllOps
    /\ Listeners \subseteq Callers
    /\ Deleters \subseteq Callers \ Listeners
    /\ Failures \subseteq AllFailures
    /\ None \notin Callers \cup Names \cup Databases

VARIABLES
    cluster,    \* the names of the databases that exist
    active,     \* activeDatabases
    db,         \* the Database objects
    lock,       \* dbCreationLock: its holder
    call        \* the callers: pc and local variables

vars == <<cluster, active, db, lock, call>>

\* closed: the activation channel; failed: activationErr # nil; pool; info.
Database == [name : Names \cup {None}, closed : BOOLEAN, failed : BOOLEAN,
             pool : {"nil", "open", "closed"}, info : BOOLEAN]

Placeholder(n) == [name |-> n, closed |-> FALSE, failed |-> FALSE, pool |-> "nil", info |-> FALSE]

Idle == [pc |-> "idle", op |-> "get", name |-> None, db |-> None, attempt |-> 1, todo |-> {}]

At(c, label) == call[c].pc = label
Goto(c, label) == call' = [call EXCEPT ![c].pc = label]
Finish(c) == call' = [call EXCEPT ![c] = Idle]
NameOf(c) == call[c].name
DbOf(c) == call[c].db

Init ==
    /\ cluster \in SUBSET Names
    /\ active = [n \in Names |-> None]
    /\ db = [d \in Databases |-> Placeholder(None)]
    /\ lock = None
    /\ call = [c \in Callers |-> Idle]

\* Objects that nobody refers to; an open pool is never collected.
Unused == {d \in Databases : /\ db[d].pool # "open"
                             /\ \A n \in Names : active[n] # d
                             /\ \A c \in Callers : DbOf(c) # d}
-----------------------------------------------------------------------------
(* The entry points.                                                       *)

\* GetActiveDatabase, GetOrCreateActiveDatabase and CreateActiveDatabase.
Enter(c) ==
    /\ At(c, "idle") /\ c \notin Listeners
    /\ \E op \in Ops, n \in Names :
         call' = [call EXCEPT ![c] = [Idle EXCEPT !.pc = IF op = "create" THEN "lock" ELSE "get",
                                                  !.op = op, !.name = n]]
    /\ UNCHANGED <<cluster, active, db, lock>>

\* The deferred dbCreationLock.Unlock(), and a mutant: it is not deferred.
StaysLocked(c) == lock
Unlocked(c) == IF lock = c THEN None ELSE lock

\* What GetActiveDatabase returns to: its caller, or the rest of
\* GetOrCreateActiveDatabase, by the attempt it belongs to: 1 without the lock,
\* 2 under the lock, 3 after CreateDatabase.
Returns(c, ok) ==
    IF ok
    THEN /\ Goto(c, "use")
         /\ lock' = Unlocked(c)
    ELSE IF call[c].op = "get or create" /\ call[c].attempt < 3
    THEN /\ call' = [call EXCEPT ![c].pc = IF call[c].attempt = 1 THEN "lock" ELSE "create",
                                 ![c].db = None]
         /\ UNCHANGED lock
    ELSE /\ Finish(c)
         /\ lock' = Unlocked(c)

\* dbCreationLock.Lock().
Lock(c) ==
    /\ At(c, "lock") /\ lock = None
    /\ lock' = c
    /\ call' = [call EXCEPT ![c].pc = IF call[c].op = "create" THEN "create" ELSE "get",
                            ![c].attempt = 2]
    /\ UNCHANGED <<cluster, active, db>>

\* CreateDatabase fails if the database exists.
Create(c) ==
    /\ At(c, "create")
    /\ \/ /\ NameOf(c) \notin cluster
          /\ cluster' = cluster \cup {NameOf(c)}
          /\ Goto(c, "created")
          /\ UNCHANGED lock
       \/ /\ NameOf(c) \in cluster \/ "create" \in Failures
          /\ Finish(c)
          /\ lock' = Unlocked(c)
          /\ UNCHANGED cluster
    /\ UNCHANGED <<active, db>>

\* CreateDatabase looks the new database up, which may fail: it is there, or
\* was dropped since, and the caller gets an error.
Created(c) ==
    /\ At(c, "created")
    /\ \/ /\ NameOf(c) \in cluster
          /\ call' = [call EXCEPT ![c].pc = "get", ![c].attempt = 3]
          /\ UNCHANGED lock
       \/ /\ NameOf(c) \notin cluster \/ "lookup" \in Failures
          /\ Finish(c)
          /\ lock' = Unlocked(c)
    /\ UNCHANGED <<cluster, active, db>>
-----------------------------------------------------------------------------
(* GetActiveDatabase.                                                      *)

\* LoadOrStore stores a placeholder.
StorePlaceholder(c) ==
    /\ At(c, "get") /\ active[NameOf(c)] = None
    /\ Unused # {}
    /\ LET d == CHOOSE d \in Unused : TRUE
       IN  /\ active' = [active EXCEPT ![NameOf(c)] = d]
           /\ db' = [e \in Databases |-> IF e = d THEN Placeholder(NameOf(c))
                                         ELSE IF e \in Unused THEN Placeholder(None) ELSE db[e]]
           /\ call' = [call EXCEPT ![c].pc = "lookup", ![c].db = d]
    /\ UNCHANGED <<cluster, lock>>

\* LoadOrStore finds an entry.
LoadEntry(c) ==
    /\ At(c, "get") /\ active[NameOf(c)] # None
    /\ call' = [call EXCEPT ![c].pc = "wait", ![c].db = active[NameOf(c)]]
    /\ UNCHANGED <<cluster, active, db, lock>>

\* The activation channel is closed: the entry is returned, or its error.
Awaken(c) ==
    /\ At(c, "wait") /\ db[DbOf(c)].closed
    /\ Returns(c, ~db[DbOf(c)].failed)
    /\ UNCHANGED <<cluster, active, db>>

\* The context is done first.
WaitCanceled(c) ==
    /\ At(c, "wait") /\ "cancel" \in Failures
    /\ Returns(c, FALSE)
    /\ UNCHANGED <<cluster, active, db>>

\* GetDatabase finds the database in the catalog.
Lookup(c) ==
    /\ At(c, "lookup") /\ NameOf(c) \in cluster
    /\ Goto(c, "activate")
    /\ UNCHANGED <<cluster, active, db, lock>>

\* close(db.activation), and a mutant: it is forgotten.
LeftOpen(d) == db
ChannelClosed(d) == [db EXCEPT ![d].closed = TRUE]

\* GetDatabase fails: the channel is closed, activationErr is left nil.
LookupFails(c) ==
    /\ At(c, "lookup")
    /\ NameOf(c) \notin cluster \/ "lookup" \in Failures
    /\ db' = ChannelClosed(DbOf(c))
    /\ Goto(c, "undo")
    /\ UNCHANGED <<cluster, active, lock>>

\* activate: connect, read the schema, info.Store.
LoadSchema(c) ==
    /\ At(c, "activate") /\ NameOf(c) \in cluster
    /\ db' = [db EXCEPT ![DbOf(c)].info = TRUE]
    /\ Goto(c, "pool")
    /\ UNCHANGED <<cluster, active, lock>>

\* activate: the pool is made and, deferred, the channel closed.
OpenPool(c) ==
    /\ At(c, "pool")
    /\ db' = [db EXCEPT ![DbOf(c)].pool = "open", ![DbOf(c)].closed = TRUE]
    /\ Returns(c, TRUE)
    /\ UNCHANGED <<cluster, active>>

\* activate fails: deferred, activationErr is set and the channel closed.
ActivateFails(c) ==
    /\ \/ At(c, "activate") /\ (NameOf(c) \notin cluster \/ "activate" \in Failures)
       \/ At(c, "pool") /\ "activate" \in Failures
    /\ db' = [db EXCEPT ![DbOf(c)].failed = TRUE, ![DbOf(c)].closed = TRUE]
    /\ Goto(c, "undo")
    /\ UNCHANGED <<cluster, active, lock>>

\* Deferred: activeDatabases.Delete(name), whatever is stored there.
Undo(c) ==
    /\ At(c, "undo")
    /\ active' = [active EXCEPT ![NameOf(c)] = None]
    /\ Returns(c, FALSE)
    /\ UNCHANGED <<cluster, db>>
-----------------------------------------------------------------------------
(* The caller uses the database it was given.                              *)

\* AcquireConnection on the pool of the database.
Use(c) ==
    /\ At(c, "use") /\ db[DbOf(c)].pool = "open"
    /\ Goto(c, "connected")
    /\ UNCHANGED <<cluster, active, db, lock>>

\* A closed pool gives an error, a nil pool a panic that is recovered.
UseFails(c) ==
    /\ At(c, "use") /\ db[DbOf(c)].pool # "open"
    /\ Finish(c)
    /\ UNCHANGED <<cluster, active, db, lock>>

\* The connection is given back.
Disconnect(c) ==
    /\ At(c, "connected")
    /\ Finish(c)
    /\ UNCHANGED <<cluster, active, db, lock>>
-----------------------------------------------------------------------------
(* DeleteDatabase.                                                         *)

\* Where the deletion goes on, and a mutant: the pool is not closed.
DropsAtOnce(n) == "drop"
ClosesFirst(n) == IF active[n] = None THEN "drop" ELSE "close"

DeleteLoad(c) ==
    /\ At(c, "idle") /\ c \in Deleters
    /\ \E n \in Names :
         call' = [call EXCEPT ![c] = [Idle EXCEPT !.pc = ClosesFirst(n),
                                                  !.name = n, !.db = active[n]]]
    /\ UNCHANGED <<cluster, active, db, lock>>

\* pool.Close() on a nil pool: a panic, recovered above the handler.
DeletePanics(c) ==
    /\ At(c, "close") /\ db[DbOf(c)].pool = "nil"
    /\ Finish(c)
    /\ UNCHANGED <<cluster, active, db, lock>>

\* The pool is closed, and a mutant: it is not.
PoolLeftOpen(d) == db
PoolClosed(d) == [db EXCEPT ![d].pool = "closed"]

\* pool.Close(): no connection is given out any more ...
ClosePool(c) ==
    /\ At(c, "close") /\ db[DbOf(c)].pool # "nil"
    /\ db' = PoolClosed(DbOf(c))
    /\ Goto(c, "drain")
    /\ UNCHANGED <<cluster, active, lock>>

Connected(d) == \E c \in Callers : At(c, "connected") /\ DbOf(c) = d
Reloading(d) == \E c \in Callers : At(c, "reloading") /\ DbOf(c) = d

\* ... and it returns when those that are out have come back.
Drained(c) == At(c, "drain") /\ ~Connected(DbOf(c)) /\ ~Reloading(DbOf(c))

\* activeDatabases.Delete(name), whatever is stored there.
DeleteEntry(c) ==
    /\ Drained(c)
    /\ active' = [active EXCEPT ![NameOf(c)] = None]
    /\ Goto(c, "drop")
    /\ UNCHANGED <<cluster, db, lock>>

\* DROP DATABASE ... (FORCE)
Drop(c) ==
    /\ At(c, "drop")
    /\ cluster' \in {cluster \ {NameOf(c)}} \cup (IF "drop" \in Failures THEN {cluster} ELSE {})
    /\ Finish(c)
    /\ UNCHANGED <<active, db, lock>>
-----------------------------------------------------------------------------
(* Reloads, from the goroutine of the notification listener: one database, *)
(* or all of them one after the other (Range).                             *)

ReloadStart(c) ==
    /\ At(c, "idle") /\ c \in Listeners
    /\ \E todo \in {{n} : n \in Names} \cup {Names} :
         call' = [call EXCEPT ![c] = [Idle EXCEPT !.pc = "reload next", !.todo = todo]]
    /\ UNCHANGED <<cluster, active, db, lock>>

ReloadEnd(c) ==
    /\ At(c, "reload next") /\ call[c].todo = {}
    /\ Finish(c)
    /\ UNCHANGED <<cluster, active, db, lock>>

\* Load: an entry is taken, a database that is not active ignored.
ReloadLoad(c) ==
    /\ At(c, "reload next")
    /\ \E n \in call[c].todo :
         call' = [call EXCEPT ![c].todo = @ \ {n},
                              ![c].pc = IF active[n] = None THEN @ ELSE "reload",
                              ![c].db = active[n]]
    /\ UNCHANGED <<cluster, active, db, lock>>

\* ReloadSchemaCache acquires a connection of the pool.
ReloadAcquire(c) ==
    /\ At(c, "reload") /\ db[DbOf(c)].pool = "open"
    /\ Goto(c, "reloading")
    /\ UNCHANGED <<cluster, active, db, lock>>

\* A closed pool gives an error, a nil pool a panic that nothing recovers: the
\* process ends.
ReloadFails(c) ==
    /\ At(c, "reload") /\ db[DbOf(c)].pool # "open"
    /\ call' = [call EXCEPT ![c].pc = IF db[DbOf(c)].pool = "nil" THEN "crashed" ELSE "reload next",
                            ![c].db = IF db[DbOf(c)].pool = "nil" THEN @ ELSE None]
    /\ UNCHANGED <<cluster, active, db, lock>>

\* The new schema is stored, or the old one stays when it could not be read;
\* the connection is given back.
ReloadStore(c) ==
    /\ At(c, "reloading")
    /\ \/ db' = [db EXCEPT ![DbOf(c)].info = TRUE]
       \/ "reload" \in Failures /\ UNCHANGED db
    /\ call' = [call EXCEPT ![c].pc = "reload next", ![c].db = None]
    /\ UNCHANGED <<cluster, active, lock>>
-----------------------------------------------------------------------------
GetActive(c) ==
    \/ StorePlaceholder(c) \/ LoadEntry(c) \/ Awaken(c)
    \/ Lookup(c) \/ LookupFails(c)
    \/ LoadSchema(c) \/ OpenPool(c) \/ ActivateFails(c) \/ Undo(c)

Delete(c) == DeletePanics(c) \/ ClosePool(c) \/ DeleteEntry(c) \/ Drop(c)

Reload(c) ==
    ReloadEnd(c) \/ ReloadLoad(c) \/ ReloadAcquire(c) \/ ReloadFails(c) \/ ReloadStore(c)

\* What goes on by itself once an operation is under way; nobody need cancel it.
Progress(c) ==
    \/ Lock(c) \/ Create(c) \/ Created(c) \/ GetActive(c)
    \/ Use(c) \/ UseFails(c) \/ Disconnect(c)
    \/ Delete(c) \/ Reload(c)

Crashed == \E c \in Callers : At(c, "crashed")

Next ==
    /\ ~Crashed
    /\ \E c \in Callers : Enter(c) \/ WaitCanceled(c) \/ DeleteLoad(c) \/ ReloadStart(c) \/ Progress(c)

Spec == Init /\ [][Next]_vars

\* The database answers, so a goroutine that is not blocked goes on, and
\* sync.Mutex does not starve a locker.
Fairness ==
    /\ \A c \in Callers : WF_vars(~Crashed /\ Progress(c))
    /\ \A c \in Callers \ Listeners : SF_vars(~Crashed /\ Lock(c))

FairSpec == Spec /\ Fairness
-----------------------------------------------------------------------------
TypeOK ==
    /\ cluster \subseteq Names
    /\ active \in [Names -> Databases \cup {None}]
    /\ db \in [Databases -> Database]
    /\ lock \in Callers \cup {None}
    /\ lock # None => call[lock].attempt > 1
    /\ call \in [Callers ->
         [pc : {"idle", "lock", "create", "created", "get", "wait", "lookup", "activate", "pool", "undo",
                "use", "connected", "close", "drain", "drop",
                "reload next", "reload", "reloading", "crashed"},
          op : AllOps, name : Names \cup {None}, db : Databases \cup {None},
          attempt : 1 .. 3, todo : SUBSET Names]]

\* An entry whose activation channel is open has one goroutine, and only one,
\* that is going to close it (dbengine.go:343-372, database.go:36-42): nobody
\* waits for an activation that nobody performs, and no channel is closed twice.
Activating(c) == call[c].pc \in {"lookup", "activate", "pool"}
OneActivator ==
    /\ \A n \in Names : active[n] # None /\ ~db[active[n]].closed =>
         \E c \in Callers : Activating(c) /\ DbOf(c) = active[n]
    /\ \A c1, c2 \in Callers : c1 # c2 /\ Activating(c1) /\ Activating(c2) => DbOf(c1) # DbOf(c2)
    /\ \A c \in Callers : Activating(c) => ~db[DbOf(c)].closed

\* A pool that is open is found in activeDatabases under its name, so that
\* DeleteDatabase and DbEngine.Close can close it; hence no name ever has two
\* open pools.  (One deleter: see the README for two.)
OpenPoolsReachable ==
    \A d \in Databases : db[d].pool = "open" => active[db[d].name] = d

\* dbengine.go:326-327: DeleteDatabase "blocks until all connections are
\* returned to pool": no connection of the pool it closed is out at the DROP.
DropQuiesced ==
    \A c \in Callers : At(c, "drop") /\ DbOf(c) # None =>
        db[DbOf(c)].pool = "closed" /\ ~Connected(DbOf(c)) /\ ~Reloading(DbOf(c))

\* Every operation ends: no waiter is forgotten by the one that activates, the
\* creation lock is passed on, Close gets its connections back.
OperationsEnd ==
    \A c \in Callers : ~At(c, "idle") ~> (At(c, "idle") \/ Crashed)

\* dbengine.go:340-341: GetActiveDatabase "ensures it is activated (eg it has a
\* connection pool and its cached information)".
ReturnedIsActivated ==
    \A c \in Callers : At(c, "use") => db[DbOf(c)].pool # "nil" /\ db[DbOf(c)].info

\* README.md:969: "If a specific database is not found or not active, the reload
\* request for that database is ignored".
ReloadIgnoresInactive == ~Crashed
=============================================================================
