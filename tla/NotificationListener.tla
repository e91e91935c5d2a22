------------------------ MODULE NotificationListener ------------------------
(***************************************************************************)
(* The notification listener (database/notification_listener.go) and the   *)
(* reloads of the schema caches it runs (database/dbengine.go,              *)
(* database/database.go). One goroutine, the loop, connects, LISTENs,       *)
(* waits, and reloads; after an error it starts again. PostgreSQL is        *)
(* external: a NOTIFY reaches the connections that LISTEN when it commits,  *)
(* and no other.                                                            *)
(***************************************************************************)
EXTENDS Naturals, Sequences, FiniteSets

CONSTANTS
    Databases,      \* the active databases
    MaxChanges,     \* a bound: changes of schemas
    MaxErrors       \* a bound: errors of connections and queries

ASSUME ListenerAssumption == MaxChanges \in Nat /\ MaxErrors \in Nat

VARIABLES
    schema,     \* the version of each database's schema
    info,       \* the version that its cache is of (Database.info)
    missed,     \* databases whose last change nobody was told of, or whose reload failed
    loop,       \* the goroutine: pc; the reload's databases to do; the version it has read
    queue,      \* notifications that are sent and not yet read: sets of databases
    canceled,   \* the listener's context is canceled
    errors      \* how many errors there were

lvars == <<schema, info, missed, loop, queue, canceled, errors>>

LoopIn(l)  == loop.pc = l
Goto(l)    == loop' = [pc |-> l, todo |-> {}, read |-> <<>>]
Listening  == loop.pc \in {"wait", "reload", "store"}
Told       == UNION ({queue[i] : i \in DOMAIN queue} \cup {loop.todo})
Error      == errors < MaxErrors /\ errors' = errors + 1

ListenerInit ==
    /\ schema = [d \in Databases |-> 0] /\ info = schema
    /\ missed = {} /\ queue = <<>> /\ canceled = FALSE
    /\ loop = [pc |-> "connect", todo |-> {}, read |-> <<>>]

(* Somebody changes a schema, and tells of one database or of all of them.  *)
Change(d) ==
    /\ schema[d] < MaxChanges
    /\ schema' = [schema EXCEPT ![d] = @ + 1]
    /\ \E ds \in {{d}, Databases} :
          IF Listening THEN queue' = Append(queue, ds) /\ missed' = missed \ ds
          ELSE missed' = missed \cup {d} /\ UNCHANGED queue
    /\ UNCHANGED <<info, loop, canceled, errors>>

(* connectAndListen: the connection, then LISTEN.                           *)
Connect ==
    /\ \/ LoopIn("connect") /\ Goto("listen")
       \/ LoopIn("listen") /\ Goto("wait")
    /\ ~canceled
    /\ UNCHANGED <<schema, info, missed, queue, canceled, errors>>

(* The connection ends: what was sent on it is lost, and the loop pauses;   *)
(* when the context is canceled, it is over.                                *)
Break ==
    /\ loop.pc \in {"connect", "listen", "wait"}
    /\ \/ canceled /\ Goto("over") /\ UNCHANGED errors
       \/ ~canceled /\ Error /\ Goto("pause")
    /\ missed' = missed \cup Told /\ queue' = <<>>
    /\ UNCHANGED <<schema, info, canceled>>

(* ReconnectDelay, or the end.                                              *)
Reconnect ==
    /\ LoopIn("pause")
    /\ Goto(IF canceled THEN "over" ELSE "connect")
    /\ UNCHANGED <<schema, info, missed, queue, canceled, errors>>

(* handleNotification; ReloadDatabaseSchema, ReloadAllSchemas. *)
Handle ==
    /\ LoopIn("wait") /\ queue # <<>>
    /\ loop' = [loop EXCEPT !.pc = "reload", !.todo = Head(queue)]
    /\ queue' = Tail(queue)
    /\ UNCHANGED <<schema, info, missed, canceled, errors>>

(* The databases after one whose reload failed: the walk goes on; and a     *)
(* mutant: it ends.                                                         *)
EndsWalk(todo, d) == {}
AfterFailed(todo, d) == todo \ {d}
Rest(todo)        == [pc |-> IF todo = {} THEN "wait" ELSE "reload", todo |-> todo, read |-> <<>>]

(* ReloadSchemaCache of the next database: a connection of its pool and the *)
(* queries of NewSchemaInfo; then the new cache replaces the old one.       *)
Reload(open) ==
    /\ LoopIn("reload")
    /\ \E d \in loop.todo :
          \/ /\ open /\ ~canceled
             /\ loop' = [pc |-> "store", todo |-> loop.todo, read |-> <<d, schema[d]>>]
             /\ UNCHANGED <<missed, errors>>
          \/ /\ \/ Error
                \/ (canceled \/ ~open) /\ UNCHANGED errors
             /\ missed' = missed \cup {d}
             /\ loop' = Rest(AfterFailed(loop.todo, d))
    /\ UNCHANGED <<schema, info, queue, canceled>>

Store ==
    /\ LoopIn("store")
    /\ info' = [info EXCEPT ![loop.read[1]] = loop.read[2]]
    /\ missed' = IF loop.read[2] = schema[loop.read[1]] THEN missed \ {loop.read[1]} ELSE missed
    /\ loop' = Rest(loop.todo \ {loop.read[1]})
    /\ UNCHANGED <<schema, queue, canceled, errors>>

Listen(open) == Connect \/ Break \/ Reconnect \/ Handle \/ Reload(open) \/ Store

(* Stop: cancel, and wait for the loop (its caller does).                   *)
Stop == canceled' = TRUE /\ UNCHANGED <<schema, info, missed, loop, queue, errors>>
Stopped == LoopIn("over")

=============================================================================
