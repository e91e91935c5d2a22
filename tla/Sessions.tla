------------------------------ MODULE Sessions ------------------------------
(***************************************************************************)
(* The life of a request between the auth middleware and the connection    *)
(* pool: authn/sessions.go (SessionManager and its watcher),               *)
(* authn/middleware.go (acquireSession, releaseSession), database/conn.go  *)
(* (PrepareConnection, ReleaseConnection).  Request goroutines and the     *)
(* watcher goroutine interleave; getSession, leaveSession and a whole pass *)
(* of the watcher exclude each other by the manager's mutex, every other   *)
(* step of a request runs without it.                                      *)
(*                                                                         *)
(* One database, hence one pgxpool of at most Conns connections, shared by *)
(* the keys (a key stands for a token and a database name).  pgx, pgxpool  *)
(* and PostgreSQL are external: PoolReturn, Exec and the connection record *)
(* say what this code relies on.                                           *)
(***************************************************************************)
EXTENDS SessionOrder

CONSTANTS
    Requests,   \* request goroutines, each serving one request after another
    Keys,       \* session keys
    Roleless,   \* the keys whose claims carry no role
    SessionIds, \* Session objects (a bound: enough of them must be given)
    Conns,      \* connections of the pool: MaxPoolConnections of them
    Configs,    \* the configurations to start in, see Config
    Events,     \* what may happen beside the regular course, see AllEvents
    NoRole, NoSession, NoConn

TransactionModes == {"none", "commit", "commit-allow-override",
                     "rollback", "rollback-allow-override"}

\* SessionMode # "none", and Database.TransactionMode.
Config == [sessions : BOOLEAN, tx : TransactionModes]

AllEvents ==
    {"reject",          \* the token or the database name is refused
     "no connection",   \* pool.Acquire fails: canceled, or cannot connect
     "prepare",         \* BEGIN, SET ROLE or set_config fails
     "panic",           \* the handler panics
     "cancel",          \* the client goes away: the context is canceled
     "death",           \* the database closes a connection
     "nested commit",   \* a handler runs Begin ... Commit of its own
     "nested rollback", \* a handler runs Begin ... Rollback of its own
     "dangling"}        \* a handler's own ROLLBACK cannot be sent

ASSUME ConstantsAssumption ==
    /\ Roleless \subseteq Keys
    /\ Configs \subseteq Config
    /\ Events \subseteq AllEvents
    /\ NoSession \notin SessionIds
    /\ NoConn \notin Conns
    /\ NoRole \notin Keys

VARIABLES
    config,     \* the configuration, fixed at startup
    slots,      \* SessionManager.slots: the list of every key, as a sequence
    inUse,      \* Session.inUse: the sessions whose flag is set
    dbConn,     \* Session.DbConn
    age,        \* how long ago Session.LastUsedAt is, see Tick
    conn,       \* the connections: in the pool or not, and their session state
    req,        \* the requests: pc and local variables
    watcher     \* the watcher's pass: the keys to visit, the walk's rest, and what
                \* it does to the first session of the rest

vars == <<config, slots, inUse, dbConn, age, conn, req, watcher>>
-----------------------------------------------------------------------------
(* Connections.  st: absent (never made, or destroyed), idle in the pool,  *)
(* or out.  live: open, broken (the database closed it, the client has not *)
(* noticed), closed (noticed).  role: what SET ROLE left; saved: the role  *)
(* that a rollback of the open transaction restores.                       *)

ConnState == [st : {"absent", "idle", "out"}, live : {"open", "broken", "closed"},
              role : Keys \cup {NoRole}, saved : Keys \cup {NoRole}, tx : BOOLEAN]

Absent == [st |-> "absent", live |-> "open", role |-> NoRole, saved |-> NoRole, tx |-> FALSE]

Connected == [Absent EXCEPT !.st = "out"]
Closed(c) == [c EXCEPT !.live = "closed"]
Begun(c) == IF c.tx THEN c ELSE [c EXCEPT !.tx = TRUE, !.saved = c.role]
Committed(c) == [c EXCEPT !.tx = FALSE, !.saved = NoRole]
RolledBack(c) == [c EXCEPT !.tx = FALSE, !.saved = NoRole,
                           !.role = IF c.tx THEN c.saved ELSE c.role]

\* A statement that leaves c as d, under a context that may be canceled: then it
\* is not sent, or the connection is closed while it runs.
Exec(c, d, canceled) ==
    (IF c.live = "open" THEN {d} ELSE {Closed(c)})
        \cup (IF canceled THEN {c, Closed(c)} ELSE {})

\* Conn.Release of pgxpool: a connection that is closed or still in a
\* transaction is destroyed, any other is idle again with the role it has.
PoolReturn(c) ==
    IF c.live = "closed" \/ c.tx THEN Absent ELSE [c EXCEPT !.st = "idle"]

\* HasTX
HasTX(c) == c.tx

RoleOf(k) == IF k \in Roleless THEN NoRole ELSE k

\* The statements that may end the transaction of a request, by its status and
\* by the Prefer header where the mode lets it override.
Ends(status) ==
    IF status = "error" \/ config.tx = "rollback" THEN {"ROLLBACK"}
    ELSE IF config.tx = "commit" THEN {"COMMIT"}
    ELSE {"COMMIT", "ROLLBACK"}

\* ReleaseConnection: what becomes of connection c.  SET ROLE NONE is executed
\* only without transactions, and in any case the connection is released.
ReleaseConnection(c, status, resetRole, canceled) ==
    LET executed ==
            IF config.tx # "none"
            THEN UNION {Exec(c, IF e = "COMMIT" THEN Committed(c) ELSE RolledBack(c), canceled)
                          : e \in Ends(status)}
            ELSE IF resetRole
            THEN Exec(c, [c EXCEPT !.role = NoRole], canceled)
            ELSE {c}
    IN  {PoolReturn(d) : d \in executed}
-----------------------------------------------------------------------------
(* Requests.                                                               *)

Idle == [pc |-> "idle", key |-> NoRole, session |-> NoSession,
         newAcquire |-> FALSE, status |-> "ok"]

At(r, label) == req[r].pc = label
Goto(r, label) == req' = [req EXCEPT ![r].pc = label]
Begin(r, label, k, s) ==
    req' = [req EXCEPT ![r] = [pc |-> label, key |-> k, session |-> s,
                               newAcquire |-> FALSE, status |-> "ok"]]
Finish(r) == req' = [req EXCEPT ![r] = Idle]

\* The session of the request, the connection of a session.
Mine(r) == req[r].session
ConnOf(r) == dbConn[Mine(r)]

Listed == UNION {Members(slots[k]) : k \in Keys}

\* Session objects that nobody refers to: those `new` may return.
Unused == {s \in SessionIds : /\ s \notin Listed
                              /\ dbConn[s] = NoConn
                              /\ \A r \in Requests : Mine(r) # s}

WatcherOff == [on |-> FALSE, keys |-> {}, rest |-> <<>>, at |-> "walk"]

\* sync.Mutex of the manager: held from the start to the end of a pass of the
\* watcher; getSession and leaveSession hold it for one step.  A mutant: they do
\* not take it.
NoMutex == TRUE
MutexFree == ~watcher.on

Init ==
    /\ config \in Configs
    /\ slots = [k \in Keys |-> <<>>]
    /\ inUse = {}
    /\ dbConn = [s \in SessionIds |-> NoConn]
    /\ age = [s \in SessionIds |-> 0]
    /\ conn = [c \in Conns |-> Absent]
    /\ req = [r \in Requests |-> Idle]
    /\ watcher = WatcherOff

\* newSession
NewSession(k, s) ==
    /\ inUse' = inUse \cup {s}
    /\ age' = [age EXCEPT ![s] = 0]
    /\ slots' = [slots EXCEPT ![k] = Append(@, s)]

\* getSession, the manager is disabled: a session that nobody manages.
GetUnmanaged(r) ==
    /\ At(r, "idle") /\ ~config.sessions
    /\ \E k \in Keys, s \in Unused :
         Begin(r, "authenticate", k, s)
    /\ UNCHANGED <<config, slots, inUse, dbConn, age, conn, watcher>>

\* getSession, the list is empty or its head is in use.
GetNew(r) ==
    /\ At(r, "idle") /\ config.sessions /\ MutexFree
    /\ \E k \in Keys, s \in Unused :
         /\ slots[k] # <<>> => slots[k][1] \in inUse
         /\ NewSession(k, s)
         /\ Begin(r, "authenticate", k, s)
    /\ UNCHANGED <<config, dbConn, conn, watcher>>

\* frontToBack in the list of a key, and a mutant: it is forgotten.
HeadStays(k) == slots
HeadToBack(k) == [slots EXCEPT ![k] = FrontToBack(@)]

\* getSession, the head is free: taken and moved to the back.
GetFree(r) ==
    /\ At(r, "idle") /\ config.sessions /\ MutexFree
    /\ \E k \in Keys :
         /\ slots[k] # <<>> /\ slots[k][1] \notin inUse
         /\ inUse' = inUse \cup {slots[k][1]}
         /\ slots' = HeadToBack(k)
         /\ Begin(r, "connect", k, slots[k][1])
    /\ UNCHANGED <<config, dbConn, age, conn, watcher>>

\* acquireSession, a new session: token and database are accepted.
Authenticate(r) ==
    /\ At(r, "authenticate")
    /\ Goto(r, "connect")
    /\ UNCHANGED <<config, slots, inUse, dbConn, age, conn, watcher>>

\* acquireSession returns 401 or 404.  Nothing is done to the session.
Reject(r) ==
    /\ At(r, "authenticate") /\ "reject" \in Events
    /\ Finish(r)
    /\ UNCHANGED <<config, slots, inUse, dbConn, age, conn, watcher>>

\* acquireSession, the session has a connection that is not known to be closed.
Reconnect(r) ==
    /\ At(r, "connect")
    /\ ConnOf(r) # NoConn /\ conn[ConnOf(r)].live # "closed"
    /\ Goto(r, "prepare")
    /\ UNCHANGED <<config, slots, inUse, dbConn, age, conn, watcher>>

\* session.DbConn = nil, and a mutant: it is forgotten.
StillAttached(s) == dbConn
Detached(s) == [dbConn EXCEPT ![s] = NoConn]

\* acquireSession, no connection or a closed one, which is given back.
Disconnect(r) ==
    /\ At(r, "connect")
    /\ ConnOf(r) # NoConn => conn[ConnOf(r)].live = "closed"
    /\ dbConn' = Detached(Mine(r))
    /\ conn' = [c \in Conns |-> IF c = ConnOf(r) THEN PoolReturn(conn[c]) ELSE conn[c]]
    /\ Goto(r, "acquire")
    /\ UNCHANGED <<config, slots, inUse, age, watcher>>

\* newAcquire is set, and a mutant: it is not.
Unmarked(r) == [req EXCEPT ![r].pc = "prepare"]
Acquired(r) == [req EXCEPT ![r].pc = "prepare", ![r].newAcquire = TRUE]

\* AcquireConnection: an idle connection, or a new one below the pool's limit.
Acquire(r) ==
    /\ At(r, "acquire")
    /\ \E c \in Conns :
         /\ conn[c].st # "out"
         /\ conn' = [conn EXCEPT ![c] = IF @.st = "idle" THEN [@ EXCEPT !.st = "out"]
                                        ELSE Connected]
         /\ dbConn' = [dbConn EXCEPT ![Mine(r)] = c]
    /\ req' = Acquired(r)
    /\ UNCHANGED <<config, slots, inUse, age, watcher>>

\* acquireSession returns 500: no connection.
AcquireFails(r) ==
    /\ At(r, "acquire") /\ "no connection" \in Events
    /\ Finish(r)
    /\ UNCHANGED <<config, slots, inUse, dbConn, age, conn, watcher>>

\* PrepareConnection: what it executes, and what that makes of the connection.
BeginsTX == config.tx # "none"
SetsRole(r) == req[r].newAcquire /\ RoleOf(req[r].key) # NoRole
Opened(c) == IF BeginsTX THEN Begun(c) ELSE c
Bound(r, c) == IF SetsRole(r) THEN [c EXCEPT !.role = RoleOf(req[r].key)] ELSE c

Prepare(r) ==
    /\ At(r, "prepare")
    /\ BeginsTX \/ SetsRole(r) => conn[ConnOf(r)].live = "open"
    /\ conn' = [conn EXCEPT ![ConnOf(r)] = Bound(r, Opened(@))]
    /\ Goto(r, "handle")
    /\ UNCHANGED <<config, slots, inUse, dbConn, age, watcher>>

\* acquireSession returns 500: BEGIN, SET ROLE or set_config has failed.
\* Neither the session nor its connection is given back.
PrepareFails(r) ==
    /\ At(r, "prepare")
    /\ BeginsTX \/ SetsRole(r)
    /\ \/ /\ conn[ConnOf(r)].live # "open"
          /\ conn' = [conn EXCEPT ![ConnOf(r)] = Closed(@)]
       \/ /\ "prepare" \in Events /\ conn[ConnOf(r)].live = "open"
          /\ \E d \in {conn[ConnOf(r)]} \cup
                     (IF SetsRole(r) THEN {Opened(conn[ConnOf(r)]), Bound(r, Opened(conn[ConnOf(r)]))}
                      ELSE {}) :
               conn' = [conn EXCEPT ![ConnOf(r)] = d]
    /\ Finish(r)
    /\ UNCHANGED <<config, slots, inUse, dbConn, age, watcher>>

\* What a handler may leave: its status and the connection.
Handled(c) ==
    IF c.live # "open"
    THEN {<<"ok", c>>, <<"error", Closed(c)>>}
    ELSE {<<"ok", c>>, <<"error", c>>}
      \cup (IF "nested commit" \in Events THEN {<<"ok", Committed(c)>>, <<"error", Committed(c)>>}
          ELSE {})
      \cup (IF "nested rollback" \in Events THEN {<<"error", RolledBack(c)>>} ELSE {})
      \cup (IF "dangling" \in Events /\ ~c.tx THEN {<<"error", Begun(c)>>} ELSE {})

Handle(r) ==
    /\ At(r, "handle")
    /\ \E h \in Handled(conn[ConnOf(r)]) :
         /\ conn' = [conn EXCEPT ![ConnOf(r)] = h[2]]
         /\ req' = [req EXCEPT ![r].pc = "release", ![r].status = h[1]]
    /\ UNCHANGED <<config, slots, inUse, dbConn, age, watcher>>

\* The panic is recovered above the middleware: releaseSession is not reached.
HandlePanics(r) ==
    /\ At(r, "handle") /\ "panic" \in Events
    /\ Finish(r)
    /\ UNCHANGED <<config, slots, inUse, dbConn, age, conn, watcher>>

\* Mutant of ReleasesConn: the session keeps its connection even in a transaction.
NeverReleasesConn(r) == ~config.sessions

\* releaseSession, the connection goes back to the pool.
ReleasesConn(r) == ~config.sessions \/ HasTX(conn[ConnOf(r)])

Release(r) ==
    /\ At(r, "release") /\ ReleasesConn(r)
    /\ \E d \in ReleaseConnection(conn[ConnOf(r)], req[r].status, ~config.sessions,
                                  "cancel" \in Events) :
         conn' = [conn EXCEPT ![ConnOf(r)] = d]
    /\ dbConn' = Detached(Mine(r))
    /\ Goto(r, "leave")
    /\ UNCHANGED <<config, slots, inUse, age, watcher>>

\* releaseSession, the session keeps its connection.
Keep(r) ==
    /\ At(r, "release") /\ ~ReleasesConn(r)
    /\ Goto(r, "leave")
    /\ UNCHANGED <<config, slots, inUse, dbConn, age, conn, watcher>>

\* toFront in the list of the request, and a mutant: it is forgotten.
StaysBehind(r) == slots
ComesFirst(r) == [slots EXCEPT ![req[r].key] = ToFront(@, Mine(r))]

\* leaveSession
Leave(r) ==
    /\ At(r, "leave")
    /\ IF config.sessions
       THEN /\ MutexFree
            /\ slots' = ComesFirst(r)
            /\ age' = [age EXCEPT ![Mine(r)] = 0]
            /\ inUse' = inUse \ {Mine(r)}
       ELSE UNCHANGED <<slots, age, inUse>>
    /\ Finish(r)
    /\ UNCHANGED <<config, dbConn, conn, watcher>>
-----------------------------------------------------------------------------
(* The watcher goroutine, one pass of watch.                               *)

\* Time spent since LastUsedAt, by the thresholds it has passed.
PastConnTimeout == 1
PastSessionTimeout == 2

\* The ticker fires: the time is read and the mutex taken.
WatchStart ==
    /\ config.sessions /\ ~watcher.on
    /\ watcher' = [WatcherOff EXCEPT !.on = TRUE, !.keys = {k \in Keys : slots[k] # <<>>}]
    /\ UNCHANGED <<config, slots, inUse, dbConn, age, conn, req>>

\* The next list of the map, in no particular order.
WatchList ==
    /\ watcher.on /\ watcher.rest = <<>>
    /\ \E k \in watcher.keys :
         watcher' = [watcher EXCEPT !.keys = @ \ {k}, !.rest = slots[k]]
    /\ UNCHANGED <<config, slots, inUse, dbConn, age, conn, req>>

\* The walk goes on with the next session.
Onward == [watcher EXCEPT !.rest = Tail(@), !.at = "walk"]
Doing(what) == watcher.at = what /\ watcher.rest # <<>>

\* The two conditions of watch, with a mutant each: a session is deleted with its
\* connection, a connection is given back only within the session's timeout.
ExpiredWithConn(s) == s \notin inUse /\ age[s] >= PastSessionTimeout
ConnExpiredInTime(s) == s \notin inUse /\ age[s] = PastConnTimeout /\ dbConn[s] # NoConn
Expired(s) == s \notin inUse /\ age[s] >= PastSessionTimeout /\ dbConn[s] = NoConn
ConnExpired(s) == s \notin inUse /\ age[s] >= PastConnTimeout /\ dbConn[s] # NoConn

\* The next session of the walk: in use or not old enough, it is left alone.
WatchSkip ==
    /\ Doing("walk")
    /\ ~Expired(Head(watcher.rest)) /\ ~ConnExpired(Head(watcher.rest))
    /\ watcher' = Onward
    /\ UNCHANGED <<config, slots, inUse, dbConn, age, conn, req>>

\* Or it is found expired, or its connection.  What is decided here is done in
\* later steps, and nothing but the mutex keeps it true until then.
WatchDecide ==
    /\ Doing("walk")
    /\ \/ /\ Expired(Head(watcher.rest))
          /\ watcher' = [watcher EXCEPT !.at = "delete"]
       \/ /\ ConnExpired(Head(watcher.rest))
          /\ watcher' = [watcher EXCEPT !.at = "release"]
    /\ UNCHANGED <<config, slots, inUse, dbConn, age, conn, req>>

\* Its connection goes back to the pool, where others may take it at once.
WatchRelease ==
    /\ Doing("release")
    /\ LET c == dbConn[Head(watcher.rest)]
       IN  \E d \in ReleaseConnection(conn[c], "ok", TRUE, FALSE) :
               conn' = [conn EXCEPT ![c] = d]
    /\ watcher' = [watcher EXCEPT !.at = "detach"]
    /\ UNCHANGED <<config, slots, inUse, dbConn, age, req>>

\* Only now the session, which stays, forgets it.
WatchDetach ==
    /\ Doing("detach")
    /\ dbConn' = Detached(Head(watcher.rest))
    /\ watcher' = Onward
    /\ UNCHANGED <<config, slots, inUse, age, conn, req>>

\* The session is deleted; a list that becomes empty leaves the map.
WatchDelete ==
    /\ Doing("delete")
    /\ LET s == Head(watcher.rest)
       IN  /\ slots' = [k \in Keys |-> IF s \in Members(slots[k]) THEN Without(slots[k], s)
                                       ELSE slots[k]]
           /\ age' = [age EXCEPT ![s] = 0]
    /\ watcher' = Onward
    /\ UNCHANGED <<config, inUse, dbConn, conn, req>>

WatchEnd ==
    /\ watcher.on /\ watcher.rest = <<>> /\ watcher.keys = {}
    /\ watcher' = WatcherOff
    /\ UNCHANGED <<config, slots, inUse, dbConn, age, conn, req>>
-----------------------------------------------------------------------------
(* The environment.                                                        *)

\* Time passes.  A pass reads the clock once, before it takes the mutex: what it
\* sees of the ages does not change while it runs.
Tick ==
    /\ ~watcher.on
    /\ age' = [s \in SessionIds |->
                 IF s \in Listed /\ age[s] < PastSessionTimeout THEN age[s] + 1 ELSE age[s]]
    /\ UNCHANGED <<config, slots, inUse, dbConn, conn, req, watcher>>

\* The database closes a connection.
ConnDies(c) ==
    /\ "death" \in Events
    /\ conn[c].st # "absent" /\ conn[c].live = "open"
    /\ conn' = [conn EXCEPT ![c].live = "broken"]
    /\ UNCHANGED <<config, slots, inUse, dbConn, age, req, watcher>>

\* The pool closes an idle connection (health check, lifetime, idle time).
PoolDrops(c) ==
    /\ conn[c].st = "idle"
    /\ conn' = [conn EXCEPT ![c] = Absent]
    /\ UNCHANGED <<config, slots, inUse, dbConn, age, req, watcher>>
-----------------------------------------------------------------------------
Get(r) == GetUnmanaged(r) \/ GetNew(r) \/ GetFree(r)

AcquireSession(r) ==
    \/ Authenticate(r) \/ Reject(r)
    \/ Reconnect(r) \/ Disconnect(r)
    \/ Acquire(r) \/ AcquireFails(r)
    \/ Prepare(r) \/ PrepareFails(r)

ReleaseSession(r) == Release(r) \/ Keep(r) \/ Leave(r)

Request(r) ==
    Get(r) \/ AcquireSession(r) \/ Handle(r) \/ HandlePanics(r) \/ ReleaseSession(r)

Watch ==
    \/ WatchStart \/ WatchList \/ WatchSkip \/ WatchDecide
    \/ WatchRelease \/ WatchDetach \/ WatchDelete \/ WatchEnd

Environment == Tick \/ \E c \in Conns : ConnDies(c) \/ PoolDrops(c)

Next == (\E r \in Requests : Request(r)) \/ Watch \/ Environment

Spec == Init /\ [][Next]_vars
-----------------------------------------------------------------------------
(* Fairness.  The goroutine of a request goes on (a handler returns, the     *)
(* database answers); pgxpool serves its waiters in order and sync.Mutex     *)
(* does not starve a locker, so both are strong; the watcher's goroutine     *)
(* goes on; time passes between two passes, which a ticker spaces.           *)

Fairness ==
    /\ \A r \in Requests :
         /\ WF_vars(\/ Authenticate(r) \/ Reconnect(r) \/ Disconnect(r)
                    \/ Prepare(r) \/ PrepareFails(r) \/ Handle(r) \/ ReleaseSession(r))
         /\ SF_vars(Acquire(r))
         /\ SF_vars(Leave(r))
    /\ WF_vars(Watch)
    /\ SF_vars(Tick)

FairSpec == Spec /\ Fairness
-----------------------------------------------------------------------------
TypeOK ==
    /\ config \in Configs
    /\ slots \in [Keys -> Seq(SessionIds)]
    /\ \A k \in Keys : Injective(slots[k])
    /\ inUse \subseteq SessionIds
    /\ dbConn \in [SessionIds -> Conns \cup {NoConn}]
    /\ age \in [SessionIds -> 0 .. PastSessionTimeout]
    /\ conn \in [Conns -> ConnState]
    /\ req \in [Requests -> [pc : {"idle", "authenticate", "connect", "acquire",
                                   "prepare", "handle", "release", "leave"},
                             key : Keys \cup {NoRole},
                             session : SessionIds \cup {NoSession},
                             newAcquire : BOOLEAN, status : {"ok", "error"}]]
    /\ watcher \in [on : BOOLEAN, keys : SUBSET Keys, rest : Seq(SessionIds),
                    at : {"walk", "delete", "release", "detach"}]

\* getSession looks at the head only (sessions.go:210-215): in every list the
\* free sessions precede the ones in use, also behind sessions that failed
\* requests never gave back, so no session is made while one is free.
FreeFirst == \A k \in Keys : FreePrefix(slots[k], inUse)

\* The connection a session really has: from the watcher's release to its detach
\* (sessions.go:151-155) DbConn still names one that is back in the pool.
Own(s) == IF Doing("detach") /\ s = Head(watcher.rest) THEN NoConn ELSE dbConn[s]

\* A session serves one request at a time and a connection one session at a
\* time: whatever the order of middleware and watcher, the connection on which a
\* request runs is out of the pool and belongs to its session and no other
\* (middleware.go:73-86, sessions.go:146-155).
Working(r) == req[r].pc \in {"prepare", "handle", "release"}
Exclusive ==
    /\ \A r1, r2 \in Requests : r1 # r2 /\ Mine(r1) # NoSession => Mine(r1) # Mine(r2)
    /\ \A s1, s2 \in SessionIds : s1 # s2 /\ Own(s1) # NoConn => Own(s1) # Own(s2)
    /\ \A s \in SessionIds : Own(s) # NoConn => conn[Own(s)].st = "out"
    /\ \A r \in Requests : Working(r) => ConnOf(r) # NoConn /\ ConnOf(r) = Own(Mine(r))

\* While sessions are managed, a connection that is out of the pool belongs to a
\* session that the watcher's walk can still meet (sessions.go:140 deletes a
\* session only without a connection).  It may be a session that a failed request
\* left in use, and then the walk meets it and leaves it alone: that such a
\* connection comes back is not said here but in ReleasedInTheEnd, which fails.
NoLostConn ==
    config.sessions =>
        \A c \in Conns : conn[c].st = "out" => \E s \in Listed : Own(s) = c

\* PrepareConnection sets the role only on a new acquire (conn.go:44-45): a
\* request whose claims have a role never runs under another one, whatever role
\* earlier users of the pooled or kept connection left on it.
RoleMatches ==
    \A r \in Requests :
        At(r, "handle") /\ RoleOf(req[r].key) # NoRole => conn[ConnOf(r)].role = RoleOf(req[r].key)

\* PrepareConnection gets a connection with no transaction open, and so its BEGIN
\* opens one (conn.go:36-38): whatever COMMIT or ROLLBACK of an earlier request was
\* not sent, and whatever its handler left, no handler runs inside a transaction
\* of another request, and one runs in a transaction exactly if the mode asks it.
OwnTransaction ==
    \A r \in Requests :
        /\ At(r, "prepare") => ~conn[ConnOf(r)].tx
        /\ At(r, "handle") => conn[ConnOf(r)].tx = (config.tx # "none")

\* sessions.go:134-136: a session that the watcher has found not in use "cannot be
\* used now because we hold a lock".  Between that finding and the last of what
\* follows from it no request takes the session: no step of the watcher runs a
\* statement on or gives back the connection of a session in use, detaches it, or
\* takes such a session out of its list.
WatcherHandsOff ==
    [][watcher' # watcher =>
         \A s \in inUse : /\ dbConn'[s] = dbConn[s]
                          /\ dbConn[s] # NoConn => conn'[dbConn[s]] = conn[dbConn[s]]
                          /\ s \in Listed => s \in Listed']_vars

\* Every list behaves as SessionQueue, and so keeps the promise of SessionPool.
Slot(k) == INSTANCE SessionQueue
               WITH queue <- slots[k], inUse <- inUse \cap Members(slots[k]),
                    Sessions <- SessionIds
SlotsSpec ==
    /\ \A k \in Keys : Slot(k)!Init
    /\ [][\A k \in Keys : Slot(k)!Next \/ UNCHANGED Slot(k)!vars]_vars

\* middleware.go:103, sessions.go:138-157: a session that is free is used again
\* or, with its connection given back first, deleted: neither stays for ever.
FreeSessionRetired ==
    \A s \in SessionIds : (s \in Listed \ inUse) ~> (s \notin Listed \ inUse)

\* Where a request gives its connection back at its end, a request that waits for
\* the pool gets a connection in the end, however few there are, unless every
\* connection stays with a request that failed and never gave it back.
Stuck(c) ==
    \E s \in SessionIds : /\ dbConn[s] = c /\ s \notin Listed \ inUse
                          /\ \A r \in Requests : Mine(r) # s
WaiterServed ==
    \A r \in Requests :
        (At(r, "acquire") /\ (config.sessions => config.tx # "none"))
            ~> (~At(r, "acquire") \/ \A c \in Conns : Stuck(c))

\* middleware.go:100-103: a connection that is not released at the end of the
\* request "will be released in the sessionmanager".
ReleasedInTheEnd ==
    \A s \in SessionIds :
        (dbConn[s] # NoConn /\ \A r \in Requests : Mine(r) # s)
            ~> (dbConn[s] = NoConn \/ \E r \in Requests : Mine(r) = s)
=============================================================================
