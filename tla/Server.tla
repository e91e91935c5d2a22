------------------------------- MODULE Server -------------------------------
(***************************************************************************)
(* The life of the server (server/server.go): Run, the handler of signals, *)
(* Shutdown and what it stops: the HTTP server, the watcher of the         *)
(* sessions (authn/sessions.go), the notification listener and the pool    *)
(* (DbEngine.Close), while requests are served. net/http, pgxpool and the  *)
(* signals of the runtime are external. The requests share one session key *)
(* and one database that is active; what else sessions do is in Sessions.  *)
(***************************************************************************)
EXTENDS NotificationListener

CONSTANTS
    Requests,   \* goroutines that serve one request after another
    Hanging,    \* those whose handler may never end
    Sessions,   \* Session objects (a bound)
    Conns,      \* connections of the pool
    Configs,    \* the configurations to start in, see Config
    MaxSignals, \* a bound: signals sent
    None, Dead  \* no connection, and one that was released and is still attached

(* SessionMode # "none", TransactionMode # "none", DrainDelay # 0; those    *)
(* that call Shutdown, and those whose context has a deadline (for signals  *)
(* GracefulShutdownTimeout # 0); and two bounds: the signals, and what else *)
(* happens, requests or changes of the schema.                              *)
Callers == {"signal", "embedder"}
Config == [sessions : BOOLEAN, tx : BOOLEAN, drain : BOOLEAN, callers : SUBSET Callers, deadline : SUBSET Callers,
           signals : SUBSET {"TERM", "INT"}, clients : SUBSET Requests, changes : BOOLEAN]

ASSUME ServerAssumption ==
    /\ Hanging \subseteq Requests
    /\ Configs \subseteq Config
    /\ {None, Dead} \cap (Sessions \cup Conns \cup Callers) = {}

VARIABLES
    config,     \* the configuration, fixed at startup
    signals,    \* how many were sent, and the one in the channel
    stopper,    \* stopHandler's pc
    caller,     \* the two that call Shutdown: their pcs
    once,       \* who runs the body of Shutdown
    server,     \* the flags and channels, and HTTP's state; expired: the window has ended too early
    closer,     \* DbEngine.Close's pc
    exit,       \* how the process ended
    session,    \* the Session objects: their connection, inUse, and in the list or not
    watcher,    \* the watcher: pc, and the sessions that it still visits
    out,        \* the connections that are acquired
    req         \* the requests: pc, session and connection

svars == <<config, signals, stopper, caller, once, server, closer, exit, session, watcher, out, req>>
vars  == <<svars, lvars>>

Idle      == [pc |-> "idle", session |-> None, conn |-> None]
NoSession == [conn |-> None, inUse |-> FALSE, listed |-> FALSE]

Init ==
    /\ config \in Configs
    /\ signals = [sent |-> 0, pending |-> "none"]
    /\ stopper = "wait"
    /\ caller = [c \in Callers |-> "idle"] /\ once = None
    /\ server = [started |-> FALSE, http |-> "new", draining |-> FALSE, shutdown |-> FALSE,
                 completed |-> FALSE, expired |-> FALSE]
    /\ closer = "idle" /\ exit = "none"
    /\ session = [s \in Sessions |-> NoSession]
    /\ watcher = [pc |-> IF config.sessions THEN "watch" ELSE "over", todo |-> {}]
    /\ out = {}
    /\ req = [r \in Requests |-> Idle]
    /\ ListenerInit /\ errors = IF config.changes THEN 0 ELSE MaxErrors

-----------------------------------------------------------------------------
(* Run: the listener, and after it the end of the process. *)
Start ==
    /\ ~server.started
    /\ \/ server' = [server EXCEPT !.started = TRUE, !.http = IF @ = "new" THEN "open" ELSE @]
          /\ UNCHANGED exit
       \/ exit' = "failed" /\ UNCHANGED server      \* the address is in use
    /\ UNCHANGED <<signals, stopper, caller, once, closer, session, watcher, out, req, lvars>>

Finish ==
    /\ server.started /\ server.http = "closed" /\ server.completed
    /\ exit' = "stopped"
    /\ UNCHANGED <<signals, stopper, caller, once, server, closer, session, watcher, out, req, lvars>>

(* Signals: the channel holds one; when nobody reads it any more, the next  *)
(* signal ends the process.                                                 *)
Signal(s) ==
    /\ signals.sent < MaxSignals
    /\ signals' = [sent |-> signals.sent + 1, pending |-> IF signals.pending = "none" THEN s ELSE signals.pending]
    /\ exit' = IF stopper = "done" THEN "killed" ELSE exit
    /\ UNCHANGED <<stopper, caller, once, server, closer, session, watcher, out, req, lvars>>

Ready == ~server.draining       \* what /ready answers

Taken == [signals EXCEPT !.pending = "none"]

(* stopHandler: the first signal; the delay, which a second one cuts short; *)
(* Shutdown in a goroutine; a second signal forces the end unless Shutdown  *)
(* has returned.                                                            *)
StopHandler ==
    /\ \/ /\ stopper = "wait" /\ signals.pending # "none"
          /\ server' = [server EXCEPT !.draining = TRUE]
          /\ stopper' = IF config.drain /\ signals.pending = "TERM" THEN "drain" ELSE "shutdown"
          /\ signals' = Taken /\ UNCHANGED <<caller, exit>>
       \/ /\ stopper = "drain"
          /\ stopper' = "shutdown" /\ signals' \in {signals, Taken}
          /\ UNCHANGED <<server, caller, exit>>
       \/ /\ stopper = "shutdown"
          /\ caller' = [caller EXCEPT !["signal"] = "once"]
          /\ stopper' = "select" /\ UNCHANGED <<signals, server, exit>>
       \/ /\ stopper = "select" /\ caller["signal"] = "returned"
          /\ stopper' = "done" /\ signals' \in {signals, Taken} /\ UNCHANGED <<server, caller, exit>>
       \/ /\ stopper = "select" /\ caller["signal"] # "returned" /\ signals.pending # "none"
          /\ exit' = "forced" /\ signals' = Taken /\ UNCHANGED <<stopper, server, caller>>
    /\ UNCHANGED <<once, closer, session, watcher, out, req, lvars>>

Embedder ==
    /\ "embedder" \in config.callers /\ caller["embedder"] = "idle"
    /\ caller' = [caller EXCEPT !["embedder"] = "once"]
    /\ UNCHANGED <<signals, stopper, once, server, closer, exit, session, watcher, out, req, lvars>>

-----------------------------------------------------------------------------
(* Shutdown. HTTP.Shutdown closes the listener, and waits for the requests  *)
(* or the deadline; and a mutant: it does not wait.                         *)
Active(r)    == req[r].pc # "idle"
NeverWaits(c) == TRUE
HTTPDone(c)  == (\A r \in Requests : ~Active(r)) \/ c \in config.deadline

(* What the closing of the pools is bounded by; and a mutant: the deadline  *)
(* alone.                                                                   *)
DeadlineOnly(c) == closer = "done" \/ c \in config.deadline
Backstop(c)     == TRUE

Shutdown(c) ==
    /\ \/ /\ caller[c] = "once" /\ once = None
          /\ once' = c /\ caller' = [caller EXCEPT ![c] = "http"]
          /\ server' = [server EXCEPT !.draining = TRUE]
          /\ UNCHANGED closer
       \/ /\ caller[c] = "once" /\ once # None /\ once # c /\ caller[once] = "returned"
          /\ caller' = [caller EXCEPT ![c] = "returned"]
          /\ UNCHANGED <<once, server, closer>>
       \/ /\ caller[c] = "http" /\ server.http # "closed"
          /\ server' = [server EXCEPT !.http = "closed"]
          /\ UNCHANGED <<once, caller, closer>>
       \/ /\ caller[c] = "http" /\ server.http = "closed" /\ HTTPDone(c)
          /\ server' = [server EXCEPT !.shutdown = TRUE, !.expired = c \in config.deadline /\ \E r \in Requests : Active(r)]
          /\ caller' = [caller EXCEPT ![c] = "close"] /\ closer' = "stop"
          /\ UNCHANGED once
       \/ /\ caller[c] = "close" /\ (closer = "done" \/ Backstop(c))
          /\ server' = [server EXCEPT !.completed = TRUE]
          /\ caller' = [caller EXCEPT ![c] = "end"]
          /\ UNCHANGED <<once, closer>>
       \/ /\ caller[c] = "end"
          /\ caller' = [caller EXCEPT ![c] = "returned"]
          /\ UNCHANGED <<once, server, closer>>
    /\ UNCHANGED <<signals, stopper, exit, session, watcher, out, req, lvars>>

(* DbEngine.Close: the listener's Stop, which waits for its loop; then the  *)
(* pool, whose Close waits for the connections that are acquired.           *)
Open == closer \in {"idle", "stop", "stopping"}
Close ==
    /\ \/ closer = "stop" /\ closer' = "stopping" /\ Stop
       \/ closer = "stopping" /\ Stopped /\ closer' = "pool" /\ UNCHANGED lvars
       \/ closer = "pool" /\ out = {} /\ closer' = "done" /\ UNCHANGED lvars
    /\ UNCHANGED <<signals, stopper, caller, once, server, exit, session, watcher, out, req>>

-----------------------------------------------------------------------------
(* Requests: acquireSession, the handler, releaseSession.                   *)
Free   == {s \in Sessions : session[s].listed /\ ~session[s].inUse}
Unused == {s \in Sessions : /\ ~session[s].listed
                            /\ \A r \in Requests : req[r].session # s}
Mine(r) == session[req[r].session]

Accept(r) ==
    /\ r \in config.clients /\ req[r].pc = "idle" /\ server.http = "open"
    /\ req' = [req EXCEPT ![r].pc = "session"]
    /\ UNCHANGED <<signals, stopper, caller, once, server, closer, exit, session, watcher, out, lvars>>

(* getSession. A new session is written into the map, which the watcher's  *)
(* shutdown reads without the mutex: the runtime may end the process.       *)
GetSession(r) ==
    /\ req[r].pc = "session"
    /\ Free \cup Unused # {}
    /\ LET s == CHOOSE s \in Free \cup Unused : Free # {} => s \in Free
       IN  /\ session' = [session EXCEPT ![s] = [conn |-> IF @.listed THEN @.conn ELSE None, inUse |-> TRUE, listed |-> config.sessions]]
           /\ req' = [req EXCEPT ![r].pc = "acquire", ![r].session = s]
    /\ exit' \in IF Free = {} /\ watcher.pc = "walk" THEN {exit, "crashed"} ELSE {exit}
    /\ UNCHANGED <<signals, stopper, caller, once, server, closer, watcher, out, lvars>>

(* acquireSession: the connection that the session has, or one of the pool; *)
(* then PrepareConnection. When one of them fails, the session stays in     *)
(* use, with what it has; a connection the watcher has released panics.     *)
Refused(r, c) ==
    /\ req' = [req EXCEPT ![r] = Idle]
    /\ session' = [session EXCEPT ![req[r].session].conn = IF config.sessions THEN c ELSE None]
Prepared(r, c) ==
    /\ req' = [req EXCEPT ![r].pc = "handle", ![r].conn = c]
    /\ session' = [session EXCEPT ![req[r].session].conn = c]

Acquire(r) ==
    /\ req[r].pc = "acquire"
    /\ \/ Mine(r).conn \in out /\ Prepared(r, Mine(r).conn) /\ UNCHANGED out
       \/ Mine(r).conn # None /\ Refused(r, Mine(r).conn) /\ UNCHANGED out
       \/ /\ Mine(r).conn = None /\ Open
          /\ \E c \in Conns \ out : out' = out \cup {c} /\ (Prepared(r, c) \/ Refused(r, c))
       \/ Mine(r).conn = None /\ ~Open /\ Refused(r, None) /\ UNCHANGED out
    /\ UNCHANGED <<signals, stopper, caller, once, server, closer, exit, watcher, lvars>>

(* The handler ends. releaseSession: without sessions, or with a            *)
(* transaction, the connection is released, and then detached. The          *)
(* watcher's walk may come between any two of these steps: of a connection  *)
(* that it has released HasTX panics, unless the statement was under way.   *)
HandlerEnds(r) ==
    /\ req[r].pc = "handle"
    /\ req' = [req EXCEPT ![r].pc = "release"]
    /\ UNCHANGED <<signals, stopper, caller, once, server, closer, exit, session, watcher, out, lvars>>

Release(r) ==
    /\ req[r].pc = "release"
    /\ \/ /\ Mine(r).conn # Dead /\ (~config.sessions \/ config.tx)
          /\ out' = out \ {Mine(r).conn}
          /\ session' = [session EXCEPT ![req[r].session].conn = Dead]
          /\ req' = [req EXCEPT ![r].pc = IF config.sessions THEN "detach" ELSE "leave", ![r].conn = None]
       \/ /\ Mine(r).conn # Dead /\ config.sessions /\ ~config.tx
          /\ req' = [req EXCEPT ![r].pc = "leave"]
          /\ UNCHANGED <<session, out>>
       \/ /\ Mine(r).conn = Dead
          /\ req' = [req EXCEPT ![r] = Idle]
          /\ UNCHANGED <<session, out>>
       \/ /\ Mine(r).conn = Dead /\ config.tx
          /\ req' = [req EXCEPT ![r].pc = "detach", ![r].conn = None]
          /\ UNCHANGED <<session, out>>
    /\ UNCHANGED <<signals, stopper, caller, once, server, closer, exit, watcher, lvars>>

(* session.DbConn = nil; and a mutant: it keeps what it has released. *)
Keeps(m)    == m
Detached(m) == [m EXCEPT !.conn = None]

Detach(r) ==
    /\ req[r].pc = "detach"
    /\ session' = [session EXCEPT ![req[r].session] = Detached(@)]
    /\ req' = [req EXCEPT ![r].pc = "leave"]
    /\ UNCHANGED <<signals, stopper, caller, once, server, closer, exit, watcher, out, lvars>>

(* leaveSession, which panics when the watcher has taken the list away: the *)
(* session stays in use, and nobody has it.                                 *)
Leave(r) ==
    /\ req[r].pc = "leave"
    /\ session' = IF Mine(r).listed THEN [session EXCEPT ![req[r].session].inUse = FALSE] ELSE session
    /\ req' = [req EXCEPT ![r] = Idle]
    /\ UNCHANGED <<signals, stopper, caller, once, server, closer, exit, watcher, out, lvars>>

Serve(r) == GetSession(r) \/ Acquire(r) \/ Release(r) \/ Detach(r) \/ Leave(r)

-----------------------------------------------------------------------------
(* sessionWatcher: a pass over the sessions that nobody uses; and, when the *)
(* channel is closed, one without the mutex over all of them, which leaves  *)
(* DbConn as it is: released. Where a request has released the connection   *)
(* and not yet detached it, the walk's statement panics, in a goroutine     *)
(* where nobody recovers it.                                                *)
Given(c) == IF c = None THEN None ELSE Dead

Watch ==
    /\ \/ /\ watcher.pc = "watch"
          /\ \E s \in Free :
                \/ /\ session[s].conn # None
                   /\ out' = out \ {session[s].conn} /\ session' = [session EXCEPT ![s].conn = None]
                \/ /\ session[s].conn = None
                   /\ session' = [session EXCEPT ![s] = NoSession] /\ UNCHANGED out
          /\ UNCHANGED <<watcher, exit>>
       \/ /\ watcher.pc = "watch" /\ server.shutdown
          /\ watcher' = [pc |-> "walk", todo |-> {s \in Sessions : session[s].listed}]
          /\ UNCHANGED <<session, out, exit>>
       \/ /\ watcher.pc = "walk"
          /\ \E s \in watcher.todo :
                /\ out' = out \ {session[s].conn}
                /\ session' = [t \in Sessions |-> IF t = s THEN [session[t] EXCEPT !.listed = FALSE, !.conn = Given(@)]
                                                 ELSE IF t \in watcher.todo THEN [session[t] EXCEPT !.listed = FALSE]
                                                 ELSE session[t]]
                /\ watcher' = [watcher EXCEPT !.todo = @ \ {s}]
                /\ exit' = IF config.tx /\ session[s].conn = Dead THEN "crashed" ELSE exit
       \/ /\ watcher.pc = "walk" /\ watcher.todo = {}
          /\ watcher' = [watcher EXCEPT !.pc = "over"] /\ UNCHANGED <<session, out, exit>>
    /\ UNCHANGED <<signals, stopper, caller, once, server, closer, req, lvars>>

Listener == Listen(Open) /\ UNCHANGED svars
External == config.changes /\ (\E d \in Databases : Change(d)) /\ UNCHANGED svars

Step ==
    \/ Start \/ Finish \/ StopHandler \/ Embedder \/ Close \/ Watch
    \/ \E s \in config.signals : Signal(s)
    \/ \E c \in Callers : Shutdown(c)
    \/ \E r \in Requests : Accept(r) \/ Serve(r) \/ HandlerEnds(r)

Next == exit = "none" /\ ((Step /\ UNCHANGED config) \/ Listener \/ External)

Running(A) == exit = "none" /\ UNCHANGED config /\ A
Spec     == Init /\ [][Next]_vars
LiveSpec ==
    /\ Spec
    /\ WF_vars(Running(Start)) /\ WF_vars(Running(Finish)) /\ WF_vars(Running(StopHandler))
    /\ WF_vars(Running(Close)) /\ WF_vars(Running(Watch)) /\ WF_vars(exit = "none" /\ Listener)
    /\ \A c \in Callers : WF_vars(Running(Shutdown(c)))
    /\ \A r \in Requests : WF_vars(Running(Serve(r)))
    /\ \A r \in Requests \ Hanging : WF_vars(Running(HandlerEnds(r)))

-----------------------------------------------------------------------------
(* What is acquired is what the sessions and the requests have, and what is *)
(* lost; a session that nobody uses has a connection of its own, if any     *)
(* (acquireSession, releaseSession, watch).                                 *)
TypeOK ==
    /\ \A s \in Sessions : session[s].conn \in out \cup {None, Dead}
    /\ \A s, t \in Sessions : s # t /\ session[s].conn \in out => session[s].conn # session[t].conn
    /\ config.tx => \A s \in Free : session[s].conn = None
    /\ loop.todo \subseteq Databases /\ missed \subseteq Databases /\ errors <= MaxErrors

(* The parts stop in an order in which none needs what is gone: readiness   *)
(* before HTTP, the requests before the watcher takes their sessions and    *)
(* before the pool, the listener's loop before the pool; what the pool then *)
(* waits for is given back, unless it was lost without sessions. All of it  *)
(* before a clean exit. Only when the graceful window has ended too early   *)
(* are there requests that lose their connection (Shutdown, DbEngine.Close, *)
(* sessionWatcher).                                                         *)
InOrder ==
    /\ server.http = "closed" => ~Ready
    /\ watcher.pc = "walk" => server.shutdown
    /\ server.shutdown /\ ~server.expired => \A r \in Requests : ~Active(r)
    /\ ~server.expired => \A r \in Requests : req[r].pc \in {"handle", "release"} =>
                              /\ req[r].conn \in out /\ Mine(r).conn = req[r].conn
                              /\ Open
    /\ closer \in {"pool", "done"} => LoopIn("over")
    /\ closer = "pool" /\ ~server.expired /\ config.sessions /\ watcher.pc = "over" => out = {}
    /\ exit = "stopped" => server.shutdown /\ \E c \in Callers : caller[c] \in {"end", "returned"}

(* A shutdown ends the process, whoever calls it, unless it has no deadline *)
(* and a request never ends: its handler hangs, or it waits for connections *)
(* that were lost (stopHandler, Shutdown).                                  *)
Lost  == out \ ({session[s].conn : s \in Free} \cup {req[r].conn : r \in Requests})
Stuck == /\ once # None /\ caller[once] = "http" /\ once \notin config.deadline
         /\ \E r \in Requests : \/ r \in Hanging /\ req[r].pc = "handle"
                                \/ Lost # {} /\ req[r].pc = "acquire"
AllStops == <>[]~Stuck => (stopper # "wait" \/ once # None ~> exit # "none")

(* The caches follow the schemas while the server runs. *)
CachesFollow == \A d \in Databases :
    info[d] # schema[d] ~> info[d] = schema[d] \/ d \in missed \/ canceled \/ exit # "none"
=============================================================================
