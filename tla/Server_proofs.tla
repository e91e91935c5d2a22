--------------------------- MODULE Server_proofs ---------------------------
(***************************************************************************)
(* Theorems about the life of the server (Server, NotificationListener):   *)
(* what its parts have and the order in which they stop, for every number  *)
(* of requests, sessions, connections and databases, and every             *)
(* configuration.                                                          *)
(***************************************************************************)
EXTENDS Server, SequenceTheorems, TLAPS

-----------------------------------------------------------------------------
(* What the parts are.                                                     *)
Stages  == {"idle", "once", "http", "close", "end", "returned"}
Flags   == [started : BOOLEAN, http : {"new", "open", "closed"}, draining : BOOLEAN, shutdown : BOOLEAN,
            completed : BOOLEAN, expired : BOOLEAN]
Session == [conn : Conns \cup {None, Dead}, inUse : BOOLEAN, listed : BOOLEAN]
Request == [pc : {"idle", "session", "acquire", "handle", "release", "detach", "leave"}, session : Sessions \cup {None}, conn : Conns \cup {None}]

Typed ==
    /\ config \in Config
    /\ stopper \in {"wait", "drain", "shutdown", "select", "done"}
    /\ caller \in [Callers -> Stages] /\ once \in Callers \cup {None}
    /\ server \in Flags
    /\ closer \in {"idle", "stop", "stopping", "pool", "done"}
    /\ session \in [Sessions -> Session]
    /\ watcher \in [pc : {"watch", "walk", "over"}, todo : SUBSET Sessions]
    /\ out \in SUBSET Conns
    /\ req \in [Requests -> Request]

\* The listener: it reads and reloads databases only.
Loop == [pc : {"connect", "listen", "wait", "pause", "reload", "store", "over"},
         todo : SUBSET Databases, read : {<<>>} \cup (Databases \X Nat)]
ListenerTyped ==
    /\ schema \in [Databases -> Nat]
    /\ loop \in Loop
    /\ LoopIn("store") => loop.read \in Databases \X Nat
    /\ queue \in Seq(SUBSET Databases)
    /\ missed \in SUBSET Databases
    /\ errors \in 0..MaxErrors

\* Only one caller runs Shutdown, and only once; what it has done by now.
Stopping ==
    /\ stopper \in {"wait", "drain", "shutdown"} => caller["signal"] = "idle"
    /\ \A c \in Callers : /\ caller[c] \in {"http", "close", "end"} => once = c
                          /\ caller[c] = "http" => server.draining /\ ~server.shutdown
                          /\ caller[c] \in {"close", "end"} => server.shutdown
    /\ once = None => ~server.shutdown
    /\ server.http = "closed" => server.draining
    /\ server.shutdown => server.http = "closed"
    /\ server.expired => server.shutdown
    /\ closer # "idle" => server.shutdown
    /\ closer \in {"pool", "done"} => LoopIn("over")
    /\ server.completed \/ exit = "stopped" => server.shutdown /\ \E c \in Callers : caller[c] \in {"end", "returned"}
    /\ watcher.pc = "walk" \/ (config.sessions /\ watcher.pc = "over") => server.shutdown

\* A request that has a session has it for itself, in use, and in the list as
\* long as the watcher only watches.
Using ==
    /\ \A r \in Requests : /\ req[r].pc \in {"idle", "session"} <=> req[r].session = None
                           /\ req[r].session # None => session[req[r].session].inUse
                           /\ req[r].session # None /\ config.sessions /\ watcher.pc = "watch" =>
                                 session[req[r].session].listed
    /\ \A r, t \in Requests : req[r].session # None /\ req[r].session = req[t].session => r = t

\* A connection that is acquired is that of one session at most.
Connected ==
    /\ \A s \in Sessions : session[s].conn \in out \cup {None, Dead}
    /\ \A s, t \in Sessions : s # t /\ session[s].conn \in out => session[s].conn # session[t].conn
    /\ config.tx => \A s \in Free : session[s].conn = None

\* Before the graceful window ends too early: with the requests at an end the
\* watcher gives everything back; and none is lost.
Orderly ==
    ~server.expired =>
        /\ server.shutdown => \A r \in Requests : req[r].pc = "idle"
        /\ \A r \in Requests : req[r].pc \in {"handle", "release"} =>
              req[r].conn \in out /\ session[req[r].session].conn = req[r].conn
        /\ config.sessions => \A c \in out : \E s \in Sessions :
              /\ session[s].conn = c /\ watcher.pc # "over"
              /\ watcher.pc = "watch" => session[s].listed
              /\ watcher.pc = "walk" => s \in watcher.todo

\* On its way out a request has nothing attached that is still acquired: it
\* has released it, or the walk has.
Detaching ==
    /\ \A s \in Sessions : session[s].listed => config.sessions
    /\ \A r \in Requests : req[r].pc = "detach" => session[req[r].session].conn \in {None, Dead}
    /\ config.tx /\ config.sessions => \A r \in Requests : req[r].pc = "leave" => session[req[r].session].conn = None

IInv == Typed /\ ListenerTyped /\ Stopping /\ Using /\ Connected /\ Orderly /\ Detaching

-----------------------------------------------------------------------------
(* The listener.                                                           *)

\* A goroutine's place is one of the places it has.
LEMMA GotoLemma ==
    ASSUME ListenerTyped, NEW l \in {"connect", "listen", "wait", "pause", "over"}, Goto(l)
    PROVE  /\ loop' \in Loop
           /\ loop'.pc = l
BY DEF Goto, Loop

\* What is left of a walk over the databases.
LEMMA RestLemma ==
    ASSUME NEW D \in SUBSET Databases
    PROVE  /\ Rest(D) \in Loop
           /\ Rest(D).pc \in {"wait", "reload"}
BY DEF Rest, Loop

\* What was sent and is not read yet tells of databases.
LEMMA ToldLemma ==
    ASSUME ListenerTyped
    PROVE  Told \subseteq Databases
<1>1. \A i \in DOMAIN queue : queue[i] \in SUBSET Databases
  BY DEF ListenerTyped
<1>2. loop.todo \in SUBSET Databases
  BY DEF ListenerTyped, Loop
<1>3. QED
  BY <1>1, <1>2 DEF Told

\* The loop keeps to the databases, and does not come back when it is over
\* (connectAndListen, handleNotification, ReloadSchemaCache).
LEMMA ListenLemma ==
    ASSUME ListenerTyped, NEW open \in BOOLEAN, Listen(open)
    PROVE  ListenerTyped' /\ (LoopIn("over") => LoopIn("over")')
<1>0. /\ schema \in [Databases -> Nat] /\ queue \in Seq(SUBSET Databases) /\ missed \in SUBSET Databases
      /\ errors \in 0..MaxErrors /\ MaxErrors \in Nat
      /\ loop \in Loop
  BY ListenerAssumption DEF ListenerTyped
<1>1. Error => errors' \in 0..MaxErrors
  BY <1>0 DEF Error
<1>2. CASE Connect
  <2>1. \E l \in {"listen", "wait"} : Goto(l)
    BY <1>2 DEF Connect
  <2>2. QED
    BY <1>0, <1>2, <2>1, GotoLemma DEF Connect, ListenerTyped, LoopIn
<1>3. CASE Break
  <2>1. \E l \in {"over", "pause"} : Goto(l)
    BY <1>3 DEF Break
  <2>2. missed' \in SUBSET Databases /\ queue' \in Seq(SUBSET Databases) /\ errors' \in 0..MaxErrors
    BY <1>0, <1>1, <1>3, ToldLemma, EmptySeq DEF Break
  <2>3. QED
    BY <1>0, <1>3, <2>1, <2>2, GotoLemma DEF Break, ListenerTyped, LoopIn
<1>4. CASE Reconnect
  <2>1. \E l \in {"over", "connect"} : Goto(l)
    BY <1>4 DEF Reconnect
  <2>2. QED
    BY <1>0, <1>4, <2>1, GotoLemma DEF Reconnect, ListenerTyped, LoopIn
<1>5. CASE Handle
  <2>1. Head(queue) \in SUBSET Databases /\ Tail(queue) \in Seq(SUBSET Databases)
    BY <1>0, <1>5, HeadTailProperties DEF Handle
  <2>2. /\ loop' \in Loop
        /\ loop'.pc = "reload"
    BY <1>0, <1>5, <2>1 DEF Handle, Loop
  <2>3. QED
    BY <1>0, <1>5, <2>1, <2>2 DEF Handle, ListenerTyped, LoopIn
<1>6. CASE Reload(open)
  <2>1. PICK d \in loop.todo :
          \/ /\ loop' = [pc |-> "store", todo |-> loop.todo, read |-> <<d, schema[d]>>]
             /\ UNCHANGED <<missed, errors>>
          \/ /\ Error \/ UNCHANGED errors
             /\ missed' = missed \cup {d}
             /\ loop' = Rest(AfterFailed(loop.todo, d))
    BY <1>6 DEF Reload
  <2>2. d \in Databases /\ schema[d] \in Nat
    BY <1>0 DEF Loop
  <2>3. CASE loop' = [pc |-> "store", todo |-> loop.todo, read |-> <<d, schema[d]>>] /\ UNCHANGED <<missed, errors>>
    <3>1. /\ loop' \in Loop
          /\ loop'.read \in Databases \X Nat
      BY <1>0, <2>2, <2>3 DEF Loop
    <3>2. QED
      BY <1>0, <1>6, <2>3, <3>1 DEF Reload, ListenerTyped, LoopIn
  <2>4. CASE (Error \/ UNCHANGED errors) /\ missed' = missed \cup {d} /\ loop' = Rest(AfterFailed(loop.todo, d))
    <3>1. AfterFailed(loop.todo, d) \in SUBSET Databases
      BY <1>0 DEF AfterFailed, Loop
    <3>2. missed' \in SUBSET Databases /\ errors' \in 0..MaxErrors
      BY <1>0, <1>1, <2>2, <2>4
    <3>3. QED
      BY <1>0, <1>6, <2>4, <3>1, <3>2, RestLemma DEF Reload, ListenerTyped, LoopIn
  <2>5. QED
    BY <2>1, <2>3, <2>4
<1>7. CASE Store
  <2>1. loop.todo \ {loop.read[1]} \in SUBSET Databases /\ missed' \in SUBSET Databases
    BY <1>0, <1>7 DEF Store, Loop, ListenerTyped, LoopIn
  <2>2. QED
    BY <1>0, <1>7, <2>1, RestLemma DEF Store, ListenerTyped, LoopIn
<1>8. QED
  BY <1>2, <1>3, <1>4, <1>5, <1>6, <1>7 DEF Listen

\* A change tells of databases (a NOTIFY).
LEMMA ChangeLemma ==
    ASSUME ListenerTyped, NEW d \in Databases, Change(d)
    PROVE  ListenerTyped' /\ (LoopIn("over") => LoopIn("over")')
<1>1. PICK ds \in {{d}, Databases} :
        IF Listening THEN queue' = Append(queue, ds) /\ missed' = missed \ ds
        ELSE missed' = missed \cup {d} /\ UNCHANGED queue
  BY DEF Change
<1>2. ds \in SUBSET Databases
  BY <1>1
<1>3. queue' \in Seq(SUBSET Databases)
  BY <1>1, <1>2, AppendProperties DEF ListenerTyped
<1>4. missed' \in SUBSET Databases
  BY <1>1 DEF ListenerTyped
<1>5. schema' \in [Databases -> Nat]
  BY DEF Change, ListenerTyped
<1>6. loop' = loop /\ errors' = errors
  BY DEF Change
<1>7. QED
  BY <1>3, <1>4, <1>5, <1>6 DEF ListenerTyped, LoopIn

-----------------------------------------------------------------------------
(* The end of the server: the steps that touch no session.                 *)

\* What a step that touches no session has to show.
LEMMA LifeLemma ==
    ASSUME IInv, UNCHANGED <<config, session, watcher, out, req>>,
           stopper' \in {"wait", "drain", "shutdown", "select", "done"},
           caller' \in [Callers -> Stages], once' \in Callers \cup {None}, server' \in Flags,
           closer' \in {"idle", "stop", "stopping", "pool", "done"},
           ListenerTyped', Stopping',
           server'.shutdown = server.shutdown, server'.expired = server.expired
    PROVE  IInv'
<1>1. Typed'
  BY DEF IInv, Typed
<1>2. Using'
  BY DEF IInv, Using
<1>3. Connected'
  BY DEF IInv, Connected, Free
<1>4. Orderly'
  BY DEF IInv, Orderly
<1>5. Detaching'
  BY DEF IInv, Detaching
<1>6. QED
  BY <1>1, <1>2, <1>3, <1>4, <1>5 DEF IInv

\* The listener is not touched.
LEMMA ListenerStays ==
    ASSUME IInv, UNCHANGED lvars
    PROVE  ListenerTyped' /\ (LoopIn("over")' <=> LoopIn("over"))
BY DEF IInv, ListenerTyped, lvars, LoopIn

\* Run starts to serve, or fails.
LEMMA StartIInv ==
    ASSUME IInv, exit = "none", Start, UNCHANGED config
    PROVE  IInv'
<1>0. /\ Typed /\ Stopping /\ UNCHANGED <<stopper, caller, once, closer, session, watcher, out, req, lvars>>
      /\ ListenerTyped' /\ (LoopIn("over")' <=> LoopIn("over"))
  BY ListenerStays DEF IInv, Start
<1>1. CASE /\ server' = [server EXCEPT !.started = TRUE, !.http = IF @ = "new" THEN "open" ELSE @]
           /\ UNCHANGED exit
  <2> DEFINE t == TRUE
             h == IF server.http = "new" THEN "open" ELSE server.http
  <2>1. server' = [server EXCEPT !.started = t, !.http = h] /\ t \in BOOLEAN
    BY <1>1
  <2>2. h \in {"new", "open", "closed"} /\ (h = "closed" <=> server.http = "closed")
    BY <1>0 DEF Typed, Flags
  <2> HIDE DEF t, h
  <2>3. /\ server' \in Flags /\ server'.http = h /\ server'.draining = server.draining
        /\ server'.shutdown = server.shutdown /\ server'.completed = server.completed /\ server'.expired = server.expired
    BY <1>0, <2>1, <2>2 DEF Typed, Flags
  <2>4. Stopping'
    BY <1>0, <1>1, <2>2, <2>3 DEF Stopping
  <2>5. QED
    BY <1>0, <2>3, <2>4, LifeLemma DEF Typed
<1>2. CASE exit' = "failed" /\ UNCHANGED server
  <2>1. Stopping'
    BY <1>0, <1>2 DEF Stopping
  <2>2. QED
    BY <1>0, <1>2, <2>1, LifeLemma DEF Typed
<1>3. QED
  BY <1>1, <1>2 DEF Start

\* Run returns, and the process ends.
LEMMA FinishIInv ==
    ASSUME IInv, Finish, UNCHANGED config
    PROVE  IInv'
<1>0. /\ Typed /\ Stopping /\ UNCHANGED <<stopper, caller, once, server, closer, session, watcher, out, req, lvars>>
      /\ ListenerTyped' /\ (LoopIn("over")' <=> LoopIn("over")) /\ server.completed
  BY ListenerStays DEF IInv, Finish
<1>1. Stopping'
  BY <1>0 DEF Stopping
<1>2. QED
  BY <1>0, <1>1, LifeLemma DEF Typed

\* A signal is sent.
LEMMA SignalIInv ==
    ASSUME IInv, exit = "none", NEW s, Signal(s), UNCHANGED config
    PROVE  IInv'
<1>0. /\ Typed /\ Stopping /\ UNCHANGED <<stopper, caller, once, server, closer, session, watcher, out, req, lvars>>
      /\ ListenerTyped' /\ (LoopIn("over")' <=> LoopIn("over")) /\ exit' # "stopped"
  BY ListenerStays DEF IInv, Signal
<1>1. Stopping'
  BY <1>0 DEF Stopping
<1>2. QED
  BY <1>0, <1>1, LifeLemma DEF Typed

\* A caller of Shutdown goes from one stage to another that nothing is said of.
LEMMA CallLemma ==
    ASSUME IInv, NEW c \in Callers, caller[c] = "idle", caller' = [caller EXCEPT ![c] = "once"],
           c = "signal" => stopper' \notin {"wait", "drain", "shutdown"},
           c # "signal" => stopper' = stopper,
           UNCHANGED <<config, once, server, closer, exit, watcher, loop>>
    PROVE  Stopping' /\ caller' \in [Callers -> Stages]
<1>0. Stopping /\ caller \in [Callers -> Stages] /\ LoopIn("over")' = LoopIn("over")
  BY DEF IInv, Typed, LoopIn
<1>1. /\ caller' \in [Callers -> Stages] /\ caller'[c] = "once"
      /\ \A d \in Callers : d # c => caller'[d] = caller[d]
  BY <1>0 DEF Stages
<1>2. stopper' \in {"wait", "drain", "shutdown"} => caller'["signal"] = "idle"
  BY <1>0, <1>1 DEF Stopping, Callers
<1>3. \A d \in Callers : caller'[d] \in {"http", "close", "end", "returned"} <=> caller[d] \in {"http", "close", "end", "returned"}
  BY <1>1
<1>4. \A d \in Callers : caller'[d] \in {"http", "close", "end", "returned"} => caller'[d] = caller[d]
  BY <1>1
<1>5. \A d \in Callers : caller[d] \in {"http", "close", "end", "returned"} => caller'[d] = caller[d]
  BY <1>1
<1>6. QED
  BY <1>0, <1>1, <1>2, <1>4, <1>5 DEF Stopping

\* The handler of signals (stopHandler).
LEMMA StopHandlerIInv ==
    ASSUME IInv, exit = "none", StopHandler, UNCHANGED config
    PROVE  IInv'
<1>0. /\ Typed /\ Stopping /\ UNCHANGED <<once, closer, session, watcher, out, req, lvars>> /\ UNCHANGED loop
      /\ ListenerTyped' /\ (LoopIn("over")' <=> LoopIn("over"))
  BY ListenerStays DEF IInv, StopHandler, lvars
<1>1. CASE /\ stopper = "wait" /\ server' = [server EXCEPT !.draining = TRUE]
           /\ stopper' = IF config.drain /\ signals.pending = "TERM" THEN "drain" ELSE "shutdown"
           /\ UNCHANGED <<caller, exit>>
  <2> DEFINE t == TRUE
  <2>1. server' = [server EXCEPT !.draining = t] /\ t \in BOOLEAN /\ t
    BY <1>1
  <2> HIDE DEF t
  <2>2. /\ server' \in Flags /\ server'.draining /\ server'.http = server.http
        /\ server'.shutdown = server.shutdown /\ server'.completed = server.completed /\ server'.expired = server.expired
    BY <1>0, <2>1 DEF Typed, Flags
  <2>3. stopper' \in {"drain", "shutdown"}
    BY <1>1
  <2>4. Stopping'
    BY <1>0, <1>1, <2>2, <2>3 DEF Stopping
  <2>5. QED
    BY <1>0, <1>1, <2>2, <2>3, <2>4, LifeLemma DEF Typed
<1>2. CASE stopper = "drain" /\ stopper' = "shutdown" /\ UNCHANGED <<server, caller, exit>>
  <2>1. Stopping'
    BY <1>0, <1>2 DEF Stopping
  <2>2. QED
    BY <1>0, <1>2, <2>1, LifeLemma DEF Typed
<1>3. CASE /\ stopper = "shutdown" /\ stopper' = "select" /\ UNCHANGED <<server, exit>>
           /\ caller' = [caller EXCEPT !["signal"] = "once"]
  <2>1. caller["signal"] = "idle" /\ "signal" \in Callers
    BY <1>0, <1>3 DEF Stopping, Callers
  <2>2. Stopping' /\ caller' \in [Callers -> Stages]
    BY <1>0, <1>3, <2>1, CallLemma
  <2>3. QED
    BY <1>0, <1>3, <2>2, LifeLemma DEF Typed
<1>4. CASE stopper = "select" /\ stopper' = "done" /\ UNCHANGED <<server, caller, exit>>
  <2>1. Stopping'
    BY <1>0, <1>4 DEF Stopping
  <2>2. QED
    BY <1>0, <1>4, <2>1, LifeLemma DEF Typed
<1>5. CASE exit' = "forced" /\ UNCHANGED <<stopper, server, caller>>
  <2>1. Stopping'
    BY <1>0, <1>5 DEF Stopping
  <2>2. QED
    BY <1>0, <1>5, <2>1, LifeLemma DEF Typed
<1>6. QED
  BY <1>1, <1>2, <1>3, <1>4, <1>5 DEF StopHandler

\* The program that embeds the server stops it.
LEMMA EmbedderIInv ==
    ASSUME IInv, Embedder, UNCHANGED config
    PROVE  IInv'
<1>0. /\ Typed /\ UNCHANGED <<stopper, once, server, closer, exit, session, watcher, out, req, lvars>> /\ UNCHANGED loop
      /\ ListenerTyped'
  BY ListenerStays DEF IInv, Embedder, lvars
<1>1. /\ "embedder" \in Callers /\ caller["embedder"] = "idle"
      /\ caller' = [caller EXCEPT !["embedder"] = "once"]
  BY DEF Embedder, Callers
<1>2. Stopping' /\ caller' \in [Callers -> Stages]
  BY <1>0, <1>1, CallLemma
<1>3. QED
  BY <1>0, <1>2, LifeLemma DEF Typed

\* A step of a caller of Shutdown, to the stage x.
LEMMA StageLemma ==
    ASSUME Typed, NEW c \in Callers, NEW x \in Stages, caller' = [caller EXCEPT ![c] = x]
    PROVE  /\ caller' \in [Callers -> Stages] /\ caller'[c] = x
           /\ \A d \in Callers : d # c => caller'[d] = caller[d]
BY DEF Typed

\* A caller of Shutdown (Shutdown).
LEMMA ShutdownIInv ==
    ASSUME IInv, exit = "none", NEW c \in Callers, Shutdown(c), UNCHANGED config
    PROVE  IInv'
<1>0. /\ Typed /\ Stopping /\ UNCHANGED <<stopper, exit, session, watcher, out, req, lvars>>
      /\ ListenerTyped' /\ (LoopIn("over")' <=> LoopIn("over"))
  BY ListenerStays DEF IInv, Shutdown
<1>1. CASE /\ caller[c] = "once" /\ once = None
           /\ once' = c /\ caller' = [caller EXCEPT ![c] = "http"]
           /\ server' = [server EXCEPT !.draining = TRUE] /\ UNCHANGED closer
  <2> DEFINE t == TRUE
             x == "http"
  <2>1. /\ server' = [server EXCEPT !.draining = t] /\ t \in BOOLEAN /\ t
        /\ caller' = [caller EXCEPT ![c] = x] /\ x \in Stages
    BY <1>1 DEF Stages
  <2> HIDE DEF t
  <2>2. /\ server' \in Flags /\ server'.draining /\ server'.http = server.http
        /\ server'.shutdown = server.shutdown /\ server'.completed = server.completed /\ server'.expired = server.expired
    BY <1>0, <2>1 DEF Typed, Flags
  <2>3. /\ caller' \in [Callers -> Stages] /\ caller'[c] = x
        /\ \A d \in Callers : d # c => caller'[d] = caller[d]
    BY <1>0, <2>1, StageLemma
  <2>4. ~server.shutdown /\ c # None /\ \A d \in Callers : caller[d] \notin {"http", "close", "end"}
    BY <1>0, <1>1, ServerAssumption DEF Stopping
  <2>5. stopper' \in {"wait", "drain", "shutdown"} => caller'["signal"] = "idle"
    BY <1>0, <1>1, <2>3 DEF Stopping, Callers
  <2>6. Stopping'
    BY <1>0, <1>1, <2>2, <2>3, <2>4, <2>5 DEF Stopping
  <2>7. QED
    BY <1>0, <1>1, <2>2, <2>3, <2>6, LifeLemma DEF Typed
<1>2. CASE /\ caller[c] = "once" /\ caller' = [caller EXCEPT ![c] = "returned"]
           /\ UNCHANGED <<once, server, closer>>
  <2> DEFINE x == "returned"
  <2>1. caller' = [caller EXCEPT ![c] = x] /\ x \in Stages
    BY <1>2 DEF Stages
  <2>2. /\ caller' \in [Callers -> Stages] /\ caller'[c] = x
        /\ \A d \in Callers : d # c => caller'[d] = caller[d]
    BY <1>0, <2>1, StageLemma
  <2>3. stopper' \in {"wait", "drain", "shutdown"} => caller'["signal"] = "idle"
    BY <1>0, <1>2, <2>2 DEF Stopping, Callers
  <2>4. Stopping'
    BY <1>0, <1>2, <2>2, <2>3 DEF Stopping
  <2>5. QED
    BY <1>0, <1>2, <2>2, <2>4, LifeLemma DEF Typed
<1>3. CASE /\ caller[c] = "http" /\ server' = [server EXCEPT !.http = "closed"]
           /\ UNCHANGED <<once, caller, closer>>
  <2>1. /\ server' \in Flags /\ server'.draining = server.draining /\ server'.http = "closed"
        /\ server'.shutdown = server.shutdown /\ server'.completed = server.completed /\ server'.expired = server.expired
    BY <1>0, <1>3 DEF Typed, Flags
  <2>2. Stopping'
    BY <1>0, <1>3, <2>1 DEF Stopping
  <2>3. QED
    BY <1>0, <1>3, <2>1, <2>2, LifeLemma DEF Typed
<1>4. CASE /\ caller[c] = "http" /\ server.http = "closed" /\ HTTPDone(c)
           /\ server' = [server EXCEPT !.shutdown = TRUE, !.expired = c \in config.deadline /\ \E r \in Requests : Active(r)]
           /\ caller' = [caller EXCEPT ![c] = "close"] /\ closer' = "stop"
           /\ UNCHANGED once
  <2> DEFINE t == TRUE
             x == "close"
             e == c \in config.deadline /\ \E r \in Requests : Active(r)
  <2>1. /\ server' = [server EXCEPT !.shutdown = t, !.expired = e] /\ t \in BOOLEAN /\ t /\ e \in BOOLEAN
        /\ caller' = [caller EXCEPT ![c] = x] /\ x \in Stages
    BY <1>4 DEF Stages
  <2>2. ~e => \A r \in Requests : req[r].pc = "idle"
    BY <1>4 DEF HTTPDone, Active
  <2> HIDE DEF t, e
  <2>3. /\ server' \in Flags /\ server'.draining = server.draining /\ server'.http = server.http
        /\ server'.shutdown /\ server'.completed = server.completed /\ server'.expired = e
    BY <1>0, <2>1 DEF Typed, Flags
  <2>4. /\ caller' \in [Callers -> Stages] /\ caller'[c] = x
        /\ \A d \in Callers : d # c => caller'[d] = caller[d]
    BY <1>0, <2>1, StageLemma
  <2>5. ~server.shutdown /\ once = c /\ \A d \in Callers : d # c => caller[d] \notin {"http", "close", "end"}
    BY <1>0, <1>4 DEF Stopping
  <2>6. ~server.completed /\ exit # "stopped" /\ ~server.expired /\ closer = "idle" /\ server.draining
    BY <1>0, <1>4, <2>5 DEF Stopping
  <2>7. stopper' \in {"wait", "drain", "shutdown"} => caller'["signal"] = "idle"
    BY <1>0, <1>4, <2>4 DEF Stopping, Callers
  <2>8. Stopping'
    BY <1>0, <1>4, <2>3, <2>4, <2>5, <2>6, <2>7, ServerAssumption DEF Stopping
  <2>9. Typed'
    BY <1>0, <1>4, <2>3, <2>4 DEF Typed
  <2>10. Using' /\ Connected' /\ Detaching'
    BY <1>0 DEF IInv, Using, Connected, Detaching, Free
  <2>11. Orderly'
    BY <1>0, <2>2, <2>3, <2>6 DEF IInv, Orderly
  <2>12. QED
    BY <1>0, <2>8, <2>9, <2>10, <2>11 DEF IInv
<1>5. CASE /\ caller[c] = "close" /\ server' = [server EXCEPT !.completed = TRUE]
           /\ caller' = [caller EXCEPT ![c] = "end"]
           /\ UNCHANGED <<once, closer>>
  <2> DEFINE t == TRUE
             x == "end"
  <2>1. /\ server' = [server EXCEPT !.completed = t] /\ t \in BOOLEAN /\ t
        /\ caller' = [caller EXCEPT ![c] = x] /\ x \in Stages
    BY <1>5 DEF Stages
  <2> HIDE DEF t
  <2>2. /\ server' \in Flags /\ server'.draining = server.draining /\ server'.http = server.http
        /\ server'.shutdown = server.shutdown /\ server'.completed /\ server'.expired = server.expired
    BY <1>0, <2>1 DEF Typed, Flags
  <2>3. /\ caller' \in [Callers -> Stages] /\ caller'[c] = x
        /\ \A d \in Callers : d # c => caller'[d] = caller[d]
    BY <1>0, <2>1, StageLemma
  <2>4. once = c /\ server.shutdown
    BY <1>0, <1>5 DEF Stopping
  <2>5. stopper' \in {"wait", "drain", "shutdown"} => caller'["signal"] = "idle"
    BY <1>0, <1>5, <2>3 DEF Stopping, Callers
  <2>6. Stopping'
    BY <1>0, <1>5, <2>2, <2>3, <2>4, <2>5 DEF Stopping
  <2>7. QED
    BY <1>0, <1>5, <2>2, <2>3, <2>6, LifeLemma DEF Typed
<1>6. CASE /\ caller[c] = "end" /\ caller' = [caller EXCEPT ![c] = "returned"]
           /\ UNCHANGED <<once, server, closer>>
  <2> DEFINE x == "returned"
  <2>1. caller' = [caller EXCEPT ![c] = x] /\ x \in Stages
    BY <1>6 DEF Stages
  <2>2. /\ caller' \in [Callers -> Stages] /\ caller'[c] = x
        /\ \A d \in Callers : d # c => caller'[d] = caller[d]
    BY <1>0, <2>1, StageLemma
  <2>3. stopper' \in {"wait", "drain", "shutdown"} => caller'["signal"] = "idle"
    BY <1>0, <1>6, <2>2 DEF Stopping, Callers
  <2>4. Stopping'
    BY <1>0, <1>6, <2>2, <2>3 DEF Stopping
  <2>5. QED
    BY <1>0, <1>6, <2>2, <2>4, LifeLemma DEF Typed
<1>7. QED
  BY <1>1, <1>2, <1>3, <1>4, <1>5, <1>6 DEF Shutdown

\* The listener's end and the pool's (DbEngine.Close).
LEMMA CloseIInv ==
    ASSUME IInv, Close, UNCHANGED config
    PROVE  IInv'
<1>0. /\ Typed /\ Stopping /\ ListenerTyped
      /\ UNCHANGED <<stopper, caller, once, server, exit, session, watcher, out, req>>
  BY DEF IInv, Close
<1>1. CASE closer = "stop" /\ closer' = "stopping" /\ Stop
  <2>1. ListenerTyped' /\ LoopIn("over")' = LoopIn("over")
    BY <1>0, <1>1 DEF Stop, ListenerTyped, LoopIn
  <2>2. Stopping'
    BY <1>0, <1>1, <2>1 DEF Stopping
  <2>3. QED
    BY <1>0, <1>1, <2>1, <2>2, LifeLemma DEF Typed
<1>2. CASE closer = "stopping" /\ Stopped /\ closer' = "pool" /\ UNCHANGED lvars
  <2>1. ListenerTyped' /\ (LoopIn("over")' <=> LoopIn("over")) /\ LoopIn("over")
    BY <1>2, ListenerStays DEF Stopped
  <2>2. Stopping'
    BY <1>0, <1>2, <2>1 DEF Stopping
  <2>3. QED
    BY <1>0, <1>2, <2>1, <2>2, LifeLemma DEF Typed
<1>3. CASE closer = "pool" /\ closer' = "done" /\ UNCHANGED lvars
  <2>1. ListenerTyped' /\ (LoopIn("over")' <=> LoopIn("over"))
    BY <1>3, ListenerStays
  <2>2. Stopping'
    BY <1>0, <1>3, <2>1 DEF Stopping
  <2>3. QED
    BY <1>0, <1>3, <2>1, <2>2, LifeLemma DEF Typed
<1>4. QED
  BY <1>1, <1>2, <1>3 DEF Close

\* A step of the listener, or a change that it is told of.
LEMMA OutsideIInv ==
    ASSUME IInv, Listener \/ External
    PROVE  IInv'
<1>0. /\ Typed /\ Stopping /\ ListenerTyped
      /\ UNCHANGED <<config, stopper, caller, once, server, closer, exit, session, watcher, out, req>>
  BY DEF IInv, Listener, External, svars
<1>1. Open \in BOOLEAN
  BY DEF Open
<1>2. ListenerTyped' /\ (LoopIn("over") => LoopIn("over")')
  BY <1>0, <1>1, ListenLemma, ChangeLemma DEF Listener, External
<1>3. Stopping'
  BY <1>0, <1>2 DEF Stopping
<1>4. QED
  BY <1>0, <1>2, <1>3, LifeLemma DEF Typed

-----------------------------------------------------------------------------
(* The requests and the watcher.                                           *)

\* What a step that only touches requests and sessions has to show.
LEMMA ServeLemma ==
    ASSUME IInv, UNCHANGED <<config, stopper, caller, once, server, closer, lvars>>,
           exit' = "stopped" => exit = "stopped",
           watcher'.pc = "walk" \/ (config.sessions /\ watcher'.pc = "over") => server.shutdown,
           Typed', Using', Connected', Orderly', Detaching'
    PROVE  IInv'
<1>1. ListenerTyped' /\ (LoopIn("over")' <=> LoopIn("over"))
  BY ListenerStays
<1>2. Stopping'
  BY <1>1 DEF IInv, Stopping
<1>3. QED
  BY <1>1, <1>2 DEF IInv

\* What keeps the requests on their way out as they are: theirs are the sessions
\* they had, with what these had, or with what the walk leaves.
LEMMA DetachingLemma ==
    ASSUME Typed, Using, Detaching, UNCHANGED config,
           \A s \in Sessions : session'[s].listed => session[s].listed \/ config.sessions,
           \A q \in Requests : req'[q].pc \in {"detach", "leave"} =>
              /\ req'[q].pc = req[q].pc /\ req'[q].session = req[q].session
              /\ req[q].session \in Sessions =>
                    \/ session'[req[q].session].conn = session[req[q].session].conn
                    \/ session'[req[q].session].conn = Given(session[req[q].session].conn)
    PROVE  Detaching'
<1>1. \A q \in Requests : req[q].pc \in {"detach", "leave"} => req[q].session \in Sessions
  BY DEF Typed, Using, Request
<1>2. QED
  BY <1>1 DEF Detaching, Given

\* The session of a request: nobody else has it, and the watcher only watches
\* before the graceful window ends too early.
LEMMA MineLemma ==
    ASSUME IInv, NEW r \in Requests, req[r].pc \notin {"idle", "session"}
    PROVE  /\ req[r].session \in Sessions /\ req[r].session # None
           /\ Mine(r) = session[req[r].session] /\ Mine(r).inUse /\ req[r].session \notin Free
           /\ \A q \in Requests : q # r => req[q].session # req[r].session
           /\ config.sessions /\ ~server.expired => watcher.pc = "watch" /\ Mine(r).listed
<1>0. Typed /\ Using /\ Orderly /\ Stopping
  BY DEF IInv
<1>1. req[r] \in Request
  BY <1>0 DEF Typed
<1>2. req[r].session # None /\ req[r].session \in Sessions
  BY <1>0, <1>1 DEF Using, Request
<1>3. Mine(r) = session[req[r].session] /\ session[req[r].session].inUse
  BY <1>0, <1>2 DEF Mine, Using
<1>4. \A q \in Requests : q # r => req[q].session # req[r].session
  BY <1>0, <1>2 DEF Using
<1>5. ASSUME config.sessions, ~server.expired PROVE watcher.pc = "watch" /\ session[req[r].session].listed
  <2>1. ~server.shutdown
    BY <1>0, <1>5 DEF Orderly
  <2>2. watcher.pc \in {"watch", "walk", "over"}
    BY <1>0 DEF Typed
  <2>3. watcher.pc = "watch"
    BY <1>0, <1>5, <2>1, <2>2 DEF Stopping
  <2>4. QED
    BY <1>0, <1>2, <1>5, <2>3 DEF Using
<1>6. QED
  BY <1>2, <1>3, <1>4, <1>5 DEF Free

\* None and Dead are no connections.
LEMMA NoConn == None \notin Conns /\ Dead \notin Conns /\ None \notin Sessions
BY ServerAssumption

\* A request comes in.
LEMMA AcceptIInv ==
    ASSUME IInv, NEW r \in Requests, Accept(r), UNCHANGED config
    PROVE  IInv'
<1>0. /\ Typed /\ Using /\ Orderly /\ Stopping /\ Connected
      /\ UNCHANGED <<stopper, caller, once, server, closer, exit, session, watcher, out, lvars>>
  BY DEF IInv, Accept
<1>1. req[r] \in Request /\ req[r].pc = "idle" /\ server.http = "open"
  BY <1>0 DEF Typed, Accept
<1> DEFINE x == [req[r] EXCEPT !.pc = "session"]
<1>2. req' = [req EXCEPT ![r] = x]
  BY DEF Accept
<1>3. x \in Request /\ x.pc = "session" /\ x.session = req[r].session
  BY <1>1 DEF Request
<1> HIDE DEF x
<1>4. /\ req' \in [Requests -> Request] /\ req'[r] = x
      /\ \A q \in Requests : q # r => req'[q] = req[q]
  BY <1>0, <1>2, <1>3 DEF Typed
<1>5. Typed'
  BY <1>0, <1>4 DEF Typed
<1>6. \A q \in Requests : /\ req'[q].session = req[q].session
                          /\ req'[q].pc \in {"idle", "session"} <=> req[q].pc \in {"idle", "session"}
                          /\ req'[q].pc \notin {"idle", "session"} => req'[q] = req[q]
  BY <1>1, <1>3, <1>4
<1>7. Using'
  BY <1>0, <1>6 DEF Using
<1>8. Connected'
  BY <1>0 DEF Connected, Free
<1>9. ~server.shutdown
  BY <1>0, <1>1 DEF Stopping
<1>10. Orderly'
  BY <1>0, <1>6, <1>9 DEF Orderly
<1>11. Detaching'
  BY <1>0, <1>6, DetachingLemma DEF IInv
<1>12. QED
  BY <1>0, <1>5, <1>7, <1>8, <1>10, <1>11, ServeLemma DEF Stopping

\* A request gets a session that nobody uses (getSession).
LEMMA GetSessionIInv ==
    ASSUME IInv, exit = "none", NEW r \in Requests, GetSession(r), UNCHANGED config
    PROVE  IInv'
<1>0. /\ Typed /\ Using /\ Orderly /\ Stopping /\ Connected
      /\ UNCHANGED <<stopper, caller, once, server, closer, watcher, out, lvars>>
      /\ req[r].pc = "session"
  BY DEF IInv, GetSession
<1>1. exit' # "stopped"
  BY DEF GetSession
<1>2. PICK s \in Free \cup Unused :
        /\ session' = [session EXCEPT ![s] = [conn |-> IF @.listed THEN @.conn ELSE None, inUse |-> TRUE, listed |-> config.sessions]]
        /\ req' = [req EXCEPT ![r].pc = "acquire", ![r].session = s]
  BY DEF GetSession
<1>3. s \in Sessions /\ \A q \in Requests : req[q].session # s
  BY <1>0, <1>2, NoConn DEF Free, Unused, Using
<1> DEFINE k == IF session[s].listed THEN session[s].conn ELSE None
           t == TRUE
           x == [req[r] EXCEPT !.pc = "acquire", !.session = s]
           y == [conn |-> k, inUse |-> t, listed |-> config.sessions]
<1>4. session[s] \in Session /\ config.sessions \in BOOLEAN /\ req[r] \in Request
  BY <1>0, <1>3 DEF Typed, Config
<1>5. k \in Conns \cup {None, Dead} /\ (k = None \/ k = session[s].conn) /\ (session[s].listed => k = session[s].conn)
  BY <1>4 DEF Session
<1>6. session' = [session EXCEPT ![s] = y]
  BY <1>2, <1>3, <1>0 DEF Typed
<1>7. req' = [req EXCEPT ![r] = x]
  BY <1>0, <1>2 DEF Typed
<1>8. x \in Request /\ x.pc = "acquire" /\ x.session = s
  BY <1>3, <1>4 DEF Request
<1> HIDE DEF k, x
<1>9. y \in Session /\ y.conn = k /\ y.inUse /\ y.listed = config.sessions
  BY <1>4, <1>5 DEF Session
<1> HIDE DEF y, t
<1>10. /\ req' \in [Requests -> Request] /\ req'[r] = x
       /\ \A q \in Requests : q # r => req'[q] = req[q]
  BY <1>0, <1>7, <1>8 DEF Typed
<1>11. /\ session' \in [Sessions -> Session] /\ session'[s] = y
       /\ \A u \in Sessions : u # s => session'[u] = session[u]
  BY <1>0, <1>3, <1>6, <1>9 DEF Typed
<1>12. Typed'
  BY <1>0, <1>10, <1>11 DEF Typed
<1>13. Using'
  <2>1. \A q \in Requests : req[q].session \in Sessions \cup {None}
    BY <1>0 DEF Typed, Request
  <2>2. \A q \in Requests : q # r => req'[q].session # s
    BY <1>3, <1>10
  <2>3. \A q \in Requests : req'[q].pc \in {"idle", "session"} <=> req'[q].session = None
    BY <1>0, <1>3, <1>8, <1>10, NoConn DEF Using
  <2>4. \A q \in Requests : req'[q].session # None => session'[req'[q].session].inUse
    BY <1>0, <1>8, <1>9, <1>10, <1>11, <2>1, <2>2 DEF Using
  <2>5. ASSUME NEW q \in Requests, req'[q].session # None, config.sessions, watcher.pc = "watch"
        PROVE  session'[req'[q].session].listed
    <3>1. CASE q = r
      BY <1>8, <1>9, <1>10, <1>11, <2>5, <3>1
    <3>2. CASE q # r
      <4>1. req'[q] = req[q] /\ req[q].session \in Sessions /\ req[q].session # s
        BY <1>10, <2>1, <2>2, <2>5, <3>2
      <4>2. session[req[q].session].listed
        BY <1>0, <2>5, <4>1 DEF Using
      <4>3. QED
        BY <1>11, <4>1, <4>2
    <3>3. QED
      BY <3>1, <3>2
  <2>6. \A q, p \in Requests : req'[q].session # None /\ req'[q].session = req'[p].session => q = p
    BY <1>0, <1>8, <1>10, <2>2 DEF Using
  <2>7. QED
    BY <1>0, <2>3, <2>4, <2>5, <2>6 DEF Using
<1>14. \A u \in Sessions : session'[u].conn = session[u].conn \/ (session'[u].conn = None /\ ~session[u].listed)
  BY <1>5, <1>9, <1>11
<1>15. Connected'
  <2>1. out \subseteq Conns
    BY <1>0 DEF Typed
  <2>2. \A u \in Sessions : session'[u].conn \in out \cup {None, Dead}
    BY <1>0, <1>14 DEF Connected
  <2>3. \A u, v \in Sessions : u # v /\ session'[u].conn \in out => session'[u].conn # session'[v].conn
    BY <1>0, <1>14, <2>1, NoConn DEF Connected
  <2>4. \A u \in Free' : u \in Free /\ session'[u].conn = session[u].conn
    BY <1>9, <1>11 DEF Free
  <2>5. QED
    BY <1>0, <2>2, <2>3, <2>4 DEF Connected
<1>16. Orderly'
  <2> SUFFICES ASSUME ~server.expired PROVE Orderly'
    BY <1>0 DEF Orderly
  <2>1. ~server.shutdown
    BY <1>0 DEF Orderly
  <2>2. \A q \in Requests : req'[q].pc \in {"handle", "release"} => q # r /\ req'[q] = req[q] /\ req[q].session \in Sessions /\ req[q].session # s
    BY <1>0, <1>3, <1>8, <1>10 DEF Using, Typed, Request
  <2>3. \A q \in Requests : req'[q].pc \in {"handle", "release"} => req'[q].conn \in out /\ session'[req'[q].session].conn = req'[q].conn
    BY <1>0, <1>11, <2>2 DEF Orderly
  <2>4. config.sessions => watcher.pc = "watch"
    BY <1>0, <2>1 DEF Stopping, Typed
  <2>5. ASSUME config.sessions, NEW c \in out
        PROVE  \E u \in Sessions : session'[u].conn = c /\ session'[u].listed
    <3>1. PICK u \in Sessions : session[u].conn = c /\ session[u].listed
      BY <1>0, <2>4, <2>5 DEF Orderly
    <3>2. session'[u].conn = c /\ session'[u].listed
      BY <1>9, <1>11, <1>14, <2>5, <3>1
    <3>3. QED
      BY <3>2
  <2>6. QED
    BY <1>0, <2>1, <2>3, <2>4, <2>5 DEF Orderly
<1>17. Detaching'
  <2>1. \A q \in Requests : req'[q].pc \in {"detach", "leave"} => req'[q] = req[q] /\ req[q].session # s
    BY <1>3, <1>8, <1>10
  <2>2. \A u \in Sessions : session'[u].listed => session[u].listed \/ config.sessions
    BY <1>9, <1>11
  <2>3. QED
    BY <1>0, <1>11, <2>1, <2>2, DetachingLemma DEF IInv
<1>18. QED
  BY <1>0, <1>1, <1>12, <1>13, <1>15, <1>16, <1>17, ServeLemma DEF Stopping

\* The session of a request changes its connection to k, one that it had, or a
\* fresh one of the pool, or it gives up the one that is lost without sessions.
Connects(r, k) ==
    /\ session' = [session EXCEPT ![req[r].session].conn = k]
    /\ \/ out' = out /\ k = session[req[r].session].conn
       \/ out' = out /\ k = None /\ ~config.sessions
       \/ out' = out \cup {k} /\ k \in Conns \ out /\ session[req[r].session].conn = None
       \/ \E c \in Conns \ out : out' = out \cup {c} /\ k = None /\ ~config.sessions

\* What the sessions and the pool are after it.
LEMMA ConnectsLemma ==
    ASSUME IInv, NEW r \in Requests, req[r].pc = "acquire", NEW k, Connects(r, k), UNCHANGED <<config, watcher, server>>
    PROVE  /\ out' \in SUBSET Conns /\ out \subseteq out'
           /\ session' \in [Sessions -> Session] /\ session'[req[r].session].conn = k
           /\ \A u \in Sessions : /\ session'[u].inUse = session[u].inUse /\ session'[u].listed = session[u].listed
                                  /\ u # req[r].session => session'[u] = session[u]
           /\ Connected'
           /\ config.sessions /\ ~server.expired =>
                 \A c \in out' : \E u \in Sessions : session'[u].conn = c /\ session'[u].listed /\ watcher.pc = "watch"
<1>0. Typed /\ Using /\ Orderly /\ Connected
  BY DEF IInv
<1> DEFINE s == req[r].session
<1>1. /\ s \in Sessions /\ session[s].inUse /\ s \notin Free
      /\ config.sessions /\ ~server.expired => watcher.pc = "watch" /\ session[s].listed
  BY MineLemma
<1>2. session[s] \in Session /\ out \in SUBSET Conns
  BY <1>0, <1>1 DEF Typed
<1>3. session[s].conn \in out \cup {None, Dead}
  BY <1>0, <1>1 DEF Connected
<1>4. k \in Conns \cup {None, Dead} /\ k \in out' \cup {None, Dead} /\ out' \in SUBSET Conns /\ out \subseteq out'
  BY <1>2, <1>3 DEF Connects
<1>5. \A c \in out' : c \in out \/ c = k \/ ~config.sessions
  BY DEF Connects
<1>6. k \in out' => k \notin out \/ k = session[s].conn
  BY <1>2, NoConn DEF Connects
<1>7. config.sessions => k = session[s].conn \/ k \notin out
  BY <1>2, NoConn DEF Connects
<1>7a. config.sessions /\ k # session[s].conn => k \in out'
  BY DEF Connects
<1>8. session' = [session EXCEPT ![s] = [session[s] EXCEPT !.conn = k]]
  BY <1>0, <1>1 DEF Connects, Typed
<1> HIDE DEF s
<1> DEFINE x == [session[s] EXCEPT !.conn = k]
<1>9. x \in Session /\ x.conn = k /\ x.inUse = session[s].inUse /\ x.listed = session[s].listed
  BY <1>2, <1>4 DEF Session
<1> HIDE DEF x
<1>10. /\ session' \in [Sessions -> Session] /\ session'[s] = x
       /\ \A u \in Sessions : u # s => session'[u] = session[u]
  <2>1. session' = [session EXCEPT ![s] = x]
    BY <1>8 DEF x
  <2>2. QED
    BY <1>0, <1>1, <1>9, <2>1 DEF Typed
<1>11. \A u \in Sessions : session'[u].inUse = session[u].inUse /\ session'[u].listed = session[u].listed
  BY <1>9, <1>10
<1>12. Connected'
  <2>1. \A u \in Sessions : session'[u].conn \in out' \cup {None, Dead}
    BY <1>0, <1>4, <1>9, <1>10 DEF Connected
  <2>2. ASSUME NEW u \in Sessions, NEW v \in Sessions, u # v, session'[u].conn \in out'
        PROVE  session'[u].conn # session'[v].conn
    <3>1. out' \subseteq Conns /\ None \notin Conns /\ Dead \notin Conns
      BY <1>4, NoConn
    <3>2. \A w \in Sessions : w # s => session'[w].conn \in out \cup {None, Dead}
      BY <1>0, <1>10 DEF Connected
    <3>3. CASE u = s
      BY <1>0, <1>6, <1>9, <1>10, <2>2, <3>1, <3>2, <3>3 DEF Connected
    <3>4. CASE v = s
      BY <1>0, <1>1, <1>6, <1>9, <1>10, <2>2, <3>1, <3>2, <3>4 DEF Connected
    <3>5. CASE u # s /\ v # s
      BY <1>0, <1>10, <2>2, <3>1, <3>2, <3>5 DEF Connected
    <3>6. QED
      BY <3>3, <3>4, <3>5
  <2>3. \A u \in Free' : u \in Free /\ u # s /\ session'[u] = session[u]
    BY <1>1, <1>10, <1>11 DEF Free
  <2>4. QED
    BY <1>0, <2>1, <2>2, <2>3 DEF Connected
<1>13. ASSUME config.sessions, ~server.expired, NEW c \in out'
       PROVE  \E u \in Sessions : session'[u].conn = c /\ session'[u].listed /\ watcher.pc = "watch"
  <2>1. CASE c = k
    <3>1. session'[s].conn = c /\ session'[s].listed /\ watcher.pc = "watch"
      BY <1>1, <1>9, <1>10, <1>13, <2>1 DEF s
    <3>2. QED
      BY <1>1, <3>1
  <2>2. CASE c # k
    <3>1. c \in out /\ watcher.pc = "watch"
      BY <1>1, <1>5, <1>13, <2>2
    <3>2. PICK u \in Sessions : session[u].conn = c /\ session[u].listed
      BY <1>0, <1>13, <3>1 DEF Orderly
    <3>3. CASE u # s
      BY <1>10, <3>1, <3>2, <3>3
    <3>4. CASE u = s
      <4>1. k # session[s].conn /\ c = session[s].conn
        BY <2>2, <3>2, <3>4
      <4>2. session[s].conn = None /\ out \subseteq Conns
        BY <1>2, <1>13, <4>1 DEF Connects, s
      <4>3. QED
        BY <3>1, <4>1, <4>2, NoConn
    <3>5. QED
      BY <3>3, <3>4
  <2>3. QED
    BY <2>1, <2>2
<1>14. QED
  BY <1>4, <1>9, <1>10, <1>11, <1>12, <1>13 DEF s

\* And the request is refused, or it goes on with the connection.
Answered(r, k) ==
    /\ Connects(r, k)
    /\ \/ req' = [req EXCEPT ![r] = Idle]
       \/ k \in out' /\ k \in Conns /\ req' = [req EXCEPT ![r].pc = "handle", ![r].conn = k]

\* A request gets a connection, or is refused (acquireSession).
LEMMA AcquireIInv ==
    ASSUME IInv, NEW r \in Requests, Acquire(r), UNCHANGED config
    PROVE  IInv'
<1>0. /\ Typed /\ Using /\ Orderly /\ Stopping /\ Connected
      /\ UNCHANGED <<stopper, caller, once, server, closer, exit, watcher, lvars>>
      /\ req[r].pc = "acquire"
  BY DEF IInv, Acquire
<1> DEFINE s == req[r].session
<1>1. /\ s \in Sessions /\ s # None /\ Mine(r) = session[s]
      /\ \A q \in Requests : q # r => req[q].session # s
      /\ config.sessions \in BOOLEAN
  BY <1>0, MineLemma DEF Typed, Config
<1>2. \E k \in Conns \cup {None, Dead} : Answered(r, k)
  <2>1. session[s].conn \in Conns \cup {None, Dead} /\ out \subseteq Conns
    BY <1>0, <1>1 DEF Typed, Session
  <2>2. CASE Mine(r).conn \in out /\ Prepared(r, Mine(r).conn) /\ UNCHANGED out
    <3>1. Answered(r, Mine(r).conn)
      BY <1>1, <2>1, <2>2 DEF Prepared, Connects, Answered
    <3>2. QED
      BY <1>1, <2>1, <3>1
  <2>3. CASE Mine(r).conn # None /\ Refused(r, Mine(r).conn) /\ UNCHANGED out
    <3> DEFINE k == IF config.sessions THEN Mine(r).conn ELSE None
    <3>1. Answered(r, k)
      BY <1>1, <2>1, <2>3 DEF Refused, Connects, Answered
    <3>2. QED
      BY <1>1, <2>1, <3>1
  <2>4. ASSUME Mine(r).conn = None, NEW c \in Conns \ out, out' = out \cup {c}, Prepared(r, c)
        PROVE  Answered(r, c)
    BY <1>1, <2>1, <2>4 DEF Prepared, Connects, Answered
  <2>5. ASSUME Mine(r).conn = None, NEW c \in Conns \ out, out' = out \cup {c}, Refused(r, c)
        PROVE  \E k \in Conns \cup {None, Dead} : Answered(r, k)
    <3>1. CASE config.sessions
      <4>1. Answered(r, c)
        BY <1>1, <2>1, <2>5, <3>1 DEF Refused, Connects, Answered
      <4>2. QED
        BY <4>1
    <3>2. CASE ~config.sessions
      <4>1. Answered(r, None)
        BY <1>1, <2>1, <2>5, <3>2 DEF Refused, Connects, Answered
      <4>2. QED
        BY <4>1
    <3>3. QED
      BY <3>1, <3>2
  <2>6. CASE Mine(r).conn = None /\ Refused(r, None) /\ UNCHANGED out
    <3>1. Answered(r, None)
      BY <1>1, <2>1, <2>6 DEF Refused, Connects, Answered
    <3>2. QED
      BY <3>1
  <2>7. CASE \E c \in Conns \ out : out' = out \cup {c} /\ (Prepared(r, c) \/ Refused(r, c)) /\ Mine(r).conn = None
    <3>1. PICK c \in Conns \ out : out' = out \cup {c} /\ (Prepared(r, c) \/ Refused(r, c)) /\ Mine(r).conn = None
      BY <2>7
    <3>2. CASE Prepared(r, c)
      <4>1. Answered(r, c)
        BY <2>4, <3>1, <3>2
      <4>2. QED
        BY <4>1
    <3>3. CASE Refused(r, c)
      BY <2>5, <3>1, <3>3
    <3>4. QED
      BY <3>1, <3>2, <3>3
  <2>8. QED
    BY <2>2, <2>3, <2>6, <2>7 DEF Acquire
<1>3. PICK k \in Conns \cup {None, Dead} : Answered(r, k)
  BY <1>2
<1>4. /\ out' \in SUBSET Conns /\ out \subseteq out'
      /\ session' \in [Sessions -> Session] /\ session'[s].conn = k
      /\ \A u \in Sessions : /\ session'[u].inUse = session[u].inUse /\ session'[u].listed = session[u].listed
                             /\ u # s => session'[u] = session[u]
      /\ Connected'
      /\ config.sessions /\ ~server.expired =>
            \A c \in out' : \E u \in Sessions : session'[u].conn = c /\ session'[u].listed /\ watcher.pc = "watch"
  BY <1>0, <1>3, ConnectsLemma DEF Answered
<1>5. \E x \in Request :
         /\ req' = [req EXCEPT ![r] = x]
         /\ \/ x.pc = "idle" /\ x.session = None
            \/ x.pc = "handle" /\ x.session = s /\ x.conn = k /\ k \in out'
  <2>1. CASE req' = [req EXCEPT ![r] = Idle]
    <3>1. Idle \in Request /\ Idle.pc = "idle" /\ Idle.session = None
      BY DEF Idle, Request
    <3>2. QED
      BY <2>1, <3>1
  <2>2. CASE k \in out' /\ k \in Conns /\ req' = [req EXCEPT ![r].pc = "handle", ![r].conn = k]
    <3> DEFINE x == [req[r] EXCEPT !.pc = "handle", !.conn = k]
    <3>1. req[r] \in Request
      BY <1>0 DEF Typed
    <3>2. x \in Request /\ x.pc = "handle" /\ x.session = s /\ x.conn = k
      BY <2>2, <3>1 DEF Request
    <3>3. req' = [req EXCEPT ![r] = x]
      BY <1>0, <2>2 DEF Typed
    <3>4. QED
      BY <2>2, <3>2, <3>3
  <2>3. QED
    BY <1>3, <2>1, <2>2 DEF Answered
<1>6. PICK x \in Request :
         /\ req' = [req EXCEPT ![r] = x]
         /\ \/ x.pc = "idle" /\ x.session = None
            \/ x.pc = "handle" /\ x.session = s /\ x.conn = k /\ k \in out'
  BY <1>5
<1>7. /\ req' \in [Requests -> Request] /\ req'[r] = x
      /\ \A q \in Requests : q # r => req'[q] = req[q]
  BY <1>0, <1>6 DEF Typed
<1> HIDE DEF s
<1>8. Typed'
  BY <1>0, <1>4, <1>7 DEF Typed
<1>9. \A q \in Requests : req[q].session \in Sessions \cup {None}
  BY <1>0 DEF Typed, Request
<1>10. \A q \in Requests : \/ req'[q].pc = "idle" /\ req'[q].session = None
                           \/ q # r /\ req'[q] = req[q]
                           \/ q = r /\ req'[q].session = s /\ req'[q].pc = "handle"
  BY <1>6, <1>7
<1>11. s = req[r].session
  BY DEF s
<1>12. Using'
  <2>1. \A q \in Requests : req'[q].pc \in {"idle", "session"} <=> req'[q].session = None
    BY <1>0, <1>1, <1>10 DEF Using
  <2>2. \A q \in Requests : req'[q].session # None => req'[q].session = req[q].session
    BY <1>10, <1>11
  <2>3. \A q \in Requests : req'[q].session # None => req[q].session \in Sessions /\ session'[req[q].session].inUse = session[req[q].session].inUse
                                                    /\ session'[req[q].session].listed = session[req[q].session].listed
    BY <1>4, <1>9, <2>2
  <2>4. \A q \in Requests : req'[q].session # None => session'[req'[q].session].inUse
    BY <1>0, <2>2, <2>3 DEF Using
  <2>5. ASSUME NEW q \in Requests, req'[q].session # None, config.sessions, watcher.pc = "watch"
        PROVE  session'[req'[q].session].listed
    <3>1. session[req[q].session].listed
      BY <1>0, <2>2, <2>5 DEF Using
    <3>2. QED
      BY <2>2, <2>3, <2>5, <3>1
  <2>6. \A q, p \in Requests : req'[q].session # None /\ req'[q].session = req'[p].session => q = p
    BY <1>0, <2>2 DEF Using
  <2>7. QED
    BY <1>0, <2>1, <2>4, <2>5, <2>6 DEF Using
<1>13. Orderly'
  <2> SUFFICES ASSUME ~server.expired PROVE Orderly'
    BY <1>0 DEF Orderly
  <2>1. ~server.shutdown
    BY <1>0 DEF Orderly
  <2>2. ASSUME NEW q \in Requests, req'[q].pc \in {"handle", "release"}
        PROVE  req'[q].conn \in out' /\ session'[req'[q].session].conn = req'[q].conn
    <3>1. CASE q = r
      BY <1>4, <1>6, <1>7, <2>2, <3>1
    <3>2. CASE q # r
      <4>1. req'[q] = req[q] /\ req[q].session # s /\ req[q].session \in Sessions
        BY <1>0, <1>1, <1>7, <1>9, <2>2, <3>2 DEF Using
      <4>2. req[q].conn \in out /\ session[req[q].session].conn = req[q].conn
        BY <1>0, <2>2, <4>1 DEF Orderly
      <4>3. QED
        BY <1>4, <4>1, <4>2
    <3>3. QED
      BY <3>1, <3>2
  <2>3. ASSUME config.sessions, NEW c \in out'
        PROVE  \E u \in Sessions : session'[u].conn = c /\ session'[u].listed /\ watcher.pc = "watch"
    BY <1>4, <2>3
  <2>4. QED
    BY <1>0, <2>1, <2>2, <2>3 DEF Orderly
<1>14. Detaching'
  <2>1. \A q \in Requests : req'[q].pc \in {"detach", "leave"} =>
           req'[q] = req[q] /\ (req[q].session \in Sessions => session'[req[q].session] = session[req[q].session])
    BY <1>1, <1>4, <1>6, <1>7
  <2>2. QED
    BY <1>0, <1>4, <2>1, DetachingLemma DEF IInv
<1>15. QED
  BY <1>0, <1>4, <1>8, <1>12, <1>13, <1>14, ServeLemma DEF Stopping

\* A request goes on, or is over, with x and what its session is then, y; what
\* the session had is given back when it no longer has it.
Leaves(r, x, y) ==
    /\ x \in Request /\ y \in Session
    /\ y.listed = session[req[r].session].listed
    /\ y.conn \in {None, Dead} \/ y.conn = session[req[r].session].conn
    /\ \/ x.pc = "idle" /\ x.session = None
       \/ x.pc \in {"release", "detach", "leave"} /\ x.session = req[r].session /\ y.inUse
    /\ x.pc = "release" => req[r].pc = "handle" /\ x.conn = req[r].conn /\ y.conn = session[req[r].session].conn
    /\ x.pc = "detach" => y.conn \in {None, Dead}
    /\ x.pc = "leave" /\ config.tx /\ config.sessions => y.conn = None
    /\ config.tx /\ y.listed /\ ~y.inUse => y.conn = None
    /\ req' = [req EXCEPT ![r] = x]
    /\ session' = [session EXCEPT ![req[r].session] = y]
    /\ out' = IF y.conn = session[req[r].session].conn THEN out ELSE out \ {session[req[r].session].conn}

\* Such a step keeps the invariant.
LEMMA LeavesIInv ==
    ASSUME IInv, NEW r \in Requests, req[r].pc \notin {"idle", "session"}, NEW x, NEW left, Leaves(r, x, left),
           UNCHANGED <<config, stopper, caller, once, server, closer, exit, watcher, lvars>>
    PROVE  IInv'
<1>0. Typed /\ Using /\ Orderly /\ Stopping /\ Connected
  BY DEF IInv
<1> DEFINE s == req[r].session
<1>1. /\ s \in Sessions /\ s # None /\ Mine(r) = session[s]
      /\ \A q \in Requests : q # r => req[q].session # s
      /\ config.sessions /\ ~server.expired => watcher.pc = "watch" /\ Mine(r).listed
  BY <1>0, MineLemma
<1>2. session[s] \in Session /\ config.sessions \in BOOLEAN /\ config.tx \in BOOLEAN /\ out \in SUBSET Conns
  BY <1>0, <1>1 DEF Typed, Config
<1>3. session' = [session EXCEPT ![s] = left] /\ req' = [req EXCEPT ![r] = x]
  BY DEF Leaves
<1>4. /\ left \in Session /\ left.listed = session[s].listed
      /\ left.conn \in {None, Dead} \/ left.conn = session[s].conn
      /\ config.tx /\ left.listed /\ ~left.inUse => left.conn = None
  BY DEF Leaves
<1>5. out' = IF left.conn = session[s].conn THEN out ELSE out \ {session[s].conn}
  BY DEF Leaves
<1>6. /\ session' \in [Sessions -> Session] /\ session'[s] = left
      /\ \A u \in Sessions : u # s => session'[u] = session[u]
  BY <1>0, <1>1, <1>3, <1>4 DEF Typed
<1>7. /\ x \in Request
      /\ \/ x.pc = "idle" /\ x.session = None
         \/ x.pc \in {"release", "detach", "leave"} /\ x.session = s /\ left.inUse
      /\ x.pc = "release" => req[r].pc = "handle" /\ x.conn = req[r].conn /\ left.conn = session[s].conn
      /\ x.pc = "detach" => left.conn \in {None, Dead}
      /\ x.pc = "leave" /\ config.tx /\ config.sessions => left.conn = None
  BY DEF Leaves
<1>8. /\ req' \in [Requests -> Request] /\ req'[r] = x
      /\ \A q \in Requests : q # r => req'[q] = req[q]
  BY <1>0, <1>3, <1>7 DEF Typed
<1>9. out' \in SUBSET Conns /\ out' \subseteq out
  BY <1>2, <1>5
<1>9a. \A c \in out : c = session[s].conn /\ c \in out' => left.conn = session[s].conn
  BY <1>5
<1>9b. \A c \in out : c # session[s].conn => c \in out'
  BY <1>5
<1>9c. s = req[r].session
  OBVIOUS
<1> HIDE DEF s
<1>10. Typed'
  BY <1>0, <1>6, <1>8, <1>9 DEF Typed
<1>11. \A q \in Requests : req[q].session \in Sessions \cup {None}
  BY <1>0 DEF Typed, Request
<1>12. \A q \in Requests : \/ req'[q].pc = "idle" /\ req'[q].session = None
                           \/ q # r /\ req'[q] = req[q] /\ (req[q].session \in Sessions => session'[req[q].session] = session[req[q].session])
                           \/ q = r /\ req'[q].session = s /\ left.inUse /\ req'[q].pc \in {"release", "detach", "leave"}
  BY <1>1, <1>6, <1>7, <1>8
<1>13. Using'
  <2>1. \A q \in Requests : req'[q].pc \in {"idle", "session"} <=> req'[q].session = None
    BY <1>0, <1>1, <1>12 DEF Using
  <2>2. \A q \in Requests : req'[q].session # None =>
           /\ req'[q].session = req[q].session /\ req[q].session \in Sessions
           /\ session'[req[q].session].listed = session[req[q].session].listed
           /\ session'[req[q].session].inUse \/ session'[req[q].session].inUse = session[req[q].session].inUse
    BY <1>1, <1>4, <1>6, <1>9c, <1>11, <1>12
  <2>3. \A q \in Requests : req'[q].session # None => session'[req'[q].session].inUse
    BY <1>0, <2>2 DEF Using
  <2>4. ASSUME NEW q \in Requests, req'[q].session # None, config.sessions, watcher.pc = "watch"
        PROVE  session'[req'[q].session].listed
    <3>1. session[req[q].session].listed
      BY <1>0, <2>2, <2>4 DEF Using
    <3>2. QED
      BY <2>2, <2>4, <3>1
  <2>5. \A q, p \in Requests : req'[q].session # None /\ req'[q].session = req'[p].session => q = p
    BY <1>0, <2>2 DEF Using
  <2>6. QED
    BY <1>0, <2>1, <2>3, <2>4, <2>5 DEF Using
<1>14. Connected'
  <2>0. \A u \in Sessions : session'[u].conn \in {None, Dead} \/ session'[u].conn = session[u].conn
    BY <1>4, <1>6
  <2>1. ASSUME NEW u \in Sessions PROVE session'[u].conn \in out' \cup {None, Dead}
    <3>1. CASE u = s
      <4>1. CASE left.conn \in {None, Dead}
        BY <1>6, <3>1, <4>1
      <4>2. CASE left.conn = session[s].conn
        BY <1>0, <1>1, <1>5, <1>6, <3>1, <4>2 DEF Connected
      <4>3. QED
        BY <1>4, <4>1, <4>2
    <3>2. CASE u # s
      <4>1. session'[u].conn = session[u].conn /\ session[u].conn \in out \cup {None, Dead}
        BY <1>0, <1>6, <3>2 DEF Connected
      <4>2. session[u].conn \in out => session[u].conn # session[s].conn
        BY <1>0, <1>1, <3>2 DEF Connected
      <4>3. QED
        BY <1>9b, <4>1, <4>2
    <3>3. QED
      BY <3>1, <3>2
  <2>2. \A u, v \in Sessions : u # v /\ session'[u].conn \in out' => session'[u].conn # session'[v].conn
    BY <1>0, <1>2, <1>9, <2>0, NoConn DEF Connected
  <2>3. ASSUME config.tx, NEW u \in Free' PROVE session'[u].conn = None
    <3>1. CASE u = s
      BY <1>4, <1>6, <2>3, <3>1 DEF Free
    <3>2. CASE u # s
      <4>1. u \in Free /\ session'[u].conn = session[u].conn
        BY <1>6, <3>2 DEF Free
      <4>2. QED
        BY <1>0, <2>3, <4>1 DEF Connected
    <3>3. QED
      BY <3>1, <3>2
  <2>4. QED
    BY <1>0, <2>1, <2>2, <2>3 DEF Connected
<1>15. Orderly'
  <2> SUFFICES ASSUME ~server.expired PROVE Orderly'
    BY <1>0 DEF Orderly
  <2>1. ~server.shutdown
    BY <1>0 DEF Orderly
  <2>2. ASSUME NEW q \in Requests, req'[q].pc \in {"handle", "release"}
        PROVE  req'[q].conn \in out' /\ session'[req'[q].session].conn = req'[q].conn
    <3>1. CASE q # r
      <4>1. req'[q] = req[q] /\ req[q].session \in Sessions /\ req[q].session # s
        BY <1>0, <1>1, <1>8, <1>11, <2>2, <3>1 DEF Using
      <4>2. req[q].conn \in out /\ session[req[q].session].conn = req[q].conn
        BY <1>0, <2>2, <4>1 DEF Orderly
      <4>3. session[req[q].session].conn # session[s].conn
        BY <1>0, <1>1, <4>1, <4>2 DEF Connected
      <4>4. QED
        BY <1>6, <1>9b, <4>1, <4>2, <4>3
    <3>2. CASE q = r
      <4>1. x.pc = "release" /\ req'[q] = x
        BY <1>7, <1>8, <2>2, <3>2
      <4>2. x.session = s /\ req[r].pc = "handle" /\ x.conn = req[r].conn /\ left.conn = session[s].conn
        BY <1>7, <4>1
      <4>3. req[r].conn \in out /\ session[s].conn = req[r].conn
        BY <1>0, <1>9c, <4>2 DEF Orderly
      <4>4. QED
        BY <1>5, <1>6, <4>1, <4>2, <4>3
    <3>3. QED
      BY <3>1, <3>2
  <2>3. ASSUME config.sessions, NEW c \in out'
        PROVE  \E u \in Sessions : session'[u].conn = c /\ session'[u].listed /\ watcher.pc = "watch"
    <3>1. c \in out /\ watcher.pc = "watch"
      BY <1>1, <1>9, <2>3
    <3>2. PICK u \in Sessions : session[u].conn = c /\ session[u].listed
      BY <1>0, <2>3, <3>1 DEF Orderly
    <3>3. CASE u # s
      BY <1>6, <3>1, <3>2, <3>3
    <3>4. CASE u = s
      <4>1. left.conn = session[s].conn
        BY <1>9a, <2>3, <3>1, <3>2, <3>4
      <4>2. session'[s].conn = c /\ session'[s].listed
        BY <1>4, <1>6, <3>2, <3>4, <4>1
      <4>3. QED
        BY <1>1, <3>1, <4>2
    <3>5. QED
      BY <3>3, <3>4
  <2>4. QED
    BY <1>0, <2>1, <2>2, <2>3 DEF Orderly
<1>16. Detaching'
  <2>0. Detaching
    BY DEF IInv
  <2>1. \A u \in Sessions : session'[u].listed => config.sessions
    BY <1>4, <1>6, <2>0 DEF Detaching
  <2>2. ASSUME NEW q \in Requests, req'[q].pc \in {"detach", "leave"}
        PROVE  \/ q = r /\ req'[q] = x /\ x.session = s
               \/ req'[q] = req[q] /\ session'[req[q].session] = session[req[q].session]
    BY <1>0, <1>7, <1>8, <1>11, <1>12, <2>2 DEF Using
  <2>3. \A q \in Requests : req'[q].pc = "detach" => session'[req'[q].session].conn \in {None, Dead}
    BY <1>6, <1>7, <2>0, <2>2 DEF Detaching
  <2>4. config.tx /\ config.sessions => \A q \in Requests : req'[q].pc = "leave" => session'[req'[q].session].conn = None
    BY <1>6, <1>7, <2>0, <2>2 DEF Detaching
  <2>5. QED
    BY <2>1, <2>3, <2>4 DEF Detaching
<1>17. QED
  BY <1>0, <1>10, <1>13, <1>14, <1>15, <1>16, ServeLemma DEF Stopping

\* The handler ends.
LEMMA HandlerEndsIInv ==
    ASSUME IInv, NEW r \in Requests, HandlerEnds(r), UNCHANGED config
    PROVE  IInv'
<1>0. /\ Typed /\ req[r].pc = "handle" /\ req' = [req EXCEPT ![r].pc = "release"]
      /\ UNCHANGED <<stopper, caller, once, server, closer, exit, session, watcher, out, lvars>>
  BY DEF IInv, HandlerEnds
<1> DEFINE x == [req[r] EXCEPT !.pc = "release"]
           y == session[req[r].session]
<1>1. req[r] \in Request /\ req' = [req EXCEPT ![r] = x]
  BY <1>0 DEF Typed
<1>2. x \in Request /\ x.pc = "release" /\ x.session = req[r].session /\ x.conn = req[r].conn
  BY <1>1 DEF Request
<1>3. y \in Session /\ y.inUse /\ session' = [session EXCEPT ![req[r].session] = y]
  BY <1>0, MineLemma DEF Typed
<1> HIDE DEF x
<1>4. Leaves(r, x, y)
  BY <1>0, <1>1, <1>2, <1>3 DEF Leaves
<1>5. QED
  BY <1>0, <1>4, LeavesIInv

\* The connection is released, or it stays with the session (releaseSession).
LEMMA ReleaseIInv ==
    ASSUME IInv, NEW r \in Requests, Release(r), UNCHANGED config
    PROVE  IInv'
<1>0. /\ Typed /\ Connected /\ req[r].pc = "release"
      /\ UNCHANGED <<stopper, caller, once, server, closer, exit, watcher, lvars>>
  BY DEF IInv, Release
<1>1. /\ req[r] \in Request /\ req[r].session \in Sessions /\ Mine(r) = session[req[r].session]
      /\ Mine(r) \in Session /\ Mine(r).inUse
  BY <1>0, MineLemma DEF Typed
<1>2. UNCHANGED session => session' = [session EXCEPT ![req[r].session] = Mine(r)]
  BY <1>0, <1>1 DEF Typed
<1>3. ASSUME NEW p \in {"detach", "leave"}, NEW k \in Conns \cup {None}
      PROVE  LET x == [req[r] EXCEPT !.pc = p, !.conn = k]
             IN  /\ x \in Request /\ x.pc = p /\ x.session = req[r].session
                 /\ [req EXCEPT ![r].pc = p, ![r].conn = k] = [req EXCEPT ![r] = x]
  BY <1>0, <1>1 DEF Request, Typed
<1>4. CASE /\ Mine(r).conn # Dead /\ (~config.sessions \/ config.tx)
           /\ out' = out \ {Mine(r).conn}
           /\ session' = [session EXCEPT ![req[r].session].conn = Dead]
           /\ req' = [req EXCEPT ![r].pc = IF config.sessions THEN "detach" ELSE "leave", ![r].conn = None]
  <2> DEFINE p == IF config.sessions THEN "detach" ELSE "leave"
             x == [req[r] EXCEPT !.pc = p, !.conn = None]
             y == [Mine(r) EXCEPT !.conn = Dead]
  <2>1. p \in {"detach", "leave"} /\ (p = "leave" => ~config.sessions)
    OBVIOUS
  <2>2. req' = [req EXCEPT ![r].pc = p, ![r].conn = None]
    BY <1>4
  <2> HIDE DEF p
  <2>3. x \in Request /\ x.pc = p /\ x.session = req[r].session /\ req' = [req EXCEPT ![r] = x]
    BY <1>3, <2>1, <2>2
  <2>4. y \in Session /\ y.conn = Dead /\ y.listed = Mine(r).listed /\ y.inUse
    BY <1>1 DEF Session
  <2>5. session' = [session EXCEPT ![req[r].session] = y]
    BY <1>0, <1>1, <1>4 DEF Typed
  <2> HIDE DEF x, y
  <2>6. Leaves(r, x, y)
    BY <1>1, <1>4, <2>1, <2>3, <2>4, <2>5 DEF Leaves
  <2>7. QED
    BY <1>0, <2>6, LeavesIInv
<1>5. CASE /\ Mine(r).conn # Dead /\ config.sessions /\ ~config.tx
           /\ req' = [req EXCEPT ![r].pc = "leave"]
           /\ UNCHANGED <<session, out>>
  <2> DEFINE x == [req[r] EXCEPT !.pc = "leave"]
  <2>1. x \in Request /\ x.pc = "leave" /\ x.session = req[r].session /\ req' = [req EXCEPT ![r] = x]
    BY <1>0, <1>1, <1>5 DEF Request, Typed
  <2> HIDE DEF x
  <2>2. Leaves(r, x, Mine(r))
    BY <1>1, <1>2, <1>5, <2>1 DEF Leaves
  <2>3. QED
    BY <1>0, <2>2, LeavesIInv
<1>6. CASE Mine(r).conn = Dead /\ req' = [req EXCEPT ![r] = Idle] /\ UNCHANGED <<session, out>>
  <2>1. Idle \in Request /\ Idle.pc = "idle" /\ Idle.session = None
    BY DEF Idle, Request
  <2>2. Leaves(r, Idle, Mine(r))
    BY <1>1, <1>2, <1>6, <2>1 DEF Leaves
  <2>3. QED
    BY <1>0, <2>2, LeavesIInv
<1>7. CASE /\ Mine(r).conn = Dead /\ config.tx
           /\ req' = [req EXCEPT ![r].pc = "detach", ![r].conn = None]
           /\ UNCHANGED <<session, out>>
  <2> DEFINE x == [req[r] EXCEPT !.pc = "detach", !.conn = None]
  <2>1. x \in Request /\ x.pc = "detach" /\ x.session = req[r].session /\ req' = [req EXCEPT ![r] = x]
    BY <1>3, <1>7
  <2> HIDE DEF x
  <2>2. Leaves(r, x, Mine(r))
    BY <1>1, <1>2, <1>7, <2>1 DEF Leaves
  <2>3. QED
    BY <1>0, <2>2, LeavesIInv
<1>8. QED
  BY <1>4, <1>5, <1>6, <1>7 DEF Release

\* The session lets go of the connection (releaseSession).
LEMMA DetachIInv ==
    ASSUME IInv, NEW r \in Requests, Detach(r), UNCHANGED config
    PROVE  IInv'
<1>0. /\ Typed /\ Detaching /\ req[r].pc = "detach" /\ req' = [req EXCEPT ![r].pc = "leave"]
      /\ UNCHANGED <<stopper, caller, once, server, closer, exit, watcher, out, lvars>>
  BY DEF IInv, Detach
<1>1. /\ req[r] \in Request /\ req[r].session \in Sessions /\ Mine(r) = session[req[r].session]
      /\ Mine(r) \in Session /\ Mine(r).inUse /\ Mine(r).conn \in {None, Dead}
  BY <1>0, MineLemma DEF Typed, Detaching
<1> DEFINE x == [req[r] EXCEPT !.pc = "leave"]
           y == [Mine(r) EXCEPT !.conn = None]
<1>2. x \in Request /\ x.pc = "leave" /\ x.session = req[r].session /\ req' = [req EXCEPT ![r] = x]
  BY <1>0, <1>1 DEF Request, Typed
<1>3. y \in Session /\ y.conn = None /\ y.listed = Mine(r).listed /\ y.inUse
  BY <1>1 DEF Session
<1>4. session' = [session EXCEPT ![req[r].session] = y]
  BY <1>0, <1>1 DEF Detach, Detached, Typed
<1>5. out \ {Mine(r).conn} = out
  BY <1>0, <1>1, NoConn DEF Typed
<1> HIDE DEF x, y
<1>6. Leaves(r, x, y)
  BY <1>0, <1>1, <1>2, <1>3, <1>4, <1>5 DEF Leaves
<1>7. QED
  BY <1>0, <1>6, LeavesIInv

\* The session is nobody's again, unless its list is gone (leaveSession).
LEMMA LeaveIInv ==
    ASSUME IInv, NEW r \in Requests, Leave(r), UNCHANGED config
    PROVE  IInv'
<1>0. /\ Typed /\ Detaching /\ req[r].pc = "leave" /\ req' = [req EXCEPT ![r] = Idle]
      /\ UNCHANGED <<stopper, caller, once, server, closer, exit, watcher, out, lvars>>
      /\ session' = IF Mine(r).listed THEN [session EXCEPT ![req[r].session].inUse = FALSE] ELSE session
  BY DEF IInv, Leave
<1>1. /\ req[r].session \in Sessions /\ Mine(r) = session[req[r].session] /\ Mine(r) \in Session
      /\ config.tx /\ Mine(r).listed => Mine(r).conn = None
  BY <1>0, MineLemma DEF Typed, Detaching
<1> DEFINE f == FALSE
           y == IF Mine(r).listed THEN [Mine(r) EXCEPT !.inUse = f] ELSE Mine(r)
<1>2. Idle \in Request /\ Idle.pc = "idle" /\ Idle.session = None
  BY DEF Idle, Request
<1>3. session' = [session EXCEPT ![req[r].session] = y]
  BY <1>0, <1>1 DEF Typed
<1>3a. f \in BOOLEAN
  OBVIOUS
<1> HIDE DEF f
<1>4. y \in Session /\ y.conn = Mine(r).conn /\ y.listed = Mine(r).listed
  BY <1>1, <1>3a DEF Session
<1> HIDE DEF y
<1>5. Leaves(r, Idle, y)
  BY <1>0, <1>1, <1>2, <1>3, <1>4 DEF Leaves
<1>6. QED
  BY <1>0, <1>5, LeavesIInv

\* A pass of the watcher gives back what a session has that nobody uses, or
\* the session (sessionWatcher).
LEMMA PassIInv ==
    ASSUME IInv, watcher.pc = "watch", NEW s \in Free, NEW x \in Session,
           x.conn = None, x.listed => session[s].listed, ~x.inUse,
           out' = out \ {session[s].conn}, session' = [session EXCEPT ![s] = x],
           UNCHANGED <<config, stopper, caller, once, server, closer, exit, watcher, req, lvars>>
    PROVE  IInv'
<1>0. Typed /\ Using /\ Orderly /\ Stopping /\ Connected /\ s \in Sessions
  BY DEF IInv, Free
<1>1. \A q \in Requests : req[q].session # s
  BY <1>0, NoConn DEF Using, Free
<1>2. /\ session' \in [Sessions -> Session] /\ session'[s] = x
      /\ \A u \in Sessions : u # s => session'[u] = session[u]
  BY <1>0 DEF Typed
<1>3. out' \in SUBSET Conns /\ out \in SUBSET Conns /\ \A c \in out : c \in out' <=> c # session[s].conn
  BY <1>0 DEF Typed
<1>4. Typed'
  BY <1>0, <1>2, <1>3 DEF Typed
<1>5. \A q \in Requests : req[q].session \in Sessions \cup {None}
  BY <1>0 DEF Typed, Request
<1>6. \A q \in Requests : req[q].session # None => session'[req[q].session] = session[req[q].session]
  BY <1>1, <1>2, <1>5
<1>7. Using'
  <2>1. \A q \in Requests : req[q].session # None => session'[req[q].session].inUse
    BY <1>0, <1>6 DEF Using
  <2>2. ASSUME NEW q \in Requests, req[q].session # None, config.sessions
        PROVE  session'[req[q].session].listed
    <3>1. session[req[q].session].listed
      BY <1>0, <2>2 DEF Using
    <3>2. QED
      BY <1>6, <2>2, <3>1
  <2>3. QED
    BY <1>0, <2>1, <2>2 DEF Using
<1>8. Connected'
  <2>1. ASSUME NEW u \in Sessions, u # s PROVE session'[u].conn \in out' \cup {None, Dead}
    <3>1. session[u].conn \in out \cup {None, Dead}
      BY <1>0 DEF Connected
    <3>2. session[u].conn \in out => session[u].conn # session[s].conn
      BY <1>0, <2>1 DEF Connected
    <3>3. QED
      BY <1>2, <1>3, <2>1, <3>1, <3>2
  <2>2. \A u \in Sessions : session'[u].conn \in out' \cup {None, Dead}
    BY <1>2, <2>1
  <2>3. \A u, v \in Sessions : u # v /\ session'[u].conn \in out' => session'[u].conn # session'[v].conn
    BY <1>0, <1>2, <1>3, NoConn DEF Connected
  <2>4. \A u \in Free' : session'[u].conn = None \/ (u \in Free /\ session'[u] = session[u])
    BY <1>2 DEF Free
  <2>5. QED
    BY <1>0, <2>2, <2>3, <2>4 DEF Connected
<1>9. Orderly'
  <2> SUFFICES ASSUME ~server.expired PROVE Orderly'
    BY <1>0 DEF Orderly
  <2>1. ASSUME NEW q \in Requests, req[q].pc \in {"handle", "release"}
        PROVE  req[q].conn \in out' /\ session'[req[q].session].conn = req[q].conn
    <3>1. req[q].session # None /\ req[q].session \in Sessions
      BY <1>0, <1>5, <2>1 DEF Using
    <3>2. req[q].conn \in out /\ session[req[q].session].conn = req[q].conn
      BY <1>0, <2>1 DEF Orderly
    <3>3. session[req[q].session].conn # session[s].conn
      BY <1>0, <1>1, <3>1, <3>2 DEF Connected
    <3>4. QED
      BY <1>3, <1>6, <3>1, <3>2, <3>3
  <2>2. ASSUME config.sessions, NEW c \in out'
        PROVE  \E u \in Sessions : session'[u].conn = c /\ session'[u].listed
    <3>1. c \in out /\ c # session[s].conn
      BY <1>3, <2>2
    <3>2. PICK u \in Sessions : session[u].conn = c /\ session[u].listed
      BY <1>0, <2>2, <3>1 DEF Orderly
    <3>3. QED
      BY <1>2, <3>1, <3>2
  <2>3. QED
    BY <1>0, <2>1, <2>2 DEF Orderly
<1>10. Detaching'
  <2>1. \A q \in Requests : req[q].session \in Sessions => session'[req[q].session] = session[req[q].session]
    BY <1>1, <1>2
  <2>2. \A u \in Sessions : session'[u].listed => session[u].listed
    BY <1>2
  <2>3. QED
    BY <1>0, <2>1, <2>2, DetachingLemma DEF IInv
<1>11. QED
  BY <1>0, <1>4, <1>7, <1>8, <1>9, <1>10, ServeLemma DEF Stopping

\* The watcher's shutdown gives back what a session has, and takes the list
\* away (sessionWatcher).
LEMMA WalkIInv ==
    ASSUME IInv, watcher.pc = "walk", NEW s \in watcher.todo,
           out' = out \ {session[s].conn},
           session' = [t \in Sessions |-> IF t = s THEN [session[t] EXCEPT !.listed = FALSE, !.conn = Given(@)]
                                          ELSE IF t \in watcher.todo THEN [session[t] EXCEPT !.listed = FALSE]
                                          ELSE session[t]],
           watcher' = [watcher EXCEPT !.todo = @ \ {s}],
           exit' \in {exit, "crashed"},
           UNCHANGED <<config, stopper, caller, once, server, closer, req, lvars>>
    PROVE  IInv'
<1>0. Typed /\ Using /\ Orderly /\ Stopping /\ Connected /\ server.shutdown
  BY DEF IInv, Stopping
<1>1. /\ watcher \in [pc : {"watch", "walk", "over"}, todo : SUBSET Sessions]
      /\ s \in Sessions /\ watcher.todo \in SUBSET Sessions
  BY <1>0 DEF Typed
<1>2. /\ watcher' \in [pc : {"watch", "walk", "over"}, todo : SUBSET Sessions]
      /\ watcher'.pc = "walk" /\ watcher'.todo = watcher.todo \ {s}
  BY <1>1
<1> DEFINE f == FALSE
           After(t) == IF t = s THEN [session[t] EXCEPT !.listed = f, !.conn = Given(session[t].conn)]
                       ELSE IF t \in watcher.todo THEN [session[t] EXCEPT !.listed = f]
                       ELSE session[t]
<1>3. session' = [t \in Sessions |-> After(t)]
  OBVIOUS
<1>4. f \in BOOLEAN /\ ~f
  OBVIOUS
<1> HIDE DEF f
<1>5. ASSUME NEW t \in Sessions
      PROVE  /\ After(t) \in Session /\ After(t).inUse = session[t].inUse
             /\ t = s => ~After(t).listed /\ After(t).conn \in {None, Dead} /\ After(t).conn = Given(session[t].conn)
             /\ t # s => After(t).conn = session[t].conn
             /\ After(t).listed => session[t].listed
  <2>1. session[t] \in Session
    BY <1>0 DEF Typed
  <2>2. Given(session[t].conn) \in {None, Dead}
    BY DEF Given
  <2>3. QED
    BY <1>4, <2>1, <2>2 DEF Session
<1> HIDE DEF After
<1>6. /\ session' \in [Sessions -> Session]
      /\ \A t \in Sessions : session'[t] = After(t)
  BY <1>3, <1>5
<1>7. \A t \in Sessions : /\ session'[t].inUse = session[t].inUse
                          /\ t = s => /\ ~session'[t].listed /\ session'[t].conn \in {None, Dead}
                                      /\ session'[t].conn = Given(session[t].conn)
                          /\ t # s => session'[t].conn = session[t].conn
                          /\ session'[t].listed => session[t].listed
  BY <1>5, <1>6
<1>8. out' \in SUBSET Conns /\ out \in SUBSET Conns /\ out' \subseteq out /\ \A c \in out : c \in out' <=> c # session[s].conn
  BY <1>0 DEF Typed
<1>9. Typed'
  BY <1>0, <1>2, <1>6, <1>8 DEF Typed
<1>10. Using'
  <2>1. \A q \in Requests : req[q].session \in Sessions \cup {None}
    BY <1>0 DEF Typed, Request
  <2>3. \A q \in Requests : /\ req[q].pc \in {"idle", "session"} <=> req[q].session = None
                             /\ req[q].session # None => session'[req[q].session].inUse
    BY <1>0, <1>7, <2>1 DEF Using
  <2>4. watcher'.pc # "watch" /\ req' = req
    BY <1>2
  <2>2. QED
    BY <1>0, <2>3, <2>4 DEF Using
<1>11. Connected'
  <2>1. ASSUME NEW u \in Sessions, u # s PROVE session'[u].conn \in out' \cup {None, Dead}
    <3>1. session[u].conn \in out \cup {None, Dead}
      BY <1>0 DEF Connected
    <3>2. session[u].conn \in out => session[u].conn # session[s].conn
      BY <1>0, <1>1, <2>1 DEF Connected
    <3>3. QED
      BY <1>7, <1>8, <2>1, <3>1, <3>2
  <2>2. \A u \in Sessions : session'[u].conn \in out' \cup {None, Dead}
    BY <1>7, <2>1
  <2>3. ASSUME NEW u \in Sessions, NEW v \in Sessions, u # v, session'[u].conn \in out'
        PROVE  session'[u].conn # session'[v].conn
    <3>1. session'[u].conn \in Conns /\ session'[u].conn \in out
      BY <1>8, <2>3
    <3>2. u # s
      BY <1>7, <3>1, NoConn
    <3>3. session'[u].conn = session[u].conn
      BY <1>7, <3>2
    <3>4. CASE v = s
      <4>1. session'[v].conn \in {None, Dead}
        BY <1>7, <3>4
      <4>2. QED
        BY <3>1, <4>1, NoConn
    <3>5. CASE v # s
      <4>1. session'[v].conn = session[v].conn
        BY <1>7, <3>5
      <4>2. session[u].conn # session[v].conn
        BY <1>0, <2>3, <3>1, <3>3 DEF Connected
      <4>3. QED
        BY <3>3, <4>1, <4>2
    <3>6. QED
      BY <3>4, <3>5
  <2>4. \A u \in Free' : u \in Free /\ session'[u].conn = session[u].conn
    BY <1>7 DEF Free
  <2>5. QED
    BY <1>0, <2>2, <2>3, <2>4 DEF Connected
<1>12. Orderly'
  <2> SUFFICES ASSUME ~server.expired PROVE Orderly'
    BY <1>0 DEF Orderly
  <2>1. \A q \in Requests : req[q].pc = "idle"
    BY <1>0 DEF Orderly
  <2>2. ASSUME config.sessions, NEW c \in out'
        PROVE  \E u \in Sessions : session'[u].conn = c /\ u \in watcher'.todo
    <3>1. c \in out /\ c # session[s].conn
      BY <1>8, <2>2
    <3>2. PICK u \in Sessions : session[u].conn = c /\ u \in watcher.todo
      BY <1>0, <2>2, <3>1 DEF Orderly
    <3>3. QED
      BY <1>2, <1>7, <3>1, <3>2
  <2>3. QED
    BY <1>0, <1>2, <2>1, <2>2 DEF Orderly
<1>13. Detaching'
  <2>1. \A u \in Sessions : session'[u].conn = session[u].conn \/ session'[u].conn = Given(session[u].conn)
    BY <1>7
  <2>2. QED
    BY <1>0, <1>7, <2>1, DetachingLemma DEF IInv
<1>14. QED
  BY <1>0, <1>2, <1>9, <1>10, <1>11, <1>12, <1>13, ServeLemma

\* A step of the watcher (sessionWatcher).
LEMMA WatchIInv ==
    ASSUME IInv, Watch, UNCHANGED config
    PROVE  IInv'
<1>0. /\ Typed /\ Using /\ Orderly /\ Stopping /\ Connected
      /\ UNCHANGED <<stopper, caller, once, server, closer, req, lvars>>
      /\ exit' = exit \/ exit' = "crashed"
  BY DEF IInv, Watch
<1>1. ASSUME watcher.pc = "watch", UNCHANGED <<watcher, exit>>, NEW s \in Free,
             \/ out' = out \ {session[s].conn} /\ session' = [session EXCEPT ![s].conn = None]
             \/ session[s].conn = None /\ session' = [session EXCEPT ![s] = NoSession] /\ UNCHANGED out
      PROVE  IInv'
  <2>1. s \in Sessions /\ session[s] \in Session /\ ~session[s].inUse /\ out \subseteq Conns
    BY <1>0 DEF Typed, Free
  <2>2. CASE out' = out \ {session[s].conn} /\ session' = [session EXCEPT ![s].conn = None]
    <3> DEFINE x == [session[s] EXCEPT !.conn = None]
    <3>1. x \in Session /\ x.conn = None /\ x.listed = session[s].listed /\ x.inUse = session[s].inUse
      BY <2>1 DEF Session
    <3>2. session' = [session EXCEPT ![s] = x]
      BY <1>0, <2>1, <2>2 DEF Typed
    <3> HIDE DEF x
    <3>3. QED
      BY <1>0, <1>1, <2>1, <2>2, <3>1, <3>2, PassIInv
  <2>3. CASE session[s].conn = None /\ session' = [session EXCEPT ![s] = NoSession] /\ UNCHANGED out
    <3>1. NoSession \in Session /\ NoSession.conn = None /\ ~NoSession.listed /\ ~NoSession.inUse
      BY DEF NoSession, Session
    <3>2. out' = out \ {session[s].conn}
      BY <2>1, <2>3, NoConn
    <3>3. QED
      BY <1>0, <1>1, <2>3, <3>1, <3>2, PassIInv
  <2>4. QED
    BY <1>1, <2>2, <2>3
<1>2. CASE /\ watcher.pc = "watch" /\ server.shutdown
           /\ watcher' = [pc |-> "walk", todo |-> {s \in Sessions : session[s].listed}]
           /\ UNCHANGED <<session, out>>
  <2>1. /\ watcher' \in [pc : {"watch", "walk", "over"}, todo : SUBSET Sessions]
        /\ watcher'.pc = "walk" /\ \A s \in Sessions : session[s].listed => s \in watcher'.todo
    BY <1>2
  <2>2. Typed'
    BY <1>0, <1>2, <2>1 DEF Typed
  <2>3. Using' /\ Connected'
    BY <1>0, <1>2, <2>1 DEF Using, Connected, Free
  <2>4. Orderly'
    BY <1>0, <1>2, <2>1 DEF Orderly
  <2>5. Detaching'
    BY <1>0, <1>2, DetachingLemma DEF IInv
  <2>6. QED
    BY <1>0, <1>2, <2>1, <2>2, <2>3, <2>4, <2>5, ServeLemma
<1>3. ASSUME watcher.pc = "walk", NEW s \in watcher.todo,
             out' = out \ {session[s].conn},
             session' = [t \in Sessions |-> IF t = s THEN [session[t] EXCEPT !.listed = FALSE, !.conn = Given(@)]
                                            ELSE IF t \in watcher.todo THEN [session[t] EXCEPT !.listed = FALSE]
                                            ELSE session[t]],
             watcher' = [watcher EXCEPT !.todo = @ \ {s}]
      PROVE  IInv'
  BY <1>0, <1>3, WalkIInv
<1>4. CASE watcher.pc = "walk" /\ watcher.todo = {} /\ watcher' = [watcher EXCEPT !.pc = "over"] /\ UNCHANGED <<session, out>>
  <2>1. watcher \in [pc : {"watch", "walk", "over"}, todo : SUBSET Sessions] /\ server.shutdown
    BY <1>0, <1>4 DEF Typed, Stopping
  <2>2. watcher' \in [pc : {"watch", "walk", "over"}, todo : SUBSET Sessions] /\ watcher'.pc = "over"
    BY <1>4, <2>1
  <2>3. Typed'
    BY <1>0, <1>4, <2>2 DEF Typed
  <2>4. Using' /\ Connected'
    BY <1>0, <1>4, <2>2 DEF Using, Connected, Free
  <2>5. config.sessions /\ ~server.expired => out = {}
    BY <1>0, <1>4 DEF Orderly
  <2>6. Orderly'
    BY <1>0, <1>4, <2>2, <2>5 DEF Orderly
  <2>7. Detaching'
    BY <1>0, <1>4, DetachingLemma DEF IInv
  <2>8. QED
    BY <1>0, <2>1, <2>3, <2>4, <2>6, <2>7, ServeLemma
<1>5. QED
  BY <1>1, <1>2, <1>3, <1>4 DEF Watch

-----------------------------------------------------------------------------
(* The specification.                                                      *)

\* The initial states.
LEMMA InitIInv == Init => IInv
<1> SUFFICES ASSUME Init PROVE IInv
  OBVIOUS
<1>1. config \in Config /\ config.sessions \in BOOLEAN
  BY ServerAssumption DEF Init, Config
<1>2. NoSession \in Session /\ NoSession.conn = None /\ ~NoSession.listed
  BY DEF NoSession, Session
<1>3. Idle \in Request /\ Idle.pc = "idle" /\ Idle.session = None
  BY DEF Idle, Request
<1>4. watcher \in [pc : {"watch", "walk", "over"}, todo : SUBSET Sessions]
      /\ watcher.pc = (IF config.sessions THEN "watch" ELSE "over")
  BY <1>1 DEF Init
<1>5. server \in Flags /\ server.http = "new" /\ ~server.shutdown /\ ~server.completed /\ ~server.expired
  BY DEF Init, Flags
<1>6. /\ session \in [Sessions -> Session] /\ req \in [Requests -> Request] /\ caller \in [Callers -> Stages]
      /\ \A s \in Sessions : session[s] = NoSession
      /\ \A r \in Requests : req[r] = Idle
      /\ \A c \in Callers : caller[c] = "idle"
      /\ out = {} /\ once = None /\ closer = "idle" /\ exit = "none" /\ stopper = "wait"
  BY <1>2, <1>3 DEF Init, Stages
<1>7. Typed
  BY <1>1, <1>4, <1>5, <1>6 DEF Typed
<1>8. ListenerTyped
  <2>1. errors \in 0..MaxErrors
    BY ListenerAssumption DEF Init
  <2>2. loop \in Loop /\ ~LoopIn("store") /\ queue \in Seq(SUBSET Databases)
    BY EmptySeq DEF Init, ListenerInit, Loop, LoopIn
  <2>3. QED
    BY <2>1, <2>2 DEF Init, ListenerInit, ListenerTyped
<1>9. Stopping
  BY <1>4, <1>5, <1>6 DEF Stopping, Callers
<1>10. Using
  BY <1>3, <1>6 DEF Using
<1>11. Connected
  <2>1. Free = {} /\ \A s \in Sessions : session[s].conn = None
    BY <1>2, <1>6 DEF Free
  <2>2. QED
    BY <1>6, <2>1 DEF Connected
<1>12. Orderly
  BY <1>3, <1>5, <1>6 DEF Orderly
<1>13. Detaching
  BY <1>2, <1>3, <1>6 DEF Detaching
<1>14. QED
  BY <1>7, <1>8, <1>9, <1>10, <1>11, <1>12, <1>13 DEF IInv

\* A step that changes nothing.
LEMMA StutterIInv ==
    ASSUME IInv, UNCHANGED vars
    PROVE  IInv'
<1>0. /\ UNCHANGED <<config, stopper, caller, once, server, closer, exit, session, watcher, out, req, lvars>>
      /\ Typed /\ Using /\ Orderly /\ Stopping /\ Connected
  BY DEF IInv, vars, svars
<1>1. Typed'
  BY <1>0 DEF Typed
<1>2. Using' /\ Connected' /\ Orderly' /\ Detaching'
  BY <1>0 DEF IInv, Using, Connected, Orderly, Detaching, Free
<1>3. QED
  BY <1>0, <1>1, <1>2, ServeLemma DEF Stopping

\* Every step keeps the invariant.
LEMMA NextIInv == IInv /\ [Next]_vars => IInv'
<1> SUFFICES ASSUME IInv, [Next]_vars PROVE IInv'
  OBVIOUS
<1>1. CASE UNCHANGED vars
  BY <1>1, StutterIInv
<1>2. CASE Next
  <2>1. CASE Listener \/ External
    BY <2>1, OutsideIInv
  <2>2. CASE Step /\ UNCHANGED config
    <3>1. exit = "none"
      BY <1>2 DEF Next
    <3>2. CASE Start \/ Finish \/ StopHandler \/ Embedder \/ Close \/ Watch
      BY <2>2, <3>1, <3>2, StartIInv, FinishIInv, StopHandlerIInv, EmbedderIInv, CloseIInv,
         WatchIInv
    <3>3. CASE \E s \in config.signals : Signal(s)
      BY <2>2, <3>1, <3>3, SignalIInv
    <3>4. CASE \E c \in Callers : Shutdown(c)
      BY <2>2, <3>1, <3>4, ShutdownIInv
    <3>5. ASSUME NEW r \in Requests, Accept(r) \/ Serve(r) \/ HandlerEnds(r)
          PROVE  IInv'
      BY <2>2, <3>1, <3>5, AcceptIInv, GetSessionIInv, AcquireIInv, HandlerEndsIInv, ReleaseIInv, DetachIInv, LeaveIInv
         DEF Serve
    <3>6. QED
      BY <2>2, <3>2, <3>3, <3>4, <3>5 DEF Step
  <2>3. QED
    BY <1>2, <2>1, <2>2 DEF Next
<1>3. QED
  BY <1>1, <1>2

\* What the properties take from it.
LEMMA IInvTypeOK == IInv => TypeOK
<1> SUFFICES ASSUME IInv PROVE TypeOK
  OBVIOUS
<1>1. Connected
  BY DEF IInv
<1>2. loop.todo \subseteq Databases /\ missed \subseteq Databases /\ errors <= MaxErrors
  BY ListenerAssumption DEF IInv, ListenerTyped, Loop
<1>3. QED
  BY <1>1, <1>2 DEF Connected, TypeOK

\* And the order of the end.
LEMMA IInvInOrder == IInv => InOrder
<1> SUFFICES ASSUME IInv PROVE InOrder
  OBVIOUS
<1>0. Typed /\ Stopping /\ Orderly
  BY DEF IInv
<1>1. ASSUME ~server.expired, NEW r \in Requests, req[r].pc \in {"handle", "release"}
      PROVE  req[r].conn \in out /\ Mine(r).conn = req[r].conn /\ Open
  <2>1. ~server.shutdown
    BY <1>0, <1>1 DEF Orderly
  <2>2. Open
    BY <1>0, <2>1 DEF Stopping, Open
  <2>3. QED
    BY <1>0, <1>1, <2>2 DEF Orderly, Mine
<1>2. server.shutdown /\ ~server.expired => \A r \in Requests : ~Active(r)
  BY <1>0 DEF Orderly, Active
<1>3. ~server.expired /\ config.sessions /\ watcher.pc = "over" => out = {}
  BY <1>0 DEF Orderly
<1>4. /\ server.http = "closed" => ~Ready
      /\ watcher.pc = "walk" => server.shutdown
      /\ closer \in {"pool", "done"} => LoopIn("over")
      /\ exit = "stopped" => server.shutdown /\ \E c \in Callers : caller[c] \in {"end", "returned"}
  BY <1>0 DEF Stopping, Ready
<1>5. QED
  BY <1>1, <1>2, <1>3, <1>4 DEF InOrder

\* The inductive invariant: what the requests, the sessions, the pool and the
\* callers of Shutdown have at every stage of the server's life (Server.Run,
\* Server.Shutdown, sessionWatcher, DbEngine.Close).
THEOREM Invariance == Spec => []IInv
<1>1. Init => IInv
  BY InitIInv
<1>2. IInv /\ [Next]_vars => IInv'
  BY NextIInv
<1>3. QED
  BY <1>1, <1>2, PTL DEF Spec

\* What is acquired is what one session has, and a session that nobody uses has
\* nothing with transactions (acquireSession, releaseSession, sessionWatcher).
THEOREM TypeCorrect == Spec => []TypeOK
BY Invariance, IInvTypeOK, PTL

\* The parts stop in an order in which none needs what is gone: readiness, HTTP,
\* the requests, the watcher, the listener, the pool; and all of it before a
\* clean exit (Server.Shutdown, DbEngine.Close, sessionWatcher).
THEOREM InOrderCorrect == Spec => []InOrder
BY Invariance, IInvInOrder, PTL

=============================================================================
