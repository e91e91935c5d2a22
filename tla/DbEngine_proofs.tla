--------------------------- MODULE DbEngine_proofs ---------------------------
(***************************************************************************)
(* Theorems about the activation of databases (DbEngine), for every number *)
(* of callers, names and Database objects. What has to be shown relates    *)
(* three things that change at different moments: the entry of a name in   *)
(* activeDatabases, the object it points to, and the callers that hold a   *)
(* pointer to that object.                                                 *)
(***************************************************************************)
EXTENDS DbEngine, TLAPS

\* Between StorePlaceholder and the end of Undo: the object is the caller's own.
Making(c) == Activating(c) \/ At(c, "undo")

\* The creation lock is held from Lock to the end of the operation.
Locked ==
    lock # None => call[lock].pc \in {"create", "created", "get", "wait", "lookup", "activate", "pool", "undo"}

\* Nobody shares the object that he makes, which has no pool as yet.
MadeAlone ==
    /\ \A c \in Callers : Making(c) => DbOf(c) \in Databases /\ db[DbOf(c)].pool = "nil"
    /\ \A c1, c2 \in Callers : c1 # c2 /\ Making(c1) /\ Making(c2) => DbOf(c1) # DbOf(c2)

\* A deletion has closed the pool before it waits for the connections, and the
\* listener does not delete.
Draining ==
    \A c \in Callers : /\ call[c].pc \in {"close", "drain", "drop"} => c \in Deleters
                       /\ call[c].pc \in {"close", "drain"} => DbOf(c) \in Databases
                       /\ At(c, "drain") => db[DbOf(c)].pool = "closed"

\* An operation on a database has its name.
Named ==
    \A c \in Callers :
        call[c].pc \notin {"idle", "reload next", "reload", "reloading", "crashed"} => NameOf(c) \in Names

IInv == TypeOK /\ Locked /\ Named /\ MadeAlone /\ OneActivator /\ Draining /\ DropQuiesced

\* The entry of a name points to an object of that name.
EntryNamed == \A n \in Names : active[n] # None => db[active[n]].name = n

\* The entry of an activation is in the map until its own Undo removes it.
MadeListed == \A c \in Callers : Making(c) => active[NameOf(c)] = DbOf(c)

\* What a deletion found is still the entry when it closes and removes it,
\* unless it had no pool when the deletion came to it.
DeletesItsOwn ==
    \A c \in Callers : call[c].pc \in {"close", "drain"} =>
        /\ db[DbOf(c)].name = NameOf(c)
        /\ db[DbOf(c)].pool # "nil" => active[NameOf(c)] = DbOf(c)

\* An object with an open pool is the object of a name.
OpenNamed == \A d \in Databases : db[d].pool = "open" => db[d].name \in Names

Listed == EntryNamed /\ MadeListed /\ DeletesItsOwn /\ OpenNamed /\ OpenPoolsReachable

\* At most one caller deletes databases.
OneDeleter == \A a, b \in Deleters : a = b

-----------------------------------------------------------------------------
(* What a step says of the callers.                                        *)

Call == [pc : {"idle", "lock", "create", "created", "get", "wait", "lookup", "activate", "pool", "undo",
               "use", "connected", "close", "drain", "drop",
               "reload next", "reload", "reloading", "crashed"},
         op : AllOps, name : Names \cup {None}, db : Databases \cup {None},
         attempt : 1 .. 3, todo : SUBSET Names]

\* The other callers stay where they are.
Others(c) == \A e \in Callers \ {c} : call'[e] = call[e]

\* The caller becomes x.
LEMMA CallLemma ==
    ASSUME TypeOK, NEW c \in Callers, NEW x \in Call, call' = [call EXCEPT ![c] = x]
    PROVE  call' \in [Callers -> Call] /\ Others(c) /\ call'[c] = x
BY DEF TypeOK, Call, Others

\* The object becomes y.
LEMMA ObjectLemma ==
    ASSUME db \in [Databases -> Database], NEW d \in Databases, NEW y \in Database, db' = [db EXCEPT ![d] = y]
    PROVE  /\ db' \in [Databases -> Database] /\ db'[d] = y
           /\ \A e \in Databases : e # d => db'[e] = db[e]
BY DEF Database

\* The caller is a record, and goes on as one.
LEMMA GotoLemma ==
    ASSUME TypeOK, NEW c \in Callers,
           NEW l \in {"use", "activate", "undo", "pool", "connected", "drain", "drop", "reloading", "created"},
           Goto(c, l)
    PROVE  /\ call' \in [Callers -> Call] /\ Others(c)
           /\ call'[c] \in Call
           /\ call'[c].pc = l /\ call'[c].db = call[c].db /\ call'[c].name = call[c].name
           /\ call'[c].attempt = call[c].attempt /\ call'[c].op = call[c].op
<1>1. call[c] \in Call /\ [call[c] EXCEPT !.pc = l] \in Call
  BY DEF TypeOK, Call
<1>2. call' = [call EXCEPT ![c] = [call[c] EXCEPT !.pc = l]]
  BY DEF Goto
<1>3. call' \in [Callers -> Call] /\ Others(c) /\ call'[c] = [call[c] EXCEPT !.pc = l]
  BY <1>1, <1>2, CallLemma
<1>4. QED
  BY <1>1, <1>3 DEF Call

\* Back to the start.
LEMMA FinishLemma ==
    ASSUME TypeOK, NEW c \in Callers, Finish(c)
    PROVE  /\ call' \in [Callers -> Call] /\ Others(c)
           /\ call'[c] \in Call /\ call'[c].pc = "idle" /\ call'[c].attempt = 1
<1>1. Idle \in Call /\ Idle.pc = "idle" /\ Idle.attempt = 1
  BY DEF Idle, Call, AllOps
<1>2. QED
  BY <1>1, CallLemma DEF Finish

\* What each caller and the lock need of the step of one caller.
LEMMA LocalNext ==
    ASSUME IInv, NEW c \in Callers, Others(c), call' \in [Callers -> Call],
           cluster' \subseteq Names,
           active' \in [Names -> Databases \cup {None}],
           db' \in [Databases -> Database],
           lock' \in {lock, None, c},
           lock' = c => call'[c].attempt > 1
                        /\ call'[c].pc \in {"create", "created", "get", "wait", "lookup", "activate", "pool", "undo"},
           call'[c].pc \notin {"idle", "reload next", "reload", "reloading", "crashed"} => NameOf(c)' \in Names
    PROVE  TypeOK' /\ Locked' /\ Named'
<1> USE ConstantsAssumption DEF IInv, Others
<1>1. TypeOK'
  <2>1. call' \in [Callers -> Call] /\ lock' \in Callers \cup {None}
    BY DEF TypeOK
  <2>2. lock' # None => call'[lock'].attempt > 1
    BY DEF TypeOK
  <2>3. QED
    BY <2>1, <2>2 DEF TypeOK, Call
<1>2. Locked'
  BY DEF TypeOK, Locked
<1>3. Named'
  BY DEF Named, NameOf
<1>4. QED
  BY <1>1, <1>2, <1>3

\* GetActiveDatabase returns to its caller or to GetOrCreateActiveDatabase,
\* which keeps the lock if it has it, or to nobody.
LEMMA ReturnsLemma ==
    ASSUME IInv, NEW c \in Callers, NEW ok \in BOOLEAN, Returns(c, ok)
    PROVE  /\ call' \in [Callers -> Call] /\ Others(c)
           /\ lock' \in {lock, None}
           /\ lock' = c => call'[c].attempt > 1 /\ call'[c].pc = "create"
           /\ ok => call'[c].pc = "use"
           /\ ~ok => call'[c].pc \in {"idle", "lock", "create"}
           /\ call'[c].pc # "idle" => call'[c].name = call[c].name
           /\ ok => call'[c].db = call[c].db
<1> USE DEF IInv
<1>1. lock \in Callers \cup {None} /\ (lock = c => call[c].attempt > 1)
  BY ConstantsAssumption DEF TypeOK
<1>2. CASE ok
  <2>1. Goto(c, "use") /\ lock' = Unlocked(c)
    BY <1>2 DEF Returns
  <2>2. QED
    BY <1>1, <1>2, <2>1, GotoLemma, ConstantsAssumption DEF Unlocked
<1>3. CASE ~ok /\ call[c].op = "get or create" /\ call[c].attempt < 3
  <2> DEFINE l == IF call[c].attempt = 1 THEN "lock" ELSE "create"
             x == [call[c] EXCEPT !.pc = l, !.db = None]
  <2>1. call[c] \in Call /\ call[c].attempt \in 1 .. 3
    BY DEF TypeOK, Call
  <2>2. call' = [call EXCEPT ![c] = x] /\ lock' = lock
    BY <1>3 DEF Returns, TypeOK
  <2>6. l \in {"lock", "create"} /\ (call[c].attempt > 1 => l = "create")
    BY <2>1
  <2> HIDE DEF l
  <2>3. x \in Call /\ x.pc = l /\ x.attempt = call[c].attempt /\ x.name = call[c].name
    BY <2>1, <2>6 DEF Call
  <2>4. call' \in [Callers -> Call] /\ Others(c) /\ call'[c] = x
    BY <2>2, <2>3, CallLemma
  <2>7. call'[c].pc = l /\ call'[c].attempt = call[c].attempt /\ call'[c].name = call[c].name
    BY <2>3, <2>4
  <2>5. QED
    BY <1>1, <1>3, <2>2, <2>4, <2>6, <2>7
<1>4. CASE ~ok /\ ~(call[c].op = "get or create" /\ call[c].attempt < 3)
  <2>1. Finish(c) /\ lock' = Unlocked(c)
    BY <1>4 DEF Returns
  <2>2. QED
    BY <1>1, <1>4, <2>1, FinishLemma, ConstantsAssumption DEF Unlocked
<1>5. QED
  BY <1>2, <1>3, <1>4

-----------------------------------------------------------------------------
(* What holds of the objects.                                              *)

\* A step that changes no channel and no pool.
LEMMA SameObjects ==
    ASSUME IInv, TypeOK', NEW c \in Callers, Others(c),
           \A n \in Names : active'[n] \in {active[n], None},
           \A d \in Databases : db'[d].closed = db[d].closed /\ db'[d].pool = db[d].pool,
           Making(c)' => Making(c) /\ DbOf(c)' = DbOf(c),
           Activating(c)' <=> Activating(c),
           call'[c].pc \in {"close", "drain", "drop"} => c \in Deleters,
           call'[c].pc \in {"close", "drain"} => DbOf(c)' \in Databases,
           ~At(c, "drain")',
           At(c, "drop")' => DbOf(c)' = None \/ (Drained(c) /\ DbOf(c)' = DbOf(c)),
           call'[c].pc \in {"connected", "reloading"} => db[DbOf(c)'].pool = "open"
    PROVE  IInv' <=> Locked' /\ Named'
<1> USE DEF IInv, At, DbOf, Others
<1>0. /\ \A e \in Callers : call[e].db \in Databases \cup {None} /\ call'[e].db \in Databases \cup {None}
      /\ \A n \in Names : active[n] \in Databases \cup {None} /\ active'[n] \in Databases \cup {None}
      /\ None \notin Databases
  BY ConstantsAssumption DEF TypeOK
<1>1. MadeAlone'
  BY DEF MadeAlone, Making, Activating
<1>2. OneActivator'
  <2>1. \A e \in Callers : Activating(e)' <=> Activating(e)
    BY DEF Activating
  <2>2. \A e \in Callers : Activating(e) => DbOf(e)' = DbOf(e) /\ DbOf(e) \in Databases
    BY DEF Activating, Making, MadeAlone
  <2>3. \A n \in Names : active'[n] # None => active'[n] = active[n] /\ active[n] \in Databases
    BY <1>0
  <2>4. QED
    BY <2>1, <2>2, <2>3 DEF OneActivator
<1>3. Draining'
  BY DEF Draining
<1>4. DropQuiesced'
  <2> SUFFICES ASSUME NEW e \in Callers, At(e, "drop")', DbOf(e)' # None
               PROVE  db'[DbOf(e)'].pool = "closed" /\ ~Connected(DbOf(e))' /\ ~Reloading(DbOf(e))'
    BY DEF DropQuiesced
  <2>1. DbOf(e)' = DbOf(e) /\ db[DbOf(e)].pool = "closed" /\ ~Connected(DbOf(e)) /\ ~Reloading(DbOf(e))
    BY DEF DropQuiesced, Draining, Drained
  <2>2. DbOf(e) \in Databases
    BY <1>0, <2>1
  <2>3. QED
    BY <2>1, <2>2 DEF Connected, Reloading
<1>5. QED
  BY <1>1, <1>2, <1>3, <1>4

\* A step that changes nothing but its caller.
LEMMA CallOnly ==
    ASSUME IInv, TypeOK', NEW c \in Callers, Others(c), UNCHANGED <<active, db>>,
           ~Making(c), ~Making(c)', ~At(c, "drain")',
           call'[c].pc \in {"close", "drop"} => c \in Deleters,
           At(c, "close")' => DbOf(c)' \in Databases,
           At(c, "drop")' => DbOf(c)' = None,
           call'[c].pc \in {"connected", "reloading"} => db[DbOf(c)'].pool = "open"
    PROVE  IInv' <=> Locked' /\ Named'
<1>1. \A n \in Names : active'[n] \in {active[n], None}
  OBVIOUS
<1>2. ~Activating(c) /\ ~Activating(c)'
  BY DEF Making
<1>3. QED
  BY <1>1, <1>2, SameObjects DEF At

\* The activation is over: the channel of its object is closed.
LEMMA ObjectClosed ==
    ASSUME IInv, TypeOK', NEW c \in Callers, Others(c), UNCHANGED active, Activating(c),
           \A d \in Databases : d # DbOf(c) => db'[d] = db[d],
           db'[DbOf(c)].closed,
           \/ At(c, "undo")' /\ DbOf(c)' = DbOf(c) /\ db'[DbOf(c)].pool = db[DbOf(c)].pool
           \/ At(c, "use")'
    PROVE  IInv' <=> Locked' /\ Named'
<1> USE DEF IInv, At, DbOf, Others
<1>0. /\ \A e \in Callers : call[e].db \in Databases \cup {None}
      /\ \A n \in Names : active[n] \in Databases \cup {None}
      /\ None \notin Databases
  BY ConstantsAssumption DEF TypeOK
<1>1. /\ DbOf(c) \in Databases /\ db[DbOf(c)].pool = "nil"
      /\ \A e \in Callers \ {c} : Making(e) => DbOf(e) # DbOf(c)
  BY DEF MadeAlone, Making
<1>2. ~Activating(c)' /\ \A e \in Callers \ {c} : (Making(e)' <=> Making(e)) /\ (Activating(e)' <=> Activating(e))
  BY DEF Activating, Making
<1>3. MadeAlone'
  <2>1. Making(c)' => DbOf(c)' = DbOf(c) /\ db'[DbOf(c)].pool = "nil"
    BY <1>1 DEF Making, Activating
  <2>2. QED
    BY <1>1, <1>2, <2>1 DEF MadeAlone
<1>4. OneActivator'
  <2>1. \A e \in Callers \ {c} : Activating(e) => DbOf(e) # DbOf(c) /\ DbOf(e) \in Databases /\ DbOf(e)' = DbOf(e)
    BY <1>1 DEF Making, MadeAlone
  <2>2. \A n \in Names : active'[n] # None /\ ~db'[active'[n]].closed => active[n] \in Databases /\ active[n] # DbOf(c)
    BY <1>0
  <2>3. QED
    BY <1>2, <2>1, <2>2 DEF OneActivator
<1>5. Draining'
  BY <1>1 DEF Draining, Activating
<1>6. DropQuiesced'
  <2>1. \A d : (Connected(d)' => Connected(d)) /\ (Reloading(d)' => Reloading(d))
    BY DEF Connected, Reloading
  <2>2. QED
    BY <1>0, <1>1, <2>1 DEF DropQuiesced
<1>7. QED
  BY <1>3, <1>4, <1>5, <1>6
-----------------------------------------------------------------------------
(* The actions.                                                            *)

\* The holder of the lock is in the middle of an operation.
LEMMA LockHolder ==
    ASSUME IInv, NEW c \in Callers,
           call[c].pc \notin {"create", "created", "get", "wait", "lookup", "activate", "pool", "undo"}
    PROVE  lock # c
BY ConstantsAssumption DEF IInv, Locked

\* The lock stays with somebody else.
LEMMA NotHolder ==
    ASSUME IInv, NEW c \in Callers, Others(c), call' \in [Callers -> Call], UNCHANGED <<active, db, lock>>,
           cluster' \subseteq Names, lock # c,
           call'[c].pc \notin {"idle", "reload next", "reload", "reloading", "crashed"} => NameOf(c)' \in Names
    PROVE  TypeOK' /\ Locked' /\ Named'
<1>1. /\ active' \in [Names -> Databases \cup {None}] /\ db' \in [Databases -> Database]
      /\ lock' \in {lock, None, c} /\ lock' # c
  BY DEF IInv, TypeOK
<1>2. QED
  BY <1>1, LocalNext

\* Operations that end without the lock: UseFails, Disconnect, DeletePanics,
\* Drop, ReloadEnd.
LEMMA FinishIInv ==
    ASSUME IInv, NEW c \in Callers, Finish(c), UNCHANGED <<active, db, lock>>, cluster' \subseteq Names,
           call[c].pc \in {"use", "connected", "close", "drop", "reload next"}
    PROVE  IInv'
<1>1. /\ call' \in [Callers -> Call] /\ Others(c) /\ At(c, "idle")'
  BY FinishLemma DEF IInv, At
<1>2. TypeOK' /\ Locked' /\ Named'
  BY <1>1, LockHolder, NotHolder DEF At
<1>3. QED
  BY <1>1, <1>2, CallOnly DEF At, Making, Activating

\* Operations that begin.
LEMMA BeginIInv ==
    ASSUME IInv, NEW c \in Callers, NEW x \in Call, call' = [call EXCEPT ![c] = x], At(c, "idle"),
           UNCHANGED <<cluster, active, db, lock>>,
           \/ x.pc \in {"get", "lock"} /\ x.name \in Names
           \/ x.pc = "close" /\ x.name \in Names /\ x.db \in Databases /\ c \in Deleters
           \/ x.pc = "drop" /\ x.name \in Names /\ x.db = None /\ c \in Deleters
           \/ x.pc = "reload next"
    PROVE  IInv'
<1>1. call' \in [Callers -> Call] /\ Others(c) /\ call'[c] = x
  BY CallLemma DEF IInv
<1>2. lock # c /\ cluster' \subseteq Names
  BY LockHolder DEF IInv, TypeOK, At
<1>3. TypeOK' /\ Locked' /\ Named'
  BY <1>1, <1>2, NotHolder DEF NameOf
<1>4. QED
  BY <1>1, <1>3, CallOnly DEF At, DbOf, Making, Activating

\* Records of callers.
Labels == {"idle", "lock", "create", "created", "get", "wait", "lookup", "activate", "pool", "undo",
           "use", "connected", "close", "drain", "drop",
           "reload next", "reload", "reloading", "crashed"}

\* A caller that does nothing.
LEMMA IdleLemma == Idle \in Call /\ Idle.pc = "idle" /\ Idle.attempt = 1
BY DEF Idle, Call, AllOps

\* Enter, DeleteLoad, ReloadStart.
LEMMA EntryIInv ==
    ASSUME IInv, NEW c \in Callers, Enter(c) \/ DeleteLoad(c) \/ ReloadStart(c)
    PROVE  IInv'
<1>1. CASE Enter(c)
  <2>1. PICK op \in Ops, n \in Names :
          call' = [call EXCEPT ![c] = [Idle EXCEPT !.pc = IF op = "create" THEN "lock" ELSE "get",
                                                   !.op = op, !.name = n]]
    BY <1>1 DEF Enter
  <2> DEFINE l == IF op = "create" THEN "lock" ELSE "get"
             x == [Idle EXCEPT !.pc = l, !.op = op, !.name = n]
  <2>4. l \in {"get", "lock"} /\ l \in Labels /\ op \in AllOps
    BY ConstantsAssumption DEF Labels
  <2>2. x \in Call /\ x.pc \in {"get", "lock"} /\ x.name = n
    <3> HIDE DEF l
    <3>1. Call = [pc : Labels, op : AllOps, name : Names \cup {None}, db : Databases \cup {None},
                  attempt : 1 .. 3, todo : SUBSET Names]
      BY DEF Call, Labels
    <3>2. Idle \in Call
      BY IdleLemma
    <3>3. x \in Call
      BY <2>4, <3>1, <3>2
    <3>4. x.pc = l /\ x.name = n
      BY <3>1, <3>2
    <3>5. QED
      BY <2>4, <3>3, <3>4
  <2>5. call' = [call EXCEPT ![c] = x] /\ At(c, "idle") /\ UNCHANGED <<cluster, active, db, lock>>
    BY <1>1, <2>1 DEF Enter
  <2> HIDE DEF x, l
  <2>3. QED
    BY <2>2, <2>5, BeginIInv
<1>2. CASE DeleteLoad(c)
  <2>1. PICK n \in Names :
          call' = [call EXCEPT ![c] = [Idle EXCEPT !.pc = ClosesFirst(n), !.name = n, !.db = active[n]]]
    BY <1>2 DEF DeleteLoad
  <2> DEFINE x == [Idle EXCEPT !.pc = ClosesFirst(n), !.name = n, !.db = active[n]]
  <2>2. active[n] \in Databases \cup {None} /\ ClosesFirst(n) \in {"close", "drop"}
    BY DEF IInv, TypeOK, ClosesFirst
  <2>3. x \in Call /\ x.pc = ClosesFirst(n) /\ x.name = n /\ x.db = active[n]
    <3>1. ClosesFirst(n) \in Labels
      BY <2>2 DEF Labels
    <3>2. Idle \in Call
      BY IdleLemma
    <3>3. QED
      BY <2>2, <3>1, <3>2 DEF Call, Labels
  <2>4. \/ ClosesFirst(n) = "close" /\ active[n] \in Databases
        \/ ClosesFirst(n) = "drop" /\ active[n] = None
    BY <2>2 DEF ClosesFirst
  <2>5. QED
    BY <1>2, <2>1, <2>3, <2>4, BeginIInv DEF DeleteLoad
<1>3. CASE ReloadStart(c)
  <2>1. PICK todo \in {{n} : n \in Names} \cup {Names} :
          call' = [call EXCEPT ![c] = [Idle EXCEPT !.pc = "reload next", !.todo = todo]]
    BY <1>3 DEF ReloadStart
  <2>2. [Idle EXCEPT !.pc = "reload next", !.todo = todo] \in Call
    BY IdleLemma DEF Call
  <2>3. [Idle EXCEPT !.pc = "reload next", !.todo = todo].pc = "reload next"
    BY IdleLemma DEF Call
  <2>4. QED
    BY <1>3, <2>1, <2>2, <2>3, BeginIInv DEF ReloadStart
<1>4. QED
  BY <1>1, <1>2, <1>3

\* The creation lock is taken.
LEMMA LockIInv ==
    ASSUME IInv, NEW c \in Callers, Lock(c)
    PROVE  IInv'
<1> DEFINE l == IF call[c].op = "create" THEN "create" ELSE "get"
           k == 2
           x == [call[c] EXCEPT !.pc = l, !.attempt = k]
<1>1. call[c] \in Call /\ NameOf(c) \in Names
  BY DEF IInv, TypeOK, Call, Named, Lock, At
<1>2. call' = [call EXCEPT ![c] = x]
  BY DEF Lock, IInv, TypeOK
<1>3. l \in {"create", "get"} /\ l \in Labels
  BY DEF Labels
<1>4. k \in 1 .. 3 /\ k > 1
  OBVIOUS
<1> HIDE DEF l, k
<1>5. x \in Call /\ x.pc = l /\ x.attempt > 1 /\ x.name = call[c].name
  BY <1>1, <1>3, <1>4 DEF Call, Labels
<1> HIDE DEF x
<1>6. call' \in [Callers -> Call] /\ Others(c) /\ call'[c] = x
  BY <1>2, <1>5, CallLemma DEF IInv
<1>7. call'[c].pc \in {"create", "get"} /\ call'[c].attempt > 1 /\ NameOf(c)' \in Names
  BY <1>1, <1>3, <1>5, <1>6 DEF NameOf
<1>8. TypeOK' /\ Locked' /\ Named'
  <2>1. /\ active' \in [Names -> Databases \cup {None}] /\ db' \in [Databases -> Database]
        /\ lock' \in {lock, None, c} /\ cluster' \subseteq Names
    BY DEF Lock, IInv, TypeOK
  <2>2. QED
    BY <1>6, <1>7, <2>1, LocalNext
<1>9. QED
  BY <1>6, <1>7, <1>8, CallOnly DEF Lock, At, Making, Activating

\* CREATE DATABASE succeeds, or the operation ends and the lock is given back.
LEMMA CreateIInv ==
    ASSUME IInv, NEW c \in Callers, Create(c)
    PROVE  IInv'
<1>1. call[c] \in Call /\ NameOf(c) \in Names /\ At(c, "create")
  BY DEF IInv, TypeOK, Call, Named, Create, At
<1>2. CASE Goto(c, "created") /\ cluster' = cluster \cup {NameOf(c)} /\ lock' = lock
  <2>1. /\ call' \in [Callers -> Call] /\ Others(c) /\ call'[c].pc = "created"
        /\ call'[c].attempt = call[c].attempt /\ NameOf(c)' = NameOf(c)
    BY <1>2, GotoLemma DEF IInv, NameOf
  <2>2. /\ active' \in [Names -> Databases \cup {None}] /\ db' \in [Databases -> Database]
        /\ lock' \in {lock, None, c} /\ cluster' \subseteq Names
        /\ lock' = c => call'[c].attempt > 1
    BY <1>1, <1>2, <2>1, ConstantsAssumption DEF Create, IInv, TypeOK
  <2>3. TypeOK' /\ Locked' /\ Named'
    BY <1>1, <2>1, <2>2, LocalNext
  <2>4. QED
    BY <1>1, <2>1, <2>3, CallOnly DEF Create, At, Making, Activating
<1>3. CASE Finish(c) /\ lock' = Unlocked(c) /\ UNCHANGED cluster
  <2>1. /\ call' \in [Callers -> Call] /\ Others(c) /\ At(c, "idle")'
    BY <1>3, FinishLemma DEF IInv, At
  <2>2. /\ active' \in [Names -> Databases \cup {None}] /\ db' \in [Databases -> Database]
        /\ lock' \in {lock, None, c} /\ lock' # c /\ cluster' \subseteq Names
    BY <1>3, ConstantsAssumption DEF Create, IInv, TypeOK, Unlocked
  <2>3. TypeOK' /\ Locked' /\ Named'
    BY <2>1, <2>2, LocalNext DEF At
  <2>4. QED
    BY <1>1, <2>1, <2>3, CallOnly DEF Create, At, Making, Activating
<1>4. QED
  BY <1>2, <1>3 DEF Create

\* The new database is found, or the operation ends and the lock is given back.
LEMMA CreatedIInv ==
    ASSUME IInv, NEW c \in Callers, Created(c)
    PROVE  IInv'
<1> DEFINE l == "get"
           k == 3
           x == [call[c] EXCEPT !.pc = l, !.attempt = k]
<1>1. call[c] \in Call /\ NameOf(c) \in Names /\ At(c, "created")
  BY DEF IInv, TypeOK, Call, Named, Created, At
<1>2. CASE call' = [call EXCEPT ![c].pc = "get", ![c].attempt = 3] /\ lock' = lock
  <2>1. call' = [call EXCEPT ![c] = x]
    BY <1>2 DEF IInv, TypeOK
  <2>2. l = "get" /\ l \in Labels
    BY DEF Labels
  <2>3. k \in 1 .. 3 /\ k > 1
    OBVIOUS
  <2> HIDE DEF l, k
  <2>4. x \in Call /\ x.pc = l /\ x.attempt > 1 /\ x.name = call[c].name
    BY <1>1, <2>2, <2>3 DEF Call, Labels
  <2> HIDE DEF x
  <2>5. call' \in [Callers -> Call] /\ Others(c) /\ call'[c] = x
    BY <2>1, <2>4, CallLemma DEF IInv
  <2>6. call'[c].pc = "get" /\ call'[c].attempt > 1 /\ NameOf(c)' \in Names
    BY <1>1, <2>2, <2>4, <2>5 DEF NameOf
  <2>7. /\ active' \in [Names -> Databases \cup {None}] /\ db' \in [Databases -> Database]
        /\ lock' \in {lock, None, c} /\ cluster' \subseteq Names
    BY <1>1, <1>2 DEF Created, IInv, TypeOK
  <2>8. TypeOK' /\ Locked' /\ Named'
    BY <2>5, <2>6, <2>7, LocalNext
  <2>9. QED
    BY <1>1, <2>5, <2>6, <2>8, CallOnly DEF Created, At, Making, Activating
<1>3. CASE Finish(c) /\ lock' = Unlocked(c)
  <2>1. /\ call' \in [Callers -> Call] /\ Others(c) /\ At(c, "idle")'
    BY <1>3, FinishLemma DEF IInv, At
  <2>2. /\ active' \in [Names -> Databases \cup {None}] /\ db' \in [Databases -> Database]
        /\ lock' \in {lock, None, c} /\ lock' # c /\ cluster' \subseteq Names
    BY <1>3, ConstantsAssumption DEF Created, IInv, TypeOK, Unlocked
  <2>3. TypeOK' /\ Locked' /\ Named'
    BY <2>1, <2>2, LocalNext DEF At
  <2>4. QED
    BY <1>1, <2>1, <2>3, CallOnly DEF Created, At, Making, Activating
<1>4. QED
  BY <1>2, <1>3 DEF Created


\* What is shared keeps its type when the caller returns ...
LEMMA ReturnsLocal ==
    ASSUME IInv, NEW c \in Callers, NEW ok \in BOOLEAN, Returns(c, ok),
           call[c].pc \in {"wait", "pool", "undo"}, UNCHANGED cluster,
           active' \in [Names -> Databases \cup {None}], db' \in [Databases -> Database]
    PROVE  TypeOK' /\ Locked' /\ Named'
<1>1. call[c].name \in Names /\ cluster' \subseteq Names
  BY DEF IInv, Named, NameOf, TypeOK
<1>2. /\ call' \in [Callers -> Call] /\ Others(c) /\ lock' \in {lock, None}
      /\ lock' = c => call'[c].attempt > 1 /\ call'[c].pc = "create"
      /\ call'[c].pc # "idle" => call'[c].name = call[c].name
  BY ReturnsLemma
<1>3. QED
  BY <1>1, <1>2, LocalNext DEF NameOf

\* ... and when it goes on.
LEMMA GotoLocal ==
    ASSUME IInv, NEW c \in Callers, UNCHANGED <<cluster, lock>>,
           NEW l \in {"use", "activate", "undo", "pool", "connected", "drain", "drop", "reloading"},
           Goto(c, l),
           \/ call[c].pc \in {"lookup", "activate", "pool"} /\ l \in {"activate", "pool", "undo"}
           \/ call[c].pc \in {"use", "close", "drain"}
           \/ call[c].pc = "reload" /\ l = "reloading",
           active' \in [Names -> Databases \cup {None}], db' \in [Databases -> Database]
    PROVE  TypeOK' /\ Locked' /\ Named'
<1>1. /\ call' \in [Callers -> Call] /\ Others(c) /\ call'[c].pc = l
      /\ call'[c].name = call[c].name /\ call'[c].attempt = call[c].attempt
  BY GotoLemma DEF IInv
<1>2. call[c].pc # "reload" => NameOf(c)' \in Names
  BY <1>1 DEF IInv, Named, NameOf
<1>3. /\ lock' = c => lock = c
      /\ lock = c => call[c].attempt > 1 /\ l \in {"activate", "pool", "undo"}
      /\ cluster' \subseteq Names /\ lock' \in {lock, None, c}
  BY ConstantsAssumption DEF IInv, TypeOK, Locked
<1>4. QED
  BY <1>1, <1>2, <1>3, LocalNext

\* Awaken and WaitCanceled.
LEMMA WaitIInv ==
    ASSUME IInv, NEW c \in Callers, Awaken(c) \/ WaitCanceled(c)
    PROVE  IInv'
<1>1. PICK ok \in BOOLEAN : Returns(c, ok) /\ At(c, "wait") /\ UNCHANGED <<cluster, active, db>>
  BY DEF Awaken, WaitCanceled
<1>2. active' \in [Names -> Databases \cup {None}] /\ db' \in [Databases -> Database]
  BY <1>1 DEF IInv, TypeOK
<1>3. TypeOK' /\ Locked' /\ Named'
  BY <1>1, <1>2, ReturnsLocal DEF At
<1>4. Others(c) /\ call'[c].pc \in {"use", "idle", "lock", "create"}
  BY <1>1, ReturnsLemma
<1>5. QED
  BY <1>1, <1>3, <1>4, CallOnly DEF At, Making, Activating

\* LoadOrStore that finds an entry.
LEMMA LoadEntryIInv ==
    ASSUME IInv, NEW c \in Callers, LoadEntry(c)
    PROVE  IInv'
<1> DEFINE x == [call[c] EXCEPT !.pc = "wait", !.db = active[NameOf(c)]]
<1>1. call[c] \in Call /\ NameOf(c) \in Names /\ At(c, "get") /\ active[NameOf(c)] \in Databases \cup {None}
  BY DEF IInv, TypeOK, Call, Named, LoadEntry, At
<1>2. call' = [call EXCEPT ![c] = x]
  BY DEF LoadEntry, IInv, TypeOK
<1>3. x \in Call /\ x.pc = "wait" /\ x.attempt = call[c].attempt /\ x.name = call[c].name
  BY <1>1 DEF Call
<1> HIDE DEF x
<1>4. call' \in [Callers -> Call] /\ Others(c) /\ call'[c] = x
  BY <1>2, <1>3, CallLemma DEF IInv
<1>5. lock' = c => call'[c].attempt > 1
  BY <1>3, <1>4, ConstantsAssumption DEF IInv, TypeOK, LoadEntry
<1>6. /\ active' \in [Names -> Databases \cup {None}] /\ db' \in [Databases -> Database]
      /\ lock' \in {lock, None, c} /\ cluster' \subseteq Names
  BY DEF LoadEntry, IInv, TypeOK
<1>7. TypeOK' /\ Locked' /\ Named'
  BY <1>1, <1>3, <1>4, <1>5, <1>6, LocalNext DEF NameOf
<1>8. QED
  BY <1>1, <1>3, <1>4, <1>7, CallOnly DEF LoadEntry, At, Making, Activating

\* Use and ReloadAcquire.
LEMMA AcquireIInv ==
    ASSUME IInv, NEW c \in Callers, Use(c) \/ ReloadAcquire(c)
    PROVE  IInv'
<1>1. PICK l \in {"connected", "reloading"} :
         /\ Goto(c, l) /\ UNCHANGED <<cluster, active, db, lock>> /\ db[DbOf(c)].pool = "open"
         /\ At(c, "use") \/ (At(c, "reload") /\ l = "reloading")
  BY DEF Use, ReloadAcquire
<1>2. active' \in [Names -> Databases \cup {None}] /\ db' \in [Databases -> Database]
  BY <1>1 DEF IInv, TypeOK
<1>3. TypeOK' /\ Locked' /\ Named'
  BY <1>1, <1>2, GotoLocal DEF At
<1>4. Others(c) /\ call'[c].pc \in {"connected", "reloading"} /\ DbOf(c)' = DbOf(c)
  BY <1>1, GotoLemma DEF IInv, DbOf
<1>5. QED
  BY <1>1, <1>3, <1>4, CallOnly DEF At, Making, Activating

\* A schema is stored: channels, pools and names stay.
LEMMA InfoLemma ==
    ASSUME TypeOK, NEW d \in Databases, db' = [db EXCEPT ![d].info = TRUE]
    PROVE  /\ db' \in [Databases -> Database]
           /\ \A e \in Databases : db'[e].closed = db[e].closed /\ db'[e].pool = db[e].pool /\ db'[e].name = db[e].name
<1> DEFINE y == [db[d] EXCEPT !.info = TRUE]
<1>1. y \in Database /\ y.closed = db[d].closed /\ y.pool = db[d].pool /\ y.name = db[d].name
  BY DEF TypeOK, Database
<1>2. db' = [db EXCEPT ![d] = y]
  BY DEF TypeOK
<1> HIDE DEF y
<1>3. QED
  BY <1>1, <1>2 DEF TypeOK

\* Lookup and LoadSchema.
LEMMA ActivatingIInv ==
    ASSUME IInv, NEW c \in Callers, Lookup(c) \/ LoadSchema(c)
    PROVE  IInv'
<1>0. At(c, "lookup") \/ At(c, "activate")
  BY DEF Lookup, LoadSchema
<1>1. DbOf(c) \in Databases /\ Activating(c)
  BY <1>0 DEF IInv, MadeAlone, Making, Activating, At
<1>2. PICK l \in {"activate", "pool"} : Goto(c, l) /\ UNCHANGED <<cluster, active, lock>>
  BY DEF Lookup, LoadSchema
<1>3. \A d \in Databases : db'[d].closed = db[d].closed /\ db'[d].pool = db[d].pool
  <2>1. CASE db' = db
    BY <2>1
  <2>2. CASE db' = [db EXCEPT ![DbOf(c)].info = TRUE]
    BY <1>1, <2>2, InfoLemma DEF IInv
  <2>3. QED
    BY <2>1, <2>2 DEF Lookup, LoadSchema
<1>4. active' \in [Names -> Databases \cup {None}] /\ db' \in [Databases -> Database]
  BY <1>1, <1>2, InfoLemma DEF Lookup, LoadSchema, IInv, TypeOK
<1>5. TypeOK' /\ Locked' /\ Named'
  BY <1>0, <1>2, <1>4, GotoLocal DEF At
<1>6. Others(c) /\ call'[c].pc = l /\ DbOf(c)' = DbOf(c)
  BY <1>2, GotoLemma DEF IInv, DbOf
<1>7. \A n \in Names : active'[n] \in {active[n], None}
  BY <1>2
<1>8. QED
  BY <1>1, <1>3, <1>5, <1>6, <1>7, SameObjects DEF At, Making, Activating

\* LookupFails, ActivateFails.
LEMMA ActivationFailsIInv ==
    ASSUME IInv, NEW c \in Callers, LookupFails(c) \/ ActivateFails(c)
    PROVE  IInv'
<1>0. call[c].pc \in {"lookup", "activate", "pool"} /\ Goto(c, "undo") /\ UNCHANGED <<cluster, active, lock>>
  BY DEF LookupFails, ActivateFails, At
<1>1. DbOf(c) \in Databases /\ Activating(c)
  BY <1>0 DEF IInv, MadeAlone, Making, Activating
<1>2. /\ \A d \in Databases : d # DbOf(c) => db'[d] = db[d]
      /\ db'[DbOf(c)].closed /\ db'[DbOf(c)].pool = db[DbOf(c)].pool
      /\ db' \in [Databases -> Database]
  <2>4. db \in [Databases -> Database] /\ db[DbOf(c)] \in Database
    BY <1>1 DEF IInv, TypeOK
  <2>1. CASE db' = ChannelClosed(DbOf(c))
    <3> DEFINE y == [db[DbOf(c)] EXCEPT !.closed = TRUE]
    <3>1. y \in Database /\ y.closed /\ y.pool = db[DbOf(c)].pool
      BY <2>4 DEF Database
    <3>2. db' = [db EXCEPT ![DbOf(c)] = y]
      BY <2>1 DEF ChannelClosed
    <3> HIDE DEF y
    <3>3. QED
      BY <1>1, <2>4, <3>1, <3>2, ObjectLemma
  <2>2. CASE db' = [db EXCEPT ![DbOf(c)].failed = TRUE, ![DbOf(c)].closed = TRUE]
    <3> DEFINE y == [db[DbOf(c)] EXCEPT !.failed = TRUE, !.closed = TRUE]
    <3>1. y \in Database /\ y.closed /\ y.pool = db[DbOf(c)].pool
      BY <2>4 DEF Database
    <3>2. db' = [db EXCEPT ![DbOf(c)] = y]
      BY <1>1, <2>2, <2>4
    <3> HIDE DEF y
    <3>3. QED
      BY <1>1, <2>4, <3>1, <3>2, ObjectLemma
  <2>3. QED
    BY <2>1, <2>2 DEF LookupFails, ActivateFails
<1>3. active' \in [Names -> Databases \cup {None}]
  BY <1>0 DEF IInv, TypeOK
<1>4. TypeOK' /\ Locked' /\ Named'
  BY <1>0, <1>2, <1>3, GotoLocal
<1>5. Others(c) /\ At(c, "undo")' /\ DbOf(c)' = DbOf(c)
  BY <1>0, GotoLemma DEF IInv, DbOf, At
<1>6. QED
  BY <1>0, <1>1, <1>2, <1>4, <1>5, ObjectClosed

\* The activation succeeds.
LEMMA OpenPoolIInv ==
    ASSUME IInv, NEW c \in Callers, OpenPool(c)
    PROVE  IInv'
<1> DEFINE ok == TRUE
<1>0. /\ call[c].pc = "pool" /\ Returns(c, ok) /\ UNCHANGED <<cluster, active>> /\ ok \in BOOLEAN /\ ok
      /\ db' = [db EXCEPT ![DbOf(c)].pool = "open", ![DbOf(c)].closed = TRUE]
  BY DEF OpenPool, At
<1> HIDE DEF ok
<1>1. DbOf(c) \in Databases /\ Activating(c)
  BY <1>0 DEF IInv, MadeAlone, Making, Activating
<1>2. /\ \A d \in Databases : d # DbOf(c) => db'[d] = db[d]
      /\ db'[DbOf(c)].closed
      /\ db' \in [Databases -> Database]
  <2> DEFINE y == [db[DbOf(c)] EXCEPT !.pool = "open", !.closed = TRUE]
  <2>4. db \in [Databases -> Database] /\ db[DbOf(c)] \in Database
    BY <1>1 DEF IInv, TypeOK
  <2>1. y \in Database /\ y.closed
    BY <2>4 DEF Database
  <2>2. db' = [db EXCEPT ![DbOf(c)] = y]
    BY <1>0, <1>1, <2>4
  <2> HIDE DEF y
  <2>3. QED
    BY <1>1, <2>1, <2>2, <2>4, ObjectLemma
<1>3. active' \in [Names -> Databases \cup {None}]
  BY <1>0 DEF IInv, TypeOK
<1>4. TypeOK' /\ Locked' /\ Named'
  BY <1>0, <1>2, <1>3, ReturnsLocal
<1>5. Others(c) /\ At(c, "use")'
  BY <1>0, ReturnsLemma DEF At
<1>6. QED
  BY <1>0, <1>1, <1>2, <1>4, <1>5, ObjectClosed

\* The deferred removal of the entry.
LEMMA UndoIInv ==
    ASSUME IInv, NEW c \in Callers, Undo(c)
    PROVE  IInv'
<1> DEFINE ok == FALSE
<1>0. /\ call[c].pc = "undo" /\ Returns(c, ok) /\ UNCHANGED <<cluster, db>> /\ ok \in BOOLEAN /\ ~ok
      /\ active' = [active EXCEPT ![NameOf(c)] = None]
  BY DEF Undo, At
<1> HIDE DEF ok
<1>1. /\ active' \in [Names -> Databases \cup {None}] /\ db' \in [Databases -> Database]
      /\ \A n \in Names : active'[n] \in {active[n], None}
  BY <1>0 DEF IInv, TypeOK
<1>2. TypeOK' /\ Locked' /\ Named'
  BY <1>0, <1>1, ReturnsLocal
<1>3. Others(c) /\ call'[c].pc \in {"idle", "lock", "create"}
  BY <1>0, ReturnsLemma
<1>4. QED
  BY <1>0, <1>1, <1>2, <1>3, SameObjects DEF At, Making, Activating

\* The connections are back: the entry is removed.
LEMMA DeleteEntryIInv ==
    ASSUME IInv, NEW c \in Callers, DeleteEntry(c)
    PROVE  IInv'
<1>0. /\ call[c].pc = "drain" /\ Goto(c, "drop") /\ UNCHANGED <<cluster, db, lock>>
      /\ active' = [active EXCEPT ![NameOf(c)] = None] /\ Drained(c)
  BY DEF DeleteEntry, At, Drained
<1>1. /\ active' \in [Names -> Databases \cup {None}] /\ db' \in [Databases -> Database]
      /\ \A n \in Names : active'[n] \in {active[n], None}
  BY <1>0 DEF IInv, TypeOK
<1>2. TypeOK' /\ Locked' /\ Named'
  BY <1>0, <1>1, GotoLocal
<1>3. Others(c) /\ call'[c].pc = "drop" /\ DbOf(c)' = DbOf(c) /\ c \in Deleters
  BY <1>0, GotoLemma DEF IInv, DbOf, Draining
<1>4. QED
  BY <1>0, <1>1, <1>2, <1>3, SameObjects DEF At, Making, Activating

\* The listener goes on to the next database, or to the one it found.
LEMMA ReloadIInv ==
    ASSUME IInv, NEW c \in Callers, ReloadLoad(c) \/ ReloadFails(c) \/ ReloadStore(c)
    PROVE  IInv'
<1>0. call[c] \in Call /\ call[c].pc \in {"reload next", "reload", "reloading"} /\ UNCHANGED <<cluster, active, lock>>
  BY DEF ReloadLoad, ReloadFails, ReloadStore, IInv, TypeOK, Call, At
<1>1. PICK x \in Call : call' = [call EXCEPT ![c] = x] /\ x.pc \in {"reload next", "reload", "crashed"}
  <2>1. CASE ReloadLoad(c)
    <3>1. PICK n \in call[c].todo :
            call' = [call EXCEPT ![c].todo = @ \ {n},
                                 ![c].pc = IF active[n] = None THEN @ ELSE "reload",
                                 ![c].db = active[n]]
      BY <2>1 DEF ReloadLoad
    <3> DEFINE l == IF active[n] = None THEN call[c].pc ELSE "reload"
               t == call[c].todo \ {n}
               x == [call[c] EXCEPT !.todo = t, !.pc = l, !.db = active[n]]
    <3>2. l \in {"reload next", "reload"} /\ l \in Labels
      BY <2>1 DEF ReloadLoad, At, Labels
    <3>3. t \in SUBSET Names /\ active[n] \in Databases \cup {None}
      BY <1>0 DEF Call, IInv, TypeOK
    <3>4. call' = [call EXCEPT ![c] = x]
      BY <3>1 DEF IInv, TypeOK
    <3> HIDE DEF l, t
    <3>5. x \in Call /\ x.pc = l
      BY <1>0, <3>2, <3>3 DEF Call, Labels
    <3>6. QED
      BY <3>2, <3>4, <3>5
  <2>2. CASE ReloadFails(c)
    <3> DEFINE l == IF db[DbOf(c)].pool = "nil" THEN "crashed" ELSE "reload next"
               d == IF db[DbOf(c)].pool = "nil" THEN call[c].db ELSE None
               x == [call[c] EXCEPT !.pc = l, !.db = d]
    <3>1. l \in {"reload next", "crashed"} /\ l \in Labels
      BY DEF Labels
    <3>2. d \in Databases \cup {None}
      BY <1>0 DEF Call
    <3>3. call' = [call EXCEPT ![c] = x]
      BY <2>2 DEF ReloadFails, IInv, TypeOK
    <3> HIDE DEF l, d
    <3>4. x \in Call /\ x.pc = l
      BY <1>0, <3>1, <3>2 DEF Call, Labels
    <3>5. QED
      BY <3>1, <3>3, <3>4
  <2>3. CASE ReloadStore(c)
    <3> DEFINE x == [call[c] EXCEPT !.pc = "reload next", !.db = None]
    <3>1. call' = [call EXCEPT ![c] = x]
      BY <2>3 DEF ReloadStore, IInv, TypeOK
    <3>2. x \in Call /\ x.pc = "reload next"
      BY <1>0 DEF Call
    <3>3. QED
      BY <3>1, <3>2
  <2>4. QED
    BY <2>1, <2>2, <2>3
<1>2. call' \in [Callers -> Call] /\ Others(c) /\ call'[c] = x
  BY <1>1, CallLemma DEF IInv
<1>3. /\ db' \in [Databases -> Database]
      /\ \A d \in Databases : db'[d].closed = db[d].closed /\ db'[d].pool = db[d].pool
  <2>1. CASE db' = db
    BY <2>1 DEF IInv, TypeOK
  <2>2. CASE db' = [db EXCEPT ![DbOf(c)].info = TRUE]
    <3>1. CASE DbOf(c) \in Databases
      BY <2>2, <3>1, InfoLemma DEF IInv
    <3>2. CASE DbOf(c) \notin Databases
      <4>1. db' = db
        BY <2>2, <3>2 DEF IInv, TypeOK
      <4>2. QED
        BY <2>1, <4>1
    <3>3. QED
      BY <3>1, <3>2
  <2>3. QED
    BY <2>1, <2>2 DEF ReloadLoad, ReloadFails, ReloadStore
<1>4. /\ active' \in [Names -> Databases \cup {None}]
      /\ lock' \in {lock, None, c} /\ lock' # c /\ cluster' \subseteq Names
  BY <1>0, LockHolder DEF IInv, TypeOK
<1>5. TypeOK' /\ Locked' /\ Named'
  BY <1>1, <1>2, <1>3, <1>4, LocalNext
<1>6. \A n \in Names : active'[n] \in {active[n], None}
  BY <1>0
<1>7. QED
  BY <1>0, <1>1, <1>2, <1>3, <1>5, <1>6, SameObjects DEF At, Making, Activating

\* LoadOrStore stores an object that nobody refers to.
LEMMA StoreIInv ==
    ASSUME IInv, NEW c \in Callers, StorePlaceholder(c)
    PROVE  IInv'
<1> DEFINE d == CHOOSE d \in Unused : TRUE
           x == [call[c] EXCEPT !.pc = "lookup", !.db = d]
<1> USE DEF IInv
<1>1. /\ d \in Unused
      /\ active' = [active EXCEPT ![NameOf(c)] = d]
      /\ db' = [e \in Databases |-> IF e = d THEN Placeholder(NameOf(c))
                                    ELSE IF e \in Unused THEN Placeholder(None) ELSE db[e]]
      /\ call' = [call EXCEPT ![c] = x]
      /\ At(c, "get") /\ UNCHANGED <<cluster, lock>>
  BY DEF StorePlaceholder, TypeOK
<1> HIDE DEF d
<1>2. /\ d \in Databases /\ d # None
      /\ \A n \in Names : active[n] # d
      /\ \A e \in Callers : DbOf(e) # d
  BY <1>1, ConstantsAssumption DEF Unused
<1>3. call[c] \in Call /\ NameOf(c) \in Names
  BY <1>1 DEF TypeOK, Call, Named, At
<1>4. x \in Call /\ x.pc = "lookup" /\ x.attempt = call[c].attempt /\ x.name = call[c].name /\ x.db = d
  BY <1>2, <1>3 DEF Call
<1> HIDE DEF x
<1>5. call' \in [Callers -> Call] /\ Others(c) /\ call'[c] = x
  BY <1>1, <1>4, CallLemma
<1>6. /\ \A e \in Names \cup {None} : Placeholder(e) \in Database /\ ~Placeholder(e).closed /\ Placeholder(e).pool = "nil"
  BY DEF Placeholder, Database
<1>7. /\ db' \in [Databases -> Database]
      /\ db'[d].pool = "nil" /\ ~db'[d].closed
      /\ \A e \in Databases \ Unused : db'[e] = db[e]
  <2>1. db \in [Databases -> Database] /\ d \in Unused
    BY <1>1 DEF TypeOK
  <2>2. db' = [e \in Databases |-> IF e = d THEN Placeholder(NameOf(c))
                                  ELSE IF e \in Unused THEN Placeholder(None) ELSE db[e]]
    BY <1>1
  <2>3. QED
    BY <1>2, <1>3, <1>6, <2>1, <2>2
<1>8. TypeOK' /\ Locked' /\ Named'
  <2>1. lock' = c => call'[c].attempt > 1
    <3>1. c # None /\ lock' = lock
      BY <1>1, ConstantsAssumption
    <3>2. lock = c => call[c].attempt > 1
      BY <3>1 DEF TypeOK
    <3>3. QED
      BY <1>4, <1>5, <3>1, <3>2
  <2>2. /\ active' \in [Names -> Databases \cup {None}] /\ lock' \in {lock, None, c} /\ cluster' \subseteq Names
    BY <1>1, <1>2 DEF TypeOK
  <2>3. QED
    BY <1>3, <1>4, <1>5, <1>7, <2>1, <2>2, LocalNext DEF NameOf
<1>9. \A e \in Callers \ {c} : /\ call'[e] = call[e] /\ DbOf(e)' = DbOf(e) /\ DbOf(e) # d
                               /\ DbOf(e) \in Databases => db'[DbOf(e)] = db[DbOf(e)]
  BY <1>2, <1>5, <1>7 DEF Others, Unused, DbOf
<1>10. Activating(c)' /\ DbOf(c)' = d /\ ~At(c, "undo")' /\ call'[c].pc = "lookup"
  BY <1>4, <1>5 DEF Activating, DbOf, At
<1>11. \A e \in Callers \ {c} : (Making(e)' <=> Making(e)) /\ (Activating(e)' <=> Activating(e))
  BY <1>9 DEF Making, Activating, At
<1>12. MadeAlone'
  BY <1>2, <1>7, <1>9, <1>10, <1>11 DEF MadeAlone
<1>13. OneActivator'
  <2>1. \A n \in Names : active'[n] = d \/ (active'[n] = active[n] /\ active[n] # d)
    BY <1>1, <1>2 DEF TypeOK
  <2>2. \A n \in Names : active[n] # None => active[n] \in Databases /\ db'[active[n]] = db[active[n]]
    BY <1>7 DEF TypeOK, Unused
  <2>3. ASSUME NEW n \in Names, active'[n] # None, ~db'[active'[n]].closed
        PROVE  \E e \in Callers : Activating(e)' /\ DbOf(e)' = active'[n]
    <3>1. CASE active'[n] = d
      BY <1>10, <3>1
    <3>2. CASE active'[n] = active[n] /\ active[n] # d
      <4>1. PICK e \in Callers : Activating(e) /\ DbOf(e) = active[n]
        BY <2>2, <2>3, <3>2 DEF OneActivator
      <4>2. e # c
        BY <1>1, <4>1 DEF Activating, At
      <4>3. QED
        BY <1>9, <1>11, <3>2, <4>1, <4>2
    <3>3. QED
      BY <2>1, <3>1, <3>2
  <2>4. ASSUME NEW e \in Callers, Activating(e)'
        PROVE  ~db'[DbOf(e)'].closed
    BY <1>7, <1>9, <1>10, <1>11, <2>4 DEF OneActivator, MadeAlone, Making
  <2>5. \A a, b \in Callers : a # b /\ Activating(a)' /\ Activating(b)' => DbOf(a)' # DbOf(b)'
    BY <1>9, <1>10, <1>11 DEF OneActivator
  <2>6. QED
    BY <2>3, <2>4, <2>5 DEF OneActivator
<1>14. Draining'
  BY <1>9, <1>10 DEF Draining, At
<1>15. DropQuiesced'
  <2> SUFFICES ASSUME NEW e \in Callers, At(e, "drop")', DbOf(e)' # None
               PROVE  db'[DbOf(e)'].pool = "closed" /\ ~Connected(DbOf(e))' /\ ~Reloading(DbOf(e))'
    BY DEF DropQuiesced
  <2>1. e # c /\ At(e, "drop") /\ DbOf(e)' = DbOf(e)
    BY <1>9, <1>10 DEF At
  <2>2. DbOf(e) \in Databases /\ db[DbOf(e)].pool = "closed" /\ ~Connected(DbOf(e)) /\ ~Reloading(DbOf(e))
    BY <2>1 DEF DropQuiesced, TypeOK, DbOf
  <2>3. ~Connected(DbOf(e))' /\ ~Reloading(DbOf(e))'
    BY <1>9, <1>10, <2>1, <2>2 DEF Connected, Reloading, At
  <2>4. QED
    BY <1>9, <2>1, <2>2, <2>3
<1>16. QED
  BY <1>8, <1>12, <1>13, <1>14, <1>15

\* The pool is closed: it was not one that is being made.
LEMMA ClosePoolIInv ==
    ASSUME IInv, NEW c \in Callers, ClosePool(c)
    PROVE  IInv'
<1> USE DEF IInv
<1> DEFINE y == [db[DbOf(c)] EXCEPT !.pool = "closed"]
<1>1. /\ call[c].pc = "close" /\ db[DbOf(c)].pool # "nil" /\ Goto(c, "drain") /\ UNCHANGED <<cluster, active, lock>>
      /\ DbOf(c) \in Databases /\ c \in Deleters
  BY DEF ClosePool, At, Draining
<1>2. y \in Database /\ y.pool = "closed" /\ y.closed = db[DbOf(c)].closed
  <2>1. db[DbOf(c)] \in Database
    BY <1>1 DEF TypeOK
  <2>2. QED
    BY <2>1 DEF Database
<1>3. db' = [db EXCEPT ![DbOf(c)] = y]
  BY <1>1 DEF ClosePool, PoolClosed, TypeOK
<1> HIDE DEF y
<1>4. /\ db' \in [Databases -> Database] /\ active' \in [Names -> Databases \cup {None}]
      /\ db'[DbOf(c)].pool = "closed"
      /\ \A d \in Databases : db'[d].closed = db[d].closed /\ (d # DbOf(c) => db'[d] = db[d])
  BY <1>1, <1>2, <1>3 DEF TypeOK
<1>5. TypeOK' /\ Locked' /\ Named'
  BY <1>1, <1>4, GotoLocal
<1>6. Others(c) /\ call'[c].pc = "drain" /\ DbOf(c)' = DbOf(c)
  BY <1>1, GotoLemma DEF DbOf
<1>7. \A e \in Callers : /\ DbOf(e)' = DbOf(e) /\ (e # c => call'[e] = call[e])
                         /\ (Making(e)' <=> Making(e)) /\ (Activating(e)' <=> Activating(e))
                         /\ Making(e) => DbOf(e) # DbOf(c) /\ DbOf(e) \in Databases
  BY <1>1, <1>6 DEF Others, DbOf, Making, Activating, At, MadeAlone
<1>8. MadeAlone'
  BY <1>4, <1>7 DEF MadeAlone
<1>9. OneActivator'
  <2>1. \A n \in Names : active'[n] # None => active'[n] \in Databases /\ active'[n] = active[n]
    BY <1>1 DEF TypeOK
  <2>2. \A e \in Callers : Activating(e) => Making(e)
    BY DEF Making
  <2>3. QED
    BY <1>4, <1>7, <2>1, <2>2 DEF OneActivator
<1>10. Draining'
  BY <1>1, <1>4, <1>6, <1>7 DEF Draining, At
<1>11. DropQuiesced'
  <2>1. \A d : (Connected(d)' => Connected(d)) /\ (Reloading(d)' => Reloading(d))
    BY <1>6, <1>7 DEF Connected, Reloading, At
  <2>2. \A e \in Callers : DbOf(e) \in Databases \cup {None}
    BY DEF TypeOK, DbOf
  <2>3. QED
    BY <1>4, <1>6, <1>7, <2>1, <2>2 DEF DropQuiesced, At
<1>12. QED
  BY <1>5, <1>8, <1>9, <1>10, <1>11
-----------------------------------------------------------------------------
(* The invariant.                                                          *)

\* Initially there are no entries, no objects and no operations.
LEMMA InitIInv == Init => IInv
<1> SUFFICES ASSUME Init PROVE IInv
  OBVIOUS
<1>1. \A c \in Callers : call[c] = Idle /\ call[c].pc = "idle"
  BY IdleLemma DEF Init
<1>2. \A d \in Databases : db[d] = Placeholder(None) /\ Placeholder(None) \in Database
  BY DEF Init, Placeholder, Database
<1>3. \A n \in Names : active[n] = None
  BY DEF Init
<1>4. TypeOK
  BY <1>2, IdleLemma DEF Init, TypeOK, Call
<1>5. MadeAlone /\ OneActivator
  BY <1>1, <1>3 DEF MadeAlone, OneActivator, Making, Activating, At
<1>6. Locked /\ Named /\ Draining /\ DropQuiesced
  BY <1>1 DEF Init, Locked, Named, Draining, DropQuiesced, At
<1>7. QED
  BY <1>4, <1>5, <1>6 DEF IInv

\* Every step keeps it.
LEMMA NextIInv == IInv /\ [Next]_vars => IInv'
<1> SUFFICES ASSUME IInv, [Next]_vars PROVE IInv'
  OBVIOUS
<1>1. CASE UNCHANGED vars
  <2>1. UNCHANGED <<cluster, active, db, lock, call>>
    BY <1>1 DEF vars
  <2>2. TypeOK' /\ Locked' /\ Named'
    BY <2>1 DEF IInv, TypeOK, Locked, Named, NameOf
  <2>3. MadeAlone' /\ OneActivator'
    BY <2>1 DEF IInv, MadeAlone, OneActivator, Making, Activating, At, DbOf
  <2>4. Draining'
    BY <2>1 DEF IInv, Draining, At, DbOf
  <2>5. DropQuiesced'
    BY <2>1 DEF IInv, DropQuiesced, Connected, Reloading, At, DbOf
  <2>6. QED
    BY <2>2, <2>3, <2>4, <2>5 DEF IInv
<1>2. ASSUME NEW c \in Callers, Enter(c) \/ WaitCanceled(c) \/ DeleteLoad(c) \/ ReloadStart(c) \/ Progress(c)
      PROVE  IInv'
  <2>1. CASE Enter(c) \/ DeleteLoad(c) \/ ReloadStart(c)
    BY <2>1, EntryIInv
  <2>2. CASE WaitCanceled(c) \/ Awaken(c)
    BY <2>2, WaitIInv
  <2>3. CASE Lock(c)
    BY <2>3, LockIInv
  <2>4. CASE Create(c) \/ Created(c)
    BY <2>4, CreateIInv, CreatedIInv
  <2>5. CASE StorePlaceholder(c)
    BY <2>5, StoreIInv
  <2>6. CASE LoadEntry(c)
    BY <2>6, LoadEntryIInv
  <2>7. CASE Lookup(c) \/ LoadSchema(c)
    BY <2>7, ActivatingIInv
  <2>8. CASE LookupFails(c) \/ ActivateFails(c)
    BY <2>8, ActivationFailsIInv
  <2>9. CASE OpenPool(c)
    BY <2>9, OpenPoolIInv
  <2>10. CASE Undo(c)
    BY <2>10, UndoIInv
  <2>11. CASE Use(c) \/ ReloadAcquire(c)
    BY <2>11, AcquireIInv
  <2>12. CASE UseFails(c) \/ Disconnect(c) \/ DeletePanics(c) \/ ReloadEnd(c)
    <3>1. Finish(c) /\ UNCHANGED <<cluster, active, db, lock>> /\ call[c].pc \in {"use", "connected", "close", "reload next"}
      BY <2>12 DEF UseFails, Disconnect, DeletePanics, ReloadEnd, At
    <3>2. QED
      BY <3>1, FinishIInv DEF IInv, TypeOK
  <2>13. CASE Drop(c)
    <3>1. Finish(c) /\ UNCHANGED <<active, db, lock>> /\ call[c].pc = "drop" /\ cluster' \subseteq Names
      BY <2>13 DEF Drop, At, IInv, TypeOK
    <3>2. QED
      BY <3>1, FinishIInv
  <2>14. CASE ClosePool(c)
    BY <2>14, ClosePoolIInv
  <2>15. CASE DeleteEntry(c)
    BY <2>15, DeleteEntryIInv
  <2>16. CASE ReloadLoad(c) \/ ReloadFails(c) \/ ReloadStore(c)
    BY <2>16, ReloadIInv
  <2>17. QED
    BY <1>2, <2>1, <2>2, <2>3, <2>4, <2>5, <2>6, <2>7, <2>8, <2>9, <2>10, <2>11, <2>12, <2>13,
       <2>14, <2>15,
       <2>16 DEF Progress, GetActive, Delete, Reload
<1>3. QED
  BY <1>1, <1>2 DEF Next

\* The inductive invariant holds of every behaviour of the engine.
THEOREM Invariance == Spec => []IInv
BY InitIInv, NextIInv, PTL DEF Spec

\* The variables have their types, and the creation lock is not held by a
\* caller that is in its first, unlocked attempt (dbengine.go:396-402).
THEOREM TypeCorrect == Spec => []TypeOK
<1>1. IInv => TypeOK
  BY DEF IInv
<1>2. QED
  BY <1>1, Invariance, PTL

\* However many goroutines ask for a database, and whatever fails, an entry
\* whose activation channel is open has exactly one goroutine that will close it
\* (dbengine.go:343-372): no waiter is forgotten, no channel closed twice.
THEOREM OneActivatorCorrect == Spec => []OneActivator
<1>1. IInv => OneActivator
  BY DEF IInv
<1>2. QED
  BY <1>1, Invariance, PTL

\* DeleteDatabase "blocks until all connections are returned to pool"
\* (dbengine.go:326-327), for any number of deletions and users: at the DROP no
\* connection of the pool that was closed is out, whoever asks for one meanwhile.
THEOREM DropQuiescedCorrect == Spec => []DropQuiesced
<1>1. IInv => DropQuiesced
  BY DEF IInv
<1>2. QED
  BY <1>1, Invariance, PTL
-----------------------------------------------------------------------------
(* With one deleter, what a goroutine removes from activeDatabases is its  *)
(* own entry.                                                              *)

\* A step that stores no entry and removes none.
LEMMA EntriesKept ==
    ASSUME IInv, Listed, NEW c \in Callers, Others(c), UNCHANGED active,
           \A d \in Databases : /\ db'[d].name = db[d].name
                                /\ db'[d].pool # "nil" => db[d].pool # "nil" \/ (Making(c) /\ d = DbOf(c))
                                /\ db'[d].pool = "open" => db[d].pool = "open" \/ (Making(c) /\ d = DbOf(c)),
           Making(c)' => Making(c) /\ DbOf(c)' = DbOf(c) /\ NameOf(c)' = NameOf(c),
           call'[c].pc \in {"close", "drain"} =>
               NameOf(c)' \in Names /\ DbOf(c)' \in Databases /\ active[NameOf(c)'] = DbOf(c)'
    PROVE  Listed'
<1> USE DEF IInv, Listed
<1>1. \A n \in Names : active[n] \in Databases \cup {None}
  BY DEF TypeOK
<1>2. Making(c) => /\ NameOf(c) \in Names /\ DbOf(c) \in Databases /\ DbOf(c) # None
                   /\ active[NameOf(c)] = DbOf(c) /\ db[DbOf(c)].name = NameOf(c)
  <2>1. Making(c) => call[c].pc \in {"lookup", "activate", "pool", "undo"}
    BY DEF Making, Activating, At
  <2>2. Making(c) => NameOf(c) \in Names
    BY <2>1 DEF Named
  <2>3. Making(c) => DbOf(c) \in Databases /\ DbOf(c) # None /\ active[NameOf(c)] = DbOf(c)
    BY ConstantsAssumption DEF MadeAlone, MadeListed
  <2>4. QED
    BY <2>2, <2>3 DEF EntryNamed
<1>3. EntryNamed'
  BY <1>1 DEF EntryNamed
<1>4. \A e \in Callers \ {c} : DbOf(e)' = DbOf(e) /\ NameOf(e)' = NameOf(e) /\ (Making(e)' <=> Making(e))
  BY DEF Others, DbOf, NameOf, Making, Activating, At
<1>5. MadeListed'
  BY <1>4 DEF MadeListed
<1>6. DeletesItsOwn'
  <2> SUFFICES ASSUME NEW e \in Callers, call'[e].pc \in {"close", "drain"}
               PROVE  /\ db'[DbOf(e)'].name = NameOf(e)'
                      /\ db'[DbOf(e)'].pool # "nil" => active'[NameOf(e)'] = DbOf(e)'
    BY DEF DeletesItsOwn
  <2>1. CASE e = c
    BY <2>1, ConstantsAssumption DEF EntryNamed
  <2>2. CASE e # c
    <3>1. DbOf(e) \in Databases /\ call[e].pc \in {"close", "drain"}
      BY <2>2 DEF Others, Draining
    <3>2. db[DbOf(e)].name = NameOf(e) /\ (db[DbOf(e)].pool # "nil" => active[NameOf(e)] = DbOf(e))
      BY <3>1 DEF DeletesItsOwn
    <3>3. QED
      BY <1>2, <1>4, <2>2, <3>1, <3>2
  <2>3. QED
    BY <2>1, <2>2
<1>7. OpenPoolsReachable' /\ OpenNamed'
  BY <1>2 DEF OpenPoolsReachable, OpenNamed
<1>8. QED
  BY <1>3, <1>5, <1>6, <1>7

\* A step that removes the entry of an object that has no open pool.
LEMMA EntryRemoved ==
    ASSUME IInv, Listed, NEW c \in Callers, Others(c), UNCHANGED db,
           NameOf(c) \in Names, active[NameOf(c)] = DbOf(c),
           active' = [active EXCEPT ![NameOf(c)] = None],
           db[DbOf(c)].pool # "open",
           ~Making(c)', call'[c].pc \notin {"close", "drain"},
           \A e \in Callers \ {c} : Making(e) => DbOf(e) # DbOf(c),
           \A e \in Callers \ {c} : call[e].pc \in {"close", "drain"} => db[DbOf(e)].pool = "nil" \/ DbOf(e) # DbOf(c)
    PROVE  Listed'
<1> USE DEF IInv, Listed
<1>1. \A n \in Names : active'[n] = IF n = NameOf(c) THEN None ELSE active[n]
  BY DEF TypeOK
<1>2. \A e \in Callers \ {c} : /\ DbOf(e)' = DbOf(e) /\ NameOf(e)' = NameOf(e) /\ (Making(e)' <=> Making(e))
                               /\ call'[e].pc = call[e].pc
  BY DEF Others, DbOf, NameOf, Making, Activating, At
<1>3. EntryNamed'
  BY <1>1 DEF EntryNamed
<1>4. MadeListed'
  <2>1. \A e \in Callers : Making(e) => NameOf(e) \in Names
    BY DEF Named, Making, Activating, At
  <2>2. QED
    BY <1>1, <1>2, <2>1 DEF MadeListed
<1>5. DeletesItsOwn'
  <2>1. \A e \in Callers : call[e].pc \in {"close", "drain"} => NameOf(e) \in Names
    BY DEF Named
  <2>2. QED
    BY <1>1, <1>2, <2>1 DEF DeletesItsOwn
<1>6. OpenPoolsReachable' /\ OpenNamed'
  BY <1>1 DEF OpenPoolsReachable, OpenNamed
<1>7. QED
  BY <1>3, <1>4, <1>5, <1>6

\* An entry is stored where there was none.
LEMMA StoreListed ==
    ASSUME IInv, Listed, NEW c \in Callers, StorePlaceholder(c)
    PROVE  Listed'
<1> DEFINE d == CHOOSE d \in Unused : TRUE
           x == [call[c] EXCEPT !.pc = "lookup", !.db = d]
<1> USE DEF IInv, Listed
<1>1. /\ d \in Unused
      /\ active' = [active EXCEPT ![NameOf(c)] = d]
      /\ db' = [e \in Databases |-> IF e = d THEN Placeholder(NameOf(c))
                                    ELSE IF e \in Unused THEN Placeholder(None) ELSE db[e]]
      /\ call' = [call EXCEPT ![c] = x]
      /\ At(c, "get") /\ active[NameOf(c)] = None
  BY DEF StorePlaceholder, TypeOK
<1> HIDE DEF d
<1>2. /\ d \in Databases /\ d # None
      /\ \A n \in Names : active[n] # d
      /\ \A e \in Callers : DbOf(e) # d
  BY <1>1, ConstantsAssumption DEF Unused
<1>3. call[c] \in Call /\ NameOf(c) \in Names
  BY <1>1 DEF TypeOK, Call, Named, At
<1>4. x \in Call /\ x.pc = "lookup" /\ x.name = call[c].name /\ x.db = d
  BY <1>2, <1>3 DEF Call
<1> HIDE DEF x
<1>5. Others(c) /\ NameOf(c)' = NameOf(c) /\ DbOf(c)' = d /\ call'[c].pc = "lookup"
  BY <1>1, <1>4, CallLemma DEF NameOf, DbOf
<1>6. \A n \in Names \cup {None} : Placeholder(n).name = n /\ Placeholder(n).pool = "nil"
  BY DEF Placeholder
<1>7. /\ db'[d].name = NameOf(c) /\ db'[d].pool = "nil"
      /\ \A e \in Databases : db'[e].pool # "nil" => e \notin Unused /\ db'[e] = db[e]
      /\ \A e \in Databases \ Unused : db'[e] = db[e]
  BY <1>1, <1>2, <1>3, <1>6
<1>8. \A n \in Names : active'[n] = IF n = NameOf(c) THEN d ELSE active[n]
  BY <1>1 DEF TypeOK
<1>9. \A e \in Callers \ {c} : /\ DbOf(e)' = DbOf(e) /\ NameOf(e)' = NameOf(e) /\ (Making(e)' <=> Making(e))
                               /\ call'[e].pc = call[e].pc
                               /\ DbOf(e) \in Databases => db'[DbOf(e)] = db[DbOf(e)]
  BY <1>5, <1>7 DEF Others, Unused, DbOf, NameOf, Making, Activating, At
<1>10. EntryNamed'
  <2>1. \A n \in Names : active[n] # None => active[n] \in Databases /\ db'[active[n]] = db[active[n]]
    BY <1>7 DEF TypeOK, Unused
  <2>2. QED
    BY <1>2, <1>7, <1>8, <2>1 DEF EntryNamed
<1>11. MadeListed'
  <2>1. \A e \in Callers : Making(e) => NameOf(e) \in Names /\ active[NameOf(e)] = DbOf(e) /\ DbOf(e) # None
    BY ConstantsAssumption DEF Named, Making, Activating, At, MadeListed, MadeAlone
  <2>2. QED
    BY <1>1, <1>3, <1>5, <1>8, <1>9, <2>1 DEF MadeListed
<1>12. DeletesItsOwn'
  <2>1. \A e \in Callers : call[e].pc \in {"close", "drain"} => NameOf(e) \in Names /\ DbOf(e) \in Databases
    BY DEF Named, Draining
  <2>2. QED
    BY <1>1, <1>5, <1>8, <1>9, <2>1, ConstantsAssumption DEF DeletesItsOwn
<1>13. OpenPoolsReachable' /\ OpenNamed'
  BY <1>1, <1>7, <1>8, ConstantsAssumption DEF OpenPoolsReachable, OpenNamed
<1>14. QED
  BY <1>10, <1>11, <1>12, <1>13

\* Undo removes the entry of the object that it made and that has no pool.
LEMMA UndoListed ==
    ASSUME IInv, Listed, NEW c \in Callers, Undo(c)
    PROVE  Listed'
<1> DEFINE ok == FALSE
<1>1. /\ call[c].pc = "undo" /\ Returns(c, ok) /\ ok \in BOOLEAN /\ ~ok /\ UNCHANGED db
      /\ active' = [active EXCEPT ![NameOf(c)] = None]
  BY DEF Undo, At
<1> HIDE DEF ok
<1>2. Others(c) /\ call'[c].pc \in {"idle", "lock", "create"}
  BY <1>1, ReturnsLemma
<1>3. /\ NameOf(c) \in Names /\ active[NameOf(c)] = DbOf(c) /\ db[DbOf(c)].pool = "nil"
      /\ \A e \in Callers \ {c} : Making(e) => DbOf(e) # DbOf(c)
  BY <1>1 DEF IInv, Listed, Named, MadeListed, MadeAlone, Making, At
<1>4. ~Making(c)'
  BY <1>2 DEF Making, Activating, At
<1>5. QED
  BY <1>1, <1>2, <1>3, <1>4, EntryRemoved

\* The only deleter removes the entry of the pool that it closed.
LEMMA DeleteEntryListed ==
    ASSUME OneDeleter, IInv, Listed, NEW c \in Callers, DeleteEntry(c)
    PROVE  Listed'
<1>1. /\ call[c].pc = "drain" /\ Goto(c, "drop") /\ UNCHANGED db
      /\ active' = [active EXCEPT ![NameOf(c)] = None]
  BY DEF DeleteEntry, At, Drained
<1>2. Others(c) /\ call'[c].pc = "drop"
  BY <1>1, GotoLemma DEF IInv
<1>3. db[DbOf(c)].pool = "closed" /\ c \in Deleters
  BY <1>1 DEF IInv, Draining, At
<1>4. /\ NameOf(c) \in Names /\ active[NameOf(c)] = DbOf(c)
      /\ \A e \in Callers \ {c} : Making(e) => DbOf(e) # DbOf(c)
      /\ \A e \in Callers \ {c} : call[e].pc \notin {"close", "drain"}
  BY <1>1, <1>3 DEF OneDeleter, IInv, Listed, Named, DeletesItsOwn, MadeAlone, Draining
<1>5. ~Making(c)'
  BY <1>2 DEF Making, Activating, At
<1>6. QED
  BY <1>1, <1>2, <1>3, <1>4, <1>5, EntryRemoved

\* Activations and reloads give no object another name.
LEMMA ActivationNames ==
    ASSUME TypeOK, NEW c \in Callers, DbOf(c) \in Databases,
           LoadSchema(c) \/ LookupFails(c) \/ ActivateFails(c) \/ OpenPool(c)
    PROVE  \A d \in Databases : /\ db'[d].name = db[d].name
                                /\ db'[d].pool = db[d].pool \/ d = DbOf(c)
<1>1. CASE db' = [db EXCEPT ![DbOf(c)].info = TRUE]
  BY <1>1, InfoLemma
<1>2. CASE db' = [db EXCEPT ![DbOf(c)].closed = TRUE]
  BY <1>2 DEF TypeOK, Database
<1>3. CASE db' = [db EXCEPT ![DbOf(c)].failed = TRUE, ![DbOf(c)].closed = TRUE]
  <2>1. db' = [db EXCEPT ![DbOf(c)] = [db[DbOf(c)] EXCEPT !.failed = TRUE, !.closed = TRUE]]
    BY <1>3 DEF TypeOK
  <2>2. QED
    BY <2>1 DEF TypeOK, Database
<1>4. CASE db' = [db EXCEPT ![DbOf(c)].pool = "open", ![DbOf(c)].closed = TRUE]
  <2>1. db' = [db EXCEPT ![DbOf(c)] = [db[DbOf(c)] EXCEPT !.pool = "open", !.closed = TRUE]]
    BY <1>4 DEF TypeOK
  <2>2. QED
    BY <2>1 DEF TypeOK, Database
<1>5. QED
  BY <1>1, <1>2, <1>3, <1>4 DEF LoadSchema, LookupFails, ActivateFails, OpenPool, ChannelClosed

\* A reload changes no name and no pool.
LEMMA StoresNoName ==
    ASSUME TypeOK, NEW c \in Callers, ReloadLoad(c) \/ ReloadFails(c) \/ ReloadStore(c)
    PROVE  \A d \in Databases : db'[d].name = db[d].name /\ db'[d].pool = db[d].pool
<1>1. CASE db' = db
  BY <1>1
<1>2. CASE db' = [db EXCEPT ![DbOf(c)].info = TRUE] /\ DbOf(c) \in Databases
  BY <1>2, InfoLemma
<1>3. CASE db' = [db EXCEPT ![DbOf(c)].info = TRUE] /\ DbOf(c) \notin Databases
  BY <1>3 DEF TypeOK
<1>4. QED
  BY <1>1, <1>2, <1>3 DEF ReloadLoad, ReloadFails, ReloadStore

\* Where the listener goes.
LEMMA ReloadLabels ==
    ASSUME IInv, NEW c \in Callers, ReloadLoad(c) \/ ReloadFails(c) \/ ReloadStore(c)
    PROVE  call'[c].pc \in {"reload next", "reload", "crashed"}
<1>0. call[c] \in Call /\ call \in [Callers -> Call]
  BY DEF IInv, TypeOK, Call
<1>1. CASE ReloadLoad(c)
  <2>1. PICK n \in call[c].todo :
          call' = [call EXCEPT ![c].todo = @ \ {n},
                               ![c].pc = IF active[n] = None THEN @ ELSE "reload",
                               ![c].db = active[n]]
    BY <1>1 DEF ReloadLoad
  <2> DEFINE l == IF active[n] = None THEN call[c].pc ELSE "reload"
             t == call[c].todo \ {n}
  <2>2. l \in {"reload next", "reload"}
    BY <1>1 DEF ReloadLoad, At
  <2>3. call'[c] = [call[c] EXCEPT !.todo = t, !.pc = l, !.db = active[n]]
    BY <1>0, <2>1
  <2> HIDE DEF l, t
  <2>4. QED
    BY <1>0, <2>2, <2>3 DEF Call
<1>2. CASE ReloadFails(c)
  <2> DEFINE l == IF db[DbOf(c)].pool = "nil" THEN "crashed" ELSE "reload next"
             d == IF db[DbOf(c)].pool = "nil" THEN call[c].db ELSE None
  <2>1. l \in {"reload next", "crashed"}
    OBVIOUS
  <2>2. call'[c] = [call[c] EXCEPT !.pc = l, !.db = d]
    BY <1>0, <1>2 DEF ReloadFails
  <2> HIDE DEF l, d
  <2>3. QED
    BY <1>0, <2>1, <2>2 DEF Call
<1>3. CASE ReloadStore(c)
  <2>1. call'[c] = [call[c] EXCEPT !.pc = "reload next", !.db = None]
    BY <1>0, <1>3 DEF ReloadStore
  <2>2. QED
    BY <1>0, <2>1 DEF Call
<1>4. QED
  BY <1>1, <1>2, <1>3

\* The steps of the others store and remove no entry.
LEMMA NextListed == OneDeleter /\ IInv /\ IInv' /\ Listed /\ [Next]_vars => Listed'
<1> SUFFICES ASSUME OneDeleter, IInv, IInv', Listed, [Next]_vars PROVE Listed'
  OBVIOUS
<1> USE DEF IInv
<1>1. CASE UNCHANGED vars
  <2>1. UNCHANGED <<cluster, active, db, lock, call>>
    BY <1>1 DEF vars
  <2>2. EntryNamed' /\ OpenPoolsReachable' /\ OpenNamed'
    BY <2>1 DEF Listed, EntryNamed, OpenPoolsReachable, OpenNamed
  <2>3. MadeListed' /\ DeletesItsOwn'
    BY <2>1 DEF Listed, MadeListed, DeletesItsOwn, Making, Activating, At, DbOf, NameOf
  <2>4. QED
    BY <2>2, <2>3 DEF Listed
<1>2. ASSUME NEW c \in Callers, Enter(c) \/ WaitCanceled(c) \/ DeleteLoad(c) \/ ReloadStart(c) \/ Progress(c)
      PROVE  Listed'
  <2>0. call[c] \in Call /\ call' \in [Callers -> Call] /\ call \in [Callers -> Call]
    BY DEF TypeOK, Call
  \* Steps that change neither the objects nor the map.
  <2>1. ASSUME UNCHANGED <<active, db>>, Others(c),
               Making(c)' => Making(c) /\ DbOf(c)' = DbOf(c) /\ NameOf(c)' = NameOf(c),
               call'[c].pc \in {"close", "drain"} => DeleteLoad(c)
        PROVE  Listed'
    <3>1. call'[c].pc \in {"close", "drain"} =>
             NameOf(c)' \in Names /\ DbOf(c)' \in Databases /\ active[NameOf(c)'] = DbOf(c)'
      <4>1. SUFFICES ASSUME DeleteLoad(c), call'[c].pc \in {"close", "drain"}
                     PROVE  NameOf(c)' \in Names /\ DbOf(c)' \in Databases /\ active[NameOf(c)'] = DbOf(c)'
        BY <2>1
      <4>2. PICK n \in Names :
              call' = [call EXCEPT ![c] = [Idle EXCEPT !.pc = ClosesFirst(n), !.name = n, !.db = active[n]]]
        BY <4>1 DEF DeleteLoad
      <4>3. call'[c] = [Idle EXCEPT !.pc = ClosesFirst(n), !.name = n, !.db = active[n]]
        BY <2>0, <4>2
      <4>4. call'[c].name = n /\ call'[c].db = active[n]
        BY <4>3, IdleLemma DEF Call
      <4>5. DbOf(c)' \in Databases
        BY <4>1 DEF Draining
      <4>6. QED
        BY <4>4, <4>5 DEF NameOf, DbOf
    <3>2. QED
      BY <2>1, <3>1, EntriesKept
  <2>2. ASSUME Finish(c), UNCHANGED <<active, db>>
        PROVE  Listed'
    <3>1. Others(c) /\ call'[c].pc = "idle"
      BY <2>2, FinishLemma
    <3>2. QED
      BY <2>1, <2>2, <3>1 DEF Making, Activating, At
  <2>3. ASSUME NEW ok \in BOOLEAN, Returns(c, ok), UNCHANGED <<active, db>>
        PROVE  Listed'
    <3>1. Others(c) /\ call'[c].pc \in {"use", "idle", "lock", "create"}
      BY <2>3, ReturnsLemma
    <3>2. QED
      BY <2>1, <2>3, <3>1 DEF Making, Activating, At
  <2>4. CASE Enter(c) \/ DeleteLoad(c) \/ ReloadStart(c)
    <3>1. PICK x : call' = [call EXCEPT ![c] = x]
      BY <2>4 DEF Enter, DeleteLoad, ReloadStart
    <3>2. Others(c) /\ call'[c] = x /\ UNCHANGED <<active, db>>
      BY <2>0, <2>4, <3>1 DEF Others, Enter, DeleteLoad, ReloadStart
    <3>3. \/ DeleteLoad(c) /\ call'[c].pc \in {"close", "drop"}
          \/ call'[c].pc \in {"get", "lock", "reload next"}
      <4>1. CASE Enter(c)
        <5>1. PICK op \in Ops, n \in Names :
                call'[c] = [Idle EXCEPT !.pc = IF op = "create" THEN "lock" ELSE "get", !.op = op, !.name = n]
          BY <2>0, <4>1 DEF Enter
        <5> DEFINE l == IF op = "create" THEN "lock" ELSE "get"
        <5>2. l \in {"get", "lock"}
          OBVIOUS
        <5>3. call'[c] = [Idle EXCEPT !.pc = l, !.op = op, !.name = n]
          BY <5>1
        <5> HIDE DEF l
        <5>4. call'[c].pc = l
          BY <5>3, IdleLemma DEF Call
        <5>5. QED
          BY <5>2, <5>4
      <4>2. CASE DeleteLoad(c)
        <5>1. PICK n \in Names : call'[c] = [Idle EXCEPT !.pc = ClosesFirst(n), !.name = n, !.db = active[n]]
          BY <2>0, <4>2 DEF DeleteLoad
        <5>2. call'[c].pc = ClosesFirst(n)
          BY <5>1, IdleLemma DEF Call
        <5>3. QED
          BY <4>2, <5>2 DEF ClosesFirst
      <4>3. CASE ReloadStart(c)
        <5>1. PICK todo : call'[c] = [Idle EXCEPT !.pc = "reload next", !.todo = todo]
          BY <2>0, <4>3 DEF ReloadStart
        <5>2. QED
          BY <5>1, IdleLemma DEF Call
      <4>4. QED
        BY <2>4, <4>1, <4>2, <4>3
    <3>4. QED
      BY <2>1, <3>2, <3>3 DEF Making, Activating, At
  <2>5. CASE WaitCanceled(c) \/ Awaken(c)
    BY <2>3, <2>5 DEF WaitCanceled, Awaken
  <2>6. CASE Lock(c) \/ LoadEntry(c)
    <3>1. Others(c) /\ UNCHANGED <<active, db>> /\ call'[c].pc \in {"create", "get", "wait"}
      <4>1. CASE Lock(c)
        <5> DEFINE l == IF call[c].op = "create" THEN "create" ELSE "get"
        <5>1. call' = [call EXCEPT ![c] = [call[c] EXCEPT !.pc = l, !.attempt = 2]]
          BY <2>0, <4>1 DEF Lock
        <5>2. l \in {"create", "get"}
          OBVIOUS
        <5> HIDE DEF l
        <5>3. Others(c) /\ call'[c].pc = l
          BY <2>0, <5>1 DEF Others, Call
        <5>4. QED
          BY <4>1, <5>2, <5>3 DEF Lock
      <4>2. CASE LoadEntry(c)
        <5>1. call' = [call EXCEPT ![c] = [call[c] EXCEPT !.pc = "wait", !.db = active[NameOf(c)]]]
          BY <2>0, <4>2 DEF LoadEntry
        <5>2. Others(c) /\ call'[c].pc = "wait"
          BY <2>0, <5>1 DEF Others, Call
        <5>3. QED
          BY <4>2, <5>2 DEF LoadEntry
      <4>3. QED
        BY <2>6, <4>1, <4>2
    <3>2. QED
      BY <2>1, <3>1 DEF Making, Activating, At
  <2>7. CASE Create(c) \/ Created(c)
    <3>1. CASE call' = [call EXCEPT ![c].pc = "get", ![c].attempt = 3]
      <4>1. call' = [call EXCEPT ![c] = [call[c] EXCEPT !.pc = "get", !.attempt = 3]]
        BY <2>0, <3>1
      <4>2. Others(c) /\ call'[c].pc = "get"
        BY <2>0, <4>1 DEF Others, Call
      <4>3. QED
        BY <2>1, <2>7, <4>2 DEF Create, Created, Making, Activating, At
    <3>2. CASE Goto(c, "created")
      <4>1. Others(c) /\ call'[c].pc = "created"
        BY <3>2, GotoLemma
      <4>2. QED
        BY <2>1, <2>7, <4>1 DEF Create, Created, Making, Activating, At
    <3>3. QED
      BY <2>2, <2>7, <3>1, <3>2 DEF Create, Created
  <2>8. CASE UseFails(c) \/ Disconnect(c) \/ DeletePanics(c) \/ ReloadEnd(c) \/ Drop(c)
    <3>1. CASE UseFails(c) \/ Disconnect(c)
      BY <2>2, <3>1 DEF UseFails, Disconnect
    <3>2. CASE DeletePanics(c) \/ ReloadEnd(c)
      BY <2>2, <3>2 DEF DeletePanics, ReloadEnd
    <3>3. CASE Drop(c)
      BY <2>2, <3>3 DEF Drop
    <3>4. QED
      BY <2>8, <3>1, <3>2, <3>3
  <2>9. CASE Lookup(c) \/ Use(c) \/ ReloadAcquire(c)
    <3>1. PICK l \in {"activate", "connected", "reloading"} :
            Goto(c, l) /\ UNCHANGED <<active, db>> /\ (l = "activate" => At(c, "lookup"))
      BY <2>9 DEF Lookup, Use, ReloadAcquire
    <3>2. Others(c) /\ call'[c].pc = l /\ DbOf(c)' = DbOf(c) /\ NameOf(c)' = NameOf(c)
      BY <3>1, GotoLemma DEF DbOf, NameOf
    <3>3. QED
      BY <2>1, <3>1, <3>2 DEF Making, Activating, At
  <2>10. CASE ReloadLoad(c) \/ ReloadFails(c) \/ ReloadStore(c)
    <3>1. PICK x : call' = [call EXCEPT ![c] = x]
      <4>1. CASE ReloadLoad(c)
        <5>1. PICK n : call' = [call EXCEPT ![c].todo = @ \ {n},
                                           ![c].pc = IF active[n] = None THEN @ ELSE "reload",
                                           ![c].db = active[n]]
          BY <4>1 DEF ReloadLoad
        <5>2. call' = [call EXCEPT ![c] = [call[c] EXCEPT !.todo = @ \ {n},
                                                          !.pc = IF active[n] = None THEN @ ELSE "reload",
                                                          !.db = active[n]]]
          BY <2>0, <5>1
        <5>3. QED
          BY <5>2
      <4>2. CASE ReloadFails(c) \/ ReloadStore(c)
        BY <2>0, <4>2 DEF ReloadFails, ReloadStore
      <4>3. QED
        BY <2>10, <4>1, <4>2
    <3>2. Others(c) /\ UNCHANGED active
      <4>1. UNCHANGED active
        BY <2>10 DEF ReloadLoad, ReloadFails, ReloadStore
      <4>2. QED
        BY <2>0, <3>1, <4>1 DEF Others
    <3>3. call'[c].pc \in {"reload next", "reload", "crashed"}
      BY <2>10, ReloadLabels
    <3>4. \A d \in Databases : db'[d].name = db[d].name /\ db'[d].pool = db[d].pool
      BY <2>0, <2>10, StoresNoName
    <3>5. ~Making(c)' /\ call'[c].pc \notin {"close", "drain"}
      BY <3>3 DEF Making, Activating, At
    <3>6. QED
      BY <3>2, <3>4, <3>5, EntriesKept
  \* The objects.
  <2>11. ASSUME UNCHANGED active, Others(c), Activating(c),
                \A d \in Databases : /\ db'[d].name = db[d].name
                                     /\ db'[d].pool = db[d].pool \/ d = DbOf(c),
                \/ Making(c)' /\ DbOf(c)' = DbOf(c) /\ NameOf(c)' = NameOf(c)
                \/ call'[c].pc = "use"
         PROVE  Listed'
    <3>1. Making(c) /\ call'[c].pc \notin {"close", "drain"} /\ (call'[c].pc = "use" => ~Making(c)')
      BY <2>11 DEF Making, Activating, At
    <3>2. QED
      BY <2>11, <3>1, EntriesKept
  <2>12. CASE LoadSchema(c) \/ LookupFails(c) \/ ActivateFails(c) \/ OpenPool(c)
    <3>1. /\ call[c].pc \in {"lookup", "activate", "pool"} /\ UNCHANGED active
          /\ Goto(c, "pool") \/ Goto(c, "undo") \/ OpenPool(c)
      BY <2>12 DEF LoadSchema, LookupFails, ActivateFails, OpenPool, At
    <3>2. Activating(c) /\ DbOf(c) \in Databases
      BY <3>1 DEF Activating, Making, MadeAlone
    <3>3. Others(c) /\ ((Making(c)' /\ DbOf(c)' = DbOf(c) /\ NameOf(c)' = NameOf(c)) \/ call'[c].pc = "use")
      <4>1. CASE OpenPool(c)
        <5> DEFINE ok == TRUE
        <5>1. Returns(c, ok) /\ ok \in BOOLEAN /\ ok
          BY <4>1 DEF OpenPool
        <5> HIDE DEF ok
        <5>2. QED
          BY <5>1, ReturnsLemma
      <4>2. CASE Goto(c, "pool")
        BY <4>2, GotoLemma DEF Making, Activating, DbOf, NameOf
      <4>3. CASE Goto(c, "undo")
        BY <4>3, GotoLemma DEF Making, At, DbOf, NameOf
      <4>4. QED
        BY <3>1, <4>1, <4>2, <4>3
    <3>4. \A d \in Databases : /\ db'[d].name = db[d].name
                               /\ db'[d].pool = db[d].pool \/ d = DbOf(c)
      BY <2>12, <3>2, ActivationNames
    <3>5. QED
      BY <2>11, <3>1, <3>2, <3>3, <3>4
  <2>13. CASE ClosePool(c)
    <3>1. call[c].pc = "close" /\ db[DbOf(c)].pool # "nil" /\ Goto(c, "drain") /\ UNCHANGED active /\ DbOf(c) \in Databases
      BY <2>13 DEF ClosePool, At, Draining
    <3>2. NameOf(c) \in Names /\ active[NameOf(c)] = DbOf(c)
      BY <3>1 DEF Listed, DeletesItsOwn, Named
    <3>3. Others(c) /\ call'[c].pc = "drain" /\ DbOf(c)' = DbOf(c) /\ NameOf(c)' = NameOf(c) /\ ~Making(c)'
      BY <3>1, GotoLemma DEF DbOf, NameOf, Making, Activating, At
    <3>4. \A d \in Databases : /\ db'[d].name = db[d].name
                               /\ db'[d].pool # "nil" => db[d].pool # "nil"
                               /\ db'[d].pool = "open" => db[d].pool = "open"
      <4>1. db \in [Databases -> Database] /\ db' = [db EXCEPT ![DbOf(c)].pool = "closed"]
        BY <2>13 DEF ClosePool, PoolClosed, TypeOK
      <4>2. QED
        BY <3>1, <4>1 DEF Database
    <3>5. QED
      BY <3>1, <3>2, <3>3, <3>4, EntriesKept
  <2>14. CASE StorePlaceholder(c)
    BY <2>14, StoreListed
  <2>15. CASE Undo(c)
    BY <2>15, UndoListed
  <2>16. CASE DeleteEntry(c)
    BY <2>16, DeleteEntryListed
  <2>17. QED
    BY <1>2, <2>4, <2>5, <2>6, <2>7, <2>8, <2>9, <2>10, <2>12, <2>13, <2>14, <2>15,
       <2>16 DEF Progress, GetActive, Delete, Reload
<1>3. QED
  BY <1>1, <1>2 DEF Next

\* Initially nothing is listed, and nothing open.
LEMMA InitListed == Init => Listed
<1> SUFFICES ASSUME Init PROVE Listed
  OBVIOUS
<1>1. \A c \in Callers : call[c].pc = "idle"
  BY IdleLemma DEF Init
<1>2. \A n \in Names : active[n] = None
  BY DEF Init
<1>3. \A d \in Databases : db[d].pool = "nil"
  BY DEF Init, Placeholder
<1>4. QED
  BY <1>1, <1>2, <1>3 DEF Listed, EntryNamed, MadeListed, DeletesItsOwn, OpenNamed,
     OpenPoolsReachable,
     Making, Activating, At

\* Where at most one goroutine deletes databases, whatever is open can be
\* closed: DbEngine.Close and DeleteDatabase find every open pool under its name
\* in activeDatabases (dbengine.go:133-136, 328-334), and no name has two.  That
\* Undo and DeleteEntry delete whatever is stored there (dbengine.go:333, 361)
\* does no harm then: it is always their own entry.
THEOREM OpenPoolsReachableCorrect == OneDeleter => (Spec => []OpenPoolsReachable)
<1> SUFFICES ASSUME OneDeleter PROVE Spec => []OpenPoolsReachable
  OBVIOUS
<1>1. IInv /\ IInv' /\ Listed /\ [Next]_vars => Listed'
  BY NextListed
<1>2. Listed => OpenPoolsReachable
  BY DEF Listed
<1>3. QED
  BY <1>1, <1>2, InitListed, Invariance, PTL DEF Spec
=============================================================================
