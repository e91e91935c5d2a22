---------------------------- MODULE SessionQueue ----------------------------
(***************************************************************************)
(* One slot of SessionManager.slots: the list of the sessions of one key,  *)
(* seen as a sequence, under the three operations that change it while the *)
(* manager's mutex is held (getSession, leaveSession, watch).  A slot that *)
(* is absent from the map is the empty sequence.                           *)
(***************************************************************************)
EXTENDS SessionOrder

CONSTANT Sessions      \* identities of the Session objects

VARIABLES queue,       \* the sessions of the slot, from head to tail
          inUse        \* the sessions whose inUse flag is set

vars == <<queue, inUse>>

TypeOK ==
    /\ queue \in Seq(Sessions)
    /\ Injective(queue)
    /\ inUse \subseteq Members(queue)

Init == queue = <<>> /\ inUse = {}

\* getSession, the head is idle: it is taken and moved to the back.
Reuse ==
    /\ queue # <<>>
    /\ queue[1] \notin inUse
    /\ inUse' = inUse \cup {queue[1]}
    /\ queue' = FrontToBack(queue)

\* getSession, no list, an empty list or a head in use: newSession appends.
Create(s) ==
    /\ queue # <<>> => queue[1] \in inUse
    /\ s \in Sessions \ Members(queue)
    /\ inUse' = inUse \cup {s}
    /\ queue' = Append(queue, s)

\* leaveSession: to the front, then no longer in use.
Leave(s) ==
    /\ s \in inUse
    /\ queue' = ToFront(queue, s)
    /\ inUse' = inUse \ {s}

\* watch: a session that has been idle for too long is removed.
Expire(s) ==
    /\ s \in Members(queue) \ inUse
    /\ queue' = Without(queue, s)
    /\ UNCHANGED inUse

Next ==
    \/ Reuse
    \/ \E s \in Sessions : Create(s) \/ Leave(s) \/ Expire(s)

Spec == Init /\ [][Next]_vars
-----------------------------------------------------------------------------
\* getSession (sessions.go:210-215) looks at the head only.  In the list the
\* free sessions always precede the ones in use, so a head in use means that
\* no session of the slot is free.
FreeFirst == FreePrefix(queue, inUse)

\* The slot keeps the promise of SessionPool: forgetting the order, a session
\* is created only when none is idle, and only idle ones expire.
Pool == INSTANCE SessionPool WITH free <- Members(queue) \ inUse, busy <- inUse
PoolSpec == Pool!Spec
=============================================================================
