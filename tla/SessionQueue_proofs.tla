------------------------- MODULE SessionQueue_proofs -------------------------
(***************************************************************************)
(* One slot of the session manager keeps the free sessions first, and by   *)
(* that keeps the promise of SessionPool, for every set of sessions.       *)
(***************************************************************************)
EXTENDS SessionQueue, SessionOrder_proofs

\* The free prefix says something about the whole list only together with what
\* the list holds: this conjunction is inductive, FreeFirst alone is not.
Inv == TypeOK /\ FreeFirst

\* Idle at the head, or nowhere: with a head in use there is no free session.
LEMMA HeadInUse ==
    ASSUME Inv, queue # <<>> => queue[1] \in inUse
    PROVE  Members(queue) = inUse
<1> USE DEF Inv, TypeOK
<1>1. DOMAIN queue = 1 .. Len(queue) /\ Len(queue) \in Nat
  OBVIOUS
<1>2. ASSUME NEW i \in 1 .. Len(queue) PROVE queue[i] \in inUse
  <2>1. 1 \in 1 .. Len(queue) /\ queue[1] \in inUse
    BY <1>1
  <2>2. QED
    BY <2>1, <1>1 DEF FreeFirst, FreePrefix
<1>3. \A s \in Members(queue) : s \in inUse
  BY <1>1, <1>2 DEF Members
<1>4. QED
  BY <1>3

\* The head of a slot is one of its sessions.
LEMMA HeadIsMember ==
    ASSUME TypeOK, queue # <<>>
    PROVE  queue[1] \in Members(queue) /\ queue[1] \in Sessions
BY DEF TypeOK, Members

\* What a step does to the members of the slot and to the set in use, and that
\* it keeps the invariant.
LEMMA ReuseStep ==
    ASSUME Inv, Reuse
    PROVE  Inv' /\ Members(queue') = Members(queue)
<1>1. queue[1] \in Members(queue)
  BY HeadIsMember DEF Inv, Reuse
<1>2. /\ queue' \in Seq(Sessions)
      /\ Members(queue') = Members(queue)
      /\ Injective(queue')
      /\ FreePrefix(queue', inUse')
  BY FrontToBackLemma DEF Inv, TypeOK, FreeFirst, Reuse
<1>3. QED
  BY <1>1, <1>2 DEF Inv, TypeOK, FreeFirst, Reuse

\* newSession finds no free session: it keeps the invariant.
LEMMA CreateStep ==
    ASSUME Inv, NEW s \in Sessions, Create(s)
    PROVE  Inv' /\ Members(queue') = Members(queue) \cup {s}
<1>1. /\ queue' \in Seq(Sessions)
      /\ Members(queue') = Members(queue) \cup {s}
      /\ Injective(queue')
      /\ FreePrefix(queue', inUse')
  BY AppendLemma DEF Inv, TypeOK, FreeFirst, Create
<1>2. QED
  BY <1>1 DEF Inv, TypeOK, FreeFirst, Create

\* leaveSession puts a session in front as it becomes free.
LEMMA LeaveStep ==
    ASSUME Inv, NEW s \in Sessions, Leave(s)
    PROVE  Inv' /\ Members(queue') = Members(queue)
<1>1. s \in Members(queue)
  BY DEF Inv, TypeOK, Leave
<1>2. /\ queue' \in Seq(Sessions)
      /\ Members(queue') = Members(queue)
      /\ Injective(queue')
      /\ FreePrefix(queue', inUse')
  BY <1>1, ToFrontLemma DEF Inv, TypeOK, FreeFirst, Leave
<1>3. QED
  BY <1>2 DEF Inv, TypeOK, FreeFirst, Leave

\* The watcher removes a free session: the others keep their order.
LEMMA ExpireStep ==
    ASSUME Inv, NEW s \in Sessions, Expire(s)
    PROVE  Inv' /\ Members(queue') = Members(queue) \ {s}
<1>1. s \in Members(queue) /\ s \notin inUse
  BY DEF Expire
<1>2. /\ queue' \in Seq(Sessions)
      /\ Members(queue') = Members(queue) \ {s}
      /\ Injective(queue')
      /\ FreePrefix(queue', inUse')
  BY <1>1, WithoutLemma DEF Inv, TypeOK, FreeFirst, Expire
<1>3. QED
  BY <1>1, <1>2 DEF Inv, TypeOK, FreeFirst, Expire

\* A slot begins empty, hence ordered.
LEMMA InvInit == Init => Inv
<1>1. Members(<<>>) = {} /\ Injective(<<>>) /\ FreePrefix(<<>>, {})
  BY DEF Members, Injective, FreePrefix
<1>2. QED
  BY <1>1 DEF Init, Inv, TypeOK, FreeFirst

\* No operation of a slot breaks the order.
LEMMA InvNext == Inv /\ [Next]_vars => Inv'
<1> SUFFICES ASSUME Inv, [Next]_vars PROVE Inv'
  OBVIOUS
<1>1. CASE Reuse
  BY <1>1, ReuseStep
<1>2. ASSUME NEW s \in Sessions, Create(s) PROVE Inv'
  BY <1>2, CreateStep
<1>3. ASSUME NEW s \in Sessions, Leave(s) PROVE Inv'
  BY <1>3, LeaveStep
<1>4. ASSUME NEW s \in Sessions, Expire(s) PROVE Inv'
  BY <1>4, ExpireStep
<1>5. CASE UNCHANGED vars
  BY <1>5 DEF vars, Inv, TypeOK, FreeFirst
<1>6. QED
  BY <1>1, <1>2, <1>3, <1>4, <1>5 DEF Next

\* Every slot always has its free sessions before those in use, so a test of the
\* head (sessions.go:210-215) decides whether the slot has a free session.
THEOREM SlotInvariant == Spec => []Inv
<1>1. QED
  BY InvInit, InvNext, PTL DEF Spec

\* What an operation does to the list and its flags is what the promise allows it
\* to do to the sets: the head that is reused is one of the sessions and was idle,
\* a session is made when none of the others is, and an idle one is what expires.
LEMMA OperationOfPool ==
    ASSUME Inv, Next
    PROVE  Pool!Next
<1>1. Reuse => \E s \in Sessions : Pool!Reuse(s)
  <2>1. SUFFICES ASSUME Reuse PROVE \E s \in Sessions : Pool!Reuse(s)
    OBVIOUS
  <2>2. queue[1] \in Sessions /\ queue[1] \in Members(queue)
    BY <2>1, HeadIsMember DEF Inv, Reuse
  <2>3. Pool!Reuse(queue[1])
    BY <2>1, <2>2, ReuseStep DEF Pool!Reuse, Reuse, Inv, TypeOK
  <2>4. QED
    BY <2>2, <2>3
<1>2. ASSUME NEW s \in Sessions
      PROVE  /\ Create(s) => Pool!Create(s)
             /\ Leave(s) => Pool!Leave(s)
             /\ Expire(s) => Pool!Expire(s)
  <2>1. Create(s) => Members(queue) = inUse
    BY HeadInUse DEF Create
  <2>2. Create(s) => Pool!Create(s)
    BY <2>1, CreateStep DEF Pool!Create, Create
  <2>3. Leave(s) => Pool!Leave(s)
    BY LeaveStep DEF Pool!Leave, Leave, Inv, TypeOK
  <2>4. Expire(s) => Pool!Expire(s)
    BY ExpireStep DEF Pool!Expire, Expire
  <2>5. QED
    BY <2>2, <2>3, <2>4
<1>3. QED
  BY <1>1, <1>2 DEF Next, Pool!Next

\* Forgetting the order, a slot hands out idle sessions before it makes new ones,
\* one request at a time, and expires idle ones only: every step of the queue is a
\* step of SessionPool (sessions.go:200-230, 134-142).
THEOREM SlotKeepsPromise == Spec => PoolSpec
<1>1. Init => Pool!Init
  BY DEF Init, Pool!Init, Members
<1>2. UNCHANGED vars => UNCHANGED Pool!vars
  BY DEF vars, Pool!vars
<1>3. Inv /\ [Next]_vars => [Pool!Next]_(Pool!vars)
  BY <1>2, OperationOfPool
<1>4. QED
  BY <1>1, <1>3, SlotInvariant, PTL DEF Spec, PoolSpec, Pool!Spec
=============================================================================
