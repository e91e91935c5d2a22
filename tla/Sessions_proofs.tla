--------------------------- MODULE Sessions_proofs ---------------------------
(***************************************************************************)
(* Safety of the session manager for every number of requests, keys,       *)
(* sessions and connections, every configuration and every set of events:  *)
(* its lists and flags, whom a session and a connection belong to, that    *)
(* every list is a SessionQueue, and the state in which a handler finds    *)
(* the transaction and the role of its connection.                         *)
(***************************************************************************)
EXTENDS Sessions, SessionOrder_proofs

(* The inductive invariant, by the part of the state it is about.          *)

\* What a session belongs to: no session is in two lists, and the flag is set
\* only on sessions of some list.
Lists ==
    /\ FreeFirst
    /\ \A k1, k2 \in Keys : k1 # k2 => Members(slots[k1]) \cap Members(slots[k2]) = {}
    /\ inUse \subseteq Listed

\* A request under way has a session of its own, flagged and in its key's list.
Owned ==
    /\ \A r \in Requests : At(r, "idle") <=> Mine(r) = NoSession
    /\ \A r \in Requests : ~At(r, "idle") => req[r].key \in Keys
    /\ \A r1, r2 \in Requests : r1 # r2 /\ Mine(r1) # NoSession => Mine(r1) # Mine(r2)
    /\ config.sessions =>
         \A r \in Requests : Mine(r) # NoSession =>
             Mine(r) \in inUse /\ Mine(r) \in Members(slots[req[r].key])

\* The connections that sessions have, as a function, and that of a request.
own == [s \in SessionIds |-> Own(s)]
OwnOf(r) == own[Mine(r)]

\* While sessions are managed, what is out of the pool is what some session has.
Reached ==
    config.sessions => \A c \in Conns : conn[c].st = "out" => \E s \in Listed : own[s] = c

\* A connection belongs to one session, and a session that is about to acquire
\* one has none, so that no connection is overwritten.
Attached ==
    /\ \A s1, s2 \in SessionIds : s1 # s2 /\ own[s1] # NoConn => own[s1] # own[s2]
    /\ \A s \in SessionIds : own[s] # NoConn => conn[own[s]].st = "out"
    /\ \A r \in Requests : Working(r) => OwnOf(r) # NoConn
    /\ \A r \in Requests : At(r, "acquire") => OwnOf(r) = NoConn
    /\ Reached

\* Only a manager that is enabled has a watcher.  What the watcher has found of a
\* session stays true until it has done what follows from it: this is what the
\* mutex is for.
Watched ==
    /\ watcher.on => config.sessions
    /\ watcher.rest # <<>> => watcher.on
    /\ watcher.at # "walk" =>
         /\ watcher.rest # <<>>
         /\ Head(watcher.rest) \notin inUse
         /\ watcher.at = "delete" => dbConn[Head(watcher.rest)] = NoConn
         /\ watcher.at # "delete" => dbConn[Head(watcher.rest)] # NoConn

IInv == TypeOK /\ Lists /\ Owned /\ Attached /\ Watched
-----------------------------------------------------------------------------
(* The lists.                                                              *)

ListTypes ==
    /\ slots \in [Keys -> Seq(SessionIds)]
    /\ \A k \in Keys : Injective(slots[k])

\* A session stays in its list unless it is neither used nor connected.
Kept ==
    \A k \in Keys : \A s \in Members(slots[k]) :
        s \in Members(slots'[k]) \/ (s \notin inUse /\ dbConn[s] = NoConn)

\* Flags of sessions that are not in a list do not matter to it.
LEMMA FreePrefixFrame ==
    ASSUME NEW q, NEW A, NEW B, FreePrefix(q, A), A \cap Members(q) = B \cap Members(q)
    PROVE  FreePrefix(q, B)
<1>1. \A i \in DOMAIN q : q[i] \in A <=> q[i] \in B
  BY DEF Members
<1>2. QED
  BY <1>1 DEF FreePrefix

\* Every operation changes the list of one key, and flags of its sessions only.
LEMMA OneListChanges ==
    ASSUME IInv, NEW k \in Keys, NEW q \in Seq(SessionIds),
           slots' = [slots EXCEPT ![k] = q],
           Injective(q), FreePrefix(q, inUse'),
           \A s \in Members(slots[k]) : s \in Members(q) \/ (s \notin inUse /\ dbConn[s] = NoConn),
           \A j \in Keys : j # k => /\ Members(q) \cap Members(slots[j]) = {}
                                    /\ inUse' \cap Members(slots[j]) = inUse \cap Members(slots[j]),
           \A s \in inUse' : s \in Members(q) \/ \E j \in Keys : j # k /\ s \in Members(slots[j])
    PROVE  ListTypes' /\ Lists' /\ Kept
<1> USE DEF IInv, TypeOK
<1>1. ListTypes'
  BY DEF ListTypes
<1>2. slots'[k] = q /\ \A j \in Keys : j # k => slots'[j] = slots[j]
  OBVIOUS
<1>3. FreeFirst'
  <2> SUFFICES ASSUME NEW j \in Keys PROVE FreePrefix(slots'[j], inUse')
    BY DEF FreeFirst
  <2>1. CASE j = k
    BY <2>1, <1>2
  <2>2. CASE j # k
    <3>1. /\ FreePrefix(slots[j], inUse)
          /\ inUse \cap Members(slots[j]) = inUse' \cap Members(slots[j])
      BY <2>2 DEF Lists, FreeFirst
    <3>2. FreePrefix(slots[j], inUse')
      BY <3>1, FreePrefixFrame
    <3>3. QED
      BY <2>2, <3>2, <1>2
  <2>3. QED
    BY <2>1, <2>2
<1>4. \A k1, k2 \in Keys : k1 # k2 => Members(slots'[k1]) \cap Members(slots'[k2]) = {}
  BY <1>2 DEF Lists
<1>5. inUse' \subseteq Listed'
  BY <1>2 DEF Listed
<1>6. Kept
  BY <1>2 DEF Kept
<1>7. QED
  BY <1>1, <1>3, <1>4, <1>5, <1>6 DEF Lists

\* A step that changes neither lists nor flags keeps the lists in order.
LEMMA ListsUnchanged ==
    ASSUME IInv, UNCHANGED <<slots, inUse>>
    PROVE  ListTypes' /\ Lists' /\ Kept
BY DEF IInv, TypeOK, ListTypes, Lists, FreeFirst, Listed, Kept

\* newSession appends to a list whose sessions are all in use.
LEMMA GetNewLists ==
    ASSUME IInv, NEW r \in Requests, GetNew(r)
    PROVE  ListTypes' /\ Lists' /\ Kept
<1>1. PICK k \in Keys, s \in Unused :
        /\ slots[k] # <<>> => slots[k][1] \in inUse
        /\ inUse' = inUse \cup {s}
        /\ slots' = [slots EXCEPT ![k] = Append(slots[k], s)]
  BY DEF GetNew, NewSession
<1>2. s \in SessionIds /\ \A j \in Keys : s \notin Members(slots[j])
  BY DEF Unused, Listed
<1> DEFINE q == Append(slots[k], s)
<1>3. slots[k] \in Seq(SessionIds) /\ Injective(slots[k]) /\ FreePrefix(slots[k], inUse)
  BY DEF IInv, TypeOK, Lists, FreeFirst
<1>4. /\ q \in Seq(SessionIds) /\ Members(q) = Members(slots[k]) \cup {s}
      /\ Injective(q) /\ FreePrefix(q, inUse')
  <2>1. s \notin Members(slots[k])
    BY <1>2
  <2>2. /\ q \in Seq(SessionIds) /\ Members(q) = Members(slots[k]) \cup {s}
        /\ Injective(q) /\ FreePrefix(q, inUse \cup {s})
    <3> DEFINE l == slots[k]
    <3>1. l \in Seq(SessionIds) /\ Injective(l) /\ FreePrefix(l, inUse) /\ s \notin Members(l)
      BY <1>3, <2>1
    <3>2. l # <<>> => l[1] \in inUse
      BY <1>1
    <3> HIDE DEF l
    <3>3. QED
      BY <3>1, <3>2, <1>2, AppendLemma DEF q, l
  <2>3. QED
    BY <1>1, <2>2
<1> HIDE DEF q
<1>5. slots' = [slots EXCEPT ![k] = q]
  BY <1>1 DEF q
<1>6. \A j \in Keys : j # k => /\ Members(q) \cap Members(slots[j]) = {}
                               /\ inUse' \cap Members(slots[j]) = inUse \cap Members(slots[j])
  BY <1>1, <1>2, <1>4 DEF IInv, Lists
<1>7. \A t \in inUse' : t \in Members(q) \/ \E j \in Keys : j # k /\ t \in Members(slots[j])
  BY <1>1, <1>4 DEF IInv, Lists, Listed
<1>8. QED
  BY <1>4, <1>5, <1>6, <1>7, OneListChanges

\* getSession takes the free head of a list and moves it to the back.
LEMMA GetFreeLists ==
    ASSUME IInv, NEW r \in Requests, GetFree(r)
    PROVE  ListTypes' /\ Lists' /\ Kept
<1>1. PICK k \in Keys :
        /\ slots[k] # <<>>
        /\ inUse' = inUse \cup {slots[k][1]}
        /\ slots' = [slots EXCEPT ![k] = FrontToBack(slots[k])]
  BY DEF GetFree, HeadToBack
<1> DEFINE q == FrontToBack(slots[k])
<1>3. slots[k] \in Seq(SessionIds) /\ Injective(slots[k]) /\ FreePrefix(slots[k], inUse)
  BY DEF IInv, TypeOK, Lists, FreeFirst
<1>4. /\ q \in Seq(SessionIds) /\ Members(q) = Members(slots[k])
      /\ Injective(q) /\ FreePrefix(q, inUse')
  BY <1>1, <1>3, FrontToBackLemma
<1>2. slots[k][1] \in Members(slots[k])
  BY <1>1, <1>3 DEF Members
<1> HIDE DEF q
<1>5. slots' = [slots EXCEPT ![k] = q]
  BY <1>1 DEF q
<1>6. \A j \in Keys : j # k => /\ Members(q) \cap Members(slots[j]) = {}
                               /\ inUse' \cap Members(slots[j]) = inUse \cap Members(slots[j])
  BY <1>1, <1>2, <1>4 DEF IInv, Lists
<1>7. \A t \in inUse' : t \in Members(q) \/ \E j \in Keys : j # k /\ t \in Members(slots[j])
  BY <1>1, <1>2, <1>4 DEF IInv, Lists, Listed
<1>8. QED
  BY <1>4, <1>5, <1>6, <1>7, OneListChanges

\* leaveSession moves a session to the front and frees it.
LEMMA LeaveLists ==
    ASSUME IInv, NEW r \in Requests, Leave(r)
    PROVE  ListTypes' /\ Lists' /\ Kept
<1>1. CASE ~config.sessions
  BY <1>1, ListsUnchanged DEF Leave
<1>2. CASE config.sessions
  <2> DEFINE k == req[r].key
             q == ToFront(slots[k], Mine(r))
  <2>1. k \in Keys /\ Mine(r) \in Members(slots[k])
    BY <1>2 DEF Leave, IInv, Owned, At
  <2>2. inUse' = inUse \ {Mine(r)} /\ slots' = [slots EXCEPT ![k] = q]
    BY <1>2 DEF Leave, ComesFirst
  <2>3. slots[k] \in Seq(SessionIds) /\ Injective(slots[k]) /\ FreePrefix(slots[k], inUse)
    BY <2>1 DEF IInv, TypeOK, Lists, FreeFirst
  <2>4. /\ q \in Seq(SessionIds) /\ Members(q) = Members(slots[k])
        /\ Injective(q) /\ FreePrefix(q, inUse')
    BY <2>1, <2>2, <2>3, ToFrontLemma
  <2> HIDE DEF q, k
  <2>5. \A j \in Keys : j # k => /\ Members(q) \cap Members(slots[j]) = {}
                                 /\ inUse' \cap Members(slots[j]) = inUse \cap Members(slots[j])
    BY <2>1, <2>2, <2>4 DEF IInv, Lists
  <2>6. \A t \in inUse' : t \in Members(q) \/ \E j \in Keys : j # k /\ t \in Members(slots[j])
    BY <2>1, <2>2, <2>4 DEF IInv, Lists, Listed
  <2>7. QED
    BY <2>1, <2>2, <2>4, <2>5, <2>6, OneListChanges
<1>3. QED
  BY <1>1, <1>2

\* The watcher deletes a session that is neither in use nor connected.
LEMMA WatchDeleteLists ==
    ASSUME IInv, WatchDelete
    PROVE  ListTypes' /\ Lists' /\ Kept
<1> DEFINE s == Head(watcher.rest)
<1>1. /\ s \notin inUse /\ dbConn[s] = NoConn /\ inUse' = inUse
      /\ slots' = [k \in Keys |-> IF s \in Members(slots[k]) THEN Without(slots[k], s)
                                  ELSE slots[k]]
  BY DEF WatchDelete, Doing, IInv, Watched
<1> HIDE DEF s
<1>2. CASE \A k \in Keys : s \notin Members(slots[k])
  <2>1. slots' = slots
    BY <1>1, <1>2 DEF IInv, TypeOK
  <2>2. QED
    BY <1>1, <2>1, ListsUnchanged
<1>3. CASE \E k \in Keys : s \in Members(slots[k])
  <2>1. PICK k \in Keys : s \in Members(slots[k])
    BY <1>3
  <2> DEFINE q == Without(slots[k], s)
  <2>2. slots[k] \in Seq(SessionIds) /\ Injective(slots[k]) /\ FreePrefix(slots[k], inUse)
    BY DEF IInv, TypeOK, Lists, FreeFirst
  <2>3. /\ q \in Seq(SessionIds) /\ Members(q) = Members(slots[k]) \ {s}
        /\ Injective(q) /\ FreePrefix(q, inUse')
    BY <1>1, <2>1, <2>2, WithoutLemma
  <2>4. \A j \in Keys : j # k => s \notin Members(slots[j])
    BY <2>1 DEF IInv, Lists
  <2>5. slots' = [slots EXCEPT ![k] = q]
    BY <1>1, <2>1, <2>4 DEF IInv, TypeOK
  <2> HIDE DEF q
  <2>6. \A j \in Keys : j # k => /\ Members(q) \cap Members(slots[j]) = {}
                                 /\ inUse' \cap Members(slots[j]) = inUse \cap Members(slots[j])
    BY <1>1, <2>3 DEF IInv, Lists
  <2>7. \A t \in inUse' : t \in Members(q) \/ \E j \in Keys : j # k /\ t \in Members(slots[j])
    BY <1>1, <2>3 DEF IInv, Lists, Listed
  <2>8. QED
    BY <1>1, <2>3, <2>5, <2>6, <2>7, OneListChanges
<1>4. QED
  BY <1>2, <1>3

\* Every step keeps the lists in order and loses no session that matters.
LEMMA ListsNext ==
    ASSUME IInv, [Next]_vars
    PROVE  ListTypes' /\ Lists' /\ Kept
<1>1. CASE UNCHANGED vars
  BY <1>1, ListsUnchanged DEF vars
<1>2. ASSUME NEW r \in Requests, Request(r) PROVE ListTypes' /\ Lists' /\ Kept
  <2>1. CASE GetNew(r) \/ GetFree(r) \/ Leave(r)
    BY <2>1, GetNewLists, GetFreeLists, LeaveLists
  <2>2. CASE ~(GetNew(r) \/ GetFree(r) \/ Leave(r))
    <3>1. UNCHANGED <<slots, inUse>>
      BY <1>2, <2>2 DEF Request, Get, AcquireSession, ReleaseSession, GetUnmanaged, Authenticate,
           Reject, Reconnect, Disconnect, Acquire, AcquireFails, Prepare, PrepareFails, Handle,
           HandlePanics, Release, Keep
    <3>2. QED
      BY <3>1, ListsUnchanged
  <2>3. QED
    BY <2>1, <2>2
<1>3. CASE Watch
  <2>1. CASE WatchDelete
    BY <2>1, WatchDeleteLists
  <2>2. CASE ~WatchDelete
    <3>1. UNCHANGED <<slots, inUse>>
      BY <1>3, <2>2 DEF Watch, WatchStart, WatchList, WatchSkip, WatchDecide, WatchRelease,
           WatchDetach, WatchEnd
    <3>2. QED
      BY <3>1, ListsUnchanged
  <2>3. QED
    BY <2>1, <2>2
<1>4. CASE Environment
  <2>1. UNCHANGED <<slots, inUse>>
    BY <1>4 DEF Environment, Tick, ConnDies, PoolDrops
  <2>2. QED
    BY <2>1, ListsUnchanged
<1>5. QED
  BY <1>1, <1>2, <1>3, <1>4 DEF Next
-----------------------------------------------------------------------------
(* The requests and their sessions.                                        *)

\* A request that goes on keeps its session; one that ends gives it up.
LEMMA OwnedGoesOn ==
    ASSUME IInv, ListTypes', Lists', Kept, UNCHANGED config,
           inUse \subseteq inUse',
           \A r \in Requests : \/ req'[r] = req[r]
                                \/ /\ req'[r].session = req[r].session
                                   /\ req'[r].key = req[r].key
                                   /\ req[r].pc # "idle" /\ req'[r].pc # "idle"
                                \/ req'[r] = Idle
    PROVE  Owned'
<1> USE DEF IInv, Owned, At, Mine
<1>1. Idle.pc = "idle" /\ Idle.session = NoSession
  BY DEF Idle
<1>2. \A r \in Requests : At(r, "idle")' <=> Mine(r)' = NoSession
  BY <1>1
<1>3. \A r \in Requests : ~At(r, "idle")' => req'[r].key \in Keys
  BY <1>1
<1>4. \A r \in Requests : Mine(r)' # NoSession =>
        Mine(r)' = Mine(r) /\ req'[r].key = req[r].key
  BY <1>1
<1>5. \A r1, r2 \in Requests : r1 # r2 /\ Mine(r1)' # NoSession => Mine(r1)' # Mine(r2)'
  BY <1>4
<1>6. ASSUME config.sessions, NEW r \in Requests, Mine(r)' # NoSession
      PROVE  Mine(r)' \in inUse' /\ Mine(r)' \in Members(slots'[req'[r].key])
  <2>1. Mine(r) \in inUse /\ Mine(r) \in Members(slots[req[r].key]) /\ req[r].key \in Keys
    BY <1>4, <1>6
  <2>2. QED
    BY <2>1, <1>4, <1>6 DEF Kept
<1>7. QED
  BY <1>2, <1>3, <1>5, <1>6

\* A request that begins has a session that no other request has.
LEMMA OwnedBegins ==
    ASSUME IInv, ListTypes', Lists', Kept, UNCHANGED config,
           inUse \subseteq inUse',
           NEW r \in Requests, NEW k \in Keys, NEW s \in SessionIds, NEW label,
           label # "idle", Begin(r, label, k, s),
           \A r2 \in Requests : Mine(r2) # s,
           config.sessions => s \in inUse' /\ s \in Members(slots'[k])
    PROVE  Owned'
<1> USE DEF IInv, Owned, At, Mine
<1>0. req'[r].pc = label /\ req'[r].key = k /\ req'[r].session = s /\ s # NoSession
      /\ \A r2 \in Requests : r2 # r => req'[r2] = req[r2]
  BY ConstantsAssumption DEF Begin, TypeOK
<1>2. \A r2 \in Requests : At(r2, "idle")' <=> Mine(r2)' = NoSession
  BY <1>0
<1>3. \A r2 \in Requests : ~At(r2, "idle")' => req'[r2].key \in Keys
  BY <1>0
<1>5. \A r1, r2 \in Requests : r1 # r2 /\ Mine(r1)' # NoSession => Mine(r1)' # Mine(r2)'
  BY <1>0
<1>6. ASSUME config.sessions, NEW r2 \in Requests, Mine(r2)' # NoSession
      PROVE  Mine(r2)' \in inUse' /\ Mine(r2)' \in Members(slots'[req'[r2].key])
  <2>1. CASE r2 = r
    BY <2>1, <1>0, <1>6
  <2>2. CASE r2 # r
    <3>1. Mine(r2) \in inUse /\ Mine(r2) \in Members(slots[req[r2].key]) /\ req[r2].key \in Keys
      BY <2>2, <1>0, <1>6
    <3>2. QED
      BY <2>2, <3>1, <1>0, <1>6 DEF Kept
  <2>3. QED
    BY <2>1, <2>2
<1>7. QED
  BY <1>2, <1>3, <1>5, <1>6

\* getSession gives a request a session that no other request has.
LEMMA GetOwned ==
    ASSUME IInv, ListTypes', Lists', Kept, NEW r \in Requests, Get(r)
    PROVE  Owned'
<1>1. CASE GetUnmanaged(r)
  <2>1. PICK k \in Keys, s \in Unused : Begin(r, "authenticate", k, s)
    BY <1>1 DEF GetUnmanaged
  <2>2. s \in SessionIds /\ \A r2 \in Requests : Mine(r2) # s
    BY DEF Unused
  <2>3. UNCHANGED <<config, inUse>> /\ ~config.sessions
    BY <1>1 DEF GetUnmanaged
  <2>4. QED
    BY <2>1, <2>2, <2>3, OwnedBegins
<1>2. CASE GetNew(r)
  <2>1. PICK k \in Keys, s \in Unused :
          NewSession(k, s) /\ Begin(r, "authenticate", k, s)
    BY <1>2 DEF GetNew
  <2>2. s \in SessionIds /\ \A r2 \in Requests : Mine(r2) # s
    BY DEF Unused
  <2>3. UNCHANGED config /\ inUse' = inUse \cup {s} /\ slots'[k] = Append(slots[k], s)
    BY <1>2, <2>1 DEF GetNew, NewSession, IInv, TypeOK
  <2>4. s \in Members(slots'[k])
    <3> DEFINE l == slots[k]
    <3>1. l \in Seq(SessionIds)
      BY DEF IInv, TypeOK
    <3> HIDE DEF l
    <3>2. Len(l) + 1 \in DOMAIN Append(l, s) /\ Append(l, s)[Len(l) + 1] = s
      BY <2>2, <3>1
    <3>4. s \in Members(Append(l, s))
      BY <3>2 DEF Members
    <3>3. QED
      BY <2>3, <3>4 DEF l
  <2>5. QED
    BY <2>1, <2>2, <2>3, <2>4, OwnedBegins
<1>3. CASE GetFree(r)
  <2>1. PICK k \in Keys :
          /\ slots[k] # <<>> /\ slots[k][1] \notin inUse
          /\ inUse' = inUse \cup {slots[k][1]}
          /\ slots' = HeadToBack(k)
          /\ Begin(r, "connect", k, slots[k][1])
    BY <1>3 DEF GetFree
  <2> DEFINE s == slots[k][1]
  <2>2. s \in SessionIds /\ s \in Members(slots[k])
    BY <2>1 DEF IInv, TypeOK, Members
  <2>3. s \in Members(slots'[k])
    <3>1. slots'[k] = FrontToBack(slots[k])
      BY <2>1 DEF HeadToBack, IInv, TypeOK
    <3>2. QED
      BY <2>1, <2>2, <3>1, FrontToBackLemma DEF IInv, TypeOK
  <2>4. \A r2 \in Requests : Mine(r2) # s
    BY <1>3, <2>1, <2>2, ConstantsAssumption DEF GetFree, IInv, Owned
  <2>5. UNCHANGED config /\ s \in inUse' /\ inUse \subseteq inUse' /\ Begin(r, "connect", k, s)
    BY <1>3, <2>1 DEF GetFree
  <2> HIDE DEF s
  <2>6. QED
    BY <2>2, <2>3, <2>4, <2>5, OwnedBegins
<1>4. QED
  BY <1>1, <1>2, <1>3 DEF Get

\* leaveSession frees the session of the request that ends, and no other.
LEMMA LeaveOwned ==
    ASSUME IInv, ListTypes', Lists', Kept, NEW r \in Requests, Leave(r)
    PROVE  Owned'
<1> USE DEF IInv, Owned, At, Mine
<1>1. /\ config' = config /\ req'[r] = Idle /\ Idle.session = NoSession /\ Idle.pc = "idle"
      /\ \A r2 \in Requests : r2 # r => req'[r2] = req[r2]
      /\ inUse \ {Mine(r)} \subseteq inUse'
  BY DEF Leave, Finish, Idle, TypeOK
<1>2. \A r2 \in Requests : At(r2, "idle")' <=> Mine(r2)' = NoSession
  BY <1>1
<1>3. \A r2 \in Requests : ~At(r2, "idle")' => req'[r2].key \in Keys
  BY <1>1
<1>4. \A r1, r2 \in Requests : r1 # r2 /\ Mine(r1)' # NoSession => Mine(r1)' # Mine(r2)'
  BY <1>1
<1>5. ASSUME config.sessions, NEW r2 \in Requests, Mine(r2)' # NoSession
      PROVE  Mine(r2)' \in inUse' /\ Mine(r2)' \in Members(slots'[req'[r2].key])
  <2>1. r2 # r /\ req'[r2] = req[r2] /\ Mine(r2) # Mine(r)
    BY <1>1, <1>5
  <2>2. Mine(r2) \in inUse /\ Mine(r2) \in Members(slots[req[r2].key]) /\ req[r2].key \in Keys
    BY <2>1, <1>5
  <2>3. QED
    BY <2>1, <2>2, <1>1, <1>5 DEF Kept
<1>6. QED
  BY <1>1, <1>2, <1>3, <1>4, <1>5

\* The record of a request.
RequestType == [pc : {"idle", "authenticate", "connect", "acquire",
                      "prepare", "handle", "release", "leave"},
                key : Keys \cup {NoRole}, session : SessionIds \cup {NoSession},
                newAcquire : BOOLEAN, status : {"ok", "error"}]

\* A step of a request between its begin and its end.
GoesOn(r) ==
    /\ UNCHANGED <<config, inUse>>
    /\ req[r].pc # "idle" /\ req'[r].pc # "idle"
    /\ req'[r].session = req[r].session /\ req'[r].key = req[r].key
    /\ \A r2 \in Requests : r2 # r => req'[r2] = req[r2]

\* Moving on to another place of the code changes one request only.
LEMMA GotoGoesOn ==
    ASSUME TypeOK, NEW r \in Requests, NEW label, label # "idle", ~At(r, "idle"),
           Goto(r, label), UNCHANGED <<config, inUse>>
    PROVE  GoesOn(r) /\ req'[r].pc = label
BY DEF TypeOK, At, Goto, GoesOn

\* Every step of a request but the first and the last either goes on or gives up.
LEMMA RequestSteps ==
    ASSUME IInv, NEW r \in Requests,
           AcquireSession(r) \/ Handle(r) \/ HandlePanics(r) \/ Release(r) \/ Keep(r)
    PROVE  GoesOn(r) \/ (UNCHANGED <<config, inUse>> /\ Finish(r))
<1>1. CASE Reject(r) \/ AcquireFails(r) \/ PrepareFails(r) \/ HandlePanics(r)
  BY <1>1 DEF Reject, AcquireFails, PrepareFails, HandlePanics
<1>2. CASE Authenticate(r) \/ Reconnect(r) \/ Disconnect(r) \/ Prepare(r) \/ Release(r) \/ Keep(r)
  BY <1>2, GotoGoesOn
     DEF Authenticate, Reconnect, Disconnect, Prepare, Release, Keep, IInv, At
<1>3. CASE Acquire(r)
  BY <1>3 DEF Acquire, Acquired, GoesOn, IInv, TypeOK, At
<1>4. CASE Handle(r)
  <2>1. PICK h : req' = [req EXCEPT ![r].pc = "release", ![r].status = h[1]]
    BY <1>4 DEF Handle
  <2>2. QED
    <3>1. req \in [Requests -> RequestType] /\ req[r].pc = "handle" /\ UNCHANGED <<config, inUse>>
      BY <1>4 DEF Handle, IInv, TypeOK, RequestType, At
    <3>2. /\ req'[r].pc = "release" /\ req'[r].session = req[r].session /\ req'[r].key = req[r].key
          /\ \A r2 \in Requests : r2 # r => req'[r2] = req[r2]
      BY <2>1, <3>1 DEF RequestType
    <3>3. QED
      BY <3>1, <3>2 DEF GoesOn
<1>5. QED
  BY <1>1, <1>2, <1>3, <1>4 DEF AcquireSession

\* Every step keeps requests and sessions apart.
LEMMA OwnedNext ==
    ASSUME IInv, [Next]_vars, ListTypes', Lists', Kept
    PROVE  Owned'
<1>1. ASSUME UNCHANGED <<config, inUse, req>> PROVE Owned'
  BY <1>1, OwnedGoesOn
<1>2. ASSUME NEW r \in Requests, Request(r) PROVE Owned'
  <2>1. CASE Get(r)
    BY <2>1, GetOwned
  <2>2. CASE Leave(r)
    BY <2>2, LeaveOwned
  <2>3. CASE GoesOn(r)
    <3>1. \A r2 \in Requests : \/ req'[r2] = req[r2]
                               \/ /\ req'[r2].session = req[r2].session
                                  /\ req'[r2].key = req[r2].key
                                  /\ req[r2].pc # "idle" /\ req'[r2].pc # "idle"
      BY <2>3 DEF GoesOn
    <3>2. QED
      BY <2>3, <3>1, OwnedGoesOn DEF GoesOn
  <2>4. CASE UNCHANGED <<config, inUse>> /\ Finish(r)
    <3>1. \A r2 \in Requests : req'[r2] = req[r2] \/ req'[r2] = Idle
      BY <2>4 DEF Finish, IInv, TypeOK
    <3>2. QED
      BY <2>4, <3>1, OwnedGoesOn
  <2>5. CASE AcquireSession(r) \/ Handle(r) \/ HandlePanics(r) \/ Release(r) \/ Keep(r)
    BY <2>3, <2>4, <2>5, RequestSteps
  <2>6. QED
    BY <1>2, <2>1, <2>2, <2>5 DEF Request, ReleaseSession
<1>3. CASE Watch \/ Environment \/ UNCHANGED vars
  <2>1. UNCHANGED <<config, inUse, req>>
    BY <1>3 DEF vars, Watch, WatchStart, WatchList, WatchSkip, WatchDecide, WatchRelease,
         WatchDetach, WatchDelete, WatchEnd, Environment, Tick, ConnDies, PoolDrops
  <2>2. QED
    BY <1>1, <2>1
<1>4. QED
  BY <1>2, <1>3 DEF Next
-----------------------------------------------------------------------------
(* The connections.                                                        *)

\* What may become of a connection: statements do not move it in or out of the
\* pool, giving it back does.
LEMMA ConnLemma ==
    ASSUME NEW c \in ConnState
    PROVE  /\ Closed(c) \in ConnState /\ Closed(c).st = c.st
           /\ Begun(c) \in ConnState /\ Begun(c).st = c.st
           /\ Committed(c) \in ConnState /\ Committed(c).st = c.st
           /\ RolledBack(c) \in ConnState /\ RolledBack(c).st = c.st
           /\ PoolReturn(c) \in ConnState /\ PoolReturn(c).st # "out"
           /\ PoolReturn(c).st = "idle" => ~PoolReturn(c).tx
BY DEF ConnState, Closed, Begun, Committed, RolledBack, PoolReturn, Absent

\* PrepareConnection (conn.go:32-60) leaves the connection out of the pool.
LEMMA BoundLemma ==
    ASSUME NEW c \in ConnState, NEW r \in Requests
    PROVE  /\ Opened(c) \in ConnState /\ Opened(c).st = c.st
           /\ Bound(r, Opened(c)).st = c.st
           /\ req[r].key \in Keys => Bound(r, Opened(c)) \in ConnState
<1> DEFINE b == Opened(c)
<1>1. b \in ConnState /\ b.st = c.st
  BY ConnLemma DEF Opened
<1> HIDE DEF b
<1>2. Bound(r, b).st = b.st
  BY <1>1 DEF Bound, ConnState
<1>3. req[r].key \in Keys => Bound(r, b) \in ConnState
  BY <1>1 DEF Bound, ConnState, RoleOf
<1>4. QED
  BY <1>1, <1>2, <1>3 DEF b

\* A statement leaves the connection out of the pool, also if it is not sent.
LEMMA ExecLemma ==
    ASSUME NEW c \in ConnState, NEW d \in ConnState, NEW canceled, NEW e \in Exec(c, d, canceled)
    PROVE  e \in ConnState
BY ConnLemma DEF Exec

\* ReleaseConnection gives the connection back, whatever its statements do.
LEMMA ReleaseConnectionLemma ==
    ASSUME NEW c \in ConnState, NEW status, NEW resetRole, NEW canceled,
           NEW d \in ReleaseConnection(c, status, resetRole, canceled)
    PROVE  d \in ConnState /\ d.st # "out" /\ (d.st = "idle" => ~d.tx)
<1>1. [c EXCEPT !.role = NoRole] \in ConnState
  BY DEF ConnState
<1>2. \E e \in ConnState : d = PoolReturn(e)
  <2>1. CASE config.tx # "none"
    <3>1. PICK end \in Ends(status) :
            \E e \in Exec(c, IF end = "COMMIT" THEN Committed(c) ELSE RolledBack(c), canceled) :
              d = PoolReturn(e)
      BY <2>1 DEF ReleaseConnection
    <3>2. (IF end = "COMMIT" THEN Committed(c) ELSE RolledBack(c)) \in ConnState
      BY ConnLemma
    <3>3. QED
      BY <3>1, <3>2, ExecLemma
  <2>2. CASE config.tx = "none" /\ resetRole
    <3>1. PICK e \in Exec(c, [c EXCEPT !.role = NoRole], canceled) : d = PoolReturn(e)
      BY <2>2 DEF ReleaseConnection
    <3>2. QED
      BY <3>1, <1>1, ExecLemma
  <2>3. CASE config.tx = "none" /\ ~resetRole
    BY <2>3 DEF ReleaseConnection
  <2>4. QED
    BY <2>1, <2>2, <2>3
<1>3. QED
  BY <1>2, ConnLemma

\* A handler leaves the connection out of the pool.
LEMMA HandledLemma ==
    ASSUME NEW c \in ConnState, NEW h \in Handled(c)
    PROVE  h[1] \in {"ok", "error"} /\ h[2] \in ConnState /\ h[2].st = c.st
<1>1. \E a \in {"ok", "error"}, b \in {c, Closed(c), Committed(c), RolledBack(c), Begun(c)} :
        h = <<a, b>>
  <2>1. CASE c.live # "open"
    <3>1. h = <<"ok", c>> \/ h = <<"error", Closed(c)>>
      BY <2>1 DEF Handled
    <3>2. QED
      BY <3>1
  <2>2. CASE c.live = "open"
    <3>1. \/ h = <<"ok", c>> \/ h = <<"error", c>>
          \/ h = <<"ok", Committed(c)>> \/ h = <<"error", Committed(c)>>
          \/ h = <<"error", RolledBack(c)>> \/ h = <<"error", Begun(c)>>
      BY <2>2 DEF Handled
    <3>2. QED
      BY <3>1
  <2>3. QED
    BY <2>1, <2>2
<1>2. PICK a \in {"ok", "error"}, b \in {c, Closed(c), Committed(c), RolledBack(c), Begun(c)} :
        h = <<a, b>>
  BY <1>1
<1>3. h[1] = a /\ h[2] = b
  BY <1>2
<1>4. b \in ConnState /\ b.st = c.st
  BY ConnLemma
<1>5. QED
  BY <1>3, <1>4

\* What a session has is its DbConn, unless the watcher has just given it back.
LEMMA OwnLemma ==
    ASSUME IInv
    PROVE  /\ own \in [SessionIds -> Conns \cup {NoConn}]
           /\ \A s \in SessionIds : own[s] = NoConn \/ own[s] = dbConn[s]
           /\ \A s \in SessionIds : s \in inUse \/ ~config.sessions => own[s] = dbConn[s]
<1>1. \A s \in SessionIds : own[s] = Own(s) /\ dbConn[s] \in Conns \cup {NoConn}
  BY DEF own, IInv, TypeOK
<1>2. own \in [SessionIds -> Conns \cup {NoConn}]
  BY <1>1 DEF own, Own
<1>3. QED
  BY <1>1, <1>2 DEF Own, Doing, IInv, Watched

\* So a request that is under way works on what its session has.
LEMMA OwnMine ==
    ASSUME IInv, NEW r \in Requests, ~At(r, "idle")
    PROVE  Mine(r) \in SessionIds /\ OwnOf(r) = ConnOf(r)
<1>1. Mine(r) \in SessionIds /\ (config.sessions => Mine(r) \in inUse)
  BY DEF IInv, TypeOK, Owned, Mine, At
<1>2. QED
  BY <1>1, OwnLemma DEF OwnOf, ConnOf

\* Where the watcher does nothing, what sessions have changes as DbConn does.
LEMMA RequestOwn ==
    ASSUME IInv, NEW r \in Requests, watcher' = watcher
    PROVE  /\ dbConn' = dbConn => own' = own
           /\ \A x : ~At(r, "idle") /\ dbConn' = [dbConn EXCEPT ![Mine(r)] = x]
                   => own' = [own EXCEPT ![Mine(r)] = x]
<1>1. dbConn' = dbConn => own' = own
  BY DEF own, Own, Doing
<1>2. ASSUME NEW x, ~At(r, "idle"), dbConn' = [dbConn EXCEPT ![Mine(r)] = x]
      PROVE  own' = [own EXCEPT ![Mine(r)] = x]
  <2> DEFINE s == Mine(r)
  <2>1. s \in SessionIds /\ (Doing("detach") => s # Head(watcher.rest))
    BY <1>2, OwnMine DEF IInv, TypeOK, Owned, Mine, At, Watched, Doing
  <2>2. dbConn \in [SessionIds -> Conns \cup {NoConn}] /\ dbConn' = [dbConn EXCEPT ![s] = x]
    BY <1>2 DEF IInv, TypeOK
  <2> HIDE DEF s
  <2>3. own' = [t \in SessionIds |-> IF Doing("detach") /\ t = Head(watcher.rest) THEN NoConn
                                     ELSE dbConn'[t]]
    BY DEF own, Own, Doing
  <2>4. own = [t \in SessionIds |-> IF Doing("detach") /\ t = Head(watcher.rest) THEN NoConn
                                    ELSE dbConn[t]]
    BY DEF own, Own
  <2>5. own' = [own EXCEPT ![s] = x]
    BY <2>1, <2>2, <2>3, <2>4
  <2>6. QED
    BY <2>5 DEF s
<1>3. QED
  BY <1>1, <1>2

\* What sessions have is a matter of DbConn and the watcher only.
LEMMA SameOwn == UNCHANGED <<dbConn, watcher>> => UNCHANGED own
BY DEF own, Own, Doing

\* Of the watcher's steps only the release takes a connection from a session; the
\* detach that follows takes nothing that it still has.
LEMMA WatchOwn ==
    ASSUME IInv, Watch
    PROVE  \/ ~WatchRelease /\ own' = own
           \/ /\ WatchRelease
              /\ Head(watcher.rest) \in SessionIds
              /\ own[Head(watcher.rest)] = dbConn[Head(watcher.rest)]
              /\ own' = [own EXCEPT ![Head(watcher.rest)] = NoConn]
<1> DEFINE s == Head(watcher.rest)
           OwnAt(w, d) == [t \in SessionIds |-> IF w.at = "detach" /\ w.rest # <<>> /\ t = Head(w.rest)
                                                THEN NoConn ELSE d[t]]
<1>0. own = OwnAt(watcher, dbConn) /\ own' = OwnAt(watcher', dbConn')
  BY DEF own, Own, Doing
<1>1. /\ watcher.rest \in Seq(SessionIds) /\ (watcher.rest # <<>> => s \in SessionIds)
      /\ dbConn \in [SessionIds -> Conns \cup {NoConn}]
      /\ watcher \in [on : BOOLEAN, keys : SUBSET Keys, rest : Seq(SessionIds),
                      at : {"walk", "delete", "release", "detach"}]
  BY DEF IInv, TypeOK
<1>2. watcher.at # "walk" => watcher.rest # <<>>
  BY DEF IInv, Watched
<1>3. CASE WatchStart \/ WatchList \/ WatchSkip \/ WatchDecide \/ WatchDelete \/ WatchEnd
  <2>1. UNCHANGED dbConn
    BY <1>3 DEF WatchStart, WatchList, WatchSkip, WatchDecide, WatchDelete, WatchEnd
  <2>2. watcher.at # "detach" \/ watcher.rest = <<>>
    BY <1>3, <1>2 DEF WatchStart, WatchList, WatchSkip, WatchDecide, WatchDelete, WatchEnd, Doing,
       IInv, Watched
  <2>3. watcher'.at # "detach" \/ watcher'.rest = <<>>
    <3>1. CASE WatchStart \/ WatchEnd
      <4>1. \E on \in BOOLEAN, keys \in SUBSET Keys :
              watcher' = [on |-> on, keys |-> keys, rest |-> <<>>, at |-> "walk"]
        BY <3>1 DEF WatchStart, WatchEnd, WatcherOff
      <4>2. QED
        BY <4>1
    <3>2. CASE WatchList
      <4>1. \E k \in watcher.keys :
              watcher' = [watcher EXCEPT !.keys = @ \ {k}, !.rest = slots[k]]
        BY <3>2 DEF WatchList
      <4>2. watcher'.at = watcher.at
        BY <1>1, <4>1
      <4>3. watcher.rest = <<>>
        BY <3>2 DEF WatchList
      <4>4. QED
        BY <1>2, <4>2, <4>3
    <3>3. CASE WatchSkip \/ WatchDecide \/ WatchDelete
      BY <1>1, <3>3 DEF WatchSkip, WatchDecide, WatchDelete, Onward
    <3>4. QED
      BY <1>3, <3>1, <3>2, <3>3
  <2>4. own' = own
    BY <1>0, <2>1, <2>2, <2>3
  <2>5. ~WatchRelease
    BY <1>3, <1>2 DEF WatchStart, WatchList, WatchSkip, WatchDecide, WatchRelease, WatchDelete,
       WatchEnd, Doing, IInv, Watched
  <2>6. QED
    BY <2>4, <2>5
<1>4. CASE WatchDetach
  <2>1. watcher.at = "detach" /\ watcher.rest # <<>> /\ watcher'.at = "walk"
        /\ dbConn' = [dbConn EXCEPT ![s] = NoConn]
    BY <1>1, <1>4 DEF WatchDetach, Doing, Onward, Detached
  <2> HIDE DEF s
  <2>2. own' = own
    BY <1>0, <1>1, <2>1 DEF s
  <2>3. ~WatchRelease
    BY <2>1 DEF WatchRelease, Doing
  <2>4. QED
    BY <2>2, <2>3
<1>5. CASE WatchRelease
  <2>1. /\ watcher.at = "release" /\ watcher.rest # <<>> /\ watcher'.at = "detach"
        /\ watcher'.rest = watcher.rest /\ dbConn' = dbConn
    BY <1>1, <1>5 DEF WatchRelease, Doing
  <2>2. own[s] = dbConn[s] /\ own' = [own EXCEPT ![s] = NoConn]
    BY <1>0, <1>1, <2>1
  <2>3. QED
    BY <1>1, <1>5, <2>1, <2>2
<1>6. QED
  BY <1>3, <1>4, <1>5 DEF Watch

\* Nothing is attached, detached, taken from the pool or given back to it.
LEMMA AttachedSame ==
    ASSUME IInv, Kept, UNCHANGED <<config, own>>,
           \A c \in Conns : conn'[c].st = "out" <=> conn[c].st = "out",
           \A r \in Requests : Working(r)' => Mine(r)' = Mine(r) /\ OwnOf(r) # NoConn /\ ~At(r, "idle"),
           \A r \in Requests : At(r, "acquire")' => Mine(r)' = Mine(r) /\ OwnOf(r) = NoConn
    PROVE  Attached'
<1>1. \A s \in SessionIds : own'[s] # NoConn => conn'[own'[s]].st = "out"
  BY OwnLemma DEF IInv, Attached
<1>2. Reached'
  <2> SUFFICES ASSUME config.sessions, NEW c \in Conns, conn'[c].st = "out"
               PROVE  \E s \in Listed' : own'[s] = c
    BY DEF Reached
  <2>0. PICK k \in Keys : \E s \in Members(slots[k]) : own[s] = c
    BY DEF IInv, Attached, Reached, Listed
  <2>1. PICK s \in Members(slots[k]) : own[s] = c
    BY <2>0
  <2>a. s \in SessionIds
    BY DEF IInv, TypeOK, Members
  <2>b. dbConn[s] # NoConn
    BY <2>1, <2>a, OwnLemma, ConstantsAssumption
  <2>2. s \in Members(slots'[k])
    BY <2>b DEF Kept
  <2>3. QED
    BY <2>1, <2>2 DEF Listed
<1>3. \A r \in Requests : Working(r)' => OwnOf(r)' # NoConn
  BY DEF OwnOf
<1>4. \A r \in Requests : At(r, "acquire")' => OwnOf(r)' = NoConn
  BY DEF OwnOf
<1>5. QED
  BY <1>1, <1>2, <1>3, <1>4 DEF IInv, Attached

\* The connection of a session goes back to the pool.
LEMMA AttachedDetach ==
    ASSUME IInv, Kept, UNCHANGED config, NEW s \in SessionIds,
           own' = [own EXCEPT ![s] = NoConn],
           \A c \in Conns : conn'[c].st = "out" <=> conn[c].st = "out" /\ c # own[s],
           \A r \in Requests : Working(r)' => /\ Mine(r)' = Mine(r) /\ Mine(r) \in SessionIds
                                             /\ OwnOf(r) # NoConn /\ Mine(r) # s,
           \A r \in Requests : At(r, "acquire")' => /\ Mine(r)' = Mine(r) /\ Mine(r) \in SessionIds
                                                   /\ (OwnOf(r) = NoConn \/ Mine(r) = s)
    PROVE  Attached'
<1>0. /\ own'[s] = NoConn
      /\ \A t \in SessionIds : t # s => own'[t] = own[t]
      /\ \A t \in SessionIds : own[t] \in Conns \cup {NoConn}
  BY OwnLemma
<1>1. \A s1, s2 \in SessionIds : s1 # s2 /\ own'[s1] # NoConn => own'[s1] # own'[s2]
  BY <1>0 DEF IInv, Attached
<1>2. \A t \in SessionIds : own'[t] # NoConn => conn'[own'[t]].st = "out"
  BY <1>0 DEF IInv, Attached
<1>3. Reached'
  <2> SUFFICES ASSUME config.sessions, NEW c \in Conns, conn'[c].st = "out"
               PROVE  \E t \in Listed' : own'[t] = c
    BY DEF Reached
  <2>0. PICK k \in Keys : \E t \in Members(slots[k]) : own[t] = c
    BY DEF IInv, Attached, Reached, Listed
  <2>1. PICK t \in Members(slots[k]) : own[t] = c
    BY <2>0
  <2>2. t \in SessionIds
    BY DEF IInv, TypeOK, Members
  <2>3. t # s
    BY <2>1
  <2>a. dbConn[t] # NoConn
    BY <2>1, <2>2, OwnLemma, ConstantsAssumption
  <2>4. t \in Members(slots'[k])
    BY <2>a DEF Kept
  <2>5. QED
    BY <1>0, <2>1, <2>2, <2>3, <2>4 DEF Listed
<1>4. \A r \in Requests : Working(r)' => OwnOf(r)' # NoConn
  BY <1>0 DEF OwnOf
<1>5. ASSUME NEW r \in Requests, At(r, "acquire")' PROVE OwnOf(r)' = NoConn
  <2>1. Mine(r)' = Mine(r) /\ Mine(r) \in SessionIds /\ (OwnOf(r) = NoConn \/ Mine(r) = s)
    BY <1>5
  <2>2. CASE Mine(r) = s
    BY <2>1, <2>2, <1>0 DEF OwnOf
  <2>3. CASE Mine(r) # s
    BY <2>1, <2>3, <1>0 DEF OwnOf
  <2>4. QED
    BY <2>2, <2>3
<1>6. QED
  BY <1>1, <1>2, <1>3, <1>4, <1>5 DEF Attached

\* A connection out of the pool is attached to a session that had none.
LEMMA AcquireAttached ==
    ASSUME IInv, Kept, NEW r \in Requests, Acquire(r)
    PROVE  Attached'
<1>1. PICK c \in Conns :
        /\ conn[c].st # "out"
        /\ conn' = [conn EXCEPT ![c] = IF conn[c].st = "idle" THEN [conn[c] EXCEPT !.st = "out"]
                                       ELSE Connected]
        /\ own' = [own EXCEPT ![Mine(r)] = c]
  BY RequestOwn DEF Acquire, At
<1> DEFINE s == Mine(r)
<1>2. s \in SessionIds /\ own[s] = NoConn
  BY OwnMine DEF Acquire, IInv, Attached, At, OwnOf
<1>3. /\ own'[s] = c
      /\ \A t \in SessionIds : t # s => own'[t] = own[t]
      /\ \A t \in SessionIds : own[t] \in Conns \cup {NoConn}
  BY <1>1, <1>2, OwnLemma
<1>4. /\ conn'[c].st = "out"
      /\ \A d \in Conns : d # c => conn'[d] = conn[d]
  BY <1>1 DEF IInv, TypeOK, ConnState, Connected, Absent
<1>5. /\ req'[r].pc = "prepare" /\ Mine(r)' = s
      /\ \A r2 \in Requests : r2 # r => req'[r2] = req[r2]
      /\ UNCHANGED <<config, slots>>
  BY DEF Acquire, Acquired, IInv, TypeOK, Mine
<1>6. \A r2 \in Requests : r2 # r => Mine(r2) # s
  BY <1>2, ConstantsAssumption DEF IInv, Owned
<1> HIDE DEF s
<1>7. \A t \in SessionIds : own[t] # c
  BY <1>1, ConstantsAssumption DEF IInv, Attached
<1>8. \A s1, s2 \in SessionIds : s1 # s2 /\ own'[s1] # NoConn => own'[s1] # own'[s2]
  BY <1>2, <1>3, <1>7 DEF IInv, Attached
<1>9. \A t \in SessionIds : own'[t] # NoConn => conn'[own'[t]].st = "out"
  BY <1>2, <1>3, <1>4, <1>7 DEF IInv, Attached
<1>10. Reached'
  <2> SUFFICES ASSUME config.sessions, NEW d \in Conns, conn'[d].st = "out"
               PROVE  \E t \in Listed' : own'[t] = d
    BY <1>5 DEF Reached
  <2>0. Listed' = Listed
    BY <1>5 DEF Listed
  <2>1. CASE d = c
    <3>1. s \in Listed
      BY <1>2, ConstantsAssumption DEF IInv, Owned, Lists, s
    <3>2. QED
      BY <2>0, <2>1, <3>1, <1>3
  <2>2. CASE d # c
    <3>1. PICK t \in Listed : own[t] = d
      BY <2>2, <1>4 DEF IInv, Attached, Reached
    <3>2. t \in SessionIds /\ t # s
      BY <3>1, <1>2, ConstantsAssumption DEF IInv, TypeOK, Members, Listed
    <3>3. QED
      BY <2>0, <3>1, <3>2, <1>3
  <2>3. QED
    BY <2>1, <2>2
<1>11. \A r2 \in Requests : Working(r2)' => OwnOf(r2)' # NoConn
  <2> SUFFICES ASSUME NEW r2 \in Requests, Working(r2)' PROVE OwnOf(r2)' # NoConn
    OBVIOUS
  <2>1. CASE r2 = r
    BY <2>1, <1>3, <1>5, ConstantsAssumption DEF OwnOf
  <2>2. CASE r2 # r
    <3>1. Working(r2) /\ Mine(r2)' = Mine(r2) /\ Mine(r2) \in SessionIds
      BY <2>2, <1>5 DEF Working, Mine, IInv, Owned, TypeOK, At
    <3>2. QED
      BY <2>2, <3>1, <1>3, <1>6 DEF OwnOf, IInv, Attached
  <2>3. QED
    BY <2>1, <2>2
<1>12. \A r2 \in Requests : At(r2, "acquire")' => OwnOf(r2)' = NoConn
  <2> SUFFICES ASSUME NEW r2 \in Requests, At(r2, "acquire")' PROVE OwnOf(r2)' = NoConn
    OBVIOUS
  <2>1. r2 # r
    BY <1>5 DEF At
  <2>2. At(r2, "acquire") /\ Mine(r2)' = Mine(r2) /\ Mine(r2) \in SessionIds
    BY <2>1, <1>5 DEF Mine, IInv, Owned, TypeOK, At
  <2>3. QED
    BY <2>1, <2>2, <1>3, <1>6 DEF OwnOf, IInv, Attached
<1>13. QED
  BY <1>8, <1>9, <1>10, <1>11, <1>12 DEF Attached

\* The steps of a request that leave sessions and pool as they are.
LEMMA RequestAttachedSame ==
    ASSUME IInv, Kept, NEW r \in Requests, UNCHANGED <<config, own>>,
           \A c \in Conns : conn'[c].st = "out" <=> conn[c].st = "out",
           \A r2 \in Requests : r2 # r => req'[r2] = req[r2],
           Working(r)' => Mine(r)' = Mine(r) /\ OwnOf(r) # NoConn /\ ~At(r, "idle"),
           ~At(r, "acquire")'
    PROVE  Attached'
<1>1. \A r2 \in Requests : Working(r2)' => Mine(r2)' = Mine(r2) /\ OwnOf(r2) # NoConn /\ ~At(r2, "idle")
  BY DEF Working, Mine, At, OwnOf, IInv, Attached
<1>2. \A r2 \in Requests : At(r2, "acquire")' => Mine(r2)' = Mine(r2) /\ OwnOf(r2) = NoConn
  BY DEF Mine, At, OwnOf, IInv, Attached
<1>3. QED
  BY <1>1, <1>2, AttachedSame

\* The two steps of a request that give a connection back.
LEMMA RequestAttachedDetach ==
    ASSUME IInv, Kept, NEW r \in Requests, UNCHANGED config, ~At(r, "idle"),
           own' = [own EXCEPT ![Mine(r)] = NoConn],
           \A c \in Conns : conn'[c].st = "out" <=> conn[c].st = "out" /\ c # OwnOf(r),
           \A r2 \in Requests : r2 # r => req'[r2] = req[r2],
           Mine(r)' = Mine(r), ~Working(r)'
    PROVE  Attached'
<1>1. Mine(r) \in SessionIds
  BY DEF IInv, Owned, TypeOK, Mine, At
<1>2. ASSUME NEW r2 \in Requests, Working(r2)'
      PROVE  Mine(r2)' = Mine(r2) /\ Mine(r2) \in SessionIds /\ OwnOf(r2) # NoConn /\ Mine(r2) # Mine(r)
  <2>1. r2 # r
    BY <1>2
  <2>2. Working(r2) /\ Mine(r2)' = Mine(r2) /\ Mine(r2) \in SessionIds
    BY <1>2, <2>1 DEF Working, Mine, IInv, Owned, TypeOK, At
  <2>3. QED
    BY <1>1, <2>1, <2>2, ConstantsAssumption DEF IInv, Attached, Owned
<1>3. ASSUME NEW r2 \in Requests, At(r2, "acquire")'
      PROVE  Mine(r2)' = Mine(r2) /\ Mine(r2) \in SessionIds /\ (OwnOf(r2) = NoConn \/ Mine(r2) = Mine(r))
  <2>1. CASE r2 = r
    BY <1>1, <2>1
  <2>2. CASE r2 # r
    <3>1. At(r2, "acquire") /\ Mine(r2)' = Mine(r2) /\ Mine(r2) \in SessionIds
      BY <1>3, <2>2 DEF Mine, IInv, Owned, TypeOK, At
    <3>2. QED
      BY <3>1 DEF IInv, Attached
  <2>3. QED
    BY <2>1, <2>2
<1> DEFINE s == Mine(r)
<1>4. s \in SessionIds /\ own' = [own EXCEPT ![s] = NoConn]
      /\ \A c \in Conns : conn'[c].st = "out" <=> conn[c].st = "out" /\ c # own[s]
  BY <1>1 DEF OwnOf
<1> HIDE DEF s
<1>5. QED
  BY <1>2, <1>3, <1>4, AttachedDetach DEF s

\* Every step of a request keeps connections attached to one session.
LEMMA RequestAttached ==
    ASSUME IInv, Kept, NEW r \in Requests, Request(r)
    PROVE  Attached'
<1> USE DEF IInv, TypeOK
<1>1. CASE Get(r)
  <2>1. req'[r].pc \in {"authenticate", "connect"}
        /\ \A r2 \in Requests : r2 # r => req'[r2] = req[r2]
    BY <1>1 DEF Get, GetUnmanaged, GetNew, GetFree, Begin
  <2>2. UNCHANGED <<config, own, conn>>
    BY <1>1, RequestOwn DEF Get, GetUnmanaged, GetNew, GetFree
  <2>3. QED
    BY <2>1, <2>2, RequestAttachedSame DEF Working, At
<1>2. CASE Reject(r) \/ AcquireFails(r) \/ HandlePanics(r) \/ Leave(r)
  <2>1. req'[r].pc = "idle" /\ \A r2 \in Requests : r2 # r => req'[r2] = req[r2]
    <3>1. Finish(r)
      BY <1>2 DEF Reject, AcquireFails, HandlePanics, Leave
    <3>2. QED
      BY <3>1 DEF Finish, Idle
  <2>2. UNCHANGED <<config, own, conn>>
    BY <1>2, RequestOwn DEF Reject, AcquireFails, HandlePanics, Leave
  <2>3. QED
    BY <2>1, <2>2, RequestAttachedSame DEF Working, At
<1>3. CASE Authenticate(r) \/ Keep(r)
  <2>1. req'[r].pc \in {"connect", "leave"} /\ \A r2 \in Requests : r2 # r => req'[r2] = req[r2]
    BY <1>3 DEF Authenticate, Keep, Goto
  <2>2. UNCHANGED <<config, own, conn>>
    BY <1>3, RequestOwn DEF Authenticate, Keep
  <2>3. QED
    BY <2>1, <2>2, RequestAttachedSame DEF Working, At
<1>4. CASE Reconnect(r)
  <2>1. /\ req'[r].pc = "prepare" /\ Mine(r)' = Mine(r)
        /\ \A r2 \in Requests : r2 # r => req'[r2] = req[r2]
    BY <1>4 DEF Reconnect, Goto, Mine
  <2>2. UNCHANGED <<config, own, conn>> /\ OwnOf(r) # NoConn /\ ~At(r, "idle")
    BY <1>4, RequestOwn, OwnMine DEF Reconnect, At
  <2>3. QED
    BY <2>1, <2>2, RequestAttachedSame DEF At
<1>5. CASE Disconnect(r)
  <2>1. /\ req'[r].pc = "acquire" /\ Mine(r)' = Mine(r) /\ ~At(r, "idle")
        /\ \A r2 \in Requests : r2 # r => req'[r2] = req[r2]
    BY <1>5 DEF Disconnect, Goto, Mine, At
  <2>2. \A c \in Conns : conn'[c].st = "out" <=> conn[c].st = "out" /\ c # OwnOf(r)
    BY <1>5, OwnMine, ConnLemma DEF Disconnect, At
  <2>3. UNCHANGED config /\ own' = [own EXCEPT ![Mine(r)] = NoConn]
    BY <1>5, RequestOwn DEF Disconnect, Detached, At
  <2>4. QED
    BY <2>1, <2>2, <2>3, RequestAttachedDetach DEF Working, At
<1>6. CASE Acquire(r)
  BY <1>6, AcquireAttached
<1>7. ASSUME At(r, "prepare") \/ At(r, "handle") \/ At(r, "release")
      PROVE  OwnOf(r) \in Conns /\ OwnOf(r) = ConnOf(r) /\ Mine(r) \in SessionIds /\ ~At(r, "idle")
  <2>1. ~At(r, "idle") /\ Working(r)
    BY <1>7 DEF At, Working
  <2>2. QED
    BY <2>1, OwnMine, OwnLemma DEF Attached, OwnOf
<1>8. CASE Prepare(r)
  <2>1. /\ req'[r].pc = "handle" /\ Mine(r)' = Mine(r)
        /\ \A r2 \in Requests : r2 # r => req'[r2] = req[r2]
    BY <1>8 DEF Prepare, Goto, Mine
  <2>2. \A c \in Conns : conn'[c].st = conn[c].st
    <3>1. Bound(r, Opened(conn[OwnOf(r)])).st = conn[OwnOf(r)].st
      BY <1>7, <1>8, BoundLemma DEF Prepare
    <3>2. QED
      BY <1>7, <1>8, <3>1 DEF Prepare
  <2>3. UNCHANGED <<config, own>> /\ OwnOf(r) # NoConn /\ ~At(r, "idle")
    BY <1>7, <1>8, RequestOwn, ConstantsAssumption DEF Prepare
  <2>4. QED
    BY <2>1, <2>2, <2>3, RequestAttachedSame DEF At
<1>9. CASE PrepareFails(r)
  <2>1. req'[r].pc = "idle" /\ \A r2 \in Requests : r2 # r => req'[r2] = req[r2]
    BY <1>9 DEF PrepareFails, Finish, Idle
  <2>2. \A c \in Conns : conn'[c].st = conn[c].st
    <3> DEFINE c == OwnOf(r)
    <3>1. c \in Conns /\ conn[c] \in ConnState
      BY <1>7, <1>9 DEF PrepareFails
    <3>2. PICK d \in {Closed(conn[c]), Opened(conn[c]), Bound(r, Opened(conn[c])), conn[c]} :
            conn' = [conn EXCEPT ![c] = d]
      BY <1>7, <1>9 DEF PrepareFails
    <3>3. d.st = conn[c].st
      BY <3>1, ConnLemma, BoundLemma
    <3> HIDE DEF c
    <3>4. QED
      BY <3>1, <3>2, <3>3
  <2>3. UNCHANGED <<config, own>>
    BY <1>9, RequestOwn DEF PrepareFails
  <2>4. QED
    BY <2>1, <2>2, <2>3, RequestAttachedSame DEF Working, At
<1>10. CASE Handle(r)
  <2>1. PICK h \in Handled(conn[OwnOf(r)]) :
          /\ conn' = [conn EXCEPT ![OwnOf(r)] = h[2]]
          /\ req' = [req EXCEPT ![r].pc = "release", ![r].status = h[1]]
    BY <1>7, <1>10 DEF Handle
  <2>2. /\ req'[r].pc = "release" /\ Mine(r)' = Mine(r)
        /\ \A r2 \in Requests : r2 # r => req'[r2] = req[r2]
    BY <2>1 DEF Mine
  <2>3. \A c \in Conns : conn'[c].st = conn[c].st
    BY <1>7, <1>10, <2>1, HandledLemma DEF Handle
  <2>4. UNCHANGED <<config, own>> /\ OwnOf(r) # NoConn /\ ~At(r, "idle")
    BY <1>7, <1>10, RequestOwn, ConstantsAssumption DEF Handle
  <2>5. QED
    BY <2>2, <2>3, <2>4, RequestAttachedSame DEF At
<1>11. CASE Release(r)
  <2>1. /\ req'[r].pc = "leave" /\ Mine(r)' = Mine(r) /\ ~At(r, "idle")
        /\ \A r2 \in Requests : r2 # r => req'[r2] = req[r2]
    BY <1>11 DEF Release, Goto, Mine, At
  <2>2. PICK d \in ReleaseConnection(conn[OwnOf(r)], req[r].status, ~config.sessions,
                                     "cancel" \in Events) :
               conn' = [conn EXCEPT ![OwnOf(r)] = d]
    BY <1>7, <1>11 DEF Release
  <2>3. d.st # "out" /\ OwnOf(r) \in Conns
    BY <1>7, <1>11, <2>2, ReleaseConnectionLemma DEF Release
  <2>4. \A c \in Conns : conn'[c].st = "out" <=> conn[c].st = "out" /\ c # OwnOf(r)
    BY <2>2, <2>3
  <2>5. UNCHANGED config /\ own' = [own EXCEPT ![Mine(r)] = NoConn]
    BY <1>11, RequestOwn DEF Release, Detached, At
  <2>6. QED
    BY <2>1, <2>4, <2>5, RequestAttachedDetach DEF Working, At
<1>12. QED
  BY <1>1, <1>2, <1>3, <1>4, <1>5, <1>6, <1>8, <1>9, <1>10, <1>11
     DEF Request, AcquireSession, ReleaseSession

\* Every step keeps connections attached to one session.
LEMMA AttachedNext ==
    ASSUME IInv, Kept, [Next]_vars
    PROVE  Attached'
<1> USE DEF IInv, TypeOK
<1>1. ASSUME NEW r \in Requests, Request(r) PROVE Attached'
  BY <1>1, RequestAttached
<1>2. ASSUME UNCHANGED <<config, own, req>>,
             \A c \in Conns : conn'[c].st = "out" <=> conn[c].st = "out"
      PROVE  Attached'
  <2>1. \A r \in Requests : Working(r)' => Mine(r)' = Mine(r) /\ OwnOf(r) # NoConn /\ ~At(r, "idle")
    BY <1>2 DEF Working, Mine, At, Attached
  <2>2. \A r \in Requests : At(r, "acquire")' => Mine(r)' = Mine(r) /\ OwnOf(r) = NoConn
    BY <1>2 DEF Mine, At, Attached
  <2>3. QED
    BY <1>2, <2>1, <2>2, AttachedSame
<1>3. CASE (Watch /\ ~WatchRelease) \/ Tick \/ UNCHANGED vars
  <2>1. UNCHANGED <<config, conn, req>>
    BY <1>3 DEF Watch, WatchStart, WatchList, WatchSkip, WatchDecide, WatchDetach, WatchDelete,
       WatchEnd, Tick, vars
  <2>2. UNCHANGED own
    BY <1>3, WatchOwn, SameOwn DEF Tick, vars
  <2>3. QED
    BY <1>2, <2>1, <2>2
<1>4. CASE WatchRelease
  <2> DEFINE s == Head(watcher.rest)
  <2>1. /\ s \notin inUse /\ own[s] # NoConn
        /\ \E d \in ReleaseConnection(conn[own[s]], "ok", TRUE, FALSE) :
             conn' = [conn EXCEPT ![own[s]] = d]
        /\ own' = [own EXCEPT ![s] = NoConn]
        /\ UNCHANGED <<config, req>>
    <3>1. own[s] = dbConn[s] /\ own' = [own EXCEPT ![s] = NoConn]
      BY <1>4, WatchOwn DEF Watch
    <3>2. s \notin inUse /\ dbConn[s] # NoConn
      BY <1>4 DEF WatchRelease, Doing, Watched
    <3> HIDE DEF s
    <3>3. QED
      BY <1>4, <3>1, <3>2 DEF WatchRelease, s
  <2>2. s \in SessionIds /\ config.sessions
    BY <1>4 DEF WatchRelease, Doing, Watched
  <2> HIDE DEF s
  <2>3. \A c \in Conns : conn'[c].st = "out" <=> conn[c].st = "out" /\ c # own[s]
    <3>1. PICK d \in ReleaseConnection(conn[own[s]], "ok", TRUE, FALSE) :
                 conn' = [conn EXCEPT ![own[s]] = d]
      BY <2>1
    <3>2. conn[own[s]] \in ConnState
      BY <2>1, <2>2, OwnLemma
    <3>3. d.st # "out"
      <4>1. d \in ConnState /\ d.st # "out" /\ (d.st = "idle" => ~d.tx)
        BY <3>2, ReleaseConnectionLemma
      <4>2. QED
        BY <4>1
    <3>4. QED
      BY <2>1, <2>2, <3>1, <3>3
  <2>4. ASSUME NEW r \in Requests, Working(r)'
        PROVE  Mine(r)' = Mine(r) /\ Mine(r) \in SessionIds /\ OwnOf(r) # NoConn /\ Mine(r) # s
    <3>1. Working(r) /\ Mine(r)' = Mine(r) /\ Mine(r) \in SessionIds
      BY <2>1, <2>4 DEF Working, Mine, Owned, At
    <3>2. QED
      BY <2>1, <2>2, <3>1, ConstantsAssumption DEF Attached, Owned
  <2>5. ASSUME NEW r \in Requests, At(r, "acquire")'
        PROVE  Mine(r)' = Mine(r) /\ Mine(r) \in SessionIds /\ (OwnOf(r) = NoConn \/ Mine(r) = s)
    BY <2>1, <2>5 DEF Mine, Owned, At, Attached
  <2>6. QED
    BY <2>1, <2>2, <2>3, <2>4, <2>5, AttachedDetach
<1>5. ASSUME NEW c \in Conns, ConnDies(c) \/ PoolDrops(c) PROVE Attached'
  <2>1. UNCHANGED <<config, own, req>>
    BY <1>5, SameOwn DEF ConnDies, PoolDrops
  <2>2. \A d \in Conns : conn'[d].st = "out" <=> conn[d].st = "out"
    <3>1. CASE ConnDies(c)
      <4> DEFINE b == [conn[c] EXCEPT !.live = "broken"]
      <4>1. conn' = [conn EXCEPT ![c] = b] /\ conn[c] \in ConnState
        BY <3>1 DEF ConnDies
      <4>2. b.st = conn[c].st
        BY <4>1 DEF ConnState
      <4> HIDE DEF b
      <4>3. QED
        BY <4>1, <4>2
    <3>2. CASE PoolDrops(c)
      BY <3>2 DEF PoolDrops, Absent
    <3>3. QED
      BY <1>5, <3>1, <3>2
  <2>3. QED
    BY <1>2, <2>1, <2>2
<1>6. QED
  BY <1>1, <1>3, <1>4, <1>5 DEF Next, Watch, Environment
-----------------------------------------------------------------------------
(* The types of everything but the lists, and the watcher.                 *)

WatcherType == [on : BOOLEAN, keys : SUBSET Keys, rest : Seq(SessionIds),
                at : {"walk", "delete", "release", "detach"}]

Types ==
    /\ config \in Configs
    /\ dbConn \in [SessionIds -> Conns \cup {NoConn}]
    /\ age \in [SessionIds -> 0 .. PastSessionTimeout]
    /\ conn \in [Conns -> ConnState]
    /\ req \in [Requests -> RequestType]
    /\ watcher \in WatcherType

\* The types of the lists and flags, and the others.
LEMMA TypesSplit == TypeOK <=> Types /\ ListTypes /\ inUse \subseteq SessionIds
BY DEF TypeOK, Types, ListTypes, RequestType, WatcherType

\* Moving on keeps the type of the requests.
LEMMA GotoTypes ==
    ASSUME Types, NEW r \in Requests,
           NEW label \in {"connect", "acquire", "prepare", "handle", "release", "leave"},
           Goto(r, label)
    PROVE  req' \in [Requests -> RequestType]
<1> DEFINE q == [req[r] EXCEPT !.pc = label]
<1>1. req \in [Requests -> RequestType] /\ req' = [req EXCEPT ![r] = q]
  BY DEF Types, Goto
<1>2. q \in RequestType
  BY <1>1 DEF RequestType
<1> HIDE DEF q
<1>3. QED
  BY <1>1, <1>2

\* A request that moves on and sets a local variable keeps its type.
LEMMA UpdateTypes ==
    ASSUME NEW q \in RequestType,
           NEW label \in {"connect", "acquire", "prepare", "handle", "release", "leave"},
           NEW status \in {"ok", "error"}
    PROVE  /\ [q EXCEPT !.pc = label, !.newAcquire = TRUE] \in RequestType
           /\ [q EXCEPT !.pc = label, !.status = status] \in RequestType
BY DEF RequestType

\* Ending keeps the type of the requests.
LEMMA FinishTypes ==
    ASSUME Types, NEW r \in Requests, Finish(r)
    PROVE  req' \in [Requests -> RequestType]
BY DEF Types, Finish, RequestType, Idle

\* A request at work has a connection.
LEMMA WorkingConn ==
    ASSUME IInv, NEW r \in Requests, Working(r)
    PROVE  ConnOf(r) \in Conns /\ conn[ConnOf(r)] \in ConnState /\ Mine(r) \in SessionIds
<1>1. Mine(r) \in SessionIds
  BY DEF IInv, TypeOK, Owned, Working, Mine, At
<1>2. ConnOf(r) \in Conns
  <2>1. OwnOf(r) = ConnOf(r) /\ OwnOf(r) # NoConn
    BY OwnMine DEF IInv, Attached, Working, At
  <2>2. QED
    BY <1>1, <2>1 DEF IInv, TypeOK, ConnOf
<1>3. QED
  BY <1>1, <1>2 DEF IInv, TypeOK

\* getSession keeps the types.
LEMMA GetTypes ==
    ASSUME IInv, NEW r \in Requests, Get(r)
    PROVE  Types'
<1> USE TypesSplit DEF IInv
<1>1. ASSUME NEW k \in Keys, NEW s \in SessionIds, NEW label \in {"authenticate", "connect"},
             Begin(r, label, k, s), UNCHANGED <<config, dbConn, conn, watcher>>,
             age' \in [SessionIds -> 0 .. PastSessionTimeout]
      PROVE  Types'
  <2>1. req' \in [Requests -> RequestType]
    BY <1>1 DEF Types, Begin, RequestType
  <2>2. QED
    BY <1>1, <2>1 DEF Types
<1>2. CASE GetUnmanaged(r)
  BY <1>1, <1>2 DEF GetUnmanaged, Unused, Types
<1>3. CASE GetNew(r)
  <2>1. PICK k \in Keys, s \in SessionIds : NewSession(k, s) /\ Begin(r, "authenticate", k, s)
    BY <1>3 DEF GetNew, Unused
  <2>2. age' \in [SessionIds -> 0 .. PastSessionTimeout]
    BY <2>1 DEF NewSession, Types, PastSessionTimeout
  <2>3. QED
    BY <1>1, <1>3, <2>1, <2>2 DEF GetNew
<1>4. CASE GetFree(r)
  <2>1. PICK k \in Keys : slots[k] # <<>> /\ Begin(r, "connect", k, slots[k][1])
    BY <1>4 DEF GetFree
  <2>2. slots[k][1] \in SessionIds
    BY <2>1 DEF TypeOK
  <2>3. QED
    BY <1>1, <1>4, <2>1, <2>2 DEF GetFree, Types
<1>5. QED
  BY <1>2, <1>3, <1>4 DEF Get

\* Every step of a request keeps the types.
LEMMA RequestTypes ==
    ASSUME IInv, NEW r \in Requests, Request(r)
    PROVE  Types'
<1> USE TypesSplit DEF IInv
<1>1. CASE Get(r)
  BY <1>1, GetTypes
<1>2. CASE Reject(r) \/ AcquireFails(r) \/ HandlePanics(r)
  BY <1>2, FinishTypes DEF Reject, AcquireFails, HandlePanics, Types
<1>3. CASE Authenticate(r) \/ Reconnect(r) \/ Keep(r)
  BY <1>3, GotoTypes DEF Authenticate, Reconnect, Keep, Types
<1>4. CASE Disconnect(r)
  <2>1. req' \in [Requests -> RequestType]
    BY <1>4, GotoTypes DEF Disconnect
  <2>2. dbConn' \in [SessionIds -> Conns \cup {NoConn}]
    BY <1>4 DEF Disconnect, Detached, Types
  <2>3. conn' \in [Conns -> ConnState]
    BY <1>4, ConnLemma DEF Disconnect, Types
  <2>4. QED
    BY <1>4, <2>1, <2>2, <2>3 DEF Disconnect, Types
<1>5. CASE Acquire(r)
  <2>1. PICK c \in Conns :
          /\ conn' = [conn EXCEPT ![c] = IF conn[c].st = "idle" THEN [conn[c] EXCEPT !.st = "out"]
                                         ELSE Connected]
          /\ dbConn' = [dbConn EXCEPT ![Mine(r)] = c]
    BY <1>5 DEF Acquire
  <2>2. Connected \in ConnState /\ [conn[c] EXCEPT !.st = "out"] \in ConnState
    BY DEF Connected, Absent, ConnState, Types
  <2>3. conn' \in [Conns -> ConnState] /\ dbConn' \in [SessionIds -> Conns \cup {NoConn}]
    BY <2>1, <2>2 DEF Types
  <2>4. req' \in [Requests -> RequestType]
    <3> DEFINE q == [req[r] EXCEPT !.pc = "prepare", !.newAcquire = TRUE]
    <3>1. q \in RequestType
      BY UpdateTypes DEF Types
    <3>2. req' = [req EXCEPT ![r] = q]
      BY <1>5 DEF Acquire, Acquired
    <3> HIDE DEF q
    <3>3. QED
      BY <3>1, <3>2 DEF Types
  <2>5. QED
    BY <1>5, <2>3, <2>4 DEF Acquire, Types
<1>6. CASE Prepare(r)
  <2>1. conn[ConnOf(r)] \in ConnState /\ req[r].key \in Keys
    BY <1>6, WorkingConn DEF Prepare, Working, Owned, At
  <2>2. Bound(r, Opened(conn[ConnOf(r)])) \in ConnState
    BY <2>1, BoundLemma
  <2>3. conn' \in [Conns -> ConnState]
    BY <1>6, <2>2 DEF Prepare, Types
  <2>4. QED
    BY <1>6, <2>3, GotoTypes DEF Prepare, Types
<1>7. CASE PrepareFails(r)
  <2> DEFINE c == conn[ConnOf(r)]
  <2>1. c \in ConnState /\ req[r].key \in Keys
    BY <1>7, WorkingConn DEF PrepareFails, Working, Owned, At
  <2>2. PICK d \in {Closed(c), Opened(c), Bound(r, Opened(c)), c} : conn' = [conn EXCEPT ![ConnOf(r)] = d]
    BY <1>7 DEF PrepareFails
  <2>3. d \in ConnState
    BY <2>1, ConnLemma, BoundLemma
  <2>4. conn' \in [Conns -> ConnState]
    BY <2>2, <2>3 DEF Types
  <2>5. QED
    BY <1>7, <2>4, FinishTypes DEF PrepareFails, Types
<1>8. CASE Handle(r)
  <2>1. PICK h \in Handled(conn[ConnOf(r)]) :
          /\ conn' = [conn EXCEPT ![ConnOf(r)] = h[2]]
          /\ req' = [req EXCEPT ![r].pc = "release", ![r].status = h[1]]
    BY <1>8 DEF Handle
  <2>2. h[1] \in {"ok", "error"} /\ h[2] \in ConnState
    BY <1>8, WorkingConn, HandledLemma DEF Handle, Working, At
  <2>3. conn' \in [Conns -> ConnState]
    BY <2>1, <2>2 DEF Types
  <2>4. req' \in [Requests -> RequestType]
    <3> DEFINE q == [req[r] EXCEPT !.pc = "release", !.status = h[1]]
    <3>1. q \in RequestType
      BY <2>2, UpdateTypes DEF Types
    <3>2. req' = [req EXCEPT ![r] = q]
      BY <2>1
    <3> HIDE DEF q
    <3>3. QED
      BY <3>1, <3>2 DEF Types
  <2>5. QED
    BY <1>8, <2>3, <2>4 DEF Handle, Types
<1>9. CASE Release(r)
  <2>1. PICK d \in ReleaseConnection(conn[ConnOf(r)], req[r].status, ~config.sessions,
                                     "cancel" \in Events) :
               conn' = [conn EXCEPT ![ConnOf(r)] = d]
    BY <1>9 DEF Release
  <2>2. conn[ConnOf(r)] \in ConnState
    BY <1>9, WorkingConn DEF Release, Working, At
  <2>3. d \in ConnState
    BY <2>2, ReleaseConnectionLemma
  <2>4. conn' \in [Conns -> ConnState]
    BY <2>1, <2>3 DEF Types
  <2>5. dbConn' \in [SessionIds -> Conns \cup {NoConn}]
    BY <1>9 DEF Release, Detached, Types
  <2>6. QED
    BY <1>9, <2>4, <2>5, GotoTypes DEF Release, Types
<1>10. CASE Leave(r)
  <2>1. age' \in [SessionIds -> 0 .. PastSessionTimeout]
    BY <1>10 DEF Leave, Types, PastSessionTimeout
  <2>2. QED
    BY <1>10, <2>1, FinishTypes DEF Leave, Types
<1>11. QED
  BY <1>1, <1>2, <1>3, <1>4, <1>5, <1>6, <1>7, <1>8, <1>9, <1>10
     DEF Request, AcquireSession, ReleaseSession

\* Every step of the watcher keeps the types.
LEMMA WatchTypes ==
    ASSUME IInv, Watch
    PROVE  Types' /\ Watched'
<1> USE TypesSplit DEF IInv
<1>0. /\ watcher \in WatcherType /\ watcher.rest \in Seq(SessionIds) /\ watcher.keys \subseteq Keys
      /\ watcher.rest # <<>> => Head(watcher.rest) \in SessionIds
      /\ watcher.at # "walk" => watcher.on /\ watcher.rest # <<>>
  BY DEF Types, WatcherType, Watched
<1>1. Watched' /\ watcher' \in WatcherType
  <2>1. CASE WatchStart
    <3>1. watcher' = [on |-> TRUE, keys |-> {k \in Keys : slots[k] # <<>>}, rest |-> <<>>,
                      at |-> "walk"]
          /\ config.sessions /\ UNCHANGED config
      BY <2>1 DEF WatchStart, WatcherOff
    <3>2. QED
      BY <3>1 DEF Watched, WatcherType
  <2>2. CASE WatchList
    <3>1. PICK k \in Keys : watcher' = [watcher EXCEPT !.keys = @ \ {k}, !.rest = slots[k]]
      BY <1>0, <2>2 DEF WatchList
    <3>2. slots[k] \in Seq(SessionIds) /\ watcher.on /\ UNCHANGED config /\ watcher.rest = <<>>
      BY <2>2 DEF TypeOK, WatchList
    <3>3. watcher.at = "walk"
      BY <3>2, <1>0
    <3>4. QED
      BY <1>0, <3>1, <3>2, <3>3 DEF Watched, WatcherType
  <2>3. CASE WatchSkip \/ WatchDetach \/ WatchDelete
    <3>1. watcher' = [watcher EXCEPT !.rest = Tail(@), !.at = "walk"]
          /\ watcher.rest # <<>> /\ UNCHANGED config
      BY <2>3 DEF WatchSkip, WatchDetach, WatchDelete, Onward, Doing
    <3>2. Tail(watcher.rest) \in Seq(SessionIds)
      BY <3>1, <1>0
    <3>3. QED
      BY <1>0, <3>1, <3>2 DEF Watched, WatcherType
  <2>4. CASE WatchEnd
    BY <2>4 DEF WatchEnd, WatcherOff, Watched, WatcherType
  <2>5. CASE WatchDecide \/ WatchRelease
    <3>1. PICK what \in {"delete", "release", "detach"} :
            /\ watcher' = [watcher EXCEPT !.at = what]
            /\ watcher.rest # <<>> /\ Head(watcher.rest) \notin inUse
            /\ what = "delete" => dbConn[Head(watcher.rest)] = NoConn
            /\ what # "delete" => dbConn[Head(watcher.rest)] # NoConn
      BY <1>0, <2>5 DEF WatchDecide, WatchRelease, Doing, Expired, ConnExpired, Watched
    <3>2. UNCHANGED <<config, inUse, dbConn>>
      BY <2>5 DEF WatchDecide, WatchRelease
    <3>3. QED
      BY <1>0, <3>1, <3>2 DEF Watched, WatcherType
  <2>6. QED
    BY <2>1, <2>2, <2>3, <2>4, <2>5 DEF Watch
<1>3. CASE WatchRelease
  <2> DEFINE s == Head(watcher.rest)
  <2>1. s \in SessionIds /\ dbConn[s] # NoConn
        /\ \E d \in ReleaseConnection(conn[dbConn[s]], "ok", TRUE, FALSE) :
             conn' = [conn EXCEPT ![dbConn[s]] = d]
    BY <1>0, <1>3 DEF WatchRelease, Doing, Watched
  <2> HIDE DEF s
  <2>2. conn[dbConn[s]] \in ConnState
    BY <2>1 DEF Types
  <2>3. \E d \in ConnState : conn' = [conn EXCEPT ![dbConn[s]] = d]
    BY <2>1, <2>2, ReleaseConnectionLemma
  <2>4. conn' \in [Conns -> ConnState]
    BY <2>3 DEF Types
  <2>5. QED
    BY <1>1, <1>3, <2>4 DEF WatchRelease, Types
<1>6. CASE WatchDetach
  <2>1. dbConn' \in [SessionIds -> Conns \cup {NoConn}]
    BY <1>6 DEF WatchDetach, Detached, Types
  <2>2. QED
    BY <1>1, <1>6, <2>1 DEF WatchDetach, Types
<1>4. CASE WatchDelete
  <2>1. age' \in [SessionIds -> 0 .. PastSessionTimeout]
    <3>1. age' = [age EXCEPT ![Head(watcher.rest)] = 0]
      BY <1>4 DEF WatchDelete
    <3>2. age \in [SessionIds -> 0 .. PastSessionTimeout] /\ 0 \in 0 .. PastSessionTimeout
      BY DEF Types, PastSessionTimeout
    <3>3. QED
      BY <3>1, <3>2
  <2>2. QED
    BY <1>1, <1>4, <2>1 DEF WatchDelete, Types
<1>5. CASE WatchStart \/ WatchList \/ WatchSkip \/ WatchDecide \/ WatchEnd
  BY <1>1, <1>5 DEF WatchStart, WatchList, WatchSkip, WatchDecide, WatchEnd, Types
<1>7. QED
  BY <1>3, <1>4, <1>5, <1>6 DEF Watch

\* The clock, the database and the pool keep the types.
LEMMA EnvironmentTypes ==
    ASSUME IInv, Environment
    PROVE  Types'
<1> USE TypesSplit DEF IInv
<1>1. CASE Tick
  <2>1. age' \in [SessionIds -> 0 .. PastSessionTimeout]
    BY <1>1 DEF Tick, Types, PastSessionTimeout
  <2>2. QED
    BY <1>1, <2>1 DEF Tick, Types
<1>2. ASSUME NEW c \in Conns, ConnDies(c) PROVE Types'
  <2> DEFINE b == [conn[c] EXCEPT !.live = "broken"]
  <2>1. conn' = [conn EXCEPT ![c] = b] /\ conn[c] \in ConnState
    BY <1>2 DEF ConnDies, Types
  <2>2. b \in ConnState
    BY <2>1 DEF ConnState
  <2> HIDE DEF b
  <2>3. QED
    BY <1>2, <2>1, <2>2 DEF ConnDies, Types
<1>3. ASSUME NEW c \in Conns, PoolDrops(c) PROVE Types'
  <2>1. Absent \in ConnState
    BY DEF Absent, ConnState
  <2>2. QED
    BY <1>3, <2>1 DEF PoolDrops, Types
<1>4. QED
  BY <1>1, <1>2, <1>3 DEF Environment

\* Every step keeps the types, and the watcher within its pass.
LEMMA TypesNext ==
    ASSUME IInv, [Next]_vars
    PROVE  Types' /\ Watched'
<1>1. ASSUME NEW r \in Requests, Request(r) PROVE Types' /\ Watched'
  <2>1. UNCHANGED <<config, watcher>>
    BY <1>1 DEF Request, Get, GetUnmanaged, GetNew, GetFree, AcquireSession, Authenticate, Reject,
         Reconnect, Disconnect, Acquire, AcquireFails, Prepare, PrepareFails, Handle, HandlePanics,
         ReleaseSession, Release, Keep, Leave
  <2>2. CASE watcher.at = "walk"
    BY <1>1, <2>1, <2>2, RequestTypes DEF IInv, Watched
  <2>3. CASE watcher.at # "walk"
    <3> DEFINE s == Head(watcher.rest)
    <3>1. s \notin inUse /\ config.sessions /\ watcher.on /\ s \in SessionIds
      BY <2>3 DEF IInv, TypeOK, Watched
    <3>2. UNCHANGED inUse
      BY <1>1, <3>1 DEF Request, Get, GetUnmanaged, GetNew, GetFree, AcquireSession, Authenticate,
           Reject, Reconnect, Disconnect, Acquire, AcquireFails, Prepare, PrepareFails, Handle,
           HandlePanics, ReleaseSession, Release, Keep, Leave, MutexFree
    <3>3. dbConn' = dbConn \/ (~At(r, "idle") /\ \E x : dbConn' = [dbConn EXCEPT ![Mine(r)] = x])
      BY <1>1 DEF Request, Get, GetUnmanaged, GetNew, GetFree, AcquireSession, Authenticate,
           Reject, Reconnect, Disconnect, Acquire, AcquireFails, Prepare, PrepareFails, Handle,
           HandlePanics, ReleaseSession, Release, Keep, Leave, Detached, At
    <3>4. ~At(r, "idle") => Mine(r) \in inUse
      BY <3>1 DEF IInv, Owned, At
    <3>5. dbConn'[s] = dbConn[s]
      BY <3>1, <3>3, <3>4 DEF IInv, TypeOK
    <3>6. Watched'
      BY <2>1, <3>2, <3>5 DEF IInv, Watched
    <3>7. QED
      BY <1>1, <3>6, RequestTypes
  <2>4. QED
    BY <2>2, <2>3
<1>2. CASE Watch
  BY <1>2, WatchTypes
<1>3. CASE Environment
  <2>1. UNCHANGED <<config, watcher, inUse, dbConn>>
    BY <1>3 DEF Environment, Tick, ConnDies, PoolDrops
  <2>2. QED
    BY <1>3, <2>1, EnvironmentTypes DEF IInv, Watched
<1>4. CASE UNCHANGED vars
  BY <1>4, TypesSplit DEF vars, IInv, Types, Watched
<1>5. QED
  BY <1>1, <1>2, <1>3, <1>4 DEF Next
-----------------------------------------------------------------------------
(* The invariant, and what follows from it.                                *)

\* The invariant holds at startup.
LEMMA IInvInit == Init => IInv
<1> SUFFICES ASSUME Init PROVE IInv
  OBVIOUS
<1> USE DEF Init
<1>1. Members(<<>>) = {} /\ Injective(<<>>) /\ FreePrefix(<<>>, {})
  BY DEF Members, Injective, FreePrefix
<1>2. \A k \in Keys : slots[k] = <<>>
  OBVIOUS
<1>3. \A r \in Requests : req[r] = Idle /\ At(r, "idle") /\ Mine(r) = NoSession
  BY DEF Idle, At, Mine
<1>4. Types
  BY DEF Types, Idle, RequestType, WatcherOff, WatcherType, PastSessionTimeout, Absent, ConnState
<1>5. ListTypes /\ Lists
  BY <1>1, <1>2 DEF ListTypes, Lists, FreeFirst
<1>6. Owned
  BY <1>3 DEF Owned
<1>7. Attached
  <2>1. own = [s \in SessionIds |-> NoConn]
    BY DEF own, Own, Doing, WatcherOff
  <2>2. \A r \in Requests : ~Working(r) /\ ~At(r, "acquire")
    BY <1>3 DEF Idle, Working, At
  <2>3. Reached
    BY DEF Reached, Absent
  <2>4. QED
    BY <2>1, <2>2, <2>3 DEF Attached
<1>8. Watched
  BY DEF Watched, WatcherOff
<1>9. QED
  BY <1>4, <1>5, <1>6, <1>7, <1>8, TypesSplit DEF IInv

\* Every step keeps the invariant: its parts together.
LEMMA IInvNext == IInv /\ [Next]_vars => IInv'
<1> SUFFICES ASSUME IInv, [Next]_vars PROVE IInv'
  OBVIOUS
<1>1. ListTypes' /\ Lists' /\ Kept
  BY ListsNext
<1>2. Owned'
  BY <1>1, OwnedNext
<1>3. Attached'
  BY <1>1, AttachedNext
<1>4. Types' /\ Watched'
  BY TypesNext
<1>5. (inUse \subseteq SessionIds)'
  BY <1>1 DEF Lists, ListTypes, Listed, Members
<1>6. TypeOK'
  BY <1>1, <1>4, <1>5 DEF TypeOK, Types, ListTypes, RequestType, WatcherType
<1>7. QED
  BY <1>1, <1>2, <1>3, <1>4, <1>6 DEF IInv

\* The request life keeps IInv: each fact below follows from it.
THEOREM Inductive == Spec => []IInv
BY IInvInit, IInvNext, PTL DEF Spec

\* Every variable keeps its type, and no list holds a session twice.
THEOREM TypeCorrect == Spec => []TypeOK
<1>1. IInv => TypeOK
  BY DEF IInv
<1>2. QED
  BY <1>1, Inductive, PTL

\* getSession may look at the head only (sessions.go:210-215), whatever requests
\* fail half way and however the watcher interleaves.
THEOREM FreeFirstCorrect == Spec => []FreeFirst
<1>1. IInv => FreeFirst
  BY DEF IInv, Lists
<1>2. QED
  BY <1>1, Inductive, PTL

\* No session serves two requests and no connection two sessions, although neither
\* the middleware nor the handlers hold the mutex while they use them.
THEOREM ExclusiveCorrect == Spec => []Exclusive
<1>1. IInv => Exclusive
  <2> SUFFICES ASSUME IInv PROVE Exclusive
    OBVIOUS
  <2>1. \A s \in SessionIds : own[s] = Own(s)
    BY DEF own
  <2>2. ASSUME NEW r \in Requests, Working(r) PROVE ConnOf(r) # NoConn /\ ConnOf(r) = Own(Mine(r))
    <3>1. Mine(r) \in SessionIds /\ OwnOf(r) = ConnOf(r) /\ OwnOf(r) # NoConn
      BY <2>2, OwnMine DEF IInv, Attached, Working, At
    <3>2. QED
      BY <2>1, <3>1 DEF OwnOf
  <2>3. QED
    BY <2>1, <2>2 DEF IInv, Owned, Attached, Exclusive
<1>2. QED
  BY <1>1, Inductive, PTL

\* A connection out of the pool always belongs to a session of some list.
THEOREM NoLostConnCorrect == Spec => []NoLostConn
<1>1. IInv => NoLostConn
  <2> SUFFICES ASSUME IInv PROVE NoLostConn
    OBVIOUS
  <2>1. \A s \in Listed : s \in SessionIds /\ own[s] = Own(s)
    BY DEF IInv, TypeOK, Listed, Members, own
  <2>2. QED
    BY <2>1 DEF IInv, Attached, Reached, NoLostConn
<1>2. QED
  BY <1>1, Inductive, PTL

\* What the watcher does to a session and its connection, it does while nobody uses
\* them: the session it has found free (sessions.go:134-136) is still free when its
\* connection is given back, when it is detached and when it is deleted.
THEOREM WatcherHandsOffCorrect == Spec => WatcherHandsOff
<1> DEFINE A == watcher' # watcher =>
                  \A s \in inUse : /\ dbConn'[s] = dbConn[s]
                                   /\ dbConn[s] # NoConn => conn'[dbConn[s]] = conn[dbConn[s]]
                                   /\ s \in Listed => s \in Listed'
<1>1. IInv /\ [Next]_vars => A
  <2> SUFFICES ASSUME IInv, [Next]_vars, watcher' # watcher, NEW s \in inUse
               PROVE  /\ dbConn'[s] = dbConn[s]
                      /\ dbConn[s] # NoConn => conn'[dbConn[s]] = conn[dbConn[s]]
                      /\ s \in Listed => s \in Listed'
    OBVIOUS
  <2>1. Watch
    BY DEF Next, Request, Get, GetUnmanaged, GetNew, GetFree, AcquireSession, Authenticate, Reject,
         Reconnect, Disconnect, Acquire, AcquireFails, Prepare, PrepareFails, Handle, HandlePanics,
         ReleaseSession, Release, Keep, Leave, Environment, Tick, ConnDies, PoolDrops, vars
  <2> DEFINE h == Head(watcher.rest)
  <2>2. watcher.at # "walk" => h # s /\ h \in SessionIds
    BY DEF IInv, TypeOK, Watched
  <2>3. s \in SessionIds /\ own[s] = dbConn[s]
    BY OwnLemma DEF IInv, TypeOK
  <2>4. dbConn'[s] = dbConn[s]
    <3>1. CASE WatchDetach
      <4>1. dbConn' = [dbConn EXCEPT ![h] = NoConn] /\ watcher.at = "detach"
        BY <3>1 DEF WatchDetach, Doing, Detached
      <4>2. QED
        BY <2>2, <2>3, <4>1 DEF IInv, TypeOK
    <3>2. CASE ~WatchDetach
      BY <2>1, <3>2 DEF Watch, WatchStart, WatchList, WatchSkip, WatchDecide, WatchRelease,
         WatchDelete, WatchEnd
    <3>3. QED
      BY <3>1, <3>2
  <2>5. ASSUME dbConn[s] # NoConn PROVE conn'[dbConn[s]] = conn[dbConn[s]]
    <3>1. CASE WatchRelease
      <4>1. watcher.at = "release" /\ \E d : conn' = [conn EXCEPT ![dbConn[h]] = d]
        BY <3>1 DEF WatchRelease, Doing
      <4>2. own[h] = dbConn[h]
        BY <2>1, <3>1, WatchOwn
      <4>3. dbConn[h] # dbConn[s]
        BY <2>2, <2>3, <2>5, <4>1, <4>2 DEF IInv, Attached
      <4>4. dbConn[s] \in Conns
        BY <2>3, <2>5 DEF IInv, TypeOK
      <4>5. QED
        BY <4>1, <4>3, <4>4 DEF IInv, TypeOK
    <3>2. CASE ~WatchRelease
      BY <2>1, <3>2 DEF Watch, WatchStart, WatchList, WatchSkip, WatchDecide, WatchDetach,
         WatchDelete, WatchEnd
    <3>3. QED
      BY <3>1, <3>2
  <2>6. Kept
    BY ListsNext
  <2>7. QED
    BY <2>4, <2>5, <2>6 DEF Kept, Listed
<1>2. QED
  BY <1>1, Inductive, PTL DEF Spec, WatcherHandsOff
-----------------------------------------------------------------------------
(* The lists as slots: every list takes a step of SessionQueue, or none.   *)

\* What SlotsSpec says of one step.
SlotMoves(k) == Slot(k)!Next \/ UNCHANGED Slot(k)!vars
SlotsMove == \A k \in Keys : SlotMoves(k)

\* A step that leaves a list and its flags alone is a stutter of its slot.
LEMMA SlotStutters ==
    ASSUME NEW j \in Keys, slots'[j] = slots[j],
           inUse' \cap Members(slots[j]) = inUse \cap Members(slots[j])
    PROVE  SlotMoves(j)
BY DEF SlotMoves, Slot!vars

\* Where the list of one key takes a step of its slot, the others stutter.
LEMMA OneSlotMoves ==
    ASSUME IInv, NEW k \in Keys, NEW q,
           slots' = [slots EXCEPT ![k] = q],
           \A j \in Keys : j # k => inUse' \cap Members(slots[j]) = inUse \cap Members(slots[j]),
           slots'[k] = q => Slot(k)!Next
    PROVE  SlotsMove
<1>1. slots'[k] = q /\ \A j \in Keys : j # k => slots'[j] = slots[j]
  BY DEF IInv, TypeOK
<1> SUFFICES ASSUME NEW j \in Keys PROVE SlotMoves(j)
  BY DEF SlotsMove
<1>2. CASE j = k
  BY <1>1, <1>2 DEF SlotMoves
<1>3. CASE j # k
  BY <1>1, <1>3, SlotStutters
<1>4. QED
  BY <1>2, <1>3

\* A step that changes neither lists nor flags is no step of a slot.
LEMMA SlotsStutter ==
    ASSUME UNCHANGED <<slots, inUse>>
    PROVE  SlotsMove
BY SlotStutters DEF SlotsMove

\* newSession is the slot's Create: the session is in no list yet.
LEMMA GetNewSlots ==
    ASSUME IInv, NEW r \in Requests, GetNew(r)
    PROVE  SlotsMove
<1>1. PICK k \in Keys, s \in Unused :
        /\ slots[k] # <<>> => slots[k][1] \in inUse
        /\ inUse' = inUse \cup {s}
        /\ slots' = [slots EXCEPT ![k] = Append(slots[k], s)]
  BY DEF GetNew, NewSession
<1>2. s \in SessionIds /\ \A j \in Keys : s \notin Members(slots[j])
  BY DEF Unused, Listed
<1>3. slots[k] \in Seq(SessionIds) /\ Injective(slots[k]) /\ FreePrefix(slots[k], inUse)
  BY DEF IInv, TypeOK, Lists, FreeFirst
<1> DEFINE q == Append(slots[k], s)
<1>4. Members(q) = Members(slots[k]) \cup {s}
  <2> DEFINE l == slots[k]
  <2>1. l \in Seq(SessionIds) /\ Injective(l) /\ FreePrefix(l, inUse) /\ s \notin Members(l)
    BY <1>2, <1>3
  <2>2. l # <<>> => l[1] \in inUse
    BY <1>1
  <2> HIDE DEF l
  <2>3. /\ Members(Append(l, s)) = Members(l) \cup {s}
        /\ FreePrefix(Append(l, s), inUse \cup {s})
    BY <2>1, <2>2, <1>2, AppendLemma
  <2>4. QED
    BY <2>3 DEF q, l
<1>5. slots[k] # <<>> => slots[k][1] \in Members(slots[k])
  BY <1>3 DEF Members
<1>6. ASSUME slots'[k] = q PROVE Slot(k)!Next
  <2>1. s \in SessionIds \ Slot(k)!Members(slots[k])
    BY <1>2 DEF Members, Slot!Members
  <2>2. inUse' \cap Members(q) = (inUse \cap Members(slots[k])) \cup {s}
    BY <1>1, <1>2, <1>4 DEF IInv, TypeOK
  <2> HIDE DEF q
  <2>3. Slot(k)!Create(s)
    BY <1>1, <1>5, <1>6, <2>1, <2>2 DEF Slot!Create, q
  <2>4. QED
    BY <2>1, <2>3 DEF Slot!Next
<1>7. \A j \in Keys : j # k => inUse' \cap Members(slots[j]) = inUse \cap Members(slots[j])
  BY <1>1, <1>2
<1>8. slots' = [slots EXCEPT ![k] = q]
  BY <1>1
<1> HIDE DEF q
<1>9. QED
  BY <1>6, <1>7, <1>8, OneSlotMoves

\* getSession with a free head is the slot's Reuse.
LEMMA GetFreeSlots ==
    ASSUME IInv, NEW r \in Requests, GetFree(r)
    PROVE  SlotsMove
<1>1. PICK k \in Keys :
        /\ slots[k] # <<>> /\ slots[k][1] \notin inUse
        /\ inUse' = inUse \cup {slots[k][1]}
        /\ slots' = [slots EXCEPT ![k] = FrontToBack(slots[k])]
  BY DEF GetFree, HeadToBack
<1> DEFINE q == FrontToBack(slots[k])
<1>2. slots[k] \in Seq(SessionIds) /\ Injective(slots[k]) /\ FreePrefix(slots[k], inUse)
  BY DEF IInv, TypeOK, Lists, FreeFirst
<1>3. Members(q) = Members(slots[k])
  BY <1>1, <1>2, FrontToBackLemma
<1>4. slots[k][1] \in Members(slots[k])
  BY <1>1, <1>2 DEF Members
<1>5. ASSUME slots'[k] = q PROVE Slot(k)!Next
  <2>1. inUse' \cap Members(q) = (inUse \cap Members(slots[k])) \cup {slots[k][1]}
    BY <1>1, <1>3, <1>4
  <2>2. q = Slot(k)!FrontToBack(slots[k])
    BY DEF FrontToBack, Slot!FrontToBack
  <2> HIDE DEF q
  <2>3. Slot(k)!Reuse
    BY <1>1, <1>5, <2>1, <2>2 DEF Slot!Reuse
  <2>4. QED
    BY <2>3 DEF Slot!Next
<1>6. \A j \in Keys : j # k => inUse' \cap Members(slots[j]) = inUse \cap Members(slots[j])
  BY <1>1, <1>4 DEF IInv, Lists
<1>7. slots' = [slots EXCEPT ![k] = q]
  BY <1>1
<1> HIDE DEF q
<1>8. QED
  BY <1>5, <1>6, <1>7, OneSlotMoves

\* leaveSession is the slot's Leave.
LEMMA LeaveSlots ==
    ASSUME IInv, NEW r \in Requests, Leave(r)
    PROVE  SlotsMove
<1>1. CASE ~config.sessions
  BY <1>1, SlotsStutter DEF Leave
<1>2. CASE config.sessions
  <2>0. req[r].key \in Keys /\ Mine(r) \in inUse /\ Mine(r) \in Members(slots[req[r].key])
    BY <1>2 DEF Leave, IInv, Owned, At
  <2>1. PICK k \in Keys, s \in inUse :
          k = req[r].key /\ s = Mine(r) /\ s \in Members(slots[k])
    BY <2>0
  <2> DEFINE q == ToFront(slots[k], s)
  <2>2. inUse' = inUse \ {s} /\ slots' = [slots EXCEPT ![k] = q]
    BY <1>2, <2>1 DEF Leave, ComesFirst
  <2>3. slots[k] \in Seq(SessionIds) /\ Injective(slots[k]) /\ FreePrefix(slots[k], inUse)
    BY <2>1 DEF IInv, TypeOK, Lists, FreeFirst
  <2>4. Members(q) = Members(slots[k])
    BY <2>1, <2>3, ToFrontLemma
  <2>5. ASSUME slots'[k] = q PROVE Slot(k)!Next
    <3>1. inUse' \cap Members(q) = (inUse \cap Members(slots[k])) \ {s}
      BY <2>2, <2>4
    <3>2. q = Slot(k)!ToFront(slots[k], s)
      BY DEF ToFront, Slot!ToFront
    <3> HIDE DEF q
    <3>3. Slot(k)!Leave(s)
      BY <2>1, <2>5, <3>1, <3>2 DEF Slot!Leave
    <3>4. s \in SessionIds
      BY <2>1 DEF IInv, TypeOK
    <3>5. QED
      BY <3>3, <3>4 DEF Slot!Next
  <2> HIDE DEF q
  <2>6. \A j \in Keys : j # k => inUse' \cap Members(slots[j]) = inUse \cap Members(slots[j])
    BY <2>1, <2>2 DEF IInv, Lists
  <2>7. QED
    BY <2>1, <2>2, <2>5, <2>6, OneSlotMoves
<1>3. QED
  BY <1>1, <1>2

\* A deletion by the watcher is the Expire of the slot that holds the session.
LEMMA WatchDeleteSlots ==
    ASSUME IInv, WatchDelete
    PROVE  SlotsMove
<1> DEFINE s == Head(watcher.rest)
<1>1. /\ s \notin inUse /\ inUse' = inUse
      /\ slots' = [k \in Keys |-> IF s \in Members(slots[k]) THEN Without(slots[k], s)
                                  ELSE slots[k]]
  BY DEF WatchDelete, Doing, IInv, Watched
<1> HIDE DEF s
<1> SUFFICES ASSUME NEW k \in Keys PROVE SlotMoves(k)
  BY DEF SlotsMove
<1>2. CASE s \notin Members(slots[k])
  <2>1. slots'[k] = slots[k]
    BY <1>1, <1>2
  <2>2. QED
    BY <1>1, <2>1, SlotStutters
<1>3. CASE s \in Members(slots[k])
  <2> DEFINE q == Without(slots[k], s)
  <2>1. slots'[k] = q
    BY <1>1, <1>3
  <2>2. slots[k] \in Seq(SessionIds) /\ Injective(slots[k]) /\ FreePrefix(slots[k], inUse)
    BY DEF IInv, TypeOK, Lists, FreeFirst
  <2>3. Members(q) = Members(slots[k]) \ {s}
    BY <1>1, <1>3, <2>2, WithoutLemma
  <2>4. q = Slot(k)!Without(slots[k], s)
    BY DEF Without, Slot!Without
  <2>5. inUse' \cap Members(q) = inUse \cap Members(slots[k])
    BY <1>1, <2>3
  <2> HIDE DEF q
  <2>6. s \in Slot(k)!Members(slots[k]) /\ s \in SessionIds
    BY <1>3, <2>2 DEF Members, Slot!Members
  <2>7. Slot(k)!Expire(s)
    BY <1>1, <2>1, <2>4, <2>5, <2>6 DEF Slot!Expire
  <2>8. QED
    BY <2>6, <2>7 DEF SlotMoves, Slot!Next
<1>4. QED
  BY <1>2, <1>3

\* Every step of the session manager is one of each slot, or leaves it alone.
LEMMA SlotsNext ==
    ASSUME IInv, [Next]_vars
    PROVE  SlotsMove
<1>1. CASE UNCHANGED vars
  BY <1>1, SlotsStutter DEF vars
<1>2. ASSUME NEW r \in Requests, Request(r) PROVE SlotsMove
  <2>1. CASE GetNew(r) \/ GetFree(r) \/ Leave(r)
    BY <2>1, GetNewSlots, GetFreeSlots, LeaveSlots
  <2>2. CASE ~(GetNew(r) \/ GetFree(r) \/ Leave(r))
    <3>1. UNCHANGED <<slots, inUse>>
      BY <1>2, <2>2 DEF Request, Get, AcquireSession, ReleaseSession, GetUnmanaged, Authenticate,
           Reject, Reconnect, Disconnect, Acquire, AcquireFails, Prepare, PrepareFails, Handle,
           HandlePanics, Release, Keep
    <3>2. QED
      BY <3>1, SlotsStutter
  <2>3. QED
    BY <2>1, <2>2
<1>3. CASE Watch
  <2>1. CASE WatchDelete
    BY <2>1, WatchDeleteSlots
  <2>2. CASE ~WatchDelete
    <3>1. UNCHANGED <<slots, inUse>>
      BY <1>3, <2>2 DEF Watch, WatchStart, WatchList, WatchSkip, WatchDecide, WatchRelease,
           WatchDetach, WatchEnd
    <3>2. QED
      BY <3>1, SlotsStutter
  <2>3. QED
    BY <2>1, <2>2
<1>4. CASE Environment
  <2>1. UNCHANGED <<slots, inUse>>
    BY <1>4 DEF Environment, Tick, ConnDies, PoolDrops
  <2>2. QED
    BY <2>1, SlotsStutter
<1>5. QED
  BY <1>1, <1>2, <1>3, <1>4 DEF Next

\* However requests and the watcher interleave, the list of every key changes only
\* by the operations of SessionQueue (sessions.go:200-247, 134-142), one key at a
\* time: what is proved of one slot holds of each list of the manager.
THEOREM SlotsSpecCorrect == Spec => SlotsSpec
<1>1. Init => \A k \in Keys : Slot(k)!Init
  <2> SUFFICES ASSUME Init, NEW k \in Keys PROVE Slot(k)!Init
    OBVIOUS
  <2>1. slots[k] = <<>> /\ inUse = {}
    BY DEF Init
  <2>2. QED
    BY <2>1 DEF Slot!Init
<1>2. IInv /\ [Next]_vars => [\A k \in Keys : Slot(k)!Next \/ UNCHANGED Slot(k)!vars]_vars
  BY SlotsNext DEF SlotsMove, SlotMoves
<1>3. QED
  BY <1>1, <1>2, Inductive, PTL DEF Spec, SlotsSpec
-----------------------------------------------------------------------------
(* What a handler may rely on of its connection: the transaction and the   *)
(* role (conn.go:30-60).  The connection has been used by others, in the   *)
(* pool or in the session, and what they left is what PrepareConnection    *)
(* finds.                                                                  *)

\* The connection has the role of the key, unless handlers roll back.
RoleHeld(c, k) ==
    "nested rollback" \notin Events /\ RoleOf(k) # NoRole => c.role = RoleOf(k)

\* The connection is as the next request of the key needs it.
Ready(c, k) == ~c.tx /\ RoleHeld(c, k)

\* What request q may rely on of its connection c, by its place in the code.
Prepared(q, c) ==
    /\ q.pc \in {"authenticate", "connect", "leave"} => Ready(c, q.key)
    /\ q.pc = "prepare" => ~c.tx /\ (~q.newAcquire => RoleHeld(c, q.key))
    /\ q.pc = "handle" => c.tx = (config.tx # "none") /\ RoleHeld(c, q.key)
    /\ q.pc = "release" => RoleHeld(c, q.key)

PoolClean == \A c \in Conns : conn[c].st = "idle" => ~conn[c].tx

KeptReady ==
    config.sessions =>
        \A k \in Keys : \A s \in Members(slots[k]) :
            s \notin inUse /\ own[s] # NoConn => Ready(conn[own[s]], k)

AllPrepared ==
    \A r \in Requests : ~At(r, "idle") /\ OwnOf(r) # NoConn => Prepared(req[r], conn[OwnOf(r)])

Clean == PoolClean /\ KeptReady /\ AllPrepared
-----------------------------------------------------------------------------
(* Frames: what a step has to show of what it changes.                     *)

\* The session of a request under way is an object that no other request has.
LEMMA MineLemma ==
    ASSUME IInv, NEW r \in Requests, ~At(r, "idle")
    PROVE  /\ Mine(r) \in SessionIds /\ Mine(r) # NoSession
           /\ OwnOf(r) \in Conns \cup {NoConn} /\ OwnOf(r) = ConnOf(r)
           /\ \A r2 \in Requests : r2 # r => Mine(r2) # Mine(r)
           /\ config.sessions => Mine(r) \in inUse
BY OwnMine, OwnLemma DEF IInv, TypeOK, Owned, Mine, OwnOf, At

\* A session of a list is an object.
LEMMA ListedLemma ==
    ASSUME IInv, NEW k \in Keys, NEW s \in Members(slots[k])
    PROVE  s \in SessionIds /\ own[s] \in Conns \cup {NoConn}
BY OwnLemma DEF IInv, TypeOK, Members

\* The last two parts, with their primes where a step's facts have them.
LEMMA Primes ==
    ASSUME UNCHANGED config
    PROVE  /\ (\A r \in Requests : ~At(r, "idle")' /\ OwnOf(r)' # NoConn =>
                  Prepared(req'[r], conn'[OwnOf(r)'])) => AllPrepared'
           /\ (config.sessions =>
                 \A k \in Keys : \A s \in Members(slots'[k]) :
                   s \notin inUse' /\ own'[s] # NoConn => Ready(conn'[own'[s]], k))
                => KeptReady'
BY DEF AllPrepared, Prepared, KeptReady, Ready, RoleHeld, RoleOf

\* The connections stay as they are and where they are.
LEMMA SameConns ==
    ASSUME IInv, Clean, UNCHANGED <<config, own, conn>>,
           config.sessions =>
             \A k \in Keys : \A s \in Members(slots'[k]) :
               s \notin inUse' /\ own[s] # NoConn =>
                 (s \in Members(slots[k]) /\ s \notin inUse) \/ Ready(conn[own[s]], k),
           \A r \in Requests :
             req'[r] = req[r] \/ req'[r].pc = "idle" \/ own[req'[r].session] = NoConn
               \/ Prepared(req'[r], conn[own[req'[r].session]])
    PROVE  Clean'
<1>1. PoolClean'
  BY DEF Clean, PoolClean
<1>2. KeptReady'
  BY DEF Clean, KeptReady, Ready, RoleHeld, RoleOf
<1>3. AllPrepared'
  <2> SUFFICES ASSUME NEW r \in Requests, ~At(r, "idle")', OwnOf(r)' # NoConn
               PROVE  Prepared(req[r], conn[OwnOf(r)])'
    BY DEF AllPrepared
  <2>1. conn' = conn /\ own' = own /\ config' = config
    OBVIOUS
  <2>3. CASE req'[r] = req[r]
    <3>1. Prepared(req[r], conn[OwnOf(r)])
      BY <2>1, <2>3 DEF Clean, AllPrepared, At, OwnOf, Mine
    <3>2. QED
      BY <2>1, <2>3, <3>1 DEF Prepared, Ready, RoleHeld, RoleOf, OwnOf, Mine
  <2>4. CASE Prepared(req'[r], conn[own[req'[r].session]])
    BY <2>1, <2>4 DEF Prepared, Ready, RoleHeld, RoleOf, OwnOf, Mine
  <2>5. QED
    BY <2>1, <2>3, <2>4 DEF At, OwnOf, Mine
<1>4. QED
  BY <1>1, <1>2, <1>3 DEF Clean

\* A request changes its own connection and nothing of the others.
LEMMA OwnConn ==
    ASSUME IInv, Clean, NEW r \in Requests, Working(r),
           UNCHANGED <<config, slots, inUse, own>>,
           NEW d, d.st = "out", conn' = [conn EXCEPT ![OwnOf(r)] = d],
           \A r2 \in Requests : r2 # r => req'[r2] = req[r2],
           req'[r].pc = "idle" \/ (req'[r].session = req[r].session /\ Prepared(req'[r], d))
    PROVE  Clean'
<1> DEFINE s == Mine(r)
           c == OwnOf(r)
<1>1. /\ c \in Conns /\ c = ConnOf(r) /\ s \in SessionIds /\ c = own[s]
      /\ \A r2 \in Requests : r2 # r => Mine(r2) # s
      /\ config.sessions => s \in inUse
  BY MineLemma, WorkingConn, OwnMine DEF Working, At, OwnOf
<1> HIDE DEF s, c
<1>2. conn'[c] = d /\ \A b \in Conns : b # c => conn'[b] = conn[b]
  BY <1>1 DEF IInv, TypeOK, c
<1>3. \A t \in SessionIds : t # s /\ own[t] # NoConn => own[t] # c /\ own[t] \in Conns
  BY <1>1, OwnLemma, ConstantsAssumption DEF IInv, Attached
<1>4. PoolClean'
  BY <1>2 DEF Clean, PoolClean
<1>5. KeptReady'
  <2> SUFFICES ASSUME config.sessions, NEW k \in Keys, NEW t \in Members(slots[k]),
                      t \notin inUse, own[t] # NoConn
               PROVE  Ready(conn'[own[t]], k)
    BY Primes
  <2>1. conn'[own[t]] = conn[own[t]]
    BY <1>1, <1>2, <1>3, ListedLemma
  <2>2. QED
    BY <2>1 DEF Clean, KeptReady
<1>6. AllPrepared'
  <2> SUFFICES ASSUME NEW r2 \in Requests, ~At(r2, "idle")', OwnOf(r2)' # NoConn
               PROVE  Prepared(req'[r2], conn'[OwnOf(r2)'])
    BY Primes
  <2>1. CASE r2 = r
    BY <2>1, <1>2 DEF At, OwnOf, Mine, c
  <2>2. CASE r2 # r
    <3>1. req'[r2] = req[r2] /\ ~At(r2, "idle") /\ OwnOf(r2)' = OwnOf(r2) /\ OwnOf(r2) # NoConn
      BY <2>2 DEF At, OwnOf, Mine
    <3>2. conn'[OwnOf(r2)] = conn[OwnOf(r2)]
      BY <1>1, <1>2, <1>3, <2>2, <3>1, MineLemma DEF OwnOf, s
    <3>3. QED
      BY <3>1, <3>2 DEF Clean, AllPrepared
  <2>3. QED
    BY <2>1, <2>2
<1>7. QED
  BY <1>4, <1>5, <1>6 DEF Clean

\* A session gives up its connection, if it has one, which the pool takes.
LEMMA GivenBack ==
    ASSUME IInv, Clean, NEW s \in SessionIds,
           UNCHANGED <<config, slots, inUse>>, own' = [own EXCEPT ![s] = NoConn],
           \A c \in Conns : c # own[s] => conn'[c] = conn[c],
           own[s] \in Conns => (conn'[own[s]].st = "idle" => ~conn'[own[s]].tx),
           \A r \in Requests : req'[r] = req[r] \/ req'[r].session = s
    PROVE  Clean'
<1>1. /\ own'[s] = NoConn
      /\ \A t \in SessionIds : t # s => own'[t] = own[t]
  BY OwnLemma
<1>2. \A t \in SessionIds : t # s /\ own[t] # NoConn => conn'[own[t]] = conn[own[t]]
  BY OwnLemma DEF IInv, Attached
<1>3. PoolClean'
  BY DEF Clean, PoolClean
<1>4. KeptReady'
  <2> SUFFICES ASSUME config.sessions, NEW k \in Keys, NEW t \in Members(slots[k]),
                      t \notin inUse, own'[t] # NoConn
               PROVE  Ready(conn'[own'[t]], k)
    BY Primes
  <2>1. t \in SessionIds /\ t # s
    BY <1>1, ListedLemma
  <2>2. own'[t] = own[t] /\ conn'[own[t]] = conn[own[t]]
    BY <1>1, <1>2, <2>1
  <2>3. QED
    BY <2>2 DEF Clean, KeptReady
<1>5. AllPrepared'
  <2> SUFFICES ASSUME NEW r \in Requests, ~At(r, "idle")', OwnOf(r)' # NoConn
               PROVE  Prepared(req'[r], conn'[OwnOf(r)'])
    BY Primes
  <2>1. req'[r] = req[r] /\ Mine(r) # s
    BY <1>1 DEF OwnOf, Mine
  <2>2. ~At(r, "idle") /\ Mine(r) \in SessionIds
    BY <2>1, MineLemma DEF At
  <2>3. OwnOf(r)' = OwnOf(r) /\ conn'[OwnOf(r)] = conn[OwnOf(r)] /\ OwnOf(r) # NoConn
    BY <1>1, <1>2, <2>1, <2>2 DEF OwnOf, Mine
  <2>4. QED
    BY <2>1, <2>2, <2>3 DEF Clean, AllPrepared
<1>6. QED
  BY <1>3, <1>4, <1>5 DEF Clean
-----------------------------------------------------------------------------
(* The steps of a request.                                                 *)

\* getSession: a new session has no connection, a free one has a ready one.
LEMMA GetClean ==
    ASSUME IInv, Clean, NEW r \in Requests, Get(r)
    PROVE  Clean'
<1>1. UNCHANGED <<config, own, conn>> /\ inUse \subseteq inUse'
  BY RequestOwn DEF Get, GetUnmanaged, GetNew, GetFree, NewSession
<1>2. CASE GetUnmanaged(r)
  <2>1. PICK k \in Keys, s \in Unused : Begin(r, "authenticate", k, s)
    BY <1>2 DEF GetUnmanaged
  <2>2. \A r2 \in Requests : req'[r2] = req[r2] \/ own[req'[r2].session] = NoConn
    BY <2>1, OwnLemma DEF Begin, Unused, IInv, TypeOK
  <2>3. ~config.sessions
    BY <1>2 DEF GetUnmanaged
  <2>4. QED
    BY <1>1, <2>2, <2>3, SameConns
<1>3. CASE GetNew(r)
  <2>1. PICK k \in Keys, s \in Unused :
          /\ slots[k] # <<>> => slots[k][1] \in inUse
          /\ NewSession(k, s) /\ Begin(r, "authenticate", k, s)
    BY <1>3 DEF GetNew
  <2>2. own[s] = NoConn /\ s \in SessionIds
    BY <2>1, OwnLemma DEF Unused
  <2>3. \A r2 \in Requests : req'[r2] = req[r2] \/ own[req'[r2].session] = NoConn
    BY <2>1, <2>2 DEF Begin, IInv, TypeOK
  <2>4. \A j \in Keys : Members(slots'[j]) \subseteq Members(slots[j]) \cup {s}
    <3>1. slots[k] \in Seq(SessionIds) /\ slots' = [slots EXCEPT ![k] = Append(slots[k], s)]
      BY <2>1 DEF NewSession, IInv, TypeOK
    <3> DEFINE l == slots[k]
    <3>2. l \in Seq(SessionIds) /\ FreePrefix(l, inUse) /\ (l # <<>> => l[1] \in inUse)
      BY <1>3, <2>1, <3>1 DEF IInv, Lists, FreeFirst
    <3> HIDE DEF l
    <3>3. Members(Append(l, s)) = Members(l) \cup {s}
      <4>1. /\ Append(l, s) \in Seq(SessionIds)
            /\ Members(Append(l, s)) = Members(l) \cup {s}
            /\ Injective(l) /\ s \notin Members(l) => Injective(Append(l, s))
            /\ (FreePrefix(l, inUse) /\ (l # <<>> => l[1] \in inUse))
                 => FreePrefix(Append(l, s), inUse \cup {s})
        BY <2>2, <3>2, AppendLemma
      <4>2. QED
        BY <4>1
    <3>4. Members(slots'[k]) = Members(slots[k]) \cup {s}
      BY <3>1, <3>3 DEF IInv, TypeOK, l
    <3>5. \A j \in Keys : j # k => slots'[j] = slots[j]
      BY <3>1 DEF IInv, TypeOK
    <3>6. QED
      BY <3>4, <3>5
  <2>5. QED
    BY <1>1, <2>2, <2>3, <2>4, SameConns
<1>4. CASE GetFree(r)
  <2>1. PICK k \in Keys :
          /\ slots[k] # <<>> /\ slots[k][1] \notin inUse
          /\ slots' = [slots EXCEPT ![k] = FrontToBack(slots[k])]
          /\ Begin(r, "connect", k, slots[k][1])
    BY <1>4 DEF GetFree, HeadToBack
  <2>2. slots[k] \in Seq(SessionIds) /\ slots[k][1] \in Members(slots[k])
    BY <2>1 DEF IInv, TypeOK, Members
  <2>3. \A j \in Keys : Members(slots'[j]) = Members(slots[j])
    BY <2>1, <2>2, FrontToBackLemma DEF IInv, TypeOK
  <2>4. config.sessions
    BY <1>4 DEF GetFree
  <2>5. own[slots[k][1]] # NoConn => Ready(conn[own[slots[k][1]]], k)
    BY <2>1, <2>2, <2>4 DEF Clean, KeptReady
  <2>6. \A r2 \in Requests :
          req'[r2] = req[r2] \/ own[req'[r2].session] = NoConn
            \/ Prepared(req'[r2], conn[own[req'[r2].session]])
    <3>1. /\ req'[r].pc = "connect" /\ req'[r].key = k /\ req'[r].session = slots[k][1]
          /\ \A r2 \in Requests : r2 # r => req'[r2] = req[r2]
      BY <2>1 DEF Begin, IInv, TypeOK
    <3>2. \/ own[req'[r].session] = NoConn
          \/ Prepared(req'[r], conn[own[req'[r].session]])
      BY <2>5, <3>1 DEF Prepared
    <3>3. QED
      BY <3>1, <3>2
  <2>7. QED
    BY <1>1, <2>3, <2>6, SameConns
<1>5. QED
  BY <1>2, <1>3, <1>4 DEF Get

\* The steps that move on with the connection as it is, or end.
LEMMA MoveClean ==
    ASSUME IInv, Clean, NEW r \in Requests,
           \/ Authenticate(r) \/ Reconnect(r) \/ Keep(r)
           \/ Reject(r) \/ AcquireFails(r) \/ HandlePanics(r)
    PROVE  Clean'
<1>1. UNCHANGED <<config, slots, inUse, own, conn>>
  BY RequestOwn DEF Authenticate, Reconnect, Keep, Reject, AcquireFails, HandlePanics
<1>2. \A r2 \in Requests : r2 # r => req'[r2] = req[r2]
  BY DEF Authenticate, Reconnect, Keep, Reject, AcquireFails, HandlePanics, Goto, Finish,
         IInv, TypeOK
<1>3. req'[r].pc = "idle" \/ OwnOf(r) = NoConn \/ Prepared(req'[r], conn[OwnOf(r)])
  <2>1. CASE Reject(r) \/ AcquireFails(r) \/ HandlePanics(r)
    <3>1. Finish(r)
      BY <2>1 DEF Reject, AcquireFails, HandlePanics
    <3>2. req'[r].pc = "idle"
      BY <3>1 DEF Finish, Idle, IInv, TypeOK
    <3>3. QED
      BY <3>2
  <2>2. CASE Authenticate(r) \/ Reconnect(r) \/ Keep(r)
    <3>1. ~At(r, "idle")
      BY <2>2 DEF Authenticate, Reconnect, Keep, At
    <3>2. OwnOf(r) # NoConn => Prepared(req[r], conn[OwnOf(r)])
      BY <3>1 DEF Clean, AllPrepared
    <3>3. CASE Authenticate(r)
      <4>1. req[r].pc = "authenticate" /\ req'[r].pc = "connect" /\ req'[r].key = req[r].key
        BY <3>3 DEF Authenticate, At, Goto, IInv, TypeOK
      <4>2. QED
        BY <3>2, <4>1 DEF Prepared
    <3>4. CASE Reconnect(r)
      <4>1. req[r].pc = "connect" /\ req'[r].pc = "prepare" /\ req'[r].key = req[r].key
        BY <3>4 DEF Reconnect, At, Goto, IInv, TypeOK
      <4>2. QED
        BY <3>2, <4>1 DEF Prepared, Ready
    <3>5. CASE Keep(r)
      <4>1. /\ req[r].pc = "release" /\ req'[r].pc = "leave" /\ req'[r].key = req[r].key
            /\ ~conn[OwnOf(r)].tx
        BY <3>1, <3>5, OwnMine DEF Keep, At, Goto, IInv, TypeOK, ReleasesConn, HasTX
      <4>2. QED
        BY <3>2, <4>1 DEF Prepared, Ready
    <3>6. QED
      BY <2>2, <3>3, <3>4, <3>5
  <2>3. QED
    BY <2>1, <2>2
<1>4. req'[r].pc = "idle" \/ req'[r].session = req[r].session
  <2>1. Finish(r) \/ \E label \in {"connect", "prepare", "leave"} : Goto(r, label)
    BY DEF Authenticate, Reconnect, Keep, Reject, AcquireFails, HandlePanics
  <2>2. QED
    BY <2>1 DEF Goto, Finish, Idle, IInv, TypeOK
<1>5. \A r2 \in Requests :
        req'[r2] = req[r2] \/ req'[r2].pc = "idle" \/ own[req'[r2].session] = NoConn
          \/ Prepared(req'[r2], conn[own[req'[r2].session]])
  BY <1>2, <1>3, <1>4 DEF OwnOf, Mine
<1>6. QED
  BY <1>1, <1>5, SameConns

\* leaveSession: the session becomes free with a connection that is ready.
LEMMA LeaveClean ==
    ASSUME IInv, Clean, ListTypes', Lists', Kept, NEW r \in Requests, Leave(r)
    PROVE  Clean'
<1>1. UNCHANGED <<config, own, conn>>
  BY RequestOwn DEF Leave
<1>2. \A r2 \in Requests : req'[r2] = req[r2] \/ req'[r2].pc = "idle"
  BY DEF Leave, Finish, Idle, IInv, TypeOK
<1>3. ASSUME config.sessions, NEW k \in Keys, NEW s \in Members(slots'[k]),
             s \notin inUse', own[s] # NoConn
      PROVE  (s \in Members(slots[k]) /\ s \notin inUse) \/ Ready(conn[own[s]], k)
  <2> DEFINE j == req[r].key
  <2>1. /\ j \in Keys /\ Mine(r) \in Members(slots[j]) /\ Mine(r) \in inUse
        /\ slots' = [slots EXCEPT ![j] = ToFront(slots[j], Mine(r))]
        /\ inUse' = inUse \ {Mine(r)}
    BY <1>3 DEF Leave, ComesFirst, IInv, Owned, At
  <2>2. Members(slots'[k]) = Members(slots[k])
    BY <2>1, ToFrontLemma DEF IInv, TypeOK
  <2>3. CASE s # Mine(r)
    BY <1>3, <2>1, <2>2, <2>3
  <2>4. CASE s = Mine(r)
    <3>1. k = j
      BY <1>3, <2>1, <2>2, <2>4 DEF IInv, Lists
    <3>2. Prepared(req[r], conn[own[s]]) /\ req[r].pc = "leave"
      BY <1>3, <2>4 DEF Leave, At, Clean, AllPrepared, OwnOf
    <3>3. QED
      BY <3>1, <3>2 DEF Prepared
  <2>5. QED
    BY <2>3, <2>4
<1>4. QED
  BY <1>1, <1>2, <1>3, SameConns

\* acquireSession: a closed connection goes back to the pool, which destroys it.
LEMMA DisconnectClean ==
    ASSUME IInv, Clean, NEW r \in Requests, Disconnect(r)
    PROVE  Clean'
<1> DEFINE s == Mine(r)
<1>1. /\ s \in SessionIds /\ ~At(r, "idle")
      /\ own' = [own EXCEPT ![s] = NoConn]
      /\ UNCHANGED <<config, slots, inUse>>
  BY MineLemma, RequestOwn DEF Disconnect, Detached, At
<1>2. \A c \in Conns : c # own[s] => conn'[c] = conn[c]
  BY <1>1, OwnMine DEF Disconnect, OwnOf
<1>3. own[s] \in Conns => (conn'[own[s]].st = "idle" => ~conn'[own[s]].tx)
  BY <1>1, OwnMine, ConnLemma DEF Disconnect, OwnOf, IInv, TypeOK
<1>4. \A r2 \in Requests : req'[r2] = req[r2] \/ req'[r2].session = s
  BY DEF Disconnect, Goto, Mine, IInv, TypeOK
<1> HIDE DEF s
<1>5. QED
  BY <1>1, <1>2, <1>3, <1>4, GivenBack

\* releaseSession gives the connection back: the pool keeps none in a transaction.
LEMMA ReleaseClean ==
    ASSUME IInv, Clean, NEW r \in Requests, Release(r)
    PROVE  Clean'
<1> DEFINE s == Mine(r)
<1>1. /\ s \in SessionIds /\ ~At(r, "idle")
      /\ own' = [own EXCEPT ![s] = NoConn]
      /\ UNCHANGED <<config, slots, inUse>>
  BY MineLemma, RequestOwn DEF Release, Detached, At
<1>2. PICK d \in ReleaseConnection(conn[own[s]], req[r].status, ~config.sessions,
                                   "cancel" \in Events) :
             conn' = [conn EXCEPT ![own[s]] = d]
  BY <1>1, OwnMine DEF Release, OwnOf
<1>3. \A c \in Conns : c # own[s] => conn'[c] = conn[c]
  BY <1>2
<1>4. own[s] \in Conns => (conn'[own[s]].st = "idle" => ~conn'[own[s]].tx)
  BY <1>2, ReleaseConnectionLemma DEF IInv, TypeOK
<1>5. \A r2 \in Requests : req'[r2] = req[r2] \/ req'[r2].session = s
  BY DEF Release, Goto, Mine, IInv, TypeOK
<1> HIDE DEF s
<1>6. QED
  BY <1>1, <1>3, <1>4, <1>5, GivenBack

\* AcquireConnection: what the pool gives out is in no transaction.
LEMMA AcquireClean ==
    ASSUME IInv, Clean, NEW r \in Requests, Acquire(r)
    PROVE  Clean'
<1> DEFINE s == Mine(r)
<1>1. PICK c \in Conns :
        /\ conn[c].st # "out"
        /\ conn' = [conn EXCEPT ![c] = IF conn[c].st = "idle" THEN [conn[c] EXCEPT !.st = "out"]
                                       ELSE Connected]
        /\ own' = [own EXCEPT ![s] = c]
  BY RequestOwn DEF Acquire, At
<1>2. /\ s \in SessionIds /\ ~At(r, "idle")
      /\ \A r2 \in Requests : r2 # r => Mine(r2) # s
      /\ config.sessions => s \in inUse
      /\ UNCHANGED <<config, slots, inUse>>
  BY MineLemma DEF Acquire, At
<1>3. /\ own'[s] = c
      /\ \A t \in SessionIds : t # s => own'[t] = own[t]
  BY <1>1, <1>2, OwnLemma
<1>4. conn'[c].st = "out" /\ ~conn'[c].tx
  <2>1. CASE conn[c].st = "idle"
    <3>1. conn'[c] = [conn[c] EXCEPT !.st = "out"] /\ conn[c] \in ConnState /\ ~conn[c].tx
      BY <1>1, <2>1 DEF IInv, TypeOK, Clean, PoolClean
    <3>2. QED
      BY <3>1 DEF ConnState
  <2>2. CASE conn[c].st # "idle"
    BY <1>1, <2>2 DEF IInv, TypeOK, Connected, Absent
  <2>3. QED
    BY <2>1, <2>2
<1>5. \A b \in Conns : b # c => conn'[b] = conn[b]
  BY <1>1
<1>6. \A t \in SessionIds : own[t] # NoConn => conn'[own[t]] = conn[own[t]]
  BY <1>1, <1>5, OwnLemma DEF IInv, Attached
<1>7. /\ req'[r].pc = "prepare" /\ req'[r].newAcquire
      /\ \A r2 \in Requests : r2 # r => req'[r2] = req[r2]
      /\ req'[r].session = s
  BY DEF Acquire, Acquired, Mine, IInv, TypeOK
<1> HIDE DEF s
<1>8. PoolClean'
  BY <1>4, <1>5 DEF Clean, PoolClean
<1>9. KeptReady'
  <2> SUFFICES ASSUME config.sessions, NEW k \in Keys, NEW t \in Members(slots[k]),
                      t \notin inUse, own'[t] # NoConn
               PROVE  Ready(conn'[own'[t]], k)
    BY <1>2, Primes
  <2>1. t \in SessionIds /\ t # s
    BY <1>2, ListedLemma
  <2>2. own'[t] = own[t] /\ conn'[own[t]] = conn[own[t]]
    BY <1>3, <1>6, <2>1
  <2>3. QED
    BY <2>2 DEF Clean, KeptReady
<1>10. AllPrepared'
  <2> SUFFICES ASSUME NEW r2 \in Requests, ~At(r2, "idle")', OwnOf(r2)' # NoConn
               PROVE  Prepared(req'[r2], conn'[OwnOf(r2)'])
    BY <1>2, Primes
  <2>1. CASE r2 = r
    BY <2>1, <1>3, <1>4, <1>7 DEF Prepared, OwnOf, Mine
  <2>2. CASE r2 # r
    <3>1. ~At(r2, "idle") /\ Mine(r2) \in SessionIds /\ Mine(r2) # s
      BY <1>2, <1>7, <2>2, MineLemma DEF At
    <3>2. OwnOf(r2)' = OwnOf(r2) /\ conn'[OwnOf(r2)] = conn[OwnOf(r2)] /\ OwnOf(r2) # NoConn
      BY <1>3, <1>6, <1>7, <2>2, <3>1 DEF OwnOf, Mine
    <3>3. QED
      BY <1>7, <2>2, <3>1, <3>2 DEF Clean, AllPrepared
  <2>3. QED
    BY <2>1, <2>2
<1>11. QED
  BY <1>8, <1>9, <1>10 DEF Clean

\* What statements do to transaction and role; only ROLLBACK takes a role back.
LEMMA StatementLemma ==
    ASSUME NEW c \in ConnState
    PROVE  /\ Closed(c).tx = c.tx /\ Closed(c).role = c.role
           /\ Begun(c).tx = TRUE /\ Begun(c).role = c.role
           /\ Committed(c).tx = FALSE /\ Committed(c).role = c.role
BY DEF ConnState, Closed, Begun, Committed

\* PrepareConnection opens a transaction if the mode asks for one, and binds the
\* role unless the connection has it already.
LEMMA PrepareClean ==
    ASSUME IInv, Clean, NEW r \in Requests, Prepare(r)
    PROVE  Clean'
<1> DEFINE c == conn[OwnOf(r)]
           o == Opened(c)
           d == Bound(r, o)
<1>1. Working(r) /\ c \in ConnState /\ c.st = "out" /\ ~c.tx
      /\ (~req[r].newAcquire => RoleHeld(c, req[r].key))
  <2>1. At(r, "prepare") /\ Working(r)
    BY DEF Prepare, At, Working
  <2>2. ~At(r, "idle") /\ OwnOf(r) # NoConn /\ c \in ConnState /\ c.st = "out"
    BY <2>1, WorkingConn, MineLemma, ConstantsAssumption DEF At, IInv, Attached, OwnOf
  <2>3. Prepared(req[r], c)
    BY <2>2 DEF Clean, AllPrepared
  <2>4. QED
    BY <2>1, <2>2, <2>3 DEF Prepared, At
<1>2. o \in ConnState /\ o.st = "out" /\ o.role = c.role /\ o.tx = (config.tx # "none")
  BY <1>1, BoundLemma, StatementLemma DEF Opened, BeginsTX, ConnState
<1>3. d.st = "out"
  BY <1>1, BoundLemma
<1> HIDE DEF o, c
<1>4. d.tx = (config.tx # "none")
  BY <1>2 DEF Bound, ConnState
<1>5. RoleHeld(d, req[r].key)
  <2>1. CASE SetsRole(r)
    BY <1>2, <2>1 DEF Bound, ConnState, RoleHeld
  <2>2. CASE ~SetsRole(r)
    BY <1>1, <1>2, <2>2 DEF Bound, SetsRole, RoleHeld
  <2>3. QED
    BY <2>1, <2>2
<1> HIDE DEF d
<1>6. conn' = [conn EXCEPT ![OwnOf(r)] = d] /\ UNCHANGED <<config, slots, inUse, own>>
  BY <1>1, RequestOwn, OwnMine DEF Prepare, d, o, c, Working, At
<1>7. /\ req'[r].pc = "handle" /\ req'[r].session = req[r].session /\ req'[r].key = req[r].key
      /\ \A r2 \in Requests : r2 # r => req'[r2] = req[r2]
  BY DEF Prepare, Goto, IInv, TypeOK
<1>8. Prepared(req'[r], d)
  BY <1>4, <1>5, <1>7 DEF Prepared
<1>9. QED
  BY <1>1, <1>3, <1>6, <1>7, <1>8, OwnConn

\* A failed PrepareConnection leaves its connection to a session nobody gets.
LEMMA PrepareFailsClean ==
    ASSUME IInv, Clean, NEW r \in Requests, PrepareFails(r)
    PROVE  Clean'
<1> DEFINE c == conn[OwnOf(r)]
<1>1. Working(r) /\ c \in ConnState /\ c.st = "out"
  <2>1. At(r, "prepare") /\ Working(r)
    BY DEF PrepareFails, At, Working
  <2>2. QED
    BY <2>1, WorkingConn, MineLemma, ConstantsAssumption DEF At, IInv, Attached, OwnOf
<1>2. PICK d \in {Closed(c), Opened(c), Bound(r, Opened(c)), c} :
             conn' = [conn EXCEPT ![OwnOf(r)] = d]
  BY OwnMine DEF PrepareFails, At
<1>3. d.st = "out"
  BY <1>1, ConnLemma, BoundLemma
<1> HIDE DEF c
<1>4. UNCHANGED <<config, slots, inUse, own>> /\ Finish(r)
  BY RequestOwn DEF PrepareFails
<1>5. req'[r].pc = "idle" /\ \A r2 \in Requests : r2 # r => req'[r2] = req[r2]
  BY <1>4 DEF Finish, Idle, IInv, TypeOK
<1>6. QED
  BY <1>1, <1>2, <1>3, <1>4, <1>5, OwnConn

\* Only a handler that rolls back may leave another role.
LEMMA HandledRole ==
    ASSUME NEW c \in ConnState, NEW h \in Handled(c)
    PROVE  "nested rollback" \in Events \/ h[2].role = c.role
<1> SUFFICES ASSUME "nested rollback" \notin Events PROVE h[2].role = c.role
  OBVIOUS
<1>1. \E a \in {"ok", "error"}, b \in {c, Closed(c), Committed(c), Begun(c)} : h = <<a, b>>
  <2>1. CASE c.live # "open"
    <3>1. h = <<"ok", c>> \/ h = <<"error", Closed(c)>>
      BY <2>1 DEF Handled
    <3>2. QED
      BY <3>1
  <2>2. CASE c.live = "open"
    <3>1. \/ h = <<"ok", c>> \/ h = <<"error", c>>
          \/ h = <<"ok", Committed(c)>> \/ h = <<"error", Committed(c)>>
          \/ h = <<"error", Begun(c)>>
      BY <2>2 DEF Handled
    <3>2. QED
      BY <3>1
  <2>3. QED
    BY <2>1, <2>2
<1>2. PICK a \in {"ok", "error"}, b \in {c, Closed(c), Committed(c), Begun(c)} : h = <<a, b>>
  BY <1>1
<1>3. QED
  BY <1>2, StatementLemma

\* A handler keeps the role, unless it rolls back.
LEMMA HandleClean ==
    ASSUME IInv, Clean, NEW r \in Requests, Handle(r)
    PROVE  Clean'
<1> DEFINE c == conn[OwnOf(r)]
<1>1. Working(r) /\ c \in ConnState /\ c.st = "out" /\ RoleHeld(c, req[r].key)
  <2>1. At(r, "handle") /\ Working(r)
    BY DEF Handle, At, Working
  <2>2. ~At(r, "idle") /\ OwnOf(r) # NoConn /\ c \in ConnState /\ c.st = "out"
    BY <2>1, WorkingConn, MineLemma, ConstantsAssumption DEF At, IInv, Attached, OwnOf
  <2>3. Prepared(req[r], c)
    BY <2>2 DEF Clean, AllPrepared
  <2>4. QED
    BY <2>1, <2>2, <2>3 DEF Prepared, At
<1>2. PICK h \in Handled(c) : /\ conn' = [conn EXCEPT ![OwnOf(r)] = h[2]]
                              /\ req' = [req EXCEPT ![r].pc = "release", ![r].status = h[1]]
  BY OwnMine DEF Handle, At
<1> DEFINE d == h[2]
<1>3. d.st = "out"
  BY <1>1, HandledLemma
<1>4. RoleHeld(d, req[r].key)
  <2>1. "nested rollback" \in Events \/ d.role = c.role
    BY <1>1, HandledRole
  <2>2. QED
    BY <1>1, <2>1 DEF RoleHeld
<1> HIDE DEF c, d
<1>5. conn' = [conn EXCEPT ![OwnOf(r)] = d] /\ UNCHANGED <<config, slots, inUse, own>>
  BY <1>2, RequestOwn DEF Handle, d
<1>6. /\ req'[r].pc = "release" /\ req'[r].session = req[r].session /\ req'[r].key = req[r].key
      /\ \A r2 \in Requests : r2 # r => req'[r2] = req[r2]
  BY <1>2 DEF IInv, TypeOK
<1>7. Prepared(req'[r], d)
  BY <1>4, <1>6 DEF Prepared
<1>8. QED
  BY <1>1, <1>3, <1>5, <1>6, <1>7, OwnConn

\* Every step of a request leaves the connections as the next one needs them.
LEMMA RequestClean ==
    ASSUME IInv, Clean, ListTypes', Lists', Kept, NEW r \in Requests, Request(r)
    PROVE  Clean'
BY GetClean, MoveClean, LeaveClean, DisconnectClean, ReleaseClean, AcquireClean, PrepareClean,
   PrepareFailsClean, HandleClean DEF Request, AcquireSession, ReleaseSession
-----------------------------------------------------------------------------
(* The watcher and the environment.                                        *)

\* The watcher gives connections back, and deletes sessions without one.
LEMMA WatchClean ==
    ASSUME IInv, Clean, Watch
    PROVE  Clean'
<1>1. CASE ~WatchRelease /\ ~WatchDelete
  <2>1. UNCHANGED <<config, slots, inUse, own, conn, req>>
    BY <1>1, WatchOwn DEF Watch, WatchStart, WatchList, WatchSkip, WatchDecide, WatchDetach, WatchEnd
  <2>2. QED
    BY <2>1, SameConns
<1>2. CASE WatchDelete
  <2> DEFINE s == Head(watcher.rest)
  <2>1. /\ slots' = [k \in Keys |-> IF s \in Members(slots[k]) THEN Without(slots[k], s)
                                    ELSE slots[k]]
        /\ UNCHANGED <<config, inUse, own, conn, req>>
    BY <1>2, WatchOwn DEF WatchDelete, WatchRelease, Doing
  <2> HIDE DEF s
  <2>2. ASSUME NEW k \in Keys PROVE Members(slots'[k]) \subseteq Members(slots[k])
    <3>1. CASE s \in Members(slots[k])
      <4> DEFINE l == slots[k]
      <4>1. l \in Seq(SessionIds) /\ Injective(l) /\ FreePrefix(l, inUse) /\ s \in Members(l)
        BY <3>1 DEF IInv, TypeOK, Lists, FreeFirst
      <4> HIDE DEF l
      <4>2. Members(Without(l, s)) = Members(l) \ {s} /\ FreePrefix(Without(l, s), inUse)
        BY <4>1, WithoutLemma
      <4>3. slots'[k] = Without(l, s)
        BY <2>1, <3>1 DEF l
      <4>4. QED
        BY <4>2, <4>3 DEF l
    <3>2. CASE s \notin Members(slots[k])
      BY <2>1, <3>2
    <3>3. QED
      BY <3>1, <3>2
  <2>3. QED
    BY <2>1, <2>2, SameConns
<1>3. CASE WatchRelease
  <2> DEFINE s == Head(watcher.rest)
  <2>0. s \in SessionIds /\ own[s] = dbConn[s]
    BY <1>3, WatchOwn
  <2>1. /\ \E d \in ReleaseConnection(conn[own[s]], "ok", TRUE, FALSE) :
             conn' = [conn EXCEPT ![own[s]] = d]
        /\ own' = [own EXCEPT ![s] = NoConn]
        /\ UNCHANGED <<config, slots, inUse, req>>
    BY <1>3, <2>0, WatchOwn DEF WatchRelease
  <2> HIDE DEF s
  <2>2. PICK d \in ReleaseConnection(conn[own[s]], "ok", TRUE, FALSE) :
             conn' = [conn EXCEPT ![own[s]] = d]
    BY <2>1
  <2>3. own[s] \in Conns => (conn'[own[s]].st = "idle" => ~conn'[own[s]].tx)
    BY <2>2, ReleaseConnectionLemma DEF IInv, TypeOK
  <2>4. \A c \in Conns : c # own[s] => conn'[c] = conn[c]
    BY <2>2
  <2>5. QED
    BY <2>0, <2>1, <2>3, <2>4, GivenBack
<1>4. QED
  BY <1>1, <1>2, <1>3 DEF Watch

\* A connection that dies keeps, for the client, the state it had.
LEMMA EnvironmentClean ==
    ASSUME IInv, Clean, Environment
    PROVE  Clean'
<1>1. UNCHANGED <<config, slots, inUse, own, req>>
  BY SameOwn DEF Environment, Tick, ConnDies, PoolDrops
<1>2. \A c \in Conns : conn'[c].st = "idle" => ~conn'[c].tx
  <2>1. CASE Tick
    BY <2>1 DEF Tick, Clean, PoolClean
  <2>2. ASSUME NEW c \in Conns, ConnDies(c)
        PROVE  \A b \in Conns : conn'[b].st = conn[b].st /\ conn'[b].tx = conn[b].tx
    <3> DEFINE d == [conn[c] EXCEPT !.live = "broken"]
    <3>1. d.st = conn[c].st /\ d.tx = conn[c].tx
      BY DEF IInv, TypeOK, ConnState
    <3>2. conn' = [conn EXCEPT ![c] = d]
      BY <2>2 DEF ConnDies
    <3> HIDE DEF d
    <3>3. QED
      BY <3>1, <3>2 DEF IInv, TypeOK
  <2>3. ASSUME NEW c \in Conns, PoolDrops(c)
        PROVE  \A b \in Conns : conn'[b].st = "idle" => ~conn'[b].tx
    BY <2>3 DEF PoolDrops, Absent, Clean, PoolClean, IInv, TypeOK
  <2>4. QED
    BY <2>1, <2>2, <2>3 DEF Environment, Clean, PoolClean
<1>3. \A c \in Conns : conn[c].st = "out" =>
        conn'[c].tx = conn[c].tx /\ conn'[c].role = conn[c].role
  <2>1. CASE Tick
    BY <2>1 DEF Tick
  <2>2. ASSUME NEW c \in Conns, ConnDies(c)
        PROVE  \A b \in Conns : conn'[b].role = conn[b].role /\ conn'[b].tx = conn[b].tx
    <3> DEFINE d == [conn[c] EXCEPT !.live = "broken"]
    <3>1. d.role = conn[c].role /\ d.tx = conn[c].tx
      BY DEF IInv, TypeOK, ConnState
    <3>2. conn' = [conn EXCEPT ![c] = d]
      BY <2>2 DEF ConnDies
    <3> HIDE DEF d
    <3>3. QED
      BY <3>1, <3>2 DEF IInv, TypeOK
  <2>3. ASSUME NEW c \in Conns, PoolDrops(c)
        PROVE  \A b \in Conns : conn[b].st = "out" => conn'[b] = conn[b]
    BY <2>3 DEF PoolDrops, IInv, TypeOK
  <2>4. QED
    BY <2>1, <2>2, <2>3 DEF Environment
<1>4. \A s \in SessionIds : own[s] # NoConn =>
        /\ conn'[own[s]].tx = conn[own[s]].tx
        /\ conn'[own[s]].role = conn[own[s]].role
  BY <1>3, OwnLemma DEF IInv, Attached
<1>5. PoolClean'
  BY <1>2 DEF PoolClean
<1>6. KeptReady'
  <2> SUFFICES ASSUME config.sessions, NEW k \in Keys, NEW s \in Members(slots[k]),
                      s \notin inUse, own[s] # NoConn
               PROVE  Ready(conn'[own[s]], k)
    BY <1>1, Primes
  <2>1. Ready(conn[own[s]], k)
    BY DEF Clean, KeptReady
  <2>2. QED
    BY <1>4, <2>1, ListedLemma DEF Ready, RoleHeld
<1>7. AllPrepared'
  <2> SUFFICES ASSUME NEW r \in Requests, ~At(r, "idle")', OwnOf(r)' # NoConn
               PROVE  Prepared(req'[r], conn'[OwnOf(r)'])
    BY <1>1, Primes
  <2>1. ~At(r, "idle") /\ OwnOf(r)' = OwnOf(r) /\ req'[r] = req[r]
    BY <1>1 DEF At, OwnOf, Mine
  <2>2. Prepared(req[r], conn[OwnOf(r)])
    BY <2>1 DEF Clean, AllPrepared
  <2>3. /\ conn'[OwnOf(r)].tx = conn[OwnOf(r)].tx
        /\ conn'[OwnOf(r)].role = conn[OwnOf(r)].role
    BY <1>4, <2>1, MineLemma DEF OwnOf
  <2>4. QED
    BY <2>1, <2>2, <2>3 DEF Prepared, Ready, RoleHeld
<1>8. QED
  BY <1>5, <1>6, <1>7 DEF Clean
-----------------------------------------------------------------------------
\* At startup no connection is open and no request under way.
LEMMA CleanInit == Init => Clean
<1> SUFFICES ASSUME Init PROVE Clean
  OBVIOUS
<1>1. PoolClean
  BY DEF Init, PoolClean, Absent
<1>2. KeptReady
  BY DEF Init, KeptReady, Members
<1>3. AllPrepared
  BY DEF Init, AllPrepared, At, Idle
<1>4. QED
  BY <1>1, <1>2, <1>3 DEF Clean

\* Every step leaves the connections as the next request needs them.
LEMMA CleanNext == IInv /\ Clean /\ [Next]_vars => Clean'
<1> SUFFICES ASSUME IInv, Clean, [Next]_vars PROVE Clean'
  OBVIOUS
<1>1. ListTypes' /\ Lists' /\ Kept
  BY ListsNext
<1>2. CASE UNCHANGED vars
  <2>1. UNCHANGED <<config, slots, inUse, own, conn, req>>
    BY <1>2, SameOwn DEF vars
  <2>2. QED
    BY <2>1, SameConns
<1>3. QED
  BY <1>1, <1>2, RequestClean, WatchClean, EnvironmentClean DEF Next

\* Pool, kept connections and requests under way are always as the next user
\* needs them.
THEOREM AlwaysClean == Spec => []Clean
BY Inductive, CleanInit, CleanNext, PTL DEF Spec

\* No request is prepared on a connection that is in a transaction, and so every
\* handler runs in its own (conn.go:36-38): whatever an earlier request, or a COMMIT
\* or ROLLBACK of one that was not sent, left open.
THEOREM OwnTransactionCorrect == Spec => []OwnTransaction
<1>1. IInv /\ Clean => OwnTransaction
  <2> SUFFICES ASSUME IInv, Clean, NEW r \in Requests
               PROVE  /\ At(r, "prepare") => ~conn[ConnOf(r)].tx
                      /\ At(r, "handle") => conn[ConnOf(r)].tx = (config.tx # "none")
    BY DEF OwnTransaction
  <2>1. At(r, "prepare") \/ At(r, "handle") => Prepared(req[r], conn[ConnOf(r)])
    BY OwnMine DEF At, IInv, Attached, Working, Clean, AllPrepared
  <2>2. QED
    BY <2>1 DEF Prepared, At
<1>2. QED
  BY <1>1, Inductive, AlwaysClean, PTL

\* A handler runs under the role of its claims (conn.go:44-45), whoever used the
\* connection before, as long as no handler rolls back a transaction of its own.
THEOREM RoleMatchesCorrect ==
    ASSUME "nested rollback" \notin Events
    PROVE  Spec => []RoleMatches
<1>1. IInv /\ Clean => RoleMatches
  <2> SUFFICES ASSUME IInv, Clean, NEW r \in Requests, At(r, "handle"),
                      RoleOf(req[r].key) # NoRole
               PROVE  conn[ConnOf(r)].role = RoleOf(req[r].key)
    BY DEF RoleMatches
  <2>1. ~At(r, "idle") /\ OwnOf(r) # NoConn /\ OwnOf(r) = ConnOf(r)
    BY OwnMine DEF At, IInv, Attached, Working
  <2>2. QED
    BY <2>1 DEF Clean, AllPrepared, Prepared, RoleHeld, At
<1>2. QED
  BY <1>1, Inductive, AlwaysClean, PTL
=============================================================================
