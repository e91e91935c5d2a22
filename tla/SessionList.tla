----------------------------- MODULE SessionList -----------------------------
(***************************************************************************)
(* One slot of the session manager at the level of the code: a doubly      *)
(* linked list of Session objects with head and tail pointers              *)
(* (authn/sessions.go:15-85) and the callers of its operations.  All of    *)
(* them run under the manager's mutex, so each is one step.                *)
(*                                                                         *)
(* The operations leave some pointers behind: frontToBack does not clear   *)
(* prev of the new head, remove copies it.  SlotSpec says that this is     *)
(* harmless: the list behaves as the sequence of module SessionQueue.      *)
(***************************************************************************)
EXTENDS SessionOrder, FiniteSets

CONSTANTS Sessions,    \* identities of the Session objects
          Nil          \* the nil pointer

ASSUME NilAssumption == Nil \notin Sessions
ASSUME FiniteAssumption == IsFiniteSet(Sessions)

VARIABLES head, tail,  \* the SessionList
          next, prev,  \* the links of every Session
          inUse        \* sessions whose inUse flag is set

links == <<head, tail, next, prev>>
vars == <<links, inUse>>

Init ==
    /\ head = Nil /\ tail = Nil
    /\ next = [s \in Sessions |-> Nil]
    /\ prev = [s \in Sessions |-> Nil]
    /\ inUse = {}
-----------------------------------------------------------------------------
(* The walk from head along next, as the watcher does it.                  *)

Walk == LET at[n \in 1 .. Cardinality(Sessions)] ==
                IF n = 1 THEN head
                ELSE IF at[n - 1] = Nil THEN Nil ELSE next[at[n - 1]]
        IN  at

Queue == LET length == Cardinality({n \in DOMAIN Walk : Walk[n] # Nil})
         IN  [n \in 1 .. length |-> Walk[n]]

-----------------------------------------------------------------------------
(* The operations of SessionList.                                          *)

\* append(s), for a Session just allocated: both its links are nil.
AppendSession(s) ==
    IF head # Nil
    THEN /\ next' = [next EXCEPT ![tail] = s, ![s] = Nil]
         /\ prev' = [prev EXCEPT ![s] = tail]
         /\ tail' = s
         /\ UNCHANGED head
    ELSE /\ head' = s /\ tail' = s
         /\ next' = [next EXCEPT ![s] = Nil]
         /\ prev' = [prev EXCEPT ![s] = Nil]

\* remove(s)
Remove(s) ==
    /\ IF s = head
       THEN head' = next[s] /\ UNCHANGED next
       ELSE next' = [next EXCEPT ![prev[s]] = next[s]] /\ UNCHANGED head
    /\ IF s = tail
       THEN tail' = prev[s] /\ UNCHANGED prev
       ELSE prev' = [prev EXCEPT ![next[s]] = prev[s]] /\ UNCHANGED tail

\* The next pointers after frontToBack, and a mutant: the old head keeps its own.
RotatedCycle == [next EXCEPT ![tail] = head]
Rotated == [next EXCEPT ![tail] = head, ![head] = Nil]

\* frontToBack()
MoveFrontToBack ==
    IF head = Nil \/ head = tail
    THEN UNCHANGED links
    ELSE /\ next' = Rotated
         /\ prev' = [prev EXCEPT ![head] = tail]
         /\ head' = next[head]
         /\ tail' = head

\* The tail after s is unlinked, and a mutant: it is not corrected.
TailKept(s) == tail
TailWithout(s) == IF s = tail THEN prev[s] ELSE tail

\* toFront(s): s is unlinked, then linked before the old head.
MoveToFront(s) ==
    IF head = s
    THEN UNCHANGED links
    ELSE LET unlinked == IF s = tail THEN prev ELSE [prev EXCEPT ![next[s]] = prev[s]]
         IN  /\ tail' = TailWithout(s)
             /\ prev' = [unlinked EXCEPT ![s] = Nil, ![head] = s]
             /\ next' = [next EXCEPT ![prev[s]] = next[s], ![s] = head]
             /\ head' = s
-----------------------------------------------------------------------------
(* The callers: getSession, newSession, leaveSession and watch.            *)

\* Mutant of Reuse: the list is not tested for emptiness.
ReuseUnchecked ==
    /\ head \notin inUse
    /\ inUse' = inUse \cup {head}
    /\ MoveFrontToBack

\* getSession: the compare-and-swap on the head's flag succeeds.
Reuse ==
    /\ head # Nil /\ head \notin inUse
    /\ inUse' = inUse \cup {head}
    /\ MoveFrontToBack

\* getSession, newSession: the list is empty or the head is in use.
Create(s) ==
    /\ head = Nil \/ head \in inUse
    /\ s \notin Members(Queue) \* a fresh object, or one the collector took back
    /\ inUse' = inUse \cup {s}
    /\ AppendSession(s)

\* leaveSession
Leave(s) ==
    /\ s \in inUse
    /\ MoveToFront(s)
    /\ inUse' = inUse \ {s}

\* watch: a session met on the walk that is not in use is deleted.
Expire(s) ==
    /\ s \in Members(Queue) \ inUse
    /\ Remove(s)
    /\ UNCHANGED inUse

Next == Reuse \/ \E s \in Sessions : Create(s) \/ Leave(s) \/ Expire(s)

Spec == Init /\ [][Next]_vars
-----------------------------------------------------------------------------
TypeOK ==
    /\ head \in Sessions \cup {Nil}
    /\ tail \in Sessions \cup {Nil}
    /\ next \in [Sessions -> Sessions \cup {Nil}]
    /\ prev \in [Sessions -> Sessions \cup {Nil}]
    /\ inUse \subseteq Sessions

\* remove and toFront (sessions.go:46-57, 71-85) follow prev and tail without
\* a check: the tail is the last session of the walk, prev of every session
\* but the head is the one before it, and no next pointer leaves the list.
LinksConsistent ==
    /\ head # Nil =>
         /\ tail = Queue[Len(Queue)]
         /\ next[tail] = Nil
    /\ \A i \in 2 .. Len(Queue) : prev[Queue[i]] = Queue[i - 1]

\* The pointers implement the sequence of SessionQueue, and with it the
\* promise of SessionPool, whatever stale prev pointers the operations leave.
Slot == INSTANCE SessionQueue WITH queue <- Queue
SlotSpec == Slot!Spec
=============================================================================
