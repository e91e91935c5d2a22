----------------------------- MODULE SessionPool -----------------------------
(***************************************************************************)
(* What one slot of the session manager promises to the requests of one    *)
(* key: an idle session is always preferred to a new one, a session serves *)
(* one request at a time, and only an idle session is thrown away.  No     *)
(* order and no list: SessionQueue implements this module.                 *)
(***************************************************************************)
CONSTANT Sessions      \* identities of the Session objects

VARIABLES free,        \* sessions of the slot that no request uses
          busy         \* sessions of the slot that a request uses

vars == <<free, busy>>

Init == free = {} /\ busy = {}

\* A request is given an idle session.
Reuse(s) ==
    /\ s \in free
    /\ free' = free \ {s}
    /\ busy' = busy \cup {s}

\* A request is given a new session: only when none is idle.
Create(s) ==
    /\ free = {}
    /\ s \notin busy
    /\ busy' = busy \cup {s}
    /\ UNCHANGED free

\* A request gives its session back.
Leave(s) ==
    /\ s \in busy
    /\ busy' = busy \ {s}
    /\ free' = free \cup {s}

\* An idle session expires.
Expire(s) ==
    /\ s \in free
    /\ free' = free \ {s}
    /\ UNCHANGED busy

Next == \E s \in Sessions : Reuse(s) \/ Create(s) \/ Leave(s) \/ Expire(s)

Spec == Init /\ [][Next]_vars
=============================================================================
