---------------------------- MODULE SessionOrder ----------------------------
(***************************************************************************)
(* The operations of SessionList (authn/sessions.go) as functions on the   *)
(* sequence of sessions met when walking the list from head to tail.  All  *)
(* of them take a sequence without repetitions.                            *)
(***************************************************************************)
EXTENDS Integers, Sequences

\* The sessions of the list.
Members(q) == {q[i] : i \in DOMAIN q}

Injective(q) == \A i, j \in DOMAIN q : q[i] = q[j] => i = j

\* remove(s): the list without s, the others keep their order.
Without(q, s) ==
    LET p == CHOOSE i \in DOMAIN q : q[i] = s
    IN  [i \in 1 .. (Len(q) - 1) |-> IF i < p THEN q[i] ELSE q[i + 1]]

\* Mutant of FrontToBack: the head stays where it is as well.
CopyToBack(q) == Append(q, q[1])

\* frontToBack(): the head becomes the tail.
FrontToBack(q) == [i \in 1 .. Len(q) |-> IF i = Len(q) THEN q[1] ELSE q[i + 1]]

\* toFront(s): s becomes the head, the others keep their order.
ToFront(q, s) ==
    LET p == CHOOSE i \in DOMAIN q : q[i] = s
    IN  [i \in 1 .. Len(q) |-> IF i = 1 THEN s
                               ELSE IF i <= p THEN q[i - 1] ELSE q[i]]

\* Every free session stands before every session that is in use: what makes
\* looking at the head alone enough to find a free session.
FreePrefix(q, inUse) ==
    \A i, j \in DOMAIN q : i < j /\ q[i] \in inUse => q[j] \in inUse
=============================================================================
