----------------------------- MODULE RowUpdates -----------------------------
(***************************************************************************)
(* What a jq update promises (the comment of UpdateRecordsWithJQ, "jq      *)
(* updates" in README.md): a read-modify-write that happens all at once or *)
(* not at all, at most once, of rows that match at that moment, each from  *)
(* its value at that moment. A row's history is the set of the updates its *)
(* value includes; the deletion of a row is in it, too. Other writers      *)
(* update, delete or insert rows one at a time.                            *)
(***************************************************************************)
CONSTANTS Clients, Writers, Rows

VARIABLES rows,     \* the committed rows
          applied   \* the clients and writers whose change is committed

vars == <<rows, applied>>

Row == [live : BOOLEAN, open : BOOLEAN, history : SUBSET (Clients \cup Writers)]

Init == /\ rows \in [Rows -> {r \in Row : r.history = {}}]
        /\ applied = {}

Includes(r, q, live, open) == [live |-> live, open |-> open, history |-> r.history \cup {q}]

Apply(q) ==
    /\ q \notin applied
    /\ \E S \in SUBSET {r \in Rows : rows[r].live /\ rows[r].open}, opened \in SUBSET Rows :
          rows' = [r \in Rows |-> IF r \in S THEN Includes(rows[r], q, TRUE, r \in opened) ELSE rows[r]]
    /\ applied' = applied \cup {q}

Write(w) ==
    /\ w \notin applied
    /\ \E r \in Rows, live, open \in BOOLEAN :
          /\ rows[r].live \/ (rows[r].history = {} /\ live)
          /\ rows' = [rows EXCEPT ![r] = Includes(@, w, live, open)]
    /\ applied' = applied \cup {w}

Next == (\E q \in Clients : Apply(q)) \/ (\E w \in Writers : Write(w))

Spec == Init /\ [][Next]_vars
=============================================================================
