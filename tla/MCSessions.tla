----------------------------- MODULE MCSessions -----------------------------
(* Sessions for TLC.                                                        *)
EXTENDS Sessions, TLC

\* Every way to run: with and without sessions, without and with transactions,
\* the latter with a mode that has both ends.
AllConfigs == [sessions : BOOLEAN, tx : {"none", "commit-allow-override"}]

\* Sessions that keep their connection, and the two ways to give it back at the
\* end of the request.
LiveConfigs == {[sessions |-> TRUE, tx |-> "none"], [sessions |-> TRUE, tx |-> "rollback"],
                [sessions |-> FALSE, tx |-> "none"]}

NoTransactions == {[sessions |-> TRUE, tx |-> "none"]}
WithTransactions == {[sessions |-> TRUE, tx |-> "commit"]}

Symmetry == Permutations(Requests) \cup Permutations(SessionIds) \cup Permutations(Conns)
                \cup Permutations(Keys)
=============================================================================
