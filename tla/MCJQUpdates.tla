----------------------------- MODULE MCJQUpdates -----------------------------
(***************************************************************************)
(* Instances of JQUpdates for TLC: a text with one or another set of       *)
(* variables, and one that does not compile; one partition, or two.        *)
(***************************************************************************)
EXTENDS JQUpdates, TLC

CONSTANTS q1, q2

TextWith(v) == [text |-> "t", vars |-> {v}]
BadText     == [text |-> "bad", vars |-> {}]
BadPrograms == {BadText}
TheirPrograms == [q \in Actors |-> IF q = q1 THEN {TextWith("x"), BadText} ELSE IF q = q2 THEN {TextWith("y")}
                                   ELSE {TextWith("x")}]
SomeConfigs == {[mode |-> "none", maxRows |-> 2], [mode |-> "commit", maxRows |-> 1]}
OneTable    == {Rows}
TwoTables   == {{r} : r \in Rows}
=============================================================================
