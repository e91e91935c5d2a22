------------------------------ MODULE MCServer ------------------------------
(* Instances of Server for TLC.                                             *)
EXTENDS Server, TLC

CONSTANTS r1, r2

Base == [sessions |-> TRUE, tx |-> FALSE, drain |-> FALSE, callers |-> {"signal"}, deadline |-> {"signal"},
         signals |-> {"TERM"}, clients |-> {r1, r2}, changes |-> FALSE]
SomeConfigs ==
    {Base,
     [Base EXCEPT !.drain = TRUE, !.signals = {"TERM", "INT"}, !.clients = {r1}],
     [Base EXCEPT !.tx = TRUE, !.callers = Callers, !.deadline = {"embedder"}, !.clients = {r1}],
     [Base EXCEPT !.sessions = FALSE, !.deadline = {}],
     [Base EXCEPT !.clients = {}, !.changes = TRUE]}
=============================================================================
