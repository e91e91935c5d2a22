------------------------------- MODULE Postgres -------------------------------
(***************************************************************************)
(* PostgreSQL as the builder relies on it: what a condition means, which   *)
(* rows a statement answers with and what it changes. A database maps a    *)
(* table to the sequence of its rows, a row its columns to values; values  *)
(* are strings, "null" among them. Nothing here is code of the program.    *)
(***************************************************************************)
EXTENDS QueryBuilder

(* Three-valued logic: no, unknown, yes. *)
No == 0
Unknown == 1
Yes == 2
Lower(a, b)  == IF a < b THEN a ELSE b
Higher(a, b) == IF a > b THEN a ELSE b
Negation(a)  == Yes - a

(* An operand is a marker, a keyword or a literal. *)
Same(v, o, values) == o = Lit(v) \/ \E k \in DOMAIN values : o = Marker(k) /\ values[k] = v
IsNullOperand(o)   == o = "null"

Compare(v, op, os, values) ==
    LET equal == \E i \in DOMAIN os : Same(v, os[i], values)
        yes(b) == IF b THEN Yes ELSE No
    IN  CASE op = "IS" -> yes(IF os = <<"null">> THEN v = "null" ELSE IF os = <<"NOT NULL">> THEN v # "null" ELSE os = <<v>>)
          [] os = <<"ANY('{}')">> -> No
          [] v = "null" \/ \E i \in DOMAIN os : IsNullOperand(os[i]) -> Unknown
          [] op \in {"=", "IN"} -> yes(equal)
          [] op = "<>" -> yes(~equal)
          [] OTHER -> No

(* env gives the row each alias stands for. A condition that does not parse *)
(* or that names an alias out of scope ends past its last token.            *)
Malformed(ts) == [v |-> No, at |-> Len(ts) + 9]
TokenAt(ts, i) == IF i \in DOMAIN ts THEN ts[i] ELSE <<"">>

RECURSIVE EvalOr(_, _, _, _), EvalAnd(_, _, _, _), EvalNot(_, _, _, _)
EvalOr(ts, i, env, values) ==
    LET With(a, b) == [v |-> Higher(a.v, b.v), at |-> b.at]
        After(a)   == IF TokenAt(ts, a.at) = <<"OR">> THEN With(a, EvalOr(ts, a.at + 1, env, values)) ELSE a
    IN  After(EvalAnd(ts, i, env, values))

EvalAnd(ts, i, env, values) ==
    LET With(a, b) == [v |-> Lower(a.v, b.v), at |-> b.at]
        After(a)   == IF TokenAt(ts, a.at) = <<"AND">> THEN With(a, EvalAnd(ts, a.at + 1, env, values)) ELSE a
    IN  After(EvalNot(ts, i, env, values))

EvalNot(ts, i, env, values) ==
    LET t == TokenAt(ts, i)
        Not(n)    == [n EXCEPT !.v = Negation(@)]
        Closed(p) == IF TokenAt(ts, p.at) = <<")">> THEN [p EXCEPT !.at = @ + 1] ELSE Malformed(ts)
    IN  CASE t = <<"NOT">> -> Not(EvalNot(ts, i + 1, env, values))
          [] t = <<"(">> -> Closed(EvalOr(ts, i + 1, env, values))
          [] t[1] = "is" /\ t[2] \in DOMAIN env ->
                [v |-> Compare(env[t[2]][t[3]], t[5], SubSeq(t, 6, Len(t)), values), at |-> i + 1]
          [] OTHER -> Malformed(ts)

Condition(ts, env, values)  == IF ts = <<>> THEN [v |-> Yes, at |-> 1] ELSE EvalOr(ts, 1, env, values)
Holds(ts, env, values)      == Condition(ts, env, values).v = Yes
WellFormed(ts, env, values) == Condition(ts, env, values).at = Len(ts) + 1

Rows(db, t) == IF t \in DOMAIN db THEN ToSet(db[t]) ELSE {}

-----------------------------------------------------------------------------
(* Lateral joins: what an embedded resource holds for the rows around it. *)
On(j, env) == \A c \in j.on : env[c[1]][c[2]] # "null" /\ env[c[1]][c[2]] = env[c[3]][c[4]]

RECURSIVE Embedded(_, _, _)
Nested(js, env, db) == [i \in DOMAIN js |-> Embedded(js[i], env, db)]
KeptBy(js, env, db) == \A i \in DOMAIN js : js[i].inner => Embedded(js[i], env, db) # {}

Embedded(j, env, db) ==
    LET Inside(s) == j.alias :> s @@ env
        Links(s)  == IF j.junction = "" THEN On(j, Inside(s))
                     ELSE \E q \in Rows(db, j.junction) : On(j, j.junction :> q @@ Inside(s))
    IN  {[row |-> s, embeds |-> Nested(j.nested, Inside(s), db)] :
            s \in {s \in Rows(db, j.from) : /\ Links(s) /\ Holds(j.where, Inside(s), <<>>)
                                            /\ KeptBy(j.nested, Inside(s), db)}}

(* Every condition of the joins parses, with its aliases in scope. *)
RECURSIVE JoinsWellFormed(_, _, _)
JoinsWellFormed(js, env, db) ==
    \A i \in DOMAIN js : \A s \in Rows(db, js[i].from) :
        /\ WellFormed(js[i].where, js[i].alias :> s @@ env, <<>>)
        /\ JoinsWellFormed(js[i].nested, js[i].alias :> s @@ env, db)

(* A list has an item on each side of a comma, in the joins too. *)
Separated(items) == /\ \A i \in DOMAIN items : items[i].kind = "comma" <=> i % 2 = 0
                    /\ items # <<>> => Last(items).kind # "comma"
RECURSIVE Legible(_, _)
Legible(items, joins) ==
    Separated(items) /\ \A i \in DOMAIN joins : Legible(joins[i].items, joins[i].nested)

(* The columns of _source are those that RETURNING lists; the select from   *)
(* it and its joins may name one that is there exactly once.                *)
ReturnedBy(x, cols) == CASE x.kind = "comma" -> <<>>
                        [] x.kind = "star" \/ x.column[2] = "*" -> SetToSeq(cols)
                        [] OTHER -> <<IF x.label = "" THEN x.column[2] ELSE x.label>>
Named(ret) == {x.column[2] : x \in {x \in ToSet(ret.items) : x.kind = "field" /\ x.column[2] # "*"}}
              \cup {e[4] : e \in {e \in UNION {j.on : j \in ToSet(ret.joins)} : e[3] = "_source"}}
ReturningError(ret, cols) ==
    LET columns  == FlattenSeq([i \in DOMAIN ret.list |-> ReturnedBy(ret.list[i], cols)])
        times(c) == Cardinality({i \in DOMAIN columns : columns[i] = c})
    IN  CASE ret = NoReturning -> ""
          [] ret.list = <<>> \/ ~Separated(ret.list) \/ ~Legible(ret.items, ret.joins) -> "42601"
          [] \E x \in ToSet(ret.list) : x.kind = "field" /\ x.aggregate # "" -> "42803"
          [] \E c \in Named(ret) : times(c) = 0 -> "42703"
          [] \E c \in Named(ret) : times(c) > 1 -> "42702"
          [] OTHER -> ""

-----------------------------------------------------------------------------
(* WITH RECURSIVE: entries are a row and the keys on the way to it. *)
RECURSIVE Walk(_, _, _, _)
Walk(stmt, db, frontier, left) ==
    LET Env(q)    == stmt.table :> q
        Reaches(e, q, r) ==
            \/ e[stmt.from] = r[stmt.key] /\ e[stmt.to] = q[stmt.key]
            \/ stmt.both /\ e[stmt.to] = r[stmt.key] /\ e[stmt.from] = q[stmt.key]
        Follows(q, r) ==
            IF stmt.edges = "" THEN q[stmt.newCol] # "null" /\ q[stmt.newCol] = r[stmt.prevCol]
            ELSE \E e \in Rows(db, stmt.edges) :
                    Reaches(e, q, r) /\ Holds(stmt.edgeWhere, stmt.edges :> e @@ Env(q), stmt.values)
        next == {[row |-> q, path |-> Append(x.path, q[stmt.key])] : <<x, q>> \in
                    {p \in frontier \X Rows(db, stmt.table) :
                        /\ Follows(p[2], p[1].row) /\ p[2][stmt.key] \notin ToSet(p[1].path)
                        /\ Holds(stmt.stepWhere, Env(p[2]), stmt.values)}}
    IN  IF left = 0 \/ frontier = {} THEN frontier ELSE frontier \cup Walk(stmt, db, next, left - 1)

Recursive(stmt, db) ==
    LET seeds == {s \in Rows(db, stmt.table) :
                    /\ s[stmt.key] = stmt.values[stmt.startMarker]
                    /\ Holds(stmt.seedWhere, stmt.table :> s, stmt.values)}
        all   == Walk(stmt, db, {[row |-> s, path |-> <<s[stmt.key]>>] : s \in seeds},
                      IntOf(stmt.values[stmt.depthMarker]))
    IN  {x \in all : /\ stmt.skipSeed => Len(x.path) > 1
                     /\ Holds(stmt.where, stmt.table :> x.row, stmt.values)
                     /\ KeptBy(stmt.joins, stmt.table :> x.row, db)}

(* The rows it answers with, as a bag: a row and how often; and its depth. *)
DepthOf(x)          == Len(x.path) - 1
Shallowest(all)     == {x \in all : \A y \in all : y.row = x.row => DepthOf(x) <= DepthOf(y)}
Answered(stmt, all) == IF stmt.dedup THEN Shallowest(all) ELSE all
Times(stmt, all, r) == IF stmt.dedup \/ stmt.distinct THEN 1 ELSE Cardinality({x \in all : x.row = r})

-----------------------------------------------------------------------------
(* A page of a sequence; a negative LIMIT or OFFSET is an error. *)
BadPage(p) == (p.limited /\ p.limit < 0) \/ (p.shifted /\ p.offset < 0)
PageOf(rows, p) ==
    LET from == IF p.shifted THEN p.offset ELSE 0
        to   == IF p.limited THEN from + p.limit ELSE Len(rows)
    IN  SubSeq(rows, from + 1, Lower(to, Len(rows)))

Selected(stmt, db) ==
    SelectSeq(IF stmt.table \in DOMAIN db THEN db[stmt.table] ELSE <<>>,
              LAMBDA r : /\ Holds(stmt.where, stmt.alias :> r, stmt.values)
                         /\ KeptBy(stmt.joins, stmt.alias :> r, db))
(* The count of all the rows: without the joins. *)
Total(stmt, db) ==
    Len(SelectSeq(db[stmt.table], LAMBDA r : Holds(stmt.where, stmt.alias :> r, stmt.values)))

(* What a write leaves in its table. *)
Inserted(stmt) == [i \in DOMAIN stmt.rows |->
                      [f \in ToSet(stmt.fields) |->
                          stmt.values[stmt.rows[i][CHOOSE j \in DOMAIN stmt.fields : stmt.fields[j] = f]]]]
Updated(stmt, db) ==
    LET Set(r) == [c \in DOMAIN r |-> IF \E i \in DOMAIN stmt.set : stmt.set[i][1] = c
                                      THEN stmt.values[(CHOOSE p \in ToSet(stmt.set) : p[1] = c)[2]] ELSE r[c]]
    IN  [i \in DOMAIN db[stmt.table] |->
            IF Holds(stmt.where, stmt.table :> db[stmt.table][i], stmt.values)
            THEN Set(db[stmt.table][i]) ELSE db[stmt.table][i]]
Deleted(stmt, db) ==
    SelectSeq(db[stmt.table], LAMBDA r : ~Holds(stmt.where, stmt.table :> r, stmt.values))
=============================================================================
