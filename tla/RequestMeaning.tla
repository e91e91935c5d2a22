---------------------------- MODULE RequestMeaning ----------------------------
(***************************************************************************)
(* What a client means by a request, and what the answer owes it. The      *)
(* meaning of a request is a record: the columns and resources selected,   *)
(* the filters as a tree, the walk. It is printed as the documented query  *)
(* string, which is all the program sees; the properties compare what the  *)
(* program then does with the meaning.                                     *)
(***************************************************************************)
EXTENDS Requests

-----------------------------------------------------------------------------
(* Filters: a test of a column, or and/or of filters; path is the way to    *)
(* the embedded resource a filter is about.                                 *)
Test(path, col, not, op, mod, vals) ==
    [kind |-> "test", path |-> path, col |-> col, not |-> not, op |-> op, mod |-> mod, vals |-> vals]
Bool(path, kind, not, kids) == [kind |-> kind, path |-> path, not |-> not, kids |-> kids]

Dotted(path) == FlattenSeq([i \in DOMAIN path |-> <<path[i], ".">>])
Listed(ss)   == FoldLeft(LAMBDA acc, s : IF acc = <<>> THEN s ELSE acc \o <<",">> \o s, <<>>, ss)
NotMark(f)   == IF f.not THEN <<"not", ".">> ELSE <<>>

TestText(f) ==
    LET vals == Listed([i \in DOMAIN f.vals |-> <<f.vals[i]>>])
    IN  NotMark(f) \o <<f.op>> \o
        CASE f.op = "in" -> <<".", "(">> \o vals \o <<")">>
          [] f.mod # ""  -> <<"(", f.mod, ")", ".", "{">> \o vals \o <<"}">>
          [] OTHER       -> <<".">> \o vals

RECURSIVE KidText(_)
KidText(f) == IF f.kind = "test" THEN <<f.col, ".">> \o TestText(f)
              ELSE NotMark(f) \o <<f.kind, "(">> \o Listed([i \in DOMAIN f.kids |-> KidText(f.kids[i])]) \o <<")">>

FilterKey(f)   == Dotted(f.path) \o (IF f.kind = "test" THEN <<f.col>> ELSE NotMark(f) \o <<f.kind>>)
FilterValue(f) == IF f.kind = "test" THEN TestText(f)
                  ELSE <<"(">> \o Listed([i \in DOMAIN f.kids |-> KidText(f.kids[i])]) \o <<")">>
Printed(f)     == [key |-> FilterKey(f), value |-> FilterValue(f)]

RECURSIVE Meant(_, _)
Meant(f, row) ==
    LET v     == row[f.col]
        Is(x) == IF v = "null" THEN Unknown ELSE IF v = x THEN Yes ELSE No
        each  == {IF f.op = "neq" THEN Negation(Is(f.vals[i])) ELSE Is(f.vals[i]) : i \in DOMAIN f.vals}
        kids  == {Meant(f.kids[i], row) : i \in DOMAIN f.kids}
        plain == CASE f.kind = "and" -> Min(kids)
                   [] f.kind = "or" -> Max(kids)
                   [] f.op = "is" -> IF v = "null" THEN Yes ELSE No
                   [] f.mod = "all" -> Min(each)
                   [] OTHER -> Max(each \cup {No})
    IN  IF f.not THEN Negation(plain) ELSE plain

AllMeant(filters, path, row) == \A f \in ToSet(filters) : f.path = path => Meant(f, row) = Yes

-----------------------------------------------------------------------------
(* What is selected: columns, and resources through foreign keys, one or,   *)
(* by way of a junction table, two.                                         *)
FieldOf(label, name, json, cast, agg, aggCast) ==
    [kind |-> "field", label |-> label, name |-> name, json |-> json, cast |-> cast, agg |-> agg,
     aggCast |-> aggCast]
Embed(label, name, hint, through, to, kids) ==
    [kind |-> "embed", label |-> label, name |-> name, hint |-> hint, through |-> through, to |-> to,
     kids |-> kids]

Cast(c)      == IF c = "" THEN <<>> ELSE <<"::", c>>
LabelText(l) == IF l = "" THEN <<>> ELSE <<l, ":">>
RECURSIVE ItemText(_)
ItemText(s) ==
    IF s.kind = "field"
    THEN LabelText(s.label) \o <<s.name>> \o FlattenSeq(s.json) \o Cast(s.cast)
         \o (IF s.agg = "" THEN <<>> ELSE <<".", s.agg, "()">>) \o Cast(s.aggCast)
    ELSE LabelText(s.label) \o <<s.name>> \o (IF s.hint = "" THEN <<>> ELSE <<"!", s.hint>>)
         \o (IF s.kids = <<>> THEN <<"()">>
             ELSE <<"(">> \o Listed([i \in DOMAIN s.kids |-> ItemText(s.kids[i])]) \o <<")">>)
SelectText(items) == Listed([i \in DOMAIN items |-> ItemText(items[i])])

(* A column is labelled by what was written, else by its aggregate, else by *)
(* the last name of its json path.                                          *)
DefaultLabel(s) ==
    LET names == SelectSeq(s.json, LAMBDA m : ~IsNumber(m[2]))
    IN  CASE s.label # "" -> s.label
          [] s.agg # "" -> s.agg
          [] s.json = <<>> -> ""
          [] OTHER -> IF names = <<>> THEN s.name ELSE Last(names)[2]

RECURSIVE ParsedAs(_, _)
ParsedAs(s, p) ==
    IF s.kind = "field"
    THEN /\ p.kind = "field" /\ p.label = DefaultLabel(s) /\ p.cast = s.cast
         /\ p.aggregate = s.agg /\ p.aggCast = s.aggCast
         /\ p.field.name = s.name /\ p.field.json = s.json
    ELSE /\ p.kind = "relation" /\ p.label = s.label /\ p.name = s.name
         /\ p.inner = (s.hint = "inner") /\ p.fk = (IF s.hint \in {"inner", "left"} THEN "" ELSE s.hint)
         /\ Len(p.fields) = Len(s.kids) /\ \A i \in DOMAIN s.kids : ParsedAs(s.kids[i], p.fields[i])

(* An order: of the rows, or of those of the resource it is on; by a column *)
(* of theirs, or of the resource rel.                                       *)
OrderOf(on, rel, col, dir, nulls) == [on |-> on, rel |-> rel, col |-> col, dir |-> dir, nulls |-> nulls]
OrderText(o) == (IF o.rel = "" THEN <<o.col>> ELSE <<o.rel, "(", o.col, ")">>)
                \o FlattenSeq([i \in 1..2 |-> LET w == <<o.dir, o.nulls>>[i] IN IF w = "" THEN <<>> ELSE <<".", w>>])
OrderParam(on, os) == [key |-> IF on = "" THEN <<"order">> ELSE <<on, ".", "order">>,
                       value |-> Listed([i \in DOMAIN os |-> OrderText(os[i])])]

(* The rows a resource holds for a row of the table around it. *)
KeyNamed(cat, name) == CHOOSE fk \in ToSet(cat.fks) : fk.name = name
Refers(fk, child, parent) == \A i \in DOMAIN fk.cols : /\ child[fk.cols[i]] # "null"
                                                       /\ child[fk.cols[i]] = parent[fk.relCols[i]]
Linked(cat, db, s, from, r, q) ==
    LET fk == KeyNamed(cat, s.through[1])
    IN  IF Len(s.through) = 2
        THEN \E j \in Rows(db, fk.table) : Refers(fk, j, r) /\ Refers(KeyNamed(cat, s.through[2]), j, q)
        ELSE IF fk.table = from THEN Refers(fk, r, q) ELSE Refers(fk, q, r)

Embeds(items) == SelectSeq(items, LAMBDA s : s.kind = "embed")

RECURSIVE MeantRows(_, _, _, _, _)
(* place is how filters may name the way here: labels or tables. *)
MeantRows(m, s, from, place, r) ==
    LET here == {Append(p, n) : p \in place, n \in {s.name, s.to, s.label}}
        In(q) == [i \in DOMAIN Embeds(s.kids) |-> MeantRows(m, Embeds(s.kids)[i], s.to, here, q)]
        Kept(q) == \A i \in DOMAIN Embeds(s.kids) : Embeds(s.kids)[i].hint = "inner" => In(q)[i] # {}
        Asked(q) == \A p \in here : AllMeant(m.filters, p, q)
    IN  {[row |-> q, embeds |-> In(q)] :
            q \in {q \in Rows(request.db, s.to) :
                      Linked(request.catalog, request.db, s, from, r, q) /\ Asked(q) /\ Kept(q)}}

MeantTop(r) ==
    LET m == request.meant
    IN  /\ AllMeant(m.filters, <<>>, r)
        /\ \A i \in DOMAIN Embeds(m.select) :
              Embeds(m.select)[i].hint = "inner" => MeantRows(m, Embeds(m.select)[i], request.table, {<<>>}, r) # {}

-----------------------------------------------------------------------------
(* The walk: nodes by their distance from the start, over the edges that    *)
(* the walk filters leave.                                                  *)
Edge(m, r, q) ==
    LET w == m.walk
        e(a, b) == \E x \in Rows(request.db, w.edges) :
                      /\ x.src = a.id /\ x.dst = b.id /\ \A f \in ToSet(w.edgeFilters) : Meant(f, x) = Yes
    IN  /\ \A f \in ToSet(w.filters) : Meant(f, q) = Yes
        /\ CASE w.mode = "down" -> q.parent # "null" /\ q.parent = r.id
             [] w.mode = "up" -> r.parent # "null" /\ r.parent = q.id
             [] w.mode = "via" -> e(r, q)
             [] OTHER -> e(r, q) \/ e(q, r)

Seeds(m) == {r \in Rows(request.db, request.table) :
                r.id = m.walk.start /\ (m.walk.after \/ \A f \in ToSet(m.walk.filters) : Meant(f, r) = Yes)}
RECURSIVE Within(_, _)
Within(m, n) == IF n = 0 THEN Seeds(m)
                ELSE LET near == Within(m, n - 1)
                     IN  near \cup {q \in Rows(request.db, request.table) : \E r \in near : Edge(m, r, q)}

-----------------------------------------------------------------------------
(* The properties. *)
Is(kind) == statement # <<>> /\ statement.kind = kind
Asked    == request.meant

(* The parser reads back what the client wrote: every column, label, json   *)
(* path, cast, aggregate, resource and hint, however they are nested        *)
(* (selectItem).                                                            *)
SelectParsed ==
    stage = "build" /\ Asked.select # <<>> =>
        /\ Len(parts.select) = Len(Asked.select)
        /\ \A i \in DOMAIN Asked.select : ParsedAs(Asked.select[i], parts.select[i])

(* What is written as documented is read, whatever the nesting, up to the   *)
(* depth that is allowed, and nothing deeper is (Cond's guard).             *)
RECURSIVE NestingOf(_)
NestingOf(f) == IF f.kind = "test" THEN 1 ELSE 1 + Max({NestingOf(f.kids[i]) : i \in DOMAIN f.kids})
TooDeep      == \E f \in ToSet(Asked.filters) : NestingOf(f) > MaxFilterDepth
NestingBounded ==
    /\ stage = "build" => ~TooDeep
    /\ stage = "answered" /\ answer.status = 400 /\ parts = <<>> /\ request.unreadable = 0 => TooDeep

(* A row is kept by the WHERE that was built exactly when the client's      *)
(* conditions are true of it, with the precedence, the brackets and the     *)
(* markers SQL sees (parseWhereCondition, whereClause, appendValue), in     *)
(* reads, updates and deletes alike.                                        *)
FilterMeaning ==
    stage = "query" /\ statement.kind \in {"select", "update", "delete"} =>
        \A r \in Rows(request.db, request.table) :
            /\ WellFormed(statement.where, statement.alias :> r, statement.values)
            /\ Holds(statement.where, statement.alias :> r, statement.values) <=> AllMeant(Asked.filters, <<>>, r)

(* Every embedded resource holds the rows that the foreign keys it was      *)
(* asked through lead to and that its own filters keep, at every depth, and *)
(* an inner one drops the rows that have none (findRelationship,            *)
(* selectForJoinClause, the labels and paths of nextBuildStack). Of a       *)
(* statement whose lists PostgreSQL does not read nothing is claimed.       *)
Accepted(s) == IF s.kind \in {"select", "recursive"} THEN Legible(s.items, s.joins)
               ELSE ReturningError(s.returning, DOMAIN request.db[s.table][1]) = ""
Joined1(s) == IF s.kind \in {"select", "recursive"} THEN [alias |-> s.alias, joins |-> s.joins]
              ELSE [alias |-> "_source", joins |-> s.returning.joins]
EmbedMeaning ==
    stage = "query" /\ Returns /\ Embeds(Asked.select) # <<>> /\ Accepted(statement) =>
        \A r \in Rows(request.db, request.table) :
            LET js  == Joined1(statement).joins
                env == Joined1(statement).alias :> r
            IN  /\ JoinsWellFormed(js, env, request.db)
                /\ Nested(js, env, request.db)
                     = [i \in DOMAIN Embeds(Asked.select) |->
                           MeantRows(Asked, Embeds(Asked.select)[i], request.table, {<<>>}, r)]
                /\ Is("select") =>
                      ((Holds(statement.where, env, statement.values) /\ KeptBy(js, env, request.db))
                         <=> MeantTop(r))

(* Rows come in the order asked, at the top and in an embedded resource:    *)
(* each key with its direction and the end its nulls go to, and a key of a  *)
(* resource is that of the join which embeds it (orderItem, orderClause,    *)
(* validateRelatedOrder).                                                   *)
Sense(x)      == [descending |-> x.descending, nullsFirst |-> x.descending # x.invertNulls]
MeantSense(o) == [descending |-> o.dir = "desc",
                  nullsFirst |-> IF o.nulls = "" THEN o.dir = "desc" ELSE o.nulls = "nullsfirst"]
OrderedBy(xs, os, alias, joins) ==
    /\ Len(xs) = Len(os)
    /\ \A i \in DOMAIN os :
          /\ Sense(xs[i]) = MeantSense(os[i])
          /\ xs[i].column[2] = os[i].col
          /\ IF os[i].rel = "" THEN xs[i].column[1] = alias
             ELSE \E j \in ToSet(joins) : j.name = xs[i].column[1] /\ j.from = os[i].rel
OrderMeaning ==
    stage = "query" /\ Is("select") =>
        /\ OrderedBy(statement.order, SelectSeq(Asked.order, LAMBDA o : o.on = ""), statement.alias, statement.joins)
        /\ \A j \in ToSet(statement.joins) :
              OrderedBy(j.order, SelectSeq(Asked.order, LAMBDA o : o.on = j.from), j.alias, j.nested)

(* A walk answers with the nodes within the depth asked, without the start  *)
(* when asked, each once, and after the plain filters                       *)
(* (buildRecursiveSelect: its markers, its cycle guard, the pruning of the  *)
(* seed, the DISTINCT of via).                                              *)
WalkMeaning ==
    stage = "query" /\ Is("recursive") /\ ~BadPage(statement.page) =>
        LET all   == Recursive(statement, request.db)
            limit == IF Asked.walk.depth = -1 THEN MaxRecursiveDepth ELSE Lower(Asked.walk.depth, MaxRecursiveDepth)
            near  == Within(Asked, limit)
            start == IF Asked.walk.after THEN Seeds(Asked) ELSE {}
        IN  /\ {x.row : x \in all} = {r \in near \ start : MeantTop(r)}
            /\ \A x \in all : Times(statement, all, x.row) = 1
            /\ \A x \in Shallowest(all) : x.row \in Within(Asked, DepthOf(x))
                                          /\ (DepthOf(x) > 0 => x.row \notin Within(Asked, DepthOf(x) - 1))

(* The markers of a statement are $1 to $n, each used once, and n is the    *)
(* number of values bound: whatever the mix of columns, conditions, walk,   *)
(* limit and offset.                                                        *)
RECURSIVE MarkersIn(_)
MarkersIn(ts) == IF ts = <<>> THEN <<>>
                 ELSE SelectSeq([i \in 1..Len(Head(ts)) |-> Head(ts)[i]],
                                LAMBDA o : \E n \in 1..Len(statement.values) + 1 : o = Marker(n))
                      \o MarkersIn(Tail(ts))
PageMarkers(s) == (IF s.page.limited THEN <<s.pageMarker>> ELSE <<>>)
                  \o (IF s.page.shifted THEN <<s.pageMarker + (IF s.page.limited THEN 1 ELSE 0)>> ELSE <<>>)
Numbers(ns) == [i \in DOMAIN ns |-> Marker(ns[i])]
Used(s) ==
    CASE s.kind = "insert" -> Numbers(FlattenSeq(s.rows))
      [] s.kind = "update" -> Numbers([i \in DOMAIN s.set |-> s.set[i][2]]) \o MarkersIn(s.where)
      [] s.kind = "delete" -> MarkersIn(s.where)
      [] s.kind = "select" -> Numbers([i \in DOMAIN s.args |-> s.args[i][2]]) \o MarkersIn(s.where) \o Numbers(PageMarkers(s))
      [] OTHER -> MarkersIn(s.where) \o MarkersIn(s.edgeWhere) \o MarkersIn(s.stepWhere)
                  \o Numbers(<<s.startMarker, s.depthMarker>> \o PageMarkers(s))
MarkersBound ==
    stage = "query" =>
        /\ IsInjective(Used(statement))
        /\ ToSet(Used(statement)) = {Marker(n) : n \in 1..Len(statement.values)}

(* What a write leaves behind is what was asked: the records' columns in    *)
(* new rows or merged into the rows they clash with, for any order Go takes *)
(* the columns in; the rows the filters name changed, no other.             *)
WriteMeaning ==
    stage \in {"serialize", "respond"} /\ statement.kind \in {"insert", "update", "delete"} =>
        /\ result.after = Asked.after
        /\ Asked.paged => result.rows = Asked.page

(* A call gets each argument under its own name, whatever else the query    *)
(* string or the body holds (filterParameters, orderedRecordKeys).          *)
CallMeaning ==
    stage = "query" /\ request.call /\ Is("select") =>
        /\ {<<statement.args[i][1], statement.values[statement.args[i][2]]>> : i \in DOMAIN statement.args} = Asked.args
        /\ Len(statement.args) = Cardinality(Asked.args)

(* The page a client gets is the one it asked for, and the Content-Range    *)
(* says which: rows from..to of those that match, of how many. A counted    *)
(* page with no rows is one row of nulls, and the range of a counted page   *)
(* may reach past the last row (buildAfterSelect, SetResponseHeaders).      *)
Matching1   == SelectSeq(request.db[request.table], MeantTop)
Announced(a) == IF a.range.from = -1 THEN <<>>
                ELSE SubSeq(Matching1, a.range.from + 1, Lower(a.range.to + 1, Len(Matching1)))
PageMeaning ==
    stage = "answered" /\ request.method = "GET" /\ Asked.paged /\ answer.status \in {200, 206} =>
        /\ answer.body = IF Counted /\ Asked.page = <<>> THEN <<NullRow>> ELSE Asked.page
        /\ Announced(answer) = Asked.page
        /\ answer.range.total = IF options.count THEN Len(Matching1) ELSE -1
=============================================================================
