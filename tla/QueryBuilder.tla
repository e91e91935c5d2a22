---------------------------- MODULE QueryBuilder ----------------------------
(***************************************************************************)
(* The query builder (database/querybuilder.go): from the parts of a query *)
(* and what is known of the schema to one SQL statement and the values of  *)
(* its markers. A statement is a record of its clauses. A condition stays  *)
(* the sequence of tokens it is in the code, because its brackets and its  *)
(* operators decide what it means; a token is a tuple of strings.          *)
(*                                                                         *)
(* info is the schema cache: the relationships of a table, in the order    *)
(* they were found; the columns that hold an array or a composite; those   *)
(* that are not a tsvector; primary keys; functions. There is one schema,  *)
(* so names carry none.                                                    *)
(***************************************************************************)
EXTENDS RequestParser, SchemaInfo

CONSTANTS
    MaxRecursiveDepth,      \* config.MaxRecursiveDepth: 0 disables, -1 leaves the default
    DefaultMaxDepth         \* defaultMaxRecursiveDepth

ASSUME BuilderAssumption ==
    /\ MaxRecursiveDepth \in Nat \cup {-1}
    /\ DefaultMaxDepth \in Nat \ {0}

Label(table, n) == table \o "_" \o ToString(n)
Lit(v)          == "'" \o v \o "'"
Marker(n)       == "$" \o ToString(n)

(* BuildStack: where in the tree of embedded resources a clause is built. *)
Outermost(info) == [info |-> info, level |-> 0, rels |-> <<>>, labels |-> <<>>, cols |-> <<>>,
                    source |-> FALSE]
NextStack(st, rel, label, col) ==
    [st EXCEPT !.level = @ + 1, !.rels = Append(@, rel), !.labels = Append(@, label),
               !.cols = Append(@, col), !.source = FALSE]

-----------------------------------------------------------------------------
(* Columns: the alias, the name and the json path, with its conversion. *)
Column(alias, table, f, info) ==
    <<alias, f.name,
      FoldLeft(LAMBDA acc, m : acc \o m[1] \o m[2],
               IF f.json # <<>> /\ <<table, f.name>> \in info.composite THEN "to_jsonb" ELSE "", f.json)>>

PrepareField(alias, s, info) ==
    LET all == s.aggregate = "count" /\ s.field.name = "*"
    IN  [kind |-> "field", column |-> IF all THEN <<"", "*", "">> ELSE Column(alias, alias, s.field, info),
         cast |-> IF all THEN "" ELSE s.cast, aggregate |-> s.aggregate, aggCast |-> s.aggCast,
         label |-> s.label]

GroupByClause(table, fields, info) ==
    LET plain == SelectSeq(fields, LAMBDA s : s.kind = "field" /\ s.aggregate = "" /\ s.field.name # "*")
    IN  IF \E i \in DOMAIN fields : fields[i].kind = "field" /\ fields[i].aggregate # ""
        THEN [i \in DOMAIN plain |-> <<Column(table, table, plain[i].field, info), plain[i].cast>>]
        ELSE <<>>

-----------------------------------------------------------------------------
(* WHERE. appendValue: a keyword, the next marker, or a literal when the   *)
(* markers are off (-1).                                                   *)
Symbols == {"null", "true", "false", "unknown"}
AppendValue(acc, v, force) ==
    CASE ~force /\ v = "not_null" -> [acc EXCEPT !.operands = Append(@, "NOT NULL")]
      [] ~force /\ v \in Symbols -> [acc EXCEPT !.operands = Append(@, v)]
      [] acc.n >= 0 -> [operands |-> Append(acc.operands, Marker(acc.n + 1)), n |-> acc.n + 1,
                        values |-> Append(acc.values, v)]
      [] OTHER -> [acc EXCEPT !.operands = Append(@, Lit(v))]

AppendValues(vs, n, force) ==
    FoldLeft(LAMBDA acc, v : AppendValue(acc, v, force), [operands |-> <<>>, values |-> <<>>, n |-> n], vs)

NotTokens(node) == IF node.not THEN <<<<"NOT">>>> ELSE <<>>
(* Brackets; and a mutant: there are none. *)
NoBrackets(wrap, ts) == ts
Wrap(wrap, ts)  == IF wrap THEN <<<<"(">>>> \o ts \o <<<<")">>>> ELSE ts
JoinTokens(op, tss) == FoldLeft(LAMBDA acc, ts : IF acc = <<>> THEN ts ELSE acc \o <<<<op>>>> \o ts, <<>>, tss)

TextSearch == [fts |-> "to_tsquery", plfts |-> "plainto_tsquery", phfts |-> "phraseto_tsquery",
               wfts |-> "websearch_to_tsquery"]

(* One comparison: <<"is", alias, name, json, operator, operands...>>. *)
Compared(table, node, st, r) ==
    LET search == node.op = "@@"
        many   == node.op = "IN" \/ node.mod # ""
        column == Column(IF st.level = 0 THEN table ELSE Label(table, st.level), table, node.field, st.info)
        lang   == IF node.args = <<>> THEN "'english'" ELSE Lit(node.args[1])
        left   == IF search /\ <<table, node.field.name>> \in st.info.untyped THEN <<"to_tsvector", lang>> ELSE <<>>
        right  == IF search THEN <<TextSearch[node.opSource]>> \o [i \in DOMAIN node.args |-> Lit(node.args[i])] ELSE <<>>
        Is(operands) == <<<<"is">> \o left \o column \o operands>>
    IN  CASE node.mod # "" -> Wrap(TRUE, JoinTokens(IF node.mod = "any" THEN "OR" ELSE "AND",
                                                    [i \in DOMAIN r |-> Is(<<node.op, r[i]>>)]))
          [] node.op = "IN" /\ node.values = <<>> -> Is(<<"=", "ANY('{}')">>)
          [] ~many /\ node.values = <<>> -> <<<<"panic">>>>
          [] OTHER -> Is(<<node.op>> \o right \o r)

Comparison1(table, node, n, st) ==
    LET force == node.field.json # <<>> /\ node.op # "@@"
        many  == node.op = "IN" \/ node.mod # ""
        Text1(r) == [text |-> NotTokens(node) \o Compared(table, node, st, r.operands), values |-> r.values]
    IN  Text1(AppendValues(IF many THEN node.values ELSE SubSeq(node.values, 1, 1), n, force))

(* A node belongs to the clause of the resource its path leads to. *)
BelongsAnywhere(path, st) == Len(path) = st.level    \* a mutant: by its depth only
BelongsTo(path, st) ==
    /\ Len(path) = st.level
    /\ \A i \in DOMAIN path : path[i] \in {st.rels[i], st.labels[i], st.cols[i]}

(* done is the set of the nodes (by their place in the tree) already inserted. *)
RECURSIVE Where(_, _, _, _, _, _)
Where(table, node, id, n, st, done) ==
    LET Joined1(acc, r) ==
            [text |-> (IF acc.text = <<>> THEN <<>>
                       ELSE Append(acc.text, <<IF node.op = "" THEN "AND" ELSE node.op>>)) \o r.text,
             values |-> acc.values \o r.values, n |-> acc.n + Len(r.values), done |-> r.done]
        Child(acc, i) ==
            IF ~BelongsTo(node.children[i].field.path, st) THEN acc
            ELSE Joined1(acc, Where(table, node.children[i], Append(id, i), acc.n, st, acc.done))
        Branch(all) == [text |-> NotTokens(node) \o Wrap(node.not \/ node.op = "OR", all.text),
                        values |-> all.values, done |-> all.done]
    IN  CASE node.op = "" \/ node.field.name = "" ->
               Branch(FoldLeftDomain(Child, [text |-> <<>>, values |-> <<>>, n |-> n, done |-> done], node.children))
          [] id \in done -> [text |-> <<>>, values |-> <<>>, done |-> done]
          [] OTHER -> Comparison1(table, node, n, st) @@ [done |-> done \cup {id}]

(* The whole tree, its markers after the first n; and a mutant: from $1 on. *)
WhereFromFirst(table, tree, n, st, done) == Where(table, tree, <<>>, IF n > 0 THEN 0 ELSE n, st, done)
WhereClause(table, tree, n, st, done) == Where(table, tree, <<>>, n, st, done)

-----------------------------------------------------------------------------
(* The relationship an embedded resource names: the only one to that table; *)
(* for a table with itself the second one; or a function, a column, a key.  *)
Preferred(direct, computed, byCol, byKey) ==
    CASE Len(direct) = 1 -> direct[1]
      [] direct # <<>> -> direct[2]
      [] computed # <<>> -> computed[1]
      [] byCol # NoRel -> byCol
      [] OTHER -> byKey

Found(rel) == IF rel = NoRel THEN Fail("cannot find relationship") ELSE Done(0, rel)

FindRelationship(info, table, relation, fk) ==
    LET Among(rels, direct) ==
            IF Len(direct) > 2 \/ (Len(direct) = 2 /\ table # relation)
            THEN Fail("more than one possible relationship")
            ELSE Found(Preferred(direct, SelectSeq(rels, LAMBDA r : r.type = "Computed" /\ r.function = relation),
                               FindRelationshipByCol(rels, IF fk # "" THEN fk ELSE relation),
                               IF fk # "" THEN NoRel ELSE FindRelationshipByFK(rels, relation)))
        Listed(rels) == Among(rels, FilterRelationships(rels, relation, fk))
    IN  Listed(GetRelationships(info, table))

ToMany(rel) == rel.type \in {"O2M", "M2M"} \/ (rel.type = "Computed" /\ rel.isSet)
LabelOf(s)  == IF s.label = "" THEN s.name ELSE s.label
ParentOf(s, table) == IF s.parent = "" THEN table ELSE s.parent

-----------------------------------------------------------------------------
(* ORDER BY. A related order must name an embedded to-one resource. *)
ValidateRelatedOrder(table, o, fields, info) ==
    LET named == SelectSeq(fields, LAMBDA s : s.kind = "relation" /\ o.relation \in {LabelOf(s), s.name})
    IN  IF named = <<>> THEN Fail("not an embedded resource in this request")
        ELSE Then(FindRelationship(info, ParentOf(named[1], table), named[1].name, named[1].fk), LAMBDA rel :
                  IF ToMany(rel.v) THEN Fail("a related order is not possible") ELSE Done(0, LabelOf(named[1])))

OrderClause(table, alias, level, orders, fields, info) ==
    LET OrderColumn(o) ==
            IF o.relation = "" THEN Done(0, Column(alias, table, o.field, info))
            ELSE Then(ValidateRelatedOrder(table, o, fields, info), LAMBDA m :
                      Done(0, Column(Label(table \o "_" \o m.v, level + 1), "", o.field, info)))
        Step(acc, o) ==
            Then(acc, LAMBDA a : Then(OrderColumn(o), LAMBDA c :
                 Done(0, Append(a.v, [column |-> c.v, descending |-> o.descending, invertNulls |-> o.invertNulls]))))
    IN  FoldLeft(Step, Done(0, <<>>), SelectSeq(orders, LAMBDA o : o.field.table = table))

-----------------------------------------------------------------------------
(* One lateral join. ctx holds the conditions and orders of the request. *)
SourceOf(table, alias, st) ==
    CASE st.source -> "_source" [] st.level > 0 -> Label(table, st.level) [] alias # "" -> alias [] OTHER -> table
Inner(st, name, label, rel) ==
    NextStack(st, IF rel.type = "Computed" THEN name ELSE rel.related, label,
              IF Len(rel.cols) = 1 THEN rel.cols[1] ELSE "")

JoinedOn(rel, mine, parent) ==
    IF rel.junction = "" THEN {<<mine, rel.relCols[i], parent, rel.cols[i]>> : i \in DOMAIN rel.cols}
    ELSE {<<rel.junction, rel.jCols[i], parent, rel.cols[i]>> : i \in DOMAIN rel.jCols}
         \cup {<<rel.junction, rel.jRelCols[i], mine, rel.relCols[i]>> : i \in DOMAIN rel.jRelCols}

Joined2(j, mine, parent, where, order) ==
    [err |-> order.err, done |-> where.done,
     join |-> [name |-> j.name, inner |-> j.inner, many |-> ToMany(j.rel), items |-> j.items,
               from |-> IF j.rel.type = "Computed" THEN j.rel.function ELSE j.rel.related, alias |-> mine,
               junction |-> j.rel.junction, parent |-> parent, on |-> JoinedOn(j.rel, mine, parent), nested |-> j.nested,
               where |-> where.text, order |-> order.v]]

JoinClause(j, alias, ctx, st, done) ==
    LET rel    == j.rel
        mine   == Label(rel.related, st.level + 1)
        inside == rel.type = "Computed" \/ rel.table # rel.related
    IN  Joined2(j, mine, SourceOf(rel.table, alias, st),
                IF inside THEN WhereClause(rel.related, ctx.tree, -1, Inner(st, j.relName, j.label, rel), done)
                ELSE [text |-> <<>>, values |-> <<>>, done |-> done],
                IF inside THEN OrderClause(rel.related, mine, st.level + 1, ctx.orders, j.fields, st.info)
                ELSE Done(0, <<>>))

(* The select list, the joins its embedded resources need, and the columns *)
(* those are joined on.                                                    *)
Separator(i) == IF i = 1 THEN <<>> ELSE <<[kind |-> "comma"]>>

RECURSIVE SelectClause(_, _, _, _, _, _)

Pending(acc, s, i, rel, name, inner) ==
    LET kind == IF s.spread THEN "spread" ELSE IF ToMany(rel) THEN "rows" ELSE "row"
        item == IF s.fields = <<>> THEN <<>>
                ELSE Append(Separator(i), [kind |-> kind, from |-> name, label |-> LabelOf(s)])
    IN  CASE s.fields # <<>> /\ s.spread /\ ToMany(rel) -> [acc EXCEPT !.err = "a spread is not possible"]
          [] inner.err # "" -> [acc EXCEPT !.err = inner.err]
          [] OTHER -> [acc EXCEPT !.items = @ \o item, !.done = inner.done,
                         !.pending = Append(@, [name |-> name, items |-> inner.items, nested |-> inner.joins,
                                                inner |-> s.inner, rel |-> rel, label |-> s.label,
                                                relName |-> s.name, fields |-> s.fields])]

Relation(table, i, s, ctx, st, acc) ==
    LET Embed(found) ==
            IF Failed(found) THEN [acc EXCEPT !.err = found.err]
            ELSE Pending(acc, s, i, found.v, Label(ParentOf(s, table) \o "_" \o LabelOf(s), st.level + 1),
                         SelectClause(found.v.related, "", s.fields, [ctx EXCEPT !.orders = <<>>],
                                      Inner(st, s.name, s.label, found.v), acc.done))
    IN  Embed(FindRelationship(st.info, ParentOf(s, table), s.name, s.fk))

SelectClause(table, alias, fields, ctx, st, done) ==
    LET own == SourceOf(table, alias, st)
        Item1(acc, i) ==
            LET s == fields[i]
            IN  CASE acc.err # "" -> acc
                  [] s.kind = "relation" -> Relation(table, i, s, ctx, st, acc)
                  [] OTHER -> [acc EXCEPT !.items = @ \o Append(Separator(i), PrepareField(own, s, st.info))]
        Keys(rel) == IF rel.type = "Computed" THEN <<>> ELSE [k \in DOMAIN rel.cols |-> <<rel.table, rel.cols[k]>>]
        Add(acc, j, r) == [acc EXCEPT !.err = r.err, !.done = r.done, !.joins = Append(@, r.join), !.keys = @ \o Keys(j.rel)]
        Join(acc, j) == IF acc.err # "" THEN acc ELSE Add(acc, j, JoinClause(j, alias, ctx, st, acc.done))
        Joins(listed) ==
            FoldLeft(Join, [err |-> listed.err, done |-> listed.done, joins |-> <<>>, keys |-> <<>>,
                            items |-> IF listed.items = <<>> THEN <<[kind |-> "star"]>> ELSE listed.items],
                     listed.pending)
    IN  Joins(FoldLeftDomain(Item1, [err |-> "", items |-> <<>>, pending |-> <<>>, done |-> done], fields))

-----------------------------------------------------------------------------
(* RETURNING: the plain fields, the keys the embedded resources need, and   *)
(* the select from _source that embeds them. An error of it is dropped. The *)
(* text begins with RETURNING, so the test for an empty one puts a comma    *)
(* before every key, also where no field precedes it; and a key that two    *)
(* resources need is there twice.                                           *)
NoReturning == [list |-> <<>>, embeds |-> FALSE, items |-> <<>>, joins |-> <<>>]

ReturningClause(table, parts, info, done) ==
    LET plain  == SelectSeq(parts.select, LAMBDA s : s.kind = "field")
        own    == [i \in DOMAIN plain |-> PrepareField(table, plain[i], info)]
        fields == FlattenSeq([i \in DOMAIN own |-> Append(Separator(i), own[i])])
        bare   == {own[i].column : i \in {k \in DOMAIN own : own[k].cast = "" /\ own[k].aggregate = ""
                                                               /\ own[k].label = ""}}
        Key(k) == <<[kind |-> "comma"], [kind |-> "key", column |-> <<k[1], k[2], "">>, label |-> ""]>>
        Keys(ks) == FlattenSeq([i \in DOMAIN ks |-> IF <<ks[i][1], ks[i][2], "">> \in bare THEN <<>> ELSE Key(ks[i])])
        Embedding(sc) ==
            IF sc.err # "" THEN [NoReturning EXCEPT !.list = fields, !.embeds = TRUE]
            ELSE [list |-> fields \o Keys(sc.keys), embeds |-> TRUE, items |-> sc.items, joins |-> sc.joins]
    IN  CASE parts.select = <<>> -> [NoReturning EXCEPT !.list = <<[kind |-> "star"]>>]
          [] Len(plain) = Len(parts.select) -> [NoReturning EXCEPT !.list = fields]
          [] OTHER -> Embedding(SelectClause(table, "", parts.select, [tree |-> parts.where, orders |-> parts.order],
                                             [Outermost(info) EXCEPT !.source = TRUE], done))

Returning(table, parts, options, info, done) ==
    IF options.representation THEN ReturningClause(table, parts, info, done) ELSE NoReturning

(* The columns asked for, in the order Go ranges over the record's map; and *)
(* a mutant: all of them.                                                   *)
AllColumns(keys, parts) == keys
Columns(keys, parts) == SelectSeq(keys, LAMBDA k : parts.columns = {} \/ k \in parts.columns)

OnConflictClause(table, fields, parts, options, info) ==
    LET keyed  == parts.conflict # {} \/ table \in DOMAIN info.pk
        action == CASE options.ignore -> "nothing" [] options.merge -> "update" [] OTHER -> ""
    IN  IF (options.merge \/ options.ignore \/ parts.conflict # {}) /\ keyed
        THEN [target |-> IF parts.conflict # {} THEN parts.conflict ELSE ToSet(info.pk[table]),
              action |-> action, set |-> IF action = "update" THEN fields ELSE <<>>]
        ELSE [target |-> {}, action |-> "none", set |-> <<>>]

(* The values of row i take the markers after those of the rows before it. *)
BuildInsert(table, records, keys, parts, options, info) ==
    LET fields == Columns(keys, parts)
        n      == Len(fields)
        rows   == [i \in DOMAIN records |-> [j \in 1..n |-> (i - 1) * n + j]]
        Value1(r, f) == IF f \in DOMAIN r THEN r[f] ELSE "null"
    IN  [kind |-> "insert", table |-> table, fields |-> fields, rows |-> IF n = 0 THEN <<>> ELSE rows,
         values |-> FlattenSeq([i \in DOMAIN records |-> [j \in 1..n |-> Value1(records[i], fields[j])]]),
         conflict |-> OnConflictClause(table, fields, parts, options, info),
         returning |-> Returning(table, parts, options, info, {})]

BuildUpdate(table, record, keys, parts, options, info) ==
    LET fields == Columns(keys, parts)
        Statement(where) ==
            [kind |-> "update", table |-> table, alias |-> table, set |-> [i \in DOMAIN fields |-> <<fields[i], i>>],
             where |-> where.text, values |-> [i \in DOMAIN fields |-> record[fields[i]]] \o where.values,
             returning |-> Returning(table, parts, options, info, where.done)]
    IN  Statement(WhereClause(table, parts.where, Len(fields), Outermost(info), {}))

BuildDelete(table, parts, options, info) ==
    LET Statement(where) ==
            [kind |-> "delete", table |-> table, alias |-> table, where |-> where.text, values |-> where.values,
             returning |-> Returning(table, parts, options, info, where.done)]
    IN  Statement(WhereClause(table, parts.where, 0, Outermost(info), {}))

-----------------------------------------------------------------------------
(* LIMIT and OFFSET, as the end of buildAfterSelect and of                  *)
(* buildRecursiveSelect have them: the values they bind, and the range of   *)
(* the options, which the answer's headers are made of.                     *)
None == -1
(* The last row of a page, as an offset moves it; and a mutant: it does not. *)
Unmoved(max, offset) == max
MovedBy(max, offset) == (IF max = -1 THEN 0 ELSE max) + offset
Page(parts, o) ==
    LET limited  == parts.limit # None \/ (o.hasRange /\ o.max # -1)
        shifted  == parts.offset # None \/ o.hasRange
        limit    == IF o.hasRange THEN o.max - o.min + 1 ELSE parts.limit
        offset   == IF o.hasRange THEN o.min ELSE parts.offset
        max1     == IF limited /\ ~o.hasRange THEN limit - 1 ELSE o.max
    IN  [limited |-> limited, shifted |-> shifted, limit |-> IF limited THEN limit ELSE -1,
         offset |-> IF shifted THEN offset ELSE -1,
         min |-> IF shifted THEN offset ELSE o.min,
         max |-> IF shifted /\ ~o.hasRange THEN MovedBy(max1, offset) ELSE max1]

PageValues(p) == (IF p.limited THEN <<ToString(p.limit)>> ELSE <<>>)
                 \o (IF p.shifted THEN <<ToString(p.offset)>> ELSE <<>>)

BuildAfterSelect(stmt, values, parts, options) ==
    LET p == Page(parts, options)
    IN  stmt @@ [kind |-> "select", page |-> p, values |-> values \o PageValues(p),
                 pageMarker |-> Len(values) + 1,
                 counted |-> options.count /\ (p.limit # -1 \/ p.offset > 0)]

-----------------------------------------------------------------------------
(* WITH RECURSIVE. The markers go via, walk, start, depth, after those of   *)
(* the plain filters.                                                       *)
Uncapped(rec) == IF rec.maxDepth < 0 THEN MaxRecursiveDepth ELSE rec.maxDepth     \* a mutant: no maximum
MaxDepth(rec) == LET serverMax == IF MaxRecursiveDepth > 0 THEN MaxRecursiveDepth ELSE DefaultMaxDepth
                 IN  IF rec.maxDepth < 0 \/ rec.maxDepth > serverMax THEN serverMax ELSE rec.maxDepth

Selects(parts, name) == \E i \in DOMAIN parts.select :
                            parts.select[i].kind = "field" /\ parts.select[i].field.name = name
Orders(parts, name)  == \E i \in DOMAIN parts.order : parts.order[i].field.name = name

RecursionRefused(parts, joins) ==
    CASE MaxRecursiveDepth = 0 -> "recursive queries are disabled"
      [] joins # <<>> /\ parts.recursive.viaTable # <<>> -> "embedding is not supported with via() recursion"
      [] Selects(parts, "__path") -> "__path is internal"
      [] OTHER -> ""

(* The conditions on the edges and on the nodes of the walk: n markers are taken. *)
WalkConditions(table, rec, n, info) ==
    LET Nodes(via, walk) == [edges |-> via.text, nodes |-> walk.text, values |-> via.values \o walk.values]
        Edges(via) == Nodes(via, WhereClause(table, rec.walk, n + Len(via.values), Outermost(info), {}))
    IN  Edges(WhereClause(Joined(rec.viaTable), rec.via, n,
                          Outermost([info EXCEPT !.composite = {}, !.untyped = {}]), {}))

(* The two arms of the CTE. The step goes from the node before to the new   *)
(* one by a pair of columns, which up swaps, or by an edge.                 *)
Arms(table, rec, conditions, n) ==
    LET start   == Joined(rec.startField)
        recurse == Joined(rec.recurseField)
    IN  [table |-> table, key |-> start,
         newCol |-> IF rec.up THEN start ELSE recurse, prevCol |-> IF rec.up THEN recurse ELSE start,
         edges |-> Joined(rec.viaTable), from |-> rec.from, to |-> rec.to, both |-> rec.both,
         edgeWhere |-> conditions.edges, stepWhere |-> conditions.nodes,
         seedWhere |-> IF rec.excludeStart THEN <<>> ELSE conditions.nodes,
         startMarker |-> n + 1, depthMarker |-> n + 2]

(* The query over the CTE. With edges a node may come more than once: it is *)
(* reported once, at its least depth when the depth is looked at.           *)
OuterQuery(parts, sc, where, order) ==
    LET edges == parts.recursive.viaTable # <<>>
        depth == Selects(parts, "__depth")
    IN  [skipSeed |-> parts.recursive.excludeStart, where |-> where, items |-> sc.items, joins |-> sc.joins,
         order |-> order, leaksDepth |-> edges /\ Orders(parts, "__depth") /\ ~depth,
         dedup |-> edges /\ (depth \/ Orders(parts, "__depth")),
         distinct |-> edges /\ ~depth /\ ~Orders(parts, "__depth")]

BuildRecursiveSelect(table, parts, options, sc, main, order, info) ==
    LET rec     == parts.recursive
        page    == Page(parts, options)
        Statement(cond, before) ==
            [kind |-> "recursive", alias |-> table, page |-> page, pageMarker |-> Len(before) + 3, counted |-> FALSE,
             values |-> before \o <<rec.startValue, ToString(MaxDepth(rec))>> \o PageValues(page)]
            @@ Arms(table, rec, cond, Len(before)) @@ OuterQuery(parts, sc, main.text, order)
        Walking(cond) == Statement(cond, main.values \o cond.values)
        refused == RecursionRefused(parts, sc.joins)
    IN  IF refused # "" THEN Fail(refused)
        ELSE Done(0, Walking(WalkConditions(table, rec, Len(main.values), info)))

(* The SELECT of a table. *)
BuildSelect(table, parts, options, info) ==
    LET st     == Outermost(info)
        group  == GroupByClause(table, parts.select, info)
        After(sc, where, order) ==
            CASE parts.recursive = NoRecursion ->
                   Done(0, BuildAfterSelect([table |-> table, alias |-> table, items |-> sc.items, joins |-> sc.joins,
                              where |-> where.text, group |-> group, order |-> order, args |-> <<>>],
                           where.values, parts, options))
              [] group # <<>> -> Fail("aggregate functions cannot be used with recursive queries")
              [] OTHER -> BuildRecursiveSelect(table, parts, options, sc, where, order, info)
    IN  Then(SelectClause(table, "", parts.select, [tree |-> parts.where, orders |-> parts.order], st, {}), LAMBDA sc :
        Then(OrderClause(table, table, 0, parts.order, parts.select, info), LAMBDA order :
             After(sc, WhereClause(table, parts.where, 0, st, sc.done), order.v)))

(* The call of a function: declared arguments first, in their order, then   *)
(* the others (sorted is the record's keys in alphabetical order).          *)
RepeatedKeys(record, sorted, parts, f) ==       \* a mutant: the declared ones come again
    Columns([i \in DOMAIN f.args |-> f.args[i].name], parts) \o Columns(sorted, parts)
OrderedRecordKeys(record, sorted, parts, f) ==
    LET declared == IF f.unnamed THEN <<>>
                    ELSE SelectSeq(f.args, LAMBDA a : a.mode = "in" /\ a.name \in DOMAIN record)
        names    == Columns([i \in DOMAIN declared |-> declared[i].name], parts)
    IN  names \o SelectSeq(Columns(sorted, parts), LAMBDA k : k \notin ToSet(names))

(* A composite output column is wrapped when every column is asked for. *)
OutputItems(f, sc, info) ==
    LET out(a) == [kind |-> IF a.composite THEN "to_json" ELSE "column", name |-> a.name]
        outs   == SelectSeq(f.args, LAMBDA a : a.mode = "out")
    IN  IF sc.items = <<[kind |-> "star"]>> /\ f.out /\ \E i \in DOMAIN outs : outs[i].composite
        THEN [i \in DOMAIN outs |-> out(outs[i])] ELSE sc.items

BuildExecute(name, record, sorted, parts, options, info) ==
    LET f      == GetFunction(info, name)
        keys   == OrderedRecordKeys(record, sorted, parts, f)
        st     == Outermost(info)
        orders == [i \in DOMAIN parts.order |-> [parts.order[i] EXCEPT !.field.table = "t"]]
        Calling(sc, where, order) ==
            BuildAfterSelect([table |-> name, alias |-> "t", items |-> OutputItems(f, sc, info), joins |-> sc.joins,
                              where |-> where.text, group |-> <<>>, order |-> order,
                              args |-> [i \in DOMAIN keys |-> <<keys[i], i>>]],
                             [i \in DOMAIN keys |-> record[keys[i]]] \o where.values, parts, options)
    IN  Then(SelectClause(f.table, "t", parts.select, [tree |-> parts.where, orders |-> parts.order], st, {}), LAMBDA sc :
        Then(OrderClause("t", "t", 0, orders, parts.select, info), LAMBDA order :
             Done(0, Calling(sc, WhereClause("t", parts.where, Len(keys), st, sc.done), order.v))))
=============================================================================
