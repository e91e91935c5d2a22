---------------------------- MODULE RequestParser ----------------------------
(***************************************************************************)
(* The request parser (database/requestparser.go): the clauses of a query  *)
(* string, as the sequences of symbols they are made of, and the parts of  *)
(* the query the builder works on. A symbol is a name, a separator or a    *)
(* quote; symbols are already the longest ones ("->>" is one, not three).  *)
(* The parser is a value with tokens and a cursor: here every operation    *)
(* takes the tokens and the cursor and returns the cursor it leaves.       *)
(* Here and in the modules that extend this one, the arms of a CASE are    *)
(* read in order, as TLC does: they are the code's switches and else-ifs.  *)
(***************************************************************************)
EXTENDS Integers, Sequences, SequencesExt, FiniteSets, TLC

CONSTANTS
    CastTypes,          \* the names isValidCastType accepts
    AggregatesEnabled,  \* Database.AggregatesEnabled
    MaxFilterDepth,     \* maxFilterDepth
    MaxNumber           \* bound: the numbers written in a request

ASSUME ParserAssumption ==
    /\ "" \notin CastTypes
    /\ AggregatesEnabled \in BOOLEAN
    /\ MaxFilterDepth \in Nat \ {0}
    /\ MaxNumber \in Nat

-----------------------------------------------------------------------------
(* Results: an error message, or a value and the cursor after it. *)
Fail(msg)  == [err |-> msg, at |-> 0, v |-> <<>>]
Done(i, v) == [err |-> "", at |-> i, v |-> v]
Failed(r)  == r.err # ""

(* What comes after a reading or a step that may have failed. *)
Then(r, Next1(_)) == IF Failed(r) THEN r ELSE Next1(r)

IsNumber(s) == \E n \in 0..MaxNumber : ToString(n) = s
IntOf(s)    == CHOOSE n \in 0..MaxNumber : ToString(n) = s

Operators ==
    [eq |-> "=", gte |-> ">=", gt |-> ">", lte |-> "<=", lt |-> "<", neq |-> "<>",
     like |-> "LIKE", ilike |-> "ILIKE", match |-> "~", imatch |-> "~*", in |-> "IN",
     is |-> "IS", cs |-> "@>", cd |-> "<@", ov |-> "&&", sl |-> "<<", sr |-> ">>",
     nxr |-> "&<", nxl |-> "&>", adj |-> "-|-", isdistinct |-> "IS DISTINCT FROM",
     fts |-> "@@", plfts |-> "@@", phfts |-> "@@", wfts |-> "@@",
     not |-> "", start |-> "", after |-> "", recurse |-> "", via |-> ""]

ReservedWords == {"select", "column", "order", "limit", "offset", "not", "and", "or",
                  "on_conlict", "jq", "jq_args"}

Aggregates == {"avg", "count", "max", "min", "sum"}

-----------------------------------------------------------------------------
(* The scanner. *)
Token(t, q) == [t |-> t, q |-> q]
Flush(st)   == IF st.normal = "" THEN st.out ELSE Append(st.out, Token(st.normal, FALSE))

ScanStep(seps, st, c) ==
    CASE st.esc /\ st.quot -> [st EXCEPT !.esc = FALSE, !.quoted = @ \o c]
      [] st.esc /\ ~st.quot -> [st EXCEPT !.esc = FALSE, !.normal = @ \o c]
      [] st.quot /\ c \in {"\"", "'"} ->
            [st EXCEPT !.quot = FALSE, !.wasSep = TRUE, !.out = Append(@, Token(st.quoted, TRUE))]
      [] st.quot /\ c = "\\" -> [st EXCEPT !.esc = TRUE]
      [] st.quot -> [st EXCEPT !.quoted = @ \o c]
      [] st.wasSep /\ c = " " -> st
      [] c = "\\" -> [st EXCEPT !.esc = TRUE]
      [] c \in {"\"", "'"} ->
            [st EXCEPT !.quot = TRUE, !.quoted = "", !.wasSep = FALSE, !.normal = "", !.out = Flush(st)]
      [] c \in seps ->
            [st EXCEPT !.wasSep = TRUE, !.normal = "", !.out = Append(Flush(st), Token(c, FALSE))]
      [] OTHER -> [st EXCEPT !.normal = @ \o c, !.wasSep = FALSE]

Scan(s, seps) ==
    Flush(FoldLeft(LAMBDA st, c : ScanStep(seps, st, c),
                   [out |-> <<>>, normal |-> "", quoted |-> "", quot |-> FALSE, esc |-> FALSE,
                    wasSep |-> TRUE], s))

SelectSeps == {".", ",", "(", ")", ":", "!", "->>", "->", "::", "...", "()"}
OrderSeps  == {".", ",", "(", ")", "->>", "->"}
WhereSeps  == {"=", ".", ",", "(", ")", "[", "]", "{", "}", ":", "->>", "->"}

(* lookAhead, and the cursor after next: at the end it stays where it is. *)
Text(ts, i) == IF i <= Len(ts) THEN ts[i].t ELSE ""
Adv(ts, i)  == IF i <= Len(ts) THEN i + 1 ELSE i

-----------------------------------------------------------------------------
(* A field: a name, the tables before it, the json path after it. *)
RECURSIVE RelPath(_, _, _), JsonPath(_, _, _)
RelPath(ts, i, path) ==
    IF Text(ts, Adv(ts, i)) = "."
    THEN RelPath(ts, Adv(ts, i) + 1, Append(path, Text(ts, i)))
    ELSE [at |-> i, path |-> path]

JsonPath(ts, i, path) ==
    CASE Text(ts, i) \notin {"->", "->>"} -> Done(i, path)
      [] Text(ts, i + 1) = "" -> Fail("json path member expected")
      [] OTHER -> JsonPath(ts, i + 2, Append(path, <<Text(ts, i), Text(ts, i + 1)>>))

LastMember(name, path) ==
    LET named == SelectSeq(path, LAMBDA m : ~IsNumber(m[2]))
    IN  CASE path = <<>> -> "" [] named = <<>> -> name [] OTHER -> named[Len(named)][2]

Field(ts, i, mayHaveTable, mayBeEmpty) ==
    LET p    == IF mayHaveTable THEN RelPath(ts, i, <<>>) ELSE [at |-> i, path |-> <<>>]
        name == IF Text(ts, i) = "" THEN "*" ELSE Text(ts, p.at)
    IN  IF Text(ts, i) = "" /\ ~mayBeEmpty THEN Fail("field expected")
        ELSE Then(JsonPath(ts, Adv(ts, p.at), <<>>), LAMBDA json :
                  Done(json.at, [name |-> name, path |-> p.path, json |-> json.v,
                                 table |-> IF p.path = <<>> THEN "" ELSE Last(p.path),
                                 last |-> LastMember(name, json.v)]))

StarField == [name |-> "*", path |-> <<>>, json |-> <<>>, table |-> "", last |-> ""]

-----------------------------------------------------------------------------
(* SELECT. An item is read in three parts: what precedes the name, the name *)
(* with its casts and aggregate, and the hint after it.                     *)
Blank == [err |-> "", at |-> 0, spread |-> FALSE, label |-> "", field |-> StarField, cast |-> "",
          aggregate |-> "", aggCast |-> "", fk |-> "", inner |-> FALSE]

ItemHead(ts, i) ==
    LET spread == Text(ts, i) = "..."
        p      == IF spread THEN i + 1 ELSE i
    IN  IF Text(ts, Adv(ts, p)) = ":"
        THEN [Blank EXCEPT !.spread = spread, !.label = Text(ts, p), !.at = Adv(ts, p) + 1]
        ELSE [Blank EXCEPT !.spread = spread, !.at = p]

CastAt(ts, i) == IF Text(ts, i) = "::" THEN Text(ts, i + 1) ELSE ""
AfterCast(ts, i) == IF Text(ts, i) = "::" THEN Adv(ts, i + 1) ELSE i

NamedItem(ts, x, f) ==
    LET at  == AfterCast(ts, f.at)
        agg == Text(ts, at) = "." /\ Text(ts, at + 1) \in Aggregates /\ Text(ts, at + 2) = "()"
        y   == [x EXCEPT !.field = f.v, !.cast = CastAt(ts, f.at), !.at = at,
                         !.label = IF @ = "" THEN f.v.last ELSE @]
    IN  CASE Failed(f) -> [x EXCEPT !.err = f.err]
          [] agg /\ ~AggregatesEnabled -> [x EXCEPT !.err = "aggregates not allowed"]
          [] agg -> [y EXCEPT !.aggregate = Text(ts, at + 1), !.at = at + 3,
                              !.label = IF x.label = "" THEN Text(ts, at + 1) ELSE @]
          [] OTHER -> y
FieldItem(ts, x) == NamedItem(ts, x, Field(ts, Adv(ts, x.at) - 1, FALSE, TRUE))

ItemValue(ts, x) ==
    IF Text(ts, x.at) \in Aggregates /\ Text(ts, x.at + 1) = "()"
    THEN IF AggregatesEnabled
         THEN [x EXCEPT !.aggregate = Text(ts, x.at), !.at = @ + 2,
                        !.label = IF @ = "" THEN Text(ts, x.at) ELSE @]
         ELSE [x EXCEPT !.err = "aggregates not allowed"]
    ELSE FieldItem(ts, x)

(* The key a hint names; and a mutant: left is taken for one. *)
HintAsWritten(hint) == IF hint = "inner" THEN "" ELSE hint
KeyHint(hint)       == IF hint \in {"inner", "left"} THEN "" ELSE hint

ItemTail(ts, x) ==
    LET c    == CastAt(ts, x.at)
        y    == IF Text(ts, x.at) # "::" THEN x
                ELSE IF x.aggregate # "" THEN [x EXCEPT !.aggCast = c] ELSE [x EXCEPT !.cast = c]
        at   == AfterCast(ts, x.at)
        hint == IF Text(ts, at) = "!" THEN Text(ts, at + 1) ELSE ""
    IN  CASE x.err # "" -> x
          [] \E t \in {y.cast, y.aggCast} : t # "" /\ t \notin CastTypes -> [x EXCEPT !.err = "invalid cast type"]
          [] OTHER -> [y EXCEPT !.at = IF Text(ts, at) = "!" THEN Adv(ts, at + 1) ELSE at,
                                !.inner = hint = "inner",
                                !.fk = KeyHint(hint)]

RECURSIVE SelectList(_, _, _)

ItemField(ts, x, rel) ==
    CASE x.spread -> Fail("cannot use the spread operator on fields")
      [] x.field.name = "," -> Done(x.at - 1, <<>>)
      [] OTHER -> Done(x.at, <<[kind |-> "field", label |-> x.label, cast |-> x.cast,
                                aggregate |-> x.aggregate, aggCast |-> x.aggCast,
                                field |-> [x.field EXCEPT !.table = IF rel = "" THEN @ ELSE rel]]>>)

ItemRelation(ts, x, rel) ==
    LET call   == Text(ts, x.at) = "()"
        fields == IF call \/ Text(ts, x.at + 1) = ")" THEN Done(x.at + 1, <<>>)
                  ELSE SelectList(ts, x.at + 1, x.field.name)
    IN  CASE x.cast # "" -> Fail("table cannot have cast")
          [] x.aggregate # "" -> Fail("table cannot have aggregate function")
          [] OTHER -> Then(fields, LAMBDA fs :
                IF ~call /\ Text(ts, fs.at) # ")" THEN Fail(") expected")
                ELSE Done(IF call THEN x.at + 1 ELSE fs.at + 1,
                          <<[kind |-> "relation", label |-> x.label, name |-> x.field.name,
                             parent |-> rel, spread |-> x.spread, inner |-> x.inner, fk |-> x.fk,
                             fields |-> fs.v]>>))

Item(ts, x, rel) ==
    CASE x.err # "" -> Fail(x.err)
      [] Text(ts, x.at) \in {"(", "()"} -> ItemRelation(ts, x, rel)
      [] OTHER -> ItemField(ts, x, rel)

SelectItem(ts, i, rel) ==
    IF Text(ts, i) = "" THEN Done(i, <<>>) ELSE Item(ts, ItemTail(ts, ItemValue(ts, ItemHead(ts, i))), rel)

SelectList(ts, i, rel) ==
    Then(SelectItem(ts, i, rel), LAMBDA item :
         IF Text(ts, item.at) # "," THEN item
         ELSE Then(SelectList(ts, item.at + 1, rel), LAMBDA rest : Done(rest.at, item.v \o rest.v)))

-----------------------------------------------------------------------------
(* COLUMNS and ON CONFLICT: names between commas; the token that ends the  *)
(* list is consumed too.                                                   *)
RECURSIVE MoreNames(_, _, _)
MoreNames(ts, i, names) ==
    IF Text(ts, i) # "," THEN Done(Adv(ts, i), names)
    ELSE MoreNames(ts, Adv(ts, i + 1),
                   IF Text(ts, i + 1) = "" THEN names ELSE names \cup {Text(ts, i + 1)})

NameList(ts, i) ==
    IF Text(ts, i) \in {"", ","} THEN Done(Adv(ts, i), {})
    ELSE MoreNames(ts, Adv(ts, i), {Text(ts, i)})

(* ORDER *)
(* Nulls at the other end than the direction's own; and a mutant: for the   *)
(* ascending direction only.                                                *)
NullsFirst(desc, given)    == "nullsfirst" \in given
InvertsNulls(desc, given)  == (IF desc THEN "nullslast" ELSE "nullsfirst") \in given

Directions == {"asc", "desc", "nullsfirst", "nullslast"}

OrderTail(ts, i, table, field, relation) ==
    LET value1  == IF Text(ts, i) = "." THEN Text(ts, i + 1) ELSE ""
        at2     == IF Text(ts, i) = "." THEN Adv(ts, i + 1) ELSE i
        value2  == IF Text(ts, at2) = "." THEN Text(ts, at2 + 1) ELSE ""
        given   == {value1, value2} \ {""}
        desc    == "desc" \in given
    IN  IF ~(given \subseteq Directions) THEN Fail("asc, desc, nullsfirst or nullslast expected")
        ELSE Done(IF Text(ts, at2) = "." THEN Adv(ts, at2 + 1) ELSE at2,
                  <<[field |-> [field EXCEPT !.table = table], relation |-> relation, descending |-> desc,
                     invertNulls |-> InvertsNulls(desc, given)]>>)

OrderItem(ts, i, table) ==
    Then(Field(ts, i, FALSE, FALSE), LAMBDA f :
         IF Text(ts, f.at) # "(" THEN OrderTail(ts, f.at, table, f.v, "")
         ELSE Then(Field(ts, f.at + 1, FALSE, FALSE), LAMBDA g :
                   IF Text(ts, g.at) # ")" THEN Fail("')' expected")
                   ELSE OrderTail(ts, g.at + 1, table, g.v, f.v.name)))

RECURSIVE OrderList(_, _, _)
OrderList(ts, i, table) ==
    Then(OrderItem(ts, i, table), LAMBDA item :
         IF Text(ts, item.at) # "," THEN item
         ELSE Then(OrderList(ts, item.at + 1, table), LAMBDA rest : Done(rest.at, item.v \o rest.v)))

-----------------------------------------------------------------------------
(* WHERE. A node of the condition tree; the root has neither operator nor name. *)
Node == [op |-> "", opSource |-> "", not |-> FALSE, field |-> [StarField EXCEPT !.name = ""],
         args |-> <<>>, mod |-> "", values |-> <<>>, children |-> <<>>]
IsRoot(node) == node.op = "" /\ node.field.name = ""

JsonString(s)  == "\"" \o s \o "\""
Wildcards(op, s) == IF op \in {"LIKE", "ILIKE"} /\ s = "*" THEN "%" ELSE s
JsonTyped(path)  == path # <<>> /\ Last(path)[1] = "->"
Keywords == [null |-> "null", true |-> "true", false |-> "false", unknown |-> "unknown",
             not_null |-> "not_null", NULL |-> "null", TRUE |-> "true", FALSE |-> "false"]

FloatTail(ts, i) == IF Text(ts, i) = "." THEN "." \o Text(ts, i + 1) ELSE ""
AfterFloat(ts, i) == IF Text(ts, i) = "." THEN Adv(ts, i + 1) ELSE i

(* Ranges, composites and arrays: up to the bracket that closes the first one. *)
RECURSIVE Bracketed(_, _, _, _, _)
Bracketed(ts, i, opens, level, acc) ==
    LET closes == IF "{" \in opens THEN {"}"} ELSE {")", "]"}
        quoted == i <= Len(ts) /\ ts[i].q
        t      == Text(ts, i)
        word   == "{" \in opens /\ t \notin WhereSeps \cup {"true", "false", "null"} /\ ~IsNumber(t)
        lvl    == CASE quoted -> level [] t \in opens -> level + 1 [] t \in closes -> level - 1 [] OTHER -> level
        piece  == (IF quoted \/ word THEN JsonString(t) ELSE t) \o FloatTail(ts, Adv(ts, i))
    IN  CASE level = 0 -> Done(i, acc)
          [] ~quoted /\ t = "" -> Fail("closing bracket expected")
          [] OTHER -> Bracketed(ts, AfterFloat(ts, Adv(ts, i)), opens, lvl, acc \o piece)

OneValue(ts, i, node, quoted, t) ==
    CASE ~quoted /\ t \in {"(", "["} -> Bracketed(ts, i + 1, {"(", "["}, 1, t)
      [] ~quoted /\ t = "{" -> Bracketed(ts, i + 1, {"{"}, 1, t)
      [] quoted -> Done(i + 1, IF JsonTyped(node.field.json) THEN JsonString(t) ELSE t)
      [] t \in DOMAIN Keywords -> Done(i + 1, Keywords[t])
      [] node.op = "IS" -> Fail("IS operator requires a keyword")
      [] OTHER -> Done(AfterFloat(ts, i + 1), t \o FloatTail(ts, i + 1))

Value(ts, i, node) ==
    LET quoted == i <= Len(ts) /\ ts[i].q
        t      == Text(ts, i)
    IN  CASE t = "" /\ ~quoted -> Fail("value expected")
          [] t = ")" /\ ~quoted -> Done(i, node)
          [] OTHER -> Then(OneValue(ts, i, node, quoted, t), LAMBDA r :
                           Done(r.at, [node EXCEPT !.values = Append(@, Wildcards(node.op, r.v))]))

RECURSIVE Values(_, _, _, _), Args(_, _, _), Cond(_, _, _, _, _), Conds(_, _, _, _, _)
Values(ts, i, node, close) ==
    Then(Value(ts, i, node), LAMBDA one :
         CASE Text(ts, one.at) = "," -> Values(ts, one.at + 1, one.v, close)
           [] Text(ts, one.at) # close -> Fail("closing parenthesis expected")
           [] OTHER -> Done(one.at + 1, one.v))

Args(ts, i, node) ==
    LET n == [node EXCEPT !.args = Append(@, Text(ts, i))]
    IN  CASE Text(ts, i + 1) = "," -> Args(ts, i + 2, n)
          [] Text(ts, i + 1) # ")" -> Fail("')' expected")
          [] OTHER -> Done(i + 2, n)

(* What follows the operator: the arguments of a text search, or any/all. *)
Modifier(ts, i, node) ==
    CASE Text(ts, i) # "(" -> Done(i, node)
      [] node.op = "@@" -> Args(ts, i + 1, node)
      [] Text(ts, i + 1) \notin {"any", "all"} -> Fail("'any' or 'all' expected")
      [] Text(ts, i + 2) # ")" -> Fail("')' expected")
      [] OTHER -> Done(i + 3, [node EXCEPT !.mod = Text(ts, i + 1)])

Operand(ts, i, node) ==
    LET list == node.op = "IN" \/ node.mod # ""
        open == IF node.op = "IN" THEN "(" ELSE "{"
    IN  CASE Text(ts, i) # "." -> Done(Adv(ts, i), node)
          [] ~list -> Value(ts, i + 1, node)
          [] Text(ts, i + 1) # open -> Fail("opening bracket expected")
          [] OTHER -> Values(ts, i + 2, node, IF open = "(" THEN ")" ELSE "}")

(* Field '.' ["not" '.'] operator '.' value; the root's separator is '='. *)
Inherited(field, main, parent) ==
    CASE field.table # "" -> field
      [] parent.field.table # "" -> [field EXCEPT !.table = parent.field.table, !.path = parent.field.path]
      [] OTHER -> [field EXCEPT !.table = main]

AfterField(ts, i, field, separator) ==
    LET neg  == Text(ts, i + 1) = "not"
        at   == IF neg THEN i + 3 ELSE i + 1
        word == Text(ts, at)
    IN  CASE Text(ts, i) # separator -> Fail("'=' expected")
          [] neg /\ Text(ts, i + 2) # "." -> Fail("'.' expected")
          [] word \notin DOMAIN Operators -> Fail("valid sql operator expected")
          [] OTHER -> Then(Modifier(ts, Adv(ts, at), [Node EXCEPT !.field = field, !.not = neg, !.opSource = word,
                                                                  !.op = Operators[word]]),
                           LAMBDA m : Operand(ts, m.at, m.v))

Comparison(ts, i, main, parent) ==
    Then(Field(ts, i, IsRoot(parent), FALSE), LAMBDA f :
         AfterField(ts, f.at, Inherited(f.v, main, parent), IF IsRoot(parent) THEN "=" ELSE "."))

(* ["not" '.'] ("and" | "or") '(' conditions ')', for the node given. *)
BooleanOp(ts, i, table, node, depth) ==
    LET neg == Text(ts, i) = "not"
        at  == IF neg THEN i + 2 ELSE i
        n   == [node EXCEPT !.not = neg, !.op = IF Text(ts, at) = "and" THEN "AND" ELSE "OR"]
    IN  CASE neg /\ Text(ts, i + 1) # "." -> Fail("'.' expected")
          [] Text(ts, at) \notin {"and", "or"} -> Fail("boolean operator expected")
          [] Text(ts, at + 1) # "(" -> Fail("'(' expected")
          [] OTHER -> Conds(ts, at + 2, table, n, depth)

Conds(ts, i, table, node, depth) ==
    Then(Cond(ts, i, table, node, depth + 1), LAMBDA one :
         CASE Text(ts, one.at) = "," -> Conds(ts, one.at + 1, table, one.v, depth)
           [] Text(ts, one.at) # ")" -> Fail("')' expected")
           [] OTHER -> Done(one.at + 1, one.v))

StrictBoolean == {"and", "or", "not"}

(* A condition, added to the children of its parent. After the mark of an   *)
(* embedded boolean come the tables it is about, up to the operator.        *)
OneCond(ts, i, main, parent, depth) ==
    LET path == RelPath(ts, i + 2, <<>>).path
        tabs == SelectSeq(path, LAMBDA t : t \notin StrictBoolean)
        own  == IF tabs = <<>> THEN <<main>> ELSE tabs
        late == Text(ts, i) = "__boolean_later__"
        node == IF late THEN [Node EXCEPT !.field.table = Last(own), !.field.path = own]
                ELSE [Node EXCEPT !.field.table = main]
    IN  IF late \/ Text(ts, i) \in StrictBoolean
        THEN BooleanOp(ts, IF late THEN i + 2 + 2 * Len(tabs) ELSE i, node.field.table, node, depth)
        ELSE Comparison(ts, i, main, parent)

Cond(ts, i, main, parent, depth) ==
    IF depth > MaxFilterDepth THEN Fail("filter nesting too deep")
    ELSE Then(OneCond(ts, i, main, parent, depth), LAMBDA r :
              Done(r.at, [parent EXCEPT !.children = Append(@, r.v)]))

(* scanWhereCondition: the key decides how key and value are put together. *)
WhereTokens(key, value) ==
    LET boolean == Last(key) \in {"and", "or"}
        plain   == Len(key) = 1 \/ (Len(key) = 3 /\ key[1] = "not")
    IN  CASE boolean /\ plain -> Scan(key \o value, WhereSeps)
          [] boolean -> Scan(<<"__boolean_later__", ".">> \o key \o value, WhereSeps)
          [] OTHER -> Scan(key \o <<"=">> \o value, WhereSeps)

(* One filter; and a mutant: its depth is counted from 0. *)
ParseWhereFrom0(main, key, value, root) == Cond(WhereTokens(key, value), 1, main, root, 0)
ParseWhere(main, key, value, root) == Cond(WhereTokens(key, value), 1, main, root, 1)

(* All the conditions of a filter list, in order, under one root. *)
WhereTree(main, filters) ==
    FoldLeft(LAMBDA acc, f : Then(acc, LAMBDA a : ParseWhere(main, f.key, f.value, a.v)),
             Done(0, Node), filters)

-----------------------------------------------------------------------------
(* RECURSIVE: the start, recurse and via operators among the filters, read  *)
(* in the order in which Go happens to range over the map.                  *)
NoRecursion == [startField |-> <<>>, startValue |-> "", recurseField |-> <<>>, maxDepth |-> -1,
                excludeStart |-> FALSE, up |-> FALSE, viaTable |-> <<>>, from |-> "", to |-> "",
                both |-> FALSE, via |-> Node, walk |-> Node]

Joined(s) == FoldLeft(LAMBDA acc, c : acc \o c, "", s)

SetRecurse(r, key, up, depth) ==
    IF r.v.recurseField # <<>> THEN Fail("only one 'recurse' operator is allowed")
    ELSE Done(1, [r.v EXCEPT !.recurseField = key, !.up = up, !.maxDepth = depth])

(* via(from,to) and via!both(from,to) *)
SetVia(r, key, v) ==
    LET open == IF v[2] = "(" THEN 2 ELSE 4
    IN  CASE r.v.viaTable # <<>> -> Fail("only one 'via' operator is allowed")
          [] open = 4 /\ v[3] # "both" -> Fail("via direction must be 'both'")
          [] Len(v) # open + 4 \/ v[open + 2] # "," -> Fail("via requires two columns")
          [] OTHER -> Done(1, [r.v EXCEPT !.viaTable = key, !.both = open = 4,
                                          !.from = v[open + 1], !.to = v[open + 3]])

SetStart(r, key, rest, exclude) ==
    IF r.v.startField # <<>> THEN Fail("only one 'start'/'after' operator is allowed")
    ELSE Done(1, [r.v EXCEPT !.startField = key, !.startValue = Joined(rest), !.excludeStart = exclude])

(* The depth starts at -1 and only a recurse with a value sets it. *)
RecursiveStep(r, f) ==
    LET v    == f.value
        dot  == SelectInSeq(v, LAMBDA c : c = ".")
        head == IF dot = 0 THEN v ELSE SubSeq(v, 1, dot - 1)
        rest == SubSeq(v, dot + 1, Len(v))
        up   == Len(head) = 3 /\ SubSeq(head, 2, 3) = <<"!", "up">>
        depth == IF dot = 0 \/ rest = <<"all">> THEN -1
                 ELSE IF Len(rest) = 1 /\ IsNumber(rest[1]) THEN IntOf(rest[1]) ELSE 0
    IN  CASE Failed(r) \/ v = <<>> -> r
          [] dot # 0 /\ up /\ head[1] # "recurse" -> Fail("'!up' is only valid on 'recurse'")
          [] head[1] = "recurse" /\ (up \/ Len(head) = 1) ->
                IF depth = 0 THEN Fail("recurse depth must be a positive integer or 'all'")
                ELSE SetRecurse(r, f.key, up, depth)
          [] dot = 0 /\ head[1] = "via" /\ Len(v) > 1 /\ v[2] \in {"(", "!"} /\ Last(v) = ")" ->
                SetVia(r, f.key, v)
          [] dot # 0 /\ head \in {<<"start">>, <<"after">>} ->
                SetStart(r, f.key, rest, head = <<"after">>)
          [] OTHER -> r

Recursion(filters) == FoldLeft(RecursiveStep, Done(0, NoRecursion), filters)

IncompleteRecursion(rec) ==
    CASE rec.startField = <<>> -> "'recurse' requires a 'start' or 'after' operator"
      [] rec.recurseField = <<>> -> "'start' requires a 'recurse' operator"
      [] rec.viaTable # <<>> /\ rec.startField # rec.recurseField -> "'via' requires the same field"
      [] rec.viaTable # <<>> /\ rec.up -> "'recurse!up' is single-table only"
      [] OTHER -> ""

(* The filters whose key starts with the prefix, without it. *)
HasPrefix(f, prefix) == Len(f.key) > Len(prefix) /\ SubSeq(f.key, 1, Len(prefix)) = prefix
Under(filters, prefix) ==
    LET fs == SelectSeq(filters, LAMBDA f : HasPrefix(f, prefix))
    IN  [i \in DOMAIN fs |-> [fs[i] EXCEPT !.key = SubSeq(@, Len(prefix) + 1, Len(@))]]

(* The recursion with its edge and walk filters, and the filters that are left. *)
ParseRecursive(main, filters, rec) ==
    LET keys  == {rec.startField, rec.recurseField} \cup ({rec.viaTable} \ {<<>>})
        own   == SelectSeq(filters, LAMBDA f : f.key \notin keys)
        edges == Append(rec.viaTable, ".")
        nodes == <<"walk", ".">>
        rest  == IF rec.viaTable = <<>> THEN own ELSE SelectSeq(own, LAMBDA f : ~HasPrefix(f, edges))
    IN  IF IncompleteRecursion(rec) # "" THEN Fail(IncompleteRecursion(rec))
        ELSE Then(WhereTree(Joined(rec.viaTable), IF rec.viaTable = <<>> THEN <<>> ELSE Under(own, edges)), LAMBDA via :
             Then(WhereTree(main, Under(rest, nodes)), LAMBDA walk :
                  Done(1, [rec |-> [rec EXCEPT !.via = via.v, !.walk = walk.v],
                           filters |-> SelectSeq(rest, LAMBDA f : ~HasPrefix(f, nodes))])))

-----------------------------------------------------------------------------
(* The whole query. Filters are a sequence of keys and values sorted by key; *)
(* ranged is the same in the order of the map.                               *)
NameOf(f)       == IF Len(f.key) = 1 THEN f.key[1] ELSE ""
ValuesOf(fs, k) == LET own == SelectSeq(fs, LAMBDA f : f.key = <<k>>) IN [i \in DOMAIN own |-> own[i].value]
Commas(vs)      == FoldLeft(LAMBDA acc, v : IF acc = <<>> THEN v ELSE acc \o <<",">> \o v, <<>>, vs)
Clause(fs, k)   == Commas(ValuesOf(fs, k))

IsOrder(f) == Last(f.key) = "order" /\ (Len(f.key) = 1 \/ f.key[Len(f.key) - 1] = ".")
OrderTable(main, f) == IF Len(f.key) = 1 THEN main ELSE Joined(SubSeq(f.key, 1, Len(f.key) - 2))

(* One parse per key; the values of one key are one clause. *)
ParseOrders(main, filters) ==
    LET Same(f) == SelectSeq(filters, LAMBDA g : g.key = f.key)
        Add(acc, f) ==
            Then(acc, LAMBDA a :
            Then(OrderList(Scan(Commas([i \in DOMAIN Same(f) |-> Same(f)[i].value]), OrderSeps), 1, OrderTable(main, f)),
                 LAMBDA r : Done(1, a.v \o r.v)))
    IN  FoldLeft(Add, Done(1, <<>>), SelectSeq(filters, LAMBDA f : IsOrder(f) /\ Same(f)[1] = f))

Taken == {"select", "columns", "on_conflict", "jq", "jq_args", "limit", "offset"}

BadNumber(fs, k) == LET vs == ValuesOf(fs, k)
                    IN  vs # <<>> /\ ~(Len(vs[1]) = 1 /\ IsNumber(vs[1][1]))
Number(fs, k) == LET vs == ValuesOf(fs, k) IN IF vs = <<>> THEN -1 ELSE IntOf(vs[1][1])

(* columns and on_conflict go on with the tokens that select has left. *)
NamesAfter(fs, k, x) ==
    IF ValuesOf(fs, k) = <<>> THEN [x EXCEPT !.v = {}]
    ELSE LET all == x.ts \o Scan(Clause(fs, k), {","})
             r   == NameList(all, x.at)
         IN  [ts |-> all, at |-> r.at, v |-> r.v]

ParseFilters(main, filters, ranged) ==
    LET Plain(fs) == SelectSeq(fs, LAMBDA f : NameOf(f) \notin Taken /\ ~IsOrder(f))
    IN  Then(Recursion(Plain(ranged)), LAMBDA found :
        Then(IF found.v = NoRecursion THEN Done(1, [rec |-> NoRecursion, filters |-> Plain(filters)])
             ELSE ParseRecursive(main, Plain(filters), found.v), LAMBDA rec :
        Then(WhereTree(main, rec.v.filters), LAMBDA where : Done(1, [where |-> where.v, recursive |-> rec.v.rec]))))

SelectAndNames(filters) ==
    LET ts == Scan(Clause(filters, "select"), SelectSeps)
        Names(sel, cols, confl) == Done(1, [select |-> sel.v, columns |-> cols.v, conflict |-> confl.v])
        Conflict(sel, cols) == Names(sel, cols, NamesAfter(filters, "on_conflict", cols))
    IN  Then(SelectList(ts, 1, ""), LAMBDA sel :
             Conflict(sel, NamesAfter(filters, "columns", [ts |-> ts, at |-> sel.at, v |-> {}])))

Parse(main, filters, ranged) ==
    Then(SelectAndNames(filters), LAMBDA names :
    Then(ParseOrders(main, ranged), LAMBDA order :
    Then(IF BadNumber(filters, "limit") \/ BadNumber(filters, "offset")
         THEN Fail("limit and offset must be non-negative integers")
         ELSE ParseFilters(main, filters, ranged), LAMBDA tree :
         Done(1, [order |-> order.v, limit |-> Number(filters, "limit"), offset |-> Number(filters, "offset")]
                 @@ names.v @@ tree.v))))

(* filterParameters: the values with no operator before their first dot are *)
(* the arguments of a call.                                                 *)
BeforeDot(v)   == LET dot == SelectInSeq(v, LAMBDA c : c = ".")
                  IN  IF dot = 0 THEN v ELSE SubSeq(v, 1, dot - 1)
IsArgument(f)  == /\ NameOf(f) \notin ReservedWords
                  /\ BeforeDot(f.value) \notin {<<o>> : o \in DOMAIN Operators}
Arguments(fs)  == SelectSeq(fs, IsArgument)
FiltersOnly(fs) == SelectSeq(fs, LAMBDA f : ~IsArgument(f))
=============================================================================
