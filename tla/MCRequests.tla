------------------------------ MODULE MCRequests ------------------------------
(***************************************************************************)
(* The requests of the runs: families of small ones, each over a catalog   *)
(* and rows of its own, made from what the client means and printed as the *)
(* query string it would send.                                             *)
(***************************************************************************)
EXTENDS RequestMeaning

(* What every request is unless its family says otherwise. *)
NoCatalog == [tables |-> <<>>, names |-> <<>>, partitions |-> {}, fks |-> <<>>, pk |-> <<>>, unique |-> <<>>,
              views |-> <<>>, functions |-> <<>>, calls |-> <<>>, composite |-> {}, untyped |-> {}]
NoMeaning == [select |-> <<>>, filters |-> <<>>, walk |-> <<>>, after |-> <<>>, paged |-> FALSE, page |-> <<>>, args |-> {},
              order |-> <<>>]
Get == [method |-> "GET", table |-> "item", call |-> FALSE, filters |-> <<>>, ranged |-> <<>>, records |-> <<>>,
        keys |-> <<>>, sorted |-> <<>>, accept |-> <<>>, prefer |-> {}, unreadable |-> 0,
        range |-> [given |-> FALSE, min |-> -1, max |-> -1], catalog |-> NoCatalog, db |-> <<>>,
        meant |-> NoMeaning]

Param(key, value) == [key |-> <<key>>, value |-> value]
With(r, params)   == [r EXCEPT !.filters = params, !.ranged = params]
Selecting(items)  == IF items = <<>> THEN <<>> ELSE <<Param("select", SelectText(items))>>
PrintAll(fs)      == [i \in DOMAIN fs |-> Printed(fs[i])]
Asking(r, items, fs) ==
    With([r EXCEPT !.meant.select = items, !.meant.filters = fs], PrintAll(fs) \o Selecting(items))

-----------------------------------------------------------------------------
(* Select lists, nested, over tables that need not exist. *)
Paths  == {<<>>, <<<<"->", "k">>>>, <<<<"->", "k">>, <<"->>", "1">>>>, <<<<"->", "1">>>>}
Fields == {FieldOf(l, "a", j, c, g, "") : l \in {"", "x"}, j \in Paths, c \in {"", "text"}, g \in {"", "sum"}}
          \cup {FieldOf(l, "a", <<>>, c, "max", "int") : l \in {"", "x"}, c \in {"", "text"}}
Plain  == FieldOf("", "b", <<>>, "", "", "")
Leafs  == {Embed(l, "t", h, <<>>, "t", k) : l \in {"", "y"}, h \in {"", "inner", "left", "t_key"},
                                            k \in {<<>>, <<Plain>>}}
Nests  == {Embed("", "u", h, <<>>, "u", k) : h \in {"", "inner"}, k \in Leafs \X (Leafs \cup {Plain})}
Short  == {f \in Fields : f.json = <<>>} \cup Leafs

Selects1 == {<<f>> : f \in Fields} \cup Short \X Short \cup {<<n, Plain>> : n \in Nests}
SelectRequests == <<{Asking(Get, s, <<>>) : s \in Selects1}>>

-----------------------------------------------------------------------------
(* Filters over two columns with nulls, in reads and in writes. *)
Two   == {"null", "1", "2"}
Nine  == [item |-> Listing([a : Two, b : Two])]
Tests(c) == {Test(<<>>, c, n, op, m, v) : n \in BOOLEAN, op \in {"eq", "neq"}, m \in {"any", "all"}, v \in {<<"1">>, <<"1", "2">>}}
            \cup {Test(<<>>, c, n, "in", "", v) : n \in BOOLEAN, v \in {<<>>, <<"1">>, <<"2", "1">>}}
            \cup {Test(<<>>, c, n, op, "", <<"1">>) : n \in BOOLEAN, op \in {"eq", "neq"}}
            \cup {Test(<<>>, c, n, "is", "", <<"null">>) : n \in BOOLEAN}
Simple(c) == {Test(<<>>, c, n, "eq", "", <<"1">>) : n \in BOOLEAN} \cup {Test(<<>>, c, FALSE, "in", "", <<"2", "1">>)}
Bools(n, kids) == {Bool(<<>>, k, n, ks) : k \in {"and", "or"}, ks \in kids}
Flat(A, B) == UNION {Bools(n, A \X B) : n \in BOOLEAN}
Deep      == Flat(Simple("a"), Flat(Simple("a"), Simple("b"))) \cup Flat(Flat(Simple("b"), Simple("a")), Simple("b"))

Deeper    == UNION {Bools(n, {<<Bool(<<>>, "and", FALSE, <<d>>)>>, <<d>>}) : n \in BOOLEAN, d \in Flat(Simple("b"), Simple("a"))}

Conditions == {<<t>> : t \in Tests("a") \cup Flat(Tests("a"), Simple("b")) \cup Deep \cup Deeper}
              \cup Tests("a") \X Tests("b") \cup Simple("a") \X Simple("a")
              \cup (Flat(Simple("a"), Simple("b")) \X Simple("a"))
Filtered == [Get EXCEPT !.db = Nine]
Changing == [Filtered EXCEPT !.method = "PATCH", !.records = <<[b |-> "3"]>>, !.keys = <<"b">>]
AfterUpdate(fs) == [i \in DOMAIN Nine.item |-> IF AllMeant(fs, <<>>, Nine.item[i])
                                               THEN [Nine.item[i] EXCEPT !.b = "3"] ELSE Nine.item[i]]
AfterDelete(fs) == SelectSeq(Nine.item, LAMBDA r : ~AllMeant(fs, <<>>, r))

FilterRequests ==
    <<{Asking(Filtered, <<>>, fs) : fs \in Conditions},
      {Asking([Changing EXCEPT !.meant.after = AfterUpdate(fs)], <<>>, fs) :
          fs \in {c \in Conditions : Len(c) = 1 /\ c[1].kind # "test"}},
      {Asking([Filtered EXCEPT !.method = "DELETE", !.meant.after = AfterDelete(fs)], <<>>, fs) :
          fs \in {c \in Conditions : Len(c) = 2 /\ c[1].kind = "test"}}>>

-----------------------------------------------------------------------------
(* Pages of a table of four rows, of which the last n match.               *)
Four     == [i \in 1..4 |-> ToString(i)]
Items(n) == [i \in 1..4 |-> [id |-> Four[i], k |-> IF i > 4 - n THEN "1" ELSE "2"]]
Kept     == Test(<<>>, "k", FALSE, "eq", "", <<"1">>)
SomeOf(k, n) == IF n = -1 THEN <<>> ELSE <<Param(k, <<ToString(n)>>)>>
Slice(n, from, len) == LET rows == SubSeq(Items(n), 5 - n, 4)
                       IN  SubSeq(rows, from + 1, IF len = -1 THEN n ELSE Lower(n, from + len))

PageRequest(n, limit, offset, range, count, accept) ==
    LET from == IF range.given THEN range.min ELSE IF offset = -1 THEN 0 ELSE offset
        len  == IF ~range.given THEN limit ELSE IF range.max = -1 THEN -1 ELSE range.max - range.min + 1
    IN  With([Get EXCEPT !.db = [item |-> Items(n)], !.range = range, !.accept = accept,
                         !.prefer = IF count THEN {"count=exact"} ELSE {},
                         !.meant = [NoMeaning EXCEPT !.filters = <<Kept>>, !.paged = TRUE,
                                                     !.page = Slice(n, from, len)]],
             <<Printed(Kept)>> \o SomeOf("limit", limit) \o SomeOf("offset", offset))

(* A limit of 0 or an offset without a limit is not asked with a count.    *)
NoHeader == [given |-> FALSE, min |-> -1, max |-> -1]
Ranges   == [given : {TRUE}, min : {0, 1, 3}, max : {-1} \cup 3..5]
Accepts  == {<<>>, <<[type |-> "application/vnd.pgrst.object+json", q |-> 10]>>,
             <<[type |-> "text/html", q |-> 10], [type |-> "text/*", q |-> 2], [type |-> "*/*", q |-> 5]>>}
PageRequests ==
    <<{PageRequest(n, -1, -1, r, c, a) : n \in 0..4, r \in Ranges \cup {NoHeader}, c \in BOOLEAN, a \in Accepts},
      {PageRequest(n, l, o, NoHeader, FALSE, a) : n \in 0..4, l \in {-1, 0, 1, 3}, o \in {-1, 0, 2}, a \in Accepts},
      {PageRequest(n, l, o, NoHeader, TRUE, <<>>) : n \in 0..4, l \in {1, 3}, o \in {-1, 0, 2, 4}}>>

-----------------------------------------------------------------------------
(* Embedded resources: clients have projects, projects have tasks and, by   *)
(* way of a junction table, tags; a view of the projects has their keys.    *)
Key(name, table, col, related) ==
    [name |-> name, table |-> table, cols |-> <<col>>, related |-> related, relCols |-> <<"id">>]
Column1(view, col, table) == [view |-> view, viewCol |-> col, table |-> table, col |-> col]
Office == [NoCatalog EXCEPT
    !.tables = <<"client", "label", "project", "tag", "task">>,
    !.names  = <<"client", "label", "open_project", "project", "tag", "task">>,
    !.fks    = <<Key("label_project", "label", "project_id", "project"), Key("label_tag", "label", "tag_id", "tag"),
                 Key("project_client", "project", "client_id", "client"), Key("task_project", "task", "project_id", "project")>>,
    !.pk     = [t \in {"client", "project", "tag", "task"} |-> <<"id">>] @@ [label |-> <<"project_id", "tag_id">>],
    !.views  = <<Column1("open_project", "id", "project"), Column1("open_project", "client_id", "project")>>]
Project(id, client) == [id |-> id, client_id |-> client]
Task(id, project)   == [id |-> id, project_id |-> project]
OfficeRows(owner, of, labels) ==
    LET projects == <<Project("1", owner), Project("2", "1")>>
    IN  [client |-> <<[id |-> "1"], [id |-> "2"]>>, tag |-> <<[id |-> "1"], [id |-> "2"]>>,
         project |-> projects, open_project |-> projects,
         task |-> <<Task("1", of), Task("2", "1"), Task("3", "2")>>,
         label |-> Listing({[project_id |-> p[1], tag_id |-> p[2]] : p \in labels})]
Offices == {OfficeRows(o, t, l) : o \in {"null", "2"}, t \in {"null", "2"},
                                  l \in {{<<"1", "1">>}, {<<"1", "2">>, <<"2", "2">>}}}

Hints == {"", "inner"}
IdOf  == FieldOf("", "id", <<>>, "", "", "")
To(label, name, hint, through, kids) == Embed(label, name, hint, through, name, kids)
Tasks(l, h)      == To(l, "task", h, <<"task_project">>, <<IdOf>>)
Tags(l, h)       == To(l, "tag", h, <<"label_project", "label_tag">>, <<IdOf>>)
Client(name, h)  == Embed("", name, h, <<"project_client">>, "client", <<IdOf>>)
Projects(l, name, h, kids) == Embed(l, name, h, <<"project_client">>, name, kids)

FromProject(h1, h2) == {<<Tasks("", h1)>>, <<Tasks("t", h1), IdOf>>, <<Tags("", h1), Tasks("", h2)>>,
                        <<Client("client", h1), Tags("g", h2)>>, <<Client("client_id", h1)>>,
                        <<Client("project_client", h1), Tasks("", h2)>>,
                        <<To("", "tag", h1, <<"label_project", "label_tag">>, <<>>), IdOf>>,
                        <<IdOf, To("", "tag", h1, <<"label_project", "label_tag">>, <<>>)>>}
FromClient(h1, h2)  == {<<Projects(l, n, h1, <<IdOf>>)>> : l \in {"", "p"}, n \in {"project", "open_project"}}
                       \cup {<<Projects("p", "project", h1, <<IdOf, Tasks(l, h2)>>)>> : l \in {"", "t"}}
                       \cup {<<Projects("", "project", h1, <<Tags("", h2), Tasks("", "")>>), IdOf>>}
(* Filters on the way to a resource, by its table or by its label. *)
OnPath(path, col, n) == Test(path, col, n, "eq", "", <<"1">>)
Only(path, n)        == {<<OnPath(path, "id", n)>>,
                         <<Bool(path, "or", FALSE, <<Test(<<>>, "id", n, "eq", "", <<"1">>),
                                                     Test(<<>>, "id", FALSE, "eq", "", <<"3">>)>>)>>}
ProjectFilters == UNION {Only(p, n) : p \in {<<"task">>, <<"t">>, <<"tag">>, <<>>}, n \in BOOLEAN} \cup {<<>>}
ClientFilters  == UNION {Only(p, n) : p \in {<<"project">>, <<"p">>, <<"project", "task">>, <<"p", "t">>}, n \in BOOLEAN} \cup {<<>>}

Embedding(from, items, fs, db) == Asking([Get EXCEPT !.table = from, !.catalog = Office, !.db = db], items, fs)
EmbedRequests ==
    <<{Embedding("project", s, fs, db) : s \in UNION {FromProject(a, b) : a \in Hints, b \in Hints},
                                         fs \in ProjectFilters, db \in Offices},
      {Embedding("client", s, fs, db) : s \in UNION {FromClient(a, b) : a \in Hints, b \in Hints},
                                        fs \in ClientFilters, db \in Offices}>>

Written == [Get EXCEPT !.table = "project", !.catalog = Office, !.db = OfficeRows("2", "2", {<<"1", "2">>}),
                       !.prefer = {"return=representation"}]
(* Resources after a column or without any: without one, with a column that *)
(* is a key of theirs under another name or with two that need the same key *)
(* the write is refused.                                                    *)
Leading == {<<>>, <<IdOf>>, <<FieldOf("", "client_id", <<>>, "", "", "")>>, <<FieldOf("n", "id", <<>>, "", "", "")>>}
EmbedWrites ==
    {Asking([Written EXCEPT !.method = "DELETE",
                            !.meant.after = SelectSeq(Written.db.project, LAMBDA r : ~AllMeant(fs, <<>>, r))],
            own \o s, fs) :
        own \in Leading, s \in UNION {FromProject(h, "") : h \in Hints},
        fs \in UNION {Only(p, FALSE) : p \in {<<"task">>, <<"tag">>, <<>>}} \cup {<<>>}}

-----------------------------------------------------------------------------
(* Walks over three nodes: trees and cycles by a parent column, or edges of *)
(* another table.                                                          *)
Ids        == {"1", "2", "3"}
Node3(i, p) == [id |-> i, parent |-> p, tag |-> IF i = "3" THEN "b" ELSE "a"]
Parents    == [Ids -> Ids \cup {"null"}]
Pairs      == {p \in Ids \X Ids : p[1] # p[2]}
Tree(f)    == [item |-> Listing({Node3(i, f[i]) : i \in Ids})]
Graph(E)   == [item |-> Listing({Node3(i, "null") : i \in Ids}),
               edge |-> Listing({[src |-> p[1], dst |-> p[2], kind |-> IF p[1] = "3" THEN "b" ELSE "a"] : p \in E})]
Tagged     == {<<>>, <<Test(<<>>, "tag", FALSE, "eq", "", <<"a">>)>>, <<Test(<<>>, "tag", TRUE, "eq", "", <<"a">>)>>}
Kinds      == {<<>>, <<Test(<<>>, "kind", FALSE, "eq", "", <<"a">>)>>}
Prefixed(word, fs) == [i \in DOMAIN fs |-> [Printed(fs[i]) EXCEPT !.key = <<word, ".">> \o @]]

WalkParams(w, filters, extra) ==
    LET depth == IF w.depth = -1 THEN "all" ELSE ToString(w.depth)
        col   == IF w.mode \in {"down", "up"} THEN "parent" ELSE "id"
        word  == IF w.mode = "up" THEN <<"recurse", "!", "up", ".", depth>> ELSE <<"recurse", ".", depth>>
        cols  == <<"(", "src", ",", "dst", ")">>
        via   == CASE w.mode = "via" -> <<Param("edge", <<"via">> \o cols)>>
                   [] w.mode = "both" -> <<Param("edge", <<"via", "!", "both">> \o cols)>>
                   [] OTHER -> <<>>
    IN  via \o Prefixed("edge", w.edgeFilters) \o <<Param("id", <<IF w.after THEN "after" ELSE "start", ".", w.start>>)>>
        \o <<Param(col, word)>> \o PrintAll(filters) \o Prefixed("walk", w.filters) \o extra

Walk3(db, mode, after, depth, filters, walk, edges, extra) ==
    LET w == [mode |-> mode, start |-> "1", after |-> after, depth |-> depth, filters |-> walk,
              edges |-> "edge", edgeFilters |-> edges]
    IN  With([Get EXCEPT !.db = db, !.meant.walk = w, !.meant.filters = filters], WalkParams(w, filters, extra))

Depths     == {1, 2, -1}
Depth1     == <<Param("select", <<"id", ",", "__depth">>)>>
Page1      == <<Param("limit", <<"2">>), Param("offset", <<"1">>)>>
TreeWalks  == {Walk3(Tree(f), m, a, d, <<>>, w, <<>>, <<>>) :
                  f \in Parents, m \in {"down", "up"}, a \in BOOLEAN, d \in Depths, w \in Tagged}
GraphWalks == {Walk3(Graph(E), m, a, d, <<>>, w, e, <<>>) :
                  E \in SUBSET Pairs, m \in {"via", "both"}, a \in BOOLEAN, d \in {1, -1}, w \in Tagged, e \in Kinds}
MixedWalks == {Walk3(Graph(Pairs \ {p}), m, TRUE, d, f, w, <<>>, x) :
                  p \in Pairs, m \in {"via", "both"}, d \in Depths, f \in Tagged, w \in Tagged, x \in {Depth1, Page1}}
(* Every order in which the map may be read. *)
Shuffled(r) == {[r EXCEPT !.ranged = [i \in DOMAIN r.filters |-> r.filters[p[i]]]] :
                   p \in {q \in [DOMAIN r.filters -> DOMAIN r.filters] : IsInjective(q)}}
ShuffledWalks == UNION {Shuffled(Walk3(Graph(Pairs), "via", a, 1, <<>>, <<>>, <<>>, <<>>)) : a \in BOOLEAN}
                 \cup Shuffled(Walk3(Graph(Pairs), "both", TRUE, -1, <<Test(<<>>, "tag", FALSE, "eq", "", <<"a">>)>>, <<>>, <<>>, <<>>))
(* Four nodes: deeper than the depth allowed. *)
Chains    == {f \in [Ids \cup {"4"} -> Ids \cup {"4", "null"}] :
                 f["1"] \in {"null", "4"} /\ f["2"] \in {"null", "1"} /\ f["3"] \in Ids /\ f["4"] \in {"null", "2", "3"}}
Chain(f)  == [item |-> Listing({Node3(i, f[i]) : i \in DOMAIN f})]
DeepWalks == {Walk3(Chain(f), m, a, d, <<>>, w, <<>>, <<>>) :
                 f \in Chains, m \in {"down", "up"}, a \in BOOLEAN, d \in {3, -1}, w \in Tagged}
(* Each node of a tree with its notes. *)
Notebook   == [NoCatalog EXCEPT !.tables = <<"item", "note">>, !.names = <<"item", "note">>,
                                !.fks = <<Key("note_item", "note", "item_id", "item")>>,
                                !.pk = [t \in {"item", "note"} |-> <<"id">>]]
Notes      == <<[id |-> "1", item_id |-> "1"], [id |-> "2", item_id |-> "1"], [id |-> "1", item_id |-> "2"]>>
NotedWalks ==
    {LET items == <<To("", "note", h, <<"note_item">>, <<IdOf>>), IdOf>>
         r     == Walk3(Tree(f) @@ [note |-> Notes], m, a, -1, fs, w, <<>>, Selecting(items))
     IN  [r EXCEPT !.catalog = Notebook, !.meant.select = items] :
        f \in Parents, m \in {"down", "up"}, a \in BOOLEAN, h \in Hints, w \in Tagged,
        fs \in {<<>>, <<OnPath(<<"note">>, "id", TRUE)>>}}
WalkRequests == <<DeepWalks, NotedWalks, TreeWalks, GraphWalks, MixedWalks, ShuffledWalks>>

-----------------------------------------------------------------------------
(* Writes: one or two records with their columns in any order, merged or    *)
(* not into a table of two rows.                                           *)
Pair(id, v, w) == [id |-> id, v |-> v, w |-> w]
Stored         == <<Pair("1", "a", "a"), Pair("2", "a", "a")>>
Ledger         == [NoCatalog EXCEPT !.tables = <<"item">>, !.names = <<"item">>, !.pk = [item |-> <<"id">>]]
Record(id, v)  == [id |-> id, v |-> v]
Batches        == {<<Record(i, "b")>> : i \in {"1", "3"}}
                  \cup {<<Record(i, "b"), Record(j, "c")>> : i \in {"1", "3"}, j \in {"2", "3", "4"}}
Resolutions    == {{}, {"resolution=merge-duplicates"}, {"resolution=ignore-duplicates"}}
Returned       == {{}, {"return=representation"}}
ColumnLists    == {{"id", "v"}, {"id"}}

Insert1(t, r, how) ==
    LET hit == {i \in DOMAIN t.rows : t.rows[i].id = r.id}
        Old(i) == [c \in {"id", "v", "w"} |-> IF c \in DOMAIN r THEN r[c] ELSE t.rows[i][c]]
        new    == [c \in {"id", "v", "w"} |-> IF c \in DOMAIN r THEN r[c] ELSE "null"]
    IN  CASE hit = {} -> [rows |-> Append(t.rows, new), out |-> Append(t.out, new)]
          [] how = {"resolution=merge-duplicates"} ->
                LET i == CHOOSE i \in hit : TRUE
                IN  [rows |-> [t.rows EXCEPT ![i] = Old(i)], out |-> Append(t.out, Old(i))]
          [] OTHER -> t
Cut(r, cols) == [c \in DOMAIN r \cap cols |-> r[c]]
Inserting(batch, how, returned, cols, keys, conflict) ==
    LET end == FoldLeft(LAMBDA t, r : Insert1(t, Cut(r, cols), how), [rows |-> Stored, out |-> <<>>], batch)
    IN  With([Get EXCEPT !.method = "POST", !.records = batch, !.keys = keys, !.prefer = how \cup returned,
                         !.catalog = Ledger, !.db = [item |-> Stored],
                         !.meant = [NoMeaning EXCEPT !.after = end.rows, !.paged = TRUE, !.page = end.out]],
             (IF cols = {"id"} THEN <<Param("columns", <<"id">>)>> ELSE <<>>)
             \o (IF conflict THEN <<Param("on_conflict", <<"id">>)>> ELSE <<>>))

Updating(k, cols, keys, returned, o) ==
    LET New(r) == IF r.id = k THEN [r EXCEPT !.v = IF "v" \in cols THEN "b" ELSE @,
                                             !.w = IF "w" \in cols THEN "c" ELSE @] ELSE r
        rows   == [i \in DOMAIN Stored |-> New(Stored[i])]
        f      == Test(<<>>, "id", FALSE, o, "", <<k>>)
    IN  With([Get EXCEPT !.method = "PATCH", !.records = <<[v |-> "b", w |-> "c"]>>, !.keys = keys,
                         !.prefer = returned, !.catalog = Ledger, !.db = [item |-> Stored],
                         !.meant = [NoMeaning EXCEPT !.filters = <<f>>, !.after = rows, !.paged = TRUE,
                                                     !.page = SelectSeq(rows, LAMBDA r : r.id = k)]],
             (IF cols = {"v", "w"} THEN <<>> ELSE <<Param("columns", Listed(Listing({<<c>> : c \in cols})))>>)
             \o <<Printed(f)>>)

(* Requests that are refused before anything is sent. *)
Twice    == <<Record("3", "b"), Record("4", "b")>>
Refusals ==
    {[r EXCEPT !.unreadable = b, !.accept = a] : b \in {0, 400, 413, 415, 500},
        r \in {Inserting(n, {}, p, {"id", "v"}, <<"id", "v">>, FALSE) : n \in {<<>>, Twice}, p \in Returned}
              \cup {[Updating("1", {"v", "w"}, <<"v", "w">>, p, "eq") EXCEPT !.records = n] :
                        n \in {<<>>, Twice, <<[v |-> "b", w |-> "c"]>>}, p \in Returned},
        a \in {<<[type |-> "text/html", q |-> 10]>>, <<[type |-> Supported[2], q |-> 10]>>}}
WriteRequests ==
    <<{Inserting(b, h, r, c, k, o) : b \in Batches, h \in Resolutions, r \in Returned, c \in ColumnLists,
                                     k \in {<<"id", "v">>, <<"v", "id">>}, o \in BOOLEAN},
      {Updating(k, c, ks, r, "eq") : k \in {"1", "3"}, c \in {{"v"}, {"w"}, {"v", "w"}},
                                     ks \in {<<"v", "w">>, <<"w", "v">>}, r \in Returned},
      {[Updating("1", {"v"}, <<"v", "w">>, r \cup {"count=exact"}, "eq") EXCEPT
            !.range = [given |-> TRUE, min |-> m, max |-> 3]] : r \in Returned, m \in {2, 3, 4}},
      Refusals, EmbedWrites>>

-----------------------------------------------------------------------------
(* Calls: arguments in the query string or in the body, with filters. In a  *)
(* query string not.and and not.or are taken for arguments: left out.       *)
Arg(name, mode) == [name |-> name, mode |-> mode, composite |-> FALSE]
Function(isSet, args) == [unnamed |-> FALSE, args |-> args, table |-> "", isSet |-> isSet, scalar |-> FALSE, out |-> FALSE]
Declared   == {<<Arg("x", "in"), Arg("y", "in")>>, <<Arg("y", "in"), Arg("x", "in"), Arg("a", "out")>>, <<>>}
ArgValues  == {<<"1">>, <<"1", ".", "5">>, <<"neq">> \o <<"1">>}
Calling(isSet, declared) ==
    [Get EXCEPT !.table = "f", !.call = TRUE, !.db = [f |-> Nine.item],
                !.catalog = [NoCatalog EXCEPT !.calls = [f |-> Function(isSet, declared)]]]
Bound(x, y) == {<<"x", x>>, <<"y", y>>}
ByQuery(c, fs, x, y) ==
    With([c EXCEPT !.meant.filters = fs, !.meant.args = Bound(Joined(x), Joined(y))],
         PrintAll(fs) \o <<Param("limit", <<"2">>), Param("x", x), Param("y", y)>>)
ByBody(c, fs) ==
    With([c EXCEPT !.method = "POST", !.records = <<[x |-> "1", y |-> "2"]>>, !.sorted = <<"x", "y">>,
                   !.meant.filters = fs, !.meant.args = Bound("1", "2")], PrintAll(fs))
CallRequests ==
    LET calls == {Calling(s, d) : s \in BOOLEAN, d \in Declared}
        tests == {<<>>} \cup {<<t>> : t \in Simple("a") \cup Flat(Simple("a"), Simple("b"))}
        plain == {fs \in tests : fs = <<>> \/ fs[1].kind = "test" \/ ~fs[1].not}
    IN  <<{ByQuery(c, fs, x, y) : c \in calls, fs \in plain, x \in ArgValues, y \in ArgValues},
          {ByBody(c, fs) : c \in calls, fs \in tests},
          {[ByBody(c, <<>>) EXCEPT !.accept = <<[type |-> "text/html", q |-> 10]>>] : c \in calls}>>

-----------------------------------------------------------------------------
(* Orders of projects by themselves or by their client, and of their tasks. *)
Orders1(on, rel)  == {OrderOf(on, rel, "id", d, n) : d \in {"", "asc", "desc"}, n \in {"", "nullsfirst", "nullslast"}}
OrderRequests ==
   <<{LET r == Embedding("project", <<Client("client", ""), Tasks(l, ""), Tags("", "")>>, <<>>, OfficeRows("2", "2", {}))
     IN  With([r EXCEPT !.meant.order = <<a, b, c>>],
              r.filters \o <<OrderParam("", <<a, b>>), OrderParam("task", <<c>>)>>) :
        l \in {"", "t"}, a \in Orders1("", ""), b \in Orders1("", "client"), c \in Orders1("task", "")}>>

AllRequests == SelectRequests \o FilterRequests \o PageRequests \o EmbedRequests \o WalkRequests
               \o WriteRequests \o CallRequests \o OrderRequests
=============================================================================
