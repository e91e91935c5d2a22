------------------------------- MODULE Requests -------------------------------
(***************************************************************************)
(* The handler of a request with what it calls: the parser, the builder    *)
(* and PostgreSQL. The filters of a request are the sequences of symbols   *)
(* the parser works on, once in the order of their keys and once in that   *)
(* of the map.                                                             *)
(***************************************************************************)
EXTENDS RequestHandler, Postgres

(* The arguments of a GET are among the filters.                           *)
Parsing(r) ==
    LET Own(fs) == IF r.call /\ ~HasBody(r) THEN FiltersOnly(fs) ELSE fs
    IN  Parse(r.table, Own(r.filters), Own(r.ranged))

Info(r) == NewSchemaInfo(r.catalog)
Argument(f) == FoldLeft(LAMBDA acc, c : acc \o c, "", f.value)

Building(r, ps, o) ==
    LET t    == r.table
        rs   == r.records
        args == Arguments(r.filters)
        named == [n \in {Joined(args[i].key) : i \in DOMAIN args} |->
                     Argument(CHOOSE a \in ToSet(args) : Joined(a.key) = n)]
    IN  CASE r.call /\ HasBody(r) -> BuildExecute(t, rs[1], r.sorted, ps, o, Info(r))
          [] r.call -> BuildExecute(t, named, [i \in DOMAIN args |-> Joined(args[i].key)], ps, o, Info(r))
          [] r.method = "GET" -> BuildSelect(t, ps, o, Info(r))
          [] r.method = "POST" -> Done(0, BuildInsert(t, rs, r.keys, ps, o, Info(r)))
          [] r.method = "PATCH" -> Done(0, BuildUpdate(t, rs[1], r.keys, ps, o, Info(r)))
          [] OTHER -> Done(0, BuildDelete(t, ps, o, Info(r)))

(* One row is enough when the function does not return a set.              *)
FunctionIsSet(r) == GetFunction(Info(r), r.table).isSet

-----------------------------------------------------------------------------
(* What the database answers: an SQLSTATE, or the rows, how many they are   *)
(* and, for a write, the rows of its table after it.                        *)
Refused(code)     == [code |-> code, rows |-> <<>>, affected |-> 0, total |-> -1, after |-> <<>>]
Answers(rows, total) == [Refused("") EXCEPT !.rows = rows, !.affected = Len(rows), !.total = total]
Wrote(rows, after)   == [Refused("") EXCEPT !.rows = rows, !.affected = Len(rows), !.after = after]

Broken(stmt, db) == \/ stmt.kind = "select" /\ ~Legible(stmt.items, stmt.joins)
                    \/ \E r \in Rows(db, stmt.table) :
                          \/ ~WellFormed(stmt.where, stmt.alias :> r, stmt.values)
                          \/ stmt.kind = "select" /\ ~JoinsWellFormed(stmt.joins, stmt.alias :> r, db)

(* What keeps a write from being carried out, whatever the rows: its text;  *)
(* and the rows it answers with, those its inner joins keep.                *)
Illegal(stmt, db) ==
    CASE stmt.kind = "update" /\ stmt.set = <<>> -> "42601"
      [] stmt.kind \in {"update", "delete"} /\ Broken(stmt, db) -> "42601"
      [] OTHER -> ReturningError(stmt.returning, DOMAIN db[stmt.table][1])
Joining(stmt, rows, db) == SelectSeq(rows, LAMBDA r : KeptBy(stmt.returning.joins, "_source" :> r, db))

RunSelect(r, stmt, db) ==
    CASE stmt.table \notin DOMAIN db -> Refused(IF r.call THEN "42883" ELSE "42P01")
      [] Broken(stmt, db) \/ BadPage(stmt.page) -> Refused("42601")
      [] OTHER -> Answers(PageOf(Selected(stmt, db), stmt.page), IF stmt.counted THEN Total(stmt, db) ELSE -1)

RunRecursive(stmt, db) ==
    LET all  == Recursive(stmt, db)
        rows == {x.row : x \in all}
        Copies(acc, r) == acc \o [i \in 1..Times(stmt, all, r) |-> r]
    IN  IF BadPage(stmt.page) \/ ~Legible(stmt.items, stmt.joins) THEN Refused("42601")
        ELSE Answers(PageOf(FoldLeft(Copies, <<>>, Listing(rows)), stmt.page), -1)

(* Row by row: a row that clashes with one of the table is an error, is    *)
(* skipped or is merged into it, as the conflict clause says.               *)
RunInsert(stmt, db, pk) ==
    LET rows   == IF stmt.rows = <<>> THEN <<<<>>>> ELSE Inserted(stmt)
        cols   == DOMAIN db[stmt.table][1]
        whole(r) == [c \in cols |-> IF c \in DOMAIN r THEN r[c] ELSE "null"]
        target == IF stmt.conflict.action = "none" THEN pk ELSE stmt.conflict.target
        Clash(t, r) == {i \in DOMAIN t : \A c \in target : t[i][c] = r[c]}
        Add(acc, r) ==
            LET clash == Clash(acc.after, r)
                i     == CHOOSE i \in clash : TRUE
                old   == acc.after[i]
                new   == [c \in cols |-> IF c \in ToSet(stmt.conflict.set) THEN r[c] ELSE old[c]]
            IN  CASE acc.code # "" -> acc
                  [] \E c \in pk : r[c] = "null" -> Refused("23502")
                  [] clash = {} -> [acc EXCEPT !.after = Append(@, r), !.rows = Append(@, r), !.affected = @ + 1]
                  [] stmt.conflict.action = "none" -> Refused("23505")
                  [] stmt.conflict.action = "nothing" -> acc
                  [] i > Len(db[stmt.table]) -> Refused("21000")
                  [] OTHER -> [acc EXCEPT !.after[i] = new, !.rows = Append(@, new), !.affected = @ + 1]
    IN  CASE stmt.conflict.action = "" \/ (stmt.conflict.action = "update" /\ stmt.conflict.set = <<>>) ->
               Refused("42601")
          [] Illegal(stmt, db) # "" -> Refused(Illegal(stmt, db))
          [] OTHER -> FoldLeft(Add, [Refused("") EXCEPT !.after = db[stmt.table]],
                      [i \in DOMAIN rows |-> whole(rows[i])])

RunUpdate(stmt, db) ==
    IF Illegal(stmt, db) # "" THEN Refused(Illegal(stmt, db))
    ELSE LET old == db[stmt.table]
             new == Updated(stmt, db)
             hit == SelectSeq([i \in DOMAIN old |-> i], LAMBDA i : Holds(stmt.where, stmt.table :> old[i], stmt.values))
         IN  Wrote(Joining(stmt, [i \in DOMAIN hit |-> new[hit[i]]], db), new)

RunDelete(stmt, db) ==
    IF Illegal(stmt, db) # "" THEN Refused(Illegal(stmt, db))
    ELSE Wrote(Joining(stmt, SelectSeq(db[stmt.table], LAMBDA r : Holds(stmt.where, stmt.table :> r, stmt.values)), db),
               Deleted(stmt, db))

Answering(r, s) ==
    CASE s.kind = "insert" -> RunInsert(s, r.db, ToSet(PrimaryKey(r.catalog, s.table)))
      [] s.kind = "update" -> RunUpdate(s, r.db)
      [] s.kind = "delete" -> RunDelete(s, r.db)
      [] s.kind = "recursive" -> RunRecursive(s, r.db)
      [] OTHER -> RunSelect(r, s, r.db)
===============================================================================
