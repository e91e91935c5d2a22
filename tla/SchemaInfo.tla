------------------------------ MODULE SchemaInfo ------------------------------
(***************************************************************************)
(* The schema cache (database/schemainfo.go): the relationships between    *)
(* tables, worked out from their constraints, from the columns of the      *)
(* views and from the functions. The code has a map from a table to its    *)
(* relationships; here they are one sequence, in the order they were       *)
(* appended, and those of a table are the ones that start at it.           *)
(*                                                                         *)
(* A catalog is a record:                                                  *)
(*   tables     the tables in the order Go ranges over the map of keys     *)
(*   names      tables and views in alphabetical order                     *)
(*   partitions the tables that are partitions                             *)
(*   fks        foreign keys [name, table, cols, related, relCols]         *)
(*   pk         table |-> the columns of its primary key                   *)
(*   unique     table |-> the unique constraints, as sets of columns       *)
(*   views      [view, viewCol, table, col]: a view's column and its source*)
(*   functions  name |-> [of, returns, isSet]: the table its only argument *)
(*              is a row of, the table its result is a row of, "" if none  *)
(*   calls      name |-> what a call of the function needs                 *)
(*   composite  <<table, col>> of the columns of a composite or array type *)
(*   untyped    <<table, col>> of the columns whose type is not tsvector   *)
(***************************************************************************)
EXTENDS Naturals, Sequences, SequencesExt, FiniteSets

(* The elements of a set, in some order. *)
Listing(S) == FoldSet(LAMBDA x, seq : Append(seq, x), <<>>, S)

NoRel == [type |-> "none", table |-> "", cols |-> <<>>, related |-> "", relCols |-> <<>>, junction |-> "",
          jCols |-> <<>>, jRelCols |-> <<>>, fk |-> "", function |-> "", isSet |-> FALSE]

Keyed(type, table, cols, related, relCols, fk) ==
    [NoRel EXCEPT !.type = type, !.table = table, !.cols = cols, !.related = related,
                  !.relCols = relCols, !.fk = fk]
Through(rel, junction, jCols, jRelCols) ==
    [rel EXCEPT !.junction = junction, !.jCols = jCols, !.jRelCols = jRelCols]

(* A relationship read from its other end. *)
Other(type) == CASE type = "M2O" -> "O2M" [] type = "O2M" -> "M2O" [] OTHER -> type

-----------------------------------------------------------------------------
(* Keys from or to partitions are left out. *)
ForeignKeys(cat, t) == SelectSeq(cat.fks, LAMBDA fk : /\ fk.table = t
                                                      /\ {fk.table, fk.related} \cap cat.partitions = {})
PrimaryKey(cat, t)  == IF t \in DOMAIN cat.pk THEN cat.pk[t] ELSE <<>>
UniqueOf(cat, t)    == IF t \in DOMAIN cat.unique THEN cat.unique[t] ELSE {}

(* One row at most on this side: the columns are the key or are unique. *)
UniqueSource(cat, fk) ==
    ToSet(fk.cols) \in UniqueOf(cat, fk.table) \cup (IF fk.table \in DOMAIN cat.pk THEN {ToSet(cat.pk[fk.table])} ELSE {})
TypeOf(cat, fk) == IF UniqueSource(cat, fk) THEN "O2O" ELSE "M2O"

AddRelationships(cat, fk) ==
    <<Keyed(TypeOf(cat, fk), fk.table, fk.cols, fk.related, fk.relCols, fk.name),
      Keyed(Other(TypeOf(cat, fk)), fk.related, fk.relCols, fk.table, fk.cols, fk.name)>>

(* A junction table: two foreign keys, both within the primary key. *)
IsJunction(cat, t) == LET fks == ForeignKeys(cat, t)
                      IN  /\ Len(fks) = 2
                          /\ \A i \in 1..2 : ToSet(fks[i].cols) \subseteq ToSet(PrimaryKey(cat, t))
AddM2MRelationships(a, b) ==
    <<Through(Keyed("M2M", a.related, a.relCols, b.related, b.relCols, a.name), a.table, a.cols, b.cols),
      Through(Keyed("M2M", b.related, b.relCols, a.related, a.relCols, b.name), a.table, b.cols, a.cols)>>

TableRelationships(cat) ==
    LET Of(t) == LET fks == ForeignKeys(cat, t)
                 IN  FlattenSeq([i \in DOMAIN fks |-> AddRelationships(cat, fks[i])])
                     \o (IF IsJunction(cat, t) THEN AddM2MRelationships(fks[1], fks[2]) ELSE <<>>)
    IN  FlattenSeq([i \in DOMAIN cat.tables |-> Of(cat.tables[i])])

-----------------------------------------------------------------------------
(* Views. A surface of some columns of a table is the table itself or a     *)
(* view; it counts as exposing them all when it has as many columns that    *)
(* come from one of them.                                                   *)
ColumnsOf(cat, name, table, cols) ==
    IF name = table THEN cols
    ELSE LET From(c) == SelectSeq(cat.views, LAMBDA d : d.view = name /\ d.table = table /\ d.col = c)
             all     == FlattenSeq([i \in DOMAIN cols |-> From(cols[i])])
         IN  [i \in DOMAIN all |-> all[i].viewCol]

CollectSurfaces(cat, table, cols) ==
    LET names == {table} \cup {cat.views[i].view : i \in DOMAIN cat.views}
    IN  {s \in {[name |-> n, cols |-> ColumnsOf(cat, n, table, cols), isView |-> n # table] : n \in names} :
            Len(s.cols) = Len(cols)}

FKViewRelationships(cat, fk) ==
    LET pairs == Listing({p \in CollectSurfaces(cat, fk.table, fk.cols)
                                 \X CollectSurfaces(cat, fk.related, fk.relCols) : p[1].isView \/ p[2].isView})
        both(s, t) == <<Keyed(TypeOf(cat, fk), s.name, s.cols, t.name, t.cols, fk.name),
                        Keyed(Other(TypeOf(cat, fk)), t.name, t.cols, s.name, s.cols, fk.name)>>
    IN  FlattenSeq([i \in DOMAIN pairs |-> both(pairs[i][1], pairs[i][2])])

(* Views first, then by name: a junction that is a view is preferred. *)
ViewsFirst(cat, surfaces) ==
    LET Named(isView) == SelectSeq(cat.names, LAMBDA n : \E s \in surfaces : s.name = n /\ s.isView = isView)
        names         == Named(TRUE) \o Named(FALSE)
    IN  [i \in DOMAIN names |-> CHOOSE s \in surfaces : s.name = names[i]]

(* Many-to-many through the surfaces of both ends and of the junction; the  *)
(* first junction found for two ends wins. acc is [rels, seen, pairs].      *)
M2MViewRelationships(cat, acc, rel) ==
    LET pair     == <<{rel.table, rel.related}, rel.junction>>
        junction == ViewsFirst(cat, CollectSurfaces(cat, rel.junction, rel.jCols \o rel.jRelCols))
        tables   == ViewsFirst(cat, CollectSurfaces(cat, rel.table, rel.cols))
        others   == ViewsFirst(cat, CollectSurfaces(cat, rel.related, rel.relCols))
        n        == Len(rel.jCols)
        triples  == FlattenSeq([i \in DOMAIN tables |-> FlattenSeq([k \in DOMAIN others |->
                        [l \in DOMAIN junction |-> <<tables[i], others[k], junction[l]>>]])])
        Add(a, t) ==
            LET j     == SubSeq(t[3].cols, 1, n)
                r     == SubSeq(t[3].cols, n + 1, Len(t[3].cols))
                there == Keyed("M2M", t[1].name, t[1].cols, t[2].name, t[2].cols, rel.fk)
                back  == Keyed("M2M", t[2].name, t[2].cols, t[1].name, t[1].cols, rel.fk)
            IN  IF ~(\E i \in 1..3 : t[i].isView) \/ <<t[1].name, t[2].name>> \in a.seen THEN a
                ELSE [a EXCEPT !.seen = @ \cup {<<t[1].name, t[2].name>>},
                               !.rels = @ \o <<Through(there, t[3].name, j, r), Through(back, t[3].name, r, j)>>]
    IN  IF pair \in acc.pairs THEN acc
        ELSE FoldLeft(Add, [acc EXCEPT !.pairs = @ \cup {pair}], triples)

(* The tables' own many-to-many pairs, taken in the order of their tables'  *)
(* names; those a view takes part in have no surfaces.                      *)
AddViewRelationships(cat, rels) ==
    LET keyed == FlattenSeq([i \in DOMAIN cat.fks |-> IF cat.fks[i] \in ToSet(ForeignKeys(cat, cat.fks[i].table))
                                                      THEN FKViewRelationships(cat, cat.fks[i]) ELSE <<>>])
        own   == FlattenSeq([i \in DOMAIN cat.names |->
                    SelectSeq(rels, LAMBDA r : r.type = "M2M" /\ r.table = cat.names[i])])
    IN  rels \o keyed \o FoldLeft(LAMBDA a, r : M2MViewRelationships(cat, a, r),
                                 [rels |-> <<>>, seen |-> {}, pairs |-> {}], own).rels

ComputedRelationships(cat) ==
    LET names == Listing({f \in DOMAIN cat.functions : cat.functions[f].of # "" /\ cat.functions[f].returns # ""})
    IN  [i \in DOMAIN names |-> LET f == cat.functions[names[i]]
                                IN  [NoRel EXCEPT !.type = "Computed", !.table = f.of, !.related = f.returns,
                                                  !.function = names[i], !.isSet = f.isSet]]

(* The cache: what the builder asks it for. *)
NewSchemaInfo(cat) ==
    [rels |-> AddViewRelationships(cat, TableRelationships(cat)) \o ComputedRelationships(cat),
     pk |-> cat.pk, composite |-> cat.composite, untyped |-> cat.untyped, functions |-> cat.calls]

-----------------------------------------------------------------------------
(* Its getters. *)
GetRelationships(info, table) == SelectSeq(info.rels, LAMBDA r : r.table = table)
FirstOf(rels) == IF rels = <<>> THEN NoRel ELSE rels[1]
FindRelationshipByFK(rels, fk) == FirstOf(SelectSeq(rels, LAMBDA r : r.fk = fk))
FindRelationshipByCol(rels, col) ==
    FirstOf(SelectSeq(rels, LAMBDA r : r.cols = <<col>>) \o SelectSeq(rels, LAMBDA r : r.relCols = <<col>>))
FilterRelationships(rels, related, fk) ==
    SelectSeq(rels, LAMBDA r : r.type # "Computed" /\ r.related = related /\ fk \in {"", r.fk})

NoFunction == [unnamed |-> FALSE, args |-> <<>>, table |-> "", isSet |-> TRUE, scalar |-> FALSE, out |-> FALSE]
GetFunction(info, name) == IF name \in DOMAIN info.functions THEN info.functions[name] ELSE NoFunction
=============================================================================
