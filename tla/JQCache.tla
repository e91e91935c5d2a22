------------------------------- MODULE JQCache -------------------------------
(***************************************************************************)
(* The cache of compiled jq programs (jqeval/jqeval.go): a list of entries, *)
(* the one used last in front, and a map from their keys, both guarded by  *)
(* one mutex. A program is its text and the names of its variables, which  *)
(* are bound when it is compiled; no name has the comma that joins them.    *)
(***************************************************************************)
EXTENDS Naturals, Sequences

CONSTANT CacheEntries       \* JQ.CacheEntries

ASSUME CacheAssumption == CacheEntries \in Nat \ {0}

(* The key of a program; and a mutant: its variables are not part of it. *)
TextOnly(p) == [p EXCEPT !.vars = {}]
Key(p)      == p

Entry(p)    == [key |-> Key(p), code |-> p]
EmptyCache  == [ll |-> <<>>, items |-> {}]

Hit(c, p)     == Key(p) \in c.items
Place(c, p)   == CHOOSE i \in 1..Len(c.ll) : c.ll[i].key = Key(p)
Stored(c, p)  == c.ll[Place(c, p)]

(* MoveToFront: entry e is in front of those that were before place i.      *)
ToFront(c, i, e) ==
    [c EXCEPT !.ll = [j \in 1..Len(c.ll) |-> IF j = 1 THEN e ELSE IF j <= i THEN c.ll[j - 1] ELSE c.ll[j]]]

Get(c, p) == IF Hit(c, p) THEN ToFront(c, Place(c, p), Stored(c, p)) ELSE c

(* Entries leave from the back, and the map with them; and a mutant: the    *)
(* map keeps them.                                                          *)
Forgets(items, gone) == items
Leaves(items, gone)  == items \ gone

PushFront(c, p) ==
    LET all  == <<Entry(p)>> \o c.ll
        kept == IF Len(all) > CacheEntries THEN CacheEntries ELSE Len(all)
        gone == {all[i].key : i \in kept + 1 .. Len(all)}
    IN  [ll |-> SubSeq(all, 1, kept), items |-> Leaves(c.items \cup {Key(p)}, gone)]

Put(c, p) == IF Hit(c, p) THEN ToFront(c, Place(c, p), Entry(p)) ELSE PushFront(c, p)
=============================================================================
