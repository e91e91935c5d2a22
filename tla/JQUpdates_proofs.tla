-------------------------- MODULE JQUpdates_proofs --------------------------
(***************************************************************************)
(* Theorems about jq updates (JQUpdates) and the program cache (JQCache),  *)
(* for every number of requests, rows and programs, and every table: that  *)
(* a request runs its own program, whatever the cache has dropped, that    *)
(* what it answers is what it has done, and that it changes the rows that  *)
(* match and no other, all at once or not at all.                          *)
(***************************************************************************)
EXTENDS JQUpdates, FiniteSetTheorems, SequenceTheorems, FunctionTheorems, TLAPS

-----------------------------------------------------------------------------
(* The cache: its list and its map have the same keys, each once, and the  *)
(* code of an entry is that of its key.                                    *)
Cache(P) == [ll : Seq([key : P, code : P]), items : SUBSET P]

CacheOK(c, P) ==
    /\ c.ll \in Seq([key : P, code : P])
    /\ \A i \in 1..Len(c.ll) : c.ll[i].code = c.ll[i].key
    /\ \A i, j \in 1..Len(c.ll) : c.ll[i].key = c.ll[j].key => i = j
    /\ \A k : k \in c.items <=> \E i \in 1..Len(c.ll) : c.ll[i].key = k
    /\ Len(c.ll) <= CacheEntries

\* What the map has is in the list.
LEMMA StoredLemma ==
    ASSUME NEW P, NEW c \in Cache(P), CacheOK(c, P), NEW p \in P, Hit(c, p)
    PROVE  /\ Place(c, p) \in 1..Len(c.ll) /\ c.ll[Place(c, p)].key = p
           /\ Stored(c, p) \in [key : P, code : P] /\ Stored(c, p).key = p /\ Stored(c, p).code = p
<1>1. \E i \in 1..Len(c.ll) : c.ll[i].key = Key(p)
  BY DEF Hit, CacheOK, Key
<1>2. Place(c, p) \in 1..Len(c.ll) /\ c.ll[Place(c, p)].key = p
  BY <1>1 DEF Place, Key
<1>3. Stored(c, p) = c.ll[Place(c, p)]
  BY DEF Stored
<1>4. \A i \in 1..Len(c.ll) : c.ll[i] \in [key : P, code : P]
  BY ElementOfSeq DEF CacheOK
<1>5. QED
  BY <1>2, <1>3, <1>4 DEF CacheOK

\* An entry is moved to the front, and perhaps compiled again.
LEMMA ToFrontLemma ==
    ASSUME NEW P, NEW c \in Cache(P), CacheOK(c, P), NEW i \in 1..Len(c.ll),
           NEW e \in [key : P, code : P], e.key = c.ll[i].key, e.code = e.key
    PROVE  ToFront(c, i, e) \in Cache(P) /\ CacheOK(ToFront(c, i, e), P)
<1> DEFINE n == Len(c.ll)
           f == [j \in 1..n |-> IF j = 1 THEN e ELSE IF j <= i THEN c.ll[j - 1] ELSE c.ll[j]]
           d == ToFront(c, i, e)
           old(j) == IF j = 1 THEN i ELSE IF j <= i THEN j - 1 ELSE j
<1>1. n \in Nat /\ c.ll \in [1..n -> [key : P, code : P]]
  BY LenProperties DEF CacheOK
<1>2. f \in [1..n -> [key : P, code : P]]
  BY <1>1
<1>3. f \in Seq([key : P, code : P]) /\ Len(f) = n
  BY <1>1, <1>2
<1>4. d \in Cache(P) /\ d.ll = f /\ d.items = c.items
  BY <1>3 DEF ToFront, Cache
<1>5. \A j \in 1..n : old(j) \in 1..n /\ f[j].key = c.ll[old(j)].key /\ f[j].code = f[j].key
  BY <1>1 DEF CacheOK
<1>6. \A j, k \in 1..n : old(j) = old(k) => j = k
  BY <1>1
<1>7. \A k \in 1..n : \E j \in 1..n : old(j) = k
  <2> SUFFICES ASSUME NEW k \in 1..n PROVE \E j \in 1..n : old(j) = k
    OBVIOUS
  <2>1. CASE k = i
    BY <1>1, <2>1
  <2>2. CASE k < i
    <3>1. k + 1 \in 1..n /\ old(k + 1) = k
      BY <1>1, <2>2
    <3>2. QED
      BY <3>1
  <2>3. CASE k > i
    <3>1. old(k) = k
      BY <1>1, <2>3
    <3>2. QED
      BY <3>1
  <2>4. QED
    BY <1>1, <2>1, <2>2, <2>3
<1> HIDE DEF f, d, old, n
<1>8. \A j, k \in 1..n : f[j].key = f[k].key => j = k
  <2>1. \A a, b \in 1..n : c.ll[a].key = c.ll[b].key => a = b
    BY DEF CacheOK, n
  <2>2. SUFFICES ASSUME NEW j \in 1..n, NEW k \in 1..n, f[j].key = f[k].key PROVE j = k
    OBVIOUS
  <2>3. c.ll[old(j)].key = c.ll[old(k)].key /\ old(j) \in 1..n /\ old(k) \in 1..n
    BY <1>5, <2>2
  <2>4. old(j) = old(k)
    BY <2>1, <2>3
  <2>5. QED
    BY <1>6, <2>4
<1>9. \A k : (\E j \in 1..n : f[j].key = k) <=> (\E j \in 1..n : c.ll[j].key = k)
  <2>1. ASSUME NEW j \in 1..n PROVE \E k \in 1..n : c.ll[k].key = f[j].key
    BY <1>5
  <2>2. ASSUME NEW k \in 1..n PROVE \E j \in 1..n : f[j].key = c.ll[k].key
    <3>1. PICK j \in 1..n : old(j) = k
      BY <1>7
    <3>2. f[j].key = c.ll[k].key
      BY <1>5, <3>1
    <3>3. QED
      BY <3>2
  <2>3. SUFFICES ASSUME NEW k PROVE (\E j \in 1..n : f[j].key = k) <=> (\E j \in 1..n : c.ll[j].key = k)
    OBVIOUS
  <2>4. ASSUME NEW j \in 1..n, f[j].key = k PROVE \E m \in 1..n : c.ll[m].key = k
    <3>1. PICK m \in 1..n : c.ll[m].key = f[j].key
      BY <2>1
    <3>2. QED
      BY <2>4, <3>1
  <2>5. ASSUME NEW j \in 1..n, c.ll[j].key = k PROVE \E m \in 1..n : f[m].key = k
    <3>1. PICK m \in 1..n : f[m].key = c.ll[j].key
      BY <2>2
    <3>2. QED
      BY <2>5, <3>1
  <2>6. QED
    BY <2>4, <2>5
<1>10. CacheOK(d, P)
  <2>1. d.ll \in Seq([key : P, code : P]) /\ Len(d.ll) = n /\ n <= CacheEntries
    BY <1>3, <1>4 DEF CacheOK, n
  <2>2. \A k : k \in d.items <=> \E j \in 1..n : d.ll[j].key = k
    BY <1>4, <1>9 DEF CacheOK, n
  <2>3. QED
    BY <1>4, <1>5, <1>8, <2>1, <2>2 DEF CacheOK
<1>11. QED
  BY <1>4, <1>10 DEF d

\* The map has as many keys as the list has entries.
LEMMA KeysLemma ==
    ASSUME NEW P, NEW c \in Cache(P), CacheOK(c, P)
    PROVE  c.items = {c.ll[i].key : i \in DOMAIN c.ll} /\ Len(c.ll) = Cardinality(c.items)
<1> DEFINE n == Len(c.ll)
           f == [i \in 1..n |-> c.ll[i].key]
<1>1. n \in Nat /\ DOMAIN c.ll = 1..n
  BY LenProperties DEF CacheOK
<1> HIDE DEF n
<1>2. c.items = {c.ll[i].key : i \in DOMAIN c.ll}
  BY <1>1 DEF CacheOK, n
<1>3. f \in Bijection(1..n, c.items)
  <2>1. f \in [1..n -> c.items]
    BY DEF CacheOK, n
  <2>2. \A i, j \in 1..n : f[i] = f[j] => i = j
    BY DEF CacheOK, n
  <2>3. \A k \in c.items : \E i \in 1..n : f[i] = k
    BY DEF CacheOK, n
  <2> HIDE DEF f
  <2>4. f \in Injection(1..n, c.items)
    BY <2>1, <2>2 DEF Injection, IsInjective
  <2>5. f \in Surjection(1..n, c.items)
    BY <2>1, <2>3 DEF Surjection
  <2>6. QED
    BY <2>4, <2>5 DEF Bijection
<1>4. Cardinality(c.items) = n
  <2>1. IsFiniteSet(1..n) /\ Cardinality(1..n) = n
    BY <1>1, FS_Interval
  <2>2. ExistsBijection(1..n, c.items)
    BY <1>3 DEF ExistsBijection
  <2>3. QED
    BY <2>1, <2>2, FS_Bijection
<1>5. QED
  BY <1>2, <1>4 DEF n

\* A new entry is put in front, and the last leaves when there are too many.
LEMMA PushFrontLemma ==
    ASSUME NEW P, NEW c \in Cache(P), CacheOK(c, P), NEW p \in P, ~Hit(c, p)
    PROVE  PushFront(c, p) \in Cache(P) /\ CacheOK(PushFront(c, p), P)
<1> DEFINE S == [key : P, code : P]
           n == Len(c.ll)
           e == Entry(p)
           all == <<e>> \o c.ll
           kept == IF Len(all) > CacheEntries THEN CacheEntries ELSE Len(all)
           gone == {all[i].key : i \in kept + 1 .. Len(all)}
           d == PushFront(c, p)
<1>1. e \in S /\ e.key = p /\ e.code = p
  BY DEF Entry, Key
<1>2. n \in Nat /\ c.ll \in Seq(S) /\ n <= CacheEntries /\ \A i \in 1..n : c.ll[i] \in S
  BY LenProperties, ElementOfSeq DEF CacheOK
<1> HIDE DEF e, S
<1>3. <<e>> \in Seq(S) /\ Len(<<e>>) = 1 /\ <<e>>[1] = e
  BY <1>1
<1> HIDE DEF n
<1>4. /\ all \in Seq(S) /\ Len(all) = n + 1
      /\ \A i \in 1..n + 1 : all[i] = IF i = 1 THEN e ELSE c.ll[i - 1]
  <2>1. /\ all \in Seq(S) /\ Len(all) = 1 + n
        /\ \A i \in 1..1 + n : all[i] = IF i <= 1 THEN <<e>>[i] ELSE c.ll[i - 1]
    BY <1>2, <1>3, ConcatProperties DEF n
  <2> HIDE DEF all
  <2>2. QED
    BY <1>2, <1>3, <2>1
<1> HIDE DEF all
<1>5. /\ kept \in 1..n + 1 /\ kept <= CacheEntries
  BY <1>2, <1>4, CacheAssumption
<1>6. d.ll = SubSeq(all, 1, kept) /\ d.items = (c.items \cup {p}) \ gone
  BY DEF PushFront, Leaves, Key, all, e
<1> HIDE DEF kept
<1>7. /\ d.ll \in Seq(S) /\ Len(d.ll) = kept
      /\ \A i \in 1..kept : d.ll[i] = all[i]
  BY <1>4, <1>5, <1>6, SubSeqProperties
<1>8. \A i, j \in 1..n + 1 : all[i].key = all[j].key => i = j
  <2>1. \A i \in 1..n : c.ll[i].key # p
    BY DEF CacheOK, Hit, Key, n
  <2>2. \A i, j \in 1..n : c.ll[i].key = c.ll[j].key => i = j
    BY DEF CacheOK, n
  <2>3. \A i \in 1..n + 1 : IF i = 1 THEN all[i].key = p ELSE i - 1 \in 1..n /\ all[i].key = c.ll[i - 1].key
    BY <1>1, <1>2, <1>4
  <2>4. SUFFICES ASSUME NEW i \in 1..n + 1, NEW j \in 1..n + 1, all[i].key = all[j].key PROVE i = j
    OBVIOUS
  <2>5. CASE i = 1 \/ j = 1
    BY <2>1, <2>3, <2>4, <2>5
  <2>6. CASE i # 1 /\ j # 1
    <3>1. i - 1 = j - 1
      BY <2>2, <2>3, <2>4, <2>6
    <3>2. QED
      BY <3>1, <1>2
  <2>7. QED
    BY <2>5, <2>6
<1>9. \A i \in 1..n + 1 : all[i].code = all[i].key
  <2>1. \A i \in 1..n : c.ll[i].code = c.ll[i].key
    BY DEF CacheOK, n
  <2>2. \A i \in 1..n + 1 : i = 1 \/ i - 1 \in 1..n
    BY <1>2
  <2>3. QED
    BY <1>1, <1>4, <2>1, <2>2
<1>10. \A k : k \in c.items \cup {p} <=> \E i \in 1..n + 1 : all[i].key = k
  <2>1. \A k : k \in c.items <=> \E i \in 1..n : c.ll[i].key = k
    BY DEF CacheOK, n
  <2>2. \A i \in 1..n : i + 1 \in 1..n + 1 /\ all[i + 1] = c.ll[i]
    BY <1>2, <1>4
  <2>3. \A i \in 1..n + 1 : i = 1 \/ i - 1 \in 1..n
    BY <1>2
  <2>4. 1 \in 1..n + 1 /\ all[1].key = p
    BY <1>1, <1>2, <1>4
  <2>5. QED
    BY <1>1, <1>4, <2>1, <2>2, <2>3, <2>4
<1>11. \A k : k \in d.items <=> \E i \in 1..kept : d.ll[i].key = k
  <2>1. \A k : k \in gone <=> \E i \in kept + 1 .. n + 1 : all[i].key = k
    BY <1>4
  <2>2. \A i \in 1..n + 1 : i \in 1..kept \/ i \in kept + 1 .. n + 1
    BY <1>2, <1>5
  <2>3. \A i \in 1..kept : i \in 1..n + 1 /\ i \notin kept + 1 .. n + 1
    BY <1>2, <1>5
  <2>4. \A i \in kept + 1 .. n + 1 : i \in 1..n + 1
    BY <1>2, <1>5
  <2> HIDE DEF gone
  <2>5. ASSUME NEW k \in d.items PROVE \E i \in 1..kept : d.ll[i].key = k
    BY <1>6, <1>7, <1>10, <2>1, <2>2, <2>5
  <2>6. ASSUME NEW i \in 1..kept PROVE d.ll[i].key \in d.items
    <3>1. d.ll[i].key \in c.items \cup {p}
      BY <1>7, <1>10, <2>3
    <3>2. d.ll[i].key \notin gone
      BY <1>7, <1>8, <2>1, <2>3, <2>4
    <3>3. QED
      BY <1>6, <3>1, <3>2
  <2>7. QED
    BY <2>5, <2>6
<1>12. d \in Cache(P)
  <2>1. p \in P /\ c.items \subseteq P /\ d = [ll |-> d.ll, items |-> d.items]
    BY DEF Cache, PushFront
  <2>2. QED
    BY <1>6, <1>7, <2>1 DEF Cache, S
<1>13. \A i, j \in 1..kept : d.ll[i].key = d.ll[j].key => i = j
  BY <1>2, <1>5, <1>7, <1>8
<1>14. \A i \in 1..kept : d.ll[i].code = d.ll[i].key
  BY <1>2, <1>5, <1>7, <1>9
<1> HIDE DEF d
<1>15. CacheOK(d, P)
  BY <1>5, <1>7, <1>11, <1>13, <1>14 DEF CacheOK, S
<1>16. QED
  BY <1>12, <1>15 DEF d

\* The two operations of the cache.
LEMMA GetLemma ==
    ASSUME NEW P, NEW c \in Cache(P), CacheOK(c, P), NEW p \in P
    PROVE  Get(c, p) \in Cache(P) /\ CacheOK(Get(c, p), P)
<1>1. CASE Hit(c, p)
  BY <1>1, StoredLemma, ToFrontLemma DEF Get
<1>2. CASE ~Hit(c, p)
  BY <1>2 DEF Get
<1>3. QED
  BY <1>1, <1>2

\* Putting a program keeps the cache in order.
LEMMA PutLemma ==
    ASSUME NEW P, NEW c \in Cache(P), CacheOK(c, P), NEW p \in P
    PROVE  Put(c, p) \in Cache(P) /\ CacheOK(Put(c, p), P)
<1>1. CASE Hit(c, p)
  <2>1. Entry(p) \in [key : P, code : P] /\ Entry(p).key = p /\ Entry(p).code = Entry(p).key
    BY DEF Entry, Key
  <2>2. QED
    BY <1>1, <2>1, StoredLemma, ToFrontLemma DEF Put
<1>2. CASE ~Hit(c, p)
  BY <1>2, PushFrontLemma DEF Put
<1>3. QED
  BY <1>1, <1>2

-----------------------------------------------------------------------------
(* The requests.                                                           *)
Texts     == UNION {Programs[q] : q \in Actors}
Labels    == {"handle", "write", "parse", "select", "lock", "eval", "update", "transform", "release", "done"}
LockedRow == [row : Rows, ctid : 1..2 * Cardinality(Rows) + 1, history : SUBSET Actors]
Request   == [pc : Labels, program : Texts \cup {NoCode}, code : Texts \cup {NoCode}, missed : BOOLEAN,
              tx : BOOLEAN, gone : BOOLEAN, todo : SUBSET Rows, seen : [Rows -> SUBSET Actors],
              got : Seq(LockedRow), done : Nat, status : Statuses, committed : BOOLEAN]

Typed ==
    /\ config \in Config
    /\ rows \in [Rows -> Version] /\ draft \in [Rows -> Version]
    /\ owner \in [Rows -> Actors \cup {NoOne}]
    /\ cache \in Cache(Texts)
    /\ req \in [Actors -> Request]

\* A row that nobody has locked has one version.
Free == \A r \in Rows : owner[r] = NoOne => draft[r] = rows[r]

\* What a request has at each of its stages.
Stage(q) ==
    /\ req[q].pc \in {"handle", "parse", "select", "lock", "eval", "update"} => q \in Clients
    /\ req[q].pc \in {"write", "transform"} => q \in Writers
    /\ At(q, "release") <=> req[q].status # 0
    /\ req[q].pc \in {"parse", "select", "lock", "eval", "update", "transform"} => req[q].program \in Texts
    /\ req[q].code \in {NoCode, req[q].program}
    /\ req[q].pc \in {"handle", "write", "select", "lock"} => req[q].code = NoCode
    /\ config.mode # "none" /\ ~At(q, "done") => req[q].tx
    /\ req[q].pc \in {"select", "lock", "eval", "update"} => req[q].tx
    /\ Held(q) # {} => req[q].tx
    /\ req[q].pc \in {"handle", "write", "parse", "select", "done"} => Held(q) = {}
    /\ req[q].pc \in {"handle", "write", "parse", "select"} => req[q].got = <<>>
    /\ req[q].pc \in {"handle", "write", "parse", "select", "lock"} => req[q].done = 0
    /\ At(q, "eval") => req[q].done <= Len(req[q].got)
    /\ At(q, "eval") /\ req[q].code # NoCode => req[q].done < Len(req[q].got)
    /\ At(q, "update") => req[q].done < Len(req[q].got)
    /\ req[q].pc \in {"eval", "update"} => Len(req[q].got) <= config.maxRows /\ req[q].todo = {}

\* What the answer will say of the change.
Truth(q) ==
    /\ req[q].pc \in {"handle", "write", "parse", "select", "lock", "eval", "update"} => ~req[q].committed
    /\ At(q, "transform") => (req[q].committed <=> config.mode = "none")
    /\ At(q, "release") /\ config.mode # "none" => ~req[q].committed
    /\ At(q, "release") /\ req[q].committed /\ req[q].status >= 400 => q \in Writers \/ req[q].status \in {406, 500}
    /\ At(q, "release") /\ req[q].status < 400 /\ ~req[q].committed => config.mode # "none"

IInv == Typed /\ CacheOK(cache, Texts) /\ Free /\ \A q \in Actors : Stage(q) /\ Truth(q)

-----------------------------------------------------------------------------
(* What a step of one request leaves to the others.                        *)
RowsInv == /\ rows \in [Rows -> Version] /\ draft \in [Rows -> Version]
           /\ owner \in [Rows -> Actors \cup {NoOne}]
           /\ Free

\* The locks of the others stay, and the rows under them.
Frame(q) ==
    /\ \A r \in Rows, e \in Actors \ {q} : owner'[r] = e <=> owner[r] = e
    /\ \A r \in Rows : owner[r] \in Actors \ {q} => rows'[r] = rows[r] /\ draft'[r] = draft[r]

Others(q) == \A e \in Actors \ {q} : req'[e] = req[e]

\* A step that leaves the rows alone.
LEMMA UnlockedLemma ==
    ASSUME RowsInv, NEW q \in Actors, Unlocked
    PROVE  RowsInv' /\ Frame(q) /\ Held(q)' = Held(q)
BY DEF RowsInv, Unlocked, Frame, Free, Held

\* The end of a transaction: of the rows that were locked, the committed or the
\* new version stays.
LEMMA EndLemma ==
    ASSUME RowsInv, NEW q \in Actors, Publish(q) \/ Abort(q)
    PROVE  RowsInv' /\ Frame(q) /\ Held(q)' = {}
<1>0. NoOne \notin Actors
  BY UpdatesAssumption DEF Actors
<1>1. owner' = [r \in Rows |-> IF owner[r] = q THEN NoOne ELSE owner[r]]
  BY DEF Publish, Abort, Freed, Held
<1>2. Held(q)' = {} /\ owner' \in [Rows -> Actors \cup {NoOne}]
  BY <1>0, <1>1 DEF Held, RowsInv
<1>3. CASE Publish(q)
  <2>1. draft' = draft /\ rows' = [r \in Rows |-> IF owner[r] = q THEN draft[r] ELSE rows[r]]
    BY <1>3 DEF Publish, Held
  <2>2. RowsInv'
    BY <1>0, <1>1, <1>2, <2>1 DEF RowsInv, Free
  <2>3. Frame(q)
    BY <1>0, <1>1, <2>1 DEF RowsInv, Frame
  <2>4. QED
    BY <1>2, <2>2, <2>3
<1>4. CASE Abort(q)
  <2>1. rows' = rows /\ draft' = [r \in Rows |-> IF owner[r] = q THEN rows[r] ELSE draft[r]]
    BY <1>4 DEF Abort, Held
  <2>2. RowsInv'
    BY <1>0, <1>1, <1>2, <2>1 DEF RowsInv, Free
  <2>3. Frame(q)
    BY <1>0, <1>1, <2>1 DEF RowsInv, Frame
  <2>4. QED
    BY <1>2, <2>2, <2>3
<1>5. QED
  BY <1>3, <1>4

\* A request that does not move keeps its stage.
LEMMA OthersStay ==
    ASSUME IInv, NEW q \in Actors, UNCHANGED config, Others(q), Frame(q)
    PROVE  \A e \in Actors \ {q} : Stage(e)' /\ Truth(e)'
<1> SUFFICES ASSUME NEW e \in Actors \ {q} PROVE Stage(e)' /\ Truth(e)'
  OBVIOUS
<1>1. req'[e] = req[e] /\ Stage(e) /\ Truth(e)
  BY DEF IInv, Others
<1>2. Held(e)' = Held(e)
  BY DEF Held, Frame
<1>3. Stage(e)'
  BY <1>1, <1>2 DEF Stage, At
<1>4. Truth(e)'
  BY <1>1 DEF Truth, At
<1>5. QED
  BY <1>3, <1>4

\* What has to be shown of a step.
LEMMA StepLemma ==
    ASSUME IInv, NEW q \in Actors, NEW x \in Request, req' = [req EXCEPT ![q] = x],
           UNCHANGED config, RowsInv', Frame(q),
           cache' \in Cache(Texts), CacheOK(cache', Texts),
           req'[q] = x => Stage(q)' /\ Truth(q)'
    PROVE  IInv'
<1>1. req' \in [Actors -> Request] /\ req'[q] = x /\ Others(q)
  BY DEF IInv, Typed, Others
<1>2. \A e \in Actors : Stage(e)' /\ Truth(e)'
  BY <1>1, OthersStay
<1>3. Typed'
  BY <1>1 DEF IInv, Typed, RowsInv
<1>4. QED
  BY <1>2, <1>3 DEF IInv, RowsInv

\* A step that changes no row and leaves the cache alone.
LEMMA QuietLemma ==
    ASSUME IInv, NEW q \in Actors, NEW x \in Request, req' = [req EXCEPT ![q] = x],
           UNCHANGED <<config, cache>>, Unlocked,
           req'[q] = x /\ Held(q)' = Held(q) => Stage(q)' /\ Truth(q)'
    PROVE  IInv'
<1>1. RowsInv
  BY DEF IInv, Typed, RowsInv
<1>2. RowsInv' /\ Frame(q) /\ Held(q)' = Held(q)
  BY <1>1, UnlockedLemma
<1>3. cache' \in Cache(Texts) /\ CacheOK(cache', Texts)
  BY DEF IInv, Typed
<1>4. QED
  BY <1>2, <1>3, StepLemma

-----------------------------------------------------------------------------
(* Answers.                                                                *)
\* The record of a request that has just come.
LEMMA FreshLemma ==
    ASSUME Typed, NEW q \in Actors
    PROVE  /\ Fresh(q) \in Request
           /\ Fresh(q).pc = IF q \in Clients THEN "handle" ELSE "write"
           /\ Fresh(q).code = NoCode /\ Fresh(q).program = NoCode /\ Fresh(q).todo = {}
           /\ Fresh(q).got = <<>> /\ Fresh(q).done = 0 /\ Fresh(q).status = 0 /\ ~Fresh(q).committed
           /\ Fresh(q).tx <=> config.mode # "none"
BY EmptySeq DEF Fresh, Request, Labels, Statuses

\* The record of a request that is answered.
LEMMA AnsweredLemma ==
    ASSUME Typed, NEW q \in Actors, NEW s \in Statuses, NEW c \in BOOLEAN, NEW t \in BOOLEAN
    PROVE  /\ Answered(q, s, c, t) \in Request
           /\ Answered(q, s, c, t).pc = "release" /\ Answered(q, s, c, t).status = s
           /\ Answered(q, s, c, t).committed = c /\ Answered(q, s, c, t).tx = t
           /\ Answered(q, s, c, t).code = NoCode
<1>1. Fresh(q) \in Request /\ req[q] \in Request /\ Fresh(q).code = NoCode
  BY FreshLemma DEF Typed
<1>2. req[q].gone \in BOOLEAN
  BY <1>1 DEF Request
<1> DEFINE f == Fresh(q)
<1> HIDE DEF f
<1>3. f \in Request /\ f.code = NoCode
  BY <1>1 DEF f
<1>4. Answered(q, s, c, t) = [f EXCEPT !.pc = "release", !.status = s, !.committed = c, !.tx = t, !.gone = req[q].gone]
  BY DEF Answered, f
<1>5. Answered(q, s, c, t) \in Request
  BY <1>2, <1>3, <1>4 DEF Request, Labels
<1>6. /\ Answered(q, s, c, t).pc = "release" /\ Answered(q, s, c, t).status = s
      /\ Answered(q, s, c, t).committed = c /\ Answered(q, s, c, t).tx = t
      /\ Answered(q, s, c, t).code = NoCode
  BY <1>3, <1>4 DEF Request
<1>7. QED
  BY <1>5, <1>6

\* The record of a request that is over.
LEMMA OverLemma ==
    ASSUME Typed, NEW q \in Actors, NEW c \in BOOLEAN
    PROVE  /\ Over(q, c) \in Request /\ Over(q, c).pc = "done" /\ Over(q, c).status = 0
           /\ Over(q, c).committed = c /\ Over(q, c).code = NoCode
<1>1. Fresh(q) \in Request /\ Fresh(q).code = NoCode /\ Fresh(q).status = 0
  BY FreshLemma
<1>2. QED
  BY <1>1 DEF Over, Request, Labels

\* A request fails.
LEMMA FailIInv ==
    ASSUME IInv, NEW q \in Actors, NEW s \in {400, 500}, Fail(q, s), UNCHANGED <<config, cache>>,
           req[q].pc \notin {"release", "done"}
    PROVE  IInv'
<1> DEFINE c == req[q].committed
           t == req[q].tx /\ (config.mode # "none" \/ req[q].gone)
           x == Answered(q, s, c, t)
<1>0. /\ req[q] \in Request /\ RowsInv /\ Typed /\ Stage(q) /\ Truth(q) /\ CacheOK(cache, Texts) /\ cache \in Cache(Texts)
  BY DEF IInv, Typed, RowsInv
<1>1. req' = [req EXCEPT ![q] = x] /\ c \in BOOLEAN /\ t \in BOOLEAN /\ s \in Statuses
  BY <1>0 DEF Fail, Typed, Request, Statuses
<1>2. /\ x \in Request /\ x.pc = "release" /\ x.status = s /\ x.committed = c /\ x.tx = t /\ x.code = NoCode
  <2> HIDE DEF c, t
  <2> QED  BY <1>0, <1>1, AnsweredLemma
<1>3. /\ RowsInv' /\ Frame(q)
      /\ Held(q)' = {} \/ (Held(q)' = Held(q) /\ ~(config.mode = "none" /\ req[q].tx /\ ~req[q].gone))
  BY <1>0, UnlockedLemma, EndLemma DEF Fail
<1>4. Held(q)' # {} => t
  BY <1>0, <1>3 DEF Stage
<1>5. config.mode # "none" => t
  BY <1>0 DEF Stage, At
<1>6. /\ config.mode # "none" => ~c
      /\ c => q \in Writers
      /\ q \in Writers => q \notin Clients
  BY <1>0, UpdatesAssumption DEF Truth, Stage, At, Labels, Request
<1>7. s # 0 /\ s >= 400 /\ ~(s < 400)
  OBVIOUS
<1> HIDE DEF x, c, t
<1>8. req'[q] = x => Stage(q)' /\ Truth(q)'
  <2> SUFFICES ASSUME req'[q] = x PROVE Stage(q)' /\ Truth(q)'
    OBVIOUS
  <2>0. /\ req'[q].pc = "release" /\ req'[q].status = s /\ req'[q].committed = c /\ req'[q].tx = t
        /\ req'[q].code = NoCode /\ config' = config
    BY <1>2
  <2>1. Stage(q)'
    BY <1>4, <1>5, <1>7, <2>0 DEF Stage, At
  <2>2. Truth(q)'
    BY <1>6, <1>7, <2>0 DEF Truth, At
  <2>3. QED
    BY <2>1, <2>2
<1>9. QED
  BY <1>0, <1>1, <1>2, <1>3, <1>8, StepLemma

\* Handle, up to a failure.
LEMMA HandleIInv ==
    ASSUME IInv, NEW q \in Actors, Handle(q)
    PROVE  IInv'
<1>0. req[q] \in Request /\ Stage(q) /\ Truth(q)
  BY DEF IInv, Typed
<1>1. CASE Fail(q, 400)
  BY <1>1, FailIInv DEF Handle, At
<1>2. ASSUME NEW p \in Programs[q], req' = [req EXCEPT ![q].pc = "parse", ![q].program = p], Unlocked
      PROVE  IInv'
  <2> DEFINE x == [req[q] EXCEPT !.pc = "parse", !.program = p]
  <2>1. req' = [req EXCEPT ![q] = x]
    BY <1>2 DEF IInv, Typed
  <2>2. p \in Texts
    BY DEF Texts
  <2>3. /\ x \in Request /\ x.pc = "parse" /\ x.program = p
        /\ x.code = req[q].code /\ x.tx = req[q].tx /\ x.got = req[q].got /\ x.done = req[q].done
        /\ x.status = req[q].status /\ x.committed = req[q].committed
    BY <1>0, <2>2 DEF Request, Labels
  <2> HIDE DEF x
  <2>4. ASSUME req'[q] = x, Held(q)' = Held(q) PROVE Stage(q)' /\ Truth(q)'
    <3>1. Stage(q)'
      BY <1>0, <2>2, <2>3, <2>4 DEF Stage, At, Handle
    <3>2. Truth(q)'
      BY <1>0, <2>3, <2>4 DEF Truth, At, Handle
    <3>3. QED
      BY <3>1, <3>2
  <2>5. QED
    BY <1>2, <2>1, <2>3, <2>4, QuietLemma DEF Handle
<1>3. QED
  BY <1>1, <1>2 DEF Handle

\* jqeval.compile: the cache is asked.
LEMMA LookupIInv ==
    ASSUME IInv, NEW q \in Actors, Lookup(q)
    PROVE  IInv'
<1> DEFINE p == req[q].program
           m == ~Hit(cache, p)
           k == IF Hit(cache, p) THEN Stored(cache, p).code ELSE req[q].code
           x == [req[q] EXCEPT !.missed = m, !.code = k]
<1>0. /\ req[q] \in Request /\ Stage(q) /\ Truth(q) /\ CacheOK(cache, Texts) /\ cache \in Cache(Texts) /\ RowsInv
      /\ NeedsCode(q) /\ Unlocked /\ UNCHANGED config
  BY DEF IInv, Typed, RowsInv, Lookup
<1>1. p \in Texts
  BY <1>0 DEF Stage, NeedsCode
<1>2. cache' \in Cache(Texts) /\ CacheOK(cache', Texts)
  BY <1>0, <1>1, GetLemma DEF Lookup
<1>3. k \in {NoCode, p} /\ m \in BOOLEAN
  BY <1>0, <1>1, StoredLemma DEF Stage
<1>4. req' = [req EXCEPT ![q] = x]
  BY DEF Lookup, IInv, Typed
<1> HIDE DEF p, m, k
<1>5. /\ x \in Request /\ x.pc = req[q].pc /\ x.program = req[q].program /\ x.code = k
      /\ x.tx = req[q].tx /\ x.got = req[q].got /\ x.done = req[q].done /\ x.todo = req[q].todo
      /\ x.status = req[q].status /\ x.committed = req[q].committed
  BY <1>0, <1>1, <1>3 DEF Request
<1> HIDE DEF x
<1>6. RowsInv' /\ Frame(q) /\ Held(q)' = Held(q)
  BY <1>0, UnlockedLemma
<1>7. ASSUME req'[q] = x PROVE Stage(q)' /\ Truth(q)'
  <2>1. /\ req[q].pc \in {"parse", "eval", "transform"} /\ (At(q, "eval") => req[q].done < Len(req[q].got))
    BY <1>0 DEF NeedsCode
  <2>2. Stage(q)'
    BY <1>0, <1>1, <1>3, <1>5, <1>6, <1>7, <2>1 DEF Stage, At, p
  <2>3. Truth(q)'
    BY <1>0, <1>5, <1>7 DEF Truth, At
  <2>4. QED
    BY <2>2, <2>3
<1>8. QED
  BY <1>0, <1>2, <1>4, <1>5, <1>6, <1>7, StepLemma

\* ... and the program is compiled when it is not there.
LEMMA CompileIInv ==
    ASSUME IInv, NEW q \in Actors, Compile(q)
    PROVE  IInv'
<1>0. /\ req[q] \in Request /\ Stage(q) /\ Truth(q) /\ CacheOK(cache, Texts) /\ cache \in Cache(Texts) /\ RowsInv
      /\ NeedsCode(q) /\ UNCHANGED config /\ req[q].pc \in {"parse", "eval", "transform"}
  BY DEF IInv, Typed, RowsInv, Compile, NeedsCode
<1>1. CASE Fail(q, 400) /\ UNCHANGED cache
  BY <1>0, <1>1, FailIInv
<1>2. CASE /\ cache' = Put(cache, req[q].program) /\ Unlocked
           /\ req' = [req EXCEPT ![q].missed = FALSE, ![q].code = req[q].program]
  <2> DEFINE p == req[q].program
             m == FALSE
             x == [req[q] EXCEPT !.missed = m, !.code = p]
  <2>1. p \in Texts /\ m \in BOOLEAN
    BY <1>0 DEF Stage
  <2>2. cache' \in Cache(Texts) /\ CacheOK(cache', Texts)
    BY <1>0, <1>2, <2>1, PutLemma
  <2>3. req' = [req EXCEPT ![q] = x]
    BY <1>2 DEF IInv, Typed
  <2> HIDE DEF m, p
  <2>4. /\ x \in Request /\ x.pc = req[q].pc /\ x.program = req[q].program /\ x.code = p
        /\ x.tx = req[q].tx /\ x.got = req[q].got /\ x.done = req[q].done /\ x.todo = req[q].todo
        /\ x.status = req[q].status /\ x.committed = req[q].committed
    BY <1>0, <2>1 DEF Request
  <2> HIDE DEF x
  <2>5. RowsInv' /\ Frame(q) /\ Held(q)' = Held(q)
    BY <1>0, <1>2, UnlockedLemma
  <2>6. ASSUME req'[q] = x PROVE Stage(q)' /\ Truth(q)'
    <3>1. At(q, "eval") => req[q].done < Len(req[q].got)
      BY <1>0 DEF NeedsCode
    <3>2. Stage(q)'
      BY <1>0, <2>1, <2>4, <2>5, <2>6, <3>1 DEF Stage, At, p
    <3>3. Truth(q)'
      BY <1>0, <2>4, <2>6 DEF Truth, At
    <3>4. QED
      BY <3>2, <3>3
  <2>7. QED
    BY <1>0, <2>2, <2>3, <2>4, <2>5, <2>6, StepLemma
<1>3. QED
  BY <1>1, <1>2 DEF Compile

\* The transaction begins.
LEMMA BeginIInv ==
    ASSUME IInv, NEW q \in Actors, Begin(q)
    PROVE  IInv'
<1>0. /\ req[q] \in Request /\ Stage(q) /\ Truth(q) /\ req[q].pc = "parse" /\ UNCHANGED <<config, cache>>
  BY DEF IInv, Typed, Begin, At
<1>1. CASE Fail(q, 400) \/ Fail(q, 500)
  BY <1>0, <1>1, FailIInv
<1>2. CASE req' = [req EXCEPT ![q].pc = "select", ![q].code = NoCode, ![q].tx = TRUE] /\ Unlocked
  <2> DEFINE t == TRUE
             x == [req[q] EXCEPT !.pc = "select", !.code = NoCode, !.tx = t]
  <2>1. req' = [req EXCEPT ![q] = x] /\ t \in BOOLEAN /\ t
    BY <1>2 DEF IInv, Typed
  <2> HIDE DEF t
  <2>3. /\ x \in Request /\ x.pc = "select" /\ x.program = req[q].program
        /\ x.code = NoCode /\ x.tx = t /\ x.got = req[q].got /\ x.done = req[q].done
        /\ x.status = req[q].status /\ x.committed = req[q].committed
    BY <1>0, <2>1 DEF Request, Labels
  <2> HIDE DEF x
  <2>4. ASSUME req'[q] = x, Held(q)' = Held(q) PROVE Stage(q)' /\ Truth(q)'
    <3>1. Stage(q)'
      BY <1>0, <2>1, <2>3, <2>4 DEF Stage, At
    <3>2. Truth(q)'
      BY <1>0, <2>3, <2>4 DEF Truth, At
    <3>3. QED
      BY <3>1, <3>2
  <2>5. QED
    BY <1>0, <1>2, <2>1, <2>3, <2>4, QuietLemma
<1>3. QED
  BY <1>1, <1>2 DEF Begin

\* The rows that match are about to be locked.
LEMMA SelectIInv ==
    ASSUME IInv, NEW q \in Actors, Select(q)
    PROVE  IInv'
<1>0. /\ req[q] \in Request /\ Stage(q) /\ Truth(q) /\ req[q].pc = "select" /\ UNCHANGED <<config, cache>>
  BY DEF IInv, Typed, Select, At
<1>1. CASE Fail(q, 500)
  BY <1>0, <1>1, FailIInv
<1>2. CASE /\ req' = [req EXCEPT ![q].pc = "lock", ![q].todo = {r \in Rows : Matches(rows[r])},
                                 ![q].seen = [r \in Rows |-> rows[r].history]]
           /\ Unlocked
  <2> DEFINE t == {r \in Rows : Matches(rows[r])}
             h == [r \in Rows |-> rows[r].history]
             x == [req[q] EXCEPT !.pc = "lock", !.todo = t, !.seen = h]
  <2>1. req' = [req EXCEPT ![q] = x] /\ t \in SUBSET Rows /\ h \in [Rows -> SUBSET Actors]
    BY <1>2 DEF IInv, Typed, Version
  <2> HIDE DEF t, h
  <2>3. /\ x \in Request /\ x.pc = "lock" /\ x.program = req[q].program
        /\ x.code = req[q].code /\ x.tx = req[q].tx /\ x.got = req[q].got /\ x.done = req[q].done
        /\ x.status = req[q].status /\ x.committed = req[q].committed
    BY <1>0, <2>1 DEF Request, Labels
  <2> HIDE DEF x
  <2>4. ASSUME req'[q] = x, Held(q)' = Held(q) PROVE Stage(q)' /\ Truth(q)'
    <3>1. Stage(q)'
      BY <1>0, <2>1, <2>3, <2>4 DEF Stage, At
    <3>2. Truth(q)'
      BY <1>0, <2>3, <2>4 DEF Truth, At
    <3>3. QED
      BY <3>1, <3>2
  <2>5. QED
    BY <1>0, <1>2, <2>1, <2>3, <2>4, QuietLemma
<1>3. QED
  BY <1>1, <1>2 DEF Select

\* A lock is taken of a row that has one version.
LEMMA LockRows ==
    ASSUME RowsInv, NEW q \in Actors, NEW r \in Rows, owner[r] = NoOne,
           owner' = [owner EXCEPT ![r] = ForUpdate(q, r)], UNCHANGED <<rows, draft>>
    PROVE  RowsInv' /\ Frame(q) /\ Held(q)' \subseteq Held(q) \cup {r} /\ (Matches(rows[r]) => r \in Held(q)')
<1>0. NoOne \notin Actors /\ ForUpdate(q, r) \in {q, NoOne}
  BY UpdatesAssumption DEF Actors, ForUpdate
<1>1. \A s \in Rows : owner'[s] = IF s = r THEN ForUpdate(q, r) ELSE owner[s]
  BY DEF RowsInv
<1>2. RowsInv'
  BY <1>0, <1>1 DEF RowsInv, Free
<1>3. Frame(q)
  BY <1>0, <1>1 DEF Frame
<1>4. Held(q)' \subseteq Held(q) \cup {r}
  BY <1>1 DEF Held
<1>5. Matches(rows[r]) => owner'[r] = q
  BY <1>1 DEF ForUpdate, Matches
<1>6. QED
  BY <1>2, <1>3, <1>4, <1>5 DEF Held

\* One more row is locked, and kept if it matches.
LEMMA GotLemma ==
    ASSUME IInv, NEW q \in Actors, NEW r \in Rows
    PROVE  LET g == [row |-> r, ctid |-> rows[r].ctid, history |-> rows[r].history]
           IN  /\ g \in LockedRow
               /\ req[q].got \in Seq(LockedRow) /\ Len(req[q].got) \in Nat
               /\ Append(req[q].got, g) \in Seq(LockedRow)
               /\ Len(Append(req[q].got, g)) = Len(req[q].got) + 1
               /\ \A i \in 1..Len(req[q].got) : Append(req[q].got, g)[i] = req[q].got[i]
               /\ Append(req[q].got, g)[Len(req[q].got) + 1] = g
<1> DEFINE g == [row |-> r, ctid |-> rows[r].ctid, history |-> rows[r].history]
<1>1. g \in LockedRow
  BY DEF IInv, Typed, Version, LockedRow
<1>2. req[q].got \in Seq(LockedRow) /\ Len(req[q].got) \in Nat
  BY LenProperties DEF IInv, Typed, Request
<1> HIDE DEF g
<1>3. /\ Append(req[q].got, g) \in Seq(LockedRow)
      /\ Len(Append(req[q].got, g)) = Len(req[q].got) + 1
      /\ \A i \in 1..Len(req[q].got) : Append(req[q].got, g)[i] = req[q].got[i]
      /\ Append(req[q].got, g)[Len(req[q].got) + 1] = g
  BY <1>1, <1>2, AppendProperties
<1>4. QED
  BY <1>1, <1>2, <1>3 DEF g

\* A row is locked, and read when it matches (jqSelectRows).
LEMMA LockIInv ==
    ASSUME IInv, NEW q \in Actors, Lock(q)
    PROVE  IInv'
<1> DEFINE g(r) == [row |-> r, ctid |-> rows[r].ctid, history |-> rows[r].history]
<1>0. /\ req[q] \in Request /\ Stage(q) /\ Truth(q) /\ req[q].pc = "lock" /\ UNCHANGED <<config, cache, rows, draft>>
      /\ RowsInv /\ CacheOK(cache, Texts) /\ cache \in Cache(Texts)
  BY DEF IInv, Typed, RowsInv, Lock, Locking, At
<1>1. PICK r \in req[q].todo :
        /\ owner[r] = NoOne
        /\ owner' = [owner EXCEPT ![r] = ForUpdate(q, r)]
        /\ req' = [req EXCEPT ![q].todo = @ \ {r},
                              ![q].got = IF Matches(rows[r]) THEN Append(@, g(r)) ELSE @]
  BY DEF Lock
<1>2. r \in Rows
  BY <1>0 DEF Request
<1> DEFINE d == req[q].todo \ {r}
           h == IF Matches(rows[r]) THEN Append(req[q].got, g(r)) ELSE req[q].got
           x == [req[q] EXCEPT !.todo = d, !.got = h]
<1>3. h \in Seq(LockedRow) /\ d \in SUBSET Rows
  BY <1>0, <1>2, GotLemma DEF Request
<1>4. req' = [req EXCEPT ![q] = x]
  BY <1>1 DEF IInv, Typed
<1> HIDE DEF h, d
<1>5. /\ x \in Request /\ x.pc = "lock" /\ x.program = req[q].program /\ x.code = req[q].code
      /\ x.tx = req[q].tx /\ x.done = req[q].done
      /\ x.status = req[q].status /\ x.committed = req[q].committed
  BY <1>0, <1>3 DEF Request
<1> HIDE DEF x
<1>6. RowsInv' /\ Frame(q)
  BY <1>0, <1>1, <1>2, LockRows
<1>7. ASSUME req'[q] = x PROVE Stage(q)' /\ Truth(q)'
  <2>1. Stage(q)'
    BY <1>0, <1>5, <1>7 DEF Stage, At
  <2>2. Truth(q)'
    BY <1>0, <1>5, <1>7 DEF Truth, At
  <2>3. QED
    BY <2>1, <2>2
<1>8. QED
  BY <1>0, <1>4, <1>5, <1>6, <1>7, StepLemma

\* All are locked, and not too many.
LEMMA SelectedIInv ==
    ASSUME IInv, NEW q \in Actors, Selected(q)
    PROVE  IInv'
<1>0. /\ req[q] \in Request /\ Stage(q) /\ Truth(q) /\ req[q].pc = "lock" /\ ~Locking(q) /\ UNCHANGED <<config, cache>>
      /\ config.maxRows \in Nat /\ Len(req[q].got) \in Nat
  <2>1. req[q] \in Request /\ config \in Config /\ Cardinality(Rows) \in Nat
    BY UpdatesAssumption, FS_CardinalityType DEF IInv, Typed
  <2>2. config.maxRows \in Nat /\ Len(req[q].got) \in Nat
    BY <2>1, LenProperties DEF Request, Config
  <2>3. QED
    BY <2>1, <2>2 DEF IInv, Selected, At
<1>1. CASE Fail(q, 400)
  BY <1>0, <1>1, FailIInv
<1>2. CASE req' = [req EXCEPT ![q].pc = "eval", ![q].todo = {}] /\ Unlocked /\ ~TooMany(req[q].got)
  <2> DEFINE x == [req[q] EXCEPT !.pc = "eval", !.todo = {}]
  <2>1. req' = [req EXCEPT ![q] = x]
    BY <1>2 DEF IInv, Typed
  <2>2. Len(req[q].got) <= config.maxRows
    BY <1>0, <1>2 DEF TooMany
  <2>3. /\ x \in Request /\ x.pc = "eval" /\ x.program = req[q].program
        /\ x.code = req[q].code /\ x.tx = req[q].tx /\ x.got = req[q].got /\ x.done = req[q].done
        /\ x.status = req[q].status /\ x.committed = req[q].committed /\ x.todo = {}
    BY <1>0 DEF Request, Labels
  <2> HIDE DEF x
  <2>4. ASSUME req'[q] = x, Held(q)' = Held(q) PROVE Stage(q)' /\ Truth(q)'
    <3>1. Stage(q)'
      BY <1>0, <2>2, <2>3, <2>4 DEF Stage, At
    <3>2. Truth(q)'
      BY <1>0, <2>3, <2>4 DEF Truth, At
    <3>3. QED
      BY <3>1, <3>2
  <2>5. QED
    BY <1>0, <1>2, <2>1, <2>3, <2>4, QuietLemma
<1>3. QED
  BY <1>1, <1>2 DEF Selected

-----------------------------------------------------------------------------
(* New versions.                                                           *)

\* There is always a place that is not taken.
LEMMA NewPlaceLemma ==
    ASSUME RowsInv, NEW r \in Rows
    PROVE  NewPlace(r) \in 1..2 * Cardinality(Rows) + 1 /\ NewPlace(r) \notin Taken(r)
<1> DEFINE N == Cardinality(Rows)
           f == [s \in Rows |-> rows[s].ctid]
           g == [s \in Rows |-> draft[s].ctid]
           F == {f[s] : s \in Rows}
           G == {g[s] : s \in Rows}
<1>1. IsFiniteSet(Rows) /\ N \in Nat
  BY UpdatesAssumption, FS_CardinalityType
<1>2. IsFiniteSet(F) /\ Cardinality(F) <= N /\ Cardinality(F) \in Nat
  <2>1. f \in Surjection(Rows, F)
    BY DEF Surjection
  <2>2. QED
    BY <1>1, <2>1, FS_Surjection, FS_CardinalityType
<1>3. IsFiniteSet(G) /\ Cardinality(G) <= N /\ Cardinality(G) \in Nat
  <2>1. g \in Surjection(Rows, G)
    BY DEF Surjection
  <2>2. QED
    BY <1>1, <2>1, FS_Surjection, FS_CardinalityType
<1>4. Taken(r) \subseteq F \cup G
  BY UpdatesAssumption DEF Taken, Beside
<1> HIDE DEF F, G, f, g, N
<1>5. IsFiniteSet(F \cup G) /\ Cardinality(F \cup G) <= 2 * N
  <2>1. /\ IsFiniteSet(F \cup G) /\ IsFiniteSet(F \cap G)
        /\ Cardinality(F \cup G) = Cardinality(F) + Cardinality(G) - Cardinality(F \cap G)
    BY <1>2, <1>3, FS_Union, FS_Intersection
  <2>2. Cardinality(F \cap G) \in Nat
    BY <2>1, FS_CardinalityType
  <2>3. QED
    BY <1>1, <1>2, <1>3, <2>1, <2>2
<1>6. ~(1..2 * N + 1 \subseteq F \cup G)
  <2>1. SUFFICES ASSUME 1..2 * N + 1 \subseteq F \cup G PROVE FALSE
    OBVIOUS
  <2>2. Cardinality(1..2 * N + 1) <= Cardinality(F \cup G)
    BY <1>5, <2>1, FS_Subset
  <2>3. Cardinality(1..2 * N + 1) = 2 * N + 1
    BY <1>1, FS_Interval
  <2>4. Cardinality(F \cup G) \in Nat
    BY <1>5, FS_CardinalityType
  <2>5. QED
    BY <1>1, <1>5, <2>2, <2>3, <2>4
<1>7. \E n \in 1..2 * Cardinality(Rows) + 1 : n \notin Taken(r)
  BY <1>4, <1>6 DEF N
<1>8. QED
  BY <1>7 DEF NewPlace

\* An update of rows that others have not locked.
LEMMA UpdateRows ==
    ASSUME RowsInv, NEW q \in Actors, NEW H \in SUBSET Rows, \A r \in H : owner[r] \in {q, NoOne},
           NEW h \in SUBSET Actors, NEW o \in BOOLEAN,
           draft' = [r \in Rows |-> IF r \notin H THEN draft[r]
                                    ELSE [draft[r] EXCEPT !.open = o, !.ctid = NewPlace(r), !.history = h]],
           owner' = [r \in Rows |-> IF r \in H THEN q ELSE owner[r]],
           UNCHANGED rows
    PROVE  RowsInv' /\ Frame(q)
<1>0. NoOne \notin Actors
  BY UpdatesAssumption DEF Actors
<1>1. \A r \in Rows : draft'[r] \in Version /\ (r \notin H => draft'[r] = draft[r])
  <2> SUFFICES ASSUME NEW r \in Rows PROVE draft'[r] \in Version /\ (r \notin H => draft'[r] = draft[r])
    OBVIOUS
  <2> DEFINE n == NewPlace(r)
             v == [draft[r] EXCEPT !.open = o, !.ctid = n, !.history = h]
  <2>1. draft[r] \in Version /\ n \in 1..2 * Cardinality(Rows) + 1
    BY NewPlaceLemma DEF RowsInv
  <2>2. draft'[r] = IF r \in H THEN v ELSE draft[r]
    OBVIOUS
  <2> HIDE DEF n
  <2>3. v \in Version
    BY <2>1 DEF Version
  <2> HIDE DEF v
  <2>4. QED
    BY <2>1, <2>2, <2>3
<1>2. draft' \in [Rows -> Version] /\ owner' \in [Rows -> Actors \cup {NoOne}] /\ rows' \in [Rows -> Version]
  <2>1. draft' = [r \in Rows |-> draft'[r]] /\ \A r \in Rows : draft'[r] \in Version
    BY <1>1 DEF RowsInv
  <2>2. QED
    BY <2>1 DEF RowsInv
<1>3. Free'
  BY <1>0, <1>1 DEF RowsInv, Free
<1>4. Frame(q)
  BY <1>0, <1>1 DEF Frame
<1>5. QED
  BY <1>2, <1>3, <1>4 DEF RowsInv

\* The version that a writer makes.
LEMMA WriteRows ==
    ASSUME RowsInv, config \in Config, NEW w \in Actors, NEW r \in Rows, owner[r] = NoOne, NEW v \in Version, Change(r, w, v)
    PROVE  /\ RowsInv' /\ Frame(w)
           /\ config.mode = "none" => Held(w)' = Held(w)
<1>0. NoOne \notin Actors
  BY UpdatesAssumption DEF Actors
<1>1. CASE config.mode = "none"
  <2>1. draft' = [draft EXCEPT ![r] = v] /\ rows' = [rows EXCEPT ![r] = v] /\ owner' = owner
    BY <1>1 DEF Change
  <2>2. QED
    BY <1>0, <2>1 DEF RowsInv, Free, Frame, Held
<1>2. CASE config.mode # "none"
  <2>1. draft' = [draft EXCEPT ![r] = v] /\ owner' = [owner EXCEPT ![r] = w] /\ rows' = rows
    BY <1>2 DEF Change
  <2>2. RowsInv'
    BY <1>0, <2>1 DEF RowsInv, Free
  <2>3. Frame(w)
    BY <1>0, <2>1 DEF RowsInv, Frame
  <2>4. QED
    BY <1>2, <2>2, <2>3
<1>3. QED
  BY <1>1, <1>2

-----------------------------------------------------------------------------
\* The row is done.
LEMMA NextRowLemma ==
    ASSUME Typed, NEW q \in Actors
    PROVE  LET x == NextRow(q)
           IN  /\ x \in Request /\ x.pc = "eval" /\ x.program = req[q].program
               /\ x.code = NoCode /\ x.tx = req[q].tx /\ x.got = req[q].got /\ x.done = req[q].done + 1
               /\ x.status = req[q].status /\ x.committed = req[q].committed /\ x.todo = req[q].todo
               /\ x.seen = req[q].seen
<1> DEFINE d == req[q].done + 1
           x == [req[q] EXCEPT !.pc = "eval", !.done = d, !.code = NoCode]
<1>1. req[q] \in Request /\ d \in Nat
  BY DEF Typed, Request
<1>2. x = NextRow(q)
  BY DEF NextRow
<1> HIDE DEF d
<1>3. /\ x \in Request /\ x.pc = "eval" /\ x.program = req[q].program
      /\ x.code = NoCode /\ x.tx = req[q].tx /\ x.got = req[q].got /\ x.done = d
      /\ x.status = req[q].status /\ x.committed = req[q].committed /\ x.todo = req[q].todo
      /\ x.seen = req[q].seen
  BY <1>1 DEF Request, Labels
<1> HIDE DEF x
<1>4. QED
  BY <1>2, <1>3 DEF d

\* What holds of a request holds of it with one row more done.
LEMMA NextRowStage ==
    ASSUME IInv, NEW q \in Actors, req[q].pc \in {"eval", "update"}, req[q].done < Len(req[q].got),
           UNCHANGED config, req'[q] = NextRow(q)
    PROVE  Stage(q)' /\ Truth(q)'
<1> DEFINE x == NextRow(q)
<1>0. req[q] \in Request /\ Stage(q) /\ Truth(q) /\ Typed
  BY DEF IInv, Typed
<1>1. /\ x.pc = "eval" /\ x.program = req[q].program
      /\ x.code = NoCode /\ x.tx = req[q].tx /\ x.got = req[q].got /\ x.done = req[q].done + 1
      /\ x.status = req[q].status /\ x.committed = req[q].committed /\ x.todo = req[q].todo
  BY <1>0, NextRowLemma
<1>2. req[q].done + 1 <= Len(req[q].got)
  <2>1. req[q].done \in Nat /\ Len(req[q].got) \in Nat
    BY <1>0, LenProperties DEF Request
  <2>2. QED
    BY <2>1
<1>3. req'[q] = x
  OBVIOUS
<1> HIDE DEF x
<1>4. Stage(q)'
  BY <1>0, <1>1, <1>2, <1>3 DEF Stage, At
<1>5. Truth(q)'
  BY <1>0, <1>1, <1>3 DEF Truth, At
<1>6. QED
  BY <1>4, <1>5

\* The program has nothing to change, or yields new columns (jqUpdateRow).
LEMMA EvalIInv ==
    ASSUME IInv, NEW q \in Actors, Eval(q)
    PROVE  IInv'
<1>0. /\ req[q] \in Request /\ Stage(q) /\ Truth(q) /\ req[q].pc = "eval" /\ req[q].code # NoCode
      /\ UNCHANGED <<config, cache>> /\ Typed /\ req[q].done < Len(req[q].got)
  BY DEF IInv, Typed, Eval, At, Stage
<1>1. CASE Fail(q, 400)
  BY <1>0, <1>1, FailIInv
<1>2. CASE req' = [req EXCEPT ![q] = NextRow(q)] /\ Unlocked
  <2>1. NextRow(q) \in Request
    BY <1>0, NextRowLemma
  <2>2. req'[q] = NextRow(q) => Stage(q)' /\ Truth(q)'
    BY <1>0, NextRowStage
  <2>3. QED
    BY <1>0, <1>2, <2>1, <2>2, QuietLemma
<1>3. CASE req' = [req EXCEPT ![q].pc = "update"] /\ Unlocked
  <2> DEFINE x == [req[q] EXCEPT !.pc = "update"]
  <2>1. req' = [req EXCEPT ![q] = x]
    BY <1>3 DEF IInv, Typed
  <2>3. /\ x \in Request /\ x.pc = "update" /\ x.program = req[q].program
        /\ x.code = req[q].code /\ x.tx = req[q].tx /\ x.got = req[q].got /\ x.done = req[q].done
        /\ x.status = req[q].status /\ x.committed = req[q].committed /\ x.todo = req[q].todo
    BY <1>0 DEF Request, Labels
  <2> HIDE DEF x
  <2>4. ASSUME req'[q] = x, Held(q)' = Held(q) PROVE Stage(q)' /\ Truth(q)'
    <3>1. Stage(q)'
      BY <1>0, <2>3, <2>4 DEF Stage, At
    <3>2. Truth(q)'
      BY <1>0, <2>3, <2>4 DEF Truth, At
    <3>3. QED
      BY <3>1, <3>2
  <2>5. QED
    BY <1>0, <1>3, <2>1, <2>3, <2>4, QuietLemma
<1>4. QED
  BY <1>1, <1>2, <1>3 DEF Eval

\* The UPDATE of a row by its place.
LEMMA UpdateIInv ==
    ASSUME IInv, NEW q \in Actors, Update(q)
    PROVE  IInv'
<1>0. /\ req[q] \in Request /\ Stage(q) /\ Truth(q) /\ req[q].pc = "update"
      /\ UNCHANGED <<config, cache>> /\ Typed /\ req[q].done < Len(req[q].got) /\ RowsInv
      /\ CacheOK(cache, Texts) /\ cache \in Cache(Texts)
  BY DEF IInv, Typed, Update, At, Stage, RowsInv
<1>1. CASE Fail(q, 500)
  BY <1>0, <1>1, FailIInv
<1>2. ASSUME \A r \in Hits(q) : owner[r] \in {q, NoOne}, NEW o \in BOOLEAN,
             draft' = [r \in Rows |-> IF r \notin Hits(q) THEN draft[r]
                                      ELSE [draft[r] EXCEPT !.open = o, !.ctid = NewPlace(r),
                                                            !.history = Current(q).history \cup {q}]],
             owner' = [r \in Rows |-> IF r \in Hits(q) THEN q ELSE owner[r]],
             req' = [req EXCEPT ![q] = NextRow(q)],
             UNCHANGED rows
      PROVE  IInv'
  <2> DEFINE h == Current(q).history \cup {q}
             H == Hits(q)
  <2>1. h \in SUBSET Actors /\ H \in SUBSET Rows
    <3>1. req[q].done + 1 \in 1..Len(req[q].got) /\ req[q].got \in Seq(LockedRow)
      BY <1>0, LenProperties DEF Request
    <3>2. Current(q) \in LockedRow
      BY <3>1, ElementOfSeq DEF Current
    <3>3. QED
      BY <3>2 DEF LockedRow, Hits
  <2>2. draft' = [r \in Rows |-> IF r \notin H THEN draft[r]
                                 ELSE [draft[r] EXCEPT !.open = o, !.ctid = NewPlace(r), !.history = h]]
    BY <1>2
  <2> HIDE DEF h
  <2>3. RowsInv' /\ Frame(q)
    <3>1. owner' = [r \in Rows |-> IF r \in H THEN q ELSE owner[r]] /\ \A r \in H : owner[r] \in {q, NoOne}
      BY <1>2
    <3>2. rows' = rows /\ o \in BOOLEAN
      BY <1>2
    <3> HIDE DEF H
    <3>3. QED
      BY <1>0, <2>1, <2>2, <3>1, <3>2, UpdateRows
  <2>4. NextRow(q) \in Request
    BY <1>0, NextRowLemma
  <2>5. req'[q] = NextRow(q) => Stage(q)' /\ Truth(q)'
    BY <1>0, NextRowStage
  <2>6. QED
    BY <1>0, <1>2, <2>3, <2>4, <2>5, StepLemma
<1>3. QED
  BY <1>1, <1>2 DEF Update

\* An answer without an error of its own.
LEMMA AnswerIInv ==
    ASSUME IInv, NEW q \in Actors, NEW s \in Statuses \ {0}, NEW c \in BOOLEAN, NEW t \in BOOLEAN,
           req' = [req EXCEPT ![q] = Answered(q, s, c, t)], UNCHANGED <<config, cache>>, RowsInv', Frame(q),
           config.mode # "none" => t /\ ~c,
           Held(q)' # {} => t,
           c /\ s >= 400 => q \in Writers \/ s \in {406, 500},
           s < 400 /\ ~c => config.mode # "none"
    PROVE  IInv'
<1> DEFINE x == Answered(q, s, c, t)
<1>1. /\ x \in Request /\ x.pc = "release" /\ x.status = s /\ x.committed = c /\ x.tx = t /\ x.code = NoCode
  BY AnsweredLemma DEF IInv
<1>2. cache' \in Cache(Texts) /\ CacheOK(cache', Texts)
  BY DEF IInv, Typed
<1> HIDE DEF x
<1>3. ASSUME req'[q] = x PROVE Stage(q)' /\ Truth(q)'
  <2>0. /\ req'[q].pc = "release" /\ req'[q].status = s /\ req'[q].committed = c /\ req'[q].tx = t
        /\ req'[q].code = NoCode /\ config' = config /\ s # 0
    BY <1>1, <1>3
  <2>1. Stage(q)'
    BY <2>0 DEF Stage, At
  <2>2. Truth(q)'
    BY <2>0 DEF Truth, At
  <2>3. QED
    BY <2>1, <2>2
<1>4. req' = [req EXCEPT ![q] = x]
  BY DEF x
<1>5. QED
  BY <1>1, <1>2, <1>3, <1>4, StepLemma

\* An update is answered, after its COMMIT where it has one (UpdateRecordsWithJQ).
LEMMA CommitIInv ==
    ASSUME IInv, NEW q \in Actors, Commit(q)
    PROVE  IInv'
<1>0. /\ req[q] \in Request /\ Stage(q) /\ Truth(q) /\ req[q].pc = "eval" /\ RowsInv
      /\ UNCHANGED <<config, cache>>
  BY DEF IInv, Typed, Commit, At, RowsInv
<1>1. CASE Fail(q, 500)
  BY <1>0, <1>1, FailIInv
<1>2. CASE config.mode # "none" /\ Unlocked /\ \E s \in Assembled(q) : Finished(q, s, FALSE)
  <2> DEFINE c == FALSE
             t == config.mode # "none"
  <2>1. PICK s \in Assembled(q) : Finished(q, s, c)
    BY <1>2
  <2>2. s \in Statuses \ {0} /\ c \in BOOLEAN /\ t \in BOOLEAN /\ t /\ ~c
    <3>1. s \in {200, 406}
      BY DEF Assembled
    <3>2. QED
      BY <1>2, <3>1 DEF Statuses
  <2>5. req' = [req EXCEPT ![q] = Answered(q, s, c, t)]
    BY <2>1 DEF Finished
  <2> HIDE DEF c, t
  <2>3. RowsInv' /\ Frame(q)
    BY <1>0, <1>2, UnlockedLemma
  <2>4. QED
    BY <1>0, <1>2, <2>2, <2>3, <2>5, AnswerIInv
<1>3. CASE config.mode = "none" /\ Publish(q) /\ \E s \in Assembled(q) \cup {500} : Finished(q, s, TRUE)
  <2> DEFINE c == TRUE
             t == config.mode # "none"
  <2>1. \A s \in Assembled(q) \cup {500} : s \in Statuses \ {0} /\ (s >= 400 => s \in {406, 500})
    BY DEF Assembled, Statuses
  <2>2. PICK s : s \in Assembled(q) \cup {500} /\ Finished(q, s, c)
    BY <1>3
  <2>3. /\ s \in Statuses \ {0} /\ c \in BOOLEAN /\ t \in BOOLEAN
        /\ c /\ ~t /\ (s >= 400 => s \in {406, 500}) /\ config.mode = "none"
    BY <1>3, <2>1, <2>2
  <2>4. req' = [req EXCEPT ![q] = Answered(q, s, c, t)]
    BY <2>2 DEF Finished
  <2> HIDE DEF c, t
  <2>5. RowsInv' /\ Frame(q) /\ Held(q)' = {} /\ UNCHANGED <<config, cache>>
    BY <1>0, <1>3, EndLemma
  <2>6. QED
    BY <2>3, <2>4, <2>5, AnswerIInv, ZenonT(40)
<1>4. QED
  BY <1>1, <1>2, <1>3 DEF Commit

\* What a call returned is transformed (JQTransformResponse).
LEMMA TransformIInv ==
    ASSUME IInv, NEW w \in Actors, Transform(w)
    PROVE  IInv'
<1> DEFINE c == req[w].committed
           t == req[w].tx
           T == {200, 400}
<1>0. /\ req[w] \in Request /\ Stage(w) /\ Truth(w) /\ req[w].pc = "transform" /\ RowsInv
      /\ UNCHANGED <<config, cache>> /\ Unlocked
  BY DEF IInv, Typed, Transform, At, RowsInv
<1>8. T \subseteq Statuses \ {0}
  BY DEF Statuses
<1>1. PICK s \in T : req' = [req EXCEPT ![w] = Answered(w, s, @.committed, @.tx)]
  BY DEF Transform
<1> HIDE DEF T
<1>2. req' = [req EXCEPT ![w] = Answered(w, s, c, t)] /\ c \in BOOLEAN /\ t \in BOOLEAN /\ s \in Statuses \ {0}
  BY <1>0, <1>1, <1>8 DEF IInv, Typed, Request
<1>3. /\ config.mode # "none" => t /\ ~c
      /\ config.mode = "none" => c
      /\ w \in Writers
  BY <1>0 DEF Stage, Truth, At
<1>4. RowsInv' /\ Frame(w) /\ (Held(w)' # {} => t)
  BY <1>0, UnlockedLemma DEF Stage
<1> HIDE DEF c, t
<1>6. /\ config.mode # "none" => t /\ ~c
      /\ c /\ s >= 400 => w \in Writers \/ s \in {406, 500}
      /\ s < 400 /\ ~c => config.mode # "none"
  BY <1>3
<1>10. CASE config.mode # "none"
  <2>1. t /\ ~c
    BY <1>6, <1>10
  <2>2. s < 400 /\ ~c => config.mode # "none"
    BY <1>10
  <2>3. config.mode # "none" => t /\ ~c
    BY <1>10, <2>1
  <2>4. QED
    BY <1>0, <1>2, <1>4, <2>1, <2>2, <2>3, AnswerIInv
<1>11. CASE config.mode = "none" /\ t
  <2>1. c
    BY <1>3, <1>11
  <2>2. w \in Writers
    BY <1>3
  <2>4. QED
    BY <1>0, <1>2, <1>4, <2>1, <2>2, <1>11, AnswerIInv
<1>12. CASE config.mode = "none" /\ Held(w)' = {}
  <2>1. c
    BY <1>3, <1>12
  <2>2. w \in Writers
    BY <1>3
  <2>4. QED
    BY <1>0, <1>2, <1>4, <2>1, <2>2, <1>12, AnswerIInv
<1>5. QED
  BY <1>4, <1>10, <1>11, <1>12

\* The versions that a writer may make of a row.
LEMMA VersionsLemma ==
    ASSUME RowsInv, NEW w \in Actors, NEW r \in Rows, NEW v \in Versions(r, w)
    PROVE  /\ v \in Version /\ v.history = rows[r].history \cup {w}
           /\ v.ctid \in {rows[r].ctid, NewPlace(r)}
<1> DEFINE h == rows[r].history \cup {w}
           n == NewPlace(r)
           c == rows[r].ctid
<1>1. /\ h \in SUBSET Actors /\ n \in 1..2 * Cardinality(Rows) + 1 /\ c \in 1..2 * Cardinality(Rows) + 1
  BY NewPlaceLemma DEF RowsInv, Version
<1>2. PICK l \in BOOLEAN, o \in BOOLEAN, p \in {c, n} : v = [live |-> l, open |-> o, history |-> h, ctid |-> p]
  BY DEF Versions
<1> HIDE DEF h, n, c
<1>3. v \in Version /\ v.history = h /\ v.ctid = p
  BY <1>1, <1>2 DEF Version
<1>4. QED
  BY <1>2, <1>3 DEF h, n, c

\* The function of a call changes a row.
LEMMA WriteIInv ==
    ASSUME IInv, NEW w \in Actors, Write(w)
    PROVE  IInv'
<1>0. /\ req[w] \in Request /\ Stage(w) /\ Truth(w) /\ req[w].pc = "write" /\ RowsInv
      /\ UNCHANGED <<config, cache>> /\ cache \in Cache(Texts) /\ CacheOK(cache, Texts)
  BY DEF IInv, Typed, Write, At, RowsInv
<1>1. CASE Fail(w, 500)
  BY <1>0, <1>1, FailIInv
<1>2. ASSUME NEW r \in Rows, NEW p \in Programs[w], owner[r] = NoOne, NEW v \in Versions(r, w), Change(r, w, v),
             req' = [req EXCEPT ![w].pc = "transform", ![w].program = p, ![w].committed = config.mode = "none"]
      PROVE  IInv'
  <2> DEFINE k == config.mode = "none"
             x == [req[w] EXCEPT !.pc = "transform", !.program = p, !.committed = k]
  <2>1. req' = [req EXCEPT ![w] = x] /\ p \in Texts /\ k \in BOOLEAN
    BY <1>2 DEF IInv, Typed, Texts
  <2> HIDE DEF k
  <2>2. /\ x \in Request /\ x.pc = "transform" /\ x.program = p
        /\ x.code = req[w].code /\ x.tx = req[w].tx /\ x.got = req[w].got /\ x.done = req[w].done
        /\ x.status = req[w].status /\ x.committed = k
    BY <1>0, <2>1 DEF Request, Labels
  <2> HIDE DEF x
  <2>3. v \in Version
    BY <1>0, VersionsLemma
  <2>4. config \in Config
    BY DEF IInv, Typed
  <2>5. RowsInv' /\ Frame(w) /\ (config.mode = "none" => Held(w)' = Held(w))
    BY <1>0, <1>2, <2>3, <2>4, WriteRows
  <2>6. ASSUME req'[w] = x PROVE Stage(w)' /\ Truth(w)'
    <3>1. (Held(w)' # {} => req[w].tx) /\ (config.mode # "none" => req[w].tx)
      BY <1>0, <2>5 DEF Stage, At
    <3>2. Stage(w)'
      BY <1>0, <2>1, <2>2, <2>6, <3>1 DEF Stage, At
    <3>3. Truth(w)'
      BY <1>0, <2>2, <2>6 DEF Truth, At, k
    <3>4. QED
      BY <3>2, <3>3
  <2>7. QED
    BY <1>0, <2>1, <2>2, <2>5, <2>6, StepLemma
<1>3. QED
  BY <1>1, <1>2 DEF Write

\* The transaction of a request ends (ReleaseConnection).
LEMMA ReleaseIInv ==
    ASSUME IInv, NEW q \in Actors, Release(q)
    PROVE  IInv'
<1>0. /\ req[q] \in Request /\ Typed /\ RowsInv
      /\ UNCHANGED <<config, cache>> /\ cache \in Cache(Texts) /\ CacheOK(cache, Texts)
  BY DEF IInv, Typed, Release, RowsInv
<1>1. PICK c \in BOOLEAN : req' = [req EXCEPT ![q] = Over(q, c)] /\ (Publish(q) \/ Abort(q))
  <2>1. CASE Publish(q) /\ req' = [req EXCEPT ![q] = Over(q, TRUE)]
    BY <2>1
  <2>2. CASE Closed(q) /\ req' = [req EXCEPT ![q] = Over(q, @.committed)]
    <3>1. req[q].committed \in BOOLEAN /\ req' = [req EXCEPT ![q] = Over(q, req[q].committed)]
      BY <1>0, <2>2 DEF Request, Typed
    <3>2. QED
      BY <2>2, <3>1 DEF Closed
  <2>3. QED
    BY <2>1, <2>2 DEF Release
<1> DEFINE x == Over(q, c)
<1>2. x \in Request /\ x.pc = "done" /\ x.status = 0 /\ x.committed = c /\ x.code = NoCode
  BY <1>0, OverLemma
<1>3. RowsInv' /\ Frame(q) /\ Held(q)' = {}
  BY <1>0, <1>1, EndLemma
<1>4. req' = [req EXCEPT ![q] = x]
  BY <1>1
<1> HIDE DEF x
<1>5. req'[q] = x => Stage(q)' /\ Truth(q)'
  BY <1>2, <1>3 DEF Stage, Truth, At
<1>6. QED
  BY <1>0, <1>2, <1>3, <1>4, <1>5, StepLemma

\* The client of a request goes away.
LEMMA CancelIInv ==
    ASSUME IInv, NEW q \in Actors, Cancel(q)
    PROVE  IInv'
<1> DEFINE t == TRUE
           x == [req[q] EXCEPT !.gone = t]
<1>0. /\ req[q] \in Request /\ Stage(q) /\ Truth(q) /\ Unlocked /\ UNCHANGED <<config, cache>>
      /\ req' = [req EXCEPT ![q] = x] /\ t \in BOOLEAN
  BY DEF IInv, Typed, Cancel
<1> HIDE DEF t
<1>1. /\ x \in Request /\ x.pc = req[q].pc /\ x.program = req[q].program
      /\ x.code = req[q].code /\ x.tx = req[q].tx /\ x.got = req[q].got /\ x.done = req[q].done
      /\ x.status = req[q].status /\ x.committed = req[q].committed /\ x.todo = req[q].todo
  BY <1>0 DEF Request
<1> HIDE DEF x
<1>2. ASSUME req'[q] = x, Held(q)' = Held(q) PROVE Stage(q)' /\ Truth(q)'
  <2>1. Stage(q)'
    BY <1>0, <1>1, <1>2 DEF Stage, At
  <2>2. Truth(q)'
    BY <1>0, <1>1, <1>2 DEF Truth, At
  <2>3. QED
    BY <2>1, <2>2
<1>3. QED
  BY <1>0, <1>1, <1>2, QuietLemma

-----------------------------------------------------------------------------
(* The invariant.                                                          *)

\* Places that are not shared can be given to any finite number of rows.
LEMMA FirstPlaceLemma ==
    /\ FirstPlace \in [Rows -> 1..Cardinality(Rows)]
    /\ \A p \in Partitions : \A r, s \in p : FirstPlace[r] = FirstPlace[s] => r = s
<1>1. Cardinality(Rows) \in Nat /\ ExistsBijection(1..Cardinality(Rows), Rows)
  BY UpdatesAssumption, FS_CardinalityType
<1>2. ExistsBijection(Rows, 1..Cardinality(Rows))
  BY <1>1, Fun_ExistsBijSymmetric
<1>3. PICK f \in [Rows -> 1..Cardinality(Rows)] : \A r, s \in Rows : f[r] = f[s] => r = s
  BY <1>2 DEF ExistsBijection, Bijection, Injection, IsInjective
<1>4. \A p \in Partitions : p \subseteq Rows
  BY UpdatesAssumption
<1>5. \A p \in Partitions : \A r, s \in p : f[r] = f[s] => r = s
  BY <1>3, <1>4
<1>6. QED
  BY <1>3, <1>5 DEF FirstPlace

\* The invariant holds at startup ...
LEMMA InitIInv == Init => IInv
<1> SUFFICES ASSUME Init PROVE IInv
  OBVIOUS
<1>1. PICK born \in SUBSET Rows, opened \in SUBSET Rows :
        rows = [r \in Rows |-> [live |-> r \in born, open |-> r \in opened, history |-> {}, ctid |-> FirstPlace[r]]]
  BY DEF Init
<1>2. Cardinality(Rows) \in Nat
  BY UpdatesAssumption, FS_CardinalityType
<1>3. \A r \in Rows : FirstPlace[r] \in 1..2 * Cardinality(Rows) + 1
  <2>1. \A r \in Rows : FirstPlace[r] \in 1..Cardinality(Rows)
    BY FirstPlaceLemma
  <2>2. QED
    BY <1>2, <2>1
<1>4. rows \in [Rows -> Version]
  BY <1>1, <1>3 DEF Version
<1>5. /\ draft = rows /\ owner = [r \in Rows |-> NoOne] /\ cache = EmptyCache /\ req = [q \in Actors |-> Fresh(q)]
      /\ config \in Config
  BY UpdatesAssumption DEF Init
<1>6. cache \in Cache(Texts) /\ CacheOK(cache, Texts)
  BY <1>5, EmptySeq, CacheAssumption DEF EmptyCache, Cache, CacheOK
<1>7. \A q \in Actors : Fresh(q) \in Request
  BY EmptySeq DEF Fresh, Request, Labels, Statuses
<1>8. Typed
  BY <1>4, <1>5, <1>6, <1>7 DEF Typed
<1>9. Free
  BY <1>5 DEF Free
<1>10. ASSUME NEW q \in Actors PROVE Stage(q) /\ Truth(q)
  <2>1. Held(q) = {}
    BY <1>5, UpdatesAssumption DEF Held, Actors
  <2>2. req[q] = Fresh(q)
    BY <1>5
  <2>3. q \in Clients \/ (q \in Writers /\ q \notin Clients)
    BY DEF Actors
  <2>4. Stage(q)
    BY <1>8, <2>1, <2>2, <2>3, FreshLemma DEF Stage, At
  <2>5. Truth(q)
    BY <1>8, <2>2, <2>3, FreshLemma DEF Truth, At
  <2>6. QED
    BY <2>4, <2>5
<1>11. QED
  BY <1>6, <1>8, <1>9, <1>10 DEF IInv

\* ... and every step keeps it.
LEMMA NextIInv == IInv /\ [Next]_vars => IInv'
<1> SUFFICES ASSUME IInv, [Next]_vars PROVE IInv'
  OBVIOUS
<1>1. CASE UNCHANGED vars
  <2>1. UNCHANGED <<config, rows, draft, owner, cache, req>>
    BY <1>1 DEF vars
  <2>2. Typed' /\ Free' /\ CacheOK(cache, Texts)'
    BY <2>1 DEF IInv, Typed, Free, CacheOK
  <2>3. \A q \in Actors : Stage(q)' /\ Truth(q)'
    BY <2>1 DEF IInv, Stage, Truth, At, Held
  <2>4. QED
    BY <2>2, <2>3 DEF IInv
<1>2. ASSUME NEW q \in Actors, Step(q) \/ Cancel(q)
      PROVE  IInv'
  <2>1. CASE Broken(q)
    <3>1. Fail(q, 500) /\ UNCHANGED <<config, cache>> /\ req[q].pc = "lock"
      BY <2>1 DEF Broken, Locking, At
    <3>2. QED
      BY <3>1, FailIInv
  <2>2. QED
    BY <1>2, <2>1, HandleIInv, LookupIInv, CompileIInv, BeginIInv, SelectIInv, LockIInv,
       SelectedIInv, EvalIInv,
       UpdateIInv, CommitIInv, WriteIInv, TransformIInv, ReleaseIInv, CancelIInv DEF Step
<1>3. QED
  BY <1>1, <1>2 DEF Next

\* The invariant holds at all times.
THEOREM Invariance == Spec => []IInv
BY InitIInv, NextIInv, PTL DEF Spec

\* A row without a lock has one version, a request has a status when it is
\* answered, and holds rows only in a transaction.
THEOREM TypeCorrect == Spec => []TypeOK
<1>1. IInv => TypeOK
  <2> SUFFICES ASSUME IInv PROVE TypeOK
    OBVIOUS
  <2>1. \A q \in Actors : req[q] \in Request /\ Stage(q)
    BY DEF IInv, Typed
  <2>2. \A q \in Actors : req[q].status \in Statuses
    BY <2>1 DEF Request
  <2>3. QED
    BY <2>1, <2>2 DEF TypeOK, IInv, Typed, Free, Stage
<1>2. QED
  BY <1>1, Invariance, PTL

\* Every request runs the program it came with, and the cache's list and map
\* agree and are bounded (compile, get, put).
THEOREM OwnProgramCorrect == Spec => []OwnProgram
<1>1. IInv => OwnProgram
  <2> SUFFICES ASSUME IInv PROVE OwnProgram
    OBVIOUS
  <2>1. cache \in Cache(Texts) /\ CacheOK(cache, Texts)
    BY DEF IInv, Typed
  <2>2. \A q \in Actors : req[q].code \in {NoCode, req[q].program}
    BY DEF IInv, Stage
  <2>3. cache.items = {cache.ll[i].key : i \in DOMAIN cache.ll} /\ Len(cache.ll) = Cardinality(cache.items)
    BY <2>1, KeysLemma
  <2>4. QED
    BY <2>1, <2>2, <2>3 DEF OwnProgram, CacheOK
<1>2. QED
  BY <1>1, Invariance, PTL

\* A step changes one request.
LEMMA StepRecord ==
    ASSUME IInv, NEW q \in Actors, Step(q) \/ Cancel(q)
    PROVE  \E x : req' = [req EXCEPT ![q] = x]
<1>0. req \in [Actors -> Request]
  BY DEF IInv, Typed
<1>1. \A s : Fail(q, s) => \E x : req' = [req EXCEPT ![q] = x]
  BY DEF Fail
<1>2. CASE Handle(q) \/ Lookup(q) \/ Compile(q) \/ Begin(q) \/ Select(q)
  <2>1. CASE Handle(q) \/ Lookup(q)
    BY <1>0, <1>1, <2>1 DEF Handle, Lookup
  <2>2. CASE Compile(q) \/ Begin(q) \/ Select(q)
    BY <1>0, <1>1, <2>2 DEF Compile, Begin, Select
  <2>3. QED
    BY <1>2, <2>1, <2>2
<1>3. CASE Lock(q) \/ Selected(q) \/ Broken(q)
  BY <1>0, <1>1, <1>3 DEF Lock, Selected, Broken
<1>4. CASE Eval(q) \/ Update(q) \/ Commit(q)
  <2>1. CASE Eval(q)
    BY <1>0, <1>1, <2>1 DEF Eval
  <2>2. CASE Update(q)
    BY <1>0, <1>1, <2>2 DEF Update
  <2>3. CASE Commit(q)
    <3>1. \A s, c : Finished(q, s, c) => \E x : req' = [req EXCEPT ![q] = x]
      BY DEF Finished
    <3>2. Fail(q, 500) \/ \E s, c : Finished(q, s, c)
      BY <2>3 DEF Commit
    <3>3. QED
      BY <1>1, <3>1, <3>2
  <2>4. QED
    BY <1>4, <2>1, <2>2, <2>3
<1>5. CASE Write(q)
  <2>1. CASE Fail(q, 500)
    BY <1>1, <2>1
  <2>2. CASE \E p : req' = [req EXCEPT ![q].pc = "transform", ![q].program = p, ![q].committed = config.mode = "none"]
    BY <1>0, <2>2
  <2>3. QED
    BY <1>5, <2>1, <2>2 DEF Write
<1>7. CASE Transform(q)
  <2>1. PICK s \in {200, 400} : req' = [req EXCEPT ![q] = Answered(q, s, @.committed, @.tx)]
    BY <1>7 DEF Transform
  <2>2. req' = [req EXCEPT ![q] = Answered(q, s, req[q].committed, req[q].tx)]
    BY <1>0, <2>1
  <2>3. QED
    BY <2>2
<1>9. CASE Release(q)
  BY <1>9 DEF Release
<1>8. CASE Cancel(q)
  BY <1>0, <1>8 DEF Cancel
<1>6. QED
  BY <1>2, <1>3, <1>4, <1>5, <1>7, <1>8, <1>9 DEF Step

\* An actor whose answer was written goes on by Release only.
LEMMA ReleaseOnly ==
    ASSUME IInv, Next, NEW q \in Actors, At(q, "release"), At(q, "done")'
    PROVE  /\ req'[q].committed => req[q].committed \/ (config.mode = "commit" /\ req[q].status < 400)
           /\ req[q].committed => req'[q].committed
<1>0. req \in [Actors -> Request] /\ req[q].pc = "release" /\ req'[q].pc = "done"
  BY DEF IInv, Typed, At
<1>1. PICK e \in Actors : Step(e) \/ Cancel(e)
  BY DEF Next
<1>2. CASE Release(e)
  <2>0. PICK c \in BOOLEAN : /\ req' = [req EXCEPT ![e] = Over(e, c)]
                             /\ c => req[e].committed \/ (config.mode = "commit" /\ req[e].status < 400)
                             /\ req[e].committed => c
    <3>1. CASE Commits(e) /\ req' = [req EXCEPT ![e] = Over(e, TRUE)]
      BY <3>1 DEF Commits
    <3>2. CASE req' = [req EXCEPT ![e] = Over(e, @.committed)]
      <4>1. req[e].committed \in BOOLEAN /\ req' = [req EXCEPT ![e] = Over(e, req[e].committed)]
        BY <1>0, <3>2 DEF Request
      <4>2. QED
        BY <4>1
    <3>3. QED
      BY <1>2, <3>1, <3>2 DEF Release
  <2>1. CASE e = q
    <3>1. req'[q].committed = c
      BY <1>0, <2>0, <2>1, OverLemma DEF IInv
    <3>2. QED
      BY <2>0, <2>1, <3>1
  <2>2. CASE e # q
    BY <1>0, <2>0, <2>2
  <2>3. QED
    BY <2>1, <2>2
<1>3. CASE ~Release(e)
  <2>1. \E l : req' = [req EXCEPT ![e] = l]
    BY <1>0, <1>1, <1>3, StepRecord
  <2>2. CASE e # q
    BY <1>0, <2>1, <2>2
  <2>3. CASE e = q
    BY <1>0, <1>1, <1>3, <2>3 DEF Step, Cancel, Lookup, Compile, NeedsCode, Handle, Begin, Select,
       Lock, Locking,
       Selected, Eval, Update, Commit, Broken, Write, Transform, At
  <2>4. QED
    BY <2>2, <2>3
<1>4. QED
  BY <1>2, <1>3

\* A request answered with an error has changed nothing, except without a
\* transaction mode; and what was answered as done without one was done.
THEOREM AnswerTrueCorrect == Spec => AnswerTrue
<1> DEFINE Told == \A q \in Actors : At(q, "release") /\ At(q, "done")' =>
                     /\ req'[q].committed /\ req[q].status >= 400 =>
                           config.mode = "none" /\ (q \in Writers \/ req[q].status \in {406, 500})
                     /\ req[q].status < 400 /\ ~req'[q].committed => config.mode # "none"
<1>1. IInv /\ IInv' /\ [Next]_vars => [Told]_vars
  <2> SUFFICES ASSUME IInv, IInv', Next, NEW q \in Actors, At(q, "release"), At(q, "done")'
               PROVE  /\ req'[q].committed /\ req[q].status >= 400 =>
                           config.mode = "none" /\ (q \in Writers \/ req[q].status \in {406, 500})
                      /\ req[q].status < 400 /\ ~req'[q].committed => config.mode # "none"
    BY DEF vars
  <2>1. Truth(q) /\ req \in [Actors -> Request] /\ req' \in [Actors -> Request]
    BY DEF IInv, Typed
  <2>2. req'[q].committed => req[q].committed \/ (config.mode = "commit" /\ req[q].status < 400)
    BY ReleaseOnly
  <2>3. req[q].committed => req'[q].committed
    BY ReleaseOnly
  <2>4. req[q].status \in {0, 200, 400, 406, 500}
    BY <2>1 DEF Request, Statuses
  <2>5. req[q].status < 400 <=> ~(req[q].status >= 400)
    BY <2>4
  <2>6. QED
    BY <2>1, <2>2, <2>3, <2>5 DEF Truth
<1>2. QED
  BY <1>1, Invariance, PTL DEF Spec, AnswerTrue

-----------------------------------------------------------------------------
(* The rows that the updates change, when a place names one row of the     *)
(* table. Of a table with partitions the rest of this module does not hold *)
(* (JQPartitions.cfg).                                                     *)

\* The table is one partition, so that a place is unique in it.
OneTable == Partitions = {Rows}

\* The new version of a row that somebody has locked.
Including(v, w, q) == v.live = w.live /\ v.history = w.history \cup {q}
Updated(q, r) == Matches(rows[r]) /\ Including(draft[r], rows[r], q)
Became(v, u, w) ==
    /\ v.history = u.history \cup {w}
    /\ u.live \/ (v.live /\ u.history = {})
Written(w, r) == Became(draft[r], rows[r], w)

\* What an update has read is what is there, as it holds the locks; the rows it
\* has still to change are as they were committed.
HasGot(q, r) == \E i \in 1..Len(req[q].got) : req[q].got[i].row = r
LockedAsRead(q) ==
    /\ \A i \in 1..Len(req[q].got) :
          LET g == req[q].got[i]
          IN  /\ owner[g.row] = q /\ Matches(rows[g.row])
              /\ g.ctid = rows[g.row].ctid /\ g.history = rows[g.row].history
              /\ i > req[q].done => draft[g.row] = rows[g.row]
    /\ \A i, j \in 1..Len(req[q].got) : req[q].got[i].row = req[q].got[j].row => i = j

\* The snapshot of the SELECT is not later than now.
SeenBefore(q) == \A r \in Rows : req[q].seen[r] \subseteq rows[r].history

ClientRows(q) ==
    /\ \A r \in Rows : owner[r] = q => draft[r] = rows[r] \/ Updated(q, r)
    /\ At(q, "lock") => \A r \in Rows : /\ r \in Stayed(q) => r \in req[q].todo \/ HasGot(q, r)
                                        /\ owner[r] = q => draft[r] = rows[r]
                                        /\ HasGot(q, r) => r \notin req[q].todo
    /\ req[q].pc \in {"eval", "update"} => \A r \in Rows : /\ r \in Stayed(q) => HasGot(q, r)
                                                           /\ owner[r] = q /\ draft[r] # rows[r] => HasGot(q, r)
    /\ req[q].pc \in {"lock", "eval", "update"} => LockedAsRead(q) /\ SeenBefore(q)

\* A writer changes one row, and has done so when its call is answered.
HasWritten(w) == config.mode # "none" /\ (At(w, "transform") \/ (At(w, "release") /\ req[w].status = 200)) =>
                    \E r \in Rows : owner[r] = w
WriterRows(w) ==
    /\ \A r \in Rows : owner[r] = w => Written(w, r)
    /\ \A r, s \in Rows : owner[r] = w /\ owner[s] = w => r = s
    /\ HasWritten(w)

\* What is in a committed row has been committed.
Recorded(q) == \A r \in Rows : q \in rows[r].history => req[q].committed

Mine(q) == (q \in Clients => ClientRows(q)) /\ (q \in Writers => WriterRows(q)) /\ Recorded(q)

\* No place is that of two rows, in any version.
Places(r) == {rows[r].ctid, draft[r].ctid}
Apart     == \A r, s \in Rows : r # s => Places(r) \cap Places(s) = {}

RInv == Apart /\ \A q \in Actors : Mine(q)

\* The step is one that the promise has, or none; and a row that it changes
\* has the change of q from then on, and had it not before.
Kept     == [Promise!Next]_(Promise!vars)
Grown(q) == \A r \in Rows : \/ rows'[r] = rows[r]
                            \/ rows'[r].history = rows[r].history \cup {q} /\ q \notin rows[r].history

-----------------------------------------------------------------------------
(* The others.                                                             *)

\* What an update has read is a list of rows.
LEMMA GotType ==
    ASSUME IInv, NEW q \in Actors
    PROVE  /\ Len(req[q].got) \in Nat
           /\ \A i \in 1..Len(req[q].got) : req[q].got[i] \in LockedRow /\ req[q].got[i].row \in Rows
<1>1. req[q].got \in Seq(LockedRow)
  BY DEF IInv, Typed, Request
<1>2. Len(req[q].got) \in Nat /\ \A i \in 1..Len(req[q].got) : req[q].got[i] \in LockedRow
  BY <1>1, LenProperties, ElementOfSeq
<1>3. QED
  BY <1>2 DEF LockedRow

\* What was read stays as it was read, when its rows stay and those still to
\* be changed have no new version.
LEMMA ReadKept ==
    ASSUME IInv, NEW q \in Actors, LockedAsRead(q), req'[q].got = req[q].got,
           \A r \in Rows : owner[r] = q => owner'[r] = q /\ rows'[r] = rows[r],
           \A i \in 1..Len(req[q].got) :
               i > req'[q].done => i > req[q].done /\ draft'[req[q].got[i].row] = draft[req[q].got[i].row]
    PROVE  LockedAsRead(q)'
<1>1. ASSUME NEW i \in 1..Len(req[q].got)
      PROVE  LET g == req[q].got[i]
             IN  /\ owner'[g.row] = q /\ Matches(rows[g.row]) /\ rows'[g.row] = rows[g.row]
                 /\ g.ctid = rows[g.row].ctid /\ g.history = rows[g.row].history
  <2>1. req[q].got[i].row \in Rows
    BY GotType
  <2>2. /\ owner[req[q].got[i].row] = q /\ Matches(rows[req[q].got[i].row])
        /\ req[q].got[i].ctid = rows[req[q].got[i].row].ctid
        /\ req[q].got[i].history = rows[req[q].got[i].row].history
    BY DEF LockedAsRead
  <2>3. QED
    BY <2>1, <2>2
<1>2. ASSUME NEW i \in 1..Len(req[q].got), i > req'[q].done
      PROVE  draft'[req[q].got[i].row] = rows'[req[q].got[i].row]
  <2>1. draft[req[q].got[i].row] = rows[req[q].got[i].row] /\ draft'[req[q].got[i].row] = draft[req[q].got[i].row]
    BY <1>2 DEF LockedAsRead
  <2>2. QED
    BY <1>1, <2>1
<1>3. \A i, j \in 1..Len(req[q].got) : req[q].got[i].row = req[q].got[j].row => i = j
  BY DEF LockedAsRead
<1> DEFINE h == req[q].got
<1>4. \A i \in 1..Len(h) :
          LET g == h[i]
          IN  /\ owner'[g.row] = q /\ Matches(rows'[g.row])
              /\ g.ctid = rows'[g.row].ctid /\ g.history = rows'[g.row].history
              /\ i > req'[q].done => draft'[g.row] = rows'[g.row]
  BY <1>1, <1>2
<1>5. req'[q].got = h /\ \A i, j \in 1..Len(h) : h[i].row = h[j].row => i = j
  BY <1>3
<1> HIDE DEF h
<1>6. QED
  BY <1>4, <1>5 DEF LockedAsRead

\* A request that does not move keeps what is true of its rows.
LEMMA OthersMine ==
    ASSUME IInv, RInv, NEW q \in Actors, UNCHANGED config, Others(q), Frame(q), Grown(q)
    PROVE  \A e \in Actors \ {q} : Mine(e)'
<1> SUFFICES ASSUME NEW e \in Actors \ {q} PROVE Mine(e)'
  OBVIOUS
<1>1. req'[e] = req[e] /\ Mine(e) /\ config' = config
  BY DEF RInv, Others
<1>2. \A r \in Rows : /\ owner'[r] = e <=> owner[r] = e
                      /\ owner[r] = e => rows'[r] = rows[r] /\ draft'[r] = draft[r]
  BY DEF Frame
<1>3. ASSUME e \in Clients PROVE ClientRows(e)'
  <2>1. ClientRows(e) /\ (\A r \in Rows : HasGot(e, r)' <=> HasGot(e, r))
    BY <1>1, <1>3 DEF Mine, HasGot
  <2>2. \A r \in Rows : owner'[r] = e => draft'[r] = rows'[r] \/ Updated(e, r)'
    BY <1>2, <2>1 DEF ClientRows, Updated, Including
  <2>7. ASSUME req[e].pc \in {"lock", "eval", "update"}
        PROVE  SeenBefore(e)' /\ \A r \in Rows : r \in Stayed(e)' => r \in Stayed(e)
    <3>1. \A r \in Rows : req[e].seen[r] \subseteq rows[r].history
      BY <2>1, <2>7 DEF ClientRows, SeenBefore
    <3>2. \A r \in Rows : req'[e].seen[r] = req[e].seen[r]
      BY <1>1
    <3>3. SeenBefore(e)'
      BY <3>1, <3>2 DEF SeenBefore, Grown
    <3>4. \A r \in Rows : rows'[r].history = req[e].seen[r] => rows'[r] = rows[r]
      BY <3>1 DEF Grown
    <3>5. QED
      BY <3>2, <3>3, <3>4 DEF Stayed, Matches
  <2>3. At(e, "lock")' => \A r \in Rows : /\ r \in Stayed(e)' => r \in req'[e].todo \/ HasGot(e, r)'
                                          /\ owner'[r] = e => draft'[r] = rows'[r]
                                          /\ HasGot(e, r)' => r \notin req'[e].todo
    BY <1>1, <1>2, <2>1, <2>7 DEF ClientRows, At
  <2>4. req'[e].pc \in {"eval", "update"} =>
            \A r \in Rows : /\ r \in Stayed(e)' => HasGot(e, r)'
                            /\ owner'[r] = e /\ draft'[r] # rows'[r] => HasGot(e, r)'
    BY <1>1, <1>2, <2>1, <2>7 DEF ClientRows
  <2>5. ASSUME req[e].pc \in {"lock", "eval", "update"} PROVE LockedAsRead(e)'
    <3>1. LockedAsRead(e)
      BY <2>1, <2>5 DEF ClientRows
    <3>2. \A i \in 1..Len(req[e].got) : req[e].got[i].row \in Rows /\ owner[req[e].got[i].row] = e
      BY <3>1, GotType DEF LockedAsRead
    <3>3. req'[e].got = req[e].got /\ req'[e].done = req[e].done
      BY <1>1
    <3>4. QED
      BY <1>2, <3>1, <3>2, <3>3, ReadKept
  <2>6. QED
    BY <1>1, <2>2, <2>3, <2>4, <2>5, <2>7 DEF ClientRows
<1>4. ASSUME e \in Writers PROVE WriterRows(e)'
  BY <1>1, <1>2, <1>4 DEF Mine, WriterRows, Written, Became, Including, HasWritten, At
<1>5. Recorded(e)'
  BY <1>1 DEF Mine, Recorded, Grown
<1>6. QED
  BY <1>3, <1>4, <1>5 DEF Mine

\* What has to be shown of a step.
LEMMA RowsLemma ==
    ASSUME IInv, RInv, NEW q \in Actors, NEW x \in Request, req' = [req EXCEPT ![q] = x],
           UNCHANGED config, Frame(q), Grown(q), Apart', req'[q] = x => Mine(q)'
    PROVE  RInv'
<1>1. req'[q] = x /\ Others(q)
  BY DEF IInv, Typed, Others
<1>2. QED
  BY <1>1, OthersMine DEF RInv

\* A step that commits nothing and tells nobody so is none of the promise.
LEMMA StutterLemma ==
    ASSUME IInv, NEW q \in Actors, NEW x \in Request, req' = [req EXCEPT ![q] = x],
           UNCHANGED rows, x.committed = req[q].committed
    PROVE  Kept
<1>1. Committed' = Committed
  BY DEF Committed
<1>2. \A e \in Actors : req'[e].committed = req[e].committed
  BY DEF IInv, Typed
<1>3. {e \in Actors : req[e].committed}' = {e \in Actors : req[e].committed}
  BY <1>2
<1>4. QED
  BY <1>1, <1>3 DEF Kept, Promise!vars

-----------------------------------------------------------------------------
(* Answers.                                                                *)

\* The changes of whoever has locked a row are those that the row may get.
LEMMA DraftLemma ==
    ASSUME IInv, RInv, NEW q \in Actors, NEW r \in Rows, owner[r] = q
    PROVE  draft[r] = rows[r] \/ draft[r].history = rows[r].history \cup {q}
<1>1. CASE q \in Clients
  BY <1>1 DEF RInv, Mine, ClientRows, Updated, Including
<1>2. CASE q \in Writers
  BY <1>2 DEF RInv, Mine, WriterRows, Written, Became, Including
<1>3. QED
  BY <1>1, <1>2 DEF Actors

\* The end of a transaction moves no row to a new place.
LEMMA EndApart ==
    ASSUME IInv, RInv, NEW q \in Actors, Publish(q) \/ Abort(q) \/ Unlocked
    PROVE  Apart'
<1>1. \A r \in Rows : Places(r)' \subseteq Places(r)
  <2> SUFFICES ASSUME NEW r \in Rows PROVE Places(r)' \subseteq Places(r)
    OBVIOUS
  <2>1. (rows'[r] = rows[r] \/ rows'[r] = draft[r]) /\ (draft'[r] = draft[r] \/ draft'[r] = rows[r])
    BY DEF Publish, Abort, Unlocked
  <2>2. QED
    BY <2>1 DEF Places
<1>2. QED
  BY <1>1 DEF RInv, Apart

\* A request is over, and has committed no more than before.
LEMMA AnswerRows ==
    ASSUME IInv, RInv, NEW q \in Actors, NEW x \in Request, req' = [req EXCEPT ![q] = x],
           UNCHANGED config, Unlocked \/ Abort(q), x.pc \in {"release", "done"}, x.committed = req[q].committed,
           req'[q] = x => (q \in Writers => HasWritten(q)')
    PROVE  RInv' /\ Kept
<1>0. RowsInv /\ Mine(q) /\ NoOne \notin Actors
  BY UpdatesAssumption DEF IInv, Typed, RowsInv, RInv, Actors
<1>1. rows' = rows /\ Frame(q)
  BY <1>0, UnlockedLemma, EndLemma DEF Unlocked, Abort
<1>2. \A r \in Rows : owner'[r] = q => owner[r] = q /\ draft'[r] = draft[r]
  <2>1. CASE Unlocked
    BY <2>1 DEF Unlocked
  <2>2. CASE Abort(q)
    BY <1>0, <2>2, EndLemma DEF Held
  <2>3. QED
    BY <2>1, <2>2
<1>3. ASSUME req'[q] = x PROVE Mine(q)'
  <2>1. Recorded(q)'
    BY <1>0, <1>1, <1>3 DEF Mine, Recorded
  <2>2. ASSUME q \in Clients PROVE ClientRows(q)'
    <3>1. \A r \in Rows : owner'[r] = q => draft'[r] = rows'[r] \/ Updated(q, r)'
      BY <1>0, <1>1, <1>2, <2>2 DEF Mine, ClientRows, Updated, Including
    <3>2. QED
      BY <1>3, <3>1 DEF ClientRows, At
  <2>3. ASSUME q \in Writers PROVE WriterRows(q)'
    <3>1. WriterRows(q) /\ HasWritten(q)'
      BY <1>0, <1>3, <2>3 DEF Mine
    <3>2. \A r \in Rows : owner'[r] = q => Written(q, r)'
      BY <1>1, <1>2, <3>1 DEF WriterRows, Written, Became, Including
    <3>3. QED
      BY <1>2, <3>1, <3>2 DEF WriterRows
  <2>4. QED
    BY <2>1, <2>2, <2>3 DEF Mine
<1>4. Apart' /\ Grown(q)
  BY <1>1, EndApart DEF Grown
<1>5. QED
  BY <1>1, <1>3, <1>4, RowsLemma, StutterLemma

\* ... which of an update is all there is to say.
LEMMA ClientAnswerRows ==
    ASSUME IInv, RInv, NEW q \in Clients, NEW x \in Request, req' = [req EXCEPT ![q] = x],
           UNCHANGED config, Unlocked \/ Abort(q), x.pc \in {"release", "done"}, x.committed = req[q].committed
    PROVE  RInv' /\ Kept
<1>1. q \in Actors /\ q \notin Writers
  BY UpdatesAssumption DEF Actors
<1>2. RInv' /\ Kept
  BY <1>1, AnswerRows
<1>3. QED
  BY <1>2

\* A request that fails is over.
LEMMA FailRows ==
    ASSUME IInv, RInv, NEW q \in Actors, NEW s \in {400, 500}, Fail(q, s), UNCHANGED config
    PROVE  RInv' /\ Kept
<1> DEFINE c == req[q].committed
           t == req[q].tx /\ (config.mode # "none" \/ req[q].gone)
           x == Answered(q, s, c, t)
<1>0. req[q] \in Request /\ Typed
  BY DEF IInv, Typed
<1>1. req' = [req EXCEPT ![q] = x] /\ c \in BOOLEAN /\ t \in BOOLEAN /\ s \in Statuses
  BY <1>0 DEF Fail, Typed, Request, Statuses
<1>2. /\ x \in Request /\ x.pc = "release" /\ x.status = s /\ x.committed = c
  <2> HIDE DEF c, t
  <2> QED  BY <1>0, <1>1, AnsweredLemma
<1>3. Unlocked \/ Abort(q)
  BY DEF Fail
<1> HIDE DEF x
<1>4. req'[q] = x => (q \in Writers => HasWritten(q)')
  BY <1>2 DEF HasWritten, At
<1>5. QED
  BY <1>1, <1>2, <1>3, <1>4, AnswerRows

-----------------------------------------------------------------------------
(* What is committed is what was promised.                                 *)

\* The rows of an update: each that it has changed includes it now.
LEMMA ApplyLemma ==
    ASSUME IInv, RInv, NEW q \in Clients, Publish(q), ~req[q].committed,
           NEW x \in Request, x.committed, req' = [req EXCEPT ![q] = x]
    PROVE  Promise!Apply(q)
<1> DEFINE A == {e \in Actors : req[e].committed}
           S == {r \in Rows : owner[r] = q /\ draft[r] # rows[r]}
           T == {r \in Rows : draft[r].open}
<1>0. q \in Actors /\ ClientRows(q) /\ q \notin A /\ draft \in [Rows -> Version]
  BY DEF RInv, Mine, Actors, IInv, Typed
<1>1. A' = A \cup {q}
  BY <1>0 DEF IInv, Typed
<1>2. \A r \in Rows : rows'[r] = IF owner[r] = q THEN draft[r] ELSE rows[r]
  BY DEF Publish, Held
<1>3. S \in SUBSET {r \in Rows : Committed[r].live /\ Committed[r].open}
  BY <1>0 DEF ClientRows, Updated, Matches, Committed
<1>4. \A r \in Rows : r \notin S => rows'[r] = rows[r]
  BY <1>2
<1>5. \A r \in S : /\ rows'[r].live = TRUE /\ rows'[r].open = (r \in T)
                   /\ rows'[r].history = rows[r].history \cup {q}
  <2> SUFFICES ASSUME NEW r \in S
               PROVE  /\ rows'[r].live = TRUE /\ rows'[r].open = (r \in T)
                      /\ rows'[r].history = rows[r].history \cup {q}
    OBVIOUS
  <2>1. rows'[r] = draft[r] /\ draft[r] \in Version /\ Updated(q, r)
    BY <1>0, <1>2 DEF ClientRows
  <2>2. draft[r].live /\ draft[r].history = rows[r].history \cup {q}
    BY <2>1 DEF Updated, Including, Matches
  <2>3. draft[r].live \in BOOLEAN /\ draft[r].open \in BOOLEAN
    BY <2>1 DEF Version
  <2>4. QED
    BY <2>1, <2>2, <2>3
<1>6. Committed' = [r \in Rows |-> IF r \in S THEN Promise!Includes(Committed[r], q, TRUE, r \in T) ELSE Committed[r]]
  <2> HIDE DEF S, T
  <2>1. ASSUME NEW r \in Rows, r \in S PROVE Committed'[r] = Promise!Includes(Committed[r], q, TRUE, r \in T)
    BY <1>5, <2>1 DEF Committed, Promise!Includes
  <2>2. \A r \in Rows : r \notin S => Committed'[r] = Committed[r]
    BY <1>4 DEF Committed
  <2>3. DOMAIN Committed' = Rows /\ Committed' = [r \in Rows |-> Committed'[r]]
    BY DEF Committed
  <2>4. QED
    BY <2>1, <2>2, <2>3
<1>7. T \in SUBSET Rows
  OBVIOUS
<1> HIDE DEF S, T
<1>8. QED
  BY <1>0, <1>1, <1>3, <1>6, <1>7 DEF Promise!Apply

\* The row of a writer: updated, deleted or inserted.
LEMMA PromisedWrite ==
    ASSUME IInv, NEW w \in Writers, ~req[w].committed, NEW r \in Rows,
           NEW v \in Version, Became(v, rows[r], w),
           rows' = [rows EXCEPT ![r] = v],
           NEW x \in Request, x.committed, req' = [req EXCEPT ![w] = x]
    PROVE  Promise!Write(w)
<1> DEFINE A == {e \in Actors : req[e].committed}
           l == v.live
           o == v.open
<1>1. w \in Actors /\ w \notin A /\ A' = A \cup {w}
  BY DEF Actors, IInv, Typed
<1>2. Committed' = [Committed EXCEPT ![r] = [live |-> l, open |-> o, history |-> v.history]]
  BY DEF Committed, IInv, Typed
<1>3. Committed[r].live = rows[r].live /\ Committed[r].history = rows[r].history
  BY DEF Committed
<1>4. v.history = rows[r].history \cup {w} /\ (rows[r].live \/ (l /\ rows[r].history = {}))
  BY DEF Became
<1>5. Promise!Includes(Committed[r], w, l, o) = [live |-> l, open |-> o, history |-> v.history]
  BY <1>3, <1>4 DEF Promise!Includes
<1>6. l \in BOOLEAN /\ o \in BOOLEAN
  BY DEF Version
<1> HIDE DEF l, o
<1>7. Committed' = [Committed EXCEPT ![r] = Promise!Includes(Committed[r], w, l, o)]
  BY <1>2, <1>5
<1>8. Committed[r].live \/ (Committed[r].history = {} /\ l)
  BY <1>3, <1>4
<1>9. QED
  BY <1>1, <1>6, <1>7, <1>8 DEF Promise!Write

\* The COMMIT of a transaction.
LEMMA PublishRows ==
    ASSUME IInv, RInv, NEW q \in Actors, NEW x \in Request, req' = [req EXCEPT ![q] = x],
           UNCHANGED config, Publish(q), ~req[q].committed, x.committed, x.pc \in {"release", "done"},
           q \in Clients \/ (x.pc = "done" /\ \E r \in Rows : owner[r] = q)
    PROVE  RInv' /\ Kept
<1>0. RowsInv /\ Mine(q) /\ NoOne \notin Actors /\ (q \in Clients <=> q \notin Writers)
  BY UpdatesAssumption DEF IInv, Typed, RowsInv, RInv, Actors
<1>1. Frame(q) /\ \A r \in Rows : owner'[r] # q
  BY <1>0, EndLemma DEF Held
<1>2. \A r \in Rows : rows'[r] = IF owner[r] = q THEN draft[r] ELSE rows[r]
  BY DEF Publish, Held
<1>3. Apart'
  BY EndApart
<1>4. Grown(q)
  <2>1. \A r \in Rows : q \notin rows[r].history
    BY <1>0 DEF Mine, Recorded
  <2>2. \A r \in Rows : owner[r] = q => draft[r] = rows[r] \/ draft[r].history = rows[r].history \cup {q}
    BY DraftLemma
  <2>3. QED
    BY <1>2, <2>1, <2>2 DEF Grown
<1>5. ASSUME req'[q] = x PROVE Mine(q)'
  <2>1. Recorded(q)'
    BY <1>5 DEF Recorded
  <2>2. ClientRows(q)'
    BY <1>1, <1>5 DEF ClientRows, At
  <2>3. ASSUME q \in Writers PROVE WriterRows(q)'
    <3>1. req'[q].pc = "done"
      BY <1>0, <1>5, <2>3
    <3>2. QED
      BY <1>1, <3>1 DEF WriterRows, HasWritten, At
  <2>4. QED
    BY <2>1, <2>2, <2>3 DEF Mine
<1>6. CASE q \in Clients
  <2>1. Promise!Apply(q)
    BY <1>6, ApplyLemma
  <2>2. QED
    BY <1>1, <1>3, <1>4, <1>5, <1>6, <2>1, RowsLemma DEF Kept, Promise!Next
<1>7. CASE q \in Writers
  <2>1. PICK r \in Rows : owner[r] = q
    BY <1>0, <1>7
  <2>2. WriterRows(q)
    BY <1>0, <1>7 DEF Mine
  <2>3. draft[r] \in Version /\ Became(draft[r], rows[r], q)
    BY <1>0, <2>1, <2>2 DEF WriterRows, Written, RowsInv
  <2>4. \A s \in Rows : owner[s] = q <=> s = r
    BY <2>1, <2>2 DEF WriterRows
  <2>5. rows' = [rows EXCEPT ![r] = draft[r]]
    BY <1>0, <2>4 DEF Publish, Held, RowsInv
  <2>6. Promise!Write(q)
    BY <1>7, <2>3, <2>5, PromisedWrite
  <2>7. QED
    BY <1>1, <1>3, <1>4, <1>5, <1>7, <2>6, RowsLemma DEF Kept, Promise!Next
<1>8. QED
  BY <1>6, <1>7 DEF Actors

-----------------------------------------------------------------------------
(* The steps of an update.                                                 *)

\* A request goes on, and changes no row.
LEMMA QuietRows ==
    ASSUME IInv, RInv, NEW q \in Actors, NEW x \in Request, req' = [req EXCEPT ![q] = x],
           UNCHANGED config, Unlocked, x.committed = req[q].committed,
           req'[q] = x /\ UNCHANGED <<rows, draft, owner>> => (q \in Clients => ClientRows(q)') /\ (q \in Writers => WriterRows(q)')
    PROVE  RInv' /\ Kept
<1>0. RowsInv /\ Mine(q) /\ UNCHANGED <<rows, draft, owner>>
  BY DEF IInv, Typed, RowsInv, RInv, Unlocked
<1>1. Frame(q) /\ Grown(q)
  BY <1>0, UnlockedLemma DEF Grown
<1>2. Apart'
  BY EndApart
<1>3. req'[q] = x => Recorded(q)'
  BY <1>0 DEF Mine, Recorded
<1>4. req'[q] = x => Mine(q)'
  BY <1>0, <1>3 DEF Mine
<1>5. QED
  BY <1>0, <1>1, <1>2, <1>4, RowsLemma, StutterLemma

\* What was read, and whether it is still so, depends on nothing else.
LEMMA SameRead ==
    ASSUME NEW q, req'[q].got = req[q].got, req'[q].done = req[q].done, req'[q].seen = req[q].seen,
           UNCHANGED <<rows, draft, owner>>
    PROVE  /\ LockedAsRead(q)' <=> LockedAsRead(q)
           /\ \A r : HasGot(q, r)' <=> HasGot(q, r)
           /\ Stayed(q)' = Stayed(q) /\ (SeenBefore(q)' <=> SeenBefore(q))
           /\ \A r : Updated(q, r)' <=> Updated(q, r)
<1>1. rows' = rows /\ draft' = draft /\ owner' = owner
  OBVIOUS
<1>2. Stayed(q)' = Stayed(q) /\ (SeenBefore(q)' <=> SeenBefore(q))
  BY <1>1 DEF Stayed, Matches, SeenBefore
<1>3. \A r : HasGot(q, r)' <=> HasGot(q, r)
  BY DEF HasGot
<1>4. \A r : Updated(q, r)' <=> Updated(q, r)
  BY <1>1 DEF Updated, Including, Matches
<1>5. LockedAsRead(q)' <=> LockedAsRead(q)
  BY <1>1 DEF LockedAsRead, Matches
<1>6. QED
  BY <1>2, <1>3, <1>4, <1>5

\* A step that leaves the program and what was read as they are.
LEMMA SameStage ==
    ASSUME IInv, RInv, NEW q \in Actors, UNCHANGED <<config, rows, draft, owner>>,
           req'[q].pc = req[q].pc, req'[q].todo = req[q].todo, req'[q].got = req[q].got, req'[q].done = req[q].done,
           req'[q].status = req[q].status, req'[q].seen = req[q].seen
    PROVE  (q \in Clients => ClientRows(q)') /\ (q \in Writers => WriterRows(q)')
<1>1. Mine(q)
  BY DEF RInv
<1>2. q \in Clients => ClientRows(q)'
  <2> SUFFICES ASSUME q \in Clients PROVE ClientRows(q)'
    OBVIOUS
  <2>1. ClientRows(q)
    BY <1>1 DEF Mine
  <2>2. /\ LockedAsRead(q)' <=> LockedAsRead(q)
        /\ \A r : HasGot(q, r)' <=> HasGot(q, r)
        /\ Stayed(q)' = Stayed(q) /\ (SeenBefore(q)' <=> SeenBefore(q))
        /\ \A r : Updated(q, r)' <=> Updated(q, r)
    BY SameRead
  <2>3. rows' = rows /\ draft' = draft /\ owner' = owner
    OBVIOUS
  <2>4. QED
    BY <2>1, <2>2, <2>3 DEF ClientRows, At
<1>3. q \in Writers => WriterRows(q)'
  BY <1>1 DEF Mine, WriterRows, Written, Became, Including, HasWritten, At
<1>4. QED
  BY <1>2, <1>3

\* The cache is asked: no row is touched.
LEMMA LookupRows ==
    ASSUME IInv, RInv, NEW q \in Actors, Lookup(q)
    PROVE  RInv' /\ Kept
<1> DEFINE p == req[q].program
           m == ~Hit(cache, p)
           k == IF Hit(cache, p) THEN Stored(cache, p).code ELSE req[q].code
           x == [req[q] EXCEPT !.missed = m, !.code = k]
<1>0. /\ req[q] \in Request /\ Stage(q) /\ CacheOK(cache, Texts) /\ cache \in Cache(Texts)
      /\ NeedsCode(q) /\ Unlocked /\ UNCHANGED config
  BY DEF IInv, Typed, Lookup
<1>1. p \in Texts
  BY <1>0 DEF Stage, NeedsCode
<1>2. k \in {NoCode, p} /\ m \in BOOLEAN
  BY <1>0, <1>1, StoredLemma DEF Stage
<1>3. req' = [req EXCEPT ![q] = x]
  BY DEF Lookup, IInv, Typed
<1> HIDE DEF p, m, k
<1>4. /\ x \in Request /\ x.pc = req[q].pc /\ x.todo = req[q].todo /\ x.got = req[q].got /\ x.done = req[q].done
      /\ x.status = req[q].status /\ x.committed = req[q].committed /\ x.seen = req[q].seen
  BY <1>0, <1>1, <1>2 DEF Request, p
<1> HIDE DEF x
<1>5. QED
  BY <1>0, <1>3, <1>4, SameStage, QuietRows

\* A program is compiled: no row is touched.
LEMMA CompileRows ==
    ASSUME IInv, RInv, NEW q \in Actors, Compile(q)
    PROVE  RInv' /\ Kept
<1>0. req[q] \in Request /\ Stage(q) /\ NeedsCode(q) /\ UNCHANGED config
  BY DEF IInv, Typed, Compile
<1>1. CASE Fail(q, 400)
  BY <1>0, <1>1, FailRows
<1>2. CASE Unlocked /\ req' = [req EXCEPT ![q].missed = FALSE, ![q].code = req[q].program]
  <2> DEFINE p == req[q].program
             m == FALSE
             x == [req[q] EXCEPT !.missed = m, !.code = p]
  <2>1. p \in Texts /\ m \in BOOLEAN
    BY <1>0 DEF Stage, NeedsCode
  <2>2. req' = [req EXCEPT ![q] = x]
    BY <1>2 DEF IInv, Typed
  <2> HIDE DEF m, p
  <2>3. /\ x \in Request /\ x.pc = req[q].pc /\ x.todo = req[q].todo /\ x.got = req[q].got /\ x.done = req[q].done
        /\ x.status = req[q].status /\ x.committed = req[q].committed /\ x.seen = req[q].seen
    BY <1>0, <2>1 DEF Request
  <2> HIDE DEF x
  <2>4. QED
    BY <1>0, <1>2, <2>2, <2>3, SameStage, QuietRows
<1>3. QED
  BY <1>1, <1>2 DEF Compile

\* The client goes away: no row is touched.
LEMMA CancelRows ==
    ASSUME IInv, RInv, NEW q \in Actors, Cancel(q)
    PROVE  RInv' /\ Kept
<1> DEFINE t == TRUE
           x == [req[q] EXCEPT !.gone = t]
<1>0. /\ req[q] \in Request /\ Unlocked /\ UNCHANGED config
      /\ req' = [req EXCEPT ![q] = x] /\ t \in BOOLEAN
  BY DEF IInv, Typed, Cancel
<1> HIDE DEF t
<1>1. /\ x \in Request /\ x.pc = req[q].pc /\ x.todo = req[q].todo /\ x.got = req[q].got /\ x.done = req[q].done
      /\ x.status = req[q].status /\ x.committed = req[q].committed /\ x.seen = req[q].seen
  BY <1>0 DEF Request
<1> HIDE DEF x
<1>2. QED
  BY <1>0, <1>1, SameStage, QuietRows

\* A request is read: it has no rows yet.
LEMMA HandleRows ==
    ASSUME IInv, RInv, NEW q \in Clients, Handle(q)
    PROVE  RInv' /\ Kept
<1>0. req[q] \in Request /\ req[q].pc = "handle" /\ UNCHANGED config /\ q \in Actors /\ Mine(q) /\ q \notin Writers
  BY UpdatesAssumption DEF IInv, Typed, Handle, At, Actors, RInv
<1>1. CASE Fail(q, 400)
  BY <1>0, <1>1, FailRows
<1>2. ASSUME NEW p \in Programs[q], req' = [req EXCEPT ![q].pc = "parse", ![q].program = p], Unlocked
      PROVE  RInv' /\ Kept
  <2> DEFINE x == [req[q] EXCEPT !.pc = "parse", !.program = p]
  <2>1. req' = [req EXCEPT ![q] = x] /\ p \in Texts
    BY <1>0, <1>2 DEF IInv, Typed, Texts
  <2>2. x \in Request /\ x.pc = "parse" /\ x.committed = req[q].committed
    BY <1>0, <2>1 DEF Request, Labels
  <2> HIDE DEF x
  <2>3. req'[q] = x /\ UNCHANGED <<rows, draft, owner>> => ClientRows(q)'
    BY <1>0, <2>2 DEF Mine, ClientRows, Updated, Including, Matches, At
  <2>4. QED
    BY <1>0, <1>2, <2>1, <2>2, <2>3, QuietRows
<1>3. QED
  BY <1>1, <1>2 DEF Handle

\* A transaction is begun: it has no rows yet.
LEMMA BeginRows ==
    ASSUME IInv, RInv, NEW q \in Clients, Begin(q)
    PROVE  RInv' /\ Kept
<1>0. req[q] \in Request /\ UNCHANGED config /\ q \in Actors /\ Mine(q) /\ q \notin Writers
  BY UpdatesAssumption DEF IInv, Typed, Begin, Actors, RInv
<1>1. CASE Fail(q, 400) \/ Fail(q, 500)
  BY <1>0, <1>1, FailRows
<1>2. CASE req' = [req EXCEPT ![q].pc = "select", ![q].code = NoCode, ![q].tx = TRUE] /\ Unlocked
  <2> DEFINE t == TRUE
             x == [req[q] EXCEPT !.pc = "select", !.code = NoCode, !.tx = t]
  <2>1. req' = [req EXCEPT ![q] = x] /\ t \in BOOLEAN
    BY <1>0, <1>2 DEF IInv, Typed
  <2> HIDE DEF t
  <2>2. x \in Request /\ x.pc = "select" /\ x.committed = req[q].committed
    BY <1>0, <2>1 DEF Request, Labels
  <2> HIDE DEF x
  <2>3. req'[q] = x /\ UNCHANGED <<rows, draft, owner>> => ClientRows(q)'
    BY <1>0, <2>2 DEF Mine, ClientRows, Updated, Including, Matches, At
  <2>4. QED
    BY <1>0, <1>2, <2>1, <2>2, <2>3, QuietRows
<1>3. QED
  BY <1>1, <1>2 DEF Begin

\* The SELECT sees every row that matches.
LEMMA SelectRows ==
    ASSUME IInv, RInv, NEW q \in Clients, Select(q)
    PROVE  RInv' /\ Kept
<1>0. /\ req[q] \in Request /\ UNCHANGED config /\ q \in Actors /\ Mine(q) /\ q \notin Writers
      /\ Held(q) = {} /\ req[q].got = <<>> /\ req[q].pc = "select" /\ rows \in [Rows -> Version]
  BY UpdatesAssumption DEF IInv, Typed, Select, Actors, RInv, Stage, At
<1>1. CASE Fail(q, 500)
  BY <1>0, <1>1, FailRows
<1>2. CASE /\ req' = [req EXCEPT ![q].pc = "lock", ![q].todo = {r \in Rows : Matches(rows[r])},
                                 ![q].seen = [r \in Rows |-> rows[r].history]]
           /\ Unlocked
  <2> DEFINE d == {r \in Rows : Matches(rows[r])}
             h == [r \in Rows |-> rows[r].history]
             x == [req[q] EXCEPT !.pc = "lock", !.todo = d, !.seen = h]
  <2>1. req' = [req EXCEPT ![q] = x] /\ d \in SUBSET Rows /\ h \in [Rows -> SUBSET Actors]
    BY <1>0, <1>2 DEF IInv, Typed, Version
  <2>2. \A r \in Rows : (Matches(rows[r]) => r \in d) /\ h[r] = rows[r].history
    OBVIOUS
  <2> HIDE DEF d, h
  <2>3. /\ x \in Request /\ x.pc = "lock" /\ x.committed = req[q].committed /\ x.todo = d /\ x.got = req[q].got
        /\ x.seen = h
    BY <1>0, <2>1 DEF Request, Labels
  <2> HIDE DEF x
  <2>4. ASSUME req'[q] = x, UNCHANGED <<rows, draft, owner>> PROVE ClientRows(q)'
    <3>1. req'[q].got = <<>> /\ Len(req'[q].got) = 0 /\ (\A r \in Rows : ~HasGot(q, r)') /\ LockedAsRead(q)'
      BY <1>0, <2>3, <2>4, EmptySeq DEF HasGot, LockedAsRead
    <3>2. \A r \in Rows : owner'[r] # q
      BY <1>0, <2>4 DEF Held
    <3>3. SeenBefore(q)' /\ \A r \in Rows : r \in Stayed(q)' => r \in req'[q].todo
      BY <2>2, <2>3, <2>4 DEF SeenBefore, Stayed, Matches
    <3>4. QED
      BY <2>3, <2>4, <3>1, <3>2, <3>3 DEF ClientRows, At
  <2>5. QED
    BY <1>0, <1>2, <2>1, <2>3, <2>4, QuietRows
<1>3. QED
  BY <1>1, <1>2 DEF Select

\* A row is locked: as nobody has it, it is as it was committed.
LEMMA LockRowsMine ==
    ASSUME IInv, RInv, NEW q \in Clients, Lock(q)
    PROVE  RInv' /\ Kept
<1> DEFINE g(r) == [row |-> r, ctid |-> rows[r].ctid, history |-> rows[r].history]
<1>0. /\ req[q] \in Request /\ Stage(q) /\ req[q].pc = "lock" /\ UNCHANGED <<config, rows, draft>>
      /\ RowsInv /\ q \in Actors /\ ClientRows(q) /\ Recorded(q) /\ q \notin Writers /\ NoOne # q
  BY UpdatesAssumption DEF IInv, Typed, RowsInv, Lock, Locking, At, Actors, RInv, Mine
<1>1. PICK r \in req[q].todo :
        /\ owner[r] = NoOne
        /\ owner' = [owner EXCEPT ![r] = ForUpdate(q, r)]
        /\ req' = [req EXCEPT ![q].todo = @ \ {r},
                              ![q].got = IF Matches(rows[r]) THEN Append(@, g(r)) ELSE @]
  BY DEF Lock
<1>2. r \in Rows
  BY <1>0 DEF Request
<1> DEFINE d == req[q].todo \ {r}
           h == IF Matches(rows[r]) THEN Append(req[q].got, g(r)) ELSE req[q].got
           n == Len(req[q].got)
           x == [req[q] EXCEPT !.todo = d, !.got = h]
<1>3. h \in Seq(LockedRow) /\ d \in SUBSET Rows
  BY <1>0, <1>2, GotLemma DEF Request
<1>4. req' = [req EXCEPT ![q] = x]
  BY <1>1 DEF IInv, Typed
<1>5. n \in Nat /\ \A i \in 1..n : req[q].got[i] \in LockedRow /\ req[q].got[i].row \in Rows
  BY <1>0, GotType
<1>6. /\ \A i \in 1..n : h[i] = req[q].got[i]
      /\ Matches(rows[r]) => Len(h) = n + 1 /\ h[n + 1] = g(r)
      /\ ~Matches(rows[r]) => Len(h) = n
  <2>1. /\ Len(Append(req[q].got, g(r))) = n + 1
        /\ \A i \in 1..n : Append(req[q].got, g(r))[i] = req[q].got[i]
        /\ Append(req[q].got, g(r))[n + 1] = g(r)
    BY <1>0, <1>2, GotLemma
  <2>2. QED
    BY <2>1
<1> HIDE DEF h, d
<1>7. x \in Request /\ x.pc = "lock" /\ x.committed = req[q].committed /\ x.todo = d /\ x.got = h /\ x.done = req[q].done
      /\ x.seen = req[q].seen
  BY <1>0, <1>3 DEF Request
<1> HIDE DEF x
<1>8. Frame(q) /\ Grown(q) /\ Apart'
  <2>1. Frame(q)
    BY <1>0, <1>1, <1>2, LockRows
  <2>2. QED
    BY <1>0, <2>1 DEF Grown, RInv, Apart, Places
<1>9. \A s \in Rows : owner'[s] = IF s = r THEN ForUpdate(q, r) ELSE owner[s]
  BY <1>0, <1>1 DEF RowsInv
<1>10. ASSUME req'[q] = x PROVE ClientRows(q)'
  <2>0. req[q].done = 0 /\ LockedAsRead(q) /\ SeenBefore(q) /\ draft[r] = rows[r] /\ req'[q].got = h
    BY <1>0, <1>1, <1>2, <1>7, <1>10 DEF Stage, ClientRows, RowsInv, Free
  <2>10. Stayed(q)' = Stayed(q) /\ SeenBefore(q)' /\ \A s \in Stayed(q) : Matches(rows[s])
    BY <1>0, <1>7, <1>10, <2>0 DEF Stayed, SeenBefore, Matches
  <2>1. \A s \in Rows : owner'[s] = q => draft'[s] = rows'[s]
    BY <1>0, <1>9, <2>0 DEF ClientRows, At
  <2>2. \A s \in Rows : HasGot(q, s)' <=> HasGot(q, s) \/ (s = r /\ Matches(rows[r]))
    <3> SUFFICES ASSUME NEW s \in Rows PROVE HasGot(q, s)' <=> HasGot(q, s) \/ (s = r /\ Matches(rows[r]))
      OBVIOUS
    <3>1. HasGot(q, s)' <=> \E i \in 1..Len(h) : h[i].row = s
      BY <2>0 DEF HasGot
    <3>2. HasGot(q, s) <=> \E i \in 1..n : h[i].row = s
      BY <1>6 DEF HasGot
    <3>3. CASE Matches(rows[r])
      <4>1. 1..Len(h) = (1..n) \cup {n + 1} /\ h[n + 1].row = r
        BY <1>5, <1>6, <3>3
      <4>2. QED
        BY <3>1, <3>2, <3>3, <4>1
    <3>4. CASE ~Matches(rows[r])
      BY <1>6, <3>1, <3>2, <3>4
    <3>5. QED
      BY <3>3, <3>4
  <2>3. ASSUME NEW s \in Rows
        PROVE  (s \in Stayed(q)' => s \in req'[q].todo \/ HasGot(q, s)') /\ (HasGot(q, s)' => s \notin req'[q].todo)
    <3>1. req'[q].todo = req[q].todo \ {r}
      BY <1>7, <1>10 DEF d
    <3>2. (s \in Stayed(q) => s \in req[q].todo \/ HasGot(q, s)) /\ (HasGot(q, s) => s \notin req[q].todo)
      BY <1>0 DEF ClientRows, At
    <3>3. QED
      BY <1>0, <2>2, <2>10, <3>1, <3>2
  <2>8. owner[r] # q
    BY <1>0, <1>1
  <2>9. \A i \in 1..n : /\ owner[req[q].got[i].row] = q /\ req[q].got[i].row \in Rows
                         /\ h[i] = req[q].got[i]
    <3>1. \A i \in 1..n : owner[req[q].got[i].row] = q
      BY <2>0 DEF LockedAsRead
    <3>2. QED
      BY <1>5, <1>6, <3>1
  <2>4. ASSUME NEW i \in 1..Len(h)
        PROVE  /\ owner'[h[i].row] = q /\ Matches(rows[h[i].row])
               /\ h[i].ctid = rows[h[i].row].ctid /\ h[i].history = rows[h[i].row].history
               /\ draft[h[i].row] = rows[h[i].row]
    <3>1. CASE i \in 1..n
      <4>1. owner[h[i].row] = q /\ h[i].row \in Rows /\ h[i].row # r
        BY <2>8, <2>9, <3>1
      <4>2. i > req[q].done
        BY <1>5, <2>0, <3>1
      <4>3. h[i] = req[q].got[i] /\ i \in 1..Len(req[q].got)
        BY <1>5, <1>6, <2>0, <3>1
      <4>4. QED
        BY <1>9, <2>0, <4>1, <4>2, <4>3 DEF LockedAsRead
    <3>2. CASE i \notin 1..n
      <4>1. Matches(rows[r]) /\ i = n + 1
        BY <1>5, <1>6, <3>2
      <4>2. h[i].row = r /\ h[i].ctid = rows[r].ctid /\ h[i].history = rows[r].history
        BY <1>6, <4>1
      <4>3. owner'[r] = q
        BY <1>2, <1>9, <4>1 DEF ForUpdate, Matches
      <4>4. QED
        BY <2>0, <4>1, <4>2, <4>3
    <3>3. QED
      BY <3>1, <3>2
  <2>5. \A i, j \in 1..Len(h) : h[i].row = h[j].row => i = j
    <3>1. \A i \in 1..n : h[i].row # r
      BY <2>8, <2>9
    <3>2. \A i \in 1..Len(h) : i \notin 1..n => i = n + 1 /\ h[i].row = r
      BY <1>5, <1>6
    <3>3. \A i, j \in 1..n : h[i].row = h[j].row => i = j
      BY <1>6, <2>0 DEF LockedAsRead
    <3>4. QED
      BY <3>1, <3>2, <3>3
  <2>6. LockedAsRead(q)'
    BY <1>0, <2>0, <2>4, <2>5 DEF LockedAsRead
  <2>7. QED
    BY <1>7, <1>10, <2>1, <2>3, <2>6, <2>10 DEF ClientRows, At
<1>11. ASSUME req'[q] = x PROVE Mine(q)'
  BY <1>0, <1>7, <1>10, <1>11 DEF Mine, Recorded
<1>12. QED
  BY <1>0, <1>4, <1>7, <1>8, <1>11, RowsLemma, StutterLemma

\* Nothing is left to lock: the rows that match have been read.
LEMMA SelectedRows ==
    ASSUME IInv, RInv, NEW q \in Clients, Selected(q)
    PROVE  RInv' /\ Kept
<1>0. /\ req[q] \in Request /\ UNCHANGED config /\ q \in Actors /\ ClientRows(q) /\ q \notin Writers
      /\ req[q].pc = "lock" /\ ~Locking(q) /\ config \in Config /\ Len(req[q].got) \in Nat
  BY UpdatesAssumption, GotType DEF IInv, Typed, Selected, Actors, RInv, Mine, At
<1>1. CASE Fail(q, 400)
  BY <1>0, <1>1, FailRows
<1>2. CASE ~TooMany(req[q].got) /\ req' = [req EXCEPT ![q].pc = "eval", ![q].todo = {}] /\ Unlocked
  <2> DEFINE d == {}
             x == [req[q] EXCEPT !.pc = "eval", !.todo = d]
  <2>1. req' = [req EXCEPT ![q] = x] /\ d \in SUBSET Rows
    BY <1>0, <1>2 DEF IInv, Typed
  <2> HIDE DEF d
  <2>2. /\ x \in Request /\ x.pc = "eval" /\ x.committed = req[q].committed /\ x.got = req[q].got
        /\ x.done = req[q].done /\ x.seen = req[q].seen
    BY <1>0, <2>1 DEF Request, Labels
  <2> HIDE DEF x
  <2>3. req[q].todo = {}
    BY <1>0, <1>2 DEF Locking, TooMany, At, Config
  <2>4. ASSUME req'[q] = x, UNCHANGED <<rows, draft, owner>> PROVE ClientRows(q)'
    <3>1. \A r \in Rows : /\ r \in Stayed(q) => HasGot(q, r)
                          /\ owner[r] = q => draft[r] = rows[r]
      BY <1>0, <2>3 DEF ClientRows, At
    <3>2. /\ (\A r \in Rows : HasGot(q, r)' <=> HasGot(q, r)) /\ LockedAsRead(q)'
          /\ Stayed(q)' = Stayed(q) /\ SeenBefore(q)'
      <4>1. LockedAsRead(q) /\ SeenBefore(q)
        BY <1>0 DEF ClientRows
      <4>2. QED
        BY <2>2, <2>4, <4>1, SameRead
    <3>3. QED
      BY <2>2, <2>4, <3>1, <3>2 DEF ClientRows, At
  <2>5. QED
    BY <1>0, <1>2, <2>1, <2>2, <2>4, QuietRows
<1>3. QED
  BY <1>1, <1>2 DEF Selected

\* A row is done, or its new version is at hand.
LEMMA EvalRows ==
    ASSUME IInv, RInv, NEW q \in Clients, Eval(q)
    PROVE  RInv' /\ Kept
<1>0. /\ req[q] \in Request /\ UNCHANGED config /\ q \in Actors /\ ClientRows(q) /\ q \notin Writers /\ Typed
      /\ req[q].pc = "eval" /\ Len(req[q].got) \in Nat /\ req[q].done \in Nat
  BY UpdatesAssumption, GotType DEF IInv, Typed, Eval, Actors, RInv, Mine, At, Request
<1>1. CASE Fail(q, 400)
  BY <1>0, <1>1, FailRows
<1>2. CASE req' = [req EXCEPT ![q] = NextRow(q)] /\ Unlocked
  <2> DEFINE x == NextRow(q)
  <2>1. /\ x \in Request /\ x.pc = "eval" /\ x.got = req[q].got /\ x.done = req[q].done + 1
        /\ x.committed = req[q].committed /\ x.seen = req[q].seen
    BY <1>0, NextRowLemma
  <2>2. req' = [req EXCEPT ![q] = x]
    BY <1>2
  <2> HIDE DEF x
  <2>3. ASSUME req'[q] = x, UNCHANGED <<rows, draft, owner>> PROVE ClientRows(q)'
    <3>1. \A r \in Rows : HasGot(q, r)' <=> HasGot(q, r)
      BY <2>1, <2>3 DEF HasGot
    <3>2. LockedAsRead(q)'
      <4>1. LockedAsRead(q) /\ req'[q].got = req[q].got
        BY <1>0, <2>1, <2>3 DEF ClientRows
      <4>2. \A i \in 1..Len(req[q].got) : i > req'[q].done => i > req[q].done
        BY <1>0, <2>1, <2>3
      <4>3. rows' = rows /\ draft' = draft /\ owner' = owner
        BY <2>3
      <4>4. QED
        BY <1>0, <4>1, <4>2, <4>3, ReadKept
    <3>4. Stayed(q)' = Stayed(q) /\ (SeenBefore(q)' <=> SeenBefore(q))
      BY <2>1, <2>3 DEF Stayed, SeenBefore, Matches
    <3>3. QED
      BY <1>0, <2>1, <2>3, <3>1, <3>2, <3>4 DEF ClientRows, At, Matches, Updated, Including
  <2>4. QED
    BY <1>0, <1>2, <2>1, <2>2, <2>3, QuietRows
<1>3. CASE req' = [req EXCEPT ![q].pc = "update"] /\ Unlocked
  <2> DEFINE x == [req[q] EXCEPT !.pc = "update"]
  <2>1. req' = [req EXCEPT ![q] = x]
    BY <1>0, <1>3 DEF IInv, Typed
  <2>2. /\ x \in Request /\ x.pc = "update" /\ x.committed = req[q].committed /\ x.got = req[q].got
        /\ x.done = req[q].done /\ x.seen = req[q].seen
    BY <1>0 DEF Request, Labels
  <2> HIDE DEF x
  <2>3. ASSUME req'[q] = x, UNCHANGED <<rows, draft, owner>> PROVE ClientRows(q)'
    <3>1. /\ (\A r \in Rows : HasGot(q, r)' <=> HasGot(q, r)) /\ LockedAsRead(q)'
          /\ Stayed(q)' = Stayed(q) /\ SeenBefore(q)'
      <4>1. LockedAsRead(q) /\ SeenBefore(q)
        BY <1>0 DEF ClientRows
      <4>2. QED
        BY <2>2, <2>3, <4>1, SameRead
    <3>2. QED
      BY <1>0, <2>2, <2>3, <3>1 DEF ClientRows, At, Matches, Updated, Including
  <2>4. QED
    BY <1>0, <1>3, <2>1, <2>2, <2>3, QuietRows
<1>4. QED
  BY <1>1, <1>2, <1>3 DEF Eval

\* The place that was read is that of the row that was read, and of no other.
LEMMA HitsLemma ==
    ASSUME IInv, RInv, NEW q \in Clients, req[q].pc = "update"
    PROVE  LET s == Current(q).row
           IN  /\ s \in Rows /\ owner[s] = q /\ draft[s] = rows[s] /\ Matches(rows[s])
               /\ Current(q).history = rows[s].history
               /\ HasGot(q, s)
               /\ \A r \in Rows : r \in Hits(q) <=> r = s
               /\ \A i \in 1..Len(req[q].got) : i > req[q].done + 1 => req[q].got[i].row # s
<1> DEFINE n == req[q].done + 1
           s == Current(q).row
<1>0. q \in Actors /\ LockedAsRead(q) /\ Stage(q) /\ req[q].done \in Nat
  BY DEF Actors, RInv, Mine, ClientRows, IInv, Typed, Request
<1>1. n \in 1..Len(req[q].got) /\ n > req[q].done
  BY <1>0, GotType DEF Stage, At
<1>2. Current(q) = req[q].got[n]
  BY DEF Current
<1>3. /\ s \in Rows /\ owner[s] = q /\ draft[s] = rows[s] /\ Matches(rows[s])
      /\ Current(q).ctid = rows[s].ctid /\ Current(q).history = rows[s].history
  BY <1>0, <1>1, <1>2, GotType DEF LockedAsRead
<1>4. \A r \in Rows : r \in Hits(q) <=> r = s
  <2> SUFFICES ASSUME NEW r \in Rows PROVE r \in Hits(q) <=> r = s
    OBVIOUS
  <2>1. r = s => r \in Hits(q)
    BY <1>3 DEF Hits, Matches
  <2>2. r # s => draft[r].ctid # rows[s].ctid
    BY <1>3 DEF RInv, Apart, Places
  <2>3. QED
    BY <1>3, <2>1, <2>2 DEF Hits
<1>5. HasGot(q, s)
  BY <1>1, <1>2 DEF HasGot
<1>6. \A i \in 1..Len(req[q].got) : i > n => req[q].got[i].row # s
  BY <1>0, <1>1, <1>2 DEF LockedAsRead
<1>7. QED
  BY <1>3, <1>4, <1>5, <1>6

\* One row gets a new place, which is nobody's.
LEMMA NewApart ==
    ASSUME OneTable, IInv, RInv, NEW s \in Rows,
           \A r \in Rows \ {s} : Places(r)' \subseteq Places(r),
           Places(s)' \subseteq Places(s) \cup {NewPlace(s)}
    PROVE  Apart'
<1>1. NewPlace(s) \notin Taken(s) /\ Beside(s) = Rows
  BY NewPlaceLemma DEF IInv, Typed, RowsInv, OneTable, Beside
<1>2. \A r \in Rows : NewPlace(s) \notin Places(r)
  BY <1>1 DEF Taken, Places
<1> SUFFICES ASSUME NEW r \in Rows, NEW t \in Rows, r # t PROVE Places(r)' \cap Places(t)' = {}
  BY DEF Apart
<1>3. Places(r) \cap Places(t) = {}
  BY DEF RInv, Apart
<1>4. CASE r = s
  BY <1>2, <1>3, <1>4
<1>5. CASE t = s
  BY <1>2, <1>3, <1>5
<1>6. CASE r # s /\ t # s
  BY <1>3, <1>6
<1>7. QED
  BY <1>4, <1>5, <1>6

\* The UPDATE reaches the one row that was read at its place.
LEMMA UpdateRowsMine ==
    ASSUME OneTable, IInv, RInv, NEW q \in Clients, Update(q)
    PROVE  RInv' /\ Kept
<1>0. /\ req[q] \in Request /\ UNCHANGED config /\ q \in Actors /\ ClientRows(q) /\ Recorded(q) /\ q \notin Writers
      /\ Typed /\ RowsInv /\ req[q].pc = "update" /\ Len(req[q].got) \in Nat /\ req[q].done \in Nat /\ LockedAsRead(q)
  BY UpdatesAssumption, GotType DEF IInv, Typed, RowsInv, Update, Actors, RInv, Mine, ClientRows,
     At, Request
<1>1. CASE Fail(q, 500)
  BY <1>0, <1>1, FailRows
<1>2. ASSUME NEW o \in BOOLEAN,
             draft' = [r \in Rows |-> IF r \notin Hits(q) THEN draft[r]
                                      ELSE [draft[r] EXCEPT !.open = o, !.ctid = NewPlace(r),
                                                            !.history = Current(q).history \cup {q}]],
             owner' = [r \in Rows |-> IF r \in Hits(q) THEN q ELSE owner[r]],
             req' = [req EXCEPT ![q] = NextRow(q)],
             UNCHANGED rows
      PROVE  RInv' /\ Kept
  <2>1. PICK s \in Rows :
        /\ owner[s] = q /\ draft[s] = rows[s] /\ Matches(rows[s])
        /\ Current(q).history = rows[s].history /\ HasGot(q, s)
        /\ \A r \in Rows : r \in Hits(q) <=> r = s
        /\ \A i \in 1..Len(req[q].got) : i > req[q].done + 1 => req[q].got[i].row # s
    BY <1>0, HitsLemma
  <2> DEFINE h == rows[s].history \cup {q}
             x == NextRow(q)
             n == NewPlace(s)
  <2>2. owner' = owner /\ rows' = rows
    <3>1. \A r \in Rows : (IF r \in Hits(q) THEN q ELSE owner[r]) = owner[r]
      BY <2>1
    <3>2. owner = [r \in Rows |-> owner[r]]
      BY <1>0 DEF RowsInv
    <3>3. QED
      BY <1>2, <3>1, <3>2
  <2>3. /\ \A r \in Rows \ {s} : draft'[r] = draft[r]
        /\ draft'[s] = [draft[s] EXCEPT !.open = o, !.ctid = n, !.history = h]
    BY <1>2, <2>1
  <2>4. rows[s] \in Version
    BY <1>0, <2>1 DEF RowsInv
  <2>5. /\ x \in Request /\ x.pc = "eval" /\ x.got = req[q].got /\ x.done = req[q].done + 1
        /\ x.committed = req[q].committed /\ x.seen = req[q].seen
    BY <1>0, NextRowLemma
  <2>6. req' = [req EXCEPT ![q] = x]
    BY <1>2
  <2> HIDE DEF h, x, n
  <2>7. draft'[s].live = rows[s].live /\ draft'[s].history = h /\ draft'[s].ctid = n
    BY <2>1, <2>3, <2>4 DEF Version
  <2>8. Frame(q) /\ Grown(q)
    BY <1>2, <2>1, <2>2, <2>3 DEF Frame, Grown
  <2>9. Apart'
    <3>1. \A r \in Rows \ {s} : Places(r)' \subseteq Places(r)
      BY <1>2, <2>3 DEF Places
    <3>2. Places(s)' \subseteq Places(s) \cup {NewPlace(s)}
      BY <1>2, <2>7 DEF Places, n
    <3>3. QED
      BY <2>1, <3>1, <3>2, NewApart
  <2>10. ASSUME req'[q] = x PROVE ClientRows(q)'
    <3>1. \A r \in Rows : HasGot(q, r)' <=> HasGot(q, r)
      BY <2>5, <2>10 DEF HasGot
    <3>2. Updated(q, s)'
      BY <1>2, <2>1, <2>7 DEF Updated, Including, Matches, h
    <3>3. \A r \in Rows : owner'[r] = q => draft'[r] = rows'[r] \/ Updated(q, r)'
      <4> SUFFICES ASSUME NEW r \in Rows, owner[r] = q, r # s PROVE draft'[r] = rows'[r] \/ Updated(q, r)'
        BY <2>2, <3>2
      <4>1. draft'[r] = draft[r] /\ rows' = rows /\ (draft[r] = rows[r] \/ Updated(q, r))
        BY <1>0, <2>2, <2>3 DEF ClientRows
      <4>2. QED
        BY <4>1 DEF Updated, Including, Matches
    <3>4. LockedAsRead(q)'
      <4>1. req'[q].got = req[q].got /\ req'[q].done = req[q].done + 1 /\ rows' = rows
        BY <1>2, <2>5, <2>10
      <4>2. ASSUME NEW i \in 1..Len(req[q].got), i > req[q].done + 1
            PROVE  i > req[q].done /\ draft'[req[q].got[i].row] = draft[req[q].got[i].row]
        <5>1. i > req[q].done /\ req[q].got[i].row \in Rows \ {s}
          BY <1>0, <2>1, <4>2, GotType
        <5>2. QED
          BY <2>3, <5>1
      <4>3. LockedAsRead(q) /\ \A r \in Rows : owner[r] = q => owner'[r] = q
        BY <1>0, <2>2
      <4>4. QED
        BY <1>0, <4>1, <4>2, <4>3, ReadKept
    <3>8. Stayed(q)' = Stayed(q) /\ (SeenBefore(q)' <=> SeenBefore(q)) /\ SeenBefore(q)
      BY <1>0, <1>2, <2>5, <2>10 DEF Stayed, SeenBefore, Matches, ClientRows
    <3>5. \A r \in Rows : /\ r \in Stayed(q)' => HasGot(q, r)'
                          /\ owner'[r] = q /\ draft'[r] # rows'[r] => HasGot(q, r)'
      <4> SUFFICES ASSUME NEW r \in Rows, r # s
                   PROVE  /\ r \in Stayed(q)' => HasGot(q, r)
                          /\ owner'[r] = q /\ draft'[r] # rows'[r] => HasGot(q, r)
        BY <2>1, <3>1
      <4>1. /\ r \in Stayed(q) => HasGot(q, r)
            /\ owner[r] = q /\ draft[r] # rows[r] => HasGot(q, r)
        BY <1>0 DEF ClientRows
      <4>2. owner'[r] = owner[r] /\ draft'[r] = draft[r] /\ rows'[r] = rows[r]
        BY <2>2, <2>3
      <4>3. QED
        BY <3>8, <4>1, <4>2
    <3>6. req'[q].pc = "eval"
      BY <2>5, <2>10
    <3>7. QED
      BY <3>3, <3>4, <3>5, <3>6, <3>8 DEF ClientRows, At
  <2>11. ASSUME req'[q] = x PROVE Mine(q)'
    BY <1>0, <1>2, <2>5, <2>10, <2>11 DEF Mine, Recorded
  <2>12. QED
    BY <1>0, <1>2, <2>5, <2>6, <2>8, <2>9, <2>11, RowsLemma, StutterLemma
<1>3. QED
  BY <1>1, <1>2 DEF Update

\* The end of an update.
LEMMA CommitRows ==
    ASSUME IInv, RInv, NEW q \in Clients, Commit(q)
    PROVE  RInv' /\ Kept
<1>0. /\ UNCHANGED config /\ q \in Actors /\ q \notin Writers /\ Typed /\ Truth(q) /\ req[q].pc = "eval"
      /\ req[q] \in Request
  BY UpdatesAssumption DEF IInv, Typed, Commit, Actors, At
<1>1. CASE Fail(q, 500)
  BY <1>0, <1>1, FailRows
<1>2. CASE config.mode # "none" /\ Unlocked /\ \E s \in Assembled(q) : Finished(q, s, FALSE)
  <2> DEFINE c == FALSE
             t == config.mode # "none"
  <2>1. PICK s \in Assembled(q) : Finished(q, s, c)
    BY <1>2
  <2>2. s \in Statuses
    <3>1. s \in {200, 406}
      BY DEF Assembled
    <3>2. QED
      BY <3>1 DEF Statuses
  <2> DEFINE x == Answered(q, s, c, t)
  <2>3. c \in BOOLEAN /\ t \in BOOLEAN /\ ~c /\ req' = [req EXCEPT ![q] = x]
    BY <2>1 DEF Finished
  <2> HIDE DEF c, t
  <2>4. x \in Request /\ x.pc = "release" /\ x.committed = c
    BY <1>0, <2>2, <2>3, AnsweredLemma
  <2> HIDE DEF x
  <2>5. ~req[q].committed /\ req[q].committed \in BOOLEAN
    BY <1>0 DEF Truth, Request
  <2>6. x.committed = req[q].committed
    BY <2>3, <2>4, <2>5
  <2>7. QED
    BY <1>0, <1>2, <2>3, <2>4, <2>6, ClientAnswerRows
<1>3. CASE Publish(q) /\ \E s \in Assembled(q) \cup {500} : Finished(q, s, TRUE)
  <2> DEFINE c == TRUE
             t == config.mode # "none"
  <2>1. PICK s : s \in Assembled(q) \cup {500} /\ Finished(q, s, c)
    BY <1>3
  <2>8. s \in Statuses
    BY <2>1 DEF Assembled, Statuses
  <2> DEFINE x == Answered(q, s, c, t)
  <2>2. c \in BOOLEAN /\ t \in BOOLEAN
    OBVIOUS
  <2>3. c /\ req' = [req EXCEPT ![q] = x]
    BY <2>1 DEF Finished
  <2> HIDE DEF c, t
  <2>4. x \in Request /\ x.pc = "release" /\ x.committed = c
    BY <1>0, <2>2, <2>8, AnsweredLemma
  <2> HIDE DEF x
  <2>7. x.committed
    BY <2>3, <2>4
  <2>5. ~req[q].committed
    BY <1>0 DEF Truth
  <2>9. q \in Actors /\ UNCHANGED config /\ Publish(q) /\ req' = [req EXCEPT ![q] = x] /\ x.pc \in {"release", "done"}
    BY <1>0, <1>3, <2>3, <2>4
  <2>6. QED
    BY <2>4, <2>5, <2>7, <2>9, PublishRows
<1>4. QED
  BY <1>1, <1>2, <1>3 DEF Commit

-----------------------------------------------------------------------------
(* The steps of a writer, and the end of a transaction.                    *)

\* The function of a call changes one row: at once, or with the transaction.
LEMMA WriteRowsMine ==
    ASSUME OneTable, IInv, RInv, NEW w \in Writers, Write(w)
    PROVE  RInv' /\ Kept
<1>0. /\ req[w] \in Request /\ Truth(w) /\ Stage(w) /\ req[w].pc = "write" /\ RowsInv /\ w \in Actors
      /\ UNCHANGED config /\ config \in Config /\ w \notin Clients /\ Recorded(w) /\ Held(w) = {} /\ ~req[w].committed
      /\ w # NoOne
  <2>1. w \in Actors /\ w \notin Clients /\ w # NoOne
    BY UpdatesAssumption DEF Actors
  <2>2. req[w].pc = "write" /\ UNCHANGED config
    BY DEF Write, At
  <2>3. req[w] \in Request /\ config \in Config /\ RowsInv /\ Truth(w) /\ Stage(w)
    BY <2>1 DEF IInv, Typed, RowsInv
  <2>4. Recorded(w)
    BY <2>1 DEF RInv, Mine
  <2>5. Held(w) = {} /\ ~req[w].committed
    BY <2>2, <2>3 DEF Stage, Truth, At
  <2>6. QED
    BY <2>1, <2>2, <2>3, <2>4, <2>5
<1>1. CASE Fail(w, 500)
  BY <1>0, <1>1, FailRows
<1>2. ASSUME NEW r \in Rows, NEW p \in Programs[w], owner[r] = NoOne, rows[r].live \/ Unborn(r),
             NEW v \in Versions(r, w), rows[r].live \/ v.live, Change(r, w, v),
             req' = [req EXCEPT ![w].pc = "transform", ![w].program = p, ![w].committed = config.mode = "none"]
      PROVE  RInv' /\ Kept
  <2> DEFINE k == config.mode = "none"
             x == [req[w] EXCEPT !.pc = "transform", !.program = p, !.committed = k]
  <2>1. req' = [req EXCEPT ![w] = x] /\ p \in Texts /\ k \in BOOLEAN
    BY <1>0, <1>2 DEF IInv, Typed, Texts
  <2> HIDE DEF k
  <2>2. x \in Request /\ x.pc = "transform" /\ x.committed = k
    BY <1>0, <2>1 DEF Request, Labels
  <2> HIDE DEF x
  <2>3. /\ v \in Version /\ v.ctid \in {rows[r].ctid, NewPlace(r)}
        /\ Became(v, rows[r], w)
    BY <1>0, <1>2, VersionsLemma DEF Became, Unborn
  <2>4. Frame(w)
    BY <1>0, <1>2, <2>3, WriteRows
  <2>5. /\ draft' = [draft EXCEPT ![r] = v]
        /\ k => rows' = [rows EXCEPT ![r] = v] /\ owner' = owner
        /\ ~k => rows' = rows /\ owner' = [owner EXCEPT ![r] = w]
    BY <1>2 DEF Change, k
  <2>6. /\ \A s \in Rows \ {r} : rows'[s] = rows[s] /\ draft'[s] = draft[s]
        /\ rows'[r] \in {rows[r], v} /\ draft'[r] = v
    BY <1>0, <2>1, <2>5 DEF RowsInv
  <2>7. Grown(w)
    <3>1. w \notin rows[r].history
      BY <1>0 DEF Recorded
    <3>2. QED
      BY <2>3, <2>6, <3>1 DEF Grown, Became
  <2>8. Apart'
    <3>1. \A s \in Rows \ {r} : Places(s)' \subseteq Places(s)
      BY <2>6 DEF Places
    <3>2. Places(r)' \subseteq Places(r) \cup {NewPlace(r)}
      BY <2>3, <2>6 DEF Places
    <3>3. QED
      BY <3>1, <3>2, NewApart
  <2>9. \A s \in Rows : owner[s] # w
    BY <1>0 DEF Held
  <2>10. CASE k
    <3>1. ASSUME req'[w] = x PROVE Mine(w)'
      <4>1. req'[w].committed /\ \A s \in Rows : owner'[s] # w
        BY <2>2, <2>5, <2>9, <2>10, <3>1
      <4>2. WriterRows(w)'
        BY <1>0, <2>10, <4>1 DEF WriterRows, HasWritten, k
      <4>3. QED
        BY <1>0, <4>1, <4>2 DEF Mine, Recorded
    <3>2. x.committed
      BY <2>2, <2>10
    <3>3. Promise!Write(w)
      <4>1. Became(v, rows[r], w) /\ v \in Version
        BY <2>3
      <4>2. rows' = [rows EXCEPT ![r] = v] /\ req' = [req EXCEPT ![w] = x] /\ x \in Request
        BY <2>1, <2>2, <2>5, <2>10
      <4>3. ~req[w].committed
        BY <1>0
      <4>4. QED
        BY <3>2, <4>1, <4>2, <4>3, PromisedWrite
    <3>4. QED
      BY <1>0, <2>1, <2>2, <2>4, <2>7, <2>8, <3>1, <3>3, RowsLemma DEF Kept, Promise!Next
  <2>11. CASE ~k
    <3>1. x.committed = req[w].committed
      BY <1>0, <2>2, <2>11, <2>1 DEF Request
    <3>2. \A s \in Rows : owner'[s] = w <=> s = r
      BY <1>0, <2>5, <2>9, <2>11 DEF RowsInv
    <3>3. ASSUME req'[w] = x PROVE Mine(w)'
      <4>1. Written(w, r)'
        BY <1>2, <2>3, <2>5, <2>6, <2>11 DEF Written, Became
      <4>2. WriterRows(w)'
        BY <3>2, <4>1 DEF WriterRows, HasWritten
      <4>3. Recorded(w)'
        BY <1>0, <2>5, <2>11 DEF Recorded
      <4>4. QED
        BY <1>0, <4>2, <4>3 DEF Mine
    <3>4. QED
      BY <1>0, <2>1, <2>2, <2>4, <2>5, <2>7, <2>8, <2>11, <3>1, <3>3, RowsLemma, StutterLemma
  <2>12. QED
    BY <2>10, <2>11
<1>3. QED
  BY <1>1, <1>2 DEF Write

\* What the call returned is transformed.
LEMMA TransformRows ==
    ASSUME IInv, RInv, NEW w \in Writers, Transform(w)
    PROVE  RInv' /\ Kept
<1> DEFINE c == req[w].committed
           t == req[w].tx
           T == {200, 400}
<1>0. /\ req[w] \in Request /\ req[w].pc = "transform" /\ UNCHANGED config /\ Unlocked /\ Typed /\ w \in Actors
      /\ WriterRows(w)
  BY DEF IInv, Typed, Transform, At, Actors, RInv, Mine
<1>1. T \subseteq Statuses
  BY DEF Statuses
<1>2. PICK s \in T : req' = [req EXCEPT ![w] = Answered(w, s, @.committed, @.tx)]
  BY DEF Transform
<1> HIDE DEF T
<1> DEFINE x == Answered(w, s, c, t)
<1>3. req' = [req EXCEPT ![w] = x] /\ c \in BOOLEAN /\ t \in BOOLEAN /\ s \in Statuses
  BY <1>0, <1>1, <1>2 DEF IInv, Typed, Request
<1> HIDE DEF c, t
<1>4. x \in Request /\ x.pc = "release" /\ x.committed = c
  BY <1>0, <1>3, AnsweredLemma
<1> HIDE DEF x
<1>5. req'[w] = x => (w \in Writers => HasWritten(w)')
  BY <1>0 DEF WriterRows, HasWritten, At, Unlocked
<1>6. x.committed = req[w].committed
  BY <1>4 DEF c
<1>7. QED
  BY <1>0, <1>3, <1>4, <1>5, <1>6, AnswerRows

\* The transaction ends: what was answered as done is committed, the rest is not.
LEMMA ReleaseRows ==
    ASSUME IInv, RInv, NEW q \in Actors, Release(q)
    PROVE  RInv' /\ Kept
<1>0. /\ req[q] \in Request /\ Typed /\ UNCHANGED config /\ Truth(q) /\ Stage(q) /\ Mine(q) /\ req[q].pc = "release"
  BY DEF IInv, Typed, Release, RInv, At
<1>1. CASE Commits(q) /\ Publish(q) /\ req' = [req EXCEPT ![q] = Over(q, TRUE)]
  <2> DEFINE c == TRUE
             x == Over(q, c)
  <2>1. c \in BOOLEAN
    OBVIOUS
  <2>2. c /\ req' = [req EXCEPT ![q] = x]
    BY <1>1
  <2> HIDE DEF c
  <2>3. x \in Request /\ x.pc = "done" /\ x.committed = c
    BY <1>0, <2>1, OverLemma
  <2> HIDE DEF x
  <2>4. ~req[q].committed /\ config.mode # "none" /\ x.committed
    BY <1>0, <1>1, <2>2, <2>3 DEF Truth, At, Commits
  <2>5. ASSUME q \notin Clients PROVE \E r \in Rows : owner[r] = q
    <3>1. req[q].status \in Statuses \ {0} /\ req[q].status < 400
      BY <1>0, <1>1 DEF Stage, Request, Commits, At
    <3>2. req[q].status = 200
      BY <3>1 DEF Statuses
    <3>3. QED
      BY <1>0, <2>4, <2>5, <3>2 DEF Actors, Mine, WriterRows, HasWritten, At
  <2>6. q \in Clients \/ (x.pc = "done" /\ \E r \in Rows : owner[r] = q)
    BY <2>3, <2>5
  <2>7. QED
    BY <1>0, <1>1, <2>2, <2>3, <2>4, <2>6, PublishRows
<1>2. CASE Abort(q) /\ req' = [req EXCEPT ![q] = Over(q, @.committed)]
  <2> DEFINE c == req[q].committed
             x == Over(q, c)
  <2>1. c \in BOOLEAN /\ req' = [req EXCEPT ![q] = x]
    BY <1>0, <1>2 DEF Request, Typed
  <2> HIDE DEF c
  <2>3. x \in Request /\ x.pc = "done" /\ x.committed = c
    BY <1>0, <2>1, OverLemma
  <2> HIDE DEF x
  <2>4. req'[q] = x => (q \in Writers => HasWritten(q)')
    BY <2>3 DEF HasWritten, At
  <2>5. x.committed = req[q].committed
    BY <2>3 DEF c
  <2>6. QED
    BY <1>0, <1>2, <2>1, <2>3, <2>4, <2>5, AnswerRows
<1>3. QED
  BY <1>1, <1>2 DEF Release, Closed

-----------------------------------------------------------------------------
(* The invariant, and what follows.                                        *)

\* At startup every row has its place, and nothing is promised yet.
LEMMA InitRInv == OneTable /\ Init => RInv /\ Promise!Init
<1> SUFFICES ASSUME OneTable, Init PROVE RInv /\ Promise!Init
  OBVIOUS
<1>1. PICK born \in SUBSET Rows, opened \in SUBSET Rows :
        rows = [r \in Rows |-> [live |-> r \in born, open |-> r \in opened, history |-> {}, ctid |-> FirstPlace[r]]]
  BY DEF Init
<1>2. IInv /\ Typed /\ draft = rows /\ (\A r \in Rows : owner[r] = NoOne) /\ req = [q \in Actors |-> Fresh(q)]
  BY InitIInv DEF Init, IInv
<1>3. \A r \in Rows : rows[r].ctid = FirstPlace[r] /\ rows[r].history = {}
  BY <1>1
<1>4. Apart
  <2>1. \A r, s \in Rows : r # s => FirstPlace[r] # FirstPlace[s]
    BY FirstPlaceLemma DEF OneTable
  <2>2. \A r \in Rows : Places(r) = {FirstPlace[r]}
    BY <1>2, <1>3 DEF Places
  <2>3. QED
    BY <2>1, <2>2 DEF Apart
<1>5. ASSUME NEW q \in Actors PROVE Mine(q)
  <2>1. req[q] = Fresh(q) /\ (\A r \in Rows : owner[r] # q) /\ (q \in Clients \/ q \in Writers)
    BY <1>2, UpdatesAssumption DEF Actors
  <2>2. req[q].pc \in {"handle", "write"}
    BY <1>2, <2>1, FreshLemma
  <2>3. ClientRows(q) /\ WriterRows(q) /\ Recorded(q)
    BY <1>3, <2>1, <2>2 DEF ClientRows, WriterRows, HasWritten, Recorded, At
  <2>4. QED
    BY <2>3 DEF Mine
<1>6. Promise!Init
  <2>1. {q \in Actors : req[q].committed} = {}
    BY <1>2, FreshLemma
  <2>2. \A r \in Rows : Committed[r] \in {v \in Promise!Row : v.history = {}}
    <3> SUFFICES ASSUME NEW r \in Rows PROVE Committed[r] \in {v \in Promise!Row : v.history = {}}
      OBVIOUS
    <3>1. /\ Committed[r] = [live |-> rows[r].live, open |-> rows[r].open, history |-> rows[r].history]
          /\ rows[r] \in Version
      BY <1>2 DEF Committed, Typed
    <3>2. rows[r].live \in BOOLEAN /\ rows[r].open \in BOOLEAN /\ rows[r].history = {}
      BY <1>3, <3>1 DEF Version
    <3>3. QED
      BY <1>3, <3>1, <3>2 DEF Promise!Row
  <2>3. Committed \in [Rows -> {v \in Promise!Row : v.history = {}}]
    BY <2>2 DEF Committed
  <2>4. QED
    BY <2>1, <2>3 DEF Promise!Init
<1>7. QED
  BY <1>4, <1>5, <1>6 DEF RInv

\* Nothing happens.
LEMMA StutterRows ==
    ASSUME IInv, RInv, UNCHANGED vars
    PROVE  RInv' /\ Kept
<1>1. UNCHANGED <<config, rows, draft, owner, req>>
  BY DEF vars
<1>2. Apart'
  BY <1>1 DEF RInv, Apart, Places
<1>3. ASSUME NEW q \in Actors PROVE Mine(q)'
  <2>1. Mine(q)
    BY DEF RInv
  <2>2. (q \in Clients => ClientRows(q)') /\ (q \in Writers => WriterRows(q)')
    BY <1>1, SameStage
  <2>3. Recorded(q)'
    BY <1>1, <2>1 DEF Mine, Recorded
  <2>4. QED
    BY <2>2, <2>3 DEF Mine
<1>4. Kept
  BY <1>1 DEF Kept, Promise!vars, Committed
<1>5. QED
  BY <1>2, <1>3, <1>4 DEF RInv

\* Every step keeps the invariant, and is one that was promised or none.
LEMMA NextRInv == OneTable /\ IInv /\ RInv /\ [Next]_vars => RInv' /\ Kept
<1> SUFFICES ASSUME OneTable, IInv, RInv, [Next]_vars PROVE RInv' /\ Kept
  OBVIOUS
<1>1. ASSUME NEW q \in Actors, Lookup(q) \/ Compile(q) \/ Release(q) \/ Cancel(q)
      PROVE  RInv' /\ Kept
  BY <1>1, LookupRows, CompileRows, ReleaseRows, CancelRows
<1>2. ASSUME NEW q \in Clients, Broken(q)
      PROVE  RInv' /\ Kept
  BY <1>2, FailRows DEF Broken, Actors
<1>3. ASSUME NEW q \in Clients, Handle(q) \/ Begin(q) \/ Select(q) \/ Lock(q) \/ Selected(q) \/ Eval(q) \/ Update(q) \/ Commit(q)
      PROVE  RInv' /\ Kept
  BY <1>3, HandleRows, BeginRows, SelectRows, LockRowsMine, SelectedRows, EvalRows,
     UpdateRowsMine, CommitRows
<1>4. ASSUME NEW w \in Writers, Write(w) \/ Transform(w)
      PROVE  RInv' /\ Kept
  BY <1>4, WriteRowsMine, TransformRows
<1>5. CASE UNCHANGED vars
  BY <1>5, StutterRows
<1>6. QED
  BY <1>1, <1>2, <1>3, <1>4, <1>5 DEF Next, Step

\* Of a table that is one partition, what an update has read is what is there,
\* and every version of a row has a place of its own.
THEOREM RowsInvariance == OneTable => (Spec => []RInv)
<1> SUFFICES ASSUME OneTable PROVE Spec => []RInv
  OBVIOUS
<1>1. Init => RInv
  BY InitRInv
<1>2. IInv /\ RInv /\ [Next]_vars => RInv'
  BY NextRInv
<1>3. QED
  BY <1>1, <1>2, Invariance, PTL DEF Spec

\* An update changes only rows that it has locked, which are as many as are
\* allowed, and none is missing that matched in its snapshot and is still what
\* it was, whatever others update, insert and delete (jqSelectRows, the UPDATE
\* by ctid).
THEOREM OnlyMatchedCorrect == OneTable => (Spec => []OnlyMatched)
<1> SUFFICES ASSUME OneTable PROVE Spec => []OnlyMatched
  OBVIOUS
<1>1. IInv /\ RInv => OnlyMatched
  <2> SUFFICES ASSUME IInv, RInv, NEW q \in Clients, At(q, "eval")
               PROVE  /\ {r \in Rows : q \in draft[r].history} \subseteq Got(q)
                      /\ Stayed(q) \subseteq Got(q)
                      /\ Len(req[q].got) <= config.maxRows
    BY DEF OnlyMatched
  <2>0. /\ q \in Actors /\ Stage(q) /\ Truth(q) /\ ClientRows(q) /\ Recorded(q) /\ RowsInv
        /\ req[q].got \in Seq(LockedRow) /\ req[q].pc = "eval"
    BY DEF IInv, RInv, Mine, Actors, Typed, Request, RowsInv, At
  <2>1. DOMAIN req[q].got = 1..Len(req[q].got)
    BY <2>0, LenProperties
  <2>2. \A r \in Rows : HasGot(q, r) => r \in Got(q)
    BY <2>1 DEF HasGot, Got
  <2>3. Len(req[q].got) <= config.maxRows
    BY <2>0 DEF Stage
  <2>4. \A r \in Rows : r \in Stayed(q) => HasGot(q, r)
    BY <2>0 DEF ClientRows
  <2>5. ASSUME NEW r \in Rows, q \in draft[r].history PROVE HasGot(q, r)
    <3>1. q \notin rows[r].history
      BY <2>0 DEF Recorded, Truth
    <3>2. owner[r] \in Actors
      BY <2>0, <2>5, <3>1 DEF RowsInv, Free
    <3>3. draft[r].history \subseteq rows[r].history \cup {owner[r]}
      BY <3>2, DraftLemma
    <3>4. owner[r] = q /\ draft[r] # rows[r]
      BY <2>5, <3>1, <3>3
    <3>5. QED
      BY <2>0, <3>4 DEF ClientRows
  <2>7. Stayed(q) \subseteq Rows
    BY DEF Stayed
  <2>6. QED
    BY <2>2, <2>3, <2>4, <2>5, <2>7
<1>2. QED
  BY <1>1, Invariance, RowsInvariance, PTL

\* An update happens all at once or not at all, at most once, and of rows that
\* match at that moment; no change of another is lost (UpdateRecordsWithJQ).
THEOREM AllOrNoneCorrect == OneTable => (Spec => AllOrNone)
<1> SUFFICES ASSUME OneTable PROVE Spec => AllOrNone
  OBVIOUS
<1>1. Init => Promise!Init
  BY InitRInv
<1>2. IInv /\ RInv /\ [Next]_vars => [Promise!Next]_(Promise!vars)
  BY NextRInv DEF Kept
<1>3. QED
  BY <1>1, <1>2, Invariance, RowsInvariance, PTL DEF Spec, AllOrNone, Promise!Spec
=============================================================================
