------------------------- MODULE SessionList_proofs -------------------------
(***************************************************************************)
(* The linked list of a slot is consistent, and behaves as the sequence of *)
(* SessionQueue, for every finite set of sessions.  Queue is defined by a  *)
(* recursive walk: that the walk meets the sequence that the pointers      *)
(* stand for is proved by the least number at which it would not.          *)
(***************************************************************************)
EXTENDS SessionList, SessionOrder_proofs, FiniteSetTheorems, WellFoundedInduction

-----------------------------------------------------------------------------
(* The walk.                                                               *)

\* A set of numbers that is not empty has a least one.
LEMMA LeastNumber ==
    ASSUME NEW T \in SUBSET Nat, T # {}
    PROVE  \E m \in T : \A k \in T : m <= k
<1>1. PICK m \in T : \A k \in T : ~ (<<k, m>> \in OpToRel(<, Nat))
  BY NatLessThanWellFounded, WFMin
<1>2. \A k \in T : ~ (k < m)
  BY <1>1 DEF OpToRel
<1>3. QED
  BY <1>2

\* f is the walk from h along nx.
Following(f, h, nx) ==
    [n \in 1 .. Cardinality(Sessions) |-> IF n = 1 THEN h
                                          ELSE IF f[n - 1] = Nil THEN Nil ELSE nx[f[n - 1]]]

\* The pointers h and nx stand for the sequence q.
Chain(q, h, nx) ==
    /\ q = <<>> => h = Nil
    /\ q # <<>> => h = q[1] /\ nx[q[Len(q)]] = Nil
    /\ \A i \in 1 .. (Len(q) - 1) : nx[q[i]] = q[i + 1]

\* What a walk meets: the sequence, then nil.
Met(q) == [n \in 1 .. Cardinality(Sessions) |-> IF n <= Len(q) THEN q[n] ELSE Nil]

\* A list holds no more sessions than there are.
LEMMA LengthLemma ==
    ASSUME NEW q \in Seq(Sessions), Injective(q)
    PROVE  /\ Cardinality(Sessions) \in Nat
           /\ Len(q) \in 0 .. Cardinality(Sessions)
           /\ Cardinality(1 .. Len(q)) = Len(q)
<1>1. IsFiniteSet(Sessions) /\ Cardinality(Sessions) \in Nat
  BY FiniteAssumption, FS_CardinalityType
<1>2. /\ IsFiniteSet(1 .. Len(q))
      /\ Cardinality(1 .. Len(q)) = Len(q)
  <2>1. 1 \in Int /\ Len(q) \in Int /\ Len(q) >= 0
    OBVIOUS
  <2>2. /\ IsFiniteSet(1 .. Len(q))
        /\ Cardinality(1 .. Len(q)) = IF 1 > Len(q) THEN 0 ELSE Len(q) - 1 + 1
    BY <2>1, FS_Interval
  <2>3. QED
    BY <2>1, <2>2
<1>3. q \in Injection(1 .. Len(q), Sessions)
  BY DEF Injection, Injective, IsInjective
<1>4. Cardinality(1 .. Len(q)) <= Cardinality(Sessions)
  BY <1>1, <1>2, <1>3, FS_Injection
<1>5. QED
  BY <1>1, <1>2, <1>4

\* What a walk meets is a walk.
LEMMA MetFollows ==
    ASSUME NEW q \in Seq(Sessions), Injective(q), NEW h, NEW nx, Chain(q, h, nx)
    PROVE  Met(q) = Following(Met(q), h, nx)
<1> DEFINE N == Cardinality(Sessions)
<1>1. N \in Nat /\ Len(q) \in 0 .. N
  BY LengthLemma
<1>2. \A i \in 1 .. Len(q) : q[i] \in Sessions /\ q[i] # Nil
  BY NilAssumption
<1>3. ASSUME NEW n \in 1 .. N
      PROVE  Met(q)[n] = (IF n = 1 THEN h ELSE IF Met(q)[n - 1] = Nil THEN Nil ELSE nx[Met(q)[n - 1]])
  <2>1. CASE n = 1
    BY <1>1, <2>1 DEF Met, Chain
  <2>2. CASE n # 1
    <3>1. n - 1 \in 1 .. N
      BY <1>1, <2>2
    <3>2. Met(q)[n - 1] = (IF n - 1 <= Len(q) THEN q[n - 1] ELSE Nil) /\ Met(q)[n] = (IF n <= Len(q) THEN q[n] ELSE Nil)
      BY <3>1 DEF Met
    <3>3. CASE n <= Len(q)
      BY <1>1, <1>2, <2>2, <3>1, <3>2, <3>3 DEF Chain
    <3>4. CASE n = Len(q) + 1
      BY <1>1, <1>2, <2>2, <3>1, <3>2, <3>4 DEF Chain
    <3>5. CASE n > Len(q) + 1
      BY <1>1, <2>2, <3>1, <3>2, <3>5
    <3>6. QED
      BY <1>1, <3>3, <3>4, <3>5
  <2>3. QED
    BY <2>1, <2>2
<1>4. QED
  BY <1>3 DEF Following, Met

\* Every walk meets the same: at the least number where it would not, it does.
LEMMA FollowsMet ==
    ASSUME NEW q \in Seq(Sessions), Injective(q), NEW h, NEW nx, Chain(q, h, nx),
           NEW f, f = Following(f, h, nx)
    PROVE  f = Met(q)
<1> DEFINE N == Cardinality(Sessions)
           T == {n \in 1 .. N : f[n] # Met(q)[n]}
<1>1. Met(q) = Following(Met(q), h, nx)
  BY MetFollows
<1>2. N \in Nat
  BY LengthLemma
<1>3. ASSUME T # {} PROVE FALSE
  <2>1. T \in SUBSET Nat
    BY <1>2
  <2>2. PICK m \in T : \A k \in T : m <= k
    BY <1>3, <2>1, LeastNumber
  <2>3. m \in 1 .. N /\ f[m] # Met(q)[m]
    OBVIOUS
  <2>4. /\ f[m] = (IF m = 1 THEN h ELSE IF f[m - 1] = Nil THEN Nil ELSE nx[f[m - 1]])
        /\ Met(q)[m] = (IF m = 1 THEN h ELSE IF Met(q)[m - 1] = Nil THEN Nil ELSE nx[Met(q)[m - 1]])
    BY <1>1, <2>3 DEF Following
  <2>5. m # 1
    BY <2>3, <2>4
  <2>6. m - 1 \in 1 .. N /\ m - 1 < m
    BY <1>2, <2>3, <2>5
  <2>7. f[m - 1] = Met(q)[m - 1]
    BY <1>2, <2>2, <2>6
  <2>8. QED
    BY <2>3, <2>4, <2>7
<1>4. \A n \in 1 .. N : f[n] = Met(q)[n]
  BY <1>3
<1>5. QED
  BY <1>4 DEF Following, Met

\* The sequence of what a walk w meets before nil.
Shown(w) == LET length == Cardinality({n \in DOMAIN w : w[n] # Nil})
            IN  [n \in 1 .. length |-> w[n]]

\* It is the sequence that the pointers stand for.
LEMMA ShownLemma ==
    ASSUME NEW q \in Seq(Sessions), Injective(q)
    PROVE  Shown(Met(q)) = q
<1> DEFINE N == Cardinality(Sessions)
           D == {n \in DOMAIN Met(q) : Met(q)[n] # Nil}
<1>1. N \in Nat /\ Len(q) \in 0 .. N
  BY LengthLemma
<1>2. \A i \in 1 .. Len(q) : q[i] \in Sessions /\ q[i] # Nil
  BY NilAssumption
<1>3. DOMAIN Met(q) = 1 .. N
  BY DEF Met
<1>4. \A n \in 1 .. N : n \in D <=> n <= Len(q)
  BY <1>2, <1>3 DEF Met
<1>5. D = 1 .. Len(q)
  BY <1>1, <1>3, <1>4
<1>6. Cardinality(D) = Len(q)
  BY <1>5, LengthLemma
<1>7. Shown(Met(q)) = [n \in 1 .. Len(q) |-> Met(q)[n]]
  BY <1>6 DEF Shown
<1>8. \A n \in 1 .. Len(q) : Met(q)[n] = q[n]
  BY <1>1 DEF Met
<1>9. QED
  BY <1>7, <1>8

\* Queue is the sequence that head and next stand for, in this state and in the next.
LEMMA QueueLemma ==
    ASSUME NEW q \in Seq(Sessions), Injective(q), Chain(q, head, next)
    PROVE  Queue = q
<1>1. Met(q) = Following(Met(q), head, next)
  BY MetFollows
<1>2. Walk = Following(Walk, head, next)
  BY <1>1 DEF Walk, Following
<1>3. Walk = Met(q)
  BY <1>2, FollowsMet
<1>4. Queue = Shown(Walk)
  BY DEF Queue, Shown
<1>5. QED
  BY <1>3, <1>4, ShownLemma

\* The same of the next state.
LEMMA QueueLemmaNext ==
    ASSUME NEW q \in Seq(Sessions), Injective(q), Chain(q, head', next')
    PROVE  Queue' = q
<1>1. Met(q) = Following(Met(q), head', next')
  BY MetFollows
<1>2. Walk' = Following(Walk', head', next')
  BY <1>1 DEF Walk, Following
<1>3. Walk' = Met(q)
  BY <1>2, FollowsMet
<1>4. Queue' = Shown(Walk')
  BY DEF Queue, Shown
<1>5. QED
  BY <1>3, <1>4, ShownLemma

-----------------------------------------------------------------------------
(* The operations keep the links.                                          *)

\* The pointers stand for q, tail and prev included; a session in use is in it.
Linked(q) ==
    /\ q \in Seq(Sessions) /\ Injective(q)
    /\ Chain(q, head, next)
    /\ q # <<>> => tail = q[Len(q)]
    /\ \A i \in 2 .. Len(q) : prev[q[i]] = q[i - 1]
    /\ inUse \subseteq Members(q)

\* The inductive invariant: the pointers stand for the sequence that the walk meets.
LInv == TypeOK /\ Linked(Queue)

\* A step after which the pointers stand for r keeps the invariant, and the queue is r.
LEMMA LinkedNext ==
    ASSUME NEW r, Linked(r)', TypeOK'
    PROVE  LInv' /\ Queue' = r
<1>1. r \in Seq(Sessions) /\ Injective(r) /\ Chain(r, head', next')
  BY DEF Linked, Chain
<1>2. Queue' = r
  BY <1>1, QueueLemmaNext
<1>3. Linked(Queue)'
  BY <1>2 DEF Linked, Chain
<1>4. QED
  BY <1>2, <1>3 DEF LInv

\* What to show of the pointers that a step leaves.
LEMMA Relinked ==
    ASSUME NEW f \in Seq(Sessions), f # <<>>, Injective(f), inUse' \subseteq Members(f),
           head' = f[1], tail' = f[Len(f)], next'[f[Len(f)]] = Nil,
           \A i \in 1 .. (Len(f) - 1) : next'[f[i]] = f[i + 1],
           \A i \in 2 .. Len(f) : prev'[f[i]] = f[i - 1]
    PROVE  Linked(f)'
<1>1. Chain(f, head', next')
  BY DEF Chain
<1>2. QED
  BY <1>1 DEF Linked, Chain

\* getSession, the head is free: the list behaves as FrontToBack.
LEMMA ReuseLinked ==
    ASSUME TypeOK, NEW q, Linked(q), Reuse
    PROVE  Linked(FrontToBack(q))' /\ TypeOK' /\ q # <<>> /\ head = q[1]
<1> DEFINE n == Len(q)
           f == FrontToBack(q)
<1>1. /\ q \in Seq(Sessions) /\ n \in Nat /\ q # <<>> /\ n >= 1
      /\ \A i \in 1 .. n : q[i] \in Sessions
      /\ \A i, j \in 1 .. n : q[i] = q[j] => i = j
      /\ head = q[1] /\ tail = q[n] /\ next[q[n]] = Nil
      /\ \A i \in 1 .. (n - 1) : next[q[i]] = q[i + 1]
      /\ \A i \in 2 .. n : prev[q[i]] = q[i - 1]
      /\ inUse' = inUse \cup {q[1]}
  BY DEF Linked, Chain, Injective, Reuse
<1>2. /\ f \in Seq(Sessions) /\ Members(f) = Members(q) /\ Injective(f) /\ Len(f) = n
      /\ DOMAIN f = 1 .. n
      /\ \A i \in 1 .. n : f[i] = IF i = n THEN q[1] ELSE q[i + 1]
  <2>1. f \in Seq(Sessions) /\ Members(f) = Members(q) /\ Injective(f)
    BY <1>1, FrontToBackLemma DEF Linked
  <2>2. f = [i \in 1 .. n |-> IF i = n THEN q[1] ELSE q[i + 1]]
    BY DEF FrontToBack
  <2> HIDE DEF f
  <2>3. QED
    BY <1>1, <2>1, <2>2
<1> HIDE DEF f
<1>3. inUse' \subseteq Members(f)
  <2>1. 1 \in DOMAIN q /\ q[1] \in Members(q)
    BY <1>1 DEF Members
  <2>2. QED
    BY <1>1, <1>2, <2>1 DEF Linked
<1> HIDE DEF n
<1>4. CASE n = 1
  <2>1. UNCHANGED links
    BY <1>1, <1>4 DEF Reuse, MoveFrontToBack
  <2>2. f = q
    <3>1. f[1] = q[1] /\ Len(f) = 1 /\ Len(q) = 1
      BY <1>1, <1>2, <1>4 DEF n
    <3>2. QED
      BY <1>1, <1>2, <3>1
  <2>3. Linked(q)' /\ TypeOK'
    BY <1>1, <1>3, <2>1, <2>2 DEF Linked, Chain, links, TypeOK
  <2>4. QED
    BY <1>1, <2>2, <2>3 DEF f
<1>5. CASE n # 1
  <2>0. n >= 2 /\ 1 \in 1 .. n /\ n \in 1 .. n /\ 1 \in 1 .. (n - 1)
    BY <1>1, <1>5
  <2>1. n >= 2 /\ q[1] # q[n] /\ q[1] \in Sessions /\ q[n] \in Sessions /\ head # Nil /\ next[q[1]] = q[2]
    BY <1>1, <2>0, NilAssumption
  <2>2. /\ next' = [next EXCEPT ![q[n]] = q[1], ![q[1]] = Nil]
        /\ prev' = [prev EXCEPT ![q[1]] = q[n]]
        /\ head' = q[2]
        /\ tail' = q[1]
    BY <1>1, <2>1 DEF Reuse, MoveFrontToBack, Rotated
  <2>3. TypeOK'
    BY <1>1, <2>1, <2>2 DEF TypeOK
  <2>4. /\ next'[q[1]] = Nil /\ next'[q[n]] = q[1]
        /\ \A i \in 2 .. (n - 1) : next'[q[i]] = q[i + 1]
        /\ prev'[q[1]] = q[n]
        /\ \A i \in 2 .. n : prev'[q[i]] = q[i - 1]
    BY <1>1, <2>1, <2>2 DEF TypeOK
  <2>5. f[1] = q[2] /\ f[n] = q[1] /\ \A i \in 1 .. (n - 1) : f[i] = q[i + 1]
    BY <1>2, <2>0
  <2>6. head' = f[1] /\ tail' = f[n] /\ next'[f[n]] = Nil
    BY <2>2, <2>4, <2>5
  <2>7. ASSUME NEW i \in 1 .. (n - 1) PROVE next'[f[i]] = f[i + 1]
    <3>1. CASE i = n - 1
      BY <1>1, <2>0, <2>4, <2>5, <3>1
    <3>2. CASE i # n - 1
      <4>1. i + 1 \in 1 .. (n - 1) /\ i + 1 \in 2 .. (n - 1)
        BY <1>1, <3>2
      <4>2. f[i + 1] = q[i + 2] /\ f[i] = q[i + 1] /\ next'[q[i + 1]] = q[i + 2]
        BY <1>1, <2>4, <2>5, <4>1
      <4>3. QED
        BY <4>2
    <3>3. QED
      BY <3>1, <3>2
  <2>8. ASSUME NEW i \in 2 .. n PROVE prev'[f[i]] = f[i - 1]
    <3>1. i - 1 \in 1 .. (n - 1) /\ f[i - 1] = q[i]
      BY <1>1, <2>5
    <3>2. CASE i = n
      BY <2>4, <2>5, <3>1, <3>2
    <3>3. CASE i # n
      <4>1. i \in 1 .. (n - 1) /\ i + 1 \in 2 .. n
        BY <1>1, <3>3
      <4>2. f[i] = q[i + 1] /\ prev'[q[i + 1]] = q[i]
        BY <1>1, <2>4, <2>5, <4>1
      <4>3. QED
        BY <3>1, <4>2
    <3>4. QED
      BY <3>2, <3>3
  <2>9. f \in Seq(Sessions) /\ f # <<>> /\ Injective(f) /\ Len(f) = n
    BY <1>1, <1>2
  <2>10. Linked(f)'
    BY <1>3, <2>6, <2>7, <2>8, <2>9, Relinked
  <2>11. QED
    BY <1>1, <2>3, <2>10 DEF f
<1>6. QED
  BY <1>1, <1>4, <1>5

\* newSession: the list behaves as Append.
LEMMA CreateLinked ==
    ASSUME TypeOK, NEW q, Linked(q), NEW s \in Sessions \ Members(q), inUse' = inUse \cup {s}, AppendSession(s)
    PROVE  Linked(Append(q, s))' /\ TypeOK'
<1> DEFINE n == Len(q)
           f == Append(q, s)
<1>1. /\ q \in Seq(Sessions) /\ n \in Nat
      /\ \A i \in 1 .. n : q[i] \in Sessions /\ q[i] # s
      /\ \A i, j \in 1 .. n : q[i] = q[j] => i = j
      /\ q # <<>> => n >= 1 /\ head = q[1] /\ tail = q[n] /\ next[q[n]] = Nil
      /\ q = <<>> => head = Nil
      /\ \A i \in 1 .. (n - 1) : next[q[i]] = q[i + 1]
      /\ \A i \in 2 .. n : prev[q[i]] = q[i - 1]
  BY DEF Linked, Chain, Injective, Members
<1>2. /\ f \in Seq(Sessions) /\ Members(f) = Members(q) \cup {s} /\ Injective(f) /\ Len(f) = n + 1
      /\ DOMAIN f = 1 .. (n + 1)
      /\ \A i \in 1 .. n : f[i] = q[i]
      /\ f[n + 1] = s
      /\ f # <<>>
  <2>1. f \in Seq(Sessions) /\ Members(f) = Members(q) \cup {s} /\ Injective(f)
    <3>1. q \in Seq(Sessions) /\ s \in Sessions /\ s \notin Members(q) /\ Injective(q)
      BY DEF Linked
    <3>2. /\ Append(q, s) \in Seq(Sessions)
          /\ Members(Append(q, s)) = Members(q) \cup {s}
          /\ Injective(q) /\ s \notin Members(q) => Injective(Append(q, s))
          /\ (FreePrefix(q, inUse) /\ (q # <<>> => q[1] \in inUse))
               => FreePrefix(Append(q, s), inUse \cup {s})
      <4>1. q \in Seq(Sessions) /\ s \in Sessions
        BY <3>1
      <4>2. QED
        BY <4>1, AppendLemma
    <3>3. QED
      BY <3>1, <3>2
  <2>2. Len(f) = n + 1 /\ \A i \in 1 .. (n + 1) : f[i] = IF i = n + 1 THEN s ELSE q[i]
    BY <1>1
  <2> HIDE DEF f
  <2>3. QED
    BY <1>1, <2>1, <2>2
<1> HIDE DEF f
<1>3. inUse' \subseteq Members(f)
  BY <1>2 DEF Linked
<1>3a. n + 1 \in Nat /\ n + 1 >= 1 /\ (q = <<>> => n = 0)
  BY <1>1
<1> HIDE DEF n
<1>4. CASE q = <<>>
  <2>1. /\ head' = s /\ tail' = s
        /\ next' = [next EXCEPT ![s] = Nil]
        /\ prev' = [prev EXCEPT ![s] = Nil]
    BY <1>1, <1>4 DEF AppendSession
  <2>2. TypeOK' /\ next'[s] = Nil
    BY <1>2, <1>3, <2>1 DEF TypeOK
  <2>3. f[1] = s /\ Len(f) = 1 /\ f \in Seq(Sessions) /\ f # <<>> /\ Injective(f)
    BY <1>2, <1>3a, <1>4
  <2>4. Linked(f)'
    BY <1>3, <2>1, <2>2, <2>3, Relinked
  <2>5. QED
    BY <2>2, <2>4 DEF f
<1>5. CASE q # <<>>
  <2>1. head # Nil /\ tail = q[n] /\ q[n] \in Sessions /\ n >= 1
    BY <1>1, <1>5, NilAssumption
  <2>2. /\ next' = [next EXCEPT ![q[n]] = s, ![s] = Nil]
        /\ prev' = [prev EXCEPT ![s] = q[n]]
        /\ tail' = s /\ head' = head
    BY <1>1, <1>5, <2>1 DEF AppendSession
  <2>3. /\ next'[s] = Nil /\ next'[q[n]] = s /\ prev'[s] = q[n]
        /\ \A i \in 1 .. (n - 1) : next'[q[i]] = q[i + 1]
        /\ \A i \in 2 .. n : prev'[q[i]] = q[i - 1]
    BY <1>1, <2>1, <2>2 DEF TypeOK
  <2>4. TypeOK'
    BY <1>2, <1>3, <2>1, <2>2 DEF TypeOK
  <2>5. head' = f[1] /\ tail' = f[n + 1] /\ next'[f[n + 1]] = Nil
    BY <1>1, <1>2, <1>5, <2>1, <2>2, <2>3
  <2>6. ASSUME NEW i \in 1 .. n PROVE next'[f[i]] = f[i + 1]
    <3>1. CASE i = n
      BY <1>1, <1>2, <2>1, <2>3, <3>1
    <3>2. CASE i # n
      <4>1. i \in 1 .. (n - 1) /\ i \in 1 .. n /\ i + 1 \in 1 .. n
        BY <1>1, <3>2
      <4>2. QED
        BY <1>2, <2>3, <4>1
    <3>3. QED
      BY <3>1, <3>2
  <2>7. ASSUME NEW i \in 2 .. (n + 1) PROVE prev'[f[i]] = f[i - 1]
    <3>1. i - 1 \in 1 .. n
      BY <1>1
    <3>2. CASE i = n + 1
      BY <1>1, <1>2, <2>1, <2>3, <3>1, <3>2
    <3>3. CASE i # n + 1
      <4>1. i \in 2 .. n /\ i \in 1 .. n
        BY <1>1, <3>3
      <4>2. QED
        BY <1>2, <2>3, <3>1, <4>1
    <3>4. QED
      BY <3>2, <3>3
  <2>8. f \in Seq(Sessions) /\ f # <<>> /\ Injective(f) /\ Len(f) = n + 1
    BY <1>2
  <2>8a. /\ \A i \in 1 .. (Len(f) - 1) : next'[f[i]] = f[i + 1]
         /\ \A i \in 2 .. Len(f) : prev'[f[i]] = f[i - 1]
         /\ tail' = f[Len(f)] /\ next'[f[Len(f)]] = Nil
    <3>1. Len(f) - 1 = n
      BY <1>1, <2>8
    <3>2. QED
      BY <2>5, <2>6, <2>7, <2>8, <3>1
  <2>9. Linked(f)'
    BY <1>3, <2>5, <2>8a, <2>8, Relinked
  <2>10. QED
    BY <2>4, <2>9 DEF f
<1>6. QED
  BY <1>4, <1>5

\* Where s stands in the sequence, and what the pointers around it are.
LEMMA PlaceLemma ==
    ASSUME TypeOK, NEW q, Linked(q), NEW s \in Members(q)
    PROVE  \E p \in 1 .. Len(q) :
              /\ q[p] = s /\ p = (CHOOSE i \in DOMAIN q : q[i] = s)
              /\ s \in Sessions /\ s # Nil
              /\ s = head <=> p = 1
              /\ s = tail <=> p = Len(q)
              /\ p = Len(q) => next[s] = Nil
              /\ p < Len(q) => next[s] = q[p + 1]
              /\ p > 1 => prev[s] = q[p - 1]
<1> DEFINE p == CHOOSE i \in DOMAIN q : q[i] = s
<1>1. p \in 1 .. Len(q) /\ q[p] = s
  BY PositionLemma DEF Linked
<1> HIDE DEF p
<1>2. /\ q \in Seq(Sessions) /\ q # <<>> /\ Len(q) \in Nat
      /\ \A i, j \in 1 .. Len(q) : q[i] = q[j] => i = j
      /\ 1 \in 1 .. Len(q) /\ Len(q) \in 1 .. Len(q)
      /\ head = q[1] /\ tail = q[Len(q)] /\ next[q[Len(q)]] = Nil
      /\ \A i \in 1 .. (Len(q) - 1) : next[q[i]] = q[i + 1]
      /\ \A i \in 2 .. Len(q) : prev[q[i]] = q[i - 1]
  BY <1>1 DEF Linked, Chain, Injective
<1>3. s \in Sessions /\ s # Nil
  BY <1>1, <1>2, NilAssumption
<1>4. (s = head <=> p = 1) /\ (s = tail <=> p = Len(q))
  BY <1>1, <1>2
<1>5. p < Len(q) => next[s] = q[p + 1]
  <2>1. p < Len(q) => p \in 1 .. (Len(q) - 1)
    BY <1>1, <1>2
  <2>2. QED
    BY <1>1, <1>2, <2>1
<1>6. p > 1 => prev[s] = q[p - 1]
  <2>1. p > 1 => p \in 2 .. Len(q)
    BY <1>1, <1>2
  <2>2. QED
    BY <1>1, <1>2, <2>1
<1>7. p = (CHOOSE i \in DOMAIN q : q[i] = s)
  BY DEF p
<1>8. QED
  BY <1>1, <1>2, <1>3, <1>4, <1>5, <1>6, <1>7

\* The links of two sequences with the same pointers.
LEMMA AsBefore ==
    ASSUME TypeOK, NEW q, Linked(q), UNCHANGED links, inUse' \subseteq Members(q)
    PROVE  Linked(q)' /\ TypeOK'
<1>1. inUse' \subseteq Sessions
  BY DEF Linked, Members
<1>2. QED
  BY <1>1 DEF Linked, Chain, links, TypeOK

\* leaveSession: the list behaves as ToFront.
LEMMA LeaveLinked ==
    ASSUME TypeOK, NEW q, Linked(q), NEW s \in Sessions, Leave(s)
    PROVE  Linked(ToFront(q, s))' /\ TypeOK' /\ s \in Members(q)
<1> DEFINE n == Len(q)
           f == ToFront(q, s)
<1>0. s \in Members(q) /\ inUse' = inUse \ {s}
  BY DEF Leave, Linked
<1>1. PICK p \in 1 .. n :
        /\ q[p] = s /\ p = (CHOOSE i \in DOMAIN q : q[i] = s)
        /\ s # Nil
        /\ s = head <=> p = 1
        /\ s = tail <=> p = n
        /\ p = n => next[s] = Nil
        /\ p < n => next[s] = q[p + 1]
        /\ p > 1 => prev[s] = q[p - 1]
  BY <1>0, PlaceLemma
<1>2. /\ q \in Seq(Sessions) /\ q # <<>> /\ n \in Nat /\ n >= 1
      /\ \A i \in 1 .. n : q[i] \in Sessions
      /\ \A i, j \in 1 .. n : q[i] = q[j] => i = j
      /\ head = q[1] /\ tail = q[n] /\ next[q[n]] = Nil
      /\ \A i \in 1 .. (n - 1) : next[q[i]] = q[i + 1]
      /\ \A i \in 2 .. n : prev[q[i]] = q[i - 1]
  BY <1>1 DEF Linked, Chain, Injective
<1>3. /\ f \in Seq(Sessions) /\ Members(f) = Members(q) /\ Injective(f)
      /\ f = [i \in 1 .. n |-> IF i = 1 THEN s ELSE IF i <= p THEN q[i - 1] ELSE q[i]]
  <2>1. f \in Seq(Sessions) /\ Members(f) = Members(q) /\ Injective(f)
    BY <1>0, <1>2, ToFrontLemma DEF Linked
  <2>2. f = [i \in 1 .. n |-> IF i = 1 THEN s ELSE IF i <= p THEN q[i - 1] ELSE q[i]]
    BY <1>1 DEF ToFront
  <2>3. QED
    BY <2>1, <2>2
<1> HIDE DEF f
<1>4. /\ Len(f) = n /\ f # <<>> /\ f[1] = s
      /\ \A i \in 2 .. n : i <= p => f[i] = q[i - 1]
      /\ \A i \in 2 .. n : i > p => f[i] = q[i]
  BY <1>2, <1>3
<1>5. inUse' \subseteq Members(f)
  BY <1>0, <1>3 DEF Linked
<1>6. CASE p = 1
  <2>1. UNCHANGED links
    BY <1>1, <1>6 DEF Leave, MoveToFront
  <2>2. f = q
    <3>1. \A i \in 1 .. n : f[i] = q[i]
      <4>1. f[1] = q[1]
        BY <1>1, <1>4, <1>6
      <4>2. \A i \in 2 .. n : i > p
        BY <1>2, <1>6
      <4>3. \A i \in 2 .. n : f[i] = q[i]
        BY <1>4, <4>2
      <4>4. \A i \in 1 .. n : i = 1 \/ i \in 2 .. n
        BY <1>2
      <4>5. QED
        BY <4>1, <4>3, <4>4
    <3>2. QED
      BY <1>2, <1>3, <1>4, <3>1
  <2>3. Linked(q)' /\ TypeOK'
    BY <1>5, <2>1, <2>2, AsBefore
  <2>4. QED
    BY <1>0, <2>2, <2>3 DEF f
<1>7. CASE p # 1
  <2> DEFINE a == q[1]
             b == q[p - 1]
  <2>1. /\ n >= 2 /\ p > 1 /\ p - 1 \in 1 .. n /\ 1 \in 1 .. n
        /\ a \in Sessions /\ b \in Sessions /\ a # s /\ b # s
        /\ head = a /\ prev[s] = b /\ head # s
    BY <1>1, <1>2, <1>7
  <2> DEFINE unlinked == IF s = tail THEN prev ELSE [prev EXCEPT ![next[s]] = prev[s]]
  <2>2. /\ tail' = IF p = n THEN b ELSE tail
        /\ prev' = [unlinked EXCEPT ![s] = Nil, ![a] = s]
        /\ next' = [next EXCEPT ![b] = next[s], ![s] = a]
        /\ head' = s
    BY <1>1, <2>1 DEF Leave, MoveToFront, TailWithout
  <2>3. /\ unlinked \in [Sessions -> Sessions \cup {Nil}]
        /\ \A i \in 2 .. n : unlinked[q[i]] = IF i = p + 1 THEN b ELSE q[i - 1]
    <3>1. CASE p = n
      BY <1>1, <1>2, <3>1 DEF TypeOK
    <3>2. CASE p # n
      <4>1. p + 1 \in 1 .. n /\ p < n /\ next[s] = q[p + 1] /\ q[p + 1] \in Sessions
        BY <1>1, <1>2, <3>2
      <4>2. unlinked = [prev EXCEPT ![q[p + 1]] = b]
        BY <1>1, <2>1, <3>2, <4>1
      <4> HIDE DEF unlinked, b
      <4>3. QED
        BY <1>2, <2>1, <4>1, <4>2 DEF TypeOK
    <3>3. QED
      BY <3>1, <3>2
  <2> HIDE DEF unlinked
  <2>4. TypeOK'
    BY <1>0, <1>2, <2>1, <2>2, <2>3 DEF TypeOK
  <2>5. /\ prev'[a] = s
        /\ \A i \in 2 .. n : i # p => prev'[q[i]] = unlinked[q[i]]
    <3>1. prev'[a] = s
      BY <2>1, <2>2, <2>3
    <3>2. ASSUME NEW i \in 2 .. n, i # p PROVE prev'[q[i]] = unlinked[q[i]]
      <4>1. i \in 1 .. n /\ 1 \in 1 .. n /\ i # 1
        BY <1>2
      <4>2. q[i] # s /\ q[i] # a /\ q[i] \in Sessions
        BY <1>1, <1>2, <3>2, <4>1
      <4>3. QED
        BY <2>2, <2>3, <4>2
    <3>3. QED
      BY <3>1, <3>2
  <2>6. /\ next'[s] = a /\ next'[b] = next[s]
        /\ \A i \in 1 .. n : i # p /\ i # p - 1 => next'[q[i]] = next[q[i]]
    BY <1>1, <1>2, <2>1, <2>2 DEF TypeOK
  <2>7. f[2] = a /\ f[p] = b
    <3>1. 2 \in 2 .. n /\ 2 <= p /\ p \in 2 .. n /\ p <= p
      BY <1>1, <1>2, <2>1
    <3>2. f[2] = q[2 - 1] /\ f[p] = q[p - 1]
      BY <1>4, <3>1
    <3>3. QED
      BY <3>2
  <2>8. head' = f[1] /\ tail' = f[n] /\ next'[f[n]] = Nil
    <3>1. CASE p = n
      BY <1>1, <1>2, <1>4, <2>2, <2>6, <2>7, <3>1
    <3>2. CASE p # n
      <4>1. n \in 2 .. n /\ n \in 1 .. n /\ f[n] = q[n] /\ n # p - 1
        BY <1>1, <1>2, <1>4, <2>1, <3>2
      <4>2. QED
        BY <1>2, <1>4, <2>2, <2>6, <3>2, <4>1
    <3>3. QED
      BY <3>1, <3>2
  <2>9. ASSUME NEW i \in 1 .. (n - 1) PROVE next'[f[i]] = f[i + 1]
    <3>1. i \in 1 .. n /\ i + 1 \in 2 .. n /\ next[q[i]] = q[i + 1]
      BY <1>2
    <3>2. CASE i = 1
      BY <1>4, <2>6, <2>7, <3>2
    <3>3. CASE i # 1 /\ i < p
      <4>1. i \in 2 .. n /\ i - 1 \in 1 .. n /\ i - 1 \in 1 .. (n - 1) /\ i - 1 # p /\ i - 1 # p - 1 /\ i + 1 <= p
        BY <1>1, <1>2, <3>1, <3>3
      <4>2. f[i] = q[i - 1] /\ f[i + 1] = q[i + 1 - 1] /\ next'[q[i - 1]] = next[q[i - 1]] /\ next[q[i - 1]] = q[i - 1 + 1]
        BY <1>2, <1>4, <2>6, <3>1, <3>3, <4>1
      <4>3. i - 1 + 1 = i /\ i + 1 - 1 = i
        BY <3>1
      <4>4. QED
        BY <4>2, <4>3
    <3>4. CASE i # 1 /\ i = p
      <4>1. f[i] = b /\ f[i + 1] = q[i + 1] /\ p < n
        <5>1. p < n /\ i + 1 > p
          BY <1>1, <1>2, <3>4
        <5>2. f[i + 1] = q[i + 1]
          BY <1>4, <3>1, <5>1
        <5>3. QED
          BY <2>7, <3>4, <5>1, <5>2
      <4>2. QED
        BY <1>1, <2>6, <3>4, <4>1
    <3>5. CASE i # 1 /\ i > p
      <4>1. f[i] = q[i] /\ f[i + 1] = q[i + 1] /\ i # p /\ i # p - 1
        <5>1. i \in 2 .. n /\ i + 1 > p /\ i # p /\ i # p - 1
          BY <1>1, <1>2, <3>1, <3>5
        <5>2. QED
          BY <1>4, <3>1, <3>5, <5>1
      <4>2. QED
        BY <2>6, <3>1, <4>1
    <3>6. QED
      BY <1>1, <3>1, <3>2, <3>3, <3>4, <3>5
  <2>10. ASSUME NEW i \in 2 .. n PROVE prev'[f[i]] = f[i - 1]
    <3>1. CASE i = 2
      BY <1>4, <2>5, <2>7, <3>1
    <3>2. CASE i # 2 /\ i <= p
      <4>1. i - 1 \in 2 .. n /\ i - 1 # p /\ i - 1 # p + 1 /\ i - 1 <= p
        BY <1>1, <1>2, <3>2
      <4>2. f[i] = q[i - 1] /\ f[i - 1] = q[i - 1 - 1] /\ prev'[q[i - 1]] = q[i - 1 - 1]
        BY <1>4, <2>3, <2>5, <3>2, <4>1
      <4>3. QED
        BY <4>2
    <3>3. CASE i = p + 1
      <4>1. f[i] = q[i] /\ f[i - 1] = b /\ i # p
        <5>1. i > p /\ i # p /\ i - 1 = p
          BY <1>1, <1>2, <3>3
        <5>2. QED
          BY <1>4, <2>7, <5>1
      <4>2. QED
        BY <2>3, <2>5, <3>3, <4>1
    <3>4. CASE i # 2 /\ i > p + 1
      <4>1. i - 1 \in 2 .. n /\ i - 1 > p /\ i > p /\ i # p /\ i # p + 1
        BY <1>1, <1>2, <3>4
      <4>2. f[i] = q[i] /\ f[i - 1] = q[i - 1] /\ prev'[q[i]] = q[i - 1]
        BY <1>4, <2>3, <2>5, <4>1
      <4>3. QED
        BY <4>2
    <3>5. QED
      BY <1>1, <1>2, <2>1, <3>1, <3>2, <3>3, <3>4
  <2>11. Linked(f)'
    <3>1. /\ \A i \in 1 .. (Len(f) - 1) : next'[f[i]] = f[i + 1]
          /\ \A i \in 2 .. Len(f) : prev'[f[i]] = f[i - 1]
          /\ head' = f[1] /\ tail' = f[Len(f)] /\ next'[f[Len(f)]] = Nil
      BY <1>4, <2>8, <2>9, <2>10
    <3>2. QED
      BY <1>3, <1>4, <1>5, <3>1, Relinked
  <2>12. QED
    BY <1>0, <2>4, <2>11 DEF f
<1>8. QED
  BY <1>6, <1>7

\* The watcher's removal: the list behaves as Without.
LEMMA ExpireLinked ==
    ASSUME TypeOK, NEW q, Linked(q), NEW s \in Members(q) \ inUse, Remove(s), UNCHANGED inUse
    PROVE  Linked(Without(q, s))' /\ TypeOK'
<1> DEFINE n == Len(q)
           f == Without(q, s)
<1>1. PICK p \in 1 .. n :
        /\ q[p] = s /\ p = (CHOOSE i \in DOMAIN q : q[i] = s)
        /\ s \in Sessions /\ s # Nil
        /\ s = head <=> p = 1
        /\ s = tail <=> p = n
        /\ p = n => next[s] = Nil
        /\ p < n => next[s] = q[p + 1]
        /\ p > 1 => prev[s] = q[p - 1]
  BY PlaceLemma
<1>2. /\ q \in Seq(Sessions) /\ q # <<>> /\ n \in Nat /\ n >= 1
      /\ \A i \in 1 .. n : q[i] \in Sessions
      /\ \A i, j \in 1 .. n : q[i] = q[j] => i = j
      /\ head = q[1] /\ tail = q[n] /\ next[q[n]] = Nil
      /\ \A i \in 1 .. (n - 1) : next[q[i]] = q[i + 1]
      /\ \A i \in 2 .. n : prev[q[i]] = q[i - 1]
  BY <1>1 DEF Linked, Chain, Injective
<1>3. /\ f \in Seq(Sessions) /\ Members(f) = Members(q) \ {s} /\ Injective(f)
      /\ f = [i \in 1 .. (n - 1) |-> IF i < p THEN q[i] ELSE q[i + 1]]
  <2>1. f \in Seq(Sessions) /\ Members(f) = Members(q) \ {s} /\ Injective(f)
    BY <1>2, WithoutLemma DEF Linked
  <2>2. f = [i \in 1 .. (n - 1) |-> IF i < p THEN q[i] ELSE q[i + 1]]
    BY <1>1 DEF Without
  <2>3. QED
    BY <2>1, <2>2
<1> HIDE DEF f
<1>4. /\ Len(f) = n - 1 /\ (n # 1 => f # <<>>) /\ (n = 1 => f = <<>>)
      /\ \A i \in 1 .. (n - 1) : i < p => f[i] = q[i]
      /\ \A i \in 1 .. (n - 1) : i >= p => f[i] = q[i + 1]
  <2>1. Len(f) = n - 1 /\ DOMAIN f = 1 .. (n - 1)
    BY <1>2, <1>3
  <2>2. (n # 1 => f # <<>>) /\ (n = 1 => f = <<>>)
    BY <1>2, <1>3, <2>1
  <2>3. /\ \A i \in 1 .. (n - 1) : i < p => f[i] = q[i]
        /\ \A i \in 1 .. (n - 1) : i >= p => f[i] = q[i + 1]
    <3>1. \A i \in 1 .. (n - 1) : i >= p => ~(i < p)
      BY <1>1, <1>2
    <3>2. QED
      BY <1>3, <3>1
  <2>4. QED
    BY <2>1, <2>2, <2>3
<1>4a. n \in Nat /\ n >= 1 /\ p \in 1 .. n
  BY <1>2
<1> HIDE DEF n
<1>5. inUse' \subseteq Members(f)
  BY <1>3 DEF Linked
<1>6. TypeOK'
  <2>1. \A t \in Sessions : next[t] \in Sessions \cup {Nil} /\ prev[t] \in Sessions \cup {Nil}
    BY DEF TypeOK
  <2>2. head' \in Sessions \cup {Nil} /\ next' \in [Sessions -> Sessions \cup {Nil}]
    BY <1>1, <2>1 DEF Remove, TypeOK
  <2>3. tail' \in Sessions \cup {Nil} /\ prev' \in [Sessions -> Sessions \cup {Nil}]
    BY <1>1, <2>1 DEF Remove, TypeOK
  <2>4. QED
    BY <2>2, <2>3 DEF TypeOK
<1>7. CASE n = 1
  <2>1. p = 1 /\ head' = Nil
    BY <1>1, <1>7 DEF Remove
  <2>2. Chain(f, head', next')
    BY <1>4, <1>7, <2>1 DEF Chain
  <2>3. Linked(f)'
    BY <1>3, <1>4, <1>5, <1>7, <2>2 DEF Linked, Chain
  <2>4. QED
    BY <1>6, <2>3 DEF f
<1>8. CASE n # 1 /\ p = 1
  <2>1. 2 \in 1 .. n /\ 1 \in 1 .. (n - 1) /\ n - 1 \in 1 .. (n - 1) /\ p < n /\ n >= 2 /\ n \in 1 .. n
    <3>1. n >= 2
      BY <1>4a, <1>8
    <3>2. 2 \in 1 .. n /\ 1 \in 1 .. (n - 1) /\ n \in 1 .. n
      BY <1>4a, <3>1
    <3>3. n - 1 \in 1 .. (n - 1)
      BY <1>4a, <3>1
    <3>4. p < n
      BY <1>4a, <1>8, <3>1
    <3>5. QED
      BY <3>1, <3>2, <3>3, <3>4
  <2>2. /\ head' = q[2] /\ next' = next /\ tail' = tail
        /\ prev' = [prev EXCEPT ![q[2]] = prev[s]]
    <3>1. s = head /\ s # tail /\ next[s] = q[2]
      <4>1. p # n
        BY <1>8, <2>1
      <4>2. next[s] = q[p + 1] /\ p + 1 = 2
        <5>1. p + 1 = 2
          BY <1>8
        <5>2. QED
          BY <1>1, <2>1, <5>1
      <4>3. QED
        BY <1>1, <1>8, <4>1, <4>2
    <3>2. QED
      BY <1>2, <3>1 DEF Remove
  <2>3. \A i \in 1 .. (n - 1) : f[i] = q[i + 1]
    BY <1>4, <1>8
  <2>4. head' = f[1] /\ tail' = f[n - 1] /\ next'[f[n - 1]] = Nil
    <3>1. n - 1 + 1 = n /\ 1 + 1 = 2
      BY <1>4a
    <3>2. f[1] = q[2] /\ f[n - 1] = q[n]
      BY <2>1, <2>3, <3>1
    <3>3. QED
      BY <1>2, <2>2, <3>2
  <2>5. ASSUME NEW i \in 1 .. (Len(f) - 1) PROVE next'[f[i]] = f[i + 1]
    <3>1. i \in 1 .. (n - 1) /\ i + 1 \in 1 .. (n - 1)
      BY <1>2, <1>4
    <3>2. QED
      BY <1>2, <2>2, <2>3, <3>1
  <2>6. ASSUME NEW i \in 2 .. Len(f) PROVE prev'[f[i]] = f[i - 1]
    <3>1. i \in 1 .. (n - 1) /\ i - 1 \in 1 .. (n - 1) /\ i + 1 \in 2 .. n /\ i + 1 \in 1 .. n /\ i + 1 # 2
      BY <1>2, <1>4
    <3>2. f[i] = q[i + 1] /\ f[i - 1] = q[i] /\ q[i + 1] # q[2] /\ q[i + 1] \in Sessions /\ prev[q[i + 1]] = q[i]
      BY <1>2, <2>1, <2>3, <3>1
    <3>3. QED
      BY <2>2, <3>2 DEF TypeOK
  <2>7. Linked(f)'
    BY <1>3, <1>4, <1>5, <1>8, <2>4, <2>5, <2>6, Relinked
  <2>8. QED
    BY <1>6, <2>7 DEF f
<1>9. CASE n # 1 /\ p # 1
  <2> DEFINE b == q[p - 1]
  <2>1. /\ p > 1 /\ p - 1 \in 1 .. n /\ p - 1 \in 1 .. (n - 1) /\ prev[s] = b /\ b \in Sessions /\ b # s /\ n >= 2
        /\ 1 \in 1 .. (n - 1) /\ n - 1 \in 1 .. (n - 1)
    <3>1. /\ p > 1 /\ p - 1 \in 1 .. n /\ p - 1 \in 1 .. (n - 1) /\ n >= 2
          /\ 1 \in 1 .. (n - 1) /\ n - 1 \in 1 .. (n - 1) /\ p - 1 # p
      BY <1>4a, <1>9
    <3>2. prev[s] = b /\ b \in Sessions /\ b # s
      BY <1>1, <1>2, <3>1
    <3>3. QED
      BY <3>1, <3>2
  <2>2. /\ head' = head /\ next' = [next EXCEPT ![b] = next[s]]
        /\ p = n => tail' = b /\ prev' = prev
        /\ p < n => tail' = tail /\ prev' = [prev EXCEPT ![q[p + 1]] = b]
    <3>1. s # head /\ prev[s] = b
      BY <1>1, <1>9, <2>1
    <3>2. head' = head /\ next' = [next EXCEPT ![b] = next[s]]
      BY <3>1 DEF Remove
    <3>3. p = n => s = tail
      BY <1>1
    <3>4. p < n => s # tail /\ next[s] = q[p + 1]
      <4>1. p < n => p # n
        BY <1>4a
      <4>2. QED
        BY <1>1, <4>1
    <3>5. QED
      BY <3>1, <3>2, <3>3, <3>4 DEF Remove
  <2> HIDE DEF b
  <2>3. /\ next'[b] = next[s]
        /\ \A i \in 1 .. n : i # p - 1 => next'[q[i]] = next[q[i]]
    BY <1>2, <2>1, <2>2 DEF TypeOK, b
  <2>4. \A i \in 2 .. n : i # p => prev'[q[i]] = IF i = p + 1 THEN b ELSE q[i - 1]
    <3>1. CASE p = n
      BY <1>1, <1>2, <1>4a, <2>2, <3>1
    <3>2. CASE p < n
      <4>1. p + 1 \in 1 .. n /\ q[p + 1] \in Sessions /\ prev' = [prev EXCEPT ![q[p + 1]] = b]
        BY <1>1, <1>2, <1>4a, <2>2, <3>2
      <4>2. QED
        BY <1>2, <4>1 DEF TypeOK
    <3>3. QED
      <4>1. p = n \/ p < n
        BY <1>4a
      <4>2. QED
        BY <3>1, <3>2, <4>1
  <2>5. f[p - 1] = b
    <3>1. p - 1 < p
      BY <1>4a
    <3>2. QED
      BY <1>4, <2>1, <3>1 DEF b
  <2>6. head' = f[1]
    BY <1>2, <1>4, <2>1, <2>2
  <2>7. tail' = f[n - 1] /\ next'[f[n - 1]] = Nil
    <3>1. CASE p = n
      BY <1>1, <2>2, <2>3, <2>5, <3>1
    <3>2. CASE p < n
      <4>1. n - 1 >= p /\ n - 1 + 1 = n /\ n \in 1 .. n /\ n # p - 1
        BY <1>1, <1>2, <1>4a, <3>2
      <4>2. f[n - 1] = q[n]
        BY <1>4, <2>1, <4>1
      <4>3. QED
        BY <1>2, <2>2, <2>3, <3>2, <4>1, <4>2
    <3>3. QED
      BY <1>1, <1>2, <1>4a, <3>1, <3>2
  <2>8. ASSUME NEW i \in 1 .. (Len(f) - 1) PROVE next'[f[i]] = f[i + 1]
    <3>1. i \in 1 .. (n - 1) /\ i + 1 \in 1 .. (n - 1) /\ i \in 1 .. n /\ i + 1 \in 1 .. n /\ next[q[i]] = q[i + 1] /\ next[q[i + 1]] = q[i + 1 + 1]
      BY <1>2, <1>4
    <3>2. CASE i + 1 < p
      <4>1. i < p /\ i # p - 1 /\ f[i] = q[i] /\ f[i + 1] = q[i + 1]
        <5>1. i < p /\ i # p - 1
          BY <1>4a, <3>1, <3>2
        <5>2. QED
          BY <1>4, <3>1, <3>2, <5>1
      <4>2. QED
        BY <2>3, <3>1, <4>1
    <3>3. CASE i + 1 = p
      <4>1. i = p - 1 /\ i + 1 >= p /\ p < n
        <5>1. p \in Nat /\ n \in Nat /\ i \in 1 .. (n - 1) /\ i + 1 \in 1 .. (n - 1)
          BY <1>1, <1>4a, <3>1
        <5>2. QED
          BY <3>3, <5>1
      <4>2. f[i] = b /\ f[i + 1] = q[p + 1]
        BY <1>4, <2>5, <3>1, <3>3, <4>1
      <4>3. QED
        BY <1>1, <2>3, <4>1, <4>2
    <3>4. CASE i + 1 > p
      <4>1. i >= p /\ i + 1 >= p /\ i + 1 # p - 1
        BY <1>4a, <3>1, <3>4
      <4>2. f[i] = q[i + 1] /\ f[i + 1] = q[i + 1 + 1]
        BY <1>4, <3>1, <4>1
      <4>3. QED
        BY <2>3, <3>1, <4>1, <4>2
    <3>5. QED
      BY <1>1, <3>1, <3>2, <3>3, <3>4
  <2>9. ASSUME NEW i \in 2 .. Len(f) PROVE prev'[f[i]] = f[i - 1]
    <3>1. i \in 1 .. (n - 1) /\ i - 1 \in 1 .. (n - 1) /\ i \in 2 .. n /\ i + 1 \in 2 .. n /\ i + 1 - 1 = i /\ i - 1 + 1 = i
      BY <1>2, <1>4
    <3>2. CASE i < p
      <4>1. i - 1 < p /\ i # p /\ i # p + 1
        BY <1>4a, <3>1, <3>2
      <4>2. f[i] = q[i] /\ f[i - 1] = q[i - 1]
        BY <1>4, <3>1, <3>2, <4>1
      <4>3. QED
        BY <2>4, <3>1, <4>1, <4>2
    <3>3. CASE i = p
      <4>1. f[i] = q[p + 1] /\ f[i - 1] = b /\ p + 1 # p /\ i >= p
        <5>1. p + 1 # p /\ i >= p
          BY <1>4a, <3>3
        <5>2. QED
          BY <1>4, <2>5, <3>1, <3>3, <5>1
      <4>2. QED
        BY <2>4, <3>1, <3>3, <4>1
    <3>4. CASE i > p
      <4>1. i - 1 >= p /\ i >= p /\ i + 1 # p /\ i + 1 # p + 1
        BY <1>4a, <3>1, <3>4
      <4>2. f[i] = q[i + 1] /\ f[i - 1] = q[i]
        BY <1>4, <3>1, <4>1
      <4>3. QED
        BY <2>4, <3>1, <4>1, <4>2
    <3>5. QED
      BY <1>1, <3>1, <3>2, <3>3, <3>4
  <2>10. Linked(f)'
    BY <1>3, <1>4, <1>5, <1>9, <2>6, <2>7, <2>8, <2>9, Relinked
  <2>11. QED
    BY <1>6, <2>10 DEF f
<1>10. QED
  BY <1>7, <1>8, <1>9

-----------------------------------------------------------------------------
(* The list implements the sequence.                                       *)

\* An empty list, and its pointers.
LEMMA InitLInv == Init => LInv /\ Slot!Init
<1> SUFFICES ASSUME Init PROVE LInv /\ Slot!Init
  OBVIOUS
<1>1. TypeOK
  BY DEF Init, TypeOK
<1>2. <<>> \in Seq(Sessions) /\ Injective(<<>>) /\ Chain(<<>>, head, next)
  BY DEF Init, Injective, Chain
<1>3. Queue = <<>>
  BY <1>2, QueueLemma
<1>4. Linked(<<>>)
  BY <1>2 DEF Init, Linked
<1>5. QED
  BY <1>1, <1>3, <1>4 DEF LInv, Init, Slot!Init

\* A step keeps the invariant, and is one of the sequence.
LEMMA NextLInv ==
    ASSUME LInv, [Next]_vars
    PROVE  LInv' /\ [Slot!Next]_(Slot!vars)
<1> USE DEF Slot!Next, Slot!vars
<1>1. PICK q : q = Queue
  OBVIOUS
<1>2. TypeOK /\ Linked(q)
  BY <1>1 DEF LInv
<1>3. q \in Seq(Sessions) /\ (q = <<>> <=> head = Nil) /\ (q # <<>> => head = q[1])
  <2>1. q \in Seq(Sessions) /\ (q = <<>> => head = Nil) /\ (q # <<>> => head = q[1])
    BY <1>2 DEF Linked, Chain
  <2>2. q # <<>> => q[1] \in Sessions
    BY <2>1
  <2>3. QED
    BY <2>1, <2>2, NilAssumption
<1>4. CASE Reuse
  <2>1. Linked(FrontToBack(q))' /\ TypeOK'
    BY <1>2, <1>4, ReuseLinked
  <2>2. LInv' /\ Queue' = FrontToBack(q)
    BY <2>1, LinkedNext
  <2>3. Slot!Reuse
    BY <1>1, <1>3, <1>4, <2>2 DEF Reuse, Slot!Reuse, FrontToBack, Slot!FrontToBack
  <2>4. QED
    BY <2>2, <2>3
<1>5. ASSUME NEW s \in Sessions, Create(s) PROVE LInv' /\ Slot!Create(s)
  <2>1. s \in Sessions \ Members(q) /\ inUse' = inUse \cup {s} /\ AppendSession(s) /\ (q # <<>> => q[1] \in inUse)
    BY <1>1, <1>3, <1>5 DEF Create
  <2>2. Linked(Append(q, s))' /\ TypeOK'
    BY <1>2, <2>1, CreateLinked
  <2>3. LInv' /\ Queue' = Append(q, s)
    BY <2>2, LinkedNext
  <2>4. QED
    BY <1>1, <2>1, <2>3 DEF Slot!Create, Members, Slot!Members
<1>6. ASSUME NEW s \in Sessions, Leave(s) PROVE LInv' /\ Slot!Leave(s)
  <2>1. Linked(ToFront(q, s))' /\ TypeOK'
    BY <1>2, <1>6, LeaveLinked
  <2>2. LInv' /\ Queue' = ToFront(q, s)
    BY <2>1, LinkedNext
  <2>3. QED
    BY <1>1, <1>6, <2>2 DEF Leave, Slot!Leave, ToFront, Slot!ToFront
<1>7. ASSUME NEW s \in Sessions, Expire(s) PROVE LInv' /\ Slot!Expire(s)
  <2>1. s \in Members(q) \ inUse /\ Remove(s) /\ UNCHANGED inUse
    BY <1>1, <1>7 DEF Expire
  <2>2. Linked(Without(q, s))' /\ TypeOK'
    BY <1>2, <2>1, ExpireLinked
  <2>3. LInv' /\ Queue' = Without(q, s)
    BY <2>2, LinkedNext
  <2>4. QED
    BY <1>1, <2>1, <2>3 DEF Slot!Expire, Members, Slot!Members, Without, Slot!Without
<1>8. CASE UNCHANGED vars
  <2>1. UNCHANGED links /\ inUse' = inUse /\ inUse' \subseteq Members(q)
    BY <1>2, <1>8 DEF vars, Linked
  <2>2. Linked(q)' /\ TypeOK'
    BY <1>2, <2>1, AsBefore
  <2>3. LInv' /\ Queue' = q
    BY <2>2, LinkedNext
  <2>4. QED
    BY <1>1, <2>1, <2>3
<1>9. QED
  BY <1>4, <1>5, <1>6, <1>7, <1>8 DEF Next

\* What the operations rely on: the tail is the last session of the walk, and
\* prev of every other is the one before it.
LEMMA LInvLinks == LInv => LinksConsistent
<1> SUFFICES ASSUME LInv PROVE LinksConsistent
  OBVIOUS
<1>1. Linked(Queue)
  BY DEF LInv
<1>2. QED
  BY <1>1 DEF Linked, Chain, LinksConsistent

\* The inductive invariant: head, next, tail and prev always stand for one
\* sequence, the one that a walk meets (sessions.go:15-85).
THEOREM LinkedInvariant == Spec => []LInv
<1>1. Init => LInv
  BY InitLInv
<1>2. LInv /\ [Next]_vars => LInv'
  BY NextLInv
<1>3. QED
  BY <1>1, <1>2, PTL DEF Spec

\* The pointers are sessions or nil.
THEOREM TypeCorrect == Spec => []TypeOK
<1>1. LInv => TypeOK
  BY DEF LInv
<1>2. QED
  BY <1>1, LinkedInvariant, PTL

\* remove and toFront never follow a stale prev or tail (sessions.go:46-57, 71-85).
THEOREM LinksConsistentCorrect == Spec => []LinksConsistent
BY LInvLinks, LinkedInvariant, PTL

\* The linked list behaves as the sequence of SessionQueue, whatever pointers
\* frontToBack and remove leave behind (sessions.go:26-85).
THEOREM ListIsQueue == Spec => SlotSpec
<1>1. Init => Slot!Init
  BY InitLInv
<1>2. LInv /\ [Next]_vars => [Slot!Next]_(Slot!vars)
  BY NextLInv
<1>3. QED
  BY <1>1, <1>2, LinkedInvariant, PTL DEF Spec, SlotSpec, Slot!Spec

\* What is proved of the queue, for the list's own.
Proved == INSTANCE SessionQueue_proofs WITH queue <- Queue

\* Hence the list of pointers (sessions.go:31-101), under the operations of the
\* manager, keeps the promise of SessionPool: idle sessions are handed out before
\* new ones are made, each to one request at a time.
THEOREM ListKeepsPromise == Spec => Proved!PoolSpec
<1>1. Slot!Init => Proved!Init
  BY DEF Slot!Init, Proved!Init
<1>2. [Slot!Next]_(Slot!vars) => [Proved!Next]_(Proved!vars)
  BY DEF Slot!Next, Proved!Next, Slot!vars, Proved!vars, Slot!Reuse, Proved!Reuse, Slot!Create,
     Proved!Create,
         Slot!Leave, Proved!Leave, Slot!Expire, Proved!Expire, Slot!Members, Proved!Members,
         Slot!FrontToBack, Proved!FrontToBack, Slot!ToFront, Proved!ToFront, Slot!Without, Proved!Without
<1>3. QED
  BY <1>1, <1>2, ListIsQueue, Proved!SlotKeepsPromise, PTL DEF SlotSpec, Slot!Spec, Proved!Spec
=============================================================================
