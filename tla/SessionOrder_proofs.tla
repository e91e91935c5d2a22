------------------------- MODULE SessionOrder_proofs -------------------------
(***************************************************************************)
(* Lemmas about the list operations of module SessionOrder: what each      *)
(* keeps of the sessions, of their uniqueness and of the free prefix.      *)
(***************************************************************************)
EXTENDS SessionOrder, TLAPS

\* newSession's append adds one session at the end.
LEMMA AppendLemma ==
    ASSUME NEW S, NEW q \in Seq(S), NEW s \in S, NEW inUse
    PROVE  /\ Append(q, s) \in Seq(S)
           /\ Members(Append(q, s)) = Members(q) \cup {s}
           /\ Injective(q) /\ s \notin Members(q) => Injective(Append(q, s))
           /\ (FreePrefix(q, inUse) /\ (q # <<>> => q[1] \in inUse))
                => FreePrefix(Append(q, s), inUse \cup {s})
<1>1. Append(q, s) \in Seq(S) /\ Len(Append(q, s)) = Len(q) + 1
  OBVIOUS
<1>2. \A i \in 1 .. Len(q) : Append(q, s)[i] = q[i]
  OBVIOUS
<1>3. Append(q, s)[Len(q) + 1] = s
  OBVIOUS
<1>4. DOMAIN q = 1 .. Len(q) /\ DOMAIN Append(q, s) = 1 .. (Len(q) + 1) /\ Len(q) \in Nat
  OBVIOUS
<1>5. Members(Append(q, s)) = Members(q) \cup {s}
  BY <1>2, <1>3, <1>4 DEF Members
<1>6. ASSUME Injective(q), s \notin Members(q)
      PROVE  Injective(Append(q, s))
  BY <1>2, <1>3, <1>4, <1>6 DEF Injective, Members
<1>7. ASSUME FreePrefix(q, inUse), q # <<>> => q[1] \in inUse
      PROVE  FreePrefix(Append(q, s), inUse \cup {s})
  <2>1. \A i \in 1 .. Len(q) : q[i] \in inUse
    BY <1>4, <1>7 DEF FreePrefix
  <2>2. QED
    BY <1>2, <1>3, <1>4, <2>1 DEF FreePrefix
<1>8. QED
  BY <1>1, <1>5, <1>6, <1>7

\* frontToBack keeps the sessions; moving a free head behind the others while
\* it becomes used keeps the free prefix.
LEMMA FrontToBackLemma ==
    ASSUME NEW S, NEW q \in Seq(S), q # <<>>, NEW inUse
    PROVE  /\ FrontToBack(q) \in Seq(S)
           /\ Members(FrontToBack(q)) = Members(q)
           /\ Injective(q) => Injective(FrontToBack(q))
           /\ Injective(q) /\ FreePrefix(q, inUse)
                => FreePrefix(FrontToBack(q), inUse \cup {q[1]})
<1> DEFINE n == Len(q)
           f == FrontToBack(q)
<1>1. n \in Nat \ {0} /\ DOMAIN q = 1 .. n /\ \A i \in 1 .. n : q[i] \in S
  OBVIOUS
<1>f. f = [i \in 1 .. n |-> IF i = n THEN q[1] ELSE q[i + 1]]
  BY DEF FrontToBack
<1> HIDE DEF f, n
<1>2. /\ DOMAIN f = 1 .. n
      /\ f[n] = q[1]
      /\ \A i \in 1 .. (n - 1) : f[i] = q[i + 1]
  BY <1>1, <1>f
<1>3. f \in Seq(S) /\ Len(f) = n
  <2>1. f \in [1 .. n -> S]
    BY <1>1, <1>f
  <2>2. QED
    BY <2>1, <1>1
<1>4. Members(f) = Members(q)
  <2>1. ASSUME NEW i \in 1 .. n PROVE f[i] \in Members(q)
    <3>1. CASE i = n
      <4>1. 1 \in 1 .. n /\ f[i] = q[1]
        BY <3>1, <1>1, <1>2
      <4>2. QED
        BY <4>1, <1>1 DEF Members
    <3>2. CASE i # n
      <4>1. i \in 1 .. (n - 1) /\ i + 1 \in 1 .. n /\ f[i] = q[i + 1]
        BY <3>2, <1>1, <1>2
      <4>2. QED
        BY <4>1, <1>1 DEF Members
    <3>3. QED
      BY <3>1, <3>2
  <2>2. ASSUME NEW i \in 1 .. n PROVE q[i] \in Members(f)
    <3>1. CASE i = 1
      BY <3>1, <1>1, <1>2 DEF Members
    <3>2. CASE i # 1
      <4>1. i - 1 \in 1 .. (n - 1) /\ i - 1 \in 1 .. n /\ (i - 1) + 1 = i
        BY <3>2, <1>1
      <4>2. f[i - 1] = q[i]
        BY <4>1, <1>2
      <4>3. QED
        BY <4>1, <4>2, <1>2 DEF Members
    <3>3. QED
      BY <3>1, <3>2
  <2>3. \A x \in Members(f) : x \in Members(q)
    BY <2>1, <1>2 DEF Members
  <2>4. \A x \in Members(q) : x \in Members(f)
    BY <2>2, <1>1 DEF Members
  <2>5. QED
    BY <2>3, <2>4
<1>5. ASSUME Injective(q) PROVE Injective(f)
  <2> SUFFICES ASSUME NEW i \in 1 .. n, NEW j \in 1 .. n, i < j
               PROVE  f[i] # f[j]
    BY <1>1, <1>2 DEF Injective
  <2>1. f[i] = q[i + 1] /\ i + 1 \in 1 .. n /\ 1 \in 1 .. n /\ i + 1 # 1
    BY <1>1, <1>2
  <2>2. CASE j = n
    BY <2>1, <2>2, <1>1, <1>2, <1>5 DEF Injective
  <2>3. CASE j # n
    <3>1. f[j] = q[j + 1] /\ j + 1 \in 1 .. n /\ i + 1 # j + 1
      BY <2>3, <1>1, <1>2
    <3>2. QED
      BY <2>1, <3>1, <1>1, <1>5 DEF Injective
  <2>4. QED
    BY <2>2, <2>3
<1>6. ASSUME Injective(q), FreePrefix(q, inUse)
      PROVE  FreePrefix(f, inUse \cup {q[1]})
  <2> SUFFICES ASSUME NEW i \in 1 .. n, NEW j \in 1 .. n, i < j, f[i] \in inUse \cup {q[1]}
               PROVE  f[j] \in inUse \cup {q[1]}
    BY <1>2 DEF FreePrefix
  <2>1. CASE j = n
    BY <2>1, <1>2
  <2>2. CASE j # n
    <3>1. f[i] = q[i + 1] /\ f[j] = q[j + 1] /\ i + 1 \in 1 .. n /\ j + 1 \in 1 .. n
      BY <2>2, <1>1, <1>2
    <3>2. q[i + 1] # q[1]
      BY <3>1, <1>1, <1>6 DEF Injective
    <3>3. QED
      BY <3>1, <3>2, <1>1, <1>6 DEF FreePrefix
  <2>3. QED
    BY <2>1, <2>2
<1>7. QED
  BY <1>3, <1>4, <1>5, <1>6 DEF f

\* Where a session stands in the list.
LEMMA PositionLemma ==
    ASSUME NEW S, NEW q \in Seq(S), NEW s \in Members(q)
    PROVE  LET p == CHOOSE i \in DOMAIN q : q[i] = s
           IN  p \in 1 .. Len(q) /\ q[p] = s
BY DEF Members

\* toFront keeps the sessions; moving a used session before the others while it
\* becomes free keeps the free prefix.
LEMMA ToFrontLemma ==
    ASSUME NEW S, NEW q \in Seq(S), NEW s \in Members(q), NEW inUse
    PROVE  /\ ToFront(q, s) \in Seq(S)
           /\ Members(ToFront(q, s)) = Members(q)
           /\ Injective(q) => Injective(ToFront(q, s))
           /\ Injective(q) /\ FreePrefix(q, inUse) => FreePrefix(ToFront(q, s), inUse \ {s})
<1> DEFINE n == Len(q)
           p == CHOOSE i \in DOMAIN q : q[i] = s
           f == ToFront(q, s)
<1>1. n \in Nat /\ DOMAIN q = 1 .. n /\ \A i \in 1 .. n : q[i] \in S
  OBVIOUS
<1>2. p \in 1 .. n /\ q[p] = s
  BY PositionLemma
<1>3. f = [i \in 1 .. n |-> IF i = 1 THEN s ELSE IF i <= p THEN q[i - 1] ELSE q[i]]
  BY DEF ToFront
<1> HIDE DEF f, n, p
<1>4. /\ DOMAIN f = 1 .. n
      /\ f[1] = s
      /\ \A i \in 2 .. p : f[i] = q[i - 1]
      /\ \A i \in (p + 1) .. n : f[i] = q[i]
  BY <1>1, <1>2, <1>3
<1>5. f \in Seq(S) /\ Len(f) = n
  <2>1. f \in [1 .. n -> S]
    BY <1>1, <1>2, <1>3
  <2>2. QED
    BY <2>1, <1>1
<1>6. Members(f) = Members(q)
  <2>1. \A x \in Members(f) : x \in Members(q)
    <3> SUFFICES ASSUME NEW i \in 1 .. n PROVE f[i] \in Members(q)
      BY <1>4 DEF Members
    <3>1. CASE i = 1
      BY <3>1, <1>4
    <3>2. CASE i \in 2 .. p
      <4>1. i - 1 \in 1 .. n /\ f[i] = q[i - 1]
        BY <3>2, <1>1, <1>2, <1>4
      <4>2. QED
        BY <4>1, <1>1 DEF Members
    <3>3. CASE i \in (p + 1) .. n
      <4>1. f[i] = q[i]
        BY <3>3, <1>4
      <4>2. QED
        BY <4>1, <1>1 DEF Members
    <3>4. QED
      BY <3>1, <3>2, <3>3, <1>1, <1>2
  <2>2. \A x \in Members(q) : x \in Members(f)
    <3> SUFFICES ASSUME NEW i \in 1 .. n PROVE q[i] \in Members(f)
      BY <1>1 DEF Members
    <3>1. CASE i = p
      <4>1. 1 \in 1 .. n /\ f[1] = q[i]
        BY <3>1, <1>1, <1>2, <1>4
      <4>2. QED
        BY <4>1, <1>4 DEF Members
    <3>2. CASE i < p
      <4>0. i + 1 \in 2 .. p /\ i + 1 \in 1 .. n /\ (i + 1) - 1 = i
        BY <3>2, <1>1, <1>2
      <4>1. i + 1 \in 1 .. n /\ f[i + 1] = q[i]
        BY <4>0, <1>4
      <4>2. QED
        BY <4>1, <1>4 DEF Members
    <3>3. CASE i > p
      <4>1. i \in (p + 1) .. n
        BY <3>3, <1>1, <1>2
      <4>2. f[i] = q[i]
        BY <4>1, <1>4
      <4>3. QED
        BY <4>2, <1>4 DEF Members
    <3>4. QED
      BY <3>1, <3>2, <3>3, <1>2, <1>1
  <2>3. QED
    BY <2>1, <2>2
<1> DEFINE at(i) == IF i = 1 THEN p ELSE IF i <= p THEN i - 1 ELSE i
<1>7. \A i \in 1 .. n : at(i) \in 1 .. n /\ f[i] = q[at(i)]
  <2> SUFFICES ASSUME NEW i \in 1 .. n PROVE at(i) \in 1 .. n /\ f[i] = q[at(i)]
    OBVIOUS
  <2>1. CASE i = 1
    BY <2>1, <1>2, <1>4
  <2>2. CASE i # 1 /\ i <= p
    <3>1. i \in 2 .. p /\ at(i) = i - 1 /\ i - 1 \in 1 .. n
      BY <2>2, <1>1, <1>2
    <3>2. QED
      BY <3>1, <1>4
  <2>3. CASE i # 1 /\ ~(i <= p)
    <3>1. i \in (p + 1) .. n /\ at(i) = i
      BY <2>3, <1>1, <1>2
    <3>2. QED
      BY <3>1, <1>4
  <2>4. QED
    BY <2>1, <2>2, <2>3
<1>a. \A i, j \in 1 .. n : at(i) = at(j) => i = j
  BY <1>1, <1>2
<1>b. \A i, j \in 2 .. n : i < j => at(i) < at(j)
  BY <1>1, <1>2
<1>c. \A i \in 2 .. n : at(i) # p
  BY <1>1, <1>2
<1> HIDE DEF at
<1>8. ASSUME Injective(q) PROVE Injective(f)
  BY <1>1, <1>4, <1>7, <1>8, <1>a DEF Injective
<1>d. ASSUME Injective(q), FreePrefix(q, inUse)
      PROVE  FreePrefix(f, inUse \ {s})
  <2> SUFFICES ASSUME NEW i \in 1 .. n, NEW j \in 1 .. n, i < j, f[i] \in inUse \ {s}
               PROVE  f[j] \in inUse \ {s}
    BY <1>4 DEF FreePrefix
  <2>1. i \in 2 .. n /\ j \in 2 .. n
    BY <1>4, <1>1
  <2>2. at(i) \in 1 .. n /\ at(j) \in 1 .. n /\ at(i) < at(j) /\ at(j) # p
    BY <2>1, <1>7, <1>b, <1>c
  <2>3. f[j] # s
    BY <2>2, <1>1, <1>2, <1>7, <1>d DEF Injective
  <2>4. f[j] \in inUse
    BY <2>2, <1>1, <1>7, <1>d DEF FreePrefix
  <2>5. QED
    BY <2>3, <2>4
<1>9. QED
  BY <1>5, <1>6, <1>8, <1>d DEF f

\* remove takes out one session and keeps the order of the others.
LEMMA WithoutLemma ==
    ASSUME NEW S, NEW q \in Seq(S), NEW s \in Members(q), NEW inUse
    PROVE  /\ Without(q, s) \in Seq(S)
           /\ Injective(q) => Members(Without(q, s)) = Members(q) \ {s}
           /\ Injective(q) => Injective(Without(q, s))
           /\ FreePrefix(q, inUse) => FreePrefix(Without(q, s), inUse)
<1> DEFINE n == Len(q)
           p == CHOOSE i \in DOMAIN q : q[i] = s
           f == Without(q, s)
<1>1. n \in Nat /\ DOMAIN q = 1 .. n /\ \A i \in 1 .. n : q[i] \in S
  OBVIOUS
<1>2. p \in 1 .. n /\ q[p] = s
  BY PositionLemma
<1>3. f = [i \in 1 .. (n - 1) |-> IF i < p THEN q[i] ELSE q[i + 1]]
  BY DEF Without
<1> HIDE DEF f, n, p
<1>4. /\ DOMAIN f = 1 .. (n - 1)
      /\ \A i \in 1 .. (p - 1) : f[i] = q[i]
      /\ \A i \in p .. (n - 1) : f[i] = q[i + 1]
  BY <1>1, <1>2, <1>3
<1>5. f \in Seq(S)
  <2>1. f \in [1 .. (n - 1) -> S]
    BY <1>1, <1>2, <1>3
  <2>2. QED
    BY <2>1, <1>1, <1>2
<1> DEFINE at(i) == IF i < p THEN i ELSE i + 1
<1>6. \A i \in 1 .. (n - 1) : at(i) \in 1 .. n /\ at(i) # p /\ f[i] = q[at(i)]
  BY <1>1, <1>2, <1>3
<1>a. \A i, j \in 1 .. (n - 1) : i < j => at(i) < at(j)
  BY <1>1, <1>2
<1>b. \A j \in 1 .. n : j # p => \E i \in 1 .. (n - 1) : at(i) = j
  <2> SUFFICES ASSUME NEW j \in 1 .. n, j # p PROVE \E i \in 1 .. (n - 1) : at(i) = j
    OBVIOUS
  <2>1. CASE j < p
    <3>1. j \in 1 .. (n - 1) /\ at(j) = j
      BY <2>1, <1>1, <1>2
    <3>2. QED
      BY <3>1
  <2>2. CASE j > p
    <3>1. j - 1 \in 1 .. (n - 1) /\ at(j - 1) = j
      BY <2>2, <1>1, <1>2
    <3>2. QED
      BY <3>1
  <2>3. QED
    BY <2>1, <2>2, <1>1, <1>2
<1> HIDE DEF at
<1>c. ASSUME Injective(q) PROVE Members(f) = Members(q) \ {s}
  <2>1. ASSUME NEW i \in 1 .. (n - 1) PROVE f[i] \in Members(q) \ {s}
    <3>1. q[at(i)] # s
      BY <1>1, <1>2, <1>6, <1>c DEF Injective
    <3>2. QED
      BY <3>1, <1>1, <1>6 DEF Members
  <2>2. ASSUME NEW j \in 1 .. n, q[j] # s PROVE q[j] \in Members(f)
    <3>1. PICK i \in 1 .. (n - 1) : at(i) = j
      BY <2>2, <1>2, <1>b
    <3>2. f[i] = q[j]
      BY <3>1, <1>6
    <3>3. QED
      BY <3>2, <1>4 DEF Members
  <2>3. QED
    BY <2>1, <2>2, <1>1, <1>4 DEF Members
<1>7. ASSUME Injective(q) PROVE Injective(f)
  <2> SUFFICES ASSUME NEW i \in 1 .. (n - 1), NEW j \in 1 .. (n - 1), i < j
               PROVE  f[i] # f[j]
    BY <1>1, <1>4 DEF Injective
  <2>1. at(i) \in 1 .. n /\ at(j) \in 1 .. n /\ at(i) < at(j)
    BY <1>6, <1>a
  <2>2. QED
    BY <2>1, <1>1, <1>6, <1>7 DEF Injective
<1>8. ASSUME FreePrefix(q, inUse) PROVE FreePrefix(f, inUse)
  <2> SUFFICES ASSUME NEW i \in 1 .. (n - 1), NEW j \in 1 .. (n - 1), i < j, f[i] \in inUse
               PROVE  f[j] \in inUse
    BY <1>4 DEF FreePrefix
  <2>1. at(i) \in 1 .. n /\ at(j) \in 1 .. n /\ at(i) < at(j)
    BY <1>6, <1>a
  <2>2. QED
    BY <2>1, <1>1, <1>6, <1>8 DEF FreePrefix
<1>9. QED
  BY <1>5, <1>c, <1>7, <1>8 DEF f
=============================================================================
