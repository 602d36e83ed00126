------------------------- MODULE AirportBind_proofs --------------------------
(***************************************************************************)
(* Proofs about binding, planning and running a flight, and about the      *)
(* columns and rows of flights, tables, statements and functions, for any  *)
(* histories, schemas, statements and answers.                             *)
(***************************************************************************)
EXTENDS ColumnParts, FiniteSetTheorems, SequenceTheorems, TLAPS

-----------------------------------------------------------------------------
(* Selections.                                                             *)

\* Induction over the numbers up to a bound, stated for sets.
LEMMA NumbersUpTo ==
  ASSUME NEW n \in Nat, NEW S, 0 \in S, \A i \in 0 .. n - 1 : i \in S => i + 1 \in S
  PROVE  0 .. n \subseteq S
<1> DEFINE F == {i \in Nat : i \in 0 .. n /\ i \notin S}
           R == {p \in Nat \X Nat : p[1] < p[2]}
<1>1. SUFFICES ASSUME F # {} PROVE FALSE
  OBVIOUS
<1>2. IsWellFoundedOn(R, Nat)
  BY NatLessThanWellFounded DEF OpToRel
<1>3. PICK x \in F : \A y \in F : ~ (<<y, x>> \in R)
  <2> F \subseteq Nat
    OBVIOUS
  <2> HIDE DEF F, R
  <2> QED
    BY <1>1, <1>2, WFMin
<1>4. \A y \in F : ~ (y < x)
  BY <1>3
<1>5. x # 0 /\ x - 1 \in 0 .. n - 1 /\ x - 1 \notin F
  BY <1>4
<1> QED
  BY <1>5

\* The loop that collects the numbers.
Collects(g, P, n) ==
  g = [i \in 0 .. n |-> IF i = 0 THEN <<>> ELSE IF i \in P THEN Append(g[i - 1], i) ELSE g[i - 1]]

LEMMA CollectsStep ==
  ASSUME NEW P, NEW n \in Nat, NEW g, Collects(g, P, n)
  PROVE  /\ DOMAIN g = 0 .. n /\ g[0] = <<>>
         /\ \A i \in 1 .. n : g[i] = IF i \in P THEN Append(g[i - 1], i) ELSE g[i - 1]
<1> DEFINE h == [i \in 0 .. n |-> IF i = 0 THEN <<>> ELSE IF i \in P THEN Append(g[i - 1], i) ELSE g[i - 1]]
<1>1. /\ DOMAIN h = 0 .. n /\ h[0] = <<>>
      /\ \A i \in 1 .. n : h[i] = IF i \in P THEN Append(g[i - 1], i) ELSE g[i - 1]
  OBVIOUS
<1>2. g = h
  BY DEF Collects
<1> HIDE DEF h
<1> QED
  BY <1>1, <1>2

LEMMA CollectsFrom ==
  ASSUME NEW P, NEW n \in Nat, NEW g, g = [i \in 0 .. n |-> g[i]], g[0] = <<>>,
         \A i \in 1 .. n : g[i] = IF i \in P THEN Append(g[i - 1], i) ELSE g[i - 1]
  PROVE  Collects(g, P, n)
<1> DEFINE h == [i \in 0 .. n |-> IF i = 0 THEN <<>> ELSE IF i \in P THEN Append(g[i - 1], i) ELSE g[i - 1]]
<1>1. ASSUME NEW i \in 0 .. n
      PROVE  h[i] = g[i]
  <2>1. h[i] = IF i = 0 THEN <<>> ELSE IF i \in P THEN Append(g[i - 1], i) ELSE g[i - 1]
    OBVIOUS
  <2>2. i = 0 \/ i \in 1 .. n
    OBVIOUS
  <2> HIDE DEF h
  <2> QED
    BY <2>1, <2>2
<1>2. [i \in 0 .. n |-> h[i]] = [i \in 0 .. n |-> g[i]]
  <2> HIDE DEF h
  <2> QED
    BY <1>1
<1>3. h = [i \in 0 .. n |-> h[i]]
  OBVIOUS
<1>4. g = h
  <2> HIDE DEF h
  <2> QED
    BY <1>2, <1>3
<1> QED
  BY <1>4 DEF Collects

\* There is such a loop for every length, and only one.
LEMMA CollectsExists ==
  ASSUME NEW P, NEW n \in Nat
  PROVE  \E g : Collects(g, P, n)
<1> DEFINE S == {m \in Nat : \E g : Collects(g, P, m)}
<1>1. 0 \in S
  <2> DEFINE g == [i \in 0 .. 0 |-> <<>>]
  <2>1. g = [i \in 0 .. 0 |-> g[i]] /\ g[0] = <<>>
    OBVIOUS
  <2>2. \A i \in 1 .. 0 : FALSE
    OBVIOUS
  <2> HIDE DEF g
  <2>3. Collects(g, P, 0)
    BY <2>1, <2>2, CollectsFrom
  <2> QED
    BY <2>3
<1>2. ASSUME NEW m \in 0 .. n - 1, m \in S
      PROVE  m + 1 \in S
  <2>1. PICK g : Collects(g, P, m)
    BY <1>2
  <2>2. /\ m \in Nat /\ DOMAIN g = 0 .. m /\ g[0] = <<>>
        /\ \A i \in 1 .. m : g[i] = IF i \in P THEN Append(g[i - 1], i) ELSE g[i - 1]
    BY <2>1, CollectsStep
  <2> DEFINE last == IF m + 1 \in P THEN Append(g[m], m + 1) ELSE g[m]
             h == [i \in 0 .. m + 1 |-> IF i = m + 1 THEN last ELSE g[i]]
  <2>3. /\ h = [i \in 0 .. m + 1 |-> h[i]] /\ h[m + 1] = last
        /\ \A i \in 0 .. m : h[i] = g[i]
    BY <2>2
  <2> HIDE DEF h
  <2>4. h[0] = <<>>
    BY <2>2, <2>3
  <2>5. ASSUME NEW i \in 1 .. m + 1
        PROVE  h[i] = IF i \in P THEN Append(h[i - 1], i) ELSE h[i - 1]
    <3>1. CASE i = m + 1
      <4>1. h[i - 1] = g[m]
        BY <2>2, <2>3, <3>1
      <4> QED
        BY <2>3, <3>1, <4>1
    <3>2. CASE i # m + 1
      <4>1. i \in 1 .. m /\ i \in 0 .. m /\ i - 1 \in 0 .. m
        BY <2>2, <3>2
      <4>2. h[i] = g[i] /\ h[i - 1] = g[i - 1]
        BY <2>3, <4>1
      <4> QED
        BY <2>2, <4>1, <4>2
    <3> QED
      BY <3>1, <3>2
  <2>6. Collects(h, P, m + 1)
    <3> DEFINE k == m + 1
    <3>1. k \in Nat /\ h = [i \in 0 .. k |-> h[i]]
      BY <2>2, <2>3
    <3>2. \A i \in 1 .. k : h[i] = IF i \in P THEN Append(h[i - 1], i) ELSE h[i - 1]
      BY <2>5
    <3> HIDE DEF k
    <3>3. Collects(h, P, k)
      BY <2>4, <3>1, <3>2, CollectsFrom
    <3> QED
      BY <3>3 DEF k
  <2> QED
    BY <2>2, <2>6
<1>3. 0 .. n \subseteq S
  <2> HIDE DEF S
  <2> QED
    BY <1>1, <1>2, NumbersUpTo
<1> QED
  BY <1>3

LEMMA CollectsSame ==
  ASSUME NEW P, NEW n \in Nat, NEW m \in Nat, m <= n,
         NEW g, Collects(g, P, n), NEW h, Collects(h, P, m)
  PROVE  g[m] = h[m]
<1> DEFINE S == {i \in Nat : i <= m => g[i] = h[i]}
<1>1. /\ g[0] = <<>> /\ h[0] = <<>>
      /\ \A i \in 1 .. n : g[i] = IF i \in P THEN Append(g[i - 1], i) ELSE g[i - 1]
      /\ \A i \in 1 .. m : h[i] = IF i \in P THEN Append(h[i - 1], i) ELSE h[i - 1]
  BY CollectsStep
<1>2. 0 \in S
  BY <1>1
<1>3. ASSUME NEW i \in 0 .. m - 1, i \in S
      PROVE  i + 1 \in S
  <2>1. i + 1 \in 1 .. m /\ i + 1 \in 1 .. n /\ (i + 1) - 1 = i /\ g[i] = h[i] /\ i + 1 \in Nat
    BY <1>3
  <2>2. g[i + 1] = h[i + 1]
    BY <1>1, <2>1
  <2> QED
    BY <2>1, <2>2
<1>4. 0 .. m \subseteq S
  <2> HIDE DEF S
  <2> QED
    BY <1>2, <1>3, NumbersUpTo
<1> QED
  BY <1>4

\* One number more.
LEMMA InOrderStep ==
  ASSUME NEW P, NEW n \in Nat
  PROVE  /\ InOrder(P, 0) = <<>>
         /\ InOrder(P, n + 1) = IF n + 1 \in P THEN Append(InOrder(P, n), n + 1) ELSE InOrder(P, n)
<1>1. ASSUME NEW m \in Nat
      PROVE  \E g : Collects(g, P, m) /\ InOrder(P, m) = g[m]
  <2> DEFINE g == CHOOSE f : Collects(f, P, m)
  <2>1. Collects(g, P, m)
    BY CollectsExists
  <2>2. InOrder(P, m) = g[m]
    BY DEF InOrder, Collects
  <2> HIDE DEF g
  <2> QED
    BY <2>1, <2>2
<1>2. PICK g : Collects(g, P, n + 1) /\ InOrder(P, n + 1) = g[n + 1]
  BY <1>1
<1>3. PICK h : Collects(h, P, n) /\ InOrder(P, n) = h[n]
  BY <1>1
<1>4. PICK f : Collects(f, P, 0) /\ InOrder(P, 0) = f[0]
  BY <1>1
<1>5. g[n] = h[n]
  BY <1>2, <1>3, CollectsSame
<1>6. g[n + 1] = IF n + 1 \in P THEN Append(g[n], n + 1) ELSE g[n]
  <2>1. n + 1 \in Nat /\ n + 1 \in 1 .. n + 1 /\ (n + 1) - 1 = n
    OBVIOUS
  <2> QED
    BY <1>2, <2>1, CollectsStep
<1>7. f[0] = <<>>
  BY SMTT(30), <1>4, CollectsStep
<1> QED
  BY <1>2, <1>3, <1>4, <1>5, <1>6, <1>7

\* How many numbers up to i are left out.
Skipped(P, i) == Cardinality({j \in 1 .. i : j \notin P})

LEMMA UpToFinite ==
  ASSUME NEW n \in Nat PROVE IsFiniteSet(1 .. n) /\ Cardinality(1 .. n) = n
<1>1. Cardinality(1 .. n) = IF 1 > n THEN 0 ELSE n - 1 + 1
  BY FS_Interval
<1> QED
  BY <1>1, FS_Interval

LEMMA SkippedStep ==
  ASSUME NEW P, NEW n \in Nat
  PROVE  /\ Skipped(P, 0) = 0 /\ Skipped(P, n) \in 0 .. n
         /\ Skipped(P, n + 1) = IF n + 1 \in P THEN Skipped(P, n) ELSE Skipped(P, n) + 1
<1> DEFINE Left(i) == {j \in 1 .. i : j \notin P}
<1>1. IsFiniteSet(Left(n)) /\ Cardinality(Left(n)) \in 0 .. n
  <2>1. Left(n) \in SUBSET (1 .. n)
    OBVIOUS
  <2>2. IsFiniteSet(Left(n)) /\ Cardinality(Left(n)) <= n
    BY <2>1, UpToFinite, FS_Subset
  <2> HIDE DEF Left
  <2>3. Cardinality(Left(n)) \in Nat
    BY <2>2, FS_CardinalityType
  <2> QED
    BY <2>2, <2>3
<1>2. Left(n + 1) = IF n + 1 \in P THEN Left(n) ELSE Left(n) \cup {n + 1}
  OBVIOUS
<1>3. n + 1 \notin Left(n)
  OBVIOUS
<1>4. Left(0) = {}
  OBVIOUS
<1>5. Skipped(P, n) = Cardinality(Left(n)) /\ Skipped(P, n + 1) = Cardinality(Left(n + 1))
      /\ Skipped(P, 0) = Cardinality(Left(0))
  BY DEF Skipped
<1> HIDE DEF Left
<1>6. Cardinality(Left(n) \cup {n + 1}) = Cardinality(Left(n)) + 1
  BY <1>1, <1>3, FS_AddElement
<1> QED
  BY <1>1, <1>2, <1>4, <1>5, <1>6, FS_EmptySet

\* What a selection has: the numbers of P in their order, each as far back as numbers
\* before it are left out.
Collected(q, P, n) ==
  /\ q \in Seq(1 .. n) /\ Len(q) = n - Skipped(P, n)
  /\ \A k \in 1 .. Len(q) : q[k] \in P
  /\ \A j, k \in 1 .. Len(q) : j < k => q[j] < q[k]
  /\ \A i \in 1 .. n : i \in P => i - Skipped(P, i) \in 1 .. Len(q) /\ q[i - Skipped(P, i)] = i

LEMMA CollectedNext ==
  ASSUME NEW P, NEW n \in Nat, NEW q, Collected(q, P, n)
  PROVE  Collected(IF n + 1 \in P THEN Append(q, n + 1) ELSE q, P, n + 1)
<1> DEFINE m == Len(q)
<1>1. /\ q \in Seq(1 .. n) /\ m \in Nat /\ m = n - Skipped(P, n)
      /\ \A k \in 1 .. m : q[k] \in 1 .. n /\ q[k] \in P
      /\ \A j, k \in 1 .. m : j < k => q[j] < q[k]
      /\ \A i \in 1 .. n : i \in P => i - Skipped(P, i) \in 1 .. m /\ q[i - Skipped(P, i)] = i
  BY DEF Collected
<1>2. /\ Skipped(P, n) \in 0 .. n
      /\ Skipped(P, n + 1) = IF n + 1 \in P THEN Skipped(P, n) ELSE Skipped(P, n) + 1
  BY SkippedStep
<1>3. \A i \in 1 .. n + 1 : i = n + 1 \/ i \in 1 .. n
  OBVIOUS
<1>4. 1 .. n \subseteq 1 .. n + 1
  OBVIOUS
<1>5. CASE n + 1 \notin P
  <2>1. q \in Seq(1 .. n + 1)
    BY <1>1, <1>4
  <2>2. m = (n + 1) - Skipped(P, n + 1)
    BY <1>1, <1>2, <1>5
  <2>3. \A i \in 1 .. n + 1 : i \in P => i - Skipped(P, i) \in 1 .. m /\ q[i - Skipped(P, i)] = i
    BY <1>1, <1>3, <1>5
  <2>4. Collected(q, P, n + 1)
    BY <1>1, <2>1, <2>2, <2>3 DEF Collected
  <2> QED
    BY <1>5, <2>4
<1>6. CASE n + 1 \in P
  <2> DEFINE r == Append(q, n + 1)
  <2>1. /\ r \in Seq(1 .. n + 1) /\ Len(r) = m + 1 /\ r[m + 1] = n + 1
        /\ \A k \in 1 .. m : r[k] = q[k]
    <3>1. q \in Seq(1 .. n + 1) /\ n + 1 \in 1 .. n + 1
      BY <1>1, <1>4
    <3> QED
      BY <3>1
  <2> HIDE DEF r, m
  <2>2. \A k \in 1 .. m + 1 : k = m + 1 \/ k \in 1 .. m
    BY <1>1
  <2>3. m + 1 = (n + 1) - Skipped(P, n + 1)
    BY <1>1, <1>2, <1>6
  <2>4. \A k \in 1 .. m + 1 : r[k] \in P
    BY <1>1, <1>6, <2>1, <2>2
  <2>5. ASSUME NEW j \in 1 .. m + 1, NEW k \in 1 .. m + 1, j < k
        PROVE  r[j] < r[k]
    <3>1. j \in 1 .. m
      BY <1>1, <2>5
    <3>2. CASE k = m + 1
      BY SMTT(30), <1>1, <2>1, <3>1, <3>2
    <3>3. CASE k \in 1 .. m
      BY <1>1, <2>1, <2>5, <3>1, <3>3
    <3> QED
      BY <2>2, <3>2, <3>3
  <2>6. ASSUME NEW i \in 1 .. n + 1, i \in P
        PROVE  i - Skipped(P, i) \in 1 .. m + 1 /\ r[i - Skipped(P, i)] = i
    <3>1. CASE i = n + 1
      <4>1. i - Skipped(P, i) = m + 1
        BY <2>3, <3>1
      <4> QED
        BY <1>1, <2>1, <3>1, <4>1
    <3>2. CASE i \in 1 .. n
      <4> DEFINE k == i - Skipped(P, i)
      <4>1. k \in 1 .. m /\ q[k] = i
        BY <1>1, <2>6, <3>2
      <4> HIDE DEF k
      <4>2. k \in 1 .. m + 1 /\ r[k] = i
        BY <1>1, <2>1, <4>1
      <4> QED
        BY <4>2 DEF k
    <3> QED
      BY <1>3, <3>1, <3>2
  <2>7. Collected(r, P, n + 1)
    BY <2>1, <2>3, <2>4, <2>5, <2>6 DEF Collected
  <2> QED
    BY <1>6, <2>7 DEF r
<1> QED
  BY <1>5, <1>6

LEMMA InOrderFacts ==
  ASSUME NEW P, NEW n \in Nat
  PROVE  Collected(InOrder(P, n), P, n)
<1> DEFINE S == {m \in Nat : Collected(InOrder(P, m), P, m)}
<1>1. 0 \in S
  <2>1. InOrder(P, 0) = <<>> /\ Skipped(P, 0) = 0
    BY InOrderStep, SkippedStep
  <2>2. Collected(<<>>, P, 0)
    BY <2>1 DEF Collected
  <2> QED
    BY <2>1, <2>2
<1>2. ASSUME NEW m \in 0 .. n - 1, m \in S
      PROVE  m + 1 \in S
  <2>1. m \in Nat /\ m + 1 \in Nat /\ Collected(InOrder(P, m), P, m)
    BY <1>2
  <2>2. InOrder(P, m + 1) = IF m + 1 \in P THEN Append(InOrder(P, m), m + 1) ELSE InOrder(P, m)
    BY <2>1, InOrderStep
  <2>3. Collected(InOrder(P, m + 1), P, m + 1)
    BY <2>1, <2>2, CollectedNext
  <2> QED
    BY <2>1, <2>3
<1>3. 0 .. n \subseteq S
  <2> HIDE DEF S
  <2> QED
    BY <1>1, <1>2, NumbersUpTo
<1> QED
  BY <1>3

\* Where a number of a selection stands says how many before it are left out.
LEMMA InOrderPlace ==
  ASSUME NEW P, NEW n \in Nat, NEW q, Collected(q, P, n), NEW k \in 1 .. Len(q)
  PROVE  q[k] \in 1 .. n /\ q[k] \in P /\ k = q[k] - Skipped(P, q[k])
<1>1. q[k] \in 1 .. n /\ q[k] \in P
  BY DEF Collected
<1> DEFINE j == q[k] - Skipped(P, q[k])
<1>2. j \in 1 .. Len(q) /\ q[j] = q[k]
  BY <1>1 DEF Collected
<1> HIDE DEF j
<1>3. Len(q) \in Nat /\ \A i \in 1 .. Len(q) : q[i] \in Int
  BY DEF Collected
<1>4. ~(j < k) /\ ~(k < j)
  BY <1>2, <1>3 DEF Collected
<1>5. j = k
  BY <1>2, <1>3, <1>4
<1> QED
  BY <1>1, <1>5 DEF j

\* The elements selected, and where they stand.
LEMMA SelectedPlaces ==
  ASSUME NEW s, Len(s) \in Nat, NEW P, NEW q, q = InOrder(P, Len(s))
  PROVE  /\ Len(q) \in Nat /\ Len(q) <= Len(s)
         /\ Selected(s, P) = [k \in 1 .. Len(q) |-> s[q[k]]] /\ Len(Selected(s, P)) = Len(q)
         /\ \A k \in 1 .. Len(q) :
              /\ q[k] \in 1 .. Len(s) /\ q[k] \in P /\ k = q[k] - Skipped(P, q[k])
              /\ Selected(s, P)[k] = s[q[k]]
         /\ \A i \in 1 .. Len(s) :
              i \in P => i - Skipped(P, i) \in 1 .. Len(q) /\ q[i - Skipped(P, i)] = i
<1> DEFINE n == Len(s)
           r == Selected(s, P)
<1>1. n \in Nat /\ Collected(q, P, n)
  BY InOrderFacts
<1>2. Len(q) \in Nat /\ Len(q) = n - Skipped(P, n)
  <2> HIDE DEF n
  <2> QED
    BY <1>1 DEF Collected
<1>3. Skipped(P, n) \in 0 .. n
  BY <1>1, SkippedStep
<1>4. r = [k \in 1 .. Len(q) |-> s[q[k]]]
  BY DEF Selected
<1>5. Len(r) = Len(q) /\ \A k \in 1 .. Len(q) : r[k] = s[q[k]]
  <2> HIDE DEF r, n
  <2> QED
    BY <1>2, <1>4
<1>6. ASSUME NEW k \in 1 .. Len(q)
      PROVE  q[k] \in 1 .. n /\ q[k] \in P /\ k = q[k] - Skipped(P, q[k])
  <2> HIDE DEF n
  <2> QED
    BY ONLY <1>1, <1>6, InOrderPlace
<1>7. \A i \in 1 .. n : i \in P => i - Skipped(P, i) \in 1 .. Len(q) /\ q[i - Skipped(P, i)] = i
  <2> HIDE DEF n
  <2> QED
    BY <1>1 DEF Collected
<1>8. Len(q) <= n
  <2> HIDE DEF n
  <2> QED
    BY <1>1, <1>2, <1>3
<1> QED
  BY <1>2, <1>4, <1>5, <1>6, <1>7, <1>8

\* A selection of the first so many elements is their beginning.
LEMMA SelectedFirst ==
  ASSUME NEW s, Len(s) \in Nat, NEW P, NEW q, q = InOrder(P, Len(s)),
         \A i \in 1 .. Len(s) : i \in P => i <= Len(q)
  PROVE  \A k \in 1 .. Len(q) : q[k] = k /\ k \in P /\ Selected(s, P)[k] = s[k]
<1> DEFINE m == Len(q)
<1>1. /\ m \in Nat /\ m <= Len(s)
      /\ \A k \in 1 .. m : /\ q[k] \in 1 .. Len(s) /\ q[k] \in P /\ k = q[k] - Skipped(P, q[k])
                           /\ Selected(s, P)[k] = s[q[k]]
  BY SelectedPlaces
<1>2. \A i \in 1 .. Len(s) : Skipped(P, i) \in 0 .. i
  BY SkippedStep
<1>3. ASSUME m > 0
      PROVE  Skipped(P, m) = 0
  <2>1. m \in 1 .. m /\ q[m] \in 1 .. m /\ m = q[m] - Skipped(P, q[m])
    BY <1>1, <1>3
  <2>2. Skipped(P, q[m]) \in 0 .. q[m]
    BY <1>1, <1>2, <2>1
  <2> HIDE DEF m
  <2>3. q[m] = m
    BY <2>1, <2>2, <1>1
  <2> QED
    BY <2>1, <2>2, <2>3
<1>4. ASSUME NEW k \in 1 .. m
      PROVE  k \in P
  <2>1. Skipped(P, m) = 0
    BY <1>1, <1>3
  <2>2. IsFiniteSet({j \in 1 .. m : j \notin P})
    <3>1. {j \in 1 .. m : j \notin P} \subseteq 1 .. m
      OBVIOUS
    <3> QED
      BY <1>1, <3>1, UpToFinite, FS_Subset
  <2>3. {j \in 1 .. m : j \notin P} = {}
    BY <2>1, <2>2, FS_EmptySet DEF Skipped
  <2> QED
    BY <2>3
<1>5. ASSUME NEW k \in 1 .. m
      PROVE  q[k] = k
  <2>1. q[k] \in 1 .. m /\ k = q[k] - Skipped(P, q[k])
    BY <1>1
  <2>2. {j \in 1 .. q[k] : j \notin P} = {}
    BY <1>1, <1>4, <2>1
  <2>3. Skipped(P, q[k]) = 0
    BY <2>2, FS_EmptySet DEF Skipped
  <2> QED
    BY <1>1, <2>1, <2>3
<1> QED
  BY <1>1, <1>4, <1>5

\* The operators of the instances are those of the modules themselves.
LEMMA SameOperators ==
  /\ \A s, P : Function!Selected(s, P) = Selected(s, P)
  /\ \A s, P : Endpoint!Selected(s, P) = Selected(s, P)
  /\ \A P, n : Table!InOrder(P, n) = InOrder(P, n)
  /\ \A S : Function!Cardinality(S) = Cardinality(S)
  /\ \A S : Endpoint!Cardinality(S) = Cardinality(S)
  /\ \A S : Table!Cardinality(S) = Cardinality(S)
<1>1. \A s, P : Function!Selected(s, P) = Selected(s, P)
  BY DEF Function!Selected, Selected, Function!InOrder, InOrder
<1>2. \A s, P : Endpoint!Selected(s, P) = Selected(s, P)
  BY DEF Endpoint!Selected, Selected, Endpoint!InOrder, InOrder
<1>3. \A P, n : Table!InOrder(P, n) = InOrder(P, n)
  BY DEF Table!InOrder, InOrder
<1>4. \A S : Function!Cardinality(S) = Cardinality(S)
  BY DEF Function!Cardinality, Cardinality
<1>5. \A S : Endpoint!Cardinality(S) = Cardinality(S)
  BY DEF Endpoint!Cardinality, Cardinality
<1>6. \A S : Table!Cardinality(S) = Cardinality(S)
  BY DEF Table!Cardinality, Cardinality
<1> QED
  BY <1>1, <1>2, <1>3, <1>4, <1>5, <1>6

-----------------------------------------------------------------------------
(* The bind.                                                               *)

LEMMA InitBindInv == Init => BindInv
<1> SUFFICES ASSUME Init PROVE BindInv
  OBVIOUS
<1>1. TypeOK
  <2>1. 1 \in Versions /\ 0 \in 0 .. MaxRuns
    BY BoundsAssumption DEF Versions
  <2>2. /\ query.kind = "none" /\ query.at = None
        /\ endpoints.version = None /\ endpoints.filtered = FALSE
    BY DEF Init, NoQuery, NoEndpoints
  <2>3. /\ entry \in (1 .. version) \cup {None} /\ query.at \in (1 .. version) \cup {None}
        /\ {since, bound, estimate, endpoints.version} \subseteq (1 .. version) \cup {None}
    BY <2>2 DEF Init
  <2>4. /\ filters \in BOOLEAN /\ endpoints.filtered \in BOOLEAN /\ runs \in 0 .. MaxRuns
        /\ table \in Tables /\ version \in Versions /\ phase = "idle"
    BY <2>1, <2>2 DEF Init
  <2> QED BY <2>2, <2>3, <2>4 DEF TypeOK
<1> QED BY <1>1 DEF Init, BindInv, TimeTravelKept, BoundAfterBegin, StatisticsOwnColumn, NoQuery

\* What the invariant says of the versions, in one place.
LEMMA VersionFacts ==
  ASSUME TypeOK
  PROVE  /\ version \in Nat /\ 1 <= version /\ version <= MaxVersion
         /\ 1 .. version \subseteq Nat
         /\ \A v \in (1 .. version) \cup {None} : v # None => v \in Nat /\ v <= version
         /\ None \notin 1 .. version
BY BoundsAssumption, NoneAssumption DEF TypeOK, Versions

\* Where versions are told to the server, its answer is a version that the table has had;
\* without AT it is the one it has now.
LEMMA AnsweredVersions ==
  ASSUME TypeOK
  PROVE  /\ InfoVersion \in 1 .. version /\ EndpointsVersion \in 1 .. version
         /\ query.at # None /\ query.kind # "descriptor" => InfoVersion = query.at
         /\ query.at # None => EndpointsVersion = query.at
         /\ query.at = None => InfoVersion = version
BY VersionFacts DEF TypeOK, InfoVersion, EndpointsVersion

\* What the invariant says of versions.
VersionsInv ==
  /\ TypeOK
  /\ TimeTravelKept /\ BoundAfterBegin
  /\ phase = "idle" => query = NoQuery /\ bound = None
  /\ phase # "idle" => query.kind # "none" /\ since # None
  /\ phase = "binding" => bound = None
  /\ query.kind = "table" => entry # None

\* Every step of the query and of the clients keeps it.
LEMMA NextVersionsInv == VersionsInv /\ [Next]_vars => VersionsInv'
<1> SUFFICES ASSUME VersionsInv, [Next]_vars PROVE VersionsInv'
  OBVIOUS
<1>0. TypeOK
  BY DEF VersionsInv
<1>a. /\ version \in Nat /\ 1 <= version /\ version <= MaxVersion
      /\ 1 .. version \subseteq Nat /\ None \notin 1 .. version
  BY <1>0, VersionFacts
<1> USE <1>0, <1>a
<1> USE DEF VersionsInv, TypeOK, TimeTravelKept, BoundAfterBegin, Versions
<1>1. CASE Change
  BY <1>1, BoundsAssumption, NoneAssumption DEF Change
<1>2. CASE LoadEntry
  BY <1>2 DEF LoadEntry
<1>3. CASE Begin
  <2>1. PICK kind \in {"table", "function", "descriptor"}, at \in (1 .. version) \cup {None} :
          /\ kind = "table" => entry # None
          /\ query' = [kind |-> kind, at |-> at]
    BY <1>3 DEF Begin
  <2>2. query'.kind = kind /\ query'.at = at
    BY <2>1
  <2>3. /\ phase = "idle" /\ phase' = "binding" /\ since' = version /\ bound = None
        /\ UNCHANGED <<table, version, entry, bound, estimate, statistics, filters, endpoints, runs>>
    BY <1>3 DEF Begin
  <2>4. TypeOK'
    BY <2>2, <2>3
  <2> QED BY <2>1, <2>2, <2>3, <2>4
<1>4. CASE UseCachedSchema
  BY <1>4 DEF UseCachedSchema, CachedSchema
<1>5. CASE GetFlightInfo
  BY <1>5, AnsweredVersions DEF GetFlightInfo, CachedSchema
<1>6. CASE BindFails
  BY <1>6 DEF BindFails
<1>7. CASE Statistics
  BY <1>7 DEF Statistics
<1>8. CASE FilterPushdown
  BY <1>8 DEF FilterPushdown
<1>9. CASE AirportGetFlightEndpoints
  BY <1>9, AnsweredVersions, BoundsAssumption DEF AirportGetFlightEndpoints
<1>10. CASE End
  <2>1. /\ phase' = "idle" /\ query' = NoQuery /\ since' = None /\ bound' = None
        /\ estimate' = None /\ filters' = FALSE /\ endpoints' = NoEndpoints /\ runs' = 0
        /\ UNCHANGED <<table, version, entry>>
    BY <1>10 DEF End
  <2>2. /\ query'.kind = "none" /\ query'.at = None
        /\ endpoints'.version = None /\ endpoints'.filtered = FALSE
    BY <2>1 DEF NoQuery, NoEndpoints
  <2>3. 0 \in 0 .. MaxRuns
    BY BoundsAssumption
  <2>4. TypeOK'
    BY <2>1, <2>2, <2>3
  <2> QED BY <2>1, <2>2, <2>4
<1>11. CASE UNCHANGED vars
  BY <1>11 DEF vars
<1> QED
  BY <1>1, <1>2, <1>3, <1>4, <1>5, <1>6, <1>7, <1>8, <1>9, <1>10, <1>11 DEF Next

\* The columns of a flight whose row id is its last field, or that has none, are its fields.
LEMMA ColumnsAreFields ==
  ASSUME TypeOK, bound # None, \A i \in 1 .. Len(Fields) - 1 : Fields[i] # RowId,
         NEW i \in 1 .. Len(Columns)
  PROVE  Columns[i] = Fields[i]
<1> DEFINE n == Len(Fields)
           P == {k \in 1 .. n : Fields[k] # RowId}
           q == InOrder(P, n)
<1>1. n \in Nat
  <2>1. table \in Tables /\ bound \in Versions
    BY VersionFacts, BoundsAssumption DEF TypeOK, Versions
  <2> QED
    BY <2>1, TablesAssumption DEF Fields
<1>2. Columns = [k \in 1 .. Len(q) |-> Fields[q[k]]]
  BY DEF Columns, Selected
<1>3. Collected(q, P, n) /\ Len(q) \in Nat
  <2>1. Collected(q, P, n)
    BY <1>1, InOrderFacts
  <2> HIDE DEF q, P
  <2> QED
    BY <2>1 DEF Collected
<1>4. i \in 1 .. Len(q) /\ Columns[i] = Fields[q[i]]
  <2> HIDE DEF q
  <2> QED
    BY <1>2, <1>3
<1>5. q[i] \in 1 .. n /\ q[i] \in P /\ i = q[i] - Skipped(P, q[i])
  <2> HIDE DEF q, P, n
  <2> QED
    BY SMTT(30), <1>1, <1>3, <1>4, InOrderPlace
<1>6. {j \in 1 .. q[i] : j \notin P} = {}
  <2> HIDE DEF q
  <2>1. \A j \in 1 .. n - 1 : j \in P
    BY <1>1
  <2>2. ASSUME NEW j \in 1 .. q[i], j \notin P
        PROVE  FALSE
    <3> HIDE DEF P, n
    <3> QED
      BY <1>1, <1>5, <2>1, <2>2
  <2> QED
    BY <2>2
<1>7. Skipped(P, q[i]) = 0
  BY <1>6, FS_EmptySet DEF Skipped
<1>8. i = q[i]
  <2> HIDE DEF q, P, n
  <2> QED
    BY <1>5, <1>7
<1> QED
  BY <1>4, <1>8

LEMMA NextBindInv == BindInv /\ [Next]_vars => BindInv'
<1> SUFFICES ASSUME BindInv, [Next]_vars PROVE BindInv'
  OBVIOUS
<1>1. VersionsInv /\ VersionsInv' /\ TypeOK
  BY NextVersionsInv DEF BindInv, VersionsInv
<1>2. CASE Statistics
  <2>1. PICK i \in 1 .. Len(Columns) : statistics' = [asked |-> Columns[i], of |-> Fields[i]]
    BY <1>2 DEF Statistics, StatisticsField
  <2>2. phase = "bound" /\ UNCHANGED <<table, bound, phase>> /\ bound # None
    BY <1>1, <1>2 DEF Statistics, TypeOK
  <2>3. Fields' = Fields
    BY <2>2 DEF Fields
  <2>4. statistics'.asked = Columns[i] /\ statistics'.of = Fields[i]
    BY <2>1
  <2>5. StatisticsOwnColumn'
    BY <1>1, <2>2, <2>3, <2>4, ColumnsAreFields DEF StatisticsOwnColumn
  <2> QED
    BY <1>1, <2>2, <2>5 DEF BindInv, VersionsInv
<1>3. CASE ~Statistics
  <2>1. \/ statistics' = NoStatistics
        \/ /\ UNCHANGED <<table, bound, statistics>>
           /\ phase' \in {"idle", "binding"} => phase \in {"idle", "binding"}
    BY <1>3 DEF Next, vars, Change, LoadEntry, Begin, UseCachedSchema, GetFlightInfo, BindFails,
                FilterPushdown, AirportGetFlightEndpoints, End, BindInv
  <2>2. StatisticsOwnColumn'
    BY <2>1 DEF StatisticsOwnColumn, BindInv, Fields
  <2> QED
    BY <1>1, <2>1, <2>2 DEF BindInv, VersionsInv
<1> QED
  BY <1>2, <1>3

\* The inductive invariant holds in every reachable state.
THEOREM BindInvariant == Spec => []BindInv
<1> QED BY InitBindInv, NextBindInv, PTL DEF Spec

\* What is read at a version is bound with the columns of that version, estimated by its
\* rows, and every run of the plan reads its rows, however the table has changed since
\* (AirportTakeFlightBindWithFlightDescriptor, AirportGetFlightEndpoints).
THEOREM ReadsTheVersionAsked == Spec => []TimeTravelKept
<1>1. BindInv => TimeTravelKept
  BY DEF BindInv
<1> QED BY <1>1, BindInvariant, PTL

-----------------------------------------------------------------------------
(* Rows of a statement.                                                    *)

\* A sequence whose elements differ and are all in another one is not longer than that.
LEMMA NotLonger ==
  ASSUME NEW S, NEW s \in Seq(S), NEW T, NEW t \in Seq(T),
         \A i, j \in 1 .. Len(s) : i # j => s[i] # s[j],
         \A i \in 1 .. Len(s) : \E j \in 1 .. Len(t) : t[j] = s[i]
  PROVE  Len(s) <= Len(t)
<1> DEFINE f == [i \in 1 .. Len(s) |-> CHOOSE j \in 1 .. Len(t) : t[j] = s[i]]
<1>1. SUFFICES ASSUME Len(t) < Len(s) PROVE FALSE
  OBVIOUS
<1>2. /\ IsFiniteSet(1 .. Len(s)) /\ Cardinality(1 .. Len(s)) = Len(s)
      /\ IsFiniteSet(1 .. Len(t)) /\ Cardinality(1 .. Len(t)) = Len(t)
  <2>1. ASSUME NEW n \in Nat
        PROVE  IsFiniteSet(1 .. n) /\ Cardinality(1 .. n) = n
    <3>1. Cardinality(1 .. n) = IF 1 > n THEN 0 ELSE n - 1 + 1
      BY FS_Interval
    <3> QED
      BY <3>1, FS_Interval
  <2>2. Len(s) \in Nat /\ Len(t) \in Nat
    OBVIOUS
  <2> QED
    BY <2>1, <2>2
<1>3. \A i \in 1 .. Len(s) : f[i] \in 1 .. Len(t) /\ t[f[i]] = s[i]
  OBVIOUS
<1>4. f \in [1 .. Len(s) -> 1 .. Len(t)]
  BY <1>3
<1> HIDE DEF f
<1>5. PICK i, j \in 1 .. Len(s) : i # j /\ f[i] = f[j]
  <2> DEFINE S1 == 1 .. Len(s)
             T1 == 1 .. Len(t)
  <2>1. IsFiniteSet(S1) /\ IsFiniteSet(T1) /\ Cardinality(T1) < Cardinality(S1) /\ f \in [S1 -> T1]
    BY <1>1, <1>2, <1>4
  <2> HIDE DEF S1, T1
  <2>2. \E i, j \in S1 : i # j /\ f[i] = f[j]
    BY <2>1, FS_PigeonHole
  <2> QED
    BY <2>2 DEF S1
<1> QED
  BY <1>3, <1>5

\* The statement and the names of its table.
LEMMA StatementFacts ==
  ASSUME stmt \in Dml!Statements
  PROVE  /\ stmt.kind \in {"insert", "update", "delete"}
         /\ stmt.columns \in Seq(Dml!Columns) /\ Len(stmt.columns) <= Len(RowColumns)
         /\ Dml!Distinct(stmt.columns) /\ Dml!Range(stmt.columns) \subseteq Dml!Columns
         /\ stmt.kind = "update" => /\ stmt.columns # <<>>
                                    /\ stmt.returning => Dml!Range(stmt.columns) = Dml!Columns
         /\ stmt.kind = "delete" => stmt.columns = <<>>
<1>1. PICK n \in 0 .. Len(RowColumns) : stmt.columns \in [1 .. n -> Dml!Columns]
  BY DEF Dml!Statements, Dml!Lists
<1>2. n \in Nat
  BY DmlAssumption DEF Dml!ColumnsAssumption
<1>3. stmt.columns \in Seq(Dml!Columns) /\ Len(stmt.columns) = n
  BY <1>1, <1>2
<1> QED
  BY <1>1, <1>2, <1>3 DEF Dml!Statements, Dml!Lists, Dml!Range

\* Where a name stands.
LEMMA PositionFacts ==
  ASSUME NEW s, NEW c \in Dml!Range(s)
  PROVE  Dml!Position(s, c) \in 1 .. Len(s) /\ s[Dml!Position(s, c)] = c
BY DEF Dml!Range, Dml!Position

LEMMA DistinctPosition ==
  ASSUME NEW s, Dml!Distinct(s), NEW i \in 1 .. Len(s)
  PROVE  s[i] \in Dml!Range(s) /\ Dml!Position(s, s[i]) = i
<1>1. s[i] \in Dml!Range(s)
  BY DEF Dml!Range
<1> QED
  BY <1>1, PositionFacts DEF Dml!Distinct

\* Sequences of names, and the answer.
LEMMA NameFacts ==
  /\ RowColumns \in Seq(Dml!Columns) /\ Dml!Distinct(RowColumns)
  /\ Len(RowColumns) \in Nat /\ Len(RowColumns) > 0
  /\ Dml!Columns = Dml!Range(RowColumns)
  /\ RowId \notin Dml!Columns /\ Other \notin Dml!Columns /\ RowId # Other
  /\ \A a \in Answers : a.names \in Seq(Dml!Columns \cup {RowId, Other})
BY DmlAssumption
   DEF Dml!ColumnsAssumption, Dml!AnswersAssumption, Dml!Distinct, Dml!Columns

LEMMA SendNamesFacts ==
  ASSUME stmt \in Dml!Statements
  PROVE  /\ Dml!SendNames \in Seq(Dml!Columns \cup {RowId}) /\ Dml!SendNames # <<>>
         /\ Dml!Distinct(Dml!SendNames) /\ Dml!Range(Dml!SendNames) \subseteq Dml!Columns \cup {RowId}
<1> DEFINE C == Dml!Columns \cup {RowId}
<1> USE StatementFacts, NameFacts
<1>1. CASE stmt.kind = "insert"
  BY <1>1 DEF Dml!SendNames, Dml!Range
<1>2. CASE stmt.kind = "delete"
  BY <1>2 DEF Dml!SendNames, Dml!Range, Dml!Distinct
<1>3. CASE stmt.kind = "update"
  <2> DEFINE n == Len(stmt.columns)
  <2>1. /\ Dml!SendNames = Append(stmt.columns, RowId)
        /\ n \in Nat /\ Len(Dml!SendNames) = n + 1
        /\ \A i \in 1 .. n : Dml!SendNames[i] = stmt.columns[i]
        /\ Dml!SendNames[n + 1] = RowId
        /\ \A i \in 1 .. n : stmt.columns[i] \in Dml!Columns
    BY <1>3 DEF Dml!SendNames
  <2>2. Dml!SendNames \in Seq(C)
    BY <2>1
  <2>3. Dml!Distinct(Dml!SendNames)
    <3>1. \A i, j \in 1 .. n : i # j => stmt.columns[i] # stmt.columns[j]
      BY DEF Dml!Distinct
    <3>2. \A i \in 1 .. n + 1 : i = n + 1 \/ i \in 1 .. n
      BY <2>1
    <3> HIDE DEF n
    <3>3. ASSUME NEW i \in 1 .. n + 1, NEW j \in 1 .. n + 1, i # j
          PROVE  Dml!SendNames[i] # Dml!SendNames[j]
      BY ONLY <2>1, <3>1, <3>2, <3>3, RowId \notin Dml!Columns
    <3> QED
      BY <2>1, <3>3 DEF Dml!Distinct
  <2>4. Dml!Range(Dml!SendNames) \subseteq C
    <3>1. \A i \in 1 .. Len(Dml!SendNames) : Dml!SendNames[i] \in C
      BY <2>2
    <3> QED
      BY <3>1 DEF Dml!Range
  <2> QED
    BY SMTT(30), <2>1, <2>2, <2>3, <2>4
<1> QED
  BY <1>1, <1>2, <1>3

LEMMA InitDmlInv ==
  ASSUME Dml!Init PROVE Dml!DmlInv
<1>1. /\ stmt \in Dml!Statements /\ step = "bound" /\ send_names = <<>> /\ batch = <<>>
      /\ answer = Dml!NoAnswer /\ data_columns = <<>> /\ collection = <<>>
  BY DEF Dml!Init
<1>2. Dml!Range(<<>>) = {} /\ Dml!Distinct(<<>>) /\ Len(<<>>) = 0
  BY DEF Dml!Range, Dml!Distinct
<1>3. Dml!TypeOK
  BY <1>1, <1>2 DEF Dml!TypeOK
<1>4. Dml!PhaseInv
  BY <1>1 DEF Dml!PhaseInv
<1> QED
  BY <1>1, <1>3, <1>4
     DEF Dml!DmlInv, Dml!SentUnderOwnName, Dml!NotNullIsKept, Dml!RowsReturnedByName,
         Dml!EchoedUpdateReturned

\* Planning chooses the columns that are sent.
LEMMA PlanKeeps ==
  ASSUME Dml!DmlInv, Dml!PlanInsert \/ Dml!PlanUpdate \/ Dml!PlanDelete
  PROVE  Dml!DmlInv'
<1>1. /\ step = "bound" /\ UNCHANGED <<stmt, batch, answer, data_columns, collection>>
      /\ \/ step' = "refused" /\ send_names' = <<>>
         \/ step' = "planned" /\ send_names' = Dml!SendNames
  BY DEF Dml!PlanInsert, Dml!PlanUpdate, Dml!PlanDelete, Dml!SendNames
<1>2. /\ stmt \in Dml!Statements /\ batch = <<>> /\ collection = <<>> /\ data_columns = <<>>
      /\ answer \in Answers \cup {Dml!NoAnswer}
  BY <1>1 DEF Dml!DmlInv, Dml!TypeOK, Dml!PhaseInv
<1>3. Dml!Range(<<>>) = {} /\ Dml!Distinct(<<>>) /\ Len(<<>>) = 0
  BY DEF Dml!Range, Dml!Distinct
<1>4. Dml!SendNames' = Dml!SendNames
  BY <1>1 DEF Dml!SendNames
<1>5. Dml!TypeOK'
  BY <1>1, <1>2, <1>3, SendNamesFacts DEF Dml!TypeOK
<1>6. Dml!PhaseInv'
  BY <1>1, <1>2, <1>4 DEF Dml!PhaseInv
<1> QED
  BY <1>1, <1>2, <1>5, <1>6
     DEF Dml!DmlInv, Dml!SentUnderOwnName, Dml!NotNullIsKept, Dml!RowsReturnedByName,
         Dml!EchoedUpdateReturned

\* The names looked for in the answer.
LEMMA DestinationFacts ==
  ASSUME stmt \in Dml!Statements
  PROVE  /\ Dml!Destination \in Seq(Dml!Columns \cup {RowId})
         /\ \A i, j \in 1 .. Len(Dml!Destination) : i # j => Dml!Destination[i] # Dml!Destination[j]
         /\ Len(Dml!Destination) >= Len(RowColumns)
         /\ \A i \in 1 .. Len(RowColumns) : Dml!Destination[i] = RowColumns[i]
<1> DEFINE n == Len(RowColumns)
<1>1. /\ n \in Nat /\ \A i \in 1 .. n : RowColumns[i] \in Dml!Columns
      /\ \A i, j \in 1 .. n : i # j => RowColumns[i] # RowColumns[j]
  BY NameFacts DEF Dml!Distinct
<1>2. CASE stmt.kind # "update"
  <2>1. Dml!Destination = RowColumns
    BY <1>2 DEF Dml!Destination
  <2> QED
    BY <1>1, <2>1, NameFacts
<1>3. CASE stmt.kind = "update"
  <2>1. /\ Dml!Destination = Append(RowColumns, RowId) /\ Len(Dml!Destination) = n + 1
        /\ \A i \in 1 .. n : Dml!Destination[i] = RowColumns[i]
        /\ Dml!Destination[n + 1] = RowId
    BY <1>1, <1>3, NameFacts DEF Dml!Destination
  <2>2. Dml!Destination \in Seq(Dml!Columns \cup {RowId})
    BY <2>1, NameFacts
  <2>3. \A i \in 1 .. n + 1 : i = n + 1 \/ i \in 1 .. n
    BY <1>1
  <2>4. RowId \notin Dml!Columns
    BY NameFacts
  <2> HIDE DEF n
  <2>5. ASSUME NEW i \in 1 .. n + 1, NEW j \in 1 .. n + 1, i # j
        PROVE  Dml!Destination[i] # Dml!Destination[j]
    BY ONLY <1>1, <2>1, <2>3, <2>4, <2>5
  <2>6. n + 1 >= n
    BY <1>1
  <2> QED
    BY <2>1, <2>2, <2>5, <2>6 DEF n
<1> QED
  BY <1>2, <1>3

\* Columns that are all in the answer are read from places it has.
LEMMA ColumnIdsFacts ==
  ASSUME stmt \in Dml!Statements, NEW a \in Answers,
         Dml!Range(Dml!Destination) \subseteq Dml!Range(a.names)
  PROVE  /\ Len(Dml!ColumnIds(a)) = Len(Dml!Destination) /\ Len(Dml!Destination) \in Nat
         /\ \A i \in 1 .. Len(Dml!Destination) : Dml!ColumnIds(a)[i] \in 0 .. Len(a.names)
<1> DEFINE n == Len(Dml!Destination)
           m == Len(a.names)
<1>1. a.names \in Seq(Dml!Columns \cup {RowId, Other}) /\ m \in Nat /\ n \in Nat
  BY NameFacts, DestinationFacts
<1>2. ASSUME NEW i \in 1 .. n
      PROVE  Dml!Destination[i] \in Dml!Range(a.names)
  BY DEF Dml!Range
<1>3. n <= m
  <2>1. \A i \in 1 .. n : \E j \in 1 .. m : a.names[j] = Dml!Destination[i]
    BY <1>2 DEF Dml!Range
  <2> QED
    BY <1>1, <2>1, DestinationFacts, NotLonger
<1>4. /\ Len(Dml!ColumnIds(a)) = n
      /\ \A i \in 1 .. n :
           Dml!ColumnIds(a)[i] \in {0, i, Dml!Position(a.names, Dml!Destination[i])}
  BY <1>1 DEF Dml!ColumnIds
<1>5. ASSUME NEW i \in 1 .. n
      PROVE  Dml!ColumnIds(a)[i] \in 0 .. m
  <2>1. Dml!Position(a.names, Dml!Destination[i]) \in 1 .. m
    BY <1>2, PositionFacts
  <2>2. Dml!ColumnIds(a)[i] \in {0, i, Dml!Position(a.names, Dml!Destination[i])}
    BY <1>4
  <2> HIDE DEF n, m
  <2> QED
    BY <1>1, <1>3, <2>1, <2>2
<1> QED
  BY <1>1, <1>4, <1>5

\* What is sent stays as it is planned while the answer's columns are looked up.
LEMMA OpenKeeps ==
  ASSUME Dml!DmlInv, Dml!Open PROVE Dml!DmlInv'
<1>1. /\ step = "planned" /\ UNCHANGED <<stmt, send_names, batch, collection>>
      /\ answer' \in Answers
      /\ \/ step' = "sinking" /\ ~stmt.returning /\ UNCHANGED data_columns
         \/ /\ step' = "sinking" /\ Dml!Range(Dml!Destination) \subseteq Dml!Range(answer'.names)
            /\ data_columns' = Dml!ColumnIds(answer')
         \/ step' = "refused" /\ UNCHANGED data_columns
  BY DEF Dml!Open
<1>2. /\ stmt \in Dml!Statements /\ batch = <<>> /\ collection = <<>> /\ data_columns = <<>>
      /\ send_names = Dml!SendNames
      /\ Dml!Range(send_names) \subseteq Dml!Columns \cup {RowId} /\ Dml!Distinct(send_names)
  BY <1>1 DEF Dml!DmlInv, Dml!TypeOK, Dml!PhaseInv
<1>3. \A i \in 1 .. Len(data_columns') : data_columns'[i] \in 0 .. Len(answer'.names)
  <2>1. CASE data_columns' = <<>>
    BY <2>1
  <2>2. CASE /\ Dml!Range(Dml!Destination) \subseteq Dml!Range(answer'.names)
             /\ data_columns' = Dml!ColumnIds(answer')
    BY <1>1, <1>2, <2>2, ColumnIdsFacts
  <2> QED
    BY <1>1, <1>2, <2>1, <2>2
<1>4. /\ Dml!SendNames' = Dml!SendNames /\ Dml!Destination' = Dml!Destination
  BY <1>1 DEF Dml!SendNames, Dml!Destination
<1>5. \A a : Dml!ColumnIds(a)' = Dml!ColumnIds(a)
  BY <1>1, <1>4 DEF Dml!ColumnIds
<1>6. Dml!TypeOK'
  BY <1>1, <1>2, <1>3 DEF Dml!TypeOK
<1>7. Dml!PhaseInv'
  BY <1>1, <1>2, <1>4, <1>5 DEF Dml!PhaseInv
<1> QED
  BY <1>1, <1>2, <1>6, <1>7
     DEF Dml!DmlInv, Dml!SentUnderOwnName, Dml!NotNullIsKept, Dml!RowsReturnedByName,
         Dml!EchoedUpdateReturned

\* The values there are.
LEMMA ValueFacts ==
  /\ \A c \in Dml!Columns : Dml!Given(c) \in Dml!Values /\ Dml!DefaultValue(c) \in Dml!Values
  /\ \A c \in Dml!Columns \cup {RowId, Other} : Dml!Stored(c) \in Dml!Values
  /\ <<"null", RowId>> \in Dml!Values
BY DEF Dml!Given, Dml!DefaultValue, Dml!Stored, Dml!Values

\* A chunk of an INSERT is put in the order of the table.
LEMMA DefaultsResolved ==
  ASSUME stmt \in Dml!Statements
  PROVE  /\ Len(Dml!ResolveDefaults) = Len(RowColumns)
         /\ \A i \in 1 .. Len(RowColumns) :
              Dml!ResolveDefaults[i] =
                IF stmt.columns = <<>> \/ RowColumns[i] \in Dml!Range(stmt.columns)
                THEN Dml!Given(RowColumns[i]) ELSE Dml!DefaultValue(RowColumns[i])
<1> USE StatementFacts, NameFacts
<1>1. ASSUME NEW i \in 1 .. Len(RowColumns)
      PROVE  Dml!ResolveDefaults[i] =
               IF stmt.columns = <<>> \/ RowColumns[i] \in Dml!Range(stmt.columns)
               THEN Dml!Given(RowColumns[i]) ELSE Dml!DefaultValue(RowColumns[i])
  <2> DEFINE c == RowColumns[i]
  <2>1. c \in Dml!Columns
    OBVIOUS
  <2>2. CASE stmt.columns = <<>>
    <3>1. Dml!InsertChunk[i] = Dml!Given(c)
      BY <2>2 DEF Dml!InsertChunk
    <3> QED
      BY <2>2, <3>1 DEF Dml!ResolveDefaults
  <2>3. CASE stmt.columns # <<>> /\ c \in Dml!Range(stmt.columns)
    <3> DEFINE at == Dml!Position(stmt.columns, c)
    <3>1. at \in 1 .. Len(stmt.columns) /\ stmt.columns[at] = c
      BY <2>3, PositionFacts
    <3>2. Dml!ColumnIndexMap[c] = at
      BY <2>1, <2>3 DEF Dml!ColumnIndexMap
    <3> HIDE DEF at
    <3>3. Dml!InsertChunk[at] = Dml!Given(c)
      BY <2>3, <3>1 DEF Dml!InsertChunk
    <3>4. at # 0
      BY <3>1
    <3> QED
      BY <2>3, <3>2, <3>3, <3>4 DEF Dml!ResolveDefaults
  <2>4. CASE stmt.columns # <<>> /\ c \notin Dml!Range(stmt.columns)
    <3>1. Dml!ColumnIndexMap[c] = 0
      BY <2>1, <2>4 DEF Dml!ColumnIndexMap
    <3> QED
      BY <2>4, <3>1 DEF Dml!ResolveDefaults
  <2> QED
    BY <2>2, <2>3, <2>4
<1> QED
  BY <1>1 DEF Dml!ResolveDefaults

\* A row of an INSERT is sent with the value of each column under its name.
LEMMA SinkInsertKeeps ==
  ASSUME Dml!DmlInv, Dml!SinkInsert PROVE Dml!DmlInv'
<1>1. /\ step = "sinking" /\ stmt.kind = "insert"
      /\ UNCHANGED <<stmt, send_names, answer, data_columns, collection>>
      /\ \/ /\ Dml!VerifyAppendConstraints(Dml!ResolveDefaults)
            /\ batch' = Dml!ResolveDefaults /\ step' = "written"
         \/ UNCHANGED batch /\ step' = "refused"
  BY DEF Dml!SinkInsert
<1>2. /\ stmt \in Dml!Statements /\ batch = <<>> /\ collection = <<>>
      /\ send_names = Dml!SendNames /\ Dml!TypeOK /\ Dml!PhaseInv
  BY <1>1 DEF Dml!DmlInv, Dml!TypeOK, Dml!PhaseInv
<1>3. /\ send_names = RowColumns /\ Dml!Distinct(send_names)
      /\ Len(RowColumns) \in Nat /\ Len(RowColumns) > 0
      /\ \A i \in 1 .. Len(RowColumns) : RowColumns[i] \in Dml!Columns
  BY <1>1, <1>2, NameFacts DEF Dml!SendNames
<1>4. /\ Dml!SendNames' = Dml!SendNames /\ Dml!Destination' = Dml!Destination
      /\ \A a : Dml!ColumnIds(a)' = Dml!ColumnIds(a)
  BY <1>1 DEF Dml!SendNames, Dml!Destination, Dml!ColumnIds
<1>5. Dml!PhaseInv'
  <2>1. step' = "written" => batch' # <<>>
    <3>1. Len(Dml!ResolveDefaults) # 0
      BY <1>2, <1>3, DefaultsResolved
    <3>2. Dml!ResolveDefaults # <<>>
      BY <3>1
    <3> QED
      BY <1>1, <3>2
  <2> QED
    BY <1>1, <1>2, <1>4, <2>1 DEF Dml!PhaseInv
<1>6. CASE step' = "refused" /\ UNCHANGED batch
  <2>1. Dml!TypeOK'
    BY <1>1, <1>2, <1>6 DEF Dml!TypeOK
  <2> QED
    BY <1>1, <1>2, <1>5, <1>6, <2>1
       DEF Dml!DmlInv, Dml!SentUnderOwnName, Dml!NotNullIsKept, Dml!RowsReturnedByName,
           Dml!EchoedUpdateReturned
<1>7. CASE Dml!VerifyAppendConstraints(Dml!ResolveDefaults) /\ batch' = Dml!ResolveDefaults
           /\ step' = "written"
  <2>1. /\ Len(batch') = Len(RowColumns)
        /\ \A i \in 1 .. Len(RowColumns) :
             batch'[i] = IF stmt.columns = <<>> \/ RowColumns[i] \in Dml!Range(stmt.columns)
                         THEN Dml!Given(RowColumns[i]) ELSE Dml!DefaultValue(RowColumns[i])
    BY <1>2, <1>7, DefaultsResolved
  <2>2. Dml!Range(batch') \subseteq Dml!Values
    <3>1. \A i \in 1 .. Len(RowColumns) : batch'[i] \in Dml!Values
      BY <1>3, <2>1, ValueFacts
    <3> QED
      BY <2>1, <3>1 DEF Dml!Range
  <2>3. Dml!TypeOK'
    BY <1>1, <1>2, <1>3, <1>7, <2>1, <2>2 DEF Dml!TypeOK
  <2>4. Dml!SentUnderOwnName'
    <3>1. \A c : Dml!Given(c)' = Dml!Given(c) /\ Dml!DefaultValue(c)' = Dml!DefaultValue(c)
      BY <1>1 DEF Dml!Given, Dml!DefaultValue
    <3>2. RowId \notin Dml!Columns
      BY NameFacts
    <3> QED
      BY <1>1, <1>3, <2>1, <3>1, <3>2 DEF Dml!SentUnderOwnName
  <2>5. Dml!NotNullIsKept'
    <3>1. SUFFICES ASSUME NEW i \in 1 .. Len(RowColumns), RowColumns[i] \in NotNull
                   PROVE  ~Dml!IsNull(batch'[i])
      BY <1>1, <1>3 DEF Dml!NotNullIsKept
    <3>2. Dml!Position(send_names, RowColumns[i]) = i /\ RowColumns[i] \in Dml!Range(send_names)
      BY <1>3, DistinctPosition
    <3> QED
      BY <1>7, <3>1, <3>2 DEF Dml!VerifyAppendConstraints
  <2> QED
    BY <1>1, <1>2, <1>5, <2>3, <2>4, <2>5
       DEF Dml!DmlInv, Dml!RowsReturnedByName, Dml!EchoedUpdateReturned
<1> QED
  BY <1>1, <1>6, <1>7

\* So is a row of an UPDATE, and the row id of a DELETE.
LEMMA SinkOthersKeep ==
  ASSUME Dml!DmlInv, Dml!SinkUpdate \/ Dml!SinkDelete PROVE Dml!DmlInv'
<1>1. /\ step = "sinking" /\ step' = "written" /\ stmt.kind \in {"update", "delete"}
      /\ UNCHANGED <<stmt, send_names, answer, data_columns, collection>>
      /\ stmt.kind = "update" =>
           batch' = [i \in 1 .. Len(send_names) |->
                       IF i <= Len(stmt.columns) THEN Dml!Given(stmt.columns[i]) ELSE Dml!Stored(RowId)]
      /\ stmt.kind = "delete" => batch' = <<Dml!Stored(RowId)>>
  BY DEF Dml!SinkUpdate, Dml!SinkDelete
<1>2. /\ stmt \in Dml!Statements /\ batch = <<>> /\ collection = <<>>
      /\ send_names = Dml!SendNames /\ Dml!TypeOK /\ Dml!PhaseInv
  BY <1>1 DEF Dml!DmlInv, Dml!TypeOK, Dml!PhaseInv
<1>3. /\ Dml!SendNames' = Dml!SendNames /\ Dml!Destination' = Dml!Destination
      /\ \A a : Dml!ColumnIds(a)' = Dml!ColumnIds(a)
  BY <1>1 DEF Dml!SendNames, Dml!Destination, Dml!ColumnIds
<1>4. /\ RowId \notin Dml!Columns /\ Len(stmt.columns) \in Nat
      /\ \A i \in 1 .. Len(stmt.columns) : stmt.columns[i] \in Dml!Columns
      /\ stmt.kind = "update" => /\ send_names = Append(stmt.columns, RowId)
                                 /\ Len(send_names) = Len(stmt.columns) + 1
      /\ stmt.kind = "delete" => send_names = <<RowId>> /\ Len(send_names) = 1
  BY <1>1, <1>2, NameFacts, StatementFacts DEF Dml!SendNames
<1>5. /\ Len(batch') = Len(send_names) /\ batch' # <<>> /\ Len(send_names) \in Nat
      /\ \A i \in 1 .. Len(send_names) :
           \/ send_names[i] = RowId /\ batch'[i] = Dml!Stored(RowId)
           \/ /\ send_names[i] \in Dml!Columns /\ send_names[i] \in Dml!Range(stmt.columns)
              /\ batch'[i] = Dml!Given(send_names[i])
  <2>1. CASE stmt.kind = "update"
    <3>1. /\ Len(batch') = Len(send_names) /\ batch' # <<>> /\ Len(send_names) \in Nat
      BY <1>1, <1>4, <2>1
    <3>2. ASSUME NEW i \in 1 .. Len(send_names)
          PROVE  \/ send_names[i] = RowId /\ batch'[i] = Dml!Stored(RowId)
                 \/ /\ send_names[i] \in Dml!Columns /\ send_names[i] \in Dml!Range(stmt.columns)
                    /\ batch'[i] = Dml!Given(send_names[i])
      <4>1. CASE i <= Len(stmt.columns)
        <5>1. i \in 1 .. Len(stmt.columns) /\ send_names[i] = stmt.columns[i]
          BY <1>2, <1>4, <2>1, <4>1, StatementFacts
        <5>2. stmt.columns[i] \in Dml!Range(stmt.columns)
          BY <5>1 DEF Dml!Range
        <5> QED
          BY <1>1, <1>4, <2>1, <4>1, <5>1, <5>2
      <4>2. CASE ~(i <= Len(stmt.columns))
        <5>1. i = Len(stmt.columns) + 1
          BY <1>4, <2>1, <4>2
        <5>2. send_names[i] = RowId
          BY <1>2, <1>4, <2>1, <5>1, StatementFacts
        <5> QED
          BY <1>1, <2>1, <4>2, <5>2
      <4> QED
        BY <4>1, <4>2
    <3> QED
      BY <3>1, <3>2
  <2>2. CASE stmt.kind = "delete"
    <3>1. /\ send_names = <<RowId>> /\ batch' = <<Dml!Stored(RowId)>>
          /\ Len(batch') = 1 /\ Len(send_names) = 1 /\ \A i \in 1 .. 1 : i = 1
      BY <1>1, <1>4, <2>2
    <3>2. send_names[1] = RowId /\ batch'[1] = Dml!Stored(RowId) /\ batch' # <<>>
      BY <3>1
    <3> QED
      BY <3>1, <3>2
  <2> QED
    BY <1>1, <2>1, <2>2
<1>6. Dml!PhaseInv'
  BY <1>1, <1>2, <1>3, <1>5 DEF Dml!PhaseInv
<1>7. Dml!Range(batch') \subseteq Dml!Values
  <2>1. \A i \in 1 .. Len(batch') : batch'[i] \in Dml!Values
    BY <1>5, ValueFacts
  <2> QED
    BY <2>1 DEF Dml!Range
<1>8. Dml!TypeOK'
  BY <1>1, <1>2, <1>5, <1>7 DEF Dml!TypeOK
<1>9. Dml!SentUnderOwnName'
  <2>1. \A c : Dml!Given(c)' = Dml!Given(c) /\ Dml!DefaultValue(c)' = Dml!DefaultValue(c)
    BY <1>1 DEF Dml!Given, Dml!DefaultValue
  <2> QED
    BY <1>1, <1>4, <1>5, <2>1 DEF Dml!SentUnderOwnName
<1> QED
  BY <1>1, <1>2, <1>6, <1>8, <1>9
     DEF Dml!DmlInv, Dml!NotNullIsKept, Dml!RowsReturnedByName, Dml!EchoedUpdateReturned

\* What the server has in a column is a value.
LEMMA ServerRowValue ==
  ASSUME Dml!TypeOK, batch # <<>>, NEW c \in Dml!Columns \cup {RowId, Other}
  PROVE  Dml!ServerRow(c) \in Dml!Values
<1>1. CASE stmt.kind # "delete" /\ c \in Dml!Range(send_names)
  <2>1. Dml!Position(send_names, c) \in 1 .. Len(batch)
    BY <1>1, PositionFacts DEF Dml!TypeOK
  <2>2. batch[Dml!Position(send_names, c)] \in Dml!Range(batch)
    BY <2>1 DEF Dml!Range
  <2>3. Dml!Range(batch) \subseteq Dml!Values
    BY DEF Dml!TypeOK
  <2>4. Dml!ServerRow(c) = batch[Dml!Position(send_names, c)]
    BY <1>1 DEF Dml!ServerRow
  <2> QED
    BY <2>2, <2>3, <2>4
<1>2. CASE ~(stmt.kind # "delete" /\ c \in Dml!Range(send_names))
  <2>1. Dml!ServerRow(c) = Dml!Stored(c)
    BY <1>2 DEF Dml!ServerRow
  <2> QED
    BY <2>1, ValueFacts
<1> QED
  BY <1>1, <1>2

\* Where the columns of the row that is returned come from.
LEMMA ColumnsRead ==
  ASSUME Dml!DmlInv, step = "written", stmt.returning
  PROVE  /\ answer \in Answers /\ Len(RowColumns) <= Len(data_columns)
         /\ \A i \in 1 .. Len(data_columns) : data_columns[i] \in 0 .. Len(answer.names)
         /\ \A i \in 1 .. Len(RowColumns) :
              IF stmt.kind = "update" THEN data_columns[i] = i
              ELSE data_columns[i] # 0 /\ answer.names[data_columns[i]] = RowColumns[i]
<1>1. /\ stmt \in Dml!Statements /\ answer \in Answers
      /\ Dml!Range(Dml!Destination) \subseteq Dml!Range(answer.names)
      /\ data_columns = Dml!ColumnIds(answer)
      /\ \A i \in 1 .. Len(data_columns) : data_columns[i] \in 0 .. Len(answer.names)
  BY DEF Dml!DmlInv, Dml!TypeOK, Dml!PhaseInv
<1>2. Len(data_columns) = Len(Dml!Destination) /\ Len(Dml!Destination) \in Nat
  BY <1>1, ColumnIdsFacts
<1>3. ASSUME NEW i \in 1 .. Len(RowColumns)
      PROVE  IF stmt.kind = "update" THEN data_columns[i] = i
             ELSE data_columns[i] # 0 /\ answer.names[data_columns[i]] = RowColumns[i]
  <2>1. /\ i \in 1 .. Len(Dml!Destination) /\ Dml!Destination[i] = RowColumns[i]
        /\ RowColumns[i] \in Dml!Columns /\ RowColumns[i] # RowId
    BY <1>1, <1>2, DestinationFacts, NameFacts
  <2>2. data_columns[i] = CASE stmt.kind # "update" -> Dml!Position(answer.names, Dml!Destination[i])
                            [] answer.marked /\ Dml!Destination[i] = RowId -> 0
                            [] OTHER -> i
    BY <1>1, <2>1 DEF Dml!ColumnIds
  <2>3. Dml!Destination[i] \in Dml!Range(answer.names)
    BY <1>1, <2>1 DEF Dml!Range
  <2>4. /\ Dml!Position(answer.names, Dml!Destination[i]) \in 1 .. Len(answer.names)
        /\ answer.names[Dml!Position(answer.names, Dml!Destination[i])] = RowColumns[i]
    BY <2>1, <2>3, PositionFacts
  <2> QED
    BY <2>1, <2>2, <2>4
<1> QED
  BY <1>1, <1>2, <1>3, DestinationFacts

\* A row that is returned has the server's value of each column in the column's place.
LEMMA ReadKeeps ==
  ASSUME Dml!DmlInv, Dml!Read PROVE Dml!DmlInv'
<1>1. /\ step = "written" /\ stmt.returning /\ step' = "finished"
      /\ collection' = IF stmt.kind = "update" THEN Dml!ReturnedUpdate
                       ELSE [i \in 1 .. Len(RowColumns) |-> Dml!ReadColumn(i)]
      /\ UNCHANGED <<stmt, send_names, batch, answer, data_columns>>
  BY DEF Dml!Read
<1>2. /\ stmt \in Dml!Statements /\ Dml!TypeOK /\ Dml!PhaseInv
      /\ send_names = Dml!SendNames
      /\ Dml!SentUnderOwnName /\ Dml!NotNullIsKept
  BY <1>1 DEF Dml!DmlInv, Dml!TypeOK, Dml!PhaseInv
<1>3. /\ answer \in Answers /\ Len(RowColumns) <= Len(data_columns)
      /\ \A i \in 1 .. Len(data_columns) : data_columns[i] \in 0 .. Len(answer.names)
      /\ \A i \in 1 .. Len(RowColumns) :
           IF stmt.kind = "update" THEN data_columns[i] = i
           ELSE data_columns[i] # 0 /\ answer.names[data_columns[i]] = RowColumns[i]
  BY <1>1, ColumnsRead
<1>4. /\ Dml!SendNames' = Dml!SendNames /\ Dml!Destination' = Dml!Destination
      /\ \A a : Dml!ColumnIds(a)' = Dml!ColumnIds(a)
      /\ \A c : Dml!ServerRow(c)' = Dml!ServerRow(c)
      /\ \A c : Dml!Given(c)' = Dml!Given(c) /\ Dml!DefaultValue(c)' = Dml!DefaultValue(c)
  BY <1>1 DEF Dml!SendNames, Dml!Destination, Dml!ColumnIds, Dml!ServerRow, Dml!Given, Dml!DefaultValue
<1>5. Dml!PhaseInv' /\ Dml!SentUnderOwnName' /\ Dml!NotNullIsKept'
  BY <1>1, <1>2, <1>4 DEF Dml!PhaseInv, Dml!SentUnderOwnName, Dml!NotNullIsKept
<1>6. /\ Len(RowColumns) \in Nat /\ Len(RowColumns) > 0 /\ Len(data_columns) \in Nat
      /\ \A i \in 1 .. Len(RowColumns) : RowColumns[i] \in Dml!Columns
  <2>1. Len(data_columns) = Len(Dml!Destination) /\ Len(Dml!Destination) \in Nat
    BY <1>1, <1>2, <1>3, ColumnIdsFacts DEF Dml!PhaseInv
  <2> QED
    BY <2>1, NameFacts
<1>7. ASSUME NEW j \in 1 .. Len(data_columns)
      PROVE  Dml!ReadColumn(j) \in Dml!Values
  <2>1. CASE data_columns[j] = 0
    BY <2>1, ValueFacts DEF Dml!ReadColumn
  <2>2. CASE data_columns[j] # 0
    <3> DEFINE c == answer.names[data_columns[j]]
    <3>1. c \in Dml!Columns \cup {RowId, Other}
      <4>1. data_columns[j] \in 1 .. Len(answer.names)
        BY <1>3, <2>2, NameFacts
      <4> QED
        BY <1>3, <4>1, NameFacts
    <3>2. batch # <<>>
      BY <1>1, <1>2 DEF Dml!PhaseInv
    <3>3. Dml!ReadColumn(j) = Dml!ServerRow(c)
      BY <2>2 DEF Dml!ReadColumn
    <3> HIDE DEF c
    <3> QED
      BY <1>2, <3>1, <3>2, <3>3, ServerRowValue
  <2> QED
    BY <2>1, <2>2
<1>8. \A c \in Dml!Columns : /\ Dml!Position(RowColumns, c) \in 1 .. Len(RowColumns)
                             /\ RowColumns[Dml!Position(RowColumns, c)] = c
  BY NameFacts, PositionFacts
<1>9. \A c : Dml!Returned(c)' = collection'[Dml!Position(RowColumns, c)]
  BY DEF Dml!Returned
<1>10. CASE stmt.kind # "update"
  <2>1. /\ Len(collection') = Len(RowColumns)
        /\ \A i \in 1 .. Len(RowColumns) : collection'[i] = Dml!ReadColumn(i)
    BY <1>1, <1>6, <1>10
  <2>2. \A i \in 1 .. Len(RowColumns) : Dml!ReadColumn(i) = Dml!ServerRow(RowColumns[i])
    BY <1>3, <1>10 DEF Dml!ReadColumn
  <2>3. Dml!RowsReturnedByName'
    BY <1>4, <1>8, <1>9, <2>1, <2>2 DEF Dml!RowsReturnedByName
  <2>4. Dml!Range(collection') \subseteq Dml!Values
    <3>1. \A i \in 1 .. Len(collection') : collection'[i] \in Dml!Values
      BY <1>3, <1>6, <1>7, <2>1
    <3> QED
      BY <3>1 DEF Dml!Range
  <2>5. Dml!TypeOK'
    BY <1>1, <1>2, <2>1, <2>4 DEF Dml!TypeOK
  <2> QED
    BY <1>1, <1>5, <1>10, <2>3, <2>5 DEF Dml!DmlInv, Dml!EchoedUpdateReturned
<1>11. CASE stmt.kind = "update"
  <2> DEFINE Set(i) == Dml!Position(stmt.columns, RowColumns[i])
  <2>1. /\ Len(collection') = Len(RowColumns)
        /\ \A i \in 1 .. Len(RowColumns) : collection'[i] = Dml!ReadColumn(Set(i))
    BY <1>1, <1>6, <1>11 DEF Dml!ReturnedUpdate
  <2>2. ASSUME NEW i \in 1 .. Len(RowColumns)
        PROVE  /\ Set(i) \in 1 .. Len(stmt.columns) /\ stmt.columns[Set(i)] = RowColumns[i]
               /\ Set(i) \in 1 .. Len(RowColumns)
    <3>1. RowColumns[i] \in Dml!Range(stmt.columns)
      BY <1>1, <1>2, <1>6, <1>11, StatementFacts
    <3>2. Set(i) \in 1 .. Len(stmt.columns) /\ stmt.columns[Set(i)] = RowColumns[i]
      BY <3>1, PositionFacts
    <3>3. Len(stmt.columns) <= Len(RowColumns) /\ Len(stmt.columns) \in Nat
      BY <1>2, StatementFacts
    <3> HIDE DEF Set
    <3> QED
      BY <1>6, <3>2, <3>3
  <2>3. Dml!Range(collection') \subseteq Dml!Values
    <3>1. \A i \in 1 .. Len(RowColumns) : Set(i) \in 1 .. Len(data_columns)
      <4> HIDE DEF Set
      <4> QED
        BY <1>3, <1>6, <2>2
    <3>2. \A i \in 1 .. Len(collection') : collection'[i] \in Dml!Values
      BY <1>7, <2>1, <3>1
    <3> QED
      BY <3>2 DEF Dml!Range
  <2>4. Dml!TypeOK'
    BY <1>1, <1>2, <2>1, <2>3 DEF Dml!TypeOK
  <2>5. Dml!EchoedUpdateReturned'
    <3>1. SUFFICES ASSUME \A i \in 1 .. Len(send_names) : answer.names[i] = send_names[i],
                          NEW c \in Dml!Columns
                   PROVE  collection'[Dml!Position(RowColumns, c)] = Dml!ServerRow(c)
      BY <1>1, <1>4, <1>9 DEF Dml!EchoedUpdateReturned
    <3>2. PICK i \in 1 .. Len(RowColumns) : i = Dml!Position(RowColumns, c) /\ RowColumns[i] = c
      BY <1>8
    <3>3. /\ send_names = Append(stmt.columns, RowId) /\ Len(stmt.columns) \in Nat
          /\ Len(send_names) = Len(stmt.columns) + 1 /\ stmt.columns \in Seq(Dml!Columns)
      BY <1>2, <1>11, StatementFacts DEF Dml!SendNames
    <3>4. Set(i) \in 1 .. Len(send_names) /\ send_names[Set(i)] = c /\ Set(i) # 0
      <4>1. Set(i) \in 1 .. Len(stmt.columns) /\ stmt.columns[Set(i)] = c
        BY <2>2, <3>2
      <4> HIDE DEF Set
      <4> QED
        BY <3>3, <4>1
    <3>5. data_columns[Set(i)] = Set(i)
      BY <1>3, <1>11, <2>2
    <3>6. Dml!ReadColumn(Set(i)) = Dml!ServerRow(c)
      BY <3>1, <3>4, <3>5 DEF Dml!ReadColumn
    <3> QED
      BY <2>1, <3>2, <3>6
  <2> QED
    BY <1>1, <1>5, <1>11, <2>4, <2>5 DEF Dml!DmlInv, Dml!RowsReturnedByName
<1> QED
  BY <1>10, <1>11

\* Without RETURNING nothing but the phase changes, nor does it in steps of other parts.
LEMMA CountKeeps ==
  ASSUME Dml!DmlInv,
         \/ Dml!Count
         \/ UNCHANGED <<stmt, step, send_names, batch, answer, data_columns, collection>>
  PROVE  Dml!DmlInv'
<1>1. /\ UNCHANGED <<stmt, send_names, batch, answer, data_columns, collection>>
      /\ step' = step \/ (step = "written" /\ step' = "finished" /\ ~stmt.returning)
  BY DEF Dml!Count
<1>2. /\ Dml!SendNames' = Dml!SendNames /\ Dml!Destination' = Dml!Destination
      /\ \A a : Dml!ColumnIds(a)' = Dml!ColumnIds(a)
      /\ \A c : Dml!ServerRow(c)' = Dml!ServerRow(c)
      /\ \A c : Dml!Given(c)' = Dml!Given(c) /\ Dml!DefaultValue(c)' = Dml!DefaultValue(c)
      /\ \A c : Dml!Returned(c)' = Dml!Returned(c)
  BY <1>1 DEF Dml!SendNames, Dml!Destination, Dml!ColumnIds, Dml!ServerRow, Dml!Given,
              Dml!DefaultValue, Dml!Returned
<1>3. Dml!TypeOK'
  BY <1>1 DEF Dml!DmlInv, Dml!TypeOK
<1>4. Dml!PhaseInv'
  BY <1>1, <1>2 DEF Dml!DmlInv, Dml!PhaseInv
<1>5. Dml!SentUnderOwnName' /\ Dml!NotNullIsKept'
  BY <1>1, <1>2 DEF Dml!DmlInv, Dml!SentUnderOwnName, Dml!NotNullIsKept
<1>6. Dml!RowsReturnedByName' /\ Dml!EchoedUpdateReturned'
  BY <1>1, <1>2 DEF Dml!DmlInv, Dml!RowsReturnedByName, Dml!EchoedUpdateReturned
<1> QED
  BY <1>3, <1>4, <1>5, <1>6 DEF Dml!DmlInv

LEMMA NextDmlInv ==
  ASSUME Dml!DmlInv, [Dml!Next]_(Dml!vars) PROVE Dml!DmlInv'
BY PlanKeeps, OpenKeeps, SinkInsertKeeps, SinkOthersKeep, ReadKeeps, CountKeeps
   DEF Dml!Next, Dml!vars

\* Whatever the statement, the table and the server's columns, what is sent is each column's
\* value under its name, rows of an INSERT are not sent with NULL where it may not be, and a
\* returned row has the server's value of each column in its place (AirportInsert, -Update
\* and -Delete).
THEOREM RowsAreInPlace == PartsSpec => []RowsInPlace
<1> DEFINE Inv == part = "dml" => Dml!DmlInv
<1>1. PartsInit => Inv
  BY InitDmlInv DEF PartsInit
<1>2. Inv /\ [PartsNext]_allVars => Inv'
  <2> SUFFICES ASSUME Inv, [PartsNext]_allVars, part' = "dml"
               PROVE  Dml!DmlInv'
    OBVIOUS
  <2>1. part = "dml" /\ [Dml!Next]_(Dml!vars)
    BY DEF PartsNext, allVars, dmlVars, Dml!vars
  <2> QED
    BY <2>1, NextDmlInv
<1>3. Inv => RowsInPlace
  BY DEF RowsInPlace, Dml!DmlInv
<1> QED
  BY <1>1, <1>2, <1>3, PTL DEF PartsSpec

-----------------------------------------------------------------------------
(* The parameters of a function.                                           *)

LEMMA FunctionFacts ==
  ASSUME Function!TypeOK
  PROVE  /\ Len(function) \in Nat
         /\ \A i \in 1 .. Len(function) :
              /\ function[i] \in Function!Range(function)
              /\ function[i].kind \in {"positional", "named", "table"}
              /\ function[i].kind = "named" <=> function[i].name \in Function!Names("named")
              /\ function[i].kind = "table" <=> function[i].name \in Function!Names("table")
         /\ \A i, j \in 1 .. Len(function) : function[i].name = function[j].name => i = j
         /\ \A f \in Function!Range(function) : \E i \in 1 .. Len(function) : f = function[i]
<1>1. /\ function \in Seq(Function!Range(function))
      /\ \A i \in 1 .. Len(function) : function[i].kind \in Function!Kinds
      /\ \A i, j \in 1 .. Len(function) : i # j => function[i].name # function[j].name
  BY FunctionAssumption DEF Function!TypeOK, Function!FunctionsAssumption
<1>2. Len(function) \in Nat
  BY <1>1
<1>3. \A f \in Function!Range(function) : \E i \in 1 .. Len(function) : f = function[i]
  BY DEF Function!Range
<1>4. ASSUME NEW i \in 1 .. Len(function), NEW kind
      PROVE  function[i].kind = kind <=> function[i].name \in Function!Names(kind)
  <2>1. function[i] \in Function!Range(function)
    BY DEF Function!Range
  <2>2. CASE function[i].kind = kind
    BY <2>1, <2>2 DEF Function!Names
  <2>3. CASE function[i].name \in Function!Names(kind)
    <3>1. PICK f \in Function!Range(function) : f.kind = kind /\ f.name = function[i].name
      BY <2>3 DEF Function!Names
    <3>2. PICK j \in 1 .. Len(function) : f = function[j]
      BY <1>3
    <3>3. i = j
      BY <1>1, <3>1, <3>2
    <3> QED
      BY <2>3, <3>1, <3>2, <3>3
  <2> QED
    BY <2>2, <2>3
<1>5. \A i \in 1 .. Len(function) : function[i] \in Function!Range(function)
  BY DEF Function!Range
<1> QED
  BY <1>1, <1>2, <1>3, <1>4, <1>5 DEF Function!Kinds

\* The columns of the record, and how they stand if every field has its column.
LEMMA RecordColumns ==
  ASSUME Function!TypeOK
  PROVE  /\ Len(Function!Columns) \in Nat /\ Len(Function!Columns) <= Len(function)
         /\ {f.name : f \in Function!Range(Function!Columns)} \subseteq {f.name : f \in Function!Range(function)}
         /\ (\A i \in 1 .. Len(function) : function[i].kind # "table" => i <= Len(Function!Columns)) =>
              \A k \in 1 .. Len(Function!Columns) :
                function[k].kind # "table" /\ Function!Columns[k] = function[k]
<1> DEFINE P == {i \in 1 .. Len(function) : function[i].kind # "table"}
           q == InOrder(P, Len(function))
           c == Function!Columns
<1>1. Len(function) \in Nat
  BY FunctionFacts
<1>2. c = Selected(function, P)
  BY SameOperators DEF Function!Columns
<1>3. /\ Len(q) \in Nat /\ Len(q) <= Len(function) /\ Len(c) = Len(q)
      /\ \A k \in 1 .. Len(q) : q[k] \in 1 .. Len(function) /\ c[k] = function[q[k]]
  <2> HIDE DEF P, c
  <2> QED
    BY <1>1, <1>2, SelectedPlaces
<1>4. ASSUME NEW f \in Function!Range(c)
      PROVE  f \in Function!Range(function)
  <2> HIDE DEF c, q
  <2>1. PICK k \in 1 .. Len(c) : f = c[k]
    BY DEF Function!Range
  <2> QED
    BY <1>3, <2>1, FunctionFacts
<1>5. ASSUME \A i \in 1 .. Len(function) : function[i].kind # "table" => i <= Len(c)
      PROVE  \A k \in 1 .. Len(c) : function[k].kind # "table" /\ c[k] = function[k]
  <2>1. \A i \in 1 .. Len(function) : i \in P => i <= Len(q)
    BY <1>3, <1>5
  <2>2. \A k \in 1 .. Len(q) : k \in P /\ c[k] = function[k]
    <3> HIDE DEF P, c
    <3> QED
      BY <1>1, <1>2, <2>1, SelectedFirst
  <2> HIDE DEF q, c
  <2> QED
    BY <1>3, <2>2 DEF P
<1> HIDE DEF q, c
<1> QED
  BY <1>3, <1>4, <1>5 DEF c

\* For the functions that ParametersAsGiven is about.
Told ==
  /\ \A f \in Function!Range(function) : f.kind = "named" => ~f.any
  /\ Function!Names("table") # {} =>
       function[Len(function)].kind = "table" /\ Function!Names("named") = {}

\* Every field has its column, and a positional one its input.
LEMMA InputsFound ==
  ASSUME Function!TypeOK, Told, signature = Function!Signature,
         \A i, j \in 1 .. Len(signature) :
           signature[i].kind = "table" /\ signature[j].kind = "table" => i = j,
         NEW i \in 1 .. Len(function), function[i].kind # "table"
  PROVE  /\ i <= Len(Function!Columns)
         /\ function[i].kind = "positional" =>
              /\ Function!AnyIndex(i) \in 1 .. Len(signature)
              /\ signature[Function!AnyIndex(i)] = function[i]
              /\ Function!SourceIndex(i) = Function!AnyIndex(i)
<1> DEFINE n == Len(function)
           C == {j \in 1 .. n : function[j].kind # "table"}
           P == {j \in 1 .. n : function[j].kind # "named"}
           q == InOrder(P, n)
           r == InOrder(C, n)
<1>1. n \in Nat
  BY FunctionFacts
<1>2. /\ Len(Function!Columns) = Len(r) /\ Len(r) \in Nat
      /\ i - Skipped(C, i) \in 1 .. Len(r)
  <2>1. Function!Columns = Selected(function, C)
    BY SameOperators DEF Function!Columns
  <2>2. i \in C
    OBVIOUS
  <2> HIDE DEF C
  <2> QED
    BY <1>1, <2>1, <2>2, SelectedPlaces
<1>3. Function!SeenNamedParameters(i) = Skipped(P, i)
  <2>1. {j \in 1 .. i : function[j].kind = "named"} = {j \in 1 .. i : j \notin P}
    BY <1>1
  <2> QED
    BY <2>1, SameOperators DEF Function!SeenNamedParameters, Skipped
<1>4. CASE Function!Names("table") = {}
  <2>1. \A j \in 1 .. n : function[j].kind # "table"
    BY <1>4, FunctionFacts
  <2>2. Skipped(C, i) = 0
    <3>1. {j \in 1 .. i : j \notin C} = {}
      BY <1>1, <2>1
    <3> QED
      BY <3>1, FS_EmptySet DEF Skipped
  <2>3. i <= Len(Function!Columns)
    <3> HIDE DEF r, C
    <3> QED
      BY <1>1, <1>2, <2>2
  <2>4. ASSUME function[i].kind = "positional"
        PROVE  /\ Function!AnyIndex(i) \in 1 .. Len(signature)
               /\ signature[Function!AnyIndex(i)] = function[i]
               /\ Function!SourceIndex(i) = Function!AnyIndex(i)
    <3> DEFINE k == i - Skipped(P, i)
    <3>1. signature = Selected(function, P)
      BY <1>4, SameOperators DEF Function!Signature
    <3>2. i \in P
      BY <2>4
    <3>3. /\ Len(q) \in Nat /\ Len(q) <= n /\ Len(signature) = Len(q)
          /\ k \in 1 .. Len(q) /\ q[k] = i /\ signature[k] = function[q[k]]
      <4> HIDE DEF P
      <4> QED
        BY <1>1, <3>1, <3>2, SelectedPlaces
    <3>4. Function!AnyIndex(i) = k
      BY <1>3 DEF Function!AnyIndex
    <3>5. Function!SourceIndex(i) = IF function[k].kind = "table" THEN 0 ELSE k
      BY <1>3 DEF Function!SourceIndex
    <3> HIDE DEF k, q, n
    <3>6. k \in 1 .. n
      BY <1>1, <3>3
    <3> QED
      BY <2>1, <3>3, <3>4, <3>5, <3>6
  <2> QED
    BY <2>3, <2>4
<1>5. CASE Function!Names("table") # {}
  <2>1. /\ function[n].kind = "table" /\ signature = function
        /\ \A j \in 1 .. n : function[j].kind # "named"
    BY <1>5, FunctionFacts DEF Told, Function!Signature
  <2>2. \A j \in 1 .. n - 1 : function[j].kind # "table"
    BY <1>1, <2>1
  <2>3. i \in 1 .. n - 1
    BY <1>1, <2>1
  <2>4. Skipped(C, i) = 0 /\ Skipped(P, i) = 0
    <3>1. {j \in 1 .. i : j \notin C} = {} /\ {j \in 1 .. i : j \notin P} = {}
      BY <1>1, <2>1, <2>2, <2>3
    <3> QED
      BY <3>1, FS_EmptySet DEF Skipped
  <2>5. i <= Len(Function!Columns)
    <3> HIDE DEF r, C
    <3> QED
      BY <1>1, <1>2, <2>4
  <2>6. Function!AnyIndex(i) = i /\ Function!SourceIndex(i) = i
    BY <1>1, <1>3, <2>4 DEF Function!AnyIndex, Function!SourceIndex
  <2> QED
    BY <2>1, <2>5, <2>6
<1> QED
  BY <1>4, <1>5

LEMMA InitFunctionInv == Function!Init => Function!FunctionInv
<1> SUFFICES ASSUME Function!Init PROVE Function!FunctionInv
  OBVIOUS
<1>1. /\ function \in Functions /\ step = "listed" /\ signature = <<>> /\ inputs = <<>>
      /\ named = [m \in {} |-> m] /\ parameters = <<>>
  BY DEF Function!Init
<1>2. Function!Range(<<>>) = {}
  BY DEF Function!Range
<1>3. DOMAIN named = {} /\ Len(<<>>) = 0
  BY <1>1
<1>4. Len(function) \in Nat
  BY <1>1, FunctionAssumption DEF Function!FunctionsAssumption
<1>5. Function!TypeOK
  BY <1>1, <1>2, <1>3, <1>4 DEF Function!TypeOK
<1> QED
  BY <1>1, <1>5 DEF Function!FunctionInv, Function!CallInv, Function!ParametersAsGiven

LEMMA LoadKeeps ==
  ASSUME Function!FunctionInv, Function!LoadEntries
  PROVE  Function!FunctionInv'
<1>1. /\ step = "listed" /\ step' = "loaded" /\ signature' = Function!Signature
      /\ UNCHANGED <<function, inputs, named, parameters>>
  BY DEF Function!LoadEntries
<1>2. Function!TypeOK /\ inputs = <<>> /\ named = [m \in {} |-> m] /\ parameters = <<>>
  BY <1>1 DEF Function!FunctionInv, Function!CallInv
<1>3. Function!Range(Function!Signature) \subseteq Function!Range(function)
  <2> DEFINE P == {i \in 1 .. Len(function) : function[i].kind # "named"}
             q == InOrder(P, Len(function))
             s == Selected(function, P)
  <2>1. /\ Len(q) \in Nat /\ Len(s) = Len(q)
        /\ \A k \in 1 .. Len(q) : q[k] \in 1 .. Len(function) /\ s[k] = function[q[k]]
    <3> HIDE DEF P
    <3> QED
      BY <1>2, FunctionFacts, SelectedPlaces
  <2>2. Function!Signature = function \/ Function!Signature = s
    BY SameOperators DEF Function!Signature
  <2> HIDE DEF q, s
  <2> QED
    BY <2>1, <2>2 DEF Function!Range
<1>4. Function!TypeOK'
  <2>1. Len(inputs') = 0
    BY <1>1, <1>2
  <2> QED
    BY <1>1, <1>2, <1>3, <2>1 DEF Function!TypeOK, Function!Range, Function!Names
<1>5. Function!CallInv'
  BY <1>1, <1>2 DEF Function!CallInv, Function!Signature, Function!Names
<1> QED
  BY <1>1, <1>4, <1>5 DEF Function!FunctionInv, Function!ParametersAsGiven

LEMMA CallKeeps ==
  ASSUME Function!FunctionInv, Function!Call
  PROVE  Function!FunctionInv'
<1>1. /\ step = "loaded" /\ step' = "called" /\ UNCHANGED <<function, signature, parameters>>
      /\ \A i, j \in 1 .. Len(signature) :
           signature[i].kind = "table" /\ signature[j].kind = "table" => i = j
  BY DEF Function!Call
<1>2. Function!TypeOK /\ signature = Function!Signature /\ parameters = <<>>
  BY <1>1 DEF Function!FunctionInv, Function!CallInv
<1>3. Len(signature) \in Nat
  <2>1. CASE signature = function
    BY <1>2, <2>1, FunctionFacts
  <2>2. CASE signature # function
    BY <1>2, <2>2, FunctionFacts, SelectedPlaces, SameOperators DEF Function!Signature
  <2> QED
    BY <2>1, <2>2
<1>4. /\ Len(inputs') = Len(signature)
      /\ \A i \in 1 .. Len(signature) :
           /\ inputs'[i].of = IF signature[i].kind = "table" THEN Unused ELSE signature[i].name
           /\ inputs'[i].type \in Function!TypesOf(signature[i])
  <2>1. PICK T : inputs' \in [1 .. Len(signature) -> T]
    BY DEF Function!Call
  <2>2. Len(inputs') = Len(signature)
    BY <1>3, <2>1
  <2> QED
    BY <2>2 DEF Function!Call
<1>5. /\ DOMAIN named' \subseteq Function!Names("named")
      /\ \A f \in Function!Range(function) :
           f.name \in DOMAIN named' =>
             named'[f.name].of = f.name /\ named'[f.name].type \in Function!TypesOf(f)
  <2>1. PICK given \in SUBSET Function!Names("named") :
          named' \in {m \in [given -> [of : given, type : UNION {Function!TypesOf(f) : f \in Function!Range(function)}]] :
                        \A f \in Function!Range(function) :
                          f.name \in given => m[f.name].of = f.name /\ m[f.name].type \in Function!TypesOf(f)}
    BY DEF Function!Call
  <2>2. DOMAIN named' = given
    BY <2>1
  <2> QED
    BY <2>1, <2>2
<1>6. /\ Function!Signature' = Function!Signature /\ \A f : Function!TypesOf(f)' = Function!TypesOf(f)
      /\ Function!Names("named")' = Function!Names("named") /\ Function!Names("table")' = Function!Names("table")
      /\ Function!Range(function)' = Function!Range(function)
      /\ Function!Range(signature)' = Function!Range(signature)
      /\ Function!Range(parameters)' = Function!Range(parameters)
  BY <1>1 DEF Function!Signature, Function!TypesOf, Function!Names, Function!Range
<1>7. Function!TypeOK'
  BY <1>1, <1>2, <1>4, <1>5, <1>6 DEF Function!TypeOK
<1>8. Function!CallInv'
  BY <1>1, <1>2, <1>4, <1>5, <1>6 DEF Function!CallInv
<1> QED
  BY <1>1, <1>7, <1>8 DEF Function!FunctionInv, Function!ParametersAsGiven

\* The inputs are for fields with names of their own.
LEMMA SignatureNames ==
  ASSUME Function!TypeOK, signature = Function!Signature,
         NEW j \in 1 .. Len(signature), NEW k \in 1 .. Len(signature), signature[j].name = signature[k].name
  PROVE  j = k
<1> DEFINE P == {i \in 1 .. Len(function) : function[i].kind # "named"}
           q == InOrder(P, Len(function))
<1>1. Len(function) \in Nat /\ \A x, y \in 1 .. Len(function) : function[x].name = function[y].name => x = y
  BY FunctionFacts
<1>2. signature = function \/ signature = Selected(function, P)
  BY SameOperators DEF Function!Signature
<1>3. CASE signature = Selected(function, P)
  <2>1. /\ Len(q) \in Nat /\ Len(signature) = Len(q)
        /\ \A x \in 1 .. Len(q) : /\ q[x] \in 1 .. Len(function) /\ signature[x] = function[q[x]]
                                  /\ x = q[x] - Skipped(P, q[x])
    <3> HIDE DEF P
    <3> QED
      BY <1>1, <1>3, SelectedPlaces
  <2> HIDE DEF q, P
  <2>2. q[j] = q[k]
    BY <1>1, <2>1
  <2>3. j = q[j] - Skipped(P, q[j]) /\ k = q[k] - Skipped(P, q[k])
    BY <2>1
  <2> QED
    BY <2>2, <2>3
<1> QED
  BY <1>1, <1>2, <1>3

\* A column has the value of a field, or none.
LEMMA ValueOfField ==
  ASSUME Function!TypeOK, Function!CallInv, step = "called", ~Function!Fails,
         NEW i \in 1 .. Len(function), function[i].kind # "table"
  PROVE  Function!ColumnValue(i) \in {f.name : f \in Function!Range(function)} \cup {Unused}
<1>1. /\ Len(inputs) = Len(signature)
      /\ \A j \in 1 .. Len(signature) :
           inputs[j].of = IF signature[j].kind = "table" THEN Unused ELSE signature[j].name
      /\ \A f \in Function!Range(function) : f.name \in DOMAIN named => named[f.name].of = f.name
  BY DEF Function!CallInv
<1>2. function[i] \in Function!Range(function)
  BY FunctionFacts
<1>3. CASE function[i].kind = "positional"
  <2> DEFINE k == Function!SourceIndex(i)
  <2>1. k \in 1 .. Len(signature) /\ Function!ColumnValue(i) = inputs[k].of
    <3>1. k \in 1 .. Len(signature)
      BY <1>1, <1>3 DEF Function!Fails
    <3>2. function[i].name \notin DOMAIN named
      BY <1>3, FunctionFacts DEF Function!TypeOK
    <3> QED
      BY <1>3, <3>1, <3>2 DEF Function!ColumnValue
  <2>2. signature[k] \in Function!Range(function)
    BY <2>1 DEF Function!TypeOK, Function!Range
  <2> HIDE DEF k
  <2> QED
    BY <1>1, <2>1, <2>2
<1>4. CASE function[i].kind # "positional"
  BY <1>1, <1>2, <1>4 DEF Function!ColumnValue
<1> QED
  BY <1>3, <1>4

\* The record of a call for which no index is missing.
LEMMA RecordSent ==
  ASSUME Function!TypeOK, ~Function!Fails, NEW m, m = Len(Function!Columns),
         parameters' = [i \in 1 .. m |-> [name |-> function[i].name, of |-> Function!ColumnValue(i),
                                          type |-> Function!ColumnType(i)]]
  PROVE  /\ Len(parameters') = m /\ m \in Nat /\ m <= Len(function)
         /\ \A i \in 1 .. m : function[i].kind # "table" /\ Function!Columns[i] = function[i]
         /\ \A p \in Function!Range(parameters') :
              \E i \in 1 .. m : p = [name |-> function[i].name, of |-> Function!ColumnValue(i),
                                     type |-> Function!ColumnType(i)]
         /\ {p.name : p \in Function!Range(parameters')} = {f.name : f \in Function!Range(Function!Columns)}
<1> DEFINE r(i) == [name |-> function[i].name, of |-> Function!ColumnValue(i), type |-> Function!ColumnType(i)]
<1>1. \A i \in 1 .. Len(function) : function[i].kind # "table" => i <= m
  BY FunctionFacts, RecordColumns DEF Function!Fails
<1>2. /\ m \in Nat /\ m <= Len(function)
      /\ \A i \in 1 .. m : function[i].kind # "table" /\ Function!Columns[i] = function[i]
  BY <1>1, RecordColumns
<1>3. parameters' = [i \in 1 .. m |-> r(i)] /\ \A i \in 1 .. m : r(i).name = function[i].name
  OBVIOUS
<1> HIDE DEF r
<1>4. Len(parameters') = m /\ \A i \in 1 .. m : parameters'[i] = r(i)
  BY <1>2, <1>3
<1>5. \A p \in Function!Range(parameters') : \E i \in 1 .. m : p = r(i)
  BY <1>4 DEF Function!Range
<1>6. ASSUME NEW p \in Function!Range(parameters')
      PROVE  p.name \in {f.name : f \in Function!Range(Function!Columns)}
  <2>1. PICK i \in 1 .. m : p = r(i)
    BY <1>5
  <2>2. Function!Columns[i] \in Function!Range(Function!Columns)
    BY DEF Function!Range
  <2> QED
    BY <1>2, <1>3, <2>1, <2>2
<1>7. ASSUME NEW f \in Function!Range(Function!Columns)
      PROVE  f.name \in {p.name : p \in Function!Range(parameters')}
  <2>1. PICK i \in 1 .. m : f = Function!Columns[i]
    BY DEF Function!Range
  <2>2. parameters'[i] \in Function!Range(parameters')
    BY <1>4 DEF Function!Range
  <2> QED
    BY <1>2, <1>3, <1>4, <2>1, <2>2
<1>8. {p.name : p \in Function!Range(parameters')} = {f.name : f \in Function!Range(Function!Columns)}
  BY <1>6, <1>7
<1>9. \A p \in Function!Range(parameters') :
        \E i \in 1 .. m : p = [name |-> function[i].name, of |-> Function!ColumnValue(i),
                               type |-> Function!ColumnType(i)]
  BY <1>5 DEF r
<1> QED
  BY <1>2, <1>4, <1>8, <1>9

\* What a column is given.
LEMMA ColumnAsGiven ==
  ASSUME Function!TypeOK, Function!CallInv, step = "called", Told,
         NEW i \in 1 .. Len(function), function[i].kind # "table"
  PROVE  IF function[i].name \in Function!Names("named") /\ function[i].name \notin DOMAIN named
         THEN Function!ColumnValue(i) = Unused
         ELSE /\ Function!ColumnValue(i) = function[i].name
              /\ Function!ColumnType(i) = Function!GivenType(function[i].name)
<1>1. /\ signature = Function!Signature /\ Len(inputs) = Len(signature)
      /\ \A j, k \in 1 .. Len(signature) :
           signature[j].kind = "table" /\ signature[k].kind = "table" => j = k
      /\ \A j \in 1 .. Len(signature) :
           /\ inputs[j].of = IF signature[j].kind = "table" THEN Unused ELSE signature[j].name
           /\ inputs[j].type \in Function!TypesOf(signature[j])
      /\ \A f \in Function!Range(function) :
           f.name \in DOMAIN named => named[f.name].of = f.name /\ named[f.name].type \in Function!TypesOf(f)
  BY DEF Function!CallInv
<1>2. /\ function[i] \in Function!Range(function)
      /\ function[i].kind \in {"positional", "named"}
      /\ function[i].kind = "named" <=> function[i].name \in Function!Names("named")
  BY FunctionFacts
<1>3. DOMAIN named \subseteq Function!Names("named")
  BY DEF Function!TypeOK
<1>4. CASE function[i].kind = "named"
  <2>1. ~function[i].any
    BY <1>2, <1>4 DEF Told
  <2>2. Function!ColumnType(i) = function[i].name
    BY <2>1 DEF Function!ColumnType
  <2>3. CASE function[i].name \notin DOMAIN named
    <3>1. Function!ColumnValue(i) = Unused
      BY <1>4, <2>3 DEF Function!ColumnValue
    <3> QED
      BY <1>2, <1>4, <2>3, <3>1
  <2>4. CASE function[i].name \in DOMAIN named
    <3>1. Function!ColumnValue(i) = named[function[i].name].of
      BY <1>4, <2>4 DEF Function!ColumnValue
    <3>2. Function!TypesOf(function[i]) = {function[i].name}
      BY <1>4, <2>1 DEF Function!TypesOf
    <3>3. Function!GivenType(function[i].name) = named[function[i].name].type
      BY <2>4 DEF Function!GivenType
    <3> QED
      BY <1>1, <1>2, <2>2, <2>4, <3>1, <3>2, <3>3
  <2> QED
    BY <2>3, <2>4
<1>5. CASE function[i].kind = "positional"
  <2> DEFINE k == Function!AnyIndex(i)
  <2>1. k \in 1 .. Len(signature) /\ signature[k] = function[i] /\ Function!SourceIndex(i) = k
    BY <1>1, <1>5, InputsFound
  <2> HIDE DEF k
  <2>2. inputs[k].of = function[i].name /\ inputs[k].type \in Function!TypesOf(function[i])
    BY <1>1, <1>5, <2>1
  <2>3. function[i].name \notin DOMAIN named
    BY <1>2, <1>3, <1>5
  <2>4. Function!ColumnValue(i) = function[i].name
    BY <1>5, <2>1, <2>2, <2>3 DEF Function!ColumnValue
  <2>5. Function!GivenType(function[i].name) = inputs[k].type
    <3>1. \A j \in 1 .. Len(signature) : signature[j].name = function[i].name => j = k
      BY <1>1, <2>1, SignatureNames
    <3>2. (CHOOSE j \in 1 .. Len(signature) : signature[j].name = function[i].name) = k
      BY <2>1, <3>1
    <3> QED
      BY <2>3, <3>2 DEF Function!GivenType
  <2>6. Function!ColumnType(i) = inputs[k].type
    <3>1. CASE function[i].any
      BY <3>1 DEF Function!ColumnType, k
    <3>2. CASE ~function[i].any
      BY <1>5, <2>2, <3>2 DEF Function!ColumnType, Function!TypesOf
    <3> QED
      BY <3>1, <3>2
  <2> QED
    BY <1>2, <1>5, <2>4, <2>5, <2>6
<1> QED
  BY <1>2, <1>4, <1>5

LEMMA SerializeKeeps ==
  ASSUME Function!FunctionInv, Function!SerializeParameters
  PROVE  Function!FunctionInv'
<1> DEFINE m == Len(Function!Columns)
           r(i) == [name |-> function[i].name, of |-> Function!ColumnValue(i), type |-> Function!ColumnType(i)]
<1>1. /\ step = "called" /\ UNCHANGED <<function, signature, inputs, named>>
      /\ IF Function!Fails THEN step' = "failed" /\ UNCHANGED parameters
         ELSE step' = "sent" /\ parameters' = [i \in 1 .. m |-> r(i)]
  BY DEF Function!SerializeParameters
<1>2. Function!TypeOK /\ Function!CallInv
  BY DEF Function!FunctionInv
<1>3. /\ Function!Signature' = Function!Signature /\ \A f : Function!TypesOf(f)' = Function!TypesOf(f)
      /\ Function!Names("named")' = Function!Names("named") /\ Function!Names("table")' = Function!Names("table")
      /\ Function!Range(function)' = Function!Range(function)
      /\ Function!Range(signature)' = Function!Range(signature)
      /\ Function!Columns' = Function!Columns
      /\ \A n : Function!GivenType(n)' = Function!GivenType(n)
  BY <1>1 DEF Function!Signature, Function!TypesOf, Function!Names, Function!Range, Function!Columns,
              Function!GivenType
<1>4. Function!CallInv'
  BY <1>1, <1>2, <1>3 DEF Function!CallInv
<1>5. CASE Function!Fails
  <2>1. Function!TypeOK'
    <3>1. step' = "failed" /\ Function!Range(parameters)' = Function!Range(parameters) /\ UNCHANGED parameters
      BY <1>1, <1>5 DEF Function!Range
    <3> QED
      BY <1>1, <1>2, <1>3, <3>1 DEF Function!TypeOK
  <2>2. ~Told
    <3>1. SUFFICES ASSUME Told PROVE FALSE
      OBVIOUS
    <3>2. ASSUME NEW i \in 1 .. Len(function), function[i].kind # "table"
          PROVE  /\ i <= Len(Function!Columns)
                 /\ function[i].kind = "positional" =>
                      /\ Function!AnyIndex(i) \in 1 .. Len(inputs)
                      /\ Function!SourceIndex(i) = Function!AnyIndex(i)
      BY <1>1, <1>2, <3>1, <3>2, InputsFound DEF Function!CallInv
    <3>3. \A i \in 1 .. Len(function) :
            /\ function[i].kind \in {"positional", "named", "table"}
            /\ function[i].kind = "named" => ~function[i].any
      BY <1>2, <3>1, FunctionFacts DEF Told
    <3> QED
      BY <1>2, <1>5, <3>2, <3>3, FunctionFacts, RecordColumns DEF Function!Fails
  <2>3. Function!ParametersAsGiven'
    BY <1>1, <1>3, <2>2 DEF Function!ParametersAsGiven, Told
  <2> QED
    BY <1>4, <2>1, <2>3 DEF Function!FunctionInv
<1>6. CASE ~Function!Fails
  <2>1. step' = "sent" /\ parameters' = [i \in 1 .. m |-> r(i)]
    BY <1>1, <1>6
  <2>2. /\ Len(parameters') = m /\ m \in Nat /\ m <= Len(function)
        /\ \A i \in 1 .. m : function[i].kind # "table"
        /\ \A p \in Function!Range(parameters') : \E i \in 1 .. m : p = r(i)
        /\ {p.name : p \in Function!Range(parameters')} = {f.name : f \in Function!Range(Function!Columns)}
    BY <1>2, <1>6, <2>1, RecordSent
  <2> HIDE DEF m
  <2>3. \A i \in 1 .. m : i \in 1 .. Len(function)
    BY <1>2, <2>2, FunctionFacts
  <2>4. \A i : r(i).name = function[i].name /\ r(i).of = Function!ColumnValue(i) /\ r(i).type = Function!ColumnType(i)
    OBVIOUS
  <2> HIDE DEF r
  <2>5. Function!TypeOK'
    <3>1. {p.of : p \in Function!Range(parameters')} \subseteq {f.name : f \in Function!Range(function)} \cup {Unused}
      <4>1. \A i \in 1 .. m : Function!ColumnValue(i) \in {f.name : f \in Function!Range(function)} \cup {Unused}
        BY <1>1, <1>2, <1>6, <2>2, <2>3, ValueOfField
      <4> QED
        BY <2>2, <2>4, <4>1
    <3>2. {p.name : p \in Function!Range(parameters')} \cap Function!Names("table") = {}
      BY <1>2, <2>2, <2>3, <2>4, FunctionFacts
    <3> QED
      BY <1>1, <1>2, <1>3, <2>1, <2>2, <3>1, <3>2 DEF Function!TypeOK
  <2>6. ASSUME Told, NEW p \in Function!Range(parameters')
        PROVE  IF p.name \in Function!Names("named") /\ p.name \notin DOMAIN named THEN p.of = Unused
               ELSE p.of = p.name /\ p.type = Function!GivenType(p.name)
    <3>1. PICK i \in 1 .. m : p = r(i)
      BY <2>2
    <3>2. i \in 1 .. Len(function) /\ function[i].kind # "table"
      BY <2>2, <2>3
    <3>3. IF function[i].name \in Function!Names("named") /\ function[i].name \notin DOMAIN named
          THEN Function!ColumnValue(i) = Unused
          ELSE /\ Function!ColumnValue(i) = function[i].name
               /\ Function!ColumnType(i) = Function!GivenType(function[i].name)
      BY <1>1, <1>2, <2>6, <3>2, ColumnAsGiven
    <3> QED
      BY <2>4, <3>1, <3>3
  <2>7. Function!ParametersAsGiven'
    BY <1>1, <1>3, <2>1, <2>2, <2>6 DEF Function!ParametersAsGiven, Told
  <2> QED
    BY <1>4, <2>5, <2>7 DEF Function!FunctionInv
<1> QED
  BY <1>5, <1>6

LEMMA NextFunctionInv == Function!FunctionInv /\ [Function!Next]_(Function!vars) => Function!FunctionInv'
<1> SUFFICES ASSUME Function!FunctionInv, [Function!Next]_(Function!vars)
             PROVE  Function!FunctionInv'
  OBVIOUS
<1>1. CASE UNCHANGED Function!vars
  <2>1. UNCHANGED <<function, step, signature, inputs, named, parameters>>
    BY <1>1 DEF Function!vars
  <2>2. /\ Function!Signature' = Function!Signature /\ \A f : Function!TypesOf(f)' = Function!TypesOf(f)
        /\ Function!Names("named")' = Function!Names("named") /\ Function!Names("table")' = Function!Names("table")
        /\ Function!Range(function)' = Function!Range(function)
        /\ Function!Range(signature)' = Function!Range(signature)
        /\ Function!Range(parameters)' = Function!Range(parameters)
        /\ Function!Range(Function!Columns)' = Function!Range(Function!Columns)
        /\ \A n : Function!GivenType(n)' = Function!GivenType(n)
    BY <2>1 DEF Function!Signature, Function!TypesOf, Function!Names, Function!Range, Function!Columns,
                Function!GivenType
  <2>3. Function!TypeOK'
    BY <2>1, <2>2 DEF Function!FunctionInv, Function!TypeOK
  <2>4. Function!CallInv'
    BY <2>1, <2>2 DEF Function!FunctionInv, Function!CallInv
  <2>5. Function!ParametersAsGiven'
    BY <2>1, <2>2 DEF Function!FunctionInv, Function!ParametersAsGiven
  <2> QED
    BY <2>3, <2>4, <2>5 DEF Function!FunctionInv
<1> QED
  BY <1>1, LoadKeeps, CallKeeps, SerializeKeeps DEF Function!Next

\* Every parameter of a call is sent under its own name, with what it is given.
THEOREM ParametersAreAsGiven == PartsSpec => []ParametersAsGiven
<1> DEFINE Inv == part = "function" => Function!FunctionInv
<1>1. PartsInit => Inv
  BY InitFunctionInv DEF PartsInit
<1>2. Inv /\ [PartsNext]_allVars => Inv'
  BY NextFunctionInv DEF PartsNext, allVars, parameterVars, Function!vars
<1>3. Inv => ParametersAsGiven
  BY DEF ParametersAsGiven, Function!FunctionInv
<1> QED
  BY <1>1, <1>2, <1>3, PTL DEF PartsSpec

-----------------------------------------------------------------------------
(* The columns of an endpoint.                                             *)

LEMMA FieldFacts ==
  ASSUME NEW s \in FlightSchemas \cup EndpointData
  PROVE  /\ Len(s) \in Nat /\ RowId \notin 1 .. Len(s) + 1
         /\ \A i \in 1 .. Len(s) :
              /\ s[i] \in [name : Endpoint!Names(s), type : Types] /\ s[i] \in Endpoint!Range(s)
              /\ Endpoint!NamePosition(s, s[i].name) = i
         /\ \A i, j \in 1 .. Len(s) : s[i].name = s[j].name => i = j
         /\ \A n \in Endpoint!Names(s) :
              Endpoint!NamePosition(s, n) \in 1 .. Len(s) /\ s[Endpoint!NamePosition(s, n)].name = n
<1>1. s \in Seq([name : Endpoint!Names(s), type : Types]) /\ Endpoint!HasNames(s) /\ RowId \notin 1 .. Len(s) + 1
  BY EndpointAssumption DEF Endpoint!SchemasAssumption
<1>2. \A i, j \in 1 .. Len(s) : s[i].name = s[j].name => i = j
  BY <1>1 DEF Endpoint!HasNames
<1>3. Len(s) \in Nat /\ \A i \in 1 .. Len(s) : s[i] \in [name : Endpoint!Names(s), type : Types]
  <2> DEFINE T == [name : Endpoint!Names(s), type : Types]
  <2>1. s \in Seq(T)
    BY <1>1
  <2> HIDE DEF T
  <2>2. Len(s) \in Nat /\ \A i \in 1 .. Len(s) : s[i] \in T
    BY <2>1
  <2> QED
    BY <2>2 DEF T
<1>4. \A i \in 1 .. Len(s) : s[i] \in Endpoint!Range(s)
  BY DEF Endpoint!Range
<1>5. ASSUME NEW n \in Endpoint!Names(s)
      PROVE  Endpoint!NamePosition(s, n) \in 1 .. Len(s) /\ s[Endpoint!NamePosition(s, n)].name = n
  <2>1. \E i \in 1 .. Len(s) : s[i].name = n
    BY DEF Endpoint!Names
  <2> QED
    BY <2>1 DEF Endpoint!NamePosition
<1>6. ASSUME NEW i \in 1 .. Len(s)
      PROVE  Endpoint!NamePosition(s, s[i].name) = i
  <2>1. s[i].name \in Endpoint!Names(s)
    BY DEF Endpoint!Names
  <2> QED
    BY <1>2, <1>5, <2>1
<1> QED
  BY <1>1, <1>2, <1>3, <1>4, <1>5, <1>6

\* Columns of the flight are as far before their fields as the row id is before them.
LEMMA FlightColumnsPlaces ==
  ASSUME schema \in FlightSchemas
  PROVE  /\ Len(Endpoint!FlightColumns) \in Nat /\ Len(Endpoint!FlightColumns) <= Len(schema)
         /\ Endpoint!RowIdIndex \in 0 .. Len(schema)
         /\ \A c \in 1 .. Len(Endpoint!FlightColumns) :
              IF Endpoint!RowIdIndex # 0 /\ c >= Endpoint!RowIdIndex
              THEN c + 1 \in 1 .. Len(schema) /\ Endpoint!FlightColumns[c] = schema[c + 1]
              ELSE Endpoint!FlightColumns[c] = schema[c]
<1> DEFINE n == Len(schema)
           P == {i \in 1 .. n : schema[i].name # RowId}
           q == InOrder(P, n)
           f == Endpoint!FlightColumns
           r == Endpoint!RowIdIndex
<1>1. /\ n \in Nat
      /\ \A i, j \in 1 .. n : schema[i].name = schema[j].name => i = j
      /\ \A m \in Endpoint!Names(schema) :
           Endpoint!NamePosition(schema, m) \in 1 .. n /\ schema[Endpoint!NamePosition(schema, m)].name = m
  BY FieldFacts
<1>2. f = Selected(schema, P)
  BY SameOperators DEF Endpoint!FlightColumns
<1>3. /\ Len(q) \in Nat /\ Len(q) <= n /\ Len(f) = Len(q)
      /\ \A k \in 1 .. Len(q) :
           q[k] \in 1 .. n /\ q[k] \in P /\ k = q[k] - Skipped(P, q[k]) /\ f[k] = schema[q[k]]
  <2> HIDE DEF P, f
  <2> QED
    BY <1>1, <1>2, SelectedPlaces
<1>4. CASE RowId \notin Endpoint!Names(schema)
  <2>1. r = 0
    BY <1>4 DEF Endpoint!RowIdIndex
  <2>2. \A i \in 1 .. n : i \in P
    BY <1>4 DEF Endpoint!Names
  <2>3. ASSUME NEW c \in 1 .. Len(f)
        PROVE  q[c] = c
    <3>1. {j \in 1 .. q[c] : j \notin P} = {}
      <4> HIDE DEF P, q, f, n
      <4>1. \A j \in 1 .. q[c] : j \in 1 .. n
        BY <1>1, <1>3
      <4> QED
        BY <2>2, <4>1
    <3>2. Skipped(P, q[c]) = 0
      BY <3>1, FS_EmptySet DEF Skipped
    <3> HIDE DEF P, q, f
    <3> QED
      BY <1>1, <1>3, <3>2
  <2> HIDE DEF r, f, q
  <2>4. \A c \in 1 .. Len(f) : f[c] = schema[c]
    BY <1>3, <2>3
  <2>5. \A c \in 1 .. Len(f) : IF r # 0 /\ c >= r THEN c + 1 \in 1 .. n /\ f[c] = schema[c + 1] ELSE f[c] = schema[c]
    BY <2>1, <2>4
  <2> QED
    BY <1>1, <1>3, <2>1, <2>5 DEF r, f
<1>5. CASE RowId \in Endpoint!Names(schema)
  <2>1. r \in 1 .. n /\ schema[r].name = RowId
    BY <1>1, <1>5 DEF Endpoint!RowIdIndex
  <2>2. \A i \in 1 .. n : i \in P <=> i # r
    BY <1>1, <2>1
  <2>3. ASSUME NEW c \in 1 .. Len(f)
        PROVE  IF c >= r THEN q[c] = c + 1 ELSE q[c] = c
    <3>1. q[c] \in 1 .. n /\ q[c] # r /\ c = q[c] - Skipped(P, q[c])
      BY <1>3, <2>2
    <3>2. CASE q[c] < r
      <4>1. {j \in 1 .. q[c] : j \notin P} = {}
        <5> HIDE DEF P, q, f, n, r
        <5>1. \A j \in 1 .. q[c] : j \in 1 .. n /\ j # r
          BY <1>1, <2>1, <3>1, <3>2
        <5> QED
          BY <2>2, <5>1
      <4>2. Skipped(P, q[c]) = 0
        BY <4>1, FS_EmptySet DEF Skipped
      <4> HIDE DEF P, q, f, r
      <4> QED
        BY <1>1, <2>1, <3>1, <3>2, <4>2
    <3>3. CASE q[c] > r
      <4>1. {j \in 1 .. q[c] : j \notin P} = {r}
        <5> HIDE DEF P, q, f, n, r
        <5>1. r \in 1 .. q[c] /\ \A j \in 1 .. q[c] : j \in 1 .. n
          BY <1>1, <2>1, <3>1, <3>3
        <5> QED
          BY <2>1, <2>2, <5>1
      <4>2. Skipped(P, q[c]) = 1
        BY <4>1, FS_Singleton DEF Skipped
      <4> HIDE DEF P, q, f, r
      <4> QED
        BY SMTT(30), <1>1, <2>1, <3>1, <3>3, <4>2
    <3> HIDE DEF P, q, f, r
    <3> QED
      BY <1>1, <2>1, <3>1, <3>2, <3>3
  <2> HIDE DEF r, f, q, P
  <2>4. ASSUME NEW c \in 1 .. Len(f)
        PROVE  IF r # 0 /\ c >= r THEN c + 1 \in 1 .. n /\ f[c] = schema[c + 1] ELSE f[c] = schema[c]
    <3>1. q[c] \in 1 .. n /\ f[c] = schema[q[c]]
      BY <1>3
    <3>2. CASE c >= r
      BY <1>1, <2>1, <2>3, <3>1, <3>2
    <3>3. CASE ~(c >= r)
      BY <2>3, <3>1, <3>3
    <3> QED
      BY <3>2, <3>3
  <2> QED
    BY <1>1, <1>3, <2>1, <2>4 DEF r, f
<1> QED
  BY <1>4, <1>5

\* The columns are fields, none of them the row id.
LEMMA FlightColumnsFields ==
  ASSUME schema \in FlightSchemas
  PROVE  /\ Endpoint!Range(Endpoint!FlightColumns) \subseteq Endpoint!Range(schema)
         /\ \A c \in 1 .. Len(Endpoint!FlightColumns) :
              Endpoint!FlightColumns[c] \in [name : Endpoint!Names(schema), type : Types]
         /\ RowId \notin 1 .. Len(Endpoint!FlightColumns) + 1
<1> DEFINE f == Endpoint!FlightColumns
<1>1. \A c \in 1 .. Len(f) : \E i \in 1 .. Len(schema) : f[c] = schema[i]
  <2>1. ASSUME NEW c \in 1 .. Len(f)
        PROVE  c \in 1 .. Len(schema)
    <3> HIDE DEF f
    <3> QED
      BY FieldFacts, FlightColumnsPlaces DEF f
  <2> QED
    BY <2>1, FlightColumnsPlaces
<1>2. RowId \notin 1 .. Len(f) + 1
  <2>1. 1 .. Len(f) + 1 \subseteq 1 .. Len(schema) + 1
    BY FieldFacts, FlightColumnsPlaces
  <2> QED
    BY <2>1, FieldFacts
<1> HIDE DEF f
<1>3. Endpoint!Range(f) \subseteq Endpoint!Range(schema)
  BY <1>1 DEF Endpoint!Range
<1>4. \A c \in 1 .. Len(f) : f[c] \in [name : Endpoint!Names(schema), type : Types]
  BY <1>1, FieldFacts
<1> QED
  BY <1>2, <1>3, <1>4 DEF f

\* The places of the columns asked for that a function returns, and of its row ids.
KnownPlaces(d) ==
  {i \in 1 .. Len(data_columns) :
     data_columns[i] = RowId \/ names[data_columns[i]].name \in Endpoint!Names(d)}

LEMMA MappedFacts ==
  ASSUME data_columns \in Seq(Endpoint!Ids), NEW d \in EndpointData,
         NEW q, q = InOrder(KnownPlaces(d), Len(data_columns))
  PROVE  /\ Len(Endpoint!Mapped(d)) = Len(q) /\ Len(q) \in Nat /\ Len(q) <= Len(data_columns)
         /\ \A k \in 1 .. Len(q) :
              LET c == data_columns[q[k]]
              IN  /\ q[k] \in 1 .. Len(data_columns) /\ q[k] \in KnownPlaces(d)
                  /\ Endpoint!Mapped(d)[k] = IF c = RowId THEN RowId ELSE Endpoint!NamePosition(d, names[c].name)
                  /\ Endpoint!Mapped(d)[k] \in (1 .. Len(d)) \cup {RowId}
<1> DEFINE n == Len(data_columns)
           P == KnownPlaces(d)
           w == Endpoint!Known(d)
           g(c) == IF c = RowId THEN RowId ELSE Endpoint!NamePosition(d, names[c].name)
           m == Endpoint!Mapped(d)
<1>1. n \in Nat
  OBVIOUS
<1>2. w = Selected(data_columns, P)
  BY SameOperators DEF Endpoint!Known, KnownPlaces
<1>3. /\ Len(q) \in Nat /\ Len(q) <= n /\ Len(w) = Len(q)
      /\ \A k \in 1 .. Len(q) : q[k] \in 1 .. n /\ q[k] \in P /\ w[k] = data_columns[q[k]]
  <2>1. q = InOrder(P, n)
    OBVIOUS
  <2> HIDE DEF P, w
  <2> QED
    BY ONLY <1>1, <1>2, <2>1, SelectedPlaces
<1>4. m = [k \in 1 .. Len(w) |-> g(w[k])]
  BY DEF Endpoint!Mapped
<1>5. \A k \in 1 .. n : k \in P => g(data_columns[k]) \in (1 .. Len(d)) \cup {RowId}
  BY FieldFacts DEF KnownPlaces
<1>6. \A c : g(c) = IF c = RowId THEN RowId ELSE Endpoint!NamePosition(d, names[c].name)
  OBVIOUS
<1> HIDE DEF w, m, g, P
<1>7. Len(m) = Len(q) /\ \A k \in 1 .. Len(q) : m[k] = g(data_columns[q[k]])
  BY <1>3, <1>4
<1> HIDE DEF n
<1> QED
  BY <1>3, <1>5, <1>6, <1>7 DEF m, n, P

\* If before a column that is returned all are, it is asked for at its own place.
LEMMA MappedInPlace ==
  ASSUME data_columns \in Seq(Endpoint!Ids), NEW d \in EndpointData,
         \A i \in KnownPlaces(d) : \A j \in 1 .. i : j \in KnownPlaces(d),
         NEW i \in KnownPlaces(d), data_columns[i] # RowId
  PROVE  /\ i <= Len(Endpoint!Mapped(d))
         /\ Endpoint!Mapped(d)[i] = Endpoint!NamePosition(d, names[data_columns[i]].name)
<1> DEFINE n == Len(data_columns)
           P == KnownPlaces(d)
           q == InOrder(P, n)
<1>1. n \in Nat /\ P \subseteq 1 .. n
  BY DEF KnownPlaces
<1>2. ASSUME NEW j \in 1 .. n, j \in P
      PROVE  j <= Len(q)
  <2>1. {k \in 1 .. j : k \notin P} = {}
    BY <1>2
  <2>2. Skipped(P, j) = 0
    BY <2>1, FS_EmptySet DEF Skipped
  <2>3. j - Skipped(P, j) \in 1 .. Len(q)
    <3> HIDE DEF P
    <3> QED
      BY <1>1, <1>2, SelectedPlaces
  <2> HIDE DEF q, P
  <2> QED
    BY <1>1, <2>2, <2>3
<1>3. \A k \in 1 .. Len(q) : q[k] = k
  <2> HIDE DEF P
  <2> QED
    BY <1>1, <1>2, SelectedFirst
<1>4. i \in 1 .. n /\ i <= Len(q)
  BY <1>1, <1>2
<1> HIDE DEF q
<1>5. Len(Endpoint!Mapped(d)) = Len(q) /\ Len(q) \in Nat
      /\ \A k \in 1 .. Len(q) :
           data_columns[q[k]] # RowId =>
             Endpoint!Mapped(d)[k] = Endpoint!NamePosition(d, names[data_columns[q[k]]].name)
  BY MappedFacts DEF q
<1> HIDE DEF n, P
<1>6. i \in 1 .. Len(q) /\ q[i] = i
  BY <1>1, <1>3, <1>4, <1>5
<1> QED
  BY <1>4, <1>5, <1>6

\* What a function returns in the place of a column is the column.
LEMMA FunctionOutputFacts ==
  ASSUME schema \in FlightSchemas, names = Endpoint!FlightColumns,
         data_columns \in Seq(Endpoint!Ids), data \in EndpointData, Endpoint!TypesMatch(data),
         mapped = Endpoint!Mapped(data),
         \A i \in KnownPlaces(data) : \A j \in 1 .. i : j \in KnownPlaces(data),
         NEW i \in KnownPlaces(data), data_columns[i] # RowId
  PROVE  Endpoint!FunctionOutput(i) = names[data_columns[i]]
<1> DEFINE c == data_columns[i]
           k == Endpoint!NamePosition(data, names[c].name)
<1>1. i \in 1 .. Len(data_columns) /\ names[c].name \in Endpoint!Names(data)
  BY DEF KnownPlaces
<1>2. i <= Len(mapped) /\ mapped[i] = k
  BY MappedInPlace
<1>3. k \in 1 .. Len(data) /\ data[k].name = names[c].name /\ k # RowId
  <2>1. RowId \notin 1 .. Len(data)
    BY FieldFacts
  <2> QED
    BY <1>1, <2>1, FieldFacts
<1>4. data[k].type = names[c].type
  BY <1>1 DEF Endpoint!TypesMatch, Endpoint!Range
<1>5. c \in 1 .. Len(names)
  BY <1>1 DEF Endpoint!Ids
<1>6. data[k] = names[c]
  <2>1. names[c] \in [name : Endpoint!Names(schema), type : Types]
    BY <1>5, FlightColumnsFields
  <2>2. data[k] \in [name : Endpoint!Names(data), type : Types]
    BY <1>3, FieldFacts
  <2>3. names[c] = [name |-> names[c].name, type |-> names[c].type]
    <3> HIDE DEF c
    <3> QED
      BY <2>1
  <2>4. data[k] = [name |-> data[k].name, type |-> data[k].type]
    <3> HIDE DEF k
    <3> QED
      BY <2>2
  <2> HIDE DEF c, k
  <2> QED
    BY <1>3, <1>4, <2>3, <2>4
<1>7. ~(i > Len(mapped))
  <2>1. Len(mapped) \in Nat /\ i \in Nat
    BY <1>1, MappedFacts
  <2> QED
    BY <1>2, <2>1
<1> HIDE DEF c, k
<1> QED
  BY <1>2, <1>3, <1>6, <1>7 DEF Endpoint!FunctionOutput, Endpoint!FieldAt, c

\* The arguments are those up to the first number that is missing.
LEMMA ArgumentsFacts ==
  ASSUME NEW fs \in Endpoint!FieldLists
  PROVE  /\ Endpoint!Range(fs) \subseteq Endpoint!FieldNames /\ Endpoint!Distinct(fs)
         /\ Endpoint!Range(Endpoint!Arguments(fs)) \subseteq Endpoint!Range(fs)
         /\ Len(Endpoint!Arguments(fs)) \in Nat
         /\ \A k \in 1 .. Len(Endpoint!Arguments(fs)) : Endpoint!Arguments(fs)[k] = k - 1
         /\ \A k \in 0 .. MaxArg :
              (\A j \in 0 .. k : j \in Endpoint!Range(fs)) => k < Len(Endpoint!Arguments(fs))
<1> DEFINE R == Endpoint!Range(fs)
           Ends(n) == (\A k \in 0 .. n - 1 : k \in R) /\ n \notin R
           count == CHOOSE n \in 0 .. MaxArg + 1 : Ends(n)
           args == Endpoint!Arguments(fs)
<1>1. MaxArg \in Nat /\ MaxArg + 1 \notin Parameters
  BY EndpointAssumption DEF Endpoint!ArgumentsAssumption
<1>2. Endpoint!Distinct(fs) /\ R \subseteq Endpoint!FieldNames
  <2>1. Endpoint!Distinct(fs) /\ \E n \in Nat : fs \in [1 .. n -> Endpoint!FieldNames]
    BY DEF Endpoint!FieldLists
  <2>2. PICK n \in Nat : fs \in [1 .. n -> Endpoint!FieldNames]
    BY <2>1
  <2>3. Len(fs) = n
    BY <2>2
  <2> QED
    BY <2>1, <2>2, <2>3 DEF Endpoint!Range
<1>3. MaxArg + 1 \notin R
  BY <1>1, <1>2 DEF Endpoint!FieldNames
<1>4. \E n \in 0 .. MaxArg + 1 : Ends(n)
  <2>1. SUFFICES ASSUME \A n \in 0 .. MaxArg + 1 : ~Ends(n) PROVE FALSE
    OBVIOUS
  <2> DEFINE S == {n \in Nat : \A k \in 0 .. n : k \in R}
             top == MaxArg + 1
  <2>2. 0 \in S
    <3>1. 0 \in R
      BY <1>1, <2>1
    <3> QED
      BY <3>1
  <2>3. ASSUME NEW n \in 0 .. top - 1, n \in S
        PROVE  n + 1 \in S
    <3>1. n + 1 \in 0 .. MaxArg + 1 /\ (n + 1) - 1 = n /\ n \in Nat
      BY <1>1
    <3>2. n + 1 \in R
      BY <2>1, <2>3, <3>1
    <3>3. \A k \in 0 .. n + 1 : k = n + 1 \/ k \in 0 .. n
      BY <3>1
    <3> QED
      BY <2>3, <3>1, <3>2, <3>3
  <2>4. top \in Nat
    BY <1>1
  <2>5. 0 .. top \subseteq S
    <3> HIDE DEF S, top
    <3> QED
      BY <2>2, <2>3, <2>4, NumbersUpTo
  <2>6. top \in R
    BY <2>4, <2>5
  <2> QED
    BY <1>3, <2>6
<1>5. count \in 0 .. MaxArg + 1 /\ Ends(count)
  <2> HIDE DEF Ends
  <2> QED
    BY <1>4
<1>6. args = [k \in 1 .. count |-> fs[Endpoint!Position(fs, k - 1)]]
  BY DEF Endpoint!Arguments
<1>7. \A k \in R : fs[Endpoint!Position(fs, k)] = k
  BY DEF Endpoint!Range, Endpoint!Position
<1> HIDE DEF count, args
<1>8. count \in Nat /\ (\A k \in 0 .. count - 1 : k \in R) /\ count \notin R
  BY <1>1, <1>5
<1>9. Len(args) = count
  BY <1>6, <1>8
<1>10. ASSUME NEW k \in 1 .. count
       PROVE  args[k] = k - 1 /\ args[k] \in R
  <2>1. k - 1 \in R
    BY <1>8
  <2>2. args[k] = fs[Endpoint!Position(fs, k - 1)]
    BY <1>6
  <2> HIDE DEF R
  <2> QED
    BY <1>7, <2>1, <2>2
<1>11. Endpoint!Range(args) \subseteq R
  BY <1>9, <1>10 DEF Endpoint!Range
<1>12. ASSUME NEW k \in 0 .. MaxArg, \A j \in 0 .. k : j \in R
       PROVE  k < count
  <2>1. ~(count \in 0 .. k)
    BY <1>8, <1>12
  <2> QED
    BY <1>1, <1>8, <2>1
<1> HIDE DEF R
<1> QED
  BY <1>2, <1>8, <1>9, <1>10, <1>11, <1>12 DEF args, R

LEMMA InitEndpointInv == Endpoint!Init => Endpoint!EndpointInv
<1> SUFFICES ASSUME Endpoint!Init PROVE Endpoint!EndpointInv
  OBVIOUS
<1>1. /\ step = "unbound" /\ schema \in FlightSchemas /\ names = <<>> /\ rowid_index = 0
      /\ data_columns = <<>> /\ reader = "none" /\ fields = <<>> /\ call = Endpoint!NoCall
      /\ data = <<>> /\ mapped = <<>> /\ not_mapped = {} /\ output = <<>>
  BY DEF Endpoint!Init
<1>2. Endpoint!Range(<<>>) = {} /\ Endpoint!Distinct(<<>>)
  BY DEF Endpoint!Range, Endpoint!Distinct
<1>3. call.args = <<>> /\ DOMAIN call.named = {}
  BY <1>1 DEF Endpoint!NoCall
<1>4. rowid_index \in 0 .. Len(schema)
  BY <1>1, FieldFacts
<1>5. <<>> \in Seq(Endpoint!Ids)
  OBVIOUS
<1>6. Endpoint!TypeOK
  BY <1>1, <1>2, <1>3, <1>4, <1>5 DEF Endpoint!TypeOK
<1>7. Endpoint!ReadingInv
  BY <1>1 DEF Endpoint!ReadingInv
<1> QED
  BY <1>1, <1>6, <1>7 DEF Endpoint!EndpointInv, Endpoint!FileColumnsInPlace, Endpoint!FunctionColumnsInPlace,
                          Endpoint!MissingLastColumnsAreNull, Endpoint!ArgumentsInPlace

\* What depends only on the flight, and on the columns asked for.
LEMMA SameFlight ==
  ASSUME UNCHANGED schema
  PROVE  /\ Endpoint!FlightColumns' = Endpoint!FlightColumns /\ Endpoint!RowIdIndex' = Endpoint!RowIdIndex
         /\ Endpoint!Range(schema)' = Endpoint!Range(schema)
         /\ UNCHANGED names => Endpoint!Ids' = Endpoint!Ids /\ Endpoint!Range(names)' = Endpoint!Range(names)
         /\ UNCHANGED <<names, data_columns>> =>
              /\ \A d : Endpoint!TypesMatch(d)' = Endpoint!TypesMatch(d)
              /\ \A d : Endpoint!Mapped(d)' = Endpoint!Mapped(d)
              /\ \A d : Endpoint!NotMapped(d)' = Endpoint!NotMapped(d)
<1>1. /\ Endpoint!FlightColumns' = Endpoint!FlightColumns /\ Endpoint!RowIdIndex' = Endpoint!RowIdIndex
      /\ Endpoint!Range(schema)' = Endpoint!Range(schema)
  BY DEF Endpoint!FlightColumns, Endpoint!RowIdIndex, Endpoint!Range
<1>2. ASSUME UNCHANGED names
      PROVE  Endpoint!Ids' = Endpoint!Ids /\ Endpoint!Range(names)' = Endpoint!Range(names)
  BY <1>2 DEF Endpoint!Ids, Endpoint!Range
<1>3. ASSUME UNCHANGED <<names, data_columns>>
      PROVE  /\ \A d : Endpoint!TypesMatch(d)' = Endpoint!TypesMatch(d)
             /\ \A d : Endpoint!Mapped(d)' = Endpoint!Mapped(d)
             /\ \A d : Endpoint!NotMapped(d)' = Endpoint!NotMapped(d)
  BY <1>3 DEF Endpoint!TypesMatch, Endpoint!Mapped, Endpoint!Known, Endpoint!NotMapped, Endpoint!Range
<1> QED
  BY <1>1, <1>2, <1>3

LEMMA ExamineKeeps ==
  ASSUME Endpoint!EndpointInv, Endpoint!AirportExamineSchema
  PROVE  Endpoint!EndpointInv'
<1>1. /\ step = "unbound" /\ step' = "bound"
      /\ names' = Endpoint!FlightColumns /\ rowid_index' = Endpoint!RowIdIndex
      /\ UNCHANGED <<schema, data_columns, reader, fields, call, data, mapped, not_mapped, output>>
  BY DEF Endpoint!AirportExamineSchema
<1>2. Endpoint!TypeOK /\ Endpoint!ReadingInv
  BY DEF Endpoint!EndpointInv
<1>3. /\ data_columns = <<>> /\ mapped = <<>> /\ not_mapped = {} /\ output = <<>>
      /\ fields = <<>> /\ data = <<>>
  BY <1>1, <1>2 DEF Endpoint!ReadingInv
<1>4. /\ schema \in FlightSchemas /\ Endpoint!Range(Endpoint!FlightColumns) \subseteq Endpoint!Range(schema)
      /\ Endpoint!RowIdIndex \in 0 .. Len(schema)
  BY <1>2, FlightColumnsFields, FlightColumnsPlaces DEF Endpoint!TypeOK
<1>5. Endpoint!TypeOK'
  <2>1. Endpoint!Range(names') = Endpoint!Range(Endpoint!FlightColumns) /\ Endpoint!Range(schema') = Endpoint!Range(schema)
    BY <1>1
  <2>2. data_columns' \in Seq(Endpoint!Ids')
    BY <1>1, <1>3
  <2>3. /\ Endpoint!Range(data') = Endpoint!Range(data) /\ Endpoint!Range(fields') = Endpoint!Range(fields)
        /\ Endpoint!Range(call.args)' = Endpoint!Range(call.args) /\ Endpoint!Range(mapped') = Endpoint!Range(mapped)
        /\ Endpoint!Range(output') = Endpoint!Range(output) /\ Endpoint!Distinct(fields') = Endpoint!Distinct(fields)
    BY <1>1 DEF Endpoint!Range
  <2> QED
    BY <1>1, <1>2, <1>3, <1>4, <2>1, <2>2, <2>3 DEF Endpoint!TypeOK
<1>6. Endpoint!ReadingInv'
  BY <1>1, <1>2, <1>3, SameFlight DEF Endpoint!ReadingInv
<1> QED
  BY <1>1, <1>5, <1>6 DEF Endpoint!EndpointInv, Endpoint!FileColumnsInPlace, Endpoint!FunctionColumnsInPlace,
                          Endpoint!MissingLastColumnsAreNull, Endpoint!ArgumentsInPlace

LEMMA InitGlobalKeeps ==
  ASSUME Endpoint!EndpointInv, Endpoint!InitGlobal
  PROVE  Endpoint!EndpointInv'
<1>1. /\ step = "bound" /\ step' = "ready"
      /\ UNCHANGED <<schema, names, rowid_index, reader, fields, call, data, mapped, not_mapped, output>>
      /\ \E n \in 1 .. Len(names) + 1 : data_columns' \in [1 .. n -> Endpoint!Ids]
  BY DEF Endpoint!InitGlobal
<1>2. Endpoint!TypeOK /\ Endpoint!ReadingInv
  BY DEF Endpoint!EndpointInv
<1>3. data_columns' \in Seq(Endpoint!Ids)
  <2>1. Len(names) \in Nat
    BY <1>1, <1>2, FlightColumnsPlaces DEF Endpoint!ReadingInv, Endpoint!TypeOK
  <2>2. PICK n \in 1 .. Len(names) + 1 : data_columns' \in [1 .. n -> Endpoint!Ids]
    BY <1>1
  <2>3. n \in Nat
    BY <2>1
  <2> QED
    BY <2>2, <2>3
<1>4. Endpoint!TypeOK'
  <2>1. /\ Endpoint!Range(data') = Endpoint!Range(data) /\ Endpoint!Range(fields') = Endpoint!Range(fields)
        /\ Endpoint!Range(call.args)' = Endpoint!Range(call.args) /\ Endpoint!Range(mapped') = Endpoint!Range(mapped)
        /\ Endpoint!Range(output') = Endpoint!Range(output) /\ Endpoint!Distinct(fields') = Endpoint!Distinct(fields)
    BY <1>1 DEF Endpoint!Range
  <2> QED
    BY <1>1, <1>2, <1>3, <2>1, SameFlight DEF Endpoint!TypeOK
<1>5. Endpoint!ReadingInv'
  BY <1>1, <1>2, SameFlight DEF Endpoint!ReadingInv
<1> QED
  BY <1>1, <1>4, <1>5 DEF Endpoint!EndpointInv, Endpoint!FileColumnsInPlace, Endpoint!FunctionColumnsInPlace,
                          Endpoint!MissingLastColumnsAreNull, Endpoint!ArgumentsInPlace

\* Streams, files and parquet_scan are opened without arguments.
LEMMA OpenEndpointKeeps ==
  ASSUME Endpoint!EndpointInv, Endpoint!OpenFlight \/ Endpoint!OpenIpc \/ Endpoint!OpenParquet
  PROVE  Endpoint!EndpointInv'
<1>1. /\ step = "ready"
      /\ UNCHANGED <<schema, names, rowid_index, data_columns, fields, call, mapped, not_mapped, output>>
      /\ \/ /\ reader' = "flight" /\ data' \in EndpointData \cup {schema} /\ step' = "open"
         \/ /\ reader' = "ipc" /\ data' \in EndpointData \cup {schema}
            /\ step' \in {"open", "refused"} /\ (step' = "open" => data' = schema)
         \/ reader' = "function" /\ data' = data /\ step' = "called"
  BY DEF Endpoint!OpenFlight, Endpoint!OpenIpc, Endpoint!OpenParquet
<1>2. Endpoint!TypeOK /\ Endpoint!ReadingInv
  BY DEF Endpoint!EndpointInv
<1>3. mapped = <<>> /\ not_mapped = {} /\ output = <<>> /\ fields = <<>>
  BY <1>1, <1>2 DEF Endpoint!ReadingInv
<1>4. Endpoint!TypeOK'
  <2>1. /\ Endpoint!Range(fields') = Endpoint!Range(fields) /\ Endpoint!Distinct(fields') = Endpoint!Distinct(fields)
        /\ Endpoint!Range(call.args)' = Endpoint!Range(call.args)
        /\ Endpoint!Range(mapped') = {} /\ Endpoint!Range(output') = {}
    BY <1>1, <1>3 DEF Endpoint!Range
  <2>2. data' \in EndpointData \cup FlightSchemas \cup {<<>>}
    BY <1>1, <1>2 DEF Endpoint!TypeOK
  <2>3. reader' \in {"flight", "ipc", "function"} /\ step' \in {"open", "refused", "called"}
    BY <1>1
  <2> QED
    BY <1>1, <1>2, <2>1, <2>2, <2>3, SameFlight DEF Endpoint!TypeOK
<1>5. Endpoint!ReadingInv'
  BY <1>1, <1>2, <1>3, SameFlight DEF Endpoint!ReadingInv
<1>6. step' # "read" /\ fields' = <<>>
  BY <1>1, <1>3
<1> QED
  BY <1>4, <1>5, <1>6 DEF Endpoint!EndpointInv, Endpoint!FileColumnsInPlace, Endpoint!FunctionColumnsInPlace,
                          Endpoint!MissingLastColumnsAreNull, Endpoint!ArgumentsInPlace

LEMMA ParseCallKeeps ==
  ASSUME Endpoint!EndpointInv, Endpoint!AirportParseFunctionCallDetails
  PROVE  Endpoint!EndpointInv'
<1> DEFINE args == Endpoint!Arguments(fields')
           params == Endpoint!Range(fields') \cap Parameters
<1>1. /\ step = "ready" /\ reader' = "function" /\ fields' \in Endpoint!FieldLists
      /\ call' = [args |-> args, named |-> [p \in params |-> p]]
      /\ step' \in {"called", "refused"}
      /\ UNCHANGED <<schema, names, rowid_index, data_columns, data, mapped, not_mapped, output>>
  BY DEF Endpoint!AirportParseFunctionCallDetails
<1>2. Endpoint!TypeOK /\ Endpoint!ReadingInv
  BY DEF Endpoint!EndpointInv
<1>3. mapped = <<>> /\ not_mapped = {} /\ output = <<>>
  BY <1>1, <1>2 DEF Endpoint!ReadingInv
<1>4. /\ Endpoint!Range(fields') \subseteq Endpoint!FieldNames /\ Endpoint!Distinct(fields')
      /\ Endpoint!Range(args) \subseteq Endpoint!Range(fields')
      /\ \A k \in 1 .. Len(args) : args[k] = k - 1
      /\ \A k \in 0 .. MaxArg : (\A j \in 0 .. k : j \in Endpoint!Range(fields')) => k < Len(args)
      /\ Len(args) \in Nat
  BY <1>1, ArgumentsFacts
<1>5. call'.args = args /\ DOMAIN call'.named = params /\ \A p \in params : call'.named[p] = p
  BY <1>1
<1> HIDE DEF args
<1>6. Endpoint!TypeOK'
  <2>1. /\ Endpoint!Range(call'.args) \cup DOMAIN call'.named \subseteq Endpoint!Range(fields')
        /\ Endpoint!Range(mapped') = {} /\ Endpoint!Range(output') = {} /\ not_mapped' = {}
    <3>1. Endpoint!Range(call'.args) = Endpoint!Range(args) /\ params \subseteq Endpoint!Range(fields')
      BY <1>5
    <3>2. Endpoint!Range(mapped') = {} /\ Endpoint!Range(output') = {} /\ not_mapped' = {}
      BY <1>1, <1>3 DEF Endpoint!Range
    <3> QED
      BY <1>4, <1>5, <3>1, <3>2
  <2> QED
    BY <1>1, <1>2, <1>4, <2>1, SameFlight DEF Endpoint!TypeOK
<1>7. Endpoint!ReadingInv'
  BY <1>1, <1>2, <1>3, SameFlight DEF Endpoint!ReadingInv
<1>8. Endpoint!ArgumentsInPlace'
  <2>1. ASSUME NEW k \in 0 .. MaxArg, \A j \in 0 .. k : j \in Endpoint!Range(fields')
        PROVE  k < Len(args) /\ args[k + 1] = k
    <3>1. MaxArg \in Nat
      BY EndpointAssumption DEF Endpoint!ArgumentsAssumption
    <3>2. k < Len(args) /\ k \in Nat
      BY <1>4, <2>1, <3>1
    <3>3. k + 1 \in 1 .. Len(args) /\ (k + 1) - 1 = k
      BY <1>4, <3>2
    <3>4. args[k + 1] = (k + 1) - 1
      BY <1>4, <3>3
    <3> QED
      BY <3>2, <3>3, <3>4
  <2>2. \A p \in Parameters \cap Endpoint!Range(fields') : call'.named[p] = p
    BY <1>5
  <2> QED
    BY <1>4, <1>5, <2>1, <2>2 DEF Endpoint!ArgumentsInPlace
<1> QED
  BY <1>1, <1>6, <1>7, <1>8 DEF Endpoint!EndpointInv, Endpoint!FileColumnsInPlace,
                                Endpoint!FunctionColumnsInPlace, Endpoint!MissingLastColumnsAreNull

LEMMA LocalScanKeeps ==
  ASSUME Endpoint!EndpointInv, Endpoint!AirportLocalScanData
  PROVE  Endpoint!EndpointInv'
<1>1. /\ step = "called" /\ data' \in EndpointData
      /\ \/ /\ Endpoint!TypesMatch(data') /\ mapped' = Endpoint!Mapped(data')
            /\ not_mapped' = Endpoint!NotMapped(data') /\ step' = "open"
         \/ UNCHANGED <<mapped, not_mapped>> /\ step' = "refused"
      /\ fields' = <<>> /\ call' = Endpoint!NoCall
      /\ UNCHANGED <<schema, names, rowid_index, data_columns, reader, output>>
  BY DEF Endpoint!AirportLocalScanData
<1>2. Endpoint!TypeOK /\ Endpoint!ReadingInv
  BY DEF Endpoint!EndpointInv
<1>3. mapped = <<>> /\ not_mapped = {} /\ output = <<>> /\ reader = "function"
  BY <1>1, <1>2 DEF Endpoint!ReadingInv
<1>4. /\ Endpoint!Range(fields') = {} /\ Endpoint!Distinct(fields')
      /\ Endpoint!Range(call'.args) = {} /\ DOMAIN call'.named = {} /\ Endpoint!Range(output') = {}
  BY <1>1, <1>3 DEF Endpoint!Range, Endpoint!Distinct, Endpoint!NoCall
<1>5. Endpoint!Range(mapped') \subseteq (1 .. Len(data')) \cup {RowId}
  <2>1. CASE mapped' = mapped
    BY <1>3, <2>1 DEF Endpoint!Range
  <2>2. CASE mapped' = Endpoint!Mapped(data')
    <3> DEFINE q == InOrder(KnownPlaces(data'), Len(data_columns))
    <3>1. data_columns \in Seq(Endpoint!Ids)
      BY <1>2 DEF Endpoint!TypeOK
    <3>2. /\ Len(mapped') = Len(q)
          /\ \A k \in 1 .. Len(q) : mapped'[k] \in (1 .. Len(data')) \cup {RowId}
      BY <1>1, <2>2, <3>1, MappedFacts
    <3> HIDE DEF q
    <3> QED
      BY <3>2 DEF Endpoint!Range
  <2> QED
    BY <1>1, <2>1, <2>2
<1>6. not_mapped' \subseteq 1 .. Len(names)
  <2>1. Endpoint!Range(data_columns) \subseteq Endpoint!Ids
    BY <1>2 DEF Endpoint!TypeOK, Endpoint!Range
  <2>2. Endpoint!NotMapped(data') \subseteq 1 .. Len(names)
    BY <2>1 DEF Endpoint!NotMapped, Endpoint!Ids
  <2> QED
    BY <1>1, <1>3, <2>2
<1>7. Endpoint!TypeOK'
  BY <1>1, <1>2, <1>4, <1>5, <1>6, SameFlight DEF Endpoint!TypeOK
<1>8. Endpoint!ReadingInv'
  BY <1>1, <1>2, <1>3, SameFlight DEF Endpoint!ReadingInv
<1> QED
  BY <1>1, <1>7, <1>8 DEF Endpoint!EndpointInv, Endpoint!FileColumnsInPlace, Endpoint!FunctionColumnsInPlace,
                          Endpoint!MissingLastColumnsAreNull, Endpoint!ArgumentsInPlace

LEMMA StreamKeeps ==
  ASSUME Endpoint!EndpointInv, Endpoint!AirportDataFromStream
  PROVE  Endpoint!EndpointInv'
<1> DEFINE n == Len(data_columns)
<1>1. /\ step = "open" /\ reader \in {"flight", "ipc"} /\ step' = "read"
      /\ output' = [i \in 1 .. n |-> Endpoint!ArrowToDuckDB(data_columns[i])]
      /\ UNCHANGED <<schema, names, rowid_index, data_columns, reader, fields, call, data, mapped, not_mapped>>
  BY DEF Endpoint!AirportDataFromStream
<1>2. Endpoint!TypeOK /\ Endpoint!ReadingInv
  BY DEF Endpoint!EndpointInv
<1>3. /\ schema \in FlightSchemas /\ names = Endpoint!FlightColumns /\ rowid_index = Endpoint!RowIdIndex
      /\ reader = "ipc" => data = schema
  BY <1>1, <1>2 DEF Endpoint!TypeOK, Endpoint!ReadingInv
<1>4. n \in Nat /\ \A i \in 1 .. n : data_columns[i] \in (1 .. Len(names)) \cup {RowId}
  BY <1>2 DEF Endpoint!TypeOK, Endpoint!Ids
<1>5. \A i : Endpoint!FieldAt(i) \in Endpoint!Range(data) \cup {Endpoint!Undefined}
  BY DEF Endpoint!FieldAt, Endpoint!Range
<1>6. \A c : Endpoint!ArrowToDuckDB(c) \in Endpoint!Range(data) \cup {Endpoint!Undefined}
  BY <1>5 DEF Endpoint!ArrowToDuckDB
<1>7. Len(output') = n /\ \A i \in 1 .. n : output'[i] = Endpoint!ArrowToDuckDB(data_columns[i])
  <2> HIDE DEF n
  <2> QED
    BY <1>1, <1>4
<1>8. Endpoint!Range(output') \subseteq Endpoint!Range(data) \cup {Endpoint!Undefined}
  BY <1>6, <1>7 DEF Endpoint!Range
<1>9. Endpoint!TypeOK'
  <2>1. /\ Endpoint!Range(data') = Endpoint!Range(data) /\ Endpoint!Range(fields') = Endpoint!Range(fields)
        /\ Endpoint!Range(call.args)' = Endpoint!Range(call.args) /\ Endpoint!Range(mapped') = Endpoint!Range(mapped)
        /\ Endpoint!Distinct(fields') = Endpoint!Distinct(fields)
    BY <1>1 DEF Endpoint!Range
  <2> QED
    BY <1>1, <1>2, <1>8, <2>1, SameFlight DEF Endpoint!TypeOK
<1>10. Endpoint!ReadingInv'
  BY <1>1, <1>2, SameFlight DEF Endpoint!ReadingInv
<1>11. ASSUME reader = "ipc", NEW i \in 1 .. n, data_columns[i] = RowId => rowid_index # 0
       PROVE  Endpoint!ArrowToDuckDB(data_columns[i]) = Endpoint!Asked(data_columns[i])
  <2> DEFINE c == data_columns[i]
  <2>1. /\ Len(schema) \in Nat /\ rowid_index \in 0 .. Len(schema) /\ Len(data) = Len(schema)
        /\ Len(names) \in Nat /\ Len(names) <= Len(schema) /\ data = schema
        /\ \A k \in 1 .. Len(names) :
             IF rowid_index # 0 /\ k >= rowid_index
             THEN k + 1 \in 1 .. Len(schema) /\ names[k] = schema[k + 1]
             ELSE names[k] = schema[k]
    BY <1>3, <1>11, FieldFacts, FlightColumnsPlaces, FlightColumnsFields
  <2>2. CASE c = RowId
    <3>1. rowid_index \in 1 .. Len(schema)
      BY <1>11, <2>1, <2>2
    <3> QED
      BY <2>1, <2>2, <3>1 DEF Endpoint!ArrowToDuckDB, Endpoint!Asked, Endpoint!FieldAt
  <2>3. CASE c # RowId
    <3>1. c \in 1 .. Len(names) /\ c \in 1 .. Len(schema)
      BY <1>4, <2>1, <2>3
    <3> HIDE DEF c
    <3>2. Endpoint!Asked(c) = names[c]
      BY <2>3 DEF Endpoint!Asked
    <3>3. CASE rowid_index # 0 /\ c >= rowid_index
      <4>1. Endpoint!ArrowToDuckDB(c) = Endpoint!FieldAt(c + 1)
        BY <2>3, <3>3 DEF Endpoint!ArrowToDuckDB
      <4>2. c + 1 \in 1 .. Len(data) /\ names[c] = schema[c + 1]
        BY <2>1, <3>1, <3>3
      <4> QED
        BY <2>1, <3>2, <4>1, <4>2 DEF Endpoint!FieldAt, c
    <3>4. CASE ~(rowid_index # 0 /\ c >= rowid_index)
      <4>1. Endpoint!ArrowToDuckDB(c) = Endpoint!FieldAt(c)
        BY <2>3, <3>4 DEF Endpoint!ArrowToDuckDB
      <4>2. c \in 1 .. Len(data) /\ names[c] = schema[c]
        BY <2>1, <3>1, <3>4
      <4> QED
        BY <2>1, <3>2, <4>1, <4>2 DEF Endpoint!FieldAt, c
    <3> QED
      BY <3>3, <3>4 DEF c
  <2> QED
    BY <2>2, <2>3
<1>12. \A c : Endpoint!Asked(c)' = Endpoint!Asked(c)
  BY <1>1 DEF Endpoint!Asked
<1>13. Endpoint!FileColumnsInPlace'
  BY <1>1, <1>7, <1>11, <1>12 DEF Endpoint!FileColumnsInPlace
<1> QED
  BY <1>1, <1>9, <1>10, <1>13 DEF Endpoint!EndpointInv, Endpoint!FunctionColumnsInPlace,
                                  Endpoint!MissingLastColumnsAreNull, Endpoint!ArgumentsInPlace

LEMMA FunctionRowKeeps ==
  ASSUME Endpoint!EndpointInv, Endpoint!AirportDataFromLocalScanFunction
  PROVE  Endpoint!EndpointInv'
<1> DEFINE n == Len(data_columns)
           o(i) == IF i \in not_mapped THEN Endpoint!Null ELSE Endpoint!FunctionOutput(i)
<1>1. /\ step = "open" /\ reader = "function"
      /\ \/ /\ not_mapped \subseteq 1 .. n /\ step' = "read"
            /\ output' = Endpoint!Nulls([i \in 1 .. n |-> Endpoint!FunctionOutput(i)])
         \/ step' = "failed" /\ UNCHANGED output
      /\ UNCHANGED <<schema, names, rowid_index, data_columns, reader, fields, call, data, mapped, not_mapped>>
  BY DEF Endpoint!AirportDataFromLocalScanFunction
<1>2. Endpoint!TypeOK /\ Endpoint!ReadingInv
  BY DEF Endpoint!EndpointInv
<1>3. /\ schema \in FlightSchemas /\ names = Endpoint!FlightColumns /\ data \in EndpointData
      /\ Endpoint!TypesMatch(data) /\ mapped = Endpoint!Mapped(data) /\ not_mapped = Endpoint!NotMapped(data)
      /\ output = <<>>
  BY <1>1, <1>2 DEF Endpoint!TypeOK, Endpoint!ReadingInv
<1>4. /\ data_columns \in Seq(Endpoint!Ids) /\ n \in Nat
      /\ \A i \in 1 .. n : data_columns[i] \in (1 .. Len(names)) \cup {RowId}
  BY <1>2 DEF Endpoint!TypeOK, Endpoint!Ids
<1>5. ASSUME step' = "read"
      PROVE  Len(output') = n /\ \A i \in 1 .. n : output'[i] = o(i)
  <2> DEFINE row == [i \in 1 .. n |-> Endpoint!FunctionOutput(i)]
  <2>1. output' = [i \in 1 .. Len(row) |-> IF i \in not_mapped THEN Endpoint!Null ELSE row[i]]
    BY <1>1, <1>5 DEF Endpoint!Nulls
  <2>2. \A i \in 1 .. n : row[i] = Endpoint!FunctionOutput(i)
    OBVIOUS
  <2>3. Len(row) = n
    <3> HIDE DEF n
    <3> QED
      BY <1>4
  <2> HIDE DEF row, n
  <2> QED
    BY <1>4, <2>1, <2>2, <2>3
<1>6. \A i : Endpoint!FieldAt(i) \in Endpoint!Range(data) \cup {Endpoint!Undefined}
  BY DEF Endpoint!FieldAt, Endpoint!Range
<1>7. \A i : o(i) \in Endpoint!Range(data) \cup {Endpoint!Null, Endpoint!Undefined, Endpoint!FunctionRowId}
  BY <1>6 DEF Endpoint!FunctionOutput
<1>8. Endpoint!Range(output') \subseteq
        Endpoint!Range(data) \cup {Endpoint!Null, Endpoint!Undefined, Endpoint!FunctionRowId}
  <2>1. CASE step' = "read"
    <3> HIDE DEF o
    <3> QED
      BY <1>5, <1>7, <2>1 DEF Endpoint!Range
  <2>2. CASE output' = output
    BY <1>3, <2>2 DEF Endpoint!Range
  <2> QED
    BY <1>1, <2>1, <2>2
<1>9. Endpoint!TypeOK'
  <2>1. /\ Endpoint!Range(data') = Endpoint!Range(data) /\ Endpoint!Range(fields') = Endpoint!Range(fields)
        /\ Endpoint!Range(call.args)' = Endpoint!Range(call.args) /\ Endpoint!Range(mapped') = Endpoint!Range(mapped)
        /\ Endpoint!Distinct(fields') = Endpoint!Distinct(fields)
    BY <1>1 DEF Endpoint!Range
  <2>2. step' \in {"read", "failed"}
    BY <1>1
  <2> QED
    BY <1>1, <1>2, <1>8, <2>1, <2>2, SameFlight DEF Endpoint!TypeOK
<1>10. Endpoint!ReadingInv'
  BY <1>1, <1>2, <1>3, SameFlight DEF Endpoint!ReadingInv
<1>11. \A i \in 1 .. n : i \notin KnownPlaces(data) => data_columns[i] # RowId /\ data_columns[i] \in not_mapped
  BY <1>3 DEF KnownPlaces, Endpoint!NotMapped, Endpoint!Range
<1>12. \A c : Endpoint!Asked(c)' = Endpoint!Asked(c) /\ (c # RowId => Endpoint!Asked(c) = names[c])
  BY <1>1 DEF Endpoint!Asked
<1>13. KnownPlaces(data) \subseteq 1 .. n
  BY DEF KnownPlaces
<1>14. Endpoint!FunctionColumnsInPlace'
  <2>1. SUFFICES ASSUME step' = "read", not_mapped = {}, NEW i \in 1 .. n, data_columns[i] # RowId
                 PROVE  output'[i] = Endpoint!Asked(data_columns[i])
    BY <1>1, <1>12 DEF Endpoint!FunctionColumnsInPlace
  <2>2. \A j \in 1 .. n : j \in KnownPlaces(data)
    BY <1>11, <2>1
  <2>3. \A k \in KnownPlaces(data) : \A j \in 1 .. k : j \in KnownPlaces(data)
    <3>1. \A k \in 1 .. n : \A j \in 1 .. k : j \in 1 .. n
      BY <1>4
    <3> QED
      BY <1>13, <2>2, <3>1
  <2>4. Endpoint!FunctionOutput(i) = names[data_columns[i]]
    BY <1>3, <1>4, <2>1, <2>2, <2>3, FunctionOutputFacts
  <2> QED
    BY <1>5, <1>12, <2>1, <2>4
<1>15. Endpoint!MissingLastColumnsAreNull'
  <2>1. SUFFICES ASSUME step' = "read", \A i \in 1 .. n : data_columns[i] = i,
                        \A c \in not_mapped : \A d \in c .. n : d \in not_mapped,
                        NEW i \in 1 .. n
                 PROVE  output'[i] = IF i \in not_mapped THEN Endpoint!Null ELSE Endpoint!Asked(i)
    BY <1>1, <1>12 DEF Endpoint!MissingLastColumnsAreNull, Endpoint!InTableOrder
  <2>2. ASSUME i \notin not_mapped
        PROVE  Endpoint!FunctionOutput(i) = Endpoint!Asked(i)
    <3>1. RowId \notin 1 .. n
      <4> DEFINE j == Len(names) + 1
      <4>1. RowId \notin 1 .. j /\ j \in Nat /\ j > 0 /\ j \notin 1 .. Len(names)
        BY <1>3, FlightColumnsFields, FlightColumnsPlaces
      <4>2. SUFFICES ASSUME RowId \in 1 .. n PROVE FALSE
        OBVIOUS
      <4>3. j \in 1 .. n
        <5> HIDE DEF j, n
        <5> QED
          BY <1>4, <4>1, <4>2
      <4>4. j \in (1 .. Len(names)) \cup {RowId}
        BY <1>4, <2>1, <4>3
      <4> QED
        BY <4>1, <4>4
    <3>2. i \in KnownPlaces(data) /\ data_columns[i] = i /\ i # RowId
      BY <1>11, <2>1, <2>2, <3>1
    <3>3. ASSUME NEW k \in KnownPlaces(data), NEW j \in 1 .. k
          PROVE  j \in KnownPlaces(data)
      <4>1. k \in 1 .. n /\ j \in 1 .. n /\ k \in j .. n
        BY <1>4, <1>13, <3>3
      <4>2. SUFFICES ASSUME j \notin KnownPlaces(data) PROVE FALSE
        OBVIOUS
      <4>3. j \in not_mapped
        BY <1>11, <2>1, <4>1, <4>2
      <4>4. k \in not_mapped
        BY <2>1, <4>1, <4>3
      <4>5. names[k].name \notin Endpoint!Names(data)
        BY <1>3, <4>4 DEF Endpoint!NotMapped
      <4> QED
        BY <2>1, <3>1, <3>3, <4>1, <4>5 DEF KnownPlaces
    <3>4. Endpoint!FunctionOutput(i) = names[data_columns[i]]
      BY <1>3, <1>4, <3>2, <3>3, FunctionOutputFacts
    <3> QED
      BY <1>12, <3>2, <3>4
  <2> QED
    BY <1>5, <2>1, <2>2
<1>16. Endpoint!FileColumnsInPlace' /\ Endpoint!ArgumentsInPlace'
  BY <1>1 DEF Endpoint!FileColumnsInPlace, Endpoint!ArgumentsInPlace
<1> QED
  BY <1>9, <1>10, <1>14, <1>15, <1>16 DEF Endpoint!EndpointInv

LEMMA NextEndpointInv == Endpoint!EndpointInv /\ [Endpoint!Next]_(Endpoint!vars) => Endpoint!EndpointInv'
<1> SUFFICES ASSUME Endpoint!EndpointInv, [Endpoint!Next]_(Endpoint!vars)
             PROVE  Endpoint!EndpointInv'
  OBVIOUS
<1>1. CASE UNCHANGED Endpoint!vars
  <2>1. UNCHANGED <<step, schema, names, rowid_index, data_columns, reader, fields, call, data,
                    mapped, not_mapped, output>>
    BY <1>1 DEF Endpoint!vars
  <2>2. /\ Endpoint!Range(data') = Endpoint!Range(data) /\ Endpoint!Range(fields') = Endpoint!Range(fields)
        /\ Endpoint!Range(call.args)' = Endpoint!Range(call.args) /\ Endpoint!Range(mapped') = Endpoint!Range(mapped)
        /\ Endpoint!Range(output') = Endpoint!Range(output) /\ Endpoint!Distinct(fields') = Endpoint!Distinct(fields)
        /\ \A c : Endpoint!Asked(c)' = Endpoint!Asked(c)
    BY <2>1 DEF Endpoint!Range, Endpoint!Asked
  <2>3. Endpoint!TypeOK'
    BY <2>1, <2>2, SameFlight DEF Endpoint!EndpointInv, Endpoint!TypeOK
  <2>4. Endpoint!ReadingInv'
    BY <2>1, SameFlight DEF Endpoint!EndpointInv, Endpoint!ReadingInv
  <2>5. /\ Endpoint!FileColumnsInPlace' /\ Endpoint!FunctionColumnsInPlace'
        /\ Endpoint!MissingLastColumnsAreNull' /\ Endpoint!ArgumentsInPlace'
    BY <2>1, <2>2 DEF Endpoint!EndpointInv, Endpoint!FileColumnsInPlace, Endpoint!FunctionColumnsInPlace,
                      Endpoint!MissingLastColumnsAreNull, Endpoint!InTableOrder, Endpoint!ArgumentsInPlace
  <2> QED
    BY <2>3, <2>4, <2>5 DEF Endpoint!EndpointInv
<1> QED
  BY <1>1, ExamineKeeps, InitGlobalKeeps, OpenEndpointKeeps, ParseCallKeeps, LocalScanKeeps, StreamKeeps,
     FunctionRowKeeps DEF Endpoint!Next

\* Statistics are of the column for which they are asked, and columns of a flight and of
\* the data of its endpoints reach the query in their places.
THEOREM FlightColumnsAreInPlace == PartsSpec => []FlightColumnsInPlace
<1> DEFINE Inv == /\ part = "bind" => BindInv
                  /\ part = "endpoint" => Endpoint!EndpointInv
<1>1. PartsInit => Inv
  BY InitBindInv, InitEndpointInv DEF PartsInit
<1>2. Inv /\ [PartsNext]_allVars => Inv'
  BY NextBindInv, NextEndpointInv DEF PartsNext, allVars, endpointVars, vars, Endpoint!vars
<1>3. Inv => FlightColumnsInPlace
  BY DEF FlightColumnsInPlace, Endpoint!EndpointInv, BindInv
<1> QED
  BY <1>1, <1>2, <1>3, PTL DEF PartsSpec

-----------------------------------------------------------------------------
(* The columns of a table.                                                 *)

\* The fields that become columns, and how far one is from its column.
LEMMA KeptFacts ==
  ASSUME NEW s \in Seq(Table!Fields)
  PROVE  /\ Len(s) \in Nat /\ Len(Table!Kept(s)) \in Nat /\ Len(Table!Kept(s)) <= Len(s)
         /\ \A k \in 1 .. Len(Table!Kept(s)) :
              /\ Table!Kept(s)[k] \in 1 .. Len(s) /\ ~s[Table!Kept(s)[k]].rowid
              /\ Table!OneRowId(s) => k = Table!Kept(s)[k] - Table!Adjust(s, Table!Kept(s)[k])
         /\ \A j, k \in 1 .. Len(Table!Kept(s)) : Table!Kept(s)[j] = Table!Kept(s)[k] => j = k
         /\ \A i \in 1 .. Len(s) :
              ~s[i].rowid => \E k \in 1 .. Len(Table!Kept(s)) : Table!Kept(s)[k] = i
<1> DEFINE n == Len(s)
           P == {i \in 1 .. n : ~s[i].rowid}
           q == Table!Kept(s)
<1>1. n \in Nat /\ Len(s) = n
  OBVIOUS
<1>2. q = InOrder(P, n)
  BY SameOperators DEF Table!Kept
<1>3. /\ Len(q) \in Nat /\ Len(q) <= n
      /\ \A k \in 1 .. Len(q) : q[k] \in 1 .. n /\ q[k] \in P /\ k = q[k] - Skipped(P, q[k])
      /\ \A i \in 1 .. n : i \in P => i - Skipped(P, i) \in 1 .. Len(q) /\ q[i - Skipped(P, i)] = i
  <2> HIDE DEF P, q
  <2> QED
    BY <1>1, <1>2, SelectedPlaces
<1>4. \A i \in 1 .. n : i \in P <=> ~s[i].rowid
  OBVIOUS
<1> HIDE DEF n
<1>5. ASSUME Table!OneRowId(s), NEW i \in 1 .. n
      PROVE  Skipped(P, i) = Table!Adjust(s, i)
  <2> HIDE DEF P
  <2>1. CASE \E j \in 1 .. i : s[j].rowid
    <3>1. PICK r \in 1 .. i : s[r].rowid
      BY <2>1
    <3>2. \A j \in 1 .. i : j \in 1 .. n /\ (s[j].rowid => j = r)
      BY <1>1, <1>5, <3>1 DEF Table!OneRowId
    <3>3. {j \in 1 .. i : j \notin P} = {r}
      BY <1>4, <3>1, <3>2
    <3>4. Skipped(P, i) = 1
      BY <3>3, FS_Singleton DEF Skipped
    <3> QED
      BY <2>1, <3>4 DEF Table!Adjust
  <2>2. CASE ~\E j \in 1 .. i : s[j].rowid
    <3>1. \A j \in 1 .. i : j \in 1 .. n
      BY <1>1, <1>5
    <3>2. {j \in 1 .. i : j \notin P} = {}
      BY <1>4, <2>2, <3>1
    <3>3. Skipped(P, i) = 0
      BY <3>2, FS_EmptySet DEF Skipped
    <3> QED
      BY <2>2, <3>3 DEF Table!Adjust
  <2> QED
    BY <2>1, <2>2
<1> HIDE DEF q
<1>6. \A j, k \in 1 .. Len(q) : q[j] = q[k] => j = k
  <2> HIDE DEF P
  <2>1. ASSUME NEW j \in 1 .. Len(q), NEW k \in 1 .. Len(q), q[j] = q[k]
        PROVE  j = k
    <3>1. j = q[j] - Skipped(P, q[j]) /\ k = q[k] - Skipped(P, q[k])
      BY <1>3
    <3> QED
      BY <2>1, <3>1
  <2> QED
    BY <2>1
<1>7. \A k \in 1 .. Len(q) :
        q[k] \in 1 .. n /\ ~s[q[k]].rowid /\ (Table!OneRowId(s) => k = q[k] - Table!Adjust(s, q[k]))
  <2> HIDE DEF P
  <2> QED
    BY <1>3, <1>4, <1>5
<1>8. \A i \in 1 .. n : ~s[i].rowid => \E k \in 1 .. Len(q) : q[k] = i
  <2> HIDE DEF P
  <2> QED
    BY <1>3, <1>4
<1> QED
  BY <1>1, <1>3, <1>6, <1>7, <1>8 DEF q, n

\* How often a name was there before.
Before(s, k) ==
  Cardinality({j \in 1 .. k - 1 : Table!Fold(Table!ColumnNames(s)[j]) = Table!Fold(Table!ColumnNames(s)[k])})

LEMMA ColumnNamesFacts ==
  ASSUME NEW s \in Seq(Table!Fields)
  PROVE  /\ Len(Table!ColumnNames(s)) = Len(Table!Kept(s))
         /\ Len(Table!Deduplicated(Table!ColumnNames(s))) = Len(Table!Kept(s))
         /\ \A k \in 1 .. Len(Table!Kept(s)) :
              /\ Table!ColumnNames(s)[k] = Table!NameOf(s, Table!Kept(s)[k])
              /\ Table!Deduplicated(Table!ColumnNames(s))[k] =
                   IF Before(s, k) = 0 THEN Table!ColumnNames(s)[k]
                   ELSE <<Table!ColumnNames(s)[k][1], Before(s, k)>>
<1> DEFINE ns == Table!ColumnNames(s)
           d == Table!Deduplicated(ns)
           m == Len(Table!Kept(s))
           g(k) == IF Before(s, k) = 0 THEN ns[k] ELSE <<ns[k][1], Before(s, k)>>
<1>1. m \in Nat
  BY KeptFacts
<1>2. ns = [k \in 1 .. m |-> Table!NameOf(s, Table!Kept(s)[k])]
  BY DEF Table!ColumnNames
<1>3. d = [k \in 1 .. Len(ns) |-> g(k)]
  BY SameOperators DEF Table!Deduplicated, Before
<1>4. \A k : g(k) = IF Before(s, k) = 0 THEN ns[k] ELSE <<ns[k][1], Before(s, k)>>
  OBVIOUS
<1> HIDE DEF ns, d, m, g
<1>5. Len(ns) = m /\ \A k \in 1 .. m : ns[k] = Table!NameOf(s, Table!Kept(s)[k])
  BY <1>1, <1>2
<1>6. Len(d) = m /\ \A k \in 1 .. m : d[k] = g(k)
  BY <1>1, <1>3, <1>5
<1> QED
  BY <1>4, <1>5, <1>6 DEF ns, d, m

\* The names of fields, as they are compared.
LEMMA FoldedNames ==
  ASSUME NEW s \in Seq(Table!Fields), NEW k \in 1 .. Len(Table!Kept(s))
  PROVE  LET i == Table!Kept(s)[k]
             n == Table!ColumnNames(s)[k]
         IN  IF s[i].name = Empty THEN n = <<Empty, i>> /\ Table!Fold(n) = <<Empty, i>>
             ELSE /\ s[i].name \in ServerNames /\ Lower[s[i].name] # Empty
                  /\ n = <<s[i].name, 0>> /\ Table!Fold(n) = <<Lower[s[i].name], 0>>
                  /\ \A b : Table!Fold(<<s[i].name, b>>) = <<Lower[s[i].name], b>>
<1> DEFINE i == Table!Kept(s)[k]
           n == Table!ColumnNames(s)[k]
<1>1. i \in 1 .. Len(s) /\ n = Table!NameOf(s, i)
  BY KeptFacts, ColumnNamesFacts
<1>2. s[i].name \in ServerNames \cup {Empty}
  <2>1. s[i] \in Table!Fields
    <3> HIDE DEF i
    <3> QED
      BY <1>1
  <2> QED
    BY <2>1 DEF Table!Fields
<1>3. /\ Empty \notin ServerNames /\ \A m \in ServerNames : Lower[m] # Empty
  BY TableAssumption DEF Table!NamesAssumption
<1> HIDE DEF i, n
<1>4. CASE s[i].name = Empty
  BY <1>1, <1>4 DEF Table!NameOf, Table!Fold, i, n
<1>5. CASE s[i].name # Empty
  <2>1. s[i].name \in ServerNames /\ Lower[s[i].name] # Empty /\ n = <<s[i].name, 0>>
    BY <1>1, <1>2, <1>3, <1>5 DEF Table!NameOf
  <2>2. \A b : Table!Fold(<<s[i].name, b>>) = <<Lower[s[i].name], b>>
    BY <1>5 DEF Table!Fold
  <2> QED
    BY <1>5, <2>1, <2>2 DEF i, n
<1> QED
  BY <1>4, <1>5

\* No two columns have one name, whatever the fields are called.
LEMMA DeduplicatedDistinct ==
  ASSUME NEW s \in Seq(Table!Fields), NEW j \in 1 .. Len(Table!Kept(s)), NEW k \in 1 .. Len(Table!Kept(s)),
         j < k
  PROVE  Table!Fold(Table!Deduplicated(Table!ColumnNames(s))[j])
           # Table!Fold(Table!Deduplicated(Table!ColumnNames(s))[k])
<1> DEFINE q == Table!Kept(s)
           m == Len(q)
           ns == Table!ColumnNames(s)
           d == Table!Deduplicated(ns)
           F(x) == Table!Fold(x)
           Earlier(x) == {y \in 1 .. x - 1 : F(ns[y]) = F(ns[x])}
<1>1. m \in Nat /\ \A x, y \in 1 .. m : q[x] = q[y] => x = y
  BY KeptFacts
<1>2. \A x \in 1 .. m :
        /\ d[x] = IF Before(s, x) = 0 THEN ns[x] ELSE <<ns[x][1], Before(s, x)>>
        /\ IF s[q[x]].name = Empty THEN ns[x] = <<Empty, q[x]>> /\ F(ns[x]) = <<Empty, q[x]>>
           ELSE /\ Lower[s[q[x]].name] # Empty
                /\ ns[x] = <<s[q[x]].name, 0>> /\ F(ns[x]) = <<Lower[s[q[x]].name], 0>>
                /\ \A b : F(<<s[q[x]].name, b>>) = <<Lower[s[q[x]].name], b>>
  BY ColumnNamesFacts, FoldedNames
<1>3. \A x : Before(s, x) = Cardinality(Earlier(x))
  BY DEF Before
<1>4. ASSUME NEW x \in 1 .. m
      PROVE  IsFiniteSet(Earlier(x)) /\ Cardinality(Earlier(x)) \in Nat
  <2>1. Earlier(x) \subseteq 1 .. x /\ x \in Nat
    BY <1>1
  <2>2. IsFiniteSet(Earlier(x))
    BY <2>1, UpToFinite, FS_Subset
  <2> QED
    BY <2>2, FS_CardinalityType
<1>5. \A x, y \in 1 .. m : y \in 1 .. x - 1 => y \in 1 .. m /\ y # x
  BY <1>1
<1> HIDE DEF q, m, ns, d, F
<1>6. ASSUME NEW x \in 1 .. m, s[q[x]].name = Empty
      PROVE  F(d[x]) = <<Empty, q[x]>>
  <2>1. \A y \in 1 .. x - 1 : y \in 1 .. m /\ y # x
    BY <1>1
  <2>2. ASSUME NEW y \in 1 .. x - 1
        PROVE  F(ns[y]) # F(ns[x])
    <3>1. y \in 1 .. m /\ y # x
      BY <2>1
    <3>2. CASE s[q[y]].name = Empty
      <4>1. F(ns[y]) = <<Empty, q[y]>> /\ F(ns[x]) = <<Empty, q[x]>>
        BY <1>2, <1>6, <3>1, <3>2
      <4>2. q[y] # q[x]
        BY <1>1, <3>1
      <4> QED
        BY <4>1, <4>2
    <3>3. CASE s[q[y]].name # Empty
      <4>1. F(ns[y]) = <<Lower[s[q[y]].name], 0>> /\ Lower[s[q[y]].name] # Empty /\ F(ns[x]) = <<Empty, q[x]>>
        BY <1>2, <1>6, <3>1, <3>3
      <4> QED
        BY <4>1
    <3> QED
      BY <3>2, <3>3
  <2>3. Earlier(x) = {}
    BY <2>2
  <2>4. Before(s, x) = 0
    BY <1>3, <2>3, FS_EmptySet
  <2> QED
    BY <1>2, <1>6, <2>4
<1>7. ASSUME NEW x \in 1 .. m, s[q[x]].name # Empty
      PROVE  F(d[x]) = <<Lower[s[q[x]].name], Before(s, x)>>
  <2>1. ns[x] = <<s[q[x]].name, 0>> /\ \A b : F(<<s[q[x]].name, b>>) = <<Lower[s[q[x]].name], b>>
    BY <1>2, <1>7
  <2>2. d[x] = <<s[q[x]].name, Before(s, x)>>
    <3>1. d[x] = IF Before(s, x) = 0 THEN ns[x] ELSE <<ns[x][1], Before(s, x)>>
      BY <1>2, <1>7
    <3>2. ns[x][1] = s[q[x]].name
      BY <2>1
    <3>3. CASE Before(s, x) = 0
      BY <2>1, <3>1, <3>3
    <3>4. CASE Before(s, x) # 0
      BY <3>1, <3>2, <3>4
    <3> QED
      BY <3>3, <3>4
  <2> QED
    BY <2>1, <2>2
<1>8. j \in 1 .. m /\ k \in 1 .. m
  BY DEF m, q
<1>9. CASE s[q[j]].name = Empty \/ s[q[k]].name = Empty
  <2>1. /\ s[q[j]].name # Empty => Lower[s[q[j]].name] # Empty
        /\ s[q[k]].name # Empty => Lower[s[q[k]].name] # Empty
        /\ q[j] # q[k]
    <3>1. j # k
      BY <1>1, <1>8
    <3>2. q[j] # q[k]
      BY <1>1, <1>8, <3>1
    <3>3. /\ s[q[j]].name # Empty => Lower[s[q[j]].name] # Empty
          /\ s[q[k]].name # Empty => Lower[s[q[k]].name] # Empty
      BY <1>2, <1>8
    <3> QED
      BY <3>2, <3>3
  <2> QED
    BY <1>6, <1>7, <1>8, <1>9, <2>1 DEF F, d, ns
<1>10. CASE s[q[j]].name # Empty /\ s[q[k]].name # Empty
  <2>1. SUFFICES ASSUME Lower[s[q[j]].name] = Lower[s[q[k]].name]
                 PROVE  Before(s, j) # Before(s, k)
    BY <1>7, <1>8, <1>10 DEF F, d, ns
  <2>2. F(ns[j]) = F(ns[k])
    BY <1>2, <1>8, <1>10, <2>1
  <2>3. j \in Earlier(k) /\ Earlier(j) \subseteq Earlier(k) /\ j \notin Earlier(j)
    <3>1. j \in 1 .. k - 1 /\ \A y \in 1 .. j - 1 : y \in 1 .. k - 1 /\ y # j
      BY <1>1, <1>8
    <3> QED
      BY <2>2, <3>1
  <2>4. IsFiniteSet(Earlier(j)) /\ IsFiniteSet(Earlier(k)) /\ Earlier(j) \cup {j} \subseteq Earlier(k)
    BY <1>4, <1>8, <2>3
  <2>5. Cardinality(Earlier(j) \cup {j}) = Cardinality(Earlier(j)) + 1
    <3> HIDE DEF Earlier
    <3> QED
      BY <2>3, <2>4, FS_AddElement
  <2>6. Cardinality(Earlier(j) \cup {j}) <= Cardinality(Earlier(k))
    <3> HIDE DEF Earlier
    <3> QED
      BY <2>4, FS_Subset
  <2>7. Cardinality(Earlier(j)) \in Nat /\ Cardinality(Earlier(k)) \in Nat
    BY <1>4, <1>8
  <2> HIDE DEF Earlier
  <2> QED
    BY <1>3, <2>5, <2>6, <2>7
<1> QED
  BY <1>9, <1>10

\* Fields with names of their own keep them.
LEMMA OwnNamesKept ==
  ASSUME NEW s \in Seq(Table!Fields), Table!OwnNames(s), NEW k \in 1 .. Len(Table!Kept(s))
  PROVE  /\ Table!Deduplicated(Table!ColumnNames(s))[k] = Table!ColumnNames(s)[k]
         /\ \A j \in 1 .. Len(Table!Kept(s)) :
              Table!Fold(Table!ColumnNames(s)[j]) = Table!Fold(Table!ColumnNames(s)[k]) => j = k
<1> DEFINE q == Table!Kept(s)
           ns == Table!ColumnNames(s)
<1>1. /\ Len(q) \in Nat /\ \A x \in 1 .. Len(q) : q[x] \in 1 .. Len(s) /\ ~s[q[x]].rowid
      /\ \A x, y \in 1 .. Len(q) : q[x] = q[y] => x = y
      /\ \A x \in 1 .. Len(q) : ns[x] = Table!NameOf(s, q[x])
  BY KeptFacts, ColumnNamesFacts
<1>2. ASSUME NEW j \in 1 .. Len(q), Table!Fold(ns[j]) = Table!Fold(ns[k])
      PROVE  j = k
  <2>1. q[j] = q[k]
    <3> HIDE DEF q, ns
    <3>1. k \in 1 .. Len(q)
      BY DEF q
    <3> QED
      BY <1>1, <1>2, <3>1 DEF Table!OwnNames
  <2> QED
    BY <1>1, <2>1
<1>3. {j \in 1 .. k - 1 : Table!Fold(ns[j]) = Table!Fold(ns[k])} = {}
  <2>1. \A j \in 1 .. k - 1 : j \in 1 .. Len(q) /\ j # k
    BY <1>1
  <2> HIDE DEF q, ns
  <2> QED
    BY <1>2, <2>1
<1>4. Before(s, k) = 0
  BY <1>3, FS_EmptySet DEF Before
<1> QED
  BY <1>2, <1>4, ColumnNamesFacts

\* The columns of an entry: with one row id at most, each is made from its own field.
LEMMA TableColumnsFacts ==
  ASSUME NEW s \in Seq(Table!Fields)
  PROVE  /\ Len(Table!TableColumns(s)) = Len(Table!Kept(s))
         /\ Table!NotNullColumns(s) \subseteq 1 .. Len(Table!Kept(s))
         /\ Table!OneRowId(s) =>
              \A k \in 1 .. Len(Table!Kept(s)) :
                Table!TableColumns(s)[k] =
                  [name    |-> Table!Deduplicated(Table!ColumnNames(s))[k],
                   type    |-> Table!Kept(s)[k],
                   default |-> s[Table!Kept(s)[k]].default]
<1> DEFINE q == Table!Kept(s)
           d == Table!Deduplicated(Table!ColumnNames(s))
           t == Table!TableColumns(s)
           j(k) == q[k] - Table!Adjust(s, q[k])
           g(k) == [name    |-> Table!At(d, j(k)),
                    type    |-> IF j(k) \in 1 .. Len(q) THEN q[j(k)] ELSE 0,
                    default |-> s[q[k]].default]
<1>1. /\ Len(q) \in Nat
      /\ Table!OneRowId(s) => \A k \in 1 .. Len(q) : k = j(k)
      /\ Len(d) = Len(q)
  BY KeptFacts, ColumnNamesFacts
<1>2. t = [k \in 1 .. Len(q) |-> g(k)]
  BY DEF Table!TableColumns
<1>3. Table!NotNullColumns(s) \subseteq 1 .. Len(q)
  BY DEF Table!NotNullColumns
<1>4. \A k : g(k) = [name    |-> Table!At(d, j(k)),
                     type    |-> IF j(k) \in 1 .. Len(q) THEN q[j(k)] ELSE 0,
                     default |-> s[q[k]].default]
  OBVIOUS
<1> HIDE DEF q, d, t, j, g
<1>5. Len(t) = Len(q) /\ \A k \in 1 .. Len(q) : t[k] = g(k)
  BY <1>1, <1>2
<1>6. ASSUME Table!OneRowId(s), NEW k \in 1 .. Len(q)
      PROVE  t[k] = [name |-> d[k], type |-> q[k], default |-> s[q[k]].default]
  <2>1. j(k) = k /\ k \in 1 .. Len(d)
    BY <1>1, <1>6
  <2>2. Table!At(d, j(k)) = d[k] /\ (IF j(k) \in 1 .. Len(q) THEN q[j(k)] ELSE 0) = q[k]
    BY <1>6, <2>1 DEF Table!At
  <2> QED
    BY <1>4, <1>5, <1>6, <2>2
<1> QED
  BY <1>3, <1>5, <1>6 DEF q, d, t

\* If no two fields have one name, NOT NULL is found by the name.
LEMMA NotNullFacts ==
  ASSUME NEW s \in Seq(Table!Fields), Table!OwnNames(s), NEW k \in 1 .. Len(Table!Kept(s))
  PROVE  k \in Table!NotNullColumns(s) <=> ~s[Table!Kept(s)[k]].nullable
<1> DEFINE q == Table!Kept(s)
           ns == Table!ColumnNames(s)
           d == Table!Deduplicated(ns)
           N == {Table!Fold(Table!NameOf(s, i)) : i \in {i \in Table!Range(q) : ~s[i].nullable}}
<1>1. Len(q) \in Nat /\ Len(d) = Len(q) /\ \A x \in 1 .. Len(q) : ns[x] = Table!NameOf(s, q[x])
  BY KeptFacts, ColumnNamesFacts
<1>2. d[k] = ns[k] /\ \A x \in 1 .. Len(q) : Table!Fold(ns[x]) = Table!Fold(ns[k]) => x = k
  BY OwnNamesKept
<1>3. Table!NotNullColumns(s) = {x \in 1 .. Len(q) : Table!Fold(Table!At(d, x)) \in N}
  BY DEF Table!NotNullColumns
<1>4. \A y : y \in N <=> \E x \in 1 .. Len(q) : ~s[q[x]].nullable /\ y = Table!Fold(Table!NameOf(s, q[x]))
  BY DEF Table!Range
<1>5. k \in 1 .. Len(q)
  OBVIOUS
<1> HIDE DEF q, ns, d, N
<1>6. Table!At(d, k) = ns[k]
  BY <1>1, <1>2, <1>5 DEF Table!At
<1>7. k \in Table!NotNullColumns(s) <=> Table!Fold(ns[k]) \in N
  BY <1>3, <1>5, <1>6
<1>8. Table!Fold(ns[k]) \in N <=> ~s[q[k]].nullable
  <2>1. ASSUME Table!Fold(ns[k]) \in N
        PROVE  ~s[q[k]].nullable
    <3>1. PICK x \in 1 .. Len(q) : ~s[q[x]].nullable /\ Table!Fold(ns[k]) = Table!Fold(Table!NameOf(s, q[x]))
      BY <1>4, <2>1
    <3>2. x = k
      BY <1>1, <1>2, <3>1
    <3> QED
      BY <3>1, <3>2
  <2>2. ASSUME ~s[q[k]].nullable
        PROVE  Table!Fold(ns[k]) \in N
    BY <1>1, <1>4, <1>5, <2>2
  <2> QED
    BY <2>1, <2>2
<1> QED
  BY <1>7, <1>8 DEF q

-----------------------------------------------------------------------------

\* What a server that does as it is told is asked for.
LEMMA RequestedFacts ==
  ASSUME statement \in CreateStatements, request = Table!Request
  PROVE  /\ Len(statement.columns) \in Nat /\ Len(Table!Requested) = Len(statement.columns)
         /\ statement.not_null \subseteq 1 .. Len(statement.columns)
         /\ statement.columns \in Seq(ServerNames)
         /\ \A i \in 1 .. Len(statement.columns) :
              /\ statement.columns[i] \in ServerNames /\ statement.columns[i] # Empty
              /\ Table!Requested[i] = [name |-> statement.columns[i], rowid |-> FALSE,
                                       nullable |-> i \notin statement.not_null, default |-> FALSE]
              /\ Table!Requested[i] \in Table!Fields
         /\ \A i, j \in 1 .. Len(statement.columns) :
              i # j => Lower[statement.columns[i]] # Lower[statement.columns[j]]
<1> DEFINE c == statement.columns
           g(i) == [name |-> c[i], rowid |-> FALSE, nullable |-> i \notin statement.not_null, default |-> FALSE]
<1>1. /\ c \in Seq(ServerNames) /\ statement.not_null \subseteq 1 .. Len(c) /\ Empty \notin ServerNames
      /\ \A i, j \in 1 .. Len(c) : i # j => Lower[c[i]] # Lower[c[j]]
  BY TableAssumption DEF Table!StatementsAssumption, Table!NamesAssumption
<1>2. request.columns = c /\ request.not_null = statement.not_null
  BY DEF Table!Request
<1>3. Table!Requested = [i \in 1 .. Len(c) |-> g(i)]
  BY <1>2 DEF Table!Requested
<1>4. \A i : g(i) = [name |-> c[i], rowid |-> FALSE, nullable |-> i \notin statement.not_null, default |-> FALSE]
  OBVIOUS
<1> HIDE DEF c, g
<1>5. Len(c) \in Nat /\ \A i \in 1 .. Len(c) : c[i] \in ServerNames /\ c[i] # Empty
  BY <1>1
<1>6. Len(Table!Requested) = Len(c) /\ \A i \in 1 .. Len(c) : Table!Requested[i] = g(i)
  BY <1>3, <1>5
<1>7. \A i \in 1 .. Len(c) : g(i) \in Table!Fields
  BY <1>4, <1>5 DEF Table!Fields
<1> QED
  BY <1>1, <1>4, <1>5, <1>6, <1>7 DEF c

\* What it answers: the fields asked for in their order, and perhaps one row id.
LEMMA ServedShape ==
  ASSUME statement \in CreateStatements, request = Table!Request, NEW s \in Table!Served
  PROVE  /\ s \in Seq(Table!Fields) /\ Table!OneRowId(s)
         /\ \A i \in 1 .. Len(s) : ~s[i].rowid =>
              /\ i - Table!Adjust(s, i) \in 1 .. Len(statement.columns)
              /\ s[i] = Table!Requested[i - Table!Adjust(s, i)]
         /\ \A k \in 1 .. Len(statement.columns) :
              \E i \in 1 .. Len(s) : ~s[i].rowid /\ i - Table!Adjust(s, i) = k
<1> DEFINE n == Len(statement.columns)
           r == Table!Requested
<1>1. /\ n \in Nat /\ Len(r) = n
      /\ \A i \in 1 .. n : r[i] \in Table!Fields /\ ~r[i].rowid
  <2>1. ASSUME NEW i \in 1 .. n
        PROVE  r[i] \in Table!Fields /\ ~r[i].rowid
    <3>1. /\ r[i] \in Table!Fields
          /\ r[i] = [name |-> statement.columns[i], rowid |-> FALSE,
                     nullable |-> i \notin statement.not_null, default |-> FALSE]
      BY RequestedFacts
    <3> HIDE DEF r
    <3> QED
      BY <3>1
  <2> QED
    BY <2>1, RequestedFacts
<1> HIDE DEF n, r
<1>2. r \in Seq(Table!Fields)
  <2>1. r = [i \in 1 .. Len(request.columns) |-> r[i]]
    BY DEF r, Table!Requested
  <2>2. Len(request.columns) = n
    BY DEF n, Table!Request
  <2>3. r = [i \in 1 .. n |-> r[i]]
    BY <2>1, <2>2
  <2> QED
    BY <1>1, <2>3
<1>3. CASE s = r
  <2>1. \A i \in 1 .. n : Table!Adjust(s, i) = 0
    <3>1. ASSUME NEW i \in 1 .. n, NEW j \in 1 .. i
          PROVE  ~s[j].rowid
      <4>1. j \in 1 .. n
        BY <1>1, <3>1
      <4> QED
        BY <1>1, <1>3, <4>1
    <3> QED
      BY <3>1 DEF Table!Adjust
  <2>2. \A i \in 1 .. n : i - Table!Adjust(s, i) = i /\ ~s[i].rowid
    BY <1>1, <1>3, <2>1
  <2>3. Table!OneRowId(s)
    BY <1>1, <1>3 DEF Table!OneRowId
  <2> QED
    BY <1>1, <1>2, <1>3, <2>2, <2>3 DEF n, r
<1>4. CASE \E p \in 1 .. n + 1 : s = Table!WithRowIdAt(p)
  <2>1. PICK p \in 1 .. n + 1 : s = Table!WithRowIdAt(p)
    BY <1>4
  <2> DEFINE g(i) == IF i < p THEN r[i] ELSE IF i = p THEN Table!RowIdField ELSE r[i - 1]
  <2>2. s = [i \in 1 .. n + 1 |-> g(i)]
    BY <1>1, <2>1 DEF Table!WithRowIdAt, r
  <2>3. p \in Nat /\ n + 1 \in Nat
    BY <1>1
  <2>4. Table!RowIdField \in Table!Fields /\ Table!RowIdField.rowid
    BY DEF Table!RowIdField, Table!Fields
  <2>5. \A i \in 1 .. n + 1 :
          /\ g(i) \in Table!Fields
          /\ g(i).rowid <=> i = p
          /\ i < p => i \in 1 .. n /\ g(i) = r[i]
          /\ i > p => i - 1 \in 1 .. n /\ g(i) = r[i - 1]
    <3> SUFFICES ASSUME NEW i \in 1 .. n + 1
                 PROVE  /\ g(i) \in Table!Fields
                        /\ g(i).rowid <=> i = p
                        /\ i < p => i \in 1 .. n /\ g(i) = r[i]
                        /\ i > p => i - 1 \in 1 .. n /\ g(i) = r[i - 1]
      OBVIOUS
    <3>1. CASE i < p
      <4>1. i \in 1 .. n /\ i # p /\ ~(i > p) /\ g(i) = r[i]
        BY <1>1, <2>3, <3>1
      <4> HIDE DEF g
      <4> QED
        BY <1>1, <4>1
    <3>2. CASE i = p
      <4>1. ~(i < p) /\ ~(i > p) /\ g(i) = Table!RowIdField
        BY <2>3, <3>2
      <4> HIDE DEF g
      <4> QED
        BY <2>4, <3>2, <4>1
    <3>3. CASE i > p
      <4>1. i - 1 \in 1 .. n /\ i # p /\ ~(i < p) /\ g(i) = r[i - 1]
        BY <1>1, <2>3, <3>3
      <4> HIDE DEF g
      <4> QED
        BY <1>1, <4>1
    <3> QED
      BY <2>3, <3>1, <3>2, <3>3
  <2> HIDE DEF g
  <2>6. s \in Seq(Table!Fields) /\ Len(s) = n + 1 /\ \A i \in 1 .. n + 1 : s[i] = g(i)
    BY <2>2, <2>3, <2>5
  <2>7. \A i \in 1 .. n + 1 : Table!Adjust(s, i) = IF p <= i THEN 1 ELSE 0
    <3> SUFFICES ASSUME NEW i \in 1 .. n + 1
                 PROVE  Table!Adjust(s, i) = IF p <= i THEN 1 ELSE 0
      OBVIOUS
    <3>1. \A j \in 1 .. i : j \in 1 .. n + 1 /\ (s[j].rowid <=> j = p)
      <4>1. \A j \in 1 .. i : j \in 1 .. n + 1
        BY <1>1
      <4> QED
        BY <2>5, <2>6, <4>1
    <3>2. p <= i <=> p \in 1 .. i
      BY <2>3
    <3> QED
      BY <3>1, <3>2 DEF Table!Adjust
  <2>8. Table!OneRowId(s)
    BY <2>5, <2>6 DEF Table!OneRowId
  <2>9. \A i \in 1 .. n + 1 : ~s[i].rowid =>
          i - Table!Adjust(s, i) \in 1 .. n /\ s[i] = r[i - Table!Adjust(s, i)]
    <3> SUFFICES ASSUME NEW i \in 1 .. n + 1, ~s[i].rowid
                 PROVE  i - Table!Adjust(s, i) \in 1 .. n /\ s[i] = r[i - Table!Adjust(s, i)]
      OBVIOUS
    <3>1. i # p
      BY <2>5, <2>6
    <3>2. CASE i < p
      <4>1. ~(p <= i) /\ i - 0 = i
        BY <2>3, <3>2
      <4> QED
        BY <2>5, <2>6, <2>7, <3>2, <4>1
    <3>3. CASE i > p
      <4>1. p <= i
        BY <2>3, <3>3
      <4> QED
        BY <2>5, <2>6, <2>7, <3>3, <4>1
    <3> QED
      BY <2>3, <3>1, <3>2, <3>3
  <2>10. \A k \in 1 .. n : \E i \in 1 .. n + 1 : ~s[i].rowid /\ i - Table!Adjust(s, i) = k
    <3> SUFFICES ASSUME NEW k \in 1 .. n
                 PROVE  \E i \in 1 .. n + 1 : ~s[i].rowid /\ i - Table!Adjust(s, i) = k
      OBVIOUS
    <3>1. CASE k < p
      <4>1. k \in 1 .. n + 1 /\ k # p /\ ~(p <= k) /\ k - 0 = k
        BY <1>1, <2>3, <3>1
      <4> QED
        BY <2>5, <2>6, <2>7, <4>1
    <3>2. CASE ~(k < p)
      <4>1. k + 1 \in 1 .. n + 1 /\ k + 1 # p /\ p <= k + 1 /\ (k + 1) - 1 = k
        BY <1>1, <2>3, <3>2
      <4> QED
        BY <2>5, <2>6, <2>7, <4>1
    <3> QED
      BY <3>1, <3>2
  <2> QED
    BY <2>6, <2>8, <2>9, <2>10 DEF n, r
<1> QED
  BY <1>1, <1>3, <1>4 DEF Table!Served, r

\* So every field is that of its column.
LEMMA ServedFacts ==
  ASSUME statement \in CreateStatements, request = Table!Request, NEW s \in Table!Served
  PROVE  /\ s \in Seq(Table!Fields) /\ Table!OneRowId(s) /\ Table!OwnNames(s)
         /\ Len(Table!Kept(s)) = Len(statement.columns)
         /\ \A k \in 1 .. Len(statement.columns) : s[Table!Kept(s)[k]] = Table!Requested[k]
<1> DEFINE n == Len(statement.columns)
           q == Table!Kept(s)
           r == Table!Requested
           p(i) == i - Table!Adjust(s, i)
<1>1. /\ s \in Seq(Table!Fields) /\ Table!OneRowId(s)
      /\ \A i \in 1 .. Len(s) : ~s[i].rowid => p(i) \in 1 .. n /\ s[i] = r[p(i)]
      /\ \A k \in 1 .. n : \E i \in 1 .. Len(s) : ~s[i].rowid /\ p(i) = k
  BY ServedShape
<1>2. /\ n \in Nat
      /\ \A i \in 1 .. n : r[i].name = statement.columns[i] /\ r[i].name # Empty
      /\ \A i, j \in 1 .. n : i # j => Lower[r[i].name] # Lower[r[j].name]
  <2>1. ASSUME NEW i \in 1 .. n
        PROVE  r[i].name = statement.columns[i] /\ statement.columns[i] # Empty
    <3>1. /\ statement.columns[i] # Empty
          /\ r[i] = [name |-> statement.columns[i], rowid |-> FALSE,
                     nullable |-> i \notin statement.not_null, default |-> FALSE]
      BY RequestedFacts
    <3> HIDE DEF r
    <3> QED
      BY <3>1
  <2>2. n \in Nat /\ \A i, j \in 1 .. n : i # j => Lower[statement.columns[i]] # Lower[statement.columns[j]]
    BY RequestedFacts
  <2> HIDE DEF n, r
  <2> QED
    BY <2>1, <2>2
<1>3. /\ Len(q) \in Nat
      /\ \A k \in 1 .. Len(q) : q[k] \in 1 .. Len(s) /\ ~s[q[k]].rowid /\ k = p(q[k])
      /\ \A i \in 1 .. Len(s) : ~s[i].rowid => \E k \in 1 .. Len(q) : q[k] = i
  BY <1>1, KeptFacts
<1> HIDE DEF n, q, r, p
<1>4. \A k \in 1 .. Len(q) : k \in 1 .. n /\ s[q[k]] = r[k]
  BY SMTT(30), <1>1, <1>3
<1>5. Len(q) = n
  <2>1. Len(q) <= n
    BY <1>2, <1>3, <1>4
  <2>2. CASE n = 0
    BY <1>3, <2>1, <2>2
  <2>3. CASE n # 0
    <3>1. n \in 1 .. n
      BY <1>2, <2>3
    <3>2. PICK i \in 1 .. Len(s) : ~s[i].rowid /\ p(i) = n
      BY <1>1, <3>1
    <3>3. PICK k \in 1 .. Len(q) : q[k] = i
      BY <1>3, <3>2
    <3>4. k = n
      BY <1>3, <3>2, <3>3
    <3> QED
      BY <1>2, <1>3, <2>1, <3>4
  <2> QED
    BY <2>2, <2>3
<1>6. Table!OwnNames(s)
  <2>1. ASSUME NEW i \in 1 .. Len(s), NEW j \in 1 .. Len(s), ~s[i].rowid, ~s[j].rowid, i # j
        PROVE  Table!Fold(Table!NameOf(s, i)) # Table!Fold(Table!NameOf(s, j))
    <3>1. PICK k \in 1 .. Len(q) : q[k] = i
      BY <1>3, <2>1
    <3>2. PICK l \in 1 .. Len(q) : q[l] = j
      BY <1>3, <2>1
    <3>3. k # l /\ k \in 1 .. n /\ l \in 1 .. n /\ s[i] = r[k] /\ s[j] = r[l]
      BY <1>4, <2>1, <3>1, <3>2
    <3>4. s[i].name # Empty /\ s[j].name # Empty /\ Lower[s[i].name] # Lower[s[j].name]
      BY <1>2, <3>3
    <3>5. /\ Table!NameOf(s, i) = <<s[i].name, 0>> /\ Table!Fold(<<s[i].name, 0>>) = <<Lower[s[i].name], 0>>
          /\ Table!NameOf(s, j) = <<s[j].name, 0>> /\ Table!Fold(<<s[j].name, 0>>) = <<Lower[s[j].name], 0>>
      BY <3>4 DEF Table!NameOf, Table!Fold
    <3> QED
      BY <3>4, <3>5
  <2> QED
    BY <2>1 DEF Table!OwnNames
<1> QED
  BY <1>1, <1>4, <1>5, <1>6 DEF n, q, r

\* What the lists of any request say.
MeantBy(r) ==
  {<<"primary", {n}>> : n \in r.primary_key}
    \cup (IF r.multi_key_primary = {} THEN {} ELSE {<<"primary", r.multi_key_primary>>})
    \cup {<<"unique", {n}>> : n \in r.unique}
    \cup {<<"unique", Table!Range(c)>> : c \in r.extra}
    \cup {<<"check", Table!Range(c)>> : c \in r.check}

\* The lists say what the constraints of the statement say.
LEMMA RequestMeans ==
  ASSUME statement \in CreateStatements
  PROVE  MeantBy(Table!Request) =
           {<<c.kind, Table!Range(c.columns)>> : c \in {d \in statement.constraints : d.kind # "foreign"}}
<1> DEFINE C == statement.constraints
           R(c) == Table!Range(c.columns)
           r == Table!Request
           M == {<<c.kind, R(c)>> : c \in {d \in C : d.kind # "foreign"}}
<1>1. /\ \A c \in C :
           /\ c.kind \in {"primary", "unique", "check", "foreign"} /\ c.indexed \in BOOLEAN
           /\ c.columns \in Seq(Table!Range(statement.columns)) /\ c.columns # <<>>
           /\ c.indexed => Len(c.columns) = 1
      /\ \A c, d \in C : c.kind = "primary" /\ d.kind = "primary" => c = d
  BY TableAssumption DEF Table!StatementsAssumption, Table!Kinds
<1>2. ASSUME NEW c \in C
      PROVE  /\ R(c) # {} /\ R(c) \subseteq Table!Range(statement.columns)
             /\ c.indexed => R(c) = {c.columns[1]}
  <2>1. c.columns \in Seq(Table!Range(statement.columns)) /\ c.columns # <<>> /\ (c.indexed => Len(c.columns) = 1)
    BY <1>1
  <2>2. Len(c.columns) \in Nat /\ Len(c.columns) >= 1
    BY <2>1
  <2>3. 1 \in 1 .. Len(c.columns)
    BY <2>2
  <2>4. c.columns[1] \in R(c)
    BY <2>3 DEF Table!Range
  <2>5. \A i \in 1 .. Len(c.columns) : c.columns[i] \in Table!Range(statement.columns)
    BY <2>1
  <2>6. ASSUME c.indexed
        PROVE  R(c) = {c.columns[1]}
    BY <2>1, <2>6 DEF Table!Range
  <2> QED
    BY <2>4, <2>5, <2>6 DEF Table!Range
<1>3. /\ r.primary_key = {c.columns[1] : c \in {d \in C : d.kind = "primary" /\ d.indexed}}
      /\ r.multi_key_primary = UNION {R(c) : c \in {d \in C : d.kind = "primary" /\ ~d.indexed}}
      /\ r.unique = UNION {R(c) : c \in {d \in C : d.kind = "unique" /\ d.indexed}}
      /\ r.extra = {c.columns : c \in {d \in C : d.kind = "unique" /\ ~d.indexed}}
      /\ r.check = {c.columns : c \in {d \in C : d.kind = "check"}}
  BY DEF Table!Request, Table!OfKind, Table!UniqueColumns
<1>4. \A x : x \in M <=> \E c \in C : c.kind # "foreign" /\ x = <<c.kind, R(c)>>
  OBVIOUS
<1>5. ASSUME NEW c \in C, c.kind = "primary", ~c.indexed
      PROVE  r.multi_key_primary = R(c)
  <2>1. {d \in C : d.kind = "primary" /\ ~d.indexed} = {c}
    BY <1>1, <1>5
  <2> HIDE DEF R
  <2> QED
    BY <1>3, <2>1
<1>6. ASSUME r.multi_key_primary # {}
      PROVE  \E c \in C : c.kind = "primary" /\ ~c.indexed
  BY <1>3, <1>6
<1> HIDE DEF C, R, r, M
<1>7. \A x : x \in MeantBy(r) <=>
        \/ \E n \in r.primary_key : x = <<"primary", {n}>>
        \/ r.multi_key_primary # {} /\ x = <<"primary", r.multi_key_primary>>
        \/ \E n \in r.unique : x = <<"unique", {n}>>
        \/ \E c \in r.extra : x = <<"unique", Table!Range(c)>>
        \/ \E c \in r.check : x = <<"check", Table!Range(c)>>
  BY DEF MeantBy
<1>8. ASSUME NEW x \in MeantBy(r)
      PROVE  x \in M
  <2>1. CASE \E n \in r.primary_key : x = <<"primary", {n}>>
    <3>1. PICK c \in C : c.kind = "primary" /\ c.indexed /\ x = <<"primary", {c.columns[1]}>>
      BY <1>3, <2>1
    <3>2. R(c) = {c.columns[1]}
      BY <1>2, <3>1
    <3> QED
      BY <1>4, <3>1, <3>2
  <2>2. CASE r.multi_key_primary # {} /\ x = <<"primary", r.multi_key_primary>>
    <3>1. PICK c \in C : c.kind = "primary" /\ ~c.indexed
      BY <1>6, <2>2
    <3>2. r.multi_key_primary = R(c)
      BY <1>5, <3>1
    <3> QED
      BY <1>4, <2>2, <3>1, <3>2
  <2>3. CASE \E n \in r.unique : x = <<"unique", {n}>>
    <3>1. PICK n \in r.unique : x = <<"unique", {n}>>
      BY <2>3
    <3>2. PICK c \in C : c.kind = "unique" /\ c.indexed /\ n \in R(c)
      BY <1>3, <3>1
    <3>3. R(c) = {n}
      BY <1>2, <3>2
    <3> QED
      BY <1>4, <3>1, <3>2, <3>3
  <2>4. CASE \E c \in r.extra : x = <<"unique", Table!Range(c)>>
    <3>1. PICK c \in C : c.kind = "unique" /\ ~c.indexed /\ x = <<"unique", R(c)>>
      BY <1>3, <2>4 DEF R
    <3> QED
      BY <1>4, <3>1
  <2>5. CASE \E c \in r.check : x = <<"check", Table!Range(c)>>
    <3>1. PICK c \in C : c.kind = "check" /\ x = <<"check", R(c)>>
      BY <1>3, <2>5 DEF R
    <3> QED
      BY <1>4, <3>1
  <2> QED
    BY <1>7, <1>8, <2>1, <2>2, <2>3, <2>4, <2>5
<1>9. ASSUME NEW x \in M
      PROVE  x \in MeantBy(r)
  <2>1. PICK c \in C : c.kind # "foreign" /\ x = <<c.kind, R(c)>>
    BY <1>4, <1>9
  <2>2. CASE c.kind = "primary" /\ c.indexed
    <3>1. c.columns[1] \in r.primary_key
      BY <1>3, <2>2
    <3>2. x = <<"primary", {c.columns[1]}>>
      BY <1>2, <2>1, <2>2
    <3> QED
      BY <1>7, <3>1, <3>2
  <2>3. CASE c.kind = "primary" /\ ~c.indexed
    <3>1. r.multi_key_primary = R(c) /\ R(c) # {}
      BY <1>2, <1>5, <2>3
    <3> QED
      BY <1>7, <2>1, <2>3, <3>1
  <2>4. CASE c.kind = "unique" /\ c.indexed
    <3>1. R(c) = {c.columns[1]}
      BY <1>2, <2>4
    <3>2. c.columns[1] \in r.unique
      BY <1>3, <2>4, <3>1
    <3> QED
      BY <1>7, <2>1, <2>4, <3>1, <3>2
  <2>5. CASE c.kind = "unique" /\ ~c.indexed
    <3>1. c.columns \in r.extra
      BY <1>3, <2>5
    <3> QED
      BY <1>7, <2>1, <2>5, <3>1 DEF R
  <2>6. CASE c.kind = "check"
    <3>1. c.columns \in r.check
      BY <1>3, <2>6
    <3> QED
      BY <1>7, <2>1, <2>6, <3>1 DEF R
  <2> QED
    BY <1>1, <2>1, <2>2, <2>3, <2>4, <2>5, <2>6
<1> QED
  BY <1>8, <1>9 DEF r, M, C, R

\* Its constraints are of columns it has.
LEMMA RequestOfColumns ==
  ASSUME statement \in CreateStatements
  PROVE  LET own == Table!Range(Table!Request.columns)
         IN  /\ Table!Request.not_null \subseteq 1 .. Len(Table!Request.columns)
             /\ Table!Request.primary_key \cup Table!Request.unique \cup Table!Request.multi_key_primary
                  \subseteq own
             /\ \A c \in Table!Request.extra : Table!Range(c) \subseteq own
<1> DEFINE C == statement.constraints
           own == Table!Range(statement.columns)
<1>1. \A c \in C : c.columns \in Seq(own) /\ c.columns # <<>>
  BY TableAssumption DEF Table!StatementsAssumption
<1>2. statement.not_null \subseteq 1 .. Len(statement.columns)
  BY TableAssumption DEF Table!StatementsAssumption
<1>3. /\ Table!Request.columns = statement.columns /\ Table!Request.not_null = statement.not_null
      /\ Table!Request.primary_key = {c.columns[1] : c \in {d \in C : d.kind = "primary" /\ d.indexed}}
      /\ Table!Request.multi_key_primary =
           UNION {Table!Range(c.columns) : c \in {d \in C : d.kind = "primary" /\ ~d.indexed}}
      /\ Table!Request.unique = UNION {Table!Range(c.columns) : c \in {d \in C : d.kind = "unique" /\ d.indexed}}
      /\ Table!Request.extra = {c.columns : c \in {d \in C : d.kind = "unique" /\ ~d.indexed}}
  BY DEF Table!Request, Table!OfKind, Table!UniqueColumns
<1> HIDE DEF C, own
<1>4. ASSUME NEW c \in C
      PROVE  c.columns[1] \in own /\ Table!Range(c.columns) \subseteq own
  <2>1. c.columns \in Seq(own) /\ 1 \in 1 .. Len(c.columns)
    BY <1>1
  <2>2. \A i \in 1 .. Len(c.columns) : c.columns[i] \in own
    BY <2>1
  <2> QED
    BY <2>1, <2>2 DEF Table!Range
<1>5. /\ Table!Request.primary_key \subseteq own
      /\ Table!Request.unique \subseteq own
      /\ Table!Request.multi_key_primary \subseteq own
      /\ \A c \in Table!Request.extra : Table!Range(c) \subseteq own
  BY <1>3, <1>4
<1> QED
  BY <1>2, <1>3, <1>5 DEF own

-----------------------------------------------------------------------------

LEMMA InitTableInv == Table!Init => Table!TableInv
<1> SUFFICES ASSUME Table!Init PROVE Table!TableInv
  OBVIOUS
<1>1. /\ step = "start" /\ statement \in CreateStatements \cup {Table!NoStatement}
      /\ request = Table!NoRequest /\ schema = <<>> /\ table_entry = Table!NoEntry
  BY DEF Table!Init
<1>2. Table!TypeOK
  BY <1>1 DEF Table!TypeOK, Table!NoRequest, Table!NoEntry, Table!Range
<1> QED
  BY <1>1, <1>2
     DEF Table!TableInv, Table!MadeInv, Table!ConstraintsSent, Table!ColumnsOfOwnFields,
         Table!NotNullOfOwnFields, Table!CreatedAsStated

\* The request has the constraints of the statement.
LEMMA CreateTableKeepsTableInv == Table!TableInv /\ Table!CreateTable => Table!TableInv'
<1> SUFFICES ASSUME Table!TableInv, Table!CreateTable PROVE Table!TableInv'
  OBVIOUS
<1>1. /\ step = "start" /\ step' = "sent" /\ statement \in CreateStatements /\ statement # Table!NoStatement
      /\ request' = Table!Request
      /\ statement' = statement /\ schema' = schema /\ table_entry' = table_entry
      /\ schema = <<>> /\ table_entry = Table!NoEntry
  BY DEF Table!TableInv, Table!TypeOK, Table!MadeInv, Table!CreateTable
<1>2. Table!Request' = Table!Request /\ Table!NoStatement' = Table!NoStatement
  BY <1>1 DEF Table!Request, Table!OfKind, Table!UniqueColumns
<1>3. Table!TypeOK'
  <2>1. LET own == Table!Range(request'.columns)
        IN  /\ request'.not_null \subseteq 1 .. Len(request'.columns)
            /\ request'.primary_key \cup request'.unique \cup request'.multi_key_primary \subseteq own
            /\ \A c \in request'.extra : Table!Range(c) \subseteq own
    BY <1>1, RequestOfColumns
  <2>2. Len(table_entry'.columns) <= Len(schema') /\ table_entry'.not_null \subseteq 1 .. Len(table_entry'.columns)
    BY <1>1 DEF Table!NoEntry
  <2> QED
    BY <1>1, <2>1, <2>2 DEF Table!TypeOK, Table!Range
<1>4. Table!ConstraintsSent'
  <2>1. Table!Meant' = MeantBy(request')
    BY DEF Table!Meant, MeantBy, Table!Range
  <2> QED
    BY <1>1, <2>1, RequestMeans DEF Table!ConstraintsSent, Table!Range
<1>5. Table!MadeInv'
  BY <1>1, <1>2 DEF Table!MadeInv
<1> QED
  BY <1>1, <1>3, <1>4, <1>5
     DEF Table!TableInv, Table!ColumnsOfOwnFields, Table!NotNullOfOwnFields, Table!CreatedAsStated

\* What the server answers is a schema.
LEMMA ServeKeepsTableInv == Table!TableInv /\ (Table!Serve \/ Table!List) => Table!TableInv'
<1> SUFFICES ASSUME Table!TableInv, Table!Serve \/ Table!List PROVE Table!TableInv'
  OBVIOUS
<1>1. /\ step \in {"start", "sent"} /\ step' = "received"
      /\ statement \in CreateStatements \cup {Table!NoStatement}
      /\ statement' = statement /\ request' = request /\ table_entry' = table_entry
      /\ table_entry = Table!NoEntry
      /\ IF statement = Table!NoStatement THEN request = Table!NoRequest ELSE request = Table!Request
      /\ IF statement = Table!NoStatement THEN schema' \in ServerSchemas ELSE schema' \in Table!Served
  BY DEF Table!TableInv, Table!TypeOK, Table!MadeInv, Table!Serve, Table!List
<1>2. Table!Request' = Table!Request /\ Table!Served' = Table!Served
  <2>1. Table!Request' = Table!Request
    BY <1>1 DEF Table!Request, Table!OfKind, Table!UniqueColumns
  <2>2. Table!Served' = Table!Served
    BY <1>1 DEF Table!Served, Table!WithRowIdAt, Table!Requested
  <2> QED
    BY <2>1, <2>2
<1>3. schema' \in Seq(Table!Fields)
  <2>1. CASE statement = Table!NoStatement
    BY <1>1, <2>1, TableAssumption DEF Table!SchemasAssumption
  <2>2. CASE statement # Table!NoStatement
    <3>1. statement \in CreateStatements /\ request = Table!Request /\ schema' \in Table!Served
      BY <1>1, <2>2
    <3> QED
      BY <3>1, ServedFacts
  <2> QED
    BY <2>1, <2>2
<1>4. Table!TypeOK'
  <2>1. Len(table_entry'.columns) <= Len(schema') /\ table_entry'.not_null \subseteq 1 .. Len(table_entry'.columns)
    <3>1. Len(schema') \in Nat
      BY <1>3
    <3> QED
      BY <1>1, <3>1 DEF Table!NoEntry
  <2> QED
    BY SMTT(30), <1>1, <2>1 DEF Table!TypeOK, Table!TableInv, Table!Range
<1>5. Table!MadeInv'
  BY <1>1, <1>2, <1>3 DEF Table!MadeInv, Table!Fields
<1> QED
  BY <1>1, <1>4, <1>5
     DEF Table!TableInv, Table!ConstraintsSent, Table!ColumnsOfOwnFields, Table!NotNullOfOwnFields,
         Table!CreatedAsStated

\* The entry is made from the schema.
LEMMA SchemaKeepsTableInv ==
  Table!TableInv /\ Table!AirportArrowSchemaToCreateTableInfo => Table!TableInv'
<1> SUFFICES ASSUME Table!TableInv, Table!AirportArrowSchemaToCreateTableInfo PROVE Table!TableInv'
  OBVIOUS
<1> DEFINE e == Table!EntryOf(schema)
           q == Table!Kept(schema)
           m == Len(q)
           d == Table!Deduplicated(Table!ColumnNames(schema))
<1>1. /\ step' = "created" /\ table_entry' = e
      /\ statement' = statement /\ request' = request /\ schema' = schema
      /\ statement \in CreateStatements \cup {Table!NoStatement}
      /\ IF statement = Table!NoStatement THEN request = Table!NoRequest ELSE request = Table!Request
      /\ schema \in (IF statement = Table!NoStatement THEN Seq(Table!Fields) ELSE Table!Served)
  BY DEF Table!TableInv, Table!TypeOK, Table!MadeInv, Table!AirportArrowSchemaToCreateTableInfo
<1>2. schema \in Seq(Table!Fields)
  <2>1. CASE statement = Table!NoStatement
    BY <1>1, <2>1
  <2>2. CASE statement # Table!NoStatement
    <3>1. statement \in CreateStatements /\ request = Table!Request /\ schema \in Table!Served
      BY <1>1, <2>2
    <3> QED
      BY <3>1, ServedFacts
  <2> QED
    BY <2>1, <2>2
<1>3. e.columns = Table!TableColumns(schema) /\ e.not_null = Table!NotNullColumns(schema)
  BY DEF Table!EntryOf
<1>4. /\ m \in Nat /\ m <= Len(schema) /\ Len(schema) \in Nat
      /\ Len(e.columns) = m /\ e.not_null \subseteq 1 .. m
      /\ Table!OneRowId(schema) =>
           \A k \in 1 .. m : e.columns[k] = [name |-> d[k], type |-> q[k], default |-> schema[q[k]].default]
  BY <1>2, <1>3, KeptFacts, TableColumnsFacts
<1>5. Table!Kept(schema)' = q
  BY <1>1 DEF Table!Kept
<1>6. Table!EntryOf(schema)' = e
  BY <1>1
<1>7. Table!OneRowId(schema)' = Table!OneRowId(schema) /\ Table!OwnNames(schema)' = Table!OwnNames(schema)
  BY <1>1 DEF Table!OneRowId, Table!OwnNames
<1> HIDE DEF e, q, m, d
<1>8. Table!TypeOK'
  <2>1. Len(table_entry'.columns) <= Len(schema') /\ table_entry'.not_null \subseteq 1 .. Len(table_entry'.columns)
    BY <1>1, <1>4
  <2> QED
    BY <1>1, <2>1 DEF Table!TypeOK, Table!TableInv, Table!Range
<1>9. Table!MadeInv'
  <2>1. Table!Request' = Table!Request /\ Table!Served' = Table!Served
    BY <1>1 DEF Table!Request, Table!OfKind, Table!UniqueColumns, Table!Served, Table!WithRowIdAt, Table!Requested
  <2> QED
    BY <1>1, <1>6, <2>1 DEF Table!MadeInv, Table!Fields
<1>10. Table!ColumnsOfOwnFields'
  <2>1. SUFFICES ASSUME Table!OneRowId(schema)
                 PROVE  /\ Len(e.columns) = m
                        /\ \A k \in 1 .. m :
                             e.columns[k].type = q[k] /\ e.columns[k].default = schema[q[k]].default
                        /\ \A j, k \in 1 .. m :
                             j # k => Table!Fold(e.columns[j].name) # Table!Fold(e.columns[k].name)
    BY <1>1, <1>4, <1>5, <1>7 DEF Table!ColumnsOfOwnFields, Table!Fold, m
  <2>2. \A k \in 1 .. m : e.columns[k].type = q[k] /\ e.columns[k].default = schema[q[k]].default
                          /\ e.columns[k].name = d[k]
    <3> SUFFICES ASSUME NEW k \in 1 .. m
                 PROVE  /\ e.columns[k].type = q[k] /\ e.columns[k].default = schema[q[k]].default
                        /\ e.columns[k].name = d[k]
      OBVIOUS
    <3>1. e.columns[k] = [name |-> d[k], type |-> q[k], default |-> schema[q[k]].default]
      BY <1>4, <2>1
    <3> QED
      BY ONLY <3>1
  <2>3. \A j, k \in 1 .. m : j < k => Table!Fold(d[j]) # Table!Fold(d[k])
    BY <1>2, DeduplicatedDistinct DEF m, q, d
  <2>4. \A j, k \in 1 .. m : j # k => j < k \/ k < j
    BY <1>4
  <2>5. \A j, k \in 1 .. m : j # k => Table!Fold(d[j]) # Table!Fold(d[k])
    BY <2>3, <2>4
  <2>6. \A j, k \in 1 .. m : j # k => Table!Fold(e.columns[j].name) # Table!Fold(e.columns[k].name)
    BY <2>2, <2>5
  <2> QED
    BY <1>4, <2>2, <2>6
<1>11. Table!NotNullOfOwnFields'
  <2>1. SUFFICES ASSUME Table!OneRowId(schema), Table!OwnNames(schema), NEW k \in 1 .. m
                 PROVE  k \in e.not_null <=> ~schema[q[k]].nullable
    BY <1>1, <1>4, <1>5, <1>7 DEF Table!NotNullOfOwnFields
  <2> QED
    BY <1>2, <1>3, <2>1, NotNullFacts DEF m, q
<1>12. Table!CreatedAsStated'
  <2>1. SUFFICES ASSUME statement # Table!NoStatement
                 PROVE  /\ [k \in 1 .. m |-> e.columns[k].name[1]] = statement.columns
                        /\ e.not_null = statement.not_null
    BY <1>1, <1>4 DEF Table!CreatedAsStated, Table!NoStatement
  <2>2. statement \in CreateStatements /\ request = Table!Request /\ schema \in Table!Served
    BY <1>1, <2>1
  <2>3. /\ Table!OneRowId(schema) /\ Table!OwnNames(schema) /\ m = Len(statement.columns)
        /\ \A k \in 1 .. m : schema[q[k]] = Table!Requested[k]
    BY <2>2, ServedFacts DEF m, q
  <2>4. /\ statement.columns \in Seq(ServerNames) /\ statement.not_null \subseteq 1 .. m
        /\ \A k \in 1 .. m :
             /\ statement.columns[k] # Empty
             /\ Table!Requested[k] = [name |-> statement.columns[k], rowid |-> FALSE,
                                      nullable |-> k \notin statement.not_null, default |-> FALSE]
    BY <2>2, <2>3, RequestedFacts
  <2>5. ASSUME NEW k \in 1 .. m
        PROVE  /\ e.columns[k].name[1] = statement.columns[k]
               /\ k \in e.not_null <=> k \in statement.not_null
    <3>1. /\ schema[q[k]].name = statement.columns[k] /\ statement.columns[k] # Empty
          /\ schema[q[k]].nullable <=> k \notin statement.not_null
      <4>1. schema[q[k]] = Table!Requested[k]
        BY <2>3
      <4>2. /\ Table!Requested[k] = [name |-> statement.columns[k], rowid |-> FALSE,
                                     nullable |-> k \notin statement.not_null, default |-> FALSE]
            /\ statement.columns[k] # Empty
        BY <2>4
      <4>3. Table!Requested[k].name = statement.columns[k]
        BY ONLY <4>2
      <4>4. Table!Requested[k].nullable <=> k \notin statement.not_null
        <5>1. CASE k \in statement.not_null
          <6>1. (k \notin statement.not_null) = FALSE
            BY ONLY <5>1
          <6>2. Table!Requested[k] = [name |-> statement.columns[k], rowid |-> FALSE,
                                      nullable |-> FALSE, default |-> FALSE]
            BY ONLY <4>2, <6>1
          <6> QED
            BY ONLY <5>1, <6>2
        <5>2. CASE k \notin statement.not_null
          <6>1. (k \notin statement.not_null) = TRUE
            BY ONLY <5>2
          <6>2. Table!Requested[k] = [name |-> statement.columns[k], rowid |-> FALSE,
                                      nullable |-> TRUE, default |-> FALSE]
            BY ONLY <4>2, <6>1
          <6> QED
            BY ONLY <5>2, <6>2
        <5> QED
          BY ONLY <5>1, <5>2
      <4> QED
        BY ONLY <4>1, <4>2, <4>3, <4>4
    <3>2. e.columns[k].name = d[k]
      <4>1. e.columns[k] = [name |-> d[k], type |-> q[k], default |-> schema[q[k]].default]
        BY <1>4, <2>3
      <4> QED
        BY ONLY <4>1
    <3>3. d[k] = Table!NameOf(schema, q[k])
      BY <1>2, <2>3, OwnNamesKept, ColumnNamesFacts DEF d, m, q
    <3>4. Table!NameOf(schema, q[k]) = <<statement.columns[k], 0>>
      BY <3>1 DEF Table!NameOf
    <3>5. k \in e.not_null <=> ~schema[q[k]].nullable
      BY <1>2, <1>3, <2>3, NotNullFacts DEF m, q
    <3> QED
      BY <3>1, <3>2, <3>3, <3>4, <3>5
  <2>6. statement.columns = [k \in 1 .. m |-> statement.columns[k]]
    BY <2>3, <2>4
  <2>7. [k \in 1 .. m |-> e.columns[k].name[1]] = [k \in 1 .. m |-> statement.columns[k]]
    BY <2>5
  <2>8. e.not_null = statement.not_null
    BY <1>4, <2>4, <2>5
  <2> QED
    BY <2>6, <2>7, <2>8
<1> QED
  BY <1>1, <1>8, <1>9, <1>10, <1>11, <1>12 DEF Table!TableInv, Table!ConstraintsSent

LEMMA NextTableInv == Table!TableInv /\ [Table!Next]_(Table!vars) => Table!TableInv'
<1> SUFFICES ASSUME Table!TableInv, [Table!Next]_(Table!vars) PROVE Table!TableInv'
  OBVIOUS
<1>1. CASE Table!CreateTable
  BY <1>1, CreateTableKeepsTableInv
<1>2. CASE Table!Serve \/ Table!List
  BY <1>2, ServeKeepsTableInv
<1>3. CASE Table!AirportArrowSchemaToCreateTableInfo
  BY <1>3, SchemaKeepsTableInv
<1>4. CASE UNCHANGED Table!vars
  <2>1. step' = step /\ statement' = statement /\ request' = request /\ schema' = schema /\ table_entry' = table_entry
    BY <1>4 DEF Table!vars
  <2>2. Table!TypeOK'
    BY <2>1 DEF Table!TableInv, Table!TypeOK, Table!Range
  <2>3. Table!MadeInv'
    <3>1. Table!Request' = Table!Request /\ Table!Served' = Table!Served
      BY <2>1 DEF Table!Request, Table!OfKind, Table!UniqueColumns, Table!Served, Table!WithRowIdAt, Table!Requested
    <3>2. Table!EntryOf(schema)' = Table!EntryOf(schema)
      BY <2>1
    <3> QED
      BY <2>1, <3>1, <3>2 DEF Table!TableInv, Table!MadeInv, Table!Fields
  <2>4. Table!ConstraintsSent'
    BY <2>1 DEF Table!TableInv, Table!ConstraintsSent, Table!Meant, Table!Range
  <2>5. Table!ColumnsOfOwnFields'
    BY <2>1 DEF Table!TableInv, Table!ColumnsOfOwnFields
  <2>6. Table!NotNullOfOwnFields'
    BY <2>1 DEF Table!TableInv, Table!NotNullOfOwnFields
  <2>7. Table!CreatedAsStated'
    BY <2>1 DEF Table!TableInv, Table!CreatedAsStated
  <2> QED
    BY <2>2, <2>3, <2>4, <2>5, <2>6, <2>7 DEF Table!TableInv
<1> QED
  BY <1>1, <1>2, <1>3, <1>4 DEF Table!Next

\* TableColumnsInPlace: requests say what the constraints of a statement say; columns have
\* the types, defaults and names of their own fields, and NOT NULL too if no two fields
\* have one name; a table made as it is told has the columns of the statement.
THEOREM TableColumnsAreInPlace == PartsSpec => []TableColumnsInPlace
<1> DEFINE Inv == part = "table" => Table!TableInv
<1>1. PartsInit => Inv
  BY InitTableInv DEF PartsInit
<1>2. Inv /\ [PartsNext]_allVars => Inv'
  <2> SUFFICES ASSUME Inv, [PartsNext]_allVars, part = "table" PROVE Table!TableInv'
    <3> QED
      BY DEF PartsNext, allVars
  <2>1. Table!TableInv
    OBVIOUS
  <2>2. [Table!Next]_(Table!vars)
    BY DEF PartsNext, allVars, tableVars, Table!vars
  <2> QED
    BY <2>1, <2>2, NextTableInv
<1>3. Inv => TableColumnsInPlace
  BY DEF TableColumnsInPlace
<1> QED
  BY <1>1, <1>2, <1>3, PTL DEF PartsSpec

=============================================================================
