------------------------- MODULE CollectionProofs -------------------------
(***************************************************************************)
(* What the operators of Ordering yield for every finite set and every      *)
(* strict total order, the inductions over numbers and over finite sets     *)
(* that the proofs about recursive functions use, that such a function      *)
(* exists, and what the sums of the community modules add up to.            *)
(***************************************************************************)
EXTENDS Ordering, Sequences, Functions, TLAPS, FiniteSetTheorems,
        FunctionTheorems, WellFoundedInduction

Orders(R, S) ==
    /\ \A x \in S : <<x, x>> \notin R
    /\ \A x, y \in S : x # y => <<x, y>> \in R \/ <<y, x>> \in R
    /\ \A x, y, z \in S : <<x, y>> \in R /\ <<y, z>> \in R => <<x, z>> \in R

Before(R, S, x) == {y \in S : <<y, x>> \in R}

-----------------------------------------------------------------------------
(* Arranging a set.                                                          *)

\* The number of elements before one is below the size of the set, and grows
\* along the order.
LEMMA PlacesGrow ==
  ASSUME NEW S, NEW R, IsFiniteSet(S), Orders(R, S)
  PROVE  /\ \A x \in S : Cardinality(Before(R, S, x)) \in 0..Cardinality(S) - 1
         /\ \A x, y \in S : <<x, y>> \in R =>
              Cardinality(Before(R, S, x)) < Cardinality(Before(R, S, y))
<1>1. ASSUME NEW x \in S
      PROVE  Cardinality(Before(R, S, x)) \in 0..Cardinality(S) - 1
  <2>1. Before(R, S, x) \subseteq S \ {x}
    BY DEF Before, Orders
  <2>2. IsFiniteSet(S \ {x}) /\ Cardinality(S \ {x}) = Cardinality(S) - 1
    BY FS_RemoveElement
  <2>3. /\ IsFiniteSet(Before(R, S, x))
        /\ Cardinality(Before(R, S, x)) <= Cardinality(S) - 1
    BY <2>1, <2>2, FS_Subset
  <2> QED BY <2>3, FS_CardinalityType
<1>2. ASSUME NEW x \in S, NEW y \in S, <<x, y>> \in R
      PROVE  Cardinality(Before(R, S, x)) < Cardinality(Before(R, S, y))
  <2>1. Before(R, S, x) \subseteq Before(R, S, y)
    BY <1>2 DEF Before, Orders
  <2>2. x \in Before(R, S, y) /\ x \notin Before(R, S, x)
    BY <1>2 DEF Before, Orders
  <2>3. IsFiniteSet(Before(R, S, y)) /\ IsFiniteSet(Before(R, S, x))
    BY FS_Subset DEF Before
  <2>4. /\ Cardinality(Before(R, S, x)) <= Cardinality(Before(R, S, y))
        /\ Cardinality(Before(R, S, x)) # Cardinality(Before(R, S, y))
    BY <2>1, <2>2, <2>3, FS_Subset
  <2> QED BY <2>3, <2>4, FS_CardinalityType
<1> QED BY <1>1, <1>2

\* Every place is taken.
LEMMA EveryPlaceIsTaken ==
  ASSUME NEW S, NEW R, IsFiniteSet(S), Orders(R, S),
         NEW k \in 1..Cardinality(S)
  PROVE  \E x \in S : Cardinality(Before(R, S, x)) = k - 1
<1> DEFINE place == [x \in S |-> Cardinality(Before(R, S, x)) + 1]
           n == Cardinality(S)
<1>1. n \in Nat
  BY FS_CardinalityType
<1>2. place \in [S -> 1..n]
  BY PlacesGrow, <1>1
<1>3. ASSUME NEW x \in S, NEW y \in S, place[x] = place[y]
      PROVE  x = y
  <2>1. /\ Cardinality(Before(R, S, x)) \in Int
        /\ Cardinality(Before(R, S, y)) \in Int
        /\ Cardinality(Before(R, S, x)) = Cardinality(Before(R, S, y))
    BY PlacesGrow, <1>1, <1>3
  <2>2. <<x, y>> \notin R /\ <<y, x>> \notin R
    BY PlacesGrow, <2>1
  <2> QED BY <2>2 DEF Orders
<1>4. place \in Injection(S, 1..n)
  BY <1>2, <1>3 DEF Injection, IsInjective
<1>5. IsFiniteSet(1..n) /\ Cardinality(1..n) = n
  BY <1>1, FS_Interval
<1>6. place \in Surjection(S, 1..n)
  BY <1>4, <1>5, FS_Injection
<1>7. PICK x \in S : place[x] = k
  BY <1>6 DEF Surjection
<1>8. Cardinality(Before(R, S, x)) \in Int
  BY PlacesGrow, <1>1
<1> QED BY <1>7, <1>8

\* Arranged() lists every element once, in the order.
THEOREM ArrangedIsSorted ==
  ASSUME NEW S, NEW R, IsFiniteSet(S), Orders(R, S)
  PROVE  /\ Cardinality(S) \in Nat
         /\ Arranged(S, R) \in [1..Cardinality(S) -> S]
         /\ \A x \in S : \E k \in 1..Cardinality(S) : Arranged(S, R)[k] = x
         /\ \A i, j \in 1..Cardinality(S) :
              i < j => <<Arranged(S, R)[i], Arranged(S, R)[j]>> \in R
         /\ \A i, j \in 1..Cardinality(S) :
              Arranged(S, R)[i] = Arranged(S, R)[j] => i = j
<1> DEFINE n == Cardinality(S)
           A == Arranged(S, R)
<1>1. n \in Nat
  BY FS_CardinalityType
<1>2. ASSUME NEW k \in 1..n
      PROVE  A[k] \in S /\ Cardinality(Before(R, S, A[k])) = k - 1
  <2>1. \E x \in S : Cardinality({y \in S : <<y, x>> \in R}) = k - 1
    BY EveryPlaceIsTaken DEF Before
  <2>2. A[k] = CHOOSE x \in S : Cardinality({y \in S : <<y, x>> \in R}) = k - 1
    BY DEF Arranged
  <2> HIDE DEF A
  <2>3. A[k] \in S /\ Cardinality({y \in S : <<y, A[k]>> \in R}) = k - 1
    BY <2>1, <2>2
  <2> QED BY <2>3 DEF Before
<1>3. A \in [1..n -> S]
  BY <1>2 DEF Arranged
<1>4. ASSUME NEW i \in 1..n, NEW j \in 1..n, A[i] = A[j]
      PROVE  i = j
  BY <1>1, <1>2, <1>4
<1>5. ASSUME NEW i \in 1..n, NEW j \in 1..n, i < j
      PROVE  <<A[i], A[j]>> \in R
  <2>1. A[i] # A[j]
    BY <1>4, <1>5
  <2>2. <<A[j], A[i]>> \notin R
    BY <1>1, <1>2, <1>5, PlacesGrow
  <2> QED BY <1>2, <2>1, <2>2 DEF Orders
<1>6. ASSUME NEW x \in S
      PROVE  \E k \in 1..n : A[k] = x
  <2>1. A \in Injection(1..n, S)
    BY <1>3, <1>4 DEF Injection, IsInjective
  <2>2. IsFiniteSet(1..n) /\ Cardinality(1..n) = n
    BY <1>1, FS_Interval
  <2>3. A \in Surjection(1..n, S)
    BY <2>1, <2>2, FS_Injection
  <2> QED BY <2>3 DEF Surjection
<1> QED BY <1>1, <1>3, <1>4, <1>5, <1>6

LEMMA AscendingOrders ==
  ASSUME NEW S \in SUBSET Int
  PROVE  Orders(Ascending(S), S)
BY DEF Orders, Ascending

\* There is one way to put a set in order.
LEMMA ArrangedIsUnique ==
  ASSUME NEW S, NEW R, IsFiniteSet(S), Orders(R, S),
         NEW A \in [1..Cardinality(S) -> S],
         \A i, j \in 1..Cardinality(S) : i < j => <<A[i], A[j]>> \in R
  PROVE  A = Arranged(S, R)
<1> DEFINE n == Cardinality(S)
           B == Arranged(S, R)
<1>1. n \in Nat
  BY FS_CardinalityType
<1>2. \A i, j \in 1..n : A[i] = A[j] => i = j
  <2> SUFFICES ASSUME NEW i \in 1..n, NEW j \in 1..n, A[i] = A[j], i # j
               PROVE  FALSE
    OBVIOUS
  <2>1. i < j \/ j < i
    BY <1>1
  <2>2. <<A[i], A[i]>> \in R /\ A[i] \in S
    BY <2>1
  <2> QED BY <2>2 DEF Orders
<1>3. \A x \in S : \E k \in 1..n : A[k] = x
  <2>1. A \in Injection(1..n, S)
    BY <1>2 DEF Injection, IsInjective
  <2>2. IsFiniteSet(1..n) /\ Cardinality(1..n) = n
    <3>1. 1 \in Int /\ n \in Int
      BY <1>1
    <3> HIDE DEF n
    <3> QED BY <1>1, <3>1, FS_Interval
  <2>3. A \in Surjection(1..n, S)
    BY <2>1, <2>2, FS_Injection
  <2> QED BY <2>3 DEF Surjection
<1>4. ASSUME NEW k \in 1..n
      PROVE  Cardinality(Before(R, S, A[k])) = k - 1
  <2> DEFINE f == [i \in 1..(k - 1) |-> A[i]]
             T == Before(R, S, A[k])
  <2>1. ASSUME NEW i \in 1..n
        PROVE  <<A[i], A[k]>> \in R <=> i < k
    <3>1. ASSUME ~(i < k), <<A[i], A[k]>> \in R
          PROVE  FALSE
      <4>1. CASE i = k
        BY <3>1, <4>1 DEF Orders
      <4>2. CASE k < i
        <5>1. <<A[k], A[i]>> \in R
          BY <4>2
        <5> QED BY <3>1, <5>1 DEF Orders
      <4> QED BY <1>1, <3>1, <4>1, <4>2
    <3> QED BY <3>1
  <2>2. f \in [1..(k - 1) -> T]
    BY <1>1, <2>1 DEF Before
  <2>3. \A i, j \in 1..(k - 1) : f[i] = f[j] => i = j
    BY <1>1, <1>2
  <2>4. \A x \in T : \E i \in 1..(k - 1) : f[i] = x
    <3> SUFFICES ASSUME NEW x \in T PROVE \E i \in 1..(k - 1) : f[i] = x
      OBVIOUS
    <3>1. x \in S /\ <<x, A[k]>> \in R
      BY DEF Before
    <3>2. PICK i \in 1..n : A[i] = x
      BY <1>3, <3>1
    <3>3. i < k
      BY <2>1, <3>1, <3>2
    <3>4. i \in 1..(k - 1)
      BY <1>1, <3>3
    <3> QED BY <3>2, <3>4
  <2>5. f \in Bijection(1..(k - 1), T)
    <3> HIDE DEF f, T
    <3> QED BY <2>2, <2>3, <2>4 DEF Bijection, Injection, Surjection, IsInjective
  <2>6. IsFiniteSet(1..(k - 1)) /\ Cardinality(1..(k - 1)) = k - 1
    <3>1. 1 \in Int /\ k - 1 \in Int /\ k - 1 \in Nat
      BY <1>1
    <3> QED BY <3>1, FS_Interval
  <2> HIDE DEF f, T
  <2>7. Cardinality(T) = Cardinality(1..(k - 1))
    BY <2>5, <2>6, FS_Bijection DEF ExistsBijection
  <2> QED BY <2>6, <2>7 DEF T
<1>5. ASSUME NEW x \in S, NEW k \in 1..n, Cardinality(Before(R, S, x)) = k - 1
      PROVE  x = A[k]
  <2>1. PICK i \in 1..n : A[i] = x
    BY <1>3
  <2>2. i - 1 = k - 1
    BY <1>4, <1>5, <2>1
  <2> QED BY <1>1, <2>1, <2>2
<1>6. ASSUME NEW k \in 1..n
      PROVE  B[k] = A[k]
  <2>1. B[k] = CHOOSE x \in S : Cardinality(Before(R, S, x)) = k - 1
    BY DEF Arranged, Before
  <2>2. A[k] \in S /\ Cardinality(Before(R, S, A[k])) = k - 1
    BY <1>4
  <2> HIDE DEF B
  <2>3. B[k] \in S /\ Cardinality(Before(R, S, B[k])) = k - 1
    BY <2>1, <2>2
  <2> QED BY <1>5, <2>3
<1>7. B \in [1..n -> S]
  BY ArrangedIsSorted
<1>8. /\ B = [k \in 1..n |-> B[k]]
      /\ A = [k \in 1..n |-> A[k]]
  <2> HIDE DEF B
  <2>1. B = [k \in 1..n |-> B[k]]
    BY <1>7
  <2>2. A = [k \in 1..n |-> A[k]]
    OBVIOUS
  <2> QED BY <2>1, <2>2
<1> HIDE DEF B, n
<1>9. B = A
  BY <1>6, <1>8
<1> QED BY <1>9 DEF B

\* What is left of a sequence are its elements at the chosen positions, each
\* once and in the order of the sequence.
THEOREM AtPositionsIsSelection ==
  ASSUME NEW s, NEW I \in SUBSET Int, IsFiniteSet(I)
  PROVE  /\ Cardinality(I) \in Nat
         /\ DOMAIN AtPositions(s, I) = 1..Cardinality(I)
         /\ \A k \in 1..Cardinality(I) : \E i \in I : AtPositions(s, I)[k] = s[i]
         /\ \A i \in I : \E k \in 1..Cardinality(I) : AtPositions(s, I)[k] = s[i]
<1>1. Orders(Ascending(I), I)
  BY AscendingOrders
<1> DEFINE order == Arranged(I, Ascending(I))
<1>2. /\ Cardinality(I) \in Nat
      /\ order \in [1..Cardinality(I) -> I]
      /\ \A i \in I : \E k \in 1..Cardinality(I) : order[k] = i
  BY <1>1, ArrangedIsSorted
<1>3. AtPositions(s, I) = [k \in DOMAIN order |-> s[order[k]]]
  BY DEF AtPositions
<1> HIDE DEF order
<1>4. DOMAIN order = 1..Cardinality(I)
  BY <1>2
<1>5. \A k \in 1..Cardinality(I) : order[k] \in I /\ AtPositions(s, I)[k] = s[order[k]]
  BY <1>2, <1>3, <1>4
<1>6. DOMAIN AtPositions(s, I) = 1..Cardinality(I)
  BY <1>3, <1>4
<1> QED BY <1>2, <1>5, <1>6

-----------------------------------------------------------------------------
(* Induction over numbers: the library's theorem takes the property as an    *)
(* operator; here it is the set of the numbers that have it.                 *)

Less == {p \in Nat \X Nat : p[1] < p[2]}

LEMMA LessIsWellFounded == IsWellFoundedOn(Less, Nat)
BY NatLessThanWellFounded DEF OpToRel, Less

LEMMA LeastNumber ==
  ASSUME NEW T \in SUBSET Nat, T # {}
  PROVE  \E n \in T : \A m \in T : n <= m
<1>1. PICK n \in T : \A m \in T : <<m, n>> \notin Less
  BY LessIsWellFounded, WFMin
<1>2. ASSUME NEW m \in T PROVE n <= m
  <2>1. <<m, n>> \notin Less
    BY <1>1
  <2>2. m \in Nat /\ n \in Nat
    OBVIOUS
  <2> QED BY <2>1, <2>2 DEF Less
<1> QED BY <1>2

LEMMA GreatestNumber ==
  ASSUME NEW T \in SUBSET Int, T # {}, NEW bound \in Int, \A n \in T : n <= bound
  PROVE  \E n \in T : \A m \in T : m <= n
<1> DEFINE distances == {d \in Nat : bound - d \in T}
<1>1. distances # {}
  <2>1. PICK n \in T : TRUE
    OBVIOUS
  <2>2. bound - n \in distances
    BY <2>1
  <2> QED BY <2>2
<1>2. PICK d \in distances : \A e \in distances : d <= e
  BY <1>1, LeastNumber
<1>3. \A m \in T : bound - m \in distances
  OBVIOUS
<1> QED BY <1>2, <1>3

THEOREM Induction ==
  ASSUME NEW T \in SUBSET Nat, 0 \in T, \A n \in T : n + 1 \in T
  PROVE  T = Nat
<1> SUFFICES ASSUME T # Nat PROVE FALSE
  OBVIOUS
<1>1. PICK n \in Nat \ T : \A m \in Nat \ T : n <= m
  BY LeastNumber
<1>2. n # 0 /\ n - 1 \in Nat
  BY <1>1
<1>3. n - 1 \in T
  BY <1>1, <1>2
<1> QED BY <1>2, <1>3

\* A recursion that takes each value from the one before it.
IsRecursion(f, base, step, n) ==
    /\ f = [i \in 0..n |-> f[i]]
    /\ f[0] = base
    /\ \A i \in 1..n : f[i] = step[<<i, f[i - 1]>>]

\* There is a function that satisfies it.
LEMMA RecursionDefines ==
  ASSUME NEW base, NEW n \in Nat, NEW step
  PROVE  \E f : IsRecursion(f, base, step, n)
<1> DEFINE T == {k \in Nat : \E f : IsRecursion(f, base, step, k)}
<1>1. 0 \in T
  <2> DEFINE f == [i \in 0..0 |-> base]
  <2>1. IsRecursion(f, base, step, 0)
    BY DEF IsRecursion
  <2> QED BY <2>1
<1>2. ASSUME NEW k \in T PROVE k + 1 \in T
  <2>1. PICK f : IsRecursion(f, base, step, k)
    OBVIOUS
  <2> DEFINE g == [i \in 0..k + 1 |-> IF i = k + 1 THEN step[<<k + 1, f[k]>>] ELSE f[i]]
  <2>2. k \in Nat /\ k + 1 \in Nat
    OBVIOUS
  <2>3. g = [i \in 0..k + 1 |-> g[i]]
    OBVIOUS
  <2>4. g[k + 1] = step[<<k + 1, f[k]>>] /\ \A i \in 0..k : g[i] = f[i]
    BY <2>2
  <2>5. f[0] = base /\ \A i \in 1..k : f[i] = step[<<i, f[i - 1]>>]
    BY <2>1 DEF IsRecursion
  <2> HIDE DEF g
  <2>6. g[0] = base
    BY <2>2, <2>4, <2>5
  <2>7. ASSUME NEW i \in 1..k + 1 PROVE g[i] = step[<<i, g[i - 1]>>]
    <3>1. CASE i = k + 1
      <4>1. g[i - 1] = f[k]
        BY <2>2, <2>4, <3>1
      <4> QED BY <2>4, <3>1, <4>1
    <3>2. CASE i # k + 1
      <4>1. i \in 1..k /\ i \in 0..k /\ i - 1 \in 0..k
        BY <2>2, <3>2
      <4>2. g[i] = f[i] /\ g[i - 1] = f[i - 1] /\ f[i] = step[<<i, f[i - 1]>>]
        BY <2>4, <2>5, <4>1
      <4> QED BY <4>2
    <3> QED BY <3>1, <3>2
  <2>8. IsRecursion(g, base, step, k + 1)
    BY <2>3, <2>6, <2>7 DEF IsRecursion
  <2> QED BY <2>2, <2>8
<1>3. T = Nat
  <2> HIDE DEF T
  <2>1. T \in SUBSET Nat
    BY DEF T
  <2> QED BY <1>1, <1>2, <2>1, Induction
<1> QED BY <1>3

-----------------------------------------------------------------------------
(* Products.                                                                 *)

\* A common factor that is no less than 0 keeps an order.
LEMMA ProductsKeepOrder ==
  ASSUME NEW a \in Int, NEW b \in Int, NEW n \in Nat, a <= b
  PROVE  a * n <= b * n
<1>1. PICK d \in Nat : b = a + d
  <2>1. b - a \in Nat /\ b = a + (b - a)
    OBVIOUS
  <2> QED BY <2>1
<1>2. d * n \in Nat /\ (a + d) * n = a * n + d * n
  OBVIOUS
<1> QED BY <1>1, <1>2

\* A square is never negative.
LEMMA SquareIsNat ==
  ASSUME NEW x \in Int PROVE x * x \in Nat
OBVIOUS

-----------------------------------------------------------------------------
(* Sums over a finite set of indexes.  The library defines them by a         *)
(* recursion that takes the indexes in an order of its own choice.           *)

\* What holds of the empty set and stays true when an element is added holds of
\* every finite set.
LEMMA FiniteInduction ==
  ASSUME NEW S, IsFiniteSet(S), NEW T, {} \in T,
         \A s \in SUBSET S : s \in T => \A x \in S \ s : s \cup {x} \in T
  PROVE  S \in T
<1> DEFINE N == {n \in Nat : \A s \in SUBSET S : Cardinality(s) = n => s \in T}
<1>1. \A s \in SUBSET S : IsFiniteSet(s) /\ Cardinality(s) \in Nat
  BY FS_Subset, FS_CardinalityType
<1>2. 0 \in N
  <2>1. \A s \in SUBSET S : Cardinality(s) = 0 => s = {}
    BY <1>1, FS_EmptySet
  <2> QED BY <2>1
<1>3. ASSUME NEW n \in N PROVE n + 1 \in N
  <2>1. n \in Nat /\ n + 1 \in Nat
    OBVIOUS
  <2>2. ASSUME NEW s \in SUBSET S, Cardinality(s) = n + 1 PROVE s \in T
    <3>1. s # {}
      BY <2>1, <2>2, FS_EmptySet
    <3>2. PICK x \in s : TRUE
      BY <3>1
    <3>3. Cardinality(s \ {x}) = n
      BY <1>1, <2>1, <2>2, FS_RemoveElement
    <3>4. s \ {x} \in T
      BY <3>3
    <3>5. (s \ {x}) \cup {x} = s /\ x \in S \ (s \ {x}) /\ s \ {x} \in SUBSET S
      OBVIOUS
    <3> QED BY <3>4, <3>5
  <2> QED BY <2>1, <2>2
<1>4. N = Nat
  <2>1. N \in SUBSET Nat
    OBVIOUS
  <2> HIDE DEF N
  <2> QED BY <1>2, <1>3, <2>1, Induction
<1>5. Cardinality(S) \in N
  BY <1>1, <1>4
<1> QED BY <1>5

\* The index the recursion takes next.
Picked(s) == CHOOSE x \in s : TRUE

\* g holds the sum of f over each of the sets.
IsSummation(g, f, sets) ==
    g = [s \in sets |-> IF s = {} THEN 0 ELSE f[Picked(s)] + g[s \ {Picked(s)}]]

\* The library's definition.
LEMMA SumIsIterated ==
  ASSUME NEW f, NEW S
  PROVE  SumFunctionOnSet(f, S) = (CHOOSE sums : IsSummation(sums, f, SUBSET S))[S]
BY Zenon DEF SumFunctionOnSet, FoldFunctionOnSet, MapThenFoldSet, IsSummation, Picked

\* Its recursion has a solution, built up by the size of the sets.
LEMMA SummationExists ==
  ASSUME NEW f, NEW S, IsFiniteSet(S)
  PROVE  IsSummation(CHOOSE sums : IsSummation(sums, f, SUBSET S), f, SUBSET S)
<1> DEFINE Small(n) == {s \in SUBSET S : Cardinality(s) <= n}
           N == {n \in Nat : \E g : IsSummation(g, f, Small(n))}
           Next(g, n) == [s \in Small(n + 1) |->
                            IF s = {} THEN 0 ELSE f[Picked(s)] + g[s \ {Picked(s)}]]
<1>1. \A s \in SUBSET S : IsFiniteSet(s) /\ Cardinality(s) \in Nat
  BY FS_Subset, FS_CardinalityType
<1>2. 0 \in N
  <2> DEFINE g == [s \in Small(0) |-> 0]
  <2>1. \A s \in Small(0) : s = {}
    BY <1>1, FS_EmptySet
  <2>2. IsSummation(g, f, Small(0))
    BY <2>1 DEF IsSummation
  <2> QED BY <2>2
<1>3. ASSUME NEW n \in N PROVE n + 1 \in N
  <2>1. n \in Nat /\ n + 1 \in Nat
    OBVIOUS
  <2>2. PICK g : IsSummation(g, f, Small(n))
    OBVIOUS
  <2>3. ASSUME NEW s \in Small(n + 1), s # {}
        PROVE  s \ {Picked(s)} \in Small(n)
    <3>1. Picked(s) \in s
      BY <2>3 DEF Picked
    <3>2. Cardinality(s \ {Picked(s)}) = Cardinality(s) - 1
      BY <1>1, <3>1, FS_RemoveElement
    <3>3. Cardinality(s) \in Nat /\ Cardinality(s) <= n + 1
      BY <1>1
    <3>4. Cardinality(s \ {Picked(s)}) <= n
      BY <2>1, <3>2, <3>3
    <3> QED BY <3>4
  <2>4. \A s \in Small(n) : s \in Small(n + 1)
    BY <1>1, <2>1
  <2>5. \A s \in Small(n) :
          g[s] = IF s = {} THEN 0 ELSE f[Picked(s)] + g[s \ {Picked(s)}]
    BY <2>2, Zenon DEF IsSummation
  <2> DEFINE h == Next(g, n)
  <2>6. \A s \in Small(n) : h[s] = g[s]
    <3> SUFFICES ASSUME NEW s \in Small(n) PROVE h[s] = g[s]
      OBVIOUS
    <3> HIDE DEF Small
    <3> QED BY <2>4, <2>5
  <2>7. ASSUME NEW s \in Small(n + 1)
        PROVE  h[s] = IF s = {} THEN 0 ELSE f[Picked(s)] + h[s \ {Picked(s)}]
    <3>1. h[s] = IF s = {} THEN 0 ELSE f[Picked(s)] + g[s \ {Picked(s)}]
      OBVIOUS
    <3> HIDE DEF Small, h
    <3> QED BY <2>3, <2>6, <3>1
  <2>8. IsSummation(h, f, Small(n + 1))
    <3>1. h = [s \in Small(n + 1) |-> h[s]]
      OBVIOUS
    <3> HIDE DEF Small, h
    <3> QED BY <2>7, <3>1, Zenon DEF IsSummation
  <2> HIDE DEF h, Small
  <2> QED BY <2>1, <2>8
<1>4. N = Nat
  <2>1. N \in SUBSET Nat
    OBVIOUS
  <2> HIDE DEF N
  <2> QED BY <1>2, <1>3, <2>1, Induction
<1>5. Cardinality(S) \in N
  BY <1>1, <1>4
<1>6. Small(Cardinality(S)) = SUBSET S
  <2>1. \A s \in SUBSET S : Cardinality(s) <= Cardinality(S)
    BY FS_Subset
  <2> QED BY <2>1
<1>7. \E g : IsSummation(g, f, SUBSET S)
  BY <1>5, <1>6
<1> QED BY <1>7

\* Summing over a part gives the same in either recursion.
LEMMA SummationIsUnique ==
  ASSUME NEW f, NEW A, NEW B, NEW g, NEW h, IsFiniteSet(B), B \subseteq A,
         IsSummation(g, f, SUBSET A), IsSummation(h, f, SUBSET B)
  PROVE  g[B] = h[B]
<1> DEFINE N == {n \in Nat : \A s \in SUBSET B : Cardinality(s) = n => g[s] = h[s]}
<1>1. \A s \in SUBSET B : IsFiniteSet(s) /\ Cardinality(s) \in Nat
  BY FS_Subset, FS_CardinalityType
<1>2. ASSUME NEW s \in SUBSET B
      PROVE  /\ g[s] = IF s = {} THEN 0 ELSE f[Picked(s)] + g[s \ {Picked(s)}]
             /\ h[s] = IF s = {} THEN 0 ELSE f[Picked(s)] + h[s \ {Picked(s)}]
  BY Zenon DEF IsSummation
<1>3. 0 \in N
  <2>1. \A s \in SUBSET B : Cardinality(s) = 0 => s = {}
    BY <1>1, FS_EmptySet
  <2> QED BY <1>2, <2>1
<1>4. ASSUME NEW n \in N PROVE n + 1 \in N
  <2>1. n \in Nat /\ n + 1 \in Nat
    OBVIOUS
  <2>2. ASSUME NEW s \in SUBSET B, Cardinality(s) = n + 1 PROVE g[s] = h[s]
    <3>1. s # {}
      BY <2>1, <2>2, FS_EmptySet
    <3>2. Picked(s) \in s
      BY <3>1 DEF Picked
    <3>3. Cardinality(s \ {Picked(s)}) = n
      BY <1>1, <2>1, <2>2, <3>2, FS_RemoveElement
    <3>4. g[s \ {Picked(s)}] = h[s \ {Picked(s)}]
      BY <3>3
    <3> QED BY <1>2, <3>1, <3>4
  <2> QED BY <2>1, <2>2
<1>5. N = Nat
  <2>1. N \in SUBSET Nat
    OBVIOUS
  <2> HIDE DEF N
  <2> QED BY <1>3, <1>4, <2>1, Induction
<1>6. Cardinality(B) \in N
  BY <1>1, <1>5
<1> QED BY <1>6

\* The recursion of the library's definition.
LEMMA SumOfPicked ==
  ASSUME NEW f, NEW S, IsFiniteSet(S)
  PROVE  /\ S = {} => SumFunctionOnSet(f, S) = 0
         /\ S # {} => /\ Picked(S) \in S
                      /\ SumFunctionOnSet(f, S) =
                           f[Picked(S)] + SumFunctionOnSet(f, S \ {Picked(S)})
<1> DEFINE g == CHOOSE sums : IsSummation(sums, f, SUBSET S)
           rest == S \ {Picked(S)}
           h == CHOOSE sums : IsSummation(sums, f, SUBSET rest)
<1>1. IsFiniteSet(rest) /\ rest \subseteq S
  BY FS_Subset
<1>2. IsSummation(g, f, SUBSET S)
  BY SummationExists
<1>3. IsSummation(h, f, SUBSET rest)
  BY <1>1, SummationExists
<1>4. SumFunctionOnSet(f, S) = g[S] /\ SumFunctionOnSet(f, rest) = h[rest]
  BY SumIsIterated
<1>5. S # {} => Picked(S) \in S
  BY DEF Picked
<1> HIDE DEF g, h
<1>6. g[S] = IF S = {} THEN 0 ELSE f[Picked(S)] + g[rest]
  BY <1>2, Zenon DEF IsSummation
<1>7. g[rest] = h[rest]
  <2>1. ASSUME NEW G, IsSummation(G, f, SUBSET S), NEW H, IsSummation(H, f, SUBSET rest)
        PROVE  G[rest] = H[rest]
    <3> HIDE DEF rest
    <3> QED BY <1>1, <2>1, SummationIsUnique, SMTT(60)
  <2> QED BY <1>2, <1>3, <2>1
<1> QED BY <1>4, <1>5, <1>6, <1>7

\* A sum of integers is one.
LEMMA SumIsInt ==
  ASSUME NEW f, NEW S, IsFiniteSet(S), \A x \in S : f[x] \in Int
  PROVE  SumFunctionOnSet(f, S) \in Int
<1> DEFINE sum(s) == SumFunctionOnSet(f, s)
           N == {n \in Nat : \A s \in SUBSET S : Cardinality(s) = n => sum(s) \in Int}
<1>1. \A s \in SUBSET S : IsFiniteSet(s) /\ Cardinality(s) \in Nat
  BY FS_Subset, FS_CardinalityType
<1>2. ASSUME NEW s \in SUBSET S
      PROVE  /\ s = {} => sum(s) = 0
             /\ s # {} => Picked(s) \in s /\ sum(s) = f[Picked(s)] + sum(s \ {Picked(s)})
  BY <1>1, SumOfPicked
<1> HIDE DEF sum
<1>3. 0 \in N
  <2>1. ASSUME NEW s \in SUBSET S, Cardinality(s) = 0 PROVE sum(s) \in Int
    <3>1. s = {}
      BY <1>1, <2>1, FS_EmptySet
    <3>2. sum(s) = 0
      BY <1>2, <3>1, Zenon
    <3> QED BY <3>1, <3>2
  <2> QED BY <2>1
<1>4. ASSUME NEW n \in N PROVE n + 1 \in N
  <2>1. n \in Nat /\ n + 1 \in Nat
    OBVIOUS
  <2>2. ASSUME NEW s \in SUBSET S, Cardinality(s) = n + 1 PROVE sum(s) \in Int
    <3>1. s # {}
      BY <2>1, <2>2, FS_EmptySet
    <3>2. Picked(s) \in s /\ sum(s) = f[Picked(s)] + sum(s \ {Picked(s)})
      BY <1>2, <3>1
    <3>3. Cardinality(s \ {Picked(s)}) = n
      <4>1. Picked(s) \in s
        BY <3>2
      <4>2. Cardinality(s \ {Picked(s)}) = Cardinality(s) - 1
        BY <1>1, <4>1, FS_RemoveElement
      <4> QED BY <2>1, <2>2, <4>2
    <3>4. sum(s \ {Picked(s)}) \in Int /\ f[Picked(s)] \in Int
      BY <3>2, <3>3
    <3> QED BY <3>2, <3>4
  <2> QED BY <2>1, <2>2
<1>5. N = Nat
  <2>1. N \in SUBSET Nat
    OBVIOUS
  <2> HIDE DEF N
  <2> QED BY <1>3, <1>4, <2>1, Induction
<1>6. Cardinality(S) \in N
  BY <1>1, <1>5
<1> QED BY <1>6 DEF sum

\* The order does not matter.
LEMMA SumOfElement ==
  ASSUME NEW f, NEW S, IsFiniteSet(S), \A x \in S : f[x] \in Int
  PROVE  /\ SumFunctionOnSet(f, S) \in Int
         /\ \A x \in S : SumFunctionOnSet(f, S) = f[x] + SumFunctionOnSet(f, S \ {x})
<1> DEFINE sum(s) == SumFunctionOnSet(f, s)
           N == {n \in Nat : \A s \in SUBSET S : Cardinality(s) = n =>
                   sum(s) \in Int /\ \A x \in s : sum(s) = f[x] + sum(s \ {x})}
<1>1. \A s \in SUBSET S : IsFiniteSet(s) /\ Cardinality(s) \in Nat
  BY FS_Subset, FS_CardinalityType
<1>2. ASSUME NEW s \in SUBSET S
      PROVE  /\ s = {} => sum(s) = 0
             /\ s # {} => Picked(s) \in s /\ sum(s) = f[Picked(s)] + sum(s \ {Picked(s)})
  BY <1>1, SumOfPicked
<1> HIDE DEF sum
<1>3. 0 \in N
  <2>1. ASSUME NEW s \in SUBSET S, Cardinality(s) = 0 PROVE sum(s) \in Int /\ s = {}
    <3>1. s = {}
      BY <1>1, <2>1, FS_EmptySet
    <3>2. sum(s) = 0
      BY <1>2, <3>1, Zenon
    <3> QED BY <3>1, <3>2
  <2> QED BY <2>1
<1>4. ASSUME NEW n \in N PROVE n + 1 \in N
  <2>1. n \in Nat /\ n + 1 \in Nat
    OBVIOUS
  <2>2. ASSUME NEW s \in SUBSET S, Cardinality(s) = n + 1, NEW x \in s
        PROVE  s \ {x} \in SUBSET S /\ Cardinality(s \ {x}) = n
    <3>1. IsFiniteSet(s)
      BY <1>1
    <3>2. Cardinality(s \ {x}) = Cardinality(s) - 1
      BY <3>1, FS_RemoveElement
    <3> QED BY <2>1, <2>2, <3>2
  <2>3. ASSUME NEW s \in SUBSET S, Cardinality(s) = n + 1
        PROVE  sum(s) \in Int /\ \A x \in s : sum(s) = f[x] + sum(s \ {x})
    <3> DEFINE p == Picked(s)
    <3>1. p \in s /\ sum(s) = f[p] + sum(s \ {p})
      <4>1. s # {}
        BY <2>1, <2>3, FS_EmptySet
      <4> QED BY <1>2, <4>1
    <3> HIDE DEF p
    <3>2. sum(s \ {p}) \in Int /\ f[p] \in Int
      BY <2>2, <2>3, <3>1
    <3>3. ASSUME NEW x \in s, x # p PROVE sum(s) = f[x] + sum(s \ {x})
      <4>1. sum(s \ {p}) = f[x] + sum((s \ {p}) \ {x})
        BY <2>2, <2>3, <3>1, <3>3
      <4>2. sum(s \ {x}) = f[p] + sum((s \ {x}) \ {p})
        BY <2>2, <2>3, <3>1, <3>3
      <4>3. (s \ {p}) \ {x} = (s \ {x}) \ {p}
        OBVIOUS
      <4>4. (s \ {p}) \ {x} \in SUBSET S /\ IsFiniteSet((s \ {p}) \ {x})
        BY <1>1
      <4>5. sum((s \ {p}) \ {x}) \in Int
        BY <4>4, SumIsInt DEF sum
      <4> QED BY <3>1, <3>2, <4>1, <4>2, <4>3, <4>5
    <3>4. sum(s) \in Int
      BY <3>1, <3>2
    <3>5. ASSUME NEW x \in s PROVE sum(s) = f[x] + sum(s \ {x})
      <4>1. CASE x = p
        BY <3>1, <4>1, Zenon
      <4>2. CASE x # p
        BY <3>3, <4>2
      <4> QED BY <4>1, <4>2
    <3> QED BY <3>4, <3>5
  <2> QED BY <2>1, <2>3
<1>5. N = Nat
  <2>1. N \in SUBSET Nat
    OBVIOUS
  <2> HIDE DEF N
  <2> QED BY <1>3, <1>4, <2>1, Induction
<1>6. Cardinality(S) \in N
  BY <1>1, <1>5
<1> QED BY <1>6 DEF sum

\* The empty sum.
LEMMA SumOfNone == ASSUME NEW f PROVE SumFunctionOnSet(f, {}) = 0
BY SumOfPicked, FS_EmptySet

\* A new index adds its summand.
LEMMA SumGrows ==
  ASSUME NEW f, NEW S, IsFiniteSet(S), NEW x, x \notin S,
         f[x] \in Int, \A y \in S : f[y] \in Int
  PROVE  SumFunctionOnSet(f, S \cup {x}) = f[x] + SumFunctionOnSet(f, S)
<1>1. IsFiniteSet(S \cup {x})
  BY FS_AddElement
<1>2. (S \cup {x}) \ {x} = S /\ x \in S \cup {x} /\ \A y \in S \cup {x} : f[y] \in Int
  OBVIOUS
<1>3. SumFunctionOnSet(f, S \cup {x}) = f[x] + SumFunctionOnSet(f, (S \cup {x}) \ {x})
  BY <1>1, <1>2, SumOfElement
<1> QED BY <1>2, <1>3

\* h is a linear combination of f and g.
IsCombination(h, a, f, b, g, S) ==
    /\ a \in Int /\ b \in Int
    /\ \A x \in S : f[x] \in Int /\ g[x] \in Int /\ h[x] = a * f[x] + b * g[x]

\* Its sum is that combination of the sums.
LEMMA SumOfCombination ==
  ASSUME NEW S, IsFiniteSet(S), NEW a, NEW b, NEW f, NEW g, NEW h,
         IsCombination(h, a, f, b, g, S)
  PROVE  SumFunctionOnSet(h, S) = a * SumFunctionOnSet(f, S) + b * SumFunctionOnSet(g, S)
<1> DEFINE Adds(s) == SumFunctionOnSet(h, s)
                        = a * SumFunctionOnSet(f, s) + b * SumFunctionOnSet(g, s)
           T == {s \in SUBSET S : Adds(s)}
<1>0. /\ a \in Int /\ b \in Int
      /\ \A x \in S : f[x] \in Int /\ g[x] \in Int /\ h[x] = a * f[x] + b * g[x]
  BY DEF IsCombination
<1>1. {} \in T
  <2>1. 0 = a * 0 + b * 0
    BY <1>0
  <2>2. /\ SumFunctionOnSet(f, {}) = 0 /\ SumFunctionOnSet(g, {}) = 0
        /\ SumFunctionOnSet(h, {}) = 0
    BY SumOfNone
  <2>3. Adds({})
    BY <2>1, <2>2
  <2> QED BY <2>3
<1>2. ASSUME NEW s \in T, NEW x \in S \ s PROVE s \cup {x} \in T
  <2>1. IsFiniteSet(s) /\ s \subseteq S
    BY FS_Subset
  <2>2. \A y \in S : f[y] \in Int /\ g[y] \in Int /\ h[y] \in Int
    BY <1>0
  <2>3. /\ SumFunctionOnSet(f, s \cup {x}) = f[x] + SumFunctionOnSet(f, s)
        /\ SumFunctionOnSet(g, s \cup {x}) = g[x] + SumFunctionOnSet(g, s)
        /\ SumFunctionOnSet(h, s \cup {x}) = h[x] + SumFunctionOnSet(h, s)
    BY <2>1, <2>2, SumGrows
  <2>4. SumFunctionOnSet(f, s) \in Int /\ SumFunctionOnSet(g, s) \in Int
    BY <2>1, <2>2, SumIsInt
  <2>5. Adds(s)
    OBVIOUS
  <2>6. ASSUME NEW F \in Int, NEW G \in Int, NEW u \in Int, NEW v \in Int
        PROVE  (a * u + b * v) + (a * F + b * G) = a * (u + F) + b * (v + G)
    BY <1>0
  <2>7. Adds(s \cup {x})
    BY <1>0, <2>3, <2>4, <2>5, <2>6
  <2> QED BY <2>1, <2>7
<1>3. S \in T
  <2> HIDE DEF T
  <2> QED BY <1>1, <1>2, FiniteInduction
<1> QED BY <1>3

\* Equal summands, equal sums.
LEMMA SumsAgree ==
  ASSUME NEW S, IsFiniteSet(S), NEW f, NEW g,
         \A x \in S : f[x] \in Int /\ g[x] = f[x]
  PROVE  SumFunctionOnSet(f, S) = SumFunctionOnSet(g, S)
<1>1. IsCombination(g, 1, f, 0, f, S)
  BY DEF IsCombination
<1>2. SumFunctionOnSet(g, S) = 1 * SumFunctionOnSet(f, S) + 0 * SumFunctionOnSet(f, S)
  BY <1>1, SumOfCombination
<1>3. SumFunctionOnSet(f, S) \in Int
  BY SumIsInt
<1> QED BY <1>2, <1>3

\* A summand that is the same everywhere.
LEMMA SumOfConstant ==
  ASSUME NEW S, IsFiniteSet(S), NEW c \in Int, NEW f, \A x \in S : f[x] = c
  PROVE  SumFunctionOnSet(f, S) = c * Cardinality(S)
<1> DEFINE T == {s \in SUBSET S : SumFunctionOnSet(f, s) = c * Cardinality(s)}
<1>1. {} \in T
  BY SumOfNone, FS_EmptySet
<1>2. ASSUME NEW s \in T, NEW x \in S \ s PROVE s \cup {x} \in T
  <2>1. IsFiniteSet(s) /\ s \subseteq S
    BY FS_Subset
  <2>2. SumFunctionOnSet(f, s \cup {x}) = f[x] + SumFunctionOnSet(f, s)
    BY <2>1, SumGrows
  <2>3. Cardinality(s) \in Nat /\ Cardinality(s \cup {x}) = Cardinality(s) + 1
    BY <2>1, FS_CardinalityType, FS_AddElement
  <2>4. SumFunctionOnSet(f, s) = c * Cardinality(s) /\ f[x] = c
    OBVIOUS
  <2>5. ASSUME NEW k \in Nat PROVE c + c * k = c * (k + 1)
    OBVIOUS
  <2>6. SumFunctionOnSet(f, s \cup {x}) = c * Cardinality(s \cup {x})
    BY <2>2, <2>3, <2>4, <2>5
  <2> QED BY <2>1, <2>6
<1>3. S \in T
  <2> HIDE DEF T
  <2> QED BY <1>1, <1>2, FiniteInduction
<1> QED BY <1>3

\* The same summands under other indexes.
IsReindexing(f, h, g, S) ==
    /\ \A x \in S : g[x] \in Int /\ f[h[x]] = g[x]
    /\ \A x, y \in S : h[x] = h[y] => x = y

\* The other indexes.
ImageOf(h, S) == {h[x] : x \in S}

\* The sum is the same too.
LEMMA SumReindexed ==
  ASSUME NEW S, IsFiniteSet(S), NEW f, NEW g, NEW h, IsReindexing(f, h, g, S)
  PROVE  /\ IsFiniteSet(ImageOf(h, S))
         /\ SumFunctionOnSet(f, ImageOf(h, S)) = SumFunctionOnSet(g, S)
<1> DEFINE Image(s) == {h[x] : x \in s}
           T == {s \in SUBSET S :
                   /\ IsFiniteSet(Image(s))
                   /\ SumFunctionOnSet(f, Image(s)) = SumFunctionOnSet(g, s)}
<1>0. /\ \A x \in S : g[x] \in Int /\ f[h[x]] = g[x]
      /\ \A x, y \in S : h[x] = h[y] => x = y
  BY DEF IsReindexing
<1>1. {} \in T
  <2>1. Image({}) = {}
    OBVIOUS
  <2> QED BY <2>1, SumOfNone, FS_EmptySet
<1>2. ASSUME NEW s \in T, NEW x \in S \ s PROVE s \cup {x} \in T
  <2>1. IsFiniteSet(s) /\ s \subseteq S
    BY FS_Subset
  <2>2. Image(s \cup {x}) = Image(s) \cup {h[x]}
    OBVIOUS
  <2>3. h[x] \notin Image(s)
    BY <1>0, <2>1
  <2>4. \A y \in Image(s) : f[y] \in Int
    BY <1>0, <2>1
  <2>5. IsFiniteSet(Image(s)) /\ SumFunctionOnSet(f, Image(s)) = SumFunctionOnSet(g, s)
    OBVIOUS
  <2>6. SumFunctionOnSet(g, s \cup {x}) = g[x] + SumFunctionOnSet(g, s)
    BY <1>0, <2>1, SumGrows
  <2>7. f[h[x]] \in Int /\ f[h[x]] = g[x]
    BY <1>0
  <2> HIDE DEF Image
  <2>8. SumFunctionOnSet(f, Image(s) \cup {h[x]}) = f[h[x]] + SumFunctionOnSet(f, Image(s))
    BY <2>3, <2>4, <2>5, <2>7, SumGrows
  <2>9. IsFiniteSet(Image(s) \cup {h[x]})
    BY <2>5, FS_AddElement
  <2> QED BY <2>1, <2>2, <2>5, <2>6, <2>7, <2>8, <2>9
<1>3. S \in T
  <2> HIDE DEF T
  <2> QED BY <1>1, <1>2, FiniteInduction
<1> QED BY <1>3 DEF ImageOf

\* Sums over two disjoint sets add up.
LEMMA SumOfUnion ==
  ASSUME NEW f, NEW A, NEW B, IsFiniteSet(A), IsFiniteSet(B), A \cap B = {},
         \A x \in A \cup B : f[x] \in Int
  PROVE  SumFunctionOnSet(f, A \cup B) = SumFunctionOnSet(f, A) + SumFunctionOnSet(f, B)
<1> DEFINE T == {s \in SUBSET B :
                   SumFunctionOnSet(f, A \cup s)
                     = SumFunctionOnSet(f, A) + SumFunctionOnSet(f, s)}
<1>1. {} \in T
  <2>1. A \cup {} = A /\ SumFunctionOnSet(f, A) \in Int
    BY SumIsInt
  <2> QED BY <2>1, SumOfNone
<1>2. ASSUME NEW s \in T, NEW x \in B \ s PROVE s \cup {x} \in T
  <2>1. IsFiniteSet(s) /\ s \subseteq B
    BY FS_Subset
  <2>2. IsFiniteSet(A \cup s)
    BY <2>1, FS_Union
  <2>3. A \cup (s \cup {x}) = (A \cup s) \cup {x} /\ x \notin A \cup s
    OBVIOUS
  <2>4. SumFunctionOnSet(f, (A \cup s) \cup {x}) = f[x] + SumFunctionOnSet(f, A \cup s)
    BY <2>1, <2>2, <2>3, SumGrows
  <2>5. SumFunctionOnSet(f, s \cup {x}) = f[x] + SumFunctionOnSet(f, s)
    BY <2>1, SumGrows
  <2>6. SumFunctionOnSet(f, A) \in Int /\ SumFunctionOnSet(f, s) \in Int /\ f[x] \in Int
    BY <2>1, SumIsInt
  <2>7. SumFunctionOnSet(f, A \cup s) = SumFunctionOnSet(f, A) + SumFunctionOnSet(f, s)
    OBVIOUS
  <2>8. SumFunctionOnSet(f, A \cup (s \cup {x})) = f[x] + SumFunctionOnSet(f, A \cup s)
    BY <2>3, <2>4
  <2>9. SumFunctionOnSet(f, A \cup (s \cup {x}))
          = SumFunctionOnSet(f, A) + SumFunctionOnSet(f, s \cup {x})
    BY <2>5, <2>6, <2>7, <2>8
  <2> QED BY <2>1, <2>9
<1>3. B \in T
  <2> HIDE DEF T
  <2> QED BY <1>1, <1>2, FiniteInduction
<1> QED BY <1>3

\* The sum of natural numbers is one.
LEMMA SumIsNat ==
  ASSUME NEW S, IsFiniteSet(S), NEW f, \A x \in S : f[x] \in Nat
  PROVE  SumFunctionOnSet(f, S) \in Nat
<1> DEFINE T == {s \in SUBSET S : SumFunctionOnSet(f, s) \in Nat}
<1>1. {} \in T
  BY SumOfNone
<1>2. ASSUME NEW s \in T, NEW x \in S \ s PROVE s \cup {x} \in T
  <2>1. IsFiniteSet(s) /\ s \subseteq S /\ f[x] \in Nat /\ \A y \in s : f[y] \in Int
    BY FS_Subset
  <2>2. SumFunctionOnSet(f, s \cup {x}) = f[x] + SumFunctionOnSet(f, s)
    BY <2>1, SumGrows
  <2>3. SumFunctionOnSet(f, s) \in Nat
    OBVIOUS
  <2> QED BY <2>1, <2>2, <2>3
<1>3. S \in T
  <2> HIDE DEF T
  <2> QED BY <1>1, <1>2, FiniteInduction
<1> QED BY <1>3

\* g numbers from 1 what f holds after its first a members.
IsTail(g, f, a, size) ==
    \A k \in 1..size : g[k] \in Int /\ f[a + k] = g[k]

LEMMA SumOfTail ==
  ASSUME NEW a \in Nat, NEW size \in Nat, NEW f, NEW g, IsTail(g, f, a, size)
  PROVE  SumFunctionOnSet(f, a + 1..a + size) = SumFunctionOnSet(g, 1..size)
<1> DEFINE h == [k \in 1..size |-> a + k]
<1>1. \A k \in 1..size : h[k] = a + k
  OBVIOUS
<1>2. ImageOf(h, 1..size) = a + 1..a + size
  <2>1. ASSUME NEW k \in a + 1..a + size PROVE k \in ImageOf(h, 1..size)
    <3>1. k - a \in 1..size /\ h[k - a] = k
      OBVIOUS
    <3> HIDE DEF h
    <3> QED BY <3>1 DEF ImageOf
  <2>2. \A k \in 1..size : h[k] \in a + 1..a + size
    OBVIOUS
  <2> HIDE DEF h
  <2> QED BY <2>1, <2>2 DEF ImageOf
<1>3. IsReindexing(f, h, g, 1..size)
  BY DEF IsReindexing, IsTail
<1>4. IsFiniteSet(1..size)
  BY FS_Interval
<1> HIDE DEF h
<1> QED BY <1>2, <1>3, <1>4, SumReindexed

\* The sum over the first numbers and over the rest.
LEMMA SumOfParts ==
  ASSUME NEW n \in Nat, NEW k \in 0..n, NEW f, \A i \in 1..n : f[i] \in Int
  PROVE  /\ SumFunctionOnSet(f, 1..n)
              = SumFunctionOnSet(f, 1..k) + SumFunctionOnSet(f, k + 1..n)
         /\ SumFunctionOnSet(f, 1..k) \in Int /\ SumFunctionOnSet(f, k + 1..n) \in Int
<1> DEFINE A == 1..k
           B == k + 1..n
<1>1. A \cup B = 1..n /\ A \cap B = {}
  OBVIOUS
<1>2. IsFiniteSet(A) /\ IsFiniteSet(B)
  BY FS_Interval
<1> HIDE DEF A, B
<1>3. \A x \in A \cup B : f[x] \in Int
  BY <1>1
<1>4. SumFunctionOnSet(f, A \cup B) = SumFunctionOnSet(f, A) + SumFunctionOnSet(f, B)
  BY <1>1, <1>2, <1>3, SumOfUnion
<1>5. SumFunctionOnSet(f, A) \in Int /\ SumFunctionOnSet(f, B) \in Int
  BY <1>2, <1>3, SumIsInt
<1> QED BY <1>1, <1>4, <1>5 DEF A, B

\* Twice the sum of the first n numbers.
LEMMA SumOfNumbers ==
  ASSUME NEW n \in Nat, NEW f, \A i \in 1..n : f[i] = i
  PROVE  2 * SumFunctionOnSet(f, 1..n) = n * (n + 1)
<1> DEFINE T == {k \in Nat : k <= n => 2 * SumFunctionOnSet(f, 1..k) = k * (k + 1)}
<1>1. 0 \in T
  <2>1. 1..0 = {}
    OBVIOUS
  <2>2. SumFunctionOnSet(f, 1..0) = 0
    BY <2>1, SumOfNone
  <2> HIDE DEF T
  <2> QED BY <2>2 DEF T
<1>2. ASSUME NEW k \in T PROVE k + 1 \in T
  <2> SUFFICES ASSUME k + 1 <= n
               PROVE  2 * SumFunctionOnSet(f, 1..k + 1) = (k + 1) * ((k + 1) + 1)
    OBVIOUS
  <2>1. k \in Nat /\ 2 * SumFunctionOnSet(f, 1..k) = k * (k + 1)
    OBVIOUS
  <2> HIDE DEF T
  <2> DEFINE A == 1..k
  <2>2. 1..k + 1 = A \cup {k + 1} /\ k + 1 \notin A /\ IsFiniteSet(A)
    <3>1. 1..k + 1 = A \cup {k + 1} /\ k + 1 \notin A
      BY <2>1
    <3>2. IsFiniteSet(A)
      BY <2>1, FS_Interval
    <3> QED BY <3>1, <3>2
  <2>3. f[k + 1] = k + 1 /\ \A i \in A : f[i] \in Int
    BY <2>1
  <2> HIDE DEF A
  <2>4. k + 1 \in Int /\ SumFunctionOnSet(f, A) \in Int
    BY <2>1, <2>2, <2>3, SumIsInt
  <2>5. SumFunctionOnSet(f, A \cup {k + 1}) = (k + 1) + SumFunctionOnSet(f, A)
    BY <2>2, <2>3, <2>4, SumGrows
  <2>6. 2 * SumFunctionOnSet(f, A) = k * (k + 1)
    BY <2>1 DEF A
  <2>7. (k + 1) * ((k + 1) + 1) = 2 * (k + 1) + k * (k + 1)
    BY <2>1
  <2>8. \A x, y \in Int : 2 * (x + y) = 2 * x + 2 * y
    OBVIOUS
  <2>9. 2 * ((k + 1) + SumFunctionOnSet(f, A)) = 2 * (k + 1) + 2 * SumFunctionOnSet(f, A)
    BY <2>4, <2>8
  <2> QED BY <2>2, <2>5, <2>6, <2>7, <2>9
<1>3. T = Nat
  <2> HIDE DEF T
  <2>1. T \in SUBSET Nat
    BY DEF T
  <2> QED BY <1>1, <1>2, <2>1, Induction
<1> QED BY <1>3

-----------------------------------------------------------------------------
(* Sums over pairs: the variance, the covariance and the regression of the  *)
(* code are differences between a sum of products and a product of sums.    *)

\* fg are the products of f and g, d those of their differences in pairs.
AreProducts(fg, f, g, S) ==
    \A x \in S : f[x] \in Int /\ g[x] \in Int /\ fg[x] = f[x] * g[x]

AreDifferences(d, f, g, S) ==
    \A x, y \in S : x < y => d[<<x, y>>] = (f[x] - f[y]) * (g[x] - g[y])

\* Over n indexes the products' sum, n times, less the product of the sums is
\* the sum of the products of all differences.
PairsAddUp(d, f, g, fg, S) ==
    SumFunctionOnSet(d, Ascending(S)) =
      Cardinality(S) * SumFunctionOnSet(fg, S)
        - SumFunctionOnSet(f, S) * SumFunctionOnSet(g, S)

\* Another index meets each of those before it once.
LEMMA PairsGrow ==
  ASSUME NEW s \in SUBSET Int, IsFiniteSet(s), NEW x \in Int, x \notin s,
         NEW f, NEW g, NEW fg, NEW d,
         AreProducts(fg, f, g, s \cup {x}), AreDifferences(d, f, g, s \cup {x}),
         IsFiniteSet(Ascending(s)), PairsAddUp(d, f, g, fg, s)
  PROVE  /\ IsFiniteSet(Ascending(s \cup {x}))
         /\ PairsAddUp(d, f, g, fg, s \cup {x})
<1> DEFINE h == [y \in s |-> IF y < x THEN <<y, x>> ELSE <<x, y>>]
           e == [y \in s |-> (f[y] - f[x]) * (g[y] - g[x])]
           u == [y \in s |-> (-g[x]) * f[y] + (-f[x]) * g[y]]
           ones == [y \in s |-> 1]
           v == [y \in s |-> 1 * fg[y] + (f[x] * g[x]) * ones[y]]
           new == ImageOf(h, s)
<1>0. \A y \in s \cup {x} : f[y] \in Int /\ g[y] \in Int /\ fg[y] \in Int
  BY DEF AreProducts
<1>1. IsFiniteSet(s) /\ Cardinality(s) \in Nat
  BY FS_CardinalityType
<1>2. f[x] \in Int /\ g[x] \in Int /\ -f[x] \in Int /\ -g[x] \in Int /\ f[x] * g[x] \in Int
  BY <1>0
<1>3. SumFunctionOnSet(u, s) =
        (-g[x]) * SumFunctionOnSet(f, s) + (-f[x]) * SumFunctionOnSet(g, s)
  <2>1. IsCombination(u, -g[x], f, -f[x], g, s)
    BY <1>0, <1>2 DEF IsCombination
  <2> HIDE DEF u
  <2> QED BY <1>1, <2>1, SumOfCombination
<1>4. SumFunctionOnSet(ones, s) = Cardinality(s)
  <2>1. \A y \in s : ones[y] = 1
    OBVIOUS
  <2> HIDE DEF ones
  <2>0. 1 \in Int
    OBVIOUS
  <2>2. SumFunctionOnSet(ones, s) = 1 * Cardinality(s)
    BY <1>1, <2>1, <2>0, SumOfConstant, Zenon
  <2> QED BY <1>1, <2>2
<1>5. SumFunctionOnSet(v, s) = SumFunctionOnSet(fg, s) + (f[x] * g[x]) * Cardinality(s)
  <2>1. \A y \in s : fg[y] \in Int /\ ones[y] \in Int
                       /\ v[y] = 1 * fg[y] + (f[x] * g[x]) * ones[y]
    BY <1>0, <1>1
  <2> DEFINE c == f[x] * g[x]
  <2> HIDE DEF v, ones
  <2>2. SumFunctionOnSet(v, s) =
          1 * SumFunctionOnSet(fg, s) + c * SumFunctionOnSet(ones, s)
    <3>1. IsCombination(v, 1, fg, c, ones, s)
      BY <1>0, <1>2, <2>1 DEF IsCombination, c
    <3> QED BY <1>1, <3>1, SumOfCombination
  <2>3. SumFunctionOnSet(fg, s) \in Int
    BY <1>0, <1>1, SumIsInt
  <2> QED BY <1>4, <2>2, <2>3
<1>6. SumFunctionOnSet(e, s) = SumFunctionOnSet(u, s) + SumFunctionOnSet(v, s)
  <2>1. ASSUME NEW y \in s
        PROVE  u[y] \in Int /\ v[y] \in Int /\ e[y] = 1 * u[y] + 1 * v[y]
    <3>1. f[y] \in Int /\ g[y] \in Int /\ fg[y] = f[y] * g[y]
      BY DEF AreProducts
    <3>2. ASSUME NEW a \in Int, NEW b \in Int, NEW i \in Int, NEW j \in Int
          PROVE  (a - i) * (b - j)
                   = 1 * ((-j) * a + (-i) * b) + 1 * (1 * (a * b) + (i * j) * 1)
      OBVIOUS
    <3> QED BY <1>2, <3>1, <3>2
  <2> HIDE DEF u, v, e
  <2>2. SumFunctionOnSet(e, s) = 1 * SumFunctionOnSet(u, s) + 1 * SumFunctionOnSet(v, s)
    <3>1. IsCombination(e, 1, u, 1, v, s)
      BY <2>1 DEF IsCombination
    <3> QED BY <1>1, <3>1, SumOfCombination
  <2>3. SumFunctionOnSet(u, s) \in Int /\ SumFunctionOnSet(v, s) \in Int
    BY <1>1, <2>1, SumIsInt
  <2> QED BY <2>2, <2>3
<1>7. /\ IsFiniteSet(new)
      /\ SumFunctionOnSet(d, new) = SumFunctionOnSet(e, s)
  <2>1. ASSUME NEW y \in s PROVE e[y] \in Int /\ d[h[y]] = e[y]
    <3>1. f[y] \in Int /\ g[y] \in Int /\ y \in Int /\ x \in Int /\ y # x
      BY <1>0
    <3>2. CASE y < x
      <4>1. d[<<y, x>>] = (f[y] - f[x]) * (g[y] - g[x])
        BY <3>2 DEF AreDifferences
      <4> QED BY <1>2, <3>1, <3>2, <4>1
    <3>3. CASE ~(y < x)
      <4>1. d[<<x, y>>] = (f[x] - f[y]) * (g[x] - g[y])
        BY <3>1, <3>3 DEF AreDifferences
      <4>2. ASSUME NEW a \in Int, NEW b \in Int, NEW i \in Int, NEW j \in Int
            PROVE  (a - i) * (b - j) = (i - a) * (j - b)
        OBVIOUS
      <4>3. d[<<x, y>>] = (f[y] - f[x]) * (g[y] - g[x])
        BY <1>2, <3>1, <4>1, <4>2
      <4> QED BY <1>2, <3>1, <3>3, <4>3
    <3> QED BY <3>2, <3>3
  <2>2. \A y, z \in s : h[y] = h[z] => y = z
    OBVIOUS
  <2> HIDE DEF h, e
  <2>3. IsReindexing(d, h, e, s)
    BY <2>1, <2>2 DEF IsReindexing
  <2> QED BY <1>1, <2>3, SumReindexed
<1>8. Ascending(s \cup {x}) = Ascending(s) \cup new
  <2>1. ASSUME NEW p \in Ascending(s \cup {x}) PROVE p \in Ascending(s) \cup new
    <3>1. PICK y \in s \cup {x}, z \in s \cup {x} : p = <<y, z>> /\ y < z
      <4>1. p \in (s \cup {x}) \X (s \cup {x}) /\ p[1] < p[2]
        BY DEF Ascending
      <4>2. p = <<p[1], p[2]>> /\ p[1] \in s \cup {x} /\ p[2] \in s \cup {x}
        BY <4>1
      <4> QED BY <4>1, <4>2
    <3>2. CASE y \in s /\ z \in s
      BY <3>1, <3>2 DEF Ascending
    <3>3. CASE y = x /\ z \in s
      <4>1. ~(z < x) /\ h[z] = p
        BY <1>1, <3>1, <3>3
      <4> HIDE DEF h
      <4> QED BY <3>3, <4>1 DEF ImageOf
    <3>4. CASE z = x /\ y \in s
      <4>1. h[y] = p
        BY <3>1, <3>4
      <4> HIDE DEF h
      <4> QED BY <3>4, <4>1 DEF ImageOf
    <3>5. y # z
      BY <3>1, <1>1
    <3> QED BY <3>1, <3>2, <3>3, <3>4, <3>5
  <2>2. ASSUME NEW p \in new PROVE p \in Ascending(s \cup {x})
    <3>1. PICK y \in s : p = h[y]
      BY DEF ImageOf
    <3>2. y \in Int /\ x \in Int /\ y # x
      BY <1>1
    <3>3. p = IF y < x THEN <<y, x>> ELSE <<x, y>>
      BY <3>1
    <3> QED BY <3>2, <3>3 DEF Ascending
  <2>3. Ascending(s) \subseteq Ascending(s \cup {x})
    BY DEF Ascending
  <2> HIDE DEF new
  <2> QED BY <2>1, <2>2, <2>3
<1>9. Ascending(s) \cap new = {}
  <2>1. ASSUME NEW y \in s PROVE h[y] \notin Ascending(s)
    BY <1>1 DEF Ascending
  <2> QED BY <2>1 DEF ImageOf
<1>10. \A p \in Ascending(s) \cup new : d[p] \in Int
  <2>1. ASSUME NEW p \in Ascending(s \cup {x}) PROVE d[p] \in Int
    <3>1. PICK y \in s \cup {x}, z \in s \cup {x} : p = <<y, z>> /\ y < z
      <4>1. p \in (s \cup {x}) \X (s \cup {x}) /\ p[1] < p[2]
        BY DEF Ascending
      <4>2. p = <<p[1], p[2]>> /\ p[1] \in s \cup {x} /\ p[2] \in s \cup {x}
        BY <4>1
      <4> QED BY <4>1, <4>2
    <3>2. y \in s \cup {x} /\ z \in s \cup {x}
      BY <1>1
    <3>3. d[p] = (f[y] - f[z]) * (g[y] - g[z])
      BY <3>1, <3>2 DEF AreDifferences
    <3> QED BY <1>0, <3>2, <3>3
  <2> QED BY <1>8, <2>1
<1> HIDE DEF new, e, u, v
<1>12. SumFunctionOnSet(d, Ascending(s \cup {x}))
         = SumFunctionOnSet(d, Ascending(s)) + SumFunctionOnSet(e, s)
  <2>1. SumFunctionOnSet(d, Ascending(s) \cup new)
          = SumFunctionOnSet(d, Ascending(s)) + SumFunctionOnSet(d, new)
    BY <1>7, <1>9, <1>10, SumOfUnion
  <2> QED BY <1>7, <1>8, <2>1
<1>13. IsFiniteSet(Ascending(s \cup {x}))
  BY <1>7, <1>8, FS_Union
<1>14. /\ SumFunctionOnSet(f, s \cup {x}) = f[x] + SumFunctionOnSet(f, s)
       /\ SumFunctionOnSet(g, s \cup {x}) = g[x] + SumFunctionOnSet(g, s)
       /\ SumFunctionOnSet(fg, s \cup {x}) = f[x] * g[x] + SumFunctionOnSet(fg, s)
  <2>1. SumFunctionOnSet(f, s \cup {x}) = f[x] + SumFunctionOnSet(f, s)
    BY <1>0, SumGrows
  <2>2. SumFunctionOnSet(g, s \cup {x}) = g[x] + SumFunctionOnSet(g, s)
    BY <1>0, SumGrows
  <2>3. SumFunctionOnSet(fg, s \cup {x}) = fg[x] + SumFunctionOnSet(fg, s)
    BY <1>0, SumGrows
  <2>4. fg[x] = f[x] * g[x]
    BY DEF AreProducts
  <2> QED BY <2>1, <2>2, <2>3, <2>4
<1>15. Cardinality(s \cup {x}) = Cardinality(s) + 1
  BY <1>1, FS_AddElement
<1>16. /\ SumFunctionOnSet(f, s) \in Int
       /\ SumFunctionOnSet(g, s) \in Int
       /\ SumFunctionOnSet(fg, s) \in Int
  BY <1>0, <1>1, SumIsInt
<1>18. /\ Cardinality(s) \in Int
       /\ SumFunctionOnSet(d, Ascending(s)) =
            Cardinality(s) * SumFunctionOnSet(fg, s)
              - SumFunctionOnSet(f, s) * SumFunctionOnSet(g, s)
  BY <1>1 DEF PairsAddUp
<1> DEFINE n == Cardinality(s)
           F == SumFunctionOnSet(f, s)
           G == SumFunctionOnSet(g, s)
           P == SumFunctionOnSet(fg, s)
<1>19. n \in Int /\ F \in Int /\ G \in Int /\ P \in Int
  BY <1>16, <1>18
<1>20. SumFunctionOnSet(d, Ascending(s \cup {x}))
         = (n * P - F * G) + (((-g[x]) * F + (-f[x]) * G) + (P + (f[x] * g[x]) * n))
  BY <1>3, <1>5, <1>6, <1>12, <1>18, Zenon
<1>21. (n * P - F * G) + (((-g[x]) * F + (-f[x]) * G) + (P + (f[x] * g[x]) * n))
         = (n + 1) * (f[x] * g[x] + P) - (f[x] + F) * (g[x] + G)
  <2> DEFINE Expands(k, A, B, C, i, j) ==
               (k * C - A * B) + (((-j) * A + (-i) * B) + (C + (i * j) * k))
                 = (k + 1) * (i * j + C) - (i + A) * (j + B)
  <2>1. \A k, A, B, C, i, j \in Int : Expands(k, A, B, C, i, j)
    OBVIOUS
  <2>2. Expands(n, F, G, P, f[x], g[x])
    <3> HIDE DEF n, F, G, P, Expands
    <3> QED BY <1>2, <1>19, <2>1
  <2> QED BY <2>2
<1>22. SumFunctionOnSet(d, Ascending(s \cup {x})) =
         Cardinality(s \cup {x}) * SumFunctionOnSet(fg, s \cup {x})
           - SumFunctionOnSet(f, s \cup {x}) * SumFunctionOnSet(g, s \cup {x})
  BY <1>14, <1>15, <1>20, <1>21, Zenon
<1> QED BY <1>13, <1>22 DEF PairsAddUp

\* What a sum of products loses to the product of the sums, in terms of the
\* differences between its members.
THEOREM SumOverPairs ==
  ASSUME NEW S \in SUBSET Int, IsFiniteSet(S), NEW f, NEW g, NEW fg, NEW d,
         AreProducts(fg, f, g, S), AreDifferences(d, f, g, S)
  PROVE  IsFiniteSet(Ascending(S)) /\ PairsAddUp(d, f, g, fg, S)
<1> DEFINE T == {s \in SUBSET S : IsFiniteSet(Ascending(s)) /\ PairsAddUp(d, f, g, fg, s)}
<1>1. {} \in T
  <2>1. Ascending({}) = {}
    BY DEF Ascending
  <2>2. /\ Cardinality({}) = 0 /\ SumFunctionOnSet(d, {}) = 0
        /\ SumFunctionOnSet(f, {}) = 0 /\ SumFunctionOnSet(g, {}) = 0
        /\ SumFunctionOnSet(fg, {}) = 0
    BY SumOfNone, FS_EmptySet
  <2>3. 0 = 0 * 0 - 0 * 0
    OBVIOUS
  <2>4. PairsAddUp(d, f, g, fg, {})
    BY <2>1, <2>2, <2>3, Zenon DEF PairsAddUp
  <2> QED BY <2>1, <2>4, FS_EmptySet
<1>2. ASSUME NEW s \in T, NEW x \in S \ s PROVE s \cup {x} \in T
  <2>1. IsFiniteSet(s) /\ s \in SUBSET Int /\ x \in Int /\ x \notin s
    BY FS_Subset
  <2>2. AreProducts(fg, f, g, s \cup {x}) /\ AreDifferences(d, f, g, s \cup {x})
    BY DEF AreProducts, AreDifferences
  <2>3. IsFiniteSet(Ascending(s)) /\ PairsAddUp(d, f, g, fg, s)
    OBVIOUS
  <2>4. s \cup {x} \in SUBSET S
    OBVIOUS
  <2>5. IsFiniteSet(Ascending(s \cup {x})) /\ PairsAddUp(d, f, g, fg, s \cup {x})
    BY <2>1, <2>2, <2>3, PairsGrow
  <2> QED BY <2>4, <2>5
<1>3. S \in T
  <2> HIDE DEF T
  <2> QED BY <1>1, <1>2, FiniteInduction
<1> QED BY <1>3

\* The squares and the products of two series.
AreSummands(a, b, aa, bb, ab, S) ==
    \A x \in S :
      /\ a[x] \in Int /\ b[x] \in Int
      /\ aa[x] = a[x] * a[x] /\ bb[x] = b[x] * b[x] /\ ab[x] = a[x] * b[x]

\* The inequality of Cauchy and Schwarz.
LEMMA ProductsAreBounded ==
  ASSUME NEW S, IsFiniteSet(S), NEW a, NEW b, NEW aa, NEW bb, NEW ab,
         AreSummands(a, b, aa, bb, ab, S), SumFunctionOnSet(bb, S) > 0
  PROVE  SumFunctionOnSet(ab, S) * SumFunctionOnSet(ab, S)
           <= SumFunctionOnSet(aa, S) * SumFunctionOnSet(bb, S)
<1> DEFINE A == SumFunctionOnSet(aa, S)
           B == SumFunctionOnSet(bb, S)
           C == SumFunctionOnSet(ab, S)
           c1 == B * B
           c2 == -(2 * (B * C))
           c3 == C * C
           mixed == [x \in S |-> c1 * aa[x] + c2 * ab[x]]
           square == [x \in S |-> 1 * mixed[x] + c3 * bb[x]]
           Square(k, l, r, t) ==
             1 * ((k * k) * (r * r) + (-(2 * (k * l))) * (r * t)) + (l * l) * (t * t)
               = (k * r - l * t) * (k * r - l * t)
<1>1. \A x \in S : aa[x] \in Int /\ bb[x] \in Int /\ ab[x] \in Int
  <2> SUFFICES ASSUME NEW x \in S PROVE aa[x] \in Int /\ bb[x] \in Int /\ ab[x] \in Int
    OBVIOUS
  <2>1. /\ a[x] \in Int /\ b[x] \in Int
        /\ aa[x] = a[x] * a[x] /\ bb[x] = b[x] * b[x] /\ ab[x] = a[x] * b[x]
    BY DEF AreSummands
  <2> QED BY <2>1
<1>2. A \in Int /\ B \in Int /\ C \in Int
  BY <1>1, SumIsInt
<1> HIDE DEF A, B, C
<1>3. c1 \in Int /\ c2 \in Int /\ c3 \in Int
  BY <1>2
<1>4. \A k, l, r, t \in Int : Square(k, l, r, t)
  OBVIOUS
<1>5. ASSUME NEW x \in S
      PROVE  mixed[x] \in Int /\ square[x] \in Nat
  <2>1. /\ a[x] \in Int /\ b[x] \in Int
        /\ aa[x] = a[x] * a[x] /\ bb[x] = b[x] * b[x] /\ ab[x] = a[x] * b[x]
    BY DEF AreSummands
  <2>2. mixed[x] = c1 * aa[x] + c2 * ab[x] /\ square[x] = 1 * mixed[x] + c3 * bb[x]
    OBVIOUS
  <2>3. Square(B, C, a[x], b[x])
    <3> HIDE DEF Square
    <3> QED BY <1>2, <1>4, <2>1
  <2>4. (B * a[x] - C * b[x]) * (B * a[x] - C * b[x]) \in Nat
    <3>1. B * a[x] - C * b[x] \in Int
      BY <1>2, <2>1
    <3> QED BY <3>1, SquareIsNat
  <2> HIDE DEF mixed, square
  <2>5. square[x] = (B * a[x] - C * b[x]) * (B * a[x] - C * b[x])
    BY <2>1, <2>2, <2>3, Zenon
  <2>6. mixed[x] \in Int
    <3> HIDE DEF c1, c2, c3
    <3>1. \A r, t \in Int : c1 * r + c2 * t \in Int
      BY <1>3
    <3> QED BY <1>1, <2>2, <3>1
  <2> QED BY <2>4, <2>5, <2>6
<1>6. IsCombination(mixed, c1, aa, c2, ab, S) /\ IsCombination(square, 1, mixed, c3, bb, S)
  <2>1. \A x \in S : mixed[x] = c1 * aa[x] + c2 * ab[x]
    OBVIOUS
  <2>2. \A x \in S : square[x] = 1 * mixed[x] + c3 * bb[x]
    OBVIOUS
  <2> HIDE DEF mixed, square, c1, c2, c3
  <2> QED BY <1>1, <1>3, <1>5, <2>1, <2>2 DEF IsCombination
<1>7. SumFunctionOnSet(square, S) \in Nat
  <2> HIDE DEF square
  <2> QED BY <1>5, SumIsNat
<1>8. SumFunctionOnSet(square, S) = 1 * (c1 * A + c2 * C) + c3 * B
  <2> HIDE DEF mixed, square, c1, c2, c3
  <2>1. SumFunctionOnSet(mixed, S) = c1 * A + c2 * C
    BY <1>6, SumOfCombination DEF A, C
  <2>2. SumFunctionOnSet(square, S) = 1 * SumFunctionOnSet(mixed, S) + c3 * B
    BY <1>6, SumOfCombination DEF B
  <2> QED BY <2>1, <2>2
<1>9. 1 * (c1 * A + c2 * C) + c3 * B = (A * B - C * C) * B
  <2> HIDE DEF mixed, square
  <2> DEFINE Factor(k, l, r) ==
               1 * ((l * l) * k + (-(2 * (l * r))) * r) + (r * r) * l = (k * l - r * r) * l
  <2>1. \A k, l, r \in Int : Factor(k, l, r)
    OBVIOUS
  <2> HIDE DEF Factor
  <2>2. Factor(A, B, C)
    BY <1>2, <2>1
  <2> QED BY <2>2, Zenon DEF Factor
<1> HIDE DEF mixed, square, c1, c2, c3
<1>10. (A * B - C * C) * B \in Nat
  BY <1>7, <1>8, <1>9
<1>11. ~(A * B - C * C <= -1)
  <2> SUFFICES ASSUME A * B - C * C <= -1 PROVE FALSE
    OBVIOUS
  <2>1. A * B - C * C \in Int /\ B \in Nat /\ B > 0
    BY <1>2 DEF B
  <2>2. (A * B - C * C) * B <= (-1) * B
    BY <2>1, ProductsKeepOrder
  <2>3. (-1) * B < 0
    BY <2>1
  <2> DEFINE p == (A * B - C * C) * B
  <2>4. p \in Nat /\ p <= (-1) * B /\ (-1) * B \in Int
    BY <1>10, <2>1, <2>2
  <2> HIDE DEF p
  <2> QED BY <2>3, <2>4
<1>12. A * B \in Int /\ C * C \in Int
  BY <1>2
<1>13. C * C <= A * B
  BY <1>11, <1>12
<1> QED BY <1>13 DEF A, B, C

-----------------------------------------------------------------------------
(* Counting: the ones of a sum, a part and its rest, the parts of a division. *)

\* A sum of ones and zeros counts the ones.
LEMMA IndicatorCounts ==
  ASSUME NEW S, IsFiniteSet(S), NEW P \in SUBSET S, NEW f,
         \A x \in S : f[x] = IF x \in P THEN 1 ELSE 0
  PROVE  SumFunctionOnSet(f, S) = Cardinality(P)
<1> DEFINE rest == S \ P
<1>1. IsFiniteSet(P) /\ IsFiniteSet(rest)
  BY FS_Subset
<1>2. P \cup rest = S /\ P \cap rest = {}
  OBVIOUS
<1>3. /\ \A x \in P : f[x] = 1
      /\ \A x \in rest : f[x] = 0
      /\ \A x \in S : f[x] \in Int
  OBVIOUS
<1> HIDE DEF rest
<1>4. SumFunctionOnSet(f, P \cup rest) = SumFunctionOnSet(f, P) + SumFunctionOnSet(f, rest)
  BY <1>1, <1>2, <1>3, SumOfUnion
<1>5. SumFunctionOnSet(f, P) = 1 * Cardinality(P)
  BY <1>1, <1>3, SumOfConstant
<1>6. SumFunctionOnSet(f, rest) = 0 * Cardinality(rest)
  BY <1>1, <1>3, SumOfConstant
<1>7. Cardinality(P) \in Nat /\ Cardinality(rest) \in Nat
  BY <1>1, FS_CardinalityType
<1>8. 1 * Cardinality(P) = Cardinality(P) /\ 0 * Cardinality(rest) = 0
  BY <1>7
<1>9. SumFunctionOnSet(f, S) = Cardinality(P) + 0
  BY <1>2, <1>4, <1>5, <1>6, <1>8
<1> QED BY <1>7, <1>9

\* Counting with one element more.
LEMMA CountWithout ==
  ASSUME NEW Q, IsFiniteSet(Q), NEW x
  PROVE  /\ Cardinality(Q) = Cardinality(Q \ {x}) + (IF x \in Q THEN 1 ELSE 0)
         /\ Cardinality(Q) \in Nat /\ Cardinality(Q \ {x}) \in Nat
<1>1. IsFiniteSet(Q \ {x})
  BY FS_Subset
<1>2. Cardinality(Q) \in Nat /\ Cardinality(Q \ {x}) \in Nat
  BY <1>1, FS_CardinalityType
<1>3. CASE x \in Q
  <2>1. Cardinality(Q \ {x}) = Cardinality(Q) - 1
    BY <1>3, FS_RemoveElement
  <2> QED BY <1>2, <1>3, <2>1
<1>4. CASE x \notin Q
  <2>1. Q \ {x} = Q
    BY <1>4
  <2> QED BY <1>2, <1>4, <2>1
<1> QED BY <1>3, <1>4

\* What a part leaves of a set.
LEMMA CountOfRest ==
  ASSUME NEW S, IsFiniteSet(S), NEW Q \in SUBSET S
  PROVE  /\ Cardinality(Q) + Cardinality(S \ Q) = Cardinality(S)
         /\ Cardinality(Q) \in Nat /\ Cardinality(S \ Q) \in Nat /\ Cardinality(S) \in Nat
<1>1. IsFiniteSet(Q) /\ IsFiniteSet(S \ Q)
  BY FS_Subset
<1>2. S \cap Q = Q
  OBVIOUS
<1>3. Cardinality(S \ Q) = Cardinality(S) - Cardinality(Q)
  BY <1>1, <1>2, FS_Difference
<1>4. Cardinality(Q) \in Nat /\ Cardinality(S \ Q) \in Nat /\ Cardinality(S) \in Nat
  BY <1>1, FS_CardinalityType
<1> QED BY <1>3, <1>4

\* The counts of the bins add up to the number of values.
LEMMA PartitionAddsUp ==
  ASSUME NEW D, IsFiniteSet(D), NEW m \in Nat, NEW B, \A i \in D : B[i] \in 1..m,
         NEW c, \A k \in 1..m : c[k] = Cardinality({i \in D : B[i] = k})
  PROVE  SumFunctionOnSet(c, 1..m) = Cardinality(D)
<1> DEFINE UpToBin(k) == {i \in D : B[i] <= k}
           In(k) == {i \in D : B[i] = k}
           T == {k \in Nat : k <= m =>
                   SumFunctionOnSet(c, 1..k) = Cardinality(UpToBin(k))}
<1>1. \A k \in Nat : IsFiniteSet(UpToBin(k)) /\ Cardinality(UpToBin(k)) \in Nat
  <2> SUFFICES ASSUME NEW k \in Nat
               PROVE  IsFiniteSet(UpToBin(k)) /\ Cardinality(UpToBin(k)) \in Nat
    OBVIOUS
  <2>1. UpToBin(k) \subseteq D
    OBVIOUS
  <2> HIDE DEF UpToBin
  <2> QED BY <2>1, FS_Subset, FS_CardinalityType
<1>2. \A k \in 1..m : c[k] \in Nat
  <2> SUFFICES ASSUME NEW k \in 1..m PROVE c[k] \in Nat
    OBVIOUS
  <2>1. In(k) \subseteq D /\ c[k] = Cardinality(In(k))
    OBVIOUS
  <2> HIDE DEF In
  <2> QED BY <2>1, FS_Subset, FS_CardinalityType
<1>3. 0 \in T
  <2>1. 1..0 = {} /\ UpToBin(0) = {}
    OBVIOUS
  <2> HIDE DEF UpToBin
  <2>2. SumFunctionOnSet(c, 1..0) = 0 /\ Cardinality(UpToBin(0)) = 0
    BY <2>1, SumOfNone, FS_EmptySet
  <2> QED BY <2>2
<1>4. ASSUME NEW k \in T PROVE k + 1 \in T
  <2>0. k \in Nat /\ k + 1 \in Nat
    BY <1>4
  <2> SUFFICES ASSUME k + 1 <= m
               PROVE  SumFunctionOnSet(c, 1..k + 1) = Cardinality(UpToBin(k + 1))
    BY <2>0, Zenon
  <2>1. k \in Nat /\ SumFunctionOnSet(c, 1..k) = Cardinality(UpToBin(k))
    <3>1. k <= m
      BY <2>0
    <3> QED BY <1>4, <3>1, Zenon
  <2> HIDE DEF T
  <2> DEFINE A == 1..k
  <2>2. 1..k + 1 = A \cup {k + 1} /\ k + 1 \notin A
    BY <2>1
  <2>3. IsFiniteSet(A)
    BY <2>1, FS_Interval
  <2>4. c[k + 1] \in Int /\ (\A i \in A : c[i] \in Int) /\ c[k + 1] = Cardinality(In(k + 1))
    BY <1>2, <2>1
  <2> HIDE DEF A
  <2>5. SumFunctionOnSet(c, A \cup {k + 1}) = c[k + 1] + SumFunctionOnSet(c, A)
    BY <2>2, <2>3, <2>4, SumGrows
  <2>6. UpToBin(k + 1) \ UpToBin(k) = In(k + 1) /\ UpToBin(k) \subseteq UpToBin(k + 1)
    BY <2>1
  <2>7. IsFiniteSet(UpToBin(k + 1))
    BY <1>1, <2>1
  <2> HIDE DEF UpToBin, In
  <2>8. Cardinality(UpToBin(k)) + Cardinality(In(k + 1)) = Cardinality(UpToBin(k + 1))
        /\ Cardinality(UpToBin(k)) \in Nat /\ Cardinality(In(k + 1)) \in Nat
    BY <2>6, <2>7, CountOfRest
  <2>9. SumFunctionOnSet(c, A) = Cardinality(UpToBin(k))
    BY <2>1 DEF A
  <2>10. SumFunctionOnSet(c, 1..k + 1) = Cardinality(In(k + 1)) + Cardinality(UpToBin(k))
    BY <2>2, <2>4, <2>5, <2>9
  <2> QED BY <2>8, <2>10
<1>5. T = Nat
  <2> HIDE DEF T
  <2>1. T \in SUBSET Nat
    BY DEF T
  <2> QED BY <1>3, <1>4, <2>1, Induction
<1>6. SumFunctionOnSet(c, 1..m) = Cardinality(UpToBin(m))
  BY <1>5
<1>7. UpToBin(m) = D
  OBVIOUS
<1> QED BY <1>6, <1>7

=============================================================================
