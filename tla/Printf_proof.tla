---------------------------- MODULE Printf_proof ----------------------------
(***************************************************************************)
(* Proofs about Printf and Numerals, for every width of an int and every   *)
(* format and arguments that printf can be called with.                    *)
(*                                                                         *)
(* The models' recursive functions are CHOSEN: that they have the values   *)
(* they are written to have is shown once for each, from RecursiveFunction *)
(* or Ascent.  Both, and Induction, rest on a set of numbers having a      *)
(* least one, and take sets and functions where the induction theorems of  *)
(* the library take operators.                                             *)
(***************************************************************************)
EXTENDS Printf, SequenceTheorems, WellFoundedInduction, TLAPS

-----------------------------------------------------------------------------
(* Induction over data, and recursive functions.                           *)

\* A set of numbers has a least one.
LEMMA LeastNumber ==
  ASSUME NEW T, T \subseteq Nat, T # {}
  PROVE  \E n \in T : \A m \in T : n <= m
<1> DEFINE R == {p \in Nat \X Nat : p[1] < p[2]}
<1>1. IsWellFoundedOn(R, Nat)
  BY NatLessThanWellFounded DEF OpToRel
<1>2. \A x, y \in Nat : <<x, y>> \in R <=> x < y
  OBVIOUS
<1> HIDE DEF R
<1>3. PICK x \in T : \A y \in T : ~(<<y, x>> \in R)
  BY <1>1, WFMin
<1>4. ASSUME NEW y \in T PROVE x <= y
  <2>1. x \in Nat /\ y \in Nat
    OBVIOUS
  <2>2. ~(y < x)
    BY <1>2, <1>3, <2>1
  <2> QED
    BY <2>1, <2>2
<1> QED
  BY <1>4

\* An order on X goes down in rank, from x to pred[x], until it is in Z.
GoesDown(X, Z, rank, pred) ==
  /\ \E n \in Nat : rank \in [X -> 0..n]
  /\ \A x \in X \ Z : pred[x] \in X /\ rank[pred[x]] < rank[x]

\* A set contains all of X if it contains those in Z and inherits from pred[x] to x.
IsInherited(G, X, Z, pred) ==
  /\ \A x \in X \intersect Z : x \in G
  /\ \A x \in X \ Z : pred[x] \in G => x \in G

\* By induction along such an order the set is all of X: the first that is not in it
\* would have inherited.
LEMMA Induction ==
  ASSUME NEW X, NEW Z, NEW rank, NEW pred, GoesDown(X, Z, rank, pred),
         NEW G, IsInherited(G, X, Z, pred)
  PROVE  X \subseteq G
<1> SUFFICES ASSUME NEW y \in X, y \notin G PROVE FALSE
  OBVIOUS
<1>0. PICK N \in Nat : rank \in [X -> 0..N]
  BY DEF GoesDown
<1> DEFINE T == {rank[x] : x \in X \ G}
<1>1. T \subseteq Nat /\ T # {}
  BY <1>0
<1>2. PICK n \in T : \A m \in T : n <= m
  BY <1>1, LeastNumber
<1>3. PICK x \in X \ G : rank[x] = n
  BY <1>2
<1>4. pred[x] \in X \ G /\ rank[pred[x]] < rank[x]
  BY <1>3 DEF GoesDown, IsInherited
<1>5. rank[pred[x]] \in T /\ rank[pred[x]] \in Nat /\ rank[x] \in Nat
  BY <1>0, <1>4
<1> HIDE DEF T
<1>6. n <= rank[pred[x]]
  BY <1>2, <1>5
<1> QED
  BY <1>3, <1>4, <1>5, <1>6

\* In a recursion along such an order B is the value in Z, and elsewhere G makes it of
\* the value at pred[x].
Makes(X, Z, B, G, V) ==
  /\ \A x \in X \intersect Z : B[x] \in V
  /\ \A x \in X \ Z, v \in V : G[x][v] \in V

\* f is the function of such a recursion.
IsRecursion(f, X, Z, pred, B, G, V) ==
  /\ f \in [X -> V]
  /\ \A x \in X : f[x] = IF x \in Z THEN B[x] ELSE G[x][f[pred[x]]]

\* Such a recursion defines a function.
LEMMA RecursiveFunction ==
  ASSUME NEW X, NEW Z, NEW rank, NEW pred, GoesDown(X, Z, rank, pred),
         NEW B, NEW G, NEW V, Makes(X, Z, B, G, V)
  PROVE  \E f : IsRecursion(f, X, Z, pred, B, G, V)
<1>0. PICK N \in Nat : rank \in [X -> 0..N]
  BY DEF GoesDown
<1>a. \A x \in X \ Z : pred[x] \in X /\ rank[pred[x]] < rank[x]
  BY DEF GoesDown
<1>b. /\ \A x \in X \intersect Z : B[x] \in V
      /\ \A x \in X \ Z, v \in V : G[x][v] \in V
  BY DEF Makes
<1> DEFINE Below(n) == {x \in X : rank[x] <= n}
           Def(f, x) == IF x \in Z THEN B[x] ELSE G[x][f[pred[x]]]
           Solves(f, n) == f \in [Below(n) -> V] /\ \A x \in Below(n) : f[x] = Def(f, x)
           T == {n \in 0..N : ~\E f : Solves(f, n)}
<1>1. T = {}
  <2> SUFFICES ASSUME T # {} PROVE FALSE
    OBVIOUS
  <2>1. PICK n \in T : \A m \in T : n <= m
    <3>1. T \subseteq Nat
      OBVIOUS
    <3> HIDE DEF T
    <3> QED
      BY <3>1, LeastNumber
  <2>2. PICK f : \A x \in Below(n) \ Z : /\ pred[x] \in Below(n)
                                         /\ f[pred[x]] \in V /\ f[pred[x]] = Def(f, pred[x])
    <3>1. CASE n = 0
      <4>1. \A x \in Below(n) \ Z : FALSE
        <5> SUFFICES ASSUME NEW x \in Below(n) \ Z PROVE FALSE
          OBVIOUS
        <5>1. x \in X \ Z /\ rank[x] = 0
          BY <1>0, <3>1
        <5> QED
          BY <1>0, <1>a, <5>1
      <4> QED
        BY <4>1
    <3>2. CASE n > 0
      <4>1. n - 1 \in 0..N /\ n - 1 \notin T
        <5>1. n \in 0..N
          BY <2>1
        <5>2. n - 1 \in 0..N /\ ~(n <= n - 1)
          BY <3>2, <5>1
        <5> HIDE DEF T
        <5> QED
          BY <2>1, <5>2
      <4>2. PICK f : Solves(f, n - 1)
        BY <4>1
      <4>3. \A x \in Below(n) \ Z : pred[x] \in Below(n - 1) /\ pred[x] \in Below(n)
        BY <1>0, <1>a, <2>1
      <4> QED
        BY <4>2, <4>3
    <3> QED
      BY <2>1, <3>1, <3>2
  <2> DEFINE g == [x \in Below(n) |-> Def(f, x)]
  <2>3. Solves(g, n)
    <3>1. \A x \in Below(n) : g[x] \in V
      BY <1>b, <2>2
    <3>2. ASSUME NEW x \in Below(n) PROVE g[x] = Def(g, x)
      <4>1. CASE x \in Z
        BY <4>1
      <4>2. CASE x \notin Z
        <5>1. g[pred[x]] = f[pred[x]]
          BY <2>2, <4>2
        <5> QED
          BY <4>2, <5>1
      <4> QED
        BY <4>1, <4>2
    <3> QED
      BY <3>1, <3>2
  <2> QED
    BY <2>1, <2>3
<1>2. PICK f : Solves(f, N)
  <2>1. N \in 0..N
    BY <1>0
  <2> HIDE DEF Solves
  <2> QED
    BY <1>1, <2>1
<1>3. Below(N) = X
  BY <1>0
<1> QED
  BY <1>2, <1>3 DEF IsRecursion

-----------------------------------------------------------------------------
(* Digits.                                                                 *)

\* Division makes a number smaller.
LEMMA Divided ==
  ASSUME NEW b \in Nat, b > 1, NEW n \in Nat
  PROVE  /\ n \div b \in Nat /\ n % b \in 0..(b - 1) /\ n = b * (n \div b) + (n % b)
         /\ n > 0 => n \div b < n
         /\ n < b => n \div b = 0 /\ n % b = n
         /\ n >= b => n \div b > 0
<1>1. n \div b \in Nat /\ n % b \in 0..(b - 1) /\ n = b * (n \div b) + (n % b)
  OBVIOUS
<1>2. n > 0 => n \div b < n
  BY <1>1
<1>3. n < b => n \div b = 0 /\ n % b = n
  BY <1>1
<1>4. n >= b => n \div b > 0
  BY <1>1
<1> QED
  BY <1>1, <1>2, <1>3, <1>4

\* The recursion of Digits has the value it is written to have.
LEMMA DigitsFacts ==
  ASSUME NEW b \in Nat, b > 1, NEW n \in 0..(WIDTH - 1)
  PROVE  Digits(n, b) = IF n < b THEN <<n>> ELSE Append(Digits(n \div b, b), n % b)
<1> DEFINE X == 0..(WIDTH - 1)
           Z == {k \in X : k < b}
           Def(g) == [k \in X |-> IF k < b THEN <<k>> ELSE Append(g[k \div b], k % b)]
           f == CHOOSE g : g = Def(g)
<1>1. WIDTH \in Nat /\ WIDTH > 0
  BY NumeralsAssumption
<1>2. \A k \in X \ Z : k \div b \in X /\ k \div b < k
  <2> SUFFICES ASSUME NEW k \in X \ Z PROVE k \div b \in X /\ k \div b < k
    OBVIOUS
  <2>1. k \in Nat /\ k > 0 /\ k < WIDTH
    BY <1>1
  <2>2. k \div b \in Nat /\ k \div b < k
    BY <2>1, Divided
  <2> QED
    BY <1>1, <2>1, <2>2
<1>3. \E g : g = Def(g)
  <2> DEFINE rank == [k \in X |-> k]
             pred == [k \in X |-> k \div b]
             B == [k \in X |-> <<k>>]
             G == [k \in X |-> [v \in Seq(Nat) |-> Append(v, k % b)]]
  <2>1. GoesDown(X, Z, rank, pred)
    <3>1. WIDTH - 1 \in Nat /\ rank \in [X -> 0..(WIDTH - 1)]
      BY <1>1
    <3>2. \A k \in X \ Z : pred[k] \in X /\ rank[pred[k]] < rank[k]
      BY <1>2
    <3> HIDE DEF X, Z, rank, pred
    <3> QED
      BY <3>1, <3>2 DEF GoesDown
  <2>2. Makes(X, Z, B, G, Seq(Nat))
    <3>1. \A k \in X : k % b \in Nat
      BY <1>1, Divided
    <3> QED
      BY <3>1 DEF Makes
  <2>5. \A k \in X, v \in Seq(Nat) : G[k][v] = Append(v, k % b)
    OBVIOUS
  <2>6. \A k \in X : pred[k] = k \div b /\ B[k] = <<k>>
    OBVIOUS
  <2>7. PICK g : IsRecursion(g, X, Z, pred, B, G, Seq(Nat))
    <3> HIDE DEF X, Z, pred, B, G, rank
    <3> QED
      BY <2>1, <2>2, RecursiveFunction
  <2> HIDE DEF pred, B, G, rank
  <2>8. ASSUME NEW k \in X
        PROVE  g[k] = IF k < b THEN <<k>> ELSE Append(g[k \div b], k % b)
    <3>1. g[k] = IF k \in Z THEN B[k] ELSE G[k][g[pred[k]]]
      BY <2>7 DEF IsRecursion
    <3>2. CASE k \in Z
      BY <2>6, <3>1, <3>2
    <3>3. CASE k \notin Z
      <4>1. g[k \div b] \in Seq(Nat)
        BY <1>2, <2>7, <3>3 DEF IsRecursion
      <4> QED
        BY <2>5, <2>6, <3>1, <3>3, <4>1
    <3> QED
      BY <3>2, <3>3
  <2>9. g = Def(g)
    <3>1. g = [k \in X |-> g[k]]
      BY <2>7 DEF IsRecursion
    <3> QED
      BY <2>8, <3>1
  <2> QED
    BY <2>9
<1>4. f = Def(f)
  <2> HIDE DEF Def
  <2> QED
    BY <1>3, Zenon
<1>5. \A k : Digits(k, b) = f[k]
  BY DEF Digits
<1> HIDE DEF f
<1>6. f[n] = IF n < b THEN <<n>> ELSE Append(f[n \div b], n % b)
  BY <1>4
<1> QED
  BY <1>5, <1>6

-----------------------------------------------------------------------------
(* Values.                                                                 *)

\* Induction from 0 up to N.
LEMMA Upwards ==
  ASSUME NEW N \in Nat, NEW G, 0 \in G, \A k \in 1..N : k - 1 \in G => k \in G
  PROVE  0..N \subseteq G
<1> DEFINE X == 0..N
           rank == [k \in X |-> k]
           pred == [k \in X |-> k - 1]
           Z == {0}
<1>1. rank \in [X -> 0..N] /\ N \in Nat
  OBVIOUS
<1>2. \A k \in X \ Z : pred[k] \in X /\ rank[pred[k]] < rank[k]
  OBVIOUS
<1>3. GoesDown(X, Z, rank, pred)
  <2> HIDE DEF X, Z, rank, pred
  <2> QED
    BY <1>1, <1>2 DEF GoesDown
<1>4. IsInherited(G, X, Z, pred)
  BY DEF IsInherited
<1>5. X \subseteq G
  <2> HIDE DEF X, rank, pred, Z
  <2> QED
    BY <1>3, <1>4, Induction
<1> QED
  BY <1>5

\* A recursion from 0 upwards: its values are in V.
Ascends(f, N, A, G) == f = [k \in 0..N |-> IF k = 0 THEN A ELSE G[k][f[k - 1]]]

\* Such a recursion defines a function into V.
LEMMA Ascent ==
  ASSUME NEW N \in Nat, NEW V, NEW A \in V, NEW G \in [1..N -> [V -> V]]
  PROVE  \E f \in [0..N -> V] : Ascends(f, N, A, G)
<1> DEFINE X == 0..N
           rank == [k \in X |-> k]
           pred == [k \in X |-> k - 1]
           Z == {0}
           B == [k \in X |-> A]
<1>1. GoesDown(X, Z, rank, pred)
  <2>1. rank \in [X -> 0..N] /\ N \in Nat
    OBVIOUS
  <2>2. \A k \in X \ Z : pred[k] \in X /\ rank[pred[k]] < rank[k]
    OBVIOUS
  <2> HIDE DEF X, Z, rank, pred
  <2> QED
    BY <2>1, <2>2 DEF GoesDown
<1>2. Makes(X, Z, B, G, V)
  BY DEF Makes
<1>3. PICK f : IsRecursion(f, X, Z, pred, B, G, V)
  <2> HIDE DEF X, Z, rank, pred, B
  <2> QED
    BY <1>1, <1>2, RecursiveFunction
<1>4. f \in [0..N -> V] /\ \A k \in 0..N : f[k] = IF k = 0 THEN A ELSE G[k][f[k - 1]]
  BY <1>3 DEF IsRecursion
<1>5. f = [k \in 0..N |-> f[k]]
  BY <1>4
<1>6. Ascends(f, N, A, G)
  BY <1>4, <1>5 DEF Ascends
<1> QED
  BY <1>4, <1>6

\* The numbers that a numeral is built from, digit by digit.
IsValue(u, s, b) ==
  /\ u \in [0..Len(s) -> Nat] /\ u[0] = 0
  /\ \A k \in 1..Len(s) : u[k] = u[k - 1] * b + s[k]

\* The recursion of Magnitude has the value it is written to have.
LEMMA MagnitudeFacts ==
  ASSUME NEW s \in Seq(Nat), NEW b \in Nat
  PROVE  \E u : IsValue(u, s, b) /\ Magnitude(s, b) = u[Len(s)]
<1> DEFINE N == Len(s)
           Def(g) == [k \in 0..N |-> IF k = 0 THEN 0 ELSE g[k - 1] * b + s[k]]
           f == CHOOSE g : g = Def(g)
           G == [k \in 1..N |-> [v \in Nat |-> v * b + s[k]]]
<1>1. N \in Nat /\ \A k \in 1..N : s[k] \in Nat
  OBVIOUS
<1>2. G \in [1..N -> [Nat -> Nat]]
  BY <1>1
<1>3. \E g : g = Def(g)
  <2>1. PICK g \in [0..N -> Nat] : Ascends(g, N, 0, G)
    <3> HIDE DEF G, N
    <3> QED
      BY <1>1, <1>2, Ascent
  <2>2. \A k \in 0..N : g[k] = IF k = 0 THEN 0 ELSE G[k][g[k - 1]]
    <3> HIDE DEF G
    <3> QED
      BY <2>1 DEF Ascends
  <2>3. ASSUME NEW k \in 1..N PROVE G[k][g[k - 1]] = g[k - 1] * b + s[k]
    <3>1. k - 1 \in 0..N
      BY <1>1
    <3>2. g[k - 1] \in Nat
      BY <2>1, <3>1
    <3> HIDE DEF N
    <3> QED
      BY <3>2
  <2> HIDE DEF G
  <2>4. g = [k \in 0..N |-> g[k]]
    BY <2>1
  <2>5. \A k \in 0..N : g[k] = IF k = 0 THEN 0 ELSE g[k - 1] * b + s[k]
    <3> SUFFICES ASSUME NEW k \in 0..N
                 PROVE  g[k] = IF k = 0 THEN 0 ELSE g[k - 1] * b + s[k]
      OBVIOUS
    <3>1. CASE k = 0
      BY <2>2, <3>1
    <3>2. CASE k # 0
      <4>1. k \in 1..N
        BY <1>1, <3>2
      <4> QED
        BY <2>2, <2>3, <3>2, <4>1
    <3> QED
      BY <3>1, <3>2
  <2>6. g = Def(g)
    BY <2>4, <2>5
  <2> QED
    BY <2>6
<1>4. f = Def(f)
  <2> HIDE DEF Def
  <2> QED
    BY <1>3, Zenon
<1>5. Magnitude(s, b) = f[N]
  BY DEF Magnitude
<1> HIDE DEF f
<1>6. \A k \in 0..N : f[k] = IF k = 0 THEN 0 ELSE f[k - 1] * b + s[k]
  BY <1>4
<1> HIDE DEF N
<1>7. \A k \in 0..N : f[k] \in Nat
  <2> DEFINE T == {k \in 0..N : f[k] \in Nat}
  <2>1. 0 \in T /\ \A k \in 1..N : k - 1 \in T => k \in T
    <3>1. 0 \in T
      BY <1>1, <1>6
    <3>2. ASSUME NEW k \in 1..N, k - 1 \in T PROVE k \in T
      <4>1. f[k - 1] \in Nat /\ s[k] \in Nat
        BY <1>1, <3>2
      <4>2. f[k] = f[k - 1] * b + s[k]
        BY <1>1, <1>6
      <4>3. \A m \in Nat : m * b \in Nat
        OBVIOUS
      <4>4. f[k] \in Nat
        <5>1. f[k - 1] * b \in Nat
          BY <4>1, <4>3
        <5> DEFINE p == f[k - 1] * b
        <5>2. p \in Nat /\ f[k] = p + s[k]
          BY <4>2, <5>1
        <5> HIDE DEF p
        <5> QED
          BY <4>1, <5>2
      <4> QED
        BY <4>4
    <3> QED
      BY <3>1, <3>2
  <2>2. 0..N \subseteq T
    <3> HIDE DEF T
    <3> QED
      BY <1>1, <2>1, Upwards
  <2> QED
    BY <2>2
<1>8. f \in [0..N -> Nat]
  BY <1>4, <1>7
<1>9. f[0] = 0 /\ \A k \in 1..N : f[k] = f[k - 1] * b + s[k]
  BY <1>1, <1>6
<1> QED
  BY <1>5, <1>8, <1>9 DEF IsValue, N

\* One more digit.
LEMMA MagnitudeOfAppend ==
  ASSUME NEW s \in Seq(Nat), NEW d \in Nat, NEW b \in Nat
  PROVE  /\ Magnitude(s, b) \in Nat
         /\ Magnitude(Append(s, d), b) = Magnitude(s, b) * b + d
<1> DEFINE t == Append(s, d)
           N == Len(s)
<1>1. /\ t \in Seq(Nat) /\ Len(t) = N + 1 /\ t[N + 1] = d
      /\ N \in Nat /\ \A k \in 1..N : t[k] = s[k]
  OBVIOUS
<1> HIDE DEF t
<1>2. PICK u : IsValue(u, s, b) /\ Magnitude(s, b) = u[N]
  BY MagnitudeFacts
<1>3. PICK w : IsValue(w, t, b) /\ Magnitude(t, b) = w[N + 1]
  BY <1>1, MagnitudeFacts
<1> DEFINE T == {k \in 0..N : w[k] = u[k]}
<1>4. 0 \in T
  BY <1>1, <1>2, <1>3 DEF IsValue
<1>5. ASSUME NEW k \in 1..N, k - 1 \in T PROVE k \in T
  <2>1. w[k] = w[k - 1] * b + t[k] /\ u[k] = u[k - 1] * b + s[k]
    BY <1>1, <1>2, <1>3 DEF IsValue
  <2> QED
    BY <1>1, <1>5, <2>1
<1>6. 0..N \subseteq T
  <2> HIDE DEF T
  <2> QED
    BY <1>1, <1>4, <1>5, Upwards
<1>7. w[N + 1] = w[N] * b + d
  <2>1. N + 1 \in 1..Len(t) /\ (N + 1) - 1 = N
    BY <1>1
  <2> QED
    BY <1>1, <1>3, <2>1 DEF IsValue
<1>8. u[N] \in Nat /\ w[N] = u[N]
  <2>1. N \in 0..N
    BY <1>1
  <2> QED
    BY <1>1, <1>2, <1>6, <2>1 DEF IsValue
<1> QED
  BY <1>2, <1>3, <1>7, <1>8 DEF t

\* A single digit.
LEMMA MagnitudeOfDigit ==
  ASSUME NEW d \in Nat, NEW b \in Nat
  PROVE  Magnitude(<<d>>, b) = d
<1> DEFINE s == <<d>>
<1>1. s \in Seq(Nat) /\ Len(s) = 1 /\ s[1] = d
  OBVIOUS
<1> HIDE DEF s
<1>2. PICK u : IsValue(u, s, b) /\ Magnitude(s, b) = u[1]
  BY <1>1, MagnitudeFacts
<1>3. u[0] = 0 /\ u[1] = u[1 - 1] * b + s[1]
  BY <1>1, <1>2 DEF IsValue
<1>4. u[1] = d
  BY <1>1, <1>3
<1> QED
  BY <1>2, <1>4 DEF s

-----------------------------------------------------------------------------
\* A numeral: its value, its digits, and no leading zero.
IsNumeralOf(s, n, b) ==
  /\ s \in Seq(Nat) /\ Len(s) > 0
  /\ Magnitude(s, b) = n
  /\ \A i \in 1..Len(s) : s[i] \in 0..(b - 1)
  /\ s[1] = 0 => Len(s) = 1

\* Appending a digit to the numeral of a number that is not 0 gives a numeral.
LEMMA NumeralOfAppend ==
  ASSUME NEW b \in Nat, b > 1, NEW m \in Nat, m > 0, NEW d \in 0..(b - 1),
         NEW s, IsNumeralOf(s, m, b)
  PROVE  IsNumeralOf(Append(s, d), m * b + d, b)
<1> DEFINE t == Append(s, d)
<1>1. s \in Seq(Nat) /\ Len(s) > 0 /\ Magnitude(s, b) = m /\ d \in Nat
  BY DEF IsNumeralOf
<1>2. /\ t \in Seq(Nat) /\ Len(t) = Len(s) + 1
      /\ \A i \in 1..Len(t) : t[i] = IF i <= Len(s) THEN s[i] ELSE d
  BY <1>1
<1> HIDE DEF t
<1>3. Magnitude(t, b) = m * b + d
  BY <1>1, MagnitudeOfAppend DEF t
<1>4. s[1] # 0
  <2> SUFFICES ASSUME s[1] = 0 PROVE FALSE
    OBVIOUS
  <2>1. s = <<0>>
    BY <1>1 DEF IsNumeralOf
  <2> QED
    BY <1>1, <2>1, MagnitudeOfDigit
<1>5. ASSUME NEW i \in 1..Len(t) PROVE t[i] \in 0..(b - 1)
  <2>1. t[i] = IF i <= Len(s) THEN s[i] ELSE d
    BY <1>2
  <2>2. i <= Len(s) => i \in 1..Len(s)
    BY <1>1
  <2> QED
    BY <2>1, <2>2 DEF IsNumeralOf
<1>6. t[1] # 0
  BY <1>1, <1>2, <1>4
<1>7. Len(t) > 0
  BY <1>1, <1>2
<1> QED
  BY <1>2, <1>3, <1>5, <1>6, <1>7 DEF IsNumeralOf, t

\* The digits that are computed for a number are its numeral.
LEMMA DigitsAreNumeral ==
  ASSUME NEW b \in Nat, b > 1, NEW n \in 0..(WIDTH - 1)
  PROVE  IsNumeralOf(Digits(n, b), n, b)
<1> DEFINE X == 0..(WIDTH - 1)
           Z == {k \in X : k < b}
           rank == [k \in X |-> k]
           pred == [k \in X |-> k \div b]
           T == {k \in X : IsNumeralOf(Digits(k, b), k, b)}
<1>1. WIDTH \in Nat /\ WIDTH > 0
  BY NumeralsAssumption
<1>2. WIDTH - 1 \in Nat /\ rank \in [X -> 0..(WIDTH - 1)]
  BY <1>1
<1>3. ASSUME NEW k \in X \ Z
      PROVE  pred[k] \in X /\ rank[pred[k]] < rank[k] /\ pred[k] = k \div b
  <2>1. k \in Nat /\ k > 0 /\ k < WIDTH
    BY <1>1
  <2>2. k \div b \in Nat /\ k \div b < k
    BY <2>1, Divided
  <2> QED
    BY <1>1, <2>1, <2>2
<1>4. ASSUME NEW k \in X \intersect Z PROVE k \in T
  <2>1. Digits(k, b) = <<k>>
    BY DigitsFacts
  <2>2. k \in Nat /\ k < b
    BY <1>1
  <2>3. Magnitude(<<k>>, b) = k
    BY <2>2, MagnitudeOfDigit
  <2> DEFINE s == <<k>>
  <2>4. s \in Seq(Nat) /\ Len(s) = 1 /\ s[1] = k
    BY <2>2
  <2> HIDE DEF s
  <2>5. \A i \in 1..Len(s) : s[i] \in 0..(b - 1)
    <3> SUFFICES ASSUME NEW i \in 1..Len(s) PROVE s[i] \in 0..(b - 1)
      OBVIOUS
    <3>1. i = 1
      BY <2>4
    <3> QED
      BY <2>2, <2>4, <3>1
  <2>6. Len(s) > 0
    BY <2>4
  <2>7. IsNumeralOf(s, k, b)
    BY <2>3, <2>4, <2>5, <2>6 DEF IsNumeralOf, s
  <2> QED
    BY <2>1, <2>7 DEF s
<1>5. ASSUME NEW k \in X \ Z, pred[k] \in T PROVE k \in T
  <2>1. k \in Nat /\ k >= b
    BY <1>1
  <2>2. Digits(k, b) = Append(Digits(k \div b, b), k % b)
    BY <2>1, DigitsFacts
  <2>3. /\ k \div b \in Nat /\ k % b \in 0..(b - 1) /\ k = b * (k \div b) + (k % b)
        /\ k \div b > 0
    BY <2>1, Divided
  <2>4. IsNumeralOf(Digits(k \div b, b), k \div b, b)
    BY <1>3, <1>5
  <2>5. IsNumeralOf(Digits(k, b), (k \div b) * b + (k % b), b)
    BY <2>2, <2>3, <2>4, NumeralOfAppend
  <2>6. (k \div b) * b + (k % b) = k
    BY <2>3
  <2> QED
    BY <2>5, <2>6
<1>6. GoesDown(X, Z, rank, pred)
  <2> HIDE DEF X, Z, rank, pred
  <2> QED
    BY <1>2, <1>3 DEF GoesDown
<1>7. IsInherited(T, X, Z, pred)
  <2> HIDE DEF X, Z, pred, T
  <2> QED
    BY <1>4, <1>5 DEF IsInherited
<1>8. X \subseteq T
  <2> HIDE DEF X, Z, rank, pred, T
  <2> QED
    BY <1>6, <1>7, Induction
<1> QED
  BY <1>8

-----------------------------------------------------------------------------
(* The texts that the pieces stood for, end to end.                        *)

\* f[i] is the first i texts end to end.
IsFlat(f, ss) ==
  /\ DOMAIN f = 1..Len(ss)
  /\ \A i \in 1..Len(ss) : f[i] = IF i = 1 THEN ss[i] ELSE f[i - 1] \o ss[i]

\* The recursion of FlattenSeq has the value it is written to have.
LEMMA FlattenFacts ==
  ASSUME NEW S, NEW ss \in Seq(Seq(S)), ss # <<>>
  PROVE  \E f : /\ IsFlat(f, ss) /\ FlattenSeq(ss) = f[Len(ss)]
                /\ \A i \in 1..Len(ss) : f[i] \in Seq(S)
<1> DEFINE N == Len(ss)
           Def(g) == [i \in 1..N |-> IF i = 1 THEN ss[i] ELSE g[i - 1] \o ss[i]]
           f == CHOOSE g : g = Def(g)
           G == [k \in 1..(N - 1) |-> [v \in Seq(S) |-> v \o ss[k + 1]]]
<1>1. N \in Nat /\ N > 0 /\ \A k \in 1..N : ss[k] \in Seq(S)
  OBVIOUS
<1>2. G \in [1..(N - 1) -> [Seq(S) -> Seq(S)]]
  <2> SUFFICES ASSUME NEW k \in 1..(N - 1), NEW v \in Seq(S) PROVE v \o ss[k + 1] \in Seq(S)
    OBVIOUS
  <2>1. ss[k + 1] \in Seq(S)
    BY <1>1
  <2> QED
    BY <2>1
<1>3. \E g : g = Def(g)
  <2>1. PICK h \in [0..(N - 1) -> Seq(S)] : Ascends(h, N - 1, ss[1], G)
    <3>1. N - 1 \in Nat /\ ss[1] \in Seq(S)
      BY <1>1
    <3> HIDE DEF G, N
    <3> QED
      BY <1>2, <3>1, Ascent
  <2>2. \A k \in 0..(N - 1) : h[k] = IF k = 0 THEN ss[1] ELSE G[k][h[k - 1]]
    <3> HIDE DEF G
    <3> QED
      BY <2>1 DEF Ascends
  <2> DEFINE g == [i \in 1..N |-> h[i - 1]]
  <2>3. ASSUME NEW i \in 1..N PROVE g[i] = IF i = 1 THEN ss[i] ELSE g[i - 1] \o ss[i]
    <3>1. i - 1 \in 0..(N - 1)
      BY <1>1
    <3>2. CASE i = 1
      <4> HIDE DEF G
      <4> QED
        BY <2>2, <3>1, <3>2
    <3>3. CASE i # 1
      <4>1. i - 1 \in 1..(N - 1) /\ i - 2 \in 0..(N - 1)
        BY <1>1, <3>3
      <4>2. h[i - 1] = G[i - 1][h[i - 2]]
        <5>1. (i - 1) - 1 = i - 2 /\ i - 1 # 0
          BY <4>1
        <5> HIDE DEF G
        <5> QED
          BY <2>2, <3>1, <5>1
      <4>3. G[i - 1][h[i - 2]] = h[i - 2] \o ss[i]
        <5>1. h[i - 2] \in Seq(S)
          BY <2>1, <4>1
        <5>2. (i - 1) + 1 = i
          BY <3>1
        <5> QED
          BY <4>1, <5>1, <5>2
      <4>4. g[i - 1] = h[i - 2] /\ g[i] = h[i - 1]
        <5>1. i - 1 \in 1..N /\ (i - 1) - 1 = i - 2
          BY <1>1, <3>3
        <5> QED
          BY <5>1
      <4> QED
        BY <3>3, <4>2, <4>3, <4>4
    <3> QED
      BY <3>2, <3>3
  <2>4. g = Def(g)
    <3>1. g = [i \in 1..N |-> g[i]]
      OBVIOUS
    <3> HIDE DEF g
    <3> QED
      BY <2>3, <3>1
  <2> QED
    BY <2>4
<1>4. f = Def(f)
  <2> HIDE DEF Def
  <2> QED
    BY <1>3, Zenon
<1>5. FlattenSeq(ss) = f[N]
  BY <1>1 DEF FlattenSeq
<1> HIDE DEF f
<1>6. IsFlat(f, ss)
  BY <1>4 DEF IsFlat
<1> HIDE DEF N
<1>7. \A i \in 1..N : f[i] \in Seq(S)
  <2> DEFINE T == {k \in 0..(N - 1) : f[k + 1] \in Seq(S)}
  <2>1. 0 \in T
    <3>1. 0 + 1 = 1 /\ 1 \in 1..N /\ 0 \in 0..(N - 1)
      BY <1>1
    <3>2. f[1] = ss[1]
      BY <1>6, <3>1 DEF IsFlat, N
    <3> QED
      BY <1>1, <3>1, <3>2
  <2>2. ASSUME NEW k \in 1..(N - 1), k - 1 \in T PROVE k \in T
    <3>1. k + 1 \in 1..N /\ k + 1 # 1 /\ (k + 1) - 1 = k /\ (k - 1) + 1 = k /\ k \in 0..(N - 1)
      BY <1>1
    <3>2. f[k + 1] = f[k] \o ss[k + 1]
      BY <1>6, <3>1 DEF IsFlat, N
    <3>3. f[k] \in Seq(S) /\ ss[k + 1] \in Seq(S)
      BY <1>1, <2>2, <3>1
    <3>4. f[k] \o ss[k + 1] \in Seq(S)
      BY <3>3
    <3> QED
      BY <3>1, <3>2, <3>4
  <2>3. 0..(N - 1) \subseteq T
    <3>1. N - 1 \in Nat
      BY <1>1
    <3> HIDE DEF T
    <3> QED
      BY <2>1, <2>2, <3>1, Upwards
  <2>4. ASSUME NEW i \in 1..N PROVE f[i] \in Seq(S)
    <3>1. i - 1 \in 0..(N - 1) /\ (i - 1) + 1 = i
      BY <1>1
    <3> QED
      BY <2>3, <3>1
  <2> QED
    BY <2>4
<1> QED
  BY <1>5, <1>6, <1>7 DEF N

\* One more text.
LEMMA FlattenOfAppend ==
  ASSUME NEW S, NEW ss \in Seq(Seq(S)), NEW s \in Seq(S)
  PROVE  /\ FlattenSeq(ss) \in Seq(S)
         /\ FlattenSeq(Append(ss, s)) = FlattenSeq(ss) \o s
<1> DEFINE tt == Append(ss, s)
           N == Len(ss)
<1>1. /\ tt \in Seq(Seq(S)) /\ tt # <<>> /\ Len(tt) = N + 1 /\ tt[N + 1] = s
      /\ N \in Nat /\ \A k \in 1..N : tt[k] = ss[k]
  <2> DEFINE R == Seq(S)
  <2>1. ss \in Seq(R) /\ s \in R
    OBVIOUS
  <2> HIDE DEF R
  <2>2. tt \in Seq(R) /\ Len(tt) = N + 1 /\ tt[N + 1] = s
    BY <2>1
  <2>3. N \in Nat /\ \A k \in 1..N : tt[k] = ss[k]
    BY <2>1
  <2>4. tt # <<>>
    BY <2>2, <2>3
  <2> QED
    BY <2>2, <2>3, <2>4 DEF R
<1> HIDE DEF tt
<1>2. PICK w : IsFlat(w, tt) /\ FlattenSeq(tt) = w[N + 1]
  BY <1>1, FlattenFacts
<1>3. CASE ss = <<>>
  <2>1. N = 0 /\ FlattenSeq(ss) = <<>>
    BY <1>3 DEF FlattenSeq
  <2>2. w[1] = s
    BY <1>1, <1>2, <2>1 DEF IsFlat
  <2> QED
    BY <1>2, <2>1, <2>2 DEF tt
<1>4. CASE ss # <<>>
  <2>1. PICK u : /\ IsFlat(u, ss) /\ FlattenSeq(ss) = u[N]
                 /\ \A i \in 1..N : u[i] \in Seq(S)
    BY <1>4, FlattenFacts
  <2>2. N > 0
    BY <1>4
  <2> HIDE DEF N
  <2> DEFINE T == {k \in 0..(N - 1) : w[k + 1] = u[k + 1]}
  <2>3. 0 \in T
    <3>1. 1 \in 1..N /\ 1 \in 1..(N + 1) /\ 0 + 1 = 1 /\ 0 \in 0..(N - 1)
      BY <1>1, <2>2
    <3>2. w[1] = tt[1] /\ u[1] = ss[1]
      BY <1>1, <1>2, <2>1, <3>1 DEF IsFlat, N
    <3> QED
      BY <1>1, <3>1, <3>2
  <2>4. ASSUME NEW k \in 1..(N - 1), k - 1 \in T PROVE k \in T
    <3>1. /\ k + 1 \in 1..N /\ k + 1 \in 1..(N + 1) /\ k + 1 # 1 /\ (k + 1) - 1 = k
          /\ (k - 1) + 1 = k /\ k \in 0..(N - 1)
      BY <1>1
    <3>2. w[k + 1] = w[k] \o tt[k + 1] /\ u[k + 1] = u[k] \o ss[k + 1]
      BY <1>1, <1>2, <2>1, <3>1 DEF IsFlat, N
    <3> QED
      BY <1>1, <2>4, <3>1, <3>2
  <2>5. 0..(N - 1) \subseteq T
    <3>1. N - 1 \in Nat
      BY <1>1, <2>2
    <3> HIDE DEF T
    <3> QED
      BY <2>3, <2>4, <3>1, Upwards
  <2>6. w[N] = u[N] /\ u[N] \in Seq(S)
    <3>1. N - 1 \in 0..(N - 1) /\ (N - 1) + 1 = N /\ N \in 1..N
      BY <1>1, <2>2
    <3> QED
      BY <2>1, <2>5, <3>1
  <2>7. w[N + 1] = w[N] \o s
    <3>1. N + 1 \in 1..(N + 1) /\ N + 1 # 1 /\ (N + 1) - 1 = N
      BY <1>1, <2>2
    <3> QED
      BY <1>1, <1>2, <3>1 DEF IsFlat
  <2> QED
    BY <1>2, <2>1, <2>6, <2>7 DEF tt
<1> QED
  BY <1>3, <1>4

-----------------------------------------------------------------------------
(* Formats, and the pieces that are printed.                               *)

\* What is in a format or a piece: the provers do not know that a text in quotes is a
\* STRING.
Chars == STRING \union {"%", "0x"}

\* What printf prints, piece by piece.
Pieces == Chars \X Nat \X Seq(Int)

\* Neither NUL nor the name of the 0x piece is a character.
IsFormat(format) ==
  /\ format \in Seq(Chars)
  /\ \A i \in 1..Len(format) : format[i] # NUL /\ format[i] # "0x"

\* The characters of a format, and NUL behind them.
LEMMA CharFacts ==
  ASSUME NEW format, IsFormat(format)
  PROVE  /\ Len(format) \in Nat
         /\ \A i \in 1..Len(format) : /\ Char(format, i) = format[i] /\ format[i] \in Chars
                                      /\ format[i] # NUL /\ format[i] # "0x"
         /\ \A i \in Nat : i > Len(format) => Char(format, i) = NUL
BY DEF IsFormat, Char

\* A run ends behind its first character, and has no percent but that.
LEMMA RunEndFacts ==
  ASSUME NEW format, IsFormat(format), NEW i \in 1..Len(format)
  PROVE  /\ RunEnd(format, i) \in (i + 1)..(Len(format) + 1)
         /\ \A k \in (i + 1)..(RunEnd(format, i) - 1) : format[k] # "%"
<1> DEFINE N == Len(format)
           T == {j \in (i + 1)..(N + 1) : Char(format, j) \in {NUL, "%"}}
           e == RunEnd(format, i)
<1>1. N \in Nat
  BY CharFacts
<1>2. N + 1 \in (i + 1)..(N + 1) /\ N + 1 \in Nat /\ N + 1 > N
  BY <1>1
<1>3. Char(format, N + 1) = NUL
  BY <1>2, CharFacts
<1>4. T # {} /\ T \subseteq Nat
  BY <1>1, <1>2, <1>3
<1>5. e = CHOOSE x \in T : \A y \in T : x =< y
  BY DEF RunEnd, Min
<1>6. e \in T /\ \A y \in T : e =< y
  <2> HIDE DEF T, e
  <2> QED
    BY <1>4, <1>5, LeastNumber
<1>7. ASSUME NEW k \in (i + 1)..(e - 1), format[k] = "%" PROVE FALSE
  <2>1. e \in Nat /\ e <= N + 1 /\ i \in Nat
    BY <1>1, <1>6
  <2> HIDE DEF e
  <2>2. k \in 1..N /\ k \in (i + 1)..(N + 1) /\ ~(e =< k)
    BY <1>1, <2>1
  <2>3. Char(format, k) = "%"
    BY <1>7, <2>2, CharFacts
  <2>4. k \in T
    BY <2>2, <2>3
  <2> QED
    BY <1>6, <2>2, <2>4
<1>8. e \in (i + 1)..(N + 1)
  BY <1>6
<1> QED
  BY <1>7, <1>8

\* A run is a piece for each of its characters.
LEMMA LiterallyFacts ==
  ASSUME NEW format, IsFormat(format), NEW i \in 1..Len(format),
         NEW j \in i..(Len(format) + 1)
  PROVE  /\ Literally(format, i, j) \in Seq(Pieces) /\ Len(Literally(format, i, j)) = j - i
         /\ j <= Len(format) =>
              Literally(format, i, j + 1) = Append(Literally(format, i, j), <<format[j], 0, <<>>>>)
<1> DEFINE N == Len(format)
           p(k) == <<format[i + k - 1], 0, <<>>>>
<1>1. N \in Nat /\ \A k \in 1..N : format[k] \in Chars
  BY CharFacts
<1>2. ASSUME NEW m \in Nat, i + m - 1 <= N
      PROVE  [k \in 1..m |-> p(k)] \in Seq(Pieces) /\ Len([k \in 1..m |-> p(k)]) = m
  <2>1. ASSUME NEW k \in 1..m PROVE p(k) \in Pieces
    <3>1. i + k - 1 \in 1..N
      BY <1>1, <1>2
    <3>2. format[i + k - 1] \in Chars /\ <<>> \in Seq(Int)
      BY <1>1, <3>1
    <3> QED
      BY <3>2 DEF Pieces
  <2> HIDE DEF p
  <2> QED
    BY <2>1
<1>3. j - i \in Nat /\ i + (j - i) - 1 <= N
  BY <1>1
<1>4. Literally(format, i, j) = [k \in 1..(j - i) |-> p(k)]
  BY DEF Literally
<1>5. ASSUME j <= N
      PROVE  Literally(format, i, j + 1) = Append(Literally(format, i, j), <<format[j], 0, <<>>>>)
  <2>1. Literally(format, i, j + 1) = [k \in 1..(j + 1 - i) |-> p(k)]
    BY DEF Literally
  <2>2. j + 1 - i = (j - i) + 1 /\ j + 1 - i \in Nat /\ i + (j + 1 - i) - 1 = j
    BY <1>1
  <2>3. p(j + 1 - i) = <<format[j], 0, <<>>>>
    BY <2>2
  <2>4. /\ [k \in 1..(j - i) |-> p(k)] \in Seq(Pieces)
        /\ Len([k \in 1..(j - i) |-> p(k)]) = j - i
    BY <1>2, <1>3
  <2> HIDE DEF p
  <2>5. Append([k \in 1..(j - i) |-> p(k)], p(j + 1 - i)) = [k \in 1..(j + 1 - i) |-> p(k)]
    BY <1>3, <2>2, <2>4
  <2> QED
    BY <1>4, <2>1, <2>3, <2>5
<1> QED
  BY <1>2, <1>3, <1>4, <1>5

-----------------------------------------------------------------------------
\* The text of the format that o stands for.
Texts(o) == FlattenSeq([i \in DOMAIN o |-> Origin(o[i])])

\* What a character, a conversion and the 0x of a %x stood for.
LEMMA OriginFacts ==
  /\ \A p \in Pieces : Origin(p) \in Seq(Chars)
  /\ \A c \in Chars : c # "0x" => Origin(<<c, 0, <<>>>>) = <<c>>
  /\ \A c \in Chars, n \in Nat : n > 0 => \A t : Origin(<<c, n, t>>) = <<"%", c>>
  /\ Hex \in Pieces /\ Origin(Hex) = <<>>
<1>1. \A p \in Pieces : p[1] \in Chars /\ p[2] \in Nat
  BY DEF Pieces
<1>2. ASSUME NEW p \in Pieces PROVE Origin(p) \in Seq(Chars)
  <2>1. p[1] \in Chars /\ "%" \in Chars
    BY <1>1 DEF Chars
  <2> DEFINE S == Chars
  <2>2. <<>> \in Seq(S) /\ <<"%", p[1]>> \in Seq(S) /\ <<p[1]>> \in Seq(S)
    BY <2>1
  <2> QED
    BY <2>2 DEF Origin
<1>3. ASSUME NEW c \in Chars, c # "0x" PROVE Origin(<<c, 0, <<>>>>) = <<c>>
  <2>1. <<c, 0, <<>>>> # Hex
    BY <1>3 DEF Hex
  <2> QED
    BY <2>1 DEF Origin
<1>4. ASSUME NEW c \in Chars, NEW n \in Nat, NEW t, n > 0
      PROVE  Origin(<<c, n, t>>) = <<"%", c>>
  <2>1. <<c, n, t>> # Hex
    BY <1>4 DEF Hex
  <2> QED
    BY <1>4, <2>1 DEF Origin
<1>5. Hex \in Pieces
  <2>1. <<>> \in Seq(Int)
    OBVIOUS
  <2>2. "0x" \in Chars /\ 0 \in Nat
    BY DEF Chars
  <2> DEFINE e == <<>>
             S == Seq(Int)
  <2>3. Hex = <<"0x", 0, e>> /\ Pieces = Chars \X Nat \X S
    BY DEF Hex, Pieces
  <2>4. e \in S
    BY <2>1
  <2> HIDE DEF e, S
  <2> QED
    BY <2>2, <2>3, <2>4
<1>6. Origin(Hex) = <<>>
  <2>1. Hex[2] = 0
    BY DEF Hex
  <2>2. ~(Hex[2] > 0)
    BY <2>1
  <2> QED
    BY <2>2, Zenon DEF Origin
<1> QED
  BY <1>2, <1>3, <1>4, <1>5, <1>6

\* One more piece.
LEMMA TextsOfAppend ==
  ASSUME NEW o \in Seq(Pieces), NEW p \in Pieces
  PROVE  /\ Texts(o) \in Seq(Chars)
         /\ Texts(Append(o, p)) = Texts(o) \o Origin(p)
<1> DEFINE q == Append(o, p)
           ss == [i \in DOMAIN o |-> Origin(o[i])]
           tt == [i \in DOMAIN q |-> Origin(q[i])]
           S == Chars
<1>1. o \in Seq(Pieces) /\ p \in Pieces /\ DOMAIN o = 1..Len(o) /\ Len(o) \in Nat
  OBVIOUS
<1>2. \A i \in 1..Len(o) : Origin(o[i]) \in Seq(S)
  BY OriginFacts
<1>3. ss \in Seq(Seq(S)) /\ Len(ss) = Len(o)
  <2> DEFINE R == Seq(S)
  <2>1. \A i \in 1..Len(o) : Origin(o[i]) \in R
    BY <1>2
  <2>2. ss = [i \in 1..Len(o) |-> Origin(o[i])]
    BY <1>1
  <2> HIDE DEF R, ss
  <2>3. ss \in Seq(R) /\ Len(ss) = Len(o)
    BY <1>1, <2>1, <2>2
  <2> QED
    BY <2>3 DEF R
<1>4. Origin(p) \in Seq(S)
  BY OriginFacts
<1>5. tt = Append(ss, Origin(p))
  <2>1. DOMAIN q = 1..(Len(o) + 1) /\ q[Len(o) + 1] = p /\ \A i \in 1..Len(o) : q[i] = o[i]
    BY <1>1
  <2> HIDE DEF q
  <2>2. tt = [i \in 1..(Len(o) + 1) |-> IF i <= Len(o) THEN Origin(o[i]) ELSE Origin(p)]
    BY <1>1, <2>1
  <2>3. \A i \in 1..Len(o) : ss[i] = Origin(o[i])
    BY <1>1
  <2> DEFINE R == Seq(S)
             c == Origin(p)
  <2>4. ss \in Seq(R) /\ c \in R
    BY <1>3, <1>4
  <2> HIDE DEF ss, R, c
  <2>5. Append(ss, c) = [i \in 1..(Len(o) + 1) |-> IF i <= Len(o) THEN Origin(o[i]) ELSE c]
    <3> DEFINE u == Append(ss, c)
    <3>1. u \in Seq(R) /\ Len(u) = Len(o) + 1
      BY <1>1, <1>3, <2>4
    <3>2. u[Len(o) + 1] = c /\ \A i \in 1..Len(o) : u[i] = ss[i]
      BY <1>1, <1>3, <2>4
    <3> HIDE DEF u
    <3>3. \A i \in 1..(Len(o) + 1) : u[i] = IF i <= Len(o) THEN Origin(o[i]) ELSE c
      BY <1>1, <2>3, <3>2
    <3>4. u = [i \in 1..(Len(o) + 1) |-> u[i]]
      BY <1>1, <3>1
    <3>5. u = [i \in 1..(Len(o) + 1) |-> IF i <= Len(o) THEN Origin(o[i]) ELSE c]
      BY <3>3, <3>4
    <3> QED
      BY <3>5 DEF u
  <2> QED
    BY <2>2, <2>5 DEF c
<1> HIDE DEF ss
<1>6. FlattenSeq(ss) \in Seq(S) /\ FlattenSeq(Append(ss, Origin(p))) = FlattenSeq(ss) \o Origin(p)
  <2> HIDE DEF S
  <2> QED
    BY <1>3, <1>4, FlattenOfAppend
<1>7. Texts(o) = FlattenSeq(ss) /\ Texts(q) = FlattenSeq(tt)
  BY DEF Texts, ss
<1> HIDE DEF tt, q
<1>8. Texts(o) \in Seq(S) /\ Texts(q) = Texts(o) \o Origin(p)
  BY <1>5, <1>6, <1>7
<1> QED
  BY <1>8 DEF q

\* Where the next character of the unescaped format is.
Following(format, i) == IF format[i] = "%" /\ Char(format, i + 1) = "%" THEN i + 2 ELSE i + 1

\* u[i] is the format from i on, with %% written as one percent.
IsUnescaping(u, format) ==
  /\ \A i \in 1..(Len(format) + 1) : u[i] \in Seq(Chars)
  /\ u[Len(format) + 1] = <<>>
  /\ \A i \in 1..Len(format) : u[i] = <<format[i]>> \o u[Following(format, i)]

\* It is further on, and not behind the NUL.
LEMMA FollowingFacts ==
  ASSUME NEW format, IsFormat(format), NEW i \in 1..Len(format)
  PROVE  Following(format, i) \in (i + 1)..(Len(format) + 1)
<1>1. Len(format) \in Nat
  BY CharFacts
<1>2. CASE i + 1 <= Len(format)
  BY <1>1, <1>2 DEF Following
<1>3. CASE i + 1 > Len(format)
  <2>1. i + 1 \in Nat
    BY <1>1
  <2>2. Char(format, i + 1) = NUL
    BY <1>3, <2>1, CharFacts
  <2>3. Following(format, i) = i + 1
    BY <2>2 DEF Following, NUL
  <2> QED
    BY <1>1, <2>3
<1> QED
  BY <1>1, <1>2, <1>3

\* The recursion of Unescaping has the value it is written to have.
LEMMA UnescapingFacts ==
  ASSUME NEW format, IsFormat(format)
  PROVE  IsUnescaping(Unescaping(format), format)
<1> DEFINE N == Len(format)
           X == 1..(N + 1)
           Z == {N + 1}
           rank == [i \in X |-> N + 1 - i]
           pred == [i \in X |-> Following(format, i)]
           V == Seq(Chars)
           B == [i \in X |-> <<>>]
           G == [i \in X |-> [v \in V |-> <<format[i]>> \o v]]
           Def(g) == [i \in X |-> IF i > N THEN <<>>
                                  ELSE <<format[i]>>
                                         \o g[IF format[i] = "%" /\ Char(format, i + 1) = "%"
                                               THEN i + 2 ELSE i + 1]]
           f == CHOOSE g : g = Def(g)
<1>1. N \in Nat /\ \A i \in 1..N : format[i] \in Chars
  BY CharFacts
<1>2. \A i \in X \ Z : i \in 1..N
  BY <1>1
<1>3. ASSUME NEW i \in X \ Z
      PROVE  /\ pred[i] = Following(format, i) /\ pred[i] \in X
             /\ rank[pred[i]] < rank[i] /\ format[i] \in Chars
  <2>1. i \in 1..N /\ pred[i] = Following(format, i)
    BY <1>2
  <2>2. Following(format, i) \in (i + 1)..(N + 1)
    BY <2>1, FollowingFacts
  <2> QED
    BY <1>1, <2>1, <2>2
<1>4. GoesDown(X, Z, rank, pred)
  <2>1. rank \in [X -> 0..N]
    BY <1>1
  <2> HIDE DEF X, Z, rank, pred
  <2> QED
    BY <1>1, <1>3, <2>1 DEF GoesDown
<1>5. \A c \in Chars, v \in V : <<c>> \o v \in V
  OBVIOUS
<1>6. \A i \in X, v \in V : G[i][v] = <<format[i]>> \o v
  OBVIOUS
<1>7. ASSUME NEW g
      PROVE  Def(g) = [i \in X |-> IF i \in Z THEN <<>> ELSE <<format[i]>> \o g[pred[i]]]
  <2>1. ASSUME NEW i \in X
        PROVE  Def(g)[i] = IF i \in Z THEN <<>> ELSE <<format[i]>> \o g[pred[i]]
    <3>1. i > N <=> i \in Z
      BY <1>1
    <3>2. pred[i] = IF format[i] = "%" /\ Char(format, i + 1) = "%" THEN i + 2 ELSE i + 1
      BY DEF Following
    <3> HIDE DEF pred, Z
    <3> QED
      BY <3>1, <3>2
  <2> HIDE DEF pred, Z, X, N
  <2> QED
    BY <2>1
<1>8. \E g : g = Def(g)
  <2>1. Makes(X, Z, B, G, V)
    <3>1. \A i \in X : B[i] \in V
      OBVIOUS
    <3>2. \A i \in X \ Z, v \in V : G[i][v] \in V
      <4> HIDE DEF X, Z, G, V, pred, rank
      <4> QED
        BY <1>3, <1>5, <1>6
    <3> HIDE DEF X, Z, B, G, V
    <3> QED
      BY <3>1, <3>2 DEF Makes
  <2>2. PICK g : IsRecursion(g, X, Z, pred, B, G, V)
    <3> HIDE DEF X, Z, rank, pred, B, G, V
    <3> QED
      BY <1>4, <2>1, RecursiveFunction
  <2>3. ASSUME NEW i \in X PROVE g[i] = IF i \in Z THEN <<>> ELSE <<format[i]>> \o g[pred[i]]
    <3>1. g[i] = IF i \in Z THEN B[i] ELSE G[i][g[pred[i]]]
      BY <2>2 DEF IsRecursion
    <3>2. B[i] = <<>>
      OBVIOUS
    <3>3. CASE i \notin Z
      <4>1. g[pred[i]] \in V
        <5> HIDE DEF X, Z, V, pred, rank
        <5> QED
          BY <1>3, <2>2, <3>3 DEF IsRecursion
      <4> HIDE DEF G, V
      <4> QED
        BY <1>6, <3>1, <3>3, <4>1
    <3> HIDE DEF G, B
    <3> QED
      BY <3>1, <3>2, <3>3
  <2>4. g = [i \in X |-> g[i]]
    BY <2>2 DEF IsRecursion
  <2>5. g = Def(g)
    <3> HIDE DEF X, Z, pred, Def
    <3> QED
      BY <1>7, <2>3, <2>4
  <2> QED
    BY <2>5
<1>9. f = Def(f)
  <2> HIDE DEF Def
  <2> QED
    BY <1>8, Zenon
<1>10. Unescaping(format) = f
  BY DEF Unescaping
<1> HIDE DEF f
<1>11. \A i \in X : f[i] = IF i \in Z THEN <<>> ELSE <<format[i]>> \o f[pred[i]]
  <2>1. f = [i \in X |-> IF i \in Z THEN <<>> ELSE <<format[i]>> \o f[pred[i]]]
    BY <1>7, <1>9
  <2> HIDE DEF X, Z, pred
  <2> QED
    BY <2>1
<1>12. X \subseteq {i \in X : f[i] \in V}
  <2> DEFINE T == {i \in X : f[i] \in V}
  <2>1. <<>> \in V
    OBVIOUS
  <2>2. IsInherited(T, X, Z, pred)
    <3> HIDE DEF X, Z, pred, V, rank
    <3> QED
      BY <1>3, <1>5, <1>11, <2>1 DEF IsInherited
  <2> HIDE DEF X, Z, pred, V, rank, T
  <2>3. X \subseteq T
    BY <1>4, <2>2, Induction
  <2> QED
    BY <2>3 DEF T
<1>13. f[N + 1] = <<>>
  <2>1. N + 1 \in X /\ N + 1 \in Z
    BY <1>1
  <2> QED
    BY <1>11, <2>1
<1>14. \A i \in 1..N : f[i] = <<format[i]>> \o f[Following(format, i)]
  <2> SUFFICES ASSUME NEW i \in 1..N PROVE f[i] = <<format[i]>> \o f[Following(format, i)]
    OBVIOUS
  <2>1. i \in X /\ i \notin Z /\ pred[i] = Following(format, i)
    BY <1>1
  <2> HIDE DEF pred
  <2> QED
    BY <1>11, <2>1
<1> QED
  BY <1>10, <1>12, <1>13, <1>14 DEF IsUnescaping

\* A character stands for itself.
LEMMA PieceOfCharacter ==
  ASSUME NEW format, IsFormat(format), NEW i \in 1..Len(format)
  PROVE  /\ <<format[i], 0, <<>>>> \in Pieces
         /\ Origin(<<format[i], 0, <<>>>>) = <<format[i]>>
<1>1. format[i] \in Chars /\ format[i] # "0x"
  BY CharFacts
<1>2. <<>> \in Seq(Int)
  OBVIOUS
<1> QED
  BY <1>1, <1>2, OriginFacts DEF Pieces

\* A run stands for its first character and the format behind it.
LEMMA RunIsKept ==
  ASSUME NEW format, IsFormat(format), NEW i \in 1..Len(format), NEW o \in Seq(Pieces),
         NEW u, IsUnescaping(u, format)
  PROVE  LET j == RunEnd(format, i)
         IN  Texts(o \o Literally(format, i, j)) \o u[j]
               = Texts(o) \o (<<format[i]>> \o u[i + 1])
<1> DEFINE j == RunEnd(format, i)
           M == j - (i + 1)
           S == Seq(Chars)
           all == Texts(o) \o (<<format[i]>> \o u[i + 1])
           P(m) == o \o Literally(format, i, m)
           T == {k \in 0..M : Texts(P(i + 1 + k)) \o u[i + 1 + k] = all}
<1>1. /\ Len(format) \in Nat /\ j \in (i + 1)..(Len(format) + 1)
      /\ \A k \in (i + 1)..(j - 1) : format[k] # "%"
  BY CharFacts, RunEndFacts
<1>2. /\ \A k \in 1..(Len(format) + 1) : u[k] \in S
      /\ \A k \in 1..Len(format) : u[k] = <<format[k]>> \o u[Following(format, k)]
  BY DEF IsUnescaping
<1>3. ASSUME NEW m \in i..Len(format)
      PROVE  /\ P(m) \in Seq(Pieces) /\ Texts(P(m)) \in S /\ <<format[m]>> \in S
             /\ Texts(P(m + 1)) = Texts(P(m)) \o <<format[m]>>
  <2> DEFINE p == <<format[m], 0, <<>>>>
             l == Literally(format, i, m)
  <2>1. m \in 1..Len(format) /\ m \in i..(Len(format) + 1) /\ m <= Len(format)
    BY <1>1
  <2>2. p \in Pieces /\ Origin(p) = <<format[m]>> /\ format[m] \in Chars
    BY <2>1, PieceOfCharacter, CharFacts
  <2>3. l \in Seq(Pieces) /\ Literally(format, i, m + 1) = Append(l, p)
    BY <2>1, LiterallyFacts
  <2> HIDE DEF p, l
  <2>4. o \o Append(l, p) = Append(o \o l, p) /\ o \o l \in Seq(Pieces)
    BY <2>2, <2>3
  <2>5. Texts(o \o l) \in S /\ Texts(Append(o \o l, p)) = Texts(o \o l) \o Origin(p)
    BY <2>2, <2>4, TextsOfAppend
  <2>6. <<format[m]>> \in S
    BY <2>2
  <2> QED
    BY <2>2, <2>3, <2>4, <2>5, <2>6 DEF l
<1>4. 0 \in T
  <2>1. i \in i..Len(format) /\ i + 1 \in 1..(Len(format) + 1) /\ i + 1 + 0 = i + 1 /\ M \in Nat
    BY <1>1
  <2>2. Literally(format, i, i) = <<>>
    <3>1. i \in i..(Len(format) + 1) /\ i - i = 0
      BY <1>1
    <3> QED
      BY <3>1, LiterallyFacts
  <2>3. P(i) = o
    BY <2>2
  <2>4. Texts(P(i + 1)) = Texts(o) \o <<format[i]>> /\ Texts(o) \in S /\ <<format[i]>> \in S
    BY <1>3, <2>1, <2>3
  <2>5. u[i + 1] \in S
    BY <1>2, <2>1
  <2>6. (Texts(o) \o <<format[i]>>) \o u[i + 1] = all
    <3> DEFINE a == Texts(o)
               b == <<format[i]>>
               c == u[i + 1]
    <3>1. a \in Seq(Chars) /\ b \in Seq(Chars) /\ c \in Seq(Chars)
      BY <2>4, <2>5
    <3> HIDE DEF a, b, c
    <3>2. (a \o b) \o c = a \o (b \o c)
      BY <3>1, ConcatAssociative, SMTT(30)
    <3> QED
      BY <3>2 DEF a, b, c
  <2> HIDE DEF P, all, S, M
  <2>7. Texts(P(i + 1)) \o u[i + 1] = all
    BY <2>4, <2>6
  <2>8. Texts(P(i + 1 + 0)) \o u[i + 1 + 0] = all
    BY <2>1, <2>7
  <2>9. 0 \in 0..M
    BY <2>1
  <2> QED
    BY <2>8, <2>9
<1>5. ASSUME NEW k \in 1..M, k - 1 \in T PROVE k \in T
  <2> DEFINE m == i + k
  <2>1. /\ m \in i..Len(format) /\ m \in 1..Len(format) /\ i + 1 + (k - 1) = m
        /\ i + 1 + k = m + 1 /\ m + 1 \in 1..(Len(format) + 1) /\ k \in 0..M
        /\ m \in (i + 1)..(j - 1)
    BY <1>1
  <2> HIDE DEF m
  <2>2. Texts(P(m)) \o u[m] = all
    <3> HIDE DEF P, all, M
    <3> QED
      BY <1>5, <2>1
  <2>3. u[m] = <<format[m]>> \o u[m + 1]
    <3>1. Following(format, m) = m + 1
      BY <1>1, <2>1 DEF Following
    <3> QED
      BY <1>2, <2>1, <3>1
  <2>4. /\ Texts(P(m)) \in S /\ <<format[m]>> \in S /\ u[m + 1] \in S
        /\ Texts(P(m + 1)) = Texts(P(m)) \o <<format[m]>>
    BY <1>2, <1>3, <2>1
  <2>5. (Texts(P(m)) \o <<format[m]>>) \o u[m + 1] = Texts(P(m)) \o (<<format[m]>> \o u[m + 1])
    <3> DEFINE a == Texts(P(m))
               b == <<format[m]>>
               c == u[m + 1]
    <3>1. a \in Seq(Chars) /\ b \in Seq(Chars) /\ c \in Seq(Chars)
      BY <2>4
    <3> HIDE DEF a, b, c, M, T, P, S, all, j
    <3>2. (a \o b) \o c = a \o (b \o c)
      BY <3>1, ConcatAssociative, SMTT(30)
    <3> QED
      BY <3>2 DEF a, b, c
  <2> HIDE DEF P, all, M, S
  <2>6. Texts(P(m + 1)) \o u[m + 1] = all
    BY <2>2, <2>3, <2>4, <2>5
  <2> QED
    BY <2>1, <2>6
<1>6. M \in T
  <2>1. M \in Nat
    BY <1>1
  <2> HIDE DEF T, M
  <2>2. 0..M \subseteq T
    BY <1>4, <1>5, <2>1, Upwards
  <2> QED
    BY <2>1, <2>2
<1>7. i + 1 + M = j
  BY <1>1
<1>8. Texts(P(j)) \o u[j] = all
  <2> HIDE DEF P, all, j, M
  <2> QED
    BY <1>6, <1>7
<1> QED
  BY <1>8

-----------------------------------------------------------------------------
(* The walk of vprintf.                                                    *)

\* Where vprintf can be: character, arguments taken, bad specifier seen.
Walks(format) == (1..(Len(format) + 1)) \X Nat \X BOOLEAN

\* A number behind the arguments has some text too, which no call asks for.
Printable(format, args) ==
  Pieces \union {<<Char(format, w[1] + 1), w[2] + 1,
                   Numeral(Char(format, w[1] + 1), args[w[2] + 1])>> : w \in Walks(format)}

\* What vprintf prints next, and where it is then.
Ahead(format, args, w) ==
  LET c == Char(format, w[1])
      d == Char(format, w[1] + 1)
  IN IF c # "%" THEN Literally(format, w[1], RunEnd(format, w[1]))
     ELSE IF d = "%" THEN Literally(format, w[1] + 1, RunEnd(format, w[1] + 1))
     ELSE IF w[3] \/ d \notin Specifiers THEN Literally(format, w[1], RunEnd(format, w[1]))
     ELSE (IF d = "x" THEN <<Hex>> ELSE <<>>)
            \o <<<<d, w[2] + 1, Numeral(d, args[w[2] + 1])>>>>

After(format, w) ==
  LET c == Char(format, w[1])
      d == Char(format, w[1] + 1)
  IN IF c # "%" THEN <<RunEnd(format, w[1]), w[2], w[3]>>
     ELSE IF d = "%" THEN <<RunEnd(format, w[1] + 1), w[2], w[3]>>
     ELSE IF w[3] \/ d \notin Specifiers THEN <<RunEnd(format, w[1]), w[2], TRUE>>
     ELSE <<w[1] + 2, w[2] + 1, w[3]>>

\* v[w] is what vprintf prints from w on.
IsPrinting(v, format, args) ==
  /\ \A w \in Walks(format) : v[w] \in Seq(Printable(format, args))
  /\ \A w \in Walks(format) :
       v[w] = IF Char(format, w[1]) = NUL THEN <<>>
              ELSE Ahead(format, args, w) \o v[After(format, w)]

\* The runs of a format are printable.
LEMMA RunsArePrintable ==
  ASSUME NEW format, IsFormat(format), NEW args, NEW i \in 1..Len(format)
  PROVE  Literally(format, i, RunEnd(format, i)) \in Seq(Printable(format, args))
<1> DEFINE l == Literally(format, i, RunEnd(format, i))
<1>1. RunEnd(format, i) \in i..(Len(format) + 1)
  <2>1. RunEnd(format, i) \in (i + 1)..(Len(format) + 1) /\ Len(format) \in Nat
    BY RunEndFacts, CharFacts
  <2> QED
    BY <2>1
<1>2. l \in Seq(Pieces)
  BY <1>1, LiterallyFacts
<1>3. Pieces \subseteq Printable(format, args)
  BY DEF Printable
<1> HIDE DEF l
<1>4. l \in Seq(Printable(format, args))
  BY <1>2, <1>3
<1> QED
  BY <1>4 DEF l

\* vprintf gets on with each step of its walk, and prints what is printable.
LEMMA AfterFacts ==
  ASSUME NEW format, IsFormat(format), NEW args, NEW w \in Walks(format),
         Char(format, w[1]) # NUL
  PROVE  /\ After(format, w) \in Walks(format)
         /\ After(format, w)[1] > w[1]
         /\ Ahead(format, args, w) \in Seq(Printable(format, args))
<1> DEFINE N == Len(format)
           i == w[1]
           k == w[2]
           r == w[3]
           c == Char(format, i)
           d == Char(format, i + 1)
           R == Printable(format, args)
           p == <<d, k + 1, Numeral(d, args[k + 1])>>
<1> SUFFICES /\ After(format, w) \in Walks(format) /\ After(format, w)[1] > i
             /\ Ahead(format, args, w) \in Seq(R)
  OBVIOUS
<1>1. i \in 1..(N + 1) /\ k \in Nat /\ r \in BOOLEAN /\ N \in Nat
  BY CharFacts DEF Walks
<1>2. i \in 1..N
  <2>1. i \in Nat /\ (i > N => c = NUL)
    BY <1>1, CharFacts
  <2> QED
    BY <1>1, <2>1
<1>3. d # NUL => i + 1 \in 1..N
  <2>1. i + 1 \in Nat /\ (i + 1 > N => d = NUL)
    BY <1>1, CharFacts
  <2> QED
    BY <1>1, <2>1
<1>4. \A j \in 1..N : RunEnd(format, j) \in (j + 1)..(N + 1)
  BY RunEndFacts
<1>5. \A j \in 1..N : Literally(format, j, RunEnd(format, j)) \in Seq(R)
  BY RunsArePrintable
<1>6. p \in R /\ Hex \in R
  <2>1. p \in R
    BY DEF Printable
  <2> QED
    BY <2>1, OriginFacts DEF Printable
<1>7. \A x \in 1..(N + 1), y \in Nat, z \in BOOLEAN : /\ <<x, y, z>> \in Walks(format)
                                                           /\ <<x, y, z>>[1] = x
  BY DEF Walks
<1> HIDE DEF R, p
<1>8. CASE c # "%"
  <2>1. /\ After(format, w) = <<RunEnd(format, i), k, r>>
        /\ Ahead(format, args, w) = Literally(format, i, RunEnd(format, i))
    BY <1>8 DEF After, Ahead
  <2>2. RunEnd(format, i) \in (i + 1)..(N + 1)
    BY <1>2, <1>4
  <2>3. RunEnd(format, i) \in 1..(N + 1) /\ RunEnd(format, i) > i
    BY <1>1, <2>2
  <2> HIDE DEF i, k, r, c, d, N
  <2> QED
    BY <1>1, <1>2, <1>5, <1>7, <2>1, <2>3
<1>9. CASE c = "%" /\ d = "%"
  <2>1. /\ After(format, w) = <<RunEnd(format, i + 1), k, r>>
        /\ Ahead(format, args, w) = Literally(format, i + 1, RunEnd(format, i + 1))
    BY <1>9 DEF After, Ahead
  <2>2. i + 1 \in 1..N
    BY <1>3, <1>9 DEF NUL
  <2>3. RunEnd(format, i + 1) \in (i + 2)..(N + 1)
    <3>1. (i + 1) + 1 = i + 2
      BY <1>1
    <3> QED
      BY <1>4, <2>2, <3>1
  <2>4. RunEnd(format, i + 1) \in 1..(N + 1) /\ RunEnd(format, i + 1) > i
    BY <1>1, <2>3
  <2> HIDE DEF i, k, r, c, d, N
  <2> QED
    BY <1>1, <1>5, <1>7, <2>1, <2>2, <2>4
<1>10. CASE c = "%" /\ d # "%" /\ (r \/ d \notin Specifiers)
  <2>1. /\ After(format, w) = <<RunEnd(format, i), k, TRUE>>
        /\ Ahead(format, args, w) = Literally(format, i, RunEnd(format, i))
    BY <1>10 DEF After, Ahead
  <2>2. RunEnd(format, i) \in (i + 1)..(N + 1)
    BY <1>2, <1>4
  <2>3. RunEnd(format, i) \in 1..(N + 1) /\ RunEnd(format, i) > i /\ TRUE \in BOOLEAN
    BY <1>1, <2>2
  <2> HIDE DEF i, k, r, c, d, N
  <2> QED
    BY <1>1, <1>2, <1>5, <1>7, <2>1, <2>3
<1>11. CASE c = "%" /\ d # "%" /\ ~r /\ d \in Specifiers
  <2>1. /\ After(format, w) = <<i + 2, k + 1, r>>
        /\ Ahead(format, args, w) = (IF d = "x" THEN <<Hex>> ELSE <<>>) \o <<p>>
    BY <1>11 DEF After, Ahead, p
  <2>2. i + 1 \in 1..N
    BY <1>3, <1>11 DEF Specifiers, Numbers, NUL
  <2>3. i + 2 \in 1..(N + 1) /\ i + 2 > i /\ k + 1 \in Nat
    BY <1>1, <2>2
  <2>4. (IF d = "x" THEN <<Hex>> ELSE <<>>) \o <<p>> \in Seq(R)
    BY <1>6
  <2> HIDE DEF i, k, r, c, d, N
  <2> QED
    BY <1>1, <1>7, <2>1, <2>3, <2>4
<1> QED
  BY <1>1, <1>8, <1>9, <1>10, <1>11

\* The recursion of Printing has the value it is written to have.
LEMMA PrintingFacts ==
  ASSUME NEW format, IsFormat(format), NEW args
  PROVE  IsPrinting(Printing(format, args), format, args)
<1> DEFINE N == Len(format)
           X == Walks(format)
           Z == {w \in X : Char(format, w[1]) = NUL}
           rank == [w \in X |-> N + 1 - w[1]]
           pred == [w \in X |-> After(format, w)]
           V == Seq(Printable(format, args))
           B == [w \in X |-> <<>>]
           G == [w \in X |-> [v \in V |-> Ahead(format, args, w) \o v]]
           Def(g) ==
             [w \in (1..(N + 1)) \X Nat \X BOOLEAN |->
                LET i == w[1]
                    k == w[2]
                    reject == w[3]
                    c == Char(format, i)
                    d == Char(format, i + 1)
                    literal(j) == Literally(format, j, RunEnd(format, j))
                IN CASE c = NUL -> <<>>
                     [] c \notin {NUL, "%"} -> literal(i) \o g[<<RunEnd(format, i), k, reject>>]
                     [] c = "%" /\ d = "%" ->
                          literal(i + 1) \o g[<<RunEnd(format, i + 1), k, reject>>]
                     [] c = "%" /\ d # "%" /\ (reject \/ d \notin Specifiers) ->
                          literal(i) \o g[<<RunEnd(format, i), k, TRUE>>]
                     [] OTHER ->
                          (IF d = "x" THEN <<Hex>> ELSE <<>>)
                            \o <<<<d, k + 1, Numeral(d, args[k + 1])>>>>
                            \o g[<<i + 2, k + 1, reject>>]]
           f == CHOOSE g : g = Def(g)
<1>1. N \in Nat /\ \A w \in X : w[1] \in 1..(N + 1)
  BY CharFacts DEF Walks
<1>2. ASSUME NEW w \in X \ Z
      PROVE  /\ pred[w] = After(format, w) /\ pred[w] \in X
             /\ rank[pred[w]] < rank[w] /\ Ahead(format, args, w) \in V
  <2>1. /\ After(format, w) \in X /\ After(format, w)[1] > w[1]
        /\ Ahead(format, args, w) \in V
    BY AfterFacts
  <2>2. pred[w] = After(format, w)
    OBVIOUS
  <2>3. pred[w] \in X /\ pred[w][1] > w[1]
    BY <2>1, <2>2
  <2>4. \A x \in X : rank[x] = N + 1 - x[1]
    OBVIOUS
  <2> HIDE DEF pred, rank, X
  <2> QED
    BY <1>1, <2>1, <2>2, <2>3, <2>4
<1>3. GoesDown(X, Z, rank, pred)
  <2>1. rank \in [X -> 0..N]
    BY <1>1
  <2> HIDE DEF X, Z, rank, pred
  <2> QED
    BY <1>1, <1>2, <2>1 DEF GoesDown
<1>4. \A l, v \in V : l \o v \in V
  OBVIOUS
<1>5. \A w \in X, v \in V : G[w][v] = Ahead(format, args, w) \o v
  OBVIOUS
<1>6. ASSUME NEW g
      PROVE  Def(g) = [w \in X |-> IF w \in Z THEN <<>>
                                   ELSE Ahead(format, args, w) \o g[pred[w]]]
  <2>1. ASSUME NEW w \in X
        PROVE  Def(g)[w] = IF w \in Z THEN <<>> ELSE Ahead(format, args, w) \o g[pred[w]]
    <3> DEFINE i == w[1]
               k == w[2]
               r == w[3]
               c == Char(format, i)
               d == Char(format, i + 1)
    <3>1. pred[w] = After(format, w) /\ (w \in Z <=> c = NUL) /\ w \in (1..(N + 1)) \X Nat \X BOOLEAN
      BY DEF Walks
    <3>2. NUL # "%"
      BY DEF NUL
    <3> HIDE DEF pred, Z, X
    <3>3. CASE c = NUL
      BY <3>1, <3>2, <3>3
    <3>4. CASE c # NUL /\ c # "%"
      <4>1. Def(g)[w] = Literally(format, i, RunEnd(format, i)) \o g[<<RunEnd(format, i), k, r>>]
        BY <3>1, <3>4
      <4> HIDE DEF Def
      <4> QED
        BY <3>1, <3>4, <4>1 DEF Ahead, After
    <3>5. CASE c = "%" /\ d = "%"
      <4>1. Def(g)[w] = Literally(format, i + 1, RunEnd(format, i + 1))
                          \o g[<<RunEnd(format, i + 1), k, r>>]
        BY <3>1, <3>2, <3>5
      <4> HIDE DEF Def
      <4> QED
        BY <3>1, <3>2, <3>5, <4>1 DEF Ahead, After
    <3>6. CASE c = "%" /\ d # "%" /\ (r \/ d \notin Specifiers)
      <4>1. Def(g)[w] = Literally(format, i, RunEnd(format, i)) \o g[<<RunEnd(format, i), k, TRUE>>]
        BY <3>1, <3>2, <3>6
      <4> HIDE DEF Def
      <4> QED
        BY <3>1, <3>2, <3>6, <4>1 DEF Ahead, After
    <3>7. CASE c = "%" /\ d # "%" /\ ~r /\ d \in Specifiers
      <4>1. Def(g)[w] = (IF d = "x" THEN <<Hex>> ELSE <<>>)
                          \o <<<<d, k + 1, Numeral(d, args[k + 1])>>>>
                          \o g[<<i + 2, k + 1, r>>]
        BY <3>1, <3>2, <3>7
      <4> HIDE DEF Def
      <4> QED
        BY <3>1, <3>2, <3>7, <4>1 DEF Ahead, After
    <3> HIDE DEF Def
    <3> QED
      BY <3>3, <3>4, <3>5, <3>6, <3>7
  <2>2. X = (1..(N + 1)) \X Nat \X BOOLEAN
    BY DEF Walks
  <2>3. Def(g) = [w \in X |-> Def(g)[w]]
    <3> HIDE DEF X
    <3> QED
      BY <2>2
  <2> HIDE DEF Def, pred, Z, X, N
  <2> QED
    BY <2>1, <2>3
<1> HIDE DEF Def
<1>7. \E g : g = Def(g)
  <2>1. Makes(X, Z, B, G, V)
    <3>1. \A w \in X : B[w] \in V
      OBVIOUS
    <3>2. \A w \in X \ Z, v \in V : G[w][v] \in V
      <4> HIDE DEF X, Z, G, V, pred, rank
      <4> QED
        BY <1>2, <1>4, <1>5
    <3> HIDE DEF X, Z, B, G, V
    <3> QED
      BY <3>1, <3>2 DEF Makes
  <2>2. PICK g : IsRecursion(g, X, Z, pred, B, G, V)
    <3> HIDE DEF X, Z, rank, pred, B, G, V
    <3> QED
      BY <1>3, <2>1, RecursiveFunction
  <2>3. ASSUME NEW w \in X
        PROVE  g[w] = IF w \in Z THEN <<>> ELSE Ahead(format, args, w) \o g[pred[w]]
    <3>1. g[w] = IF w \in Z THEN B[w] ELSE G[w][g[pred[w]]]
      BY <2>2 DEF IsRecursion
    <3>2. B[w] = <<>>
      OBVIOUS
    <3>3. CASE w \notin Z
      <4>1. g[pred[w]] \in V
        <5> HIDE DEF X, Z, V, pred, rank
        <5> QED
          BY <1>2, <2>2, <3>3 DEF IsRecursion
      <4> HIDE DEF G, V
      <4> QED
        BY <1>5, <3>1, <3>3, <4>1
    <3> HIDE DEF G, B
    <3> QED
      BY <3>1, <3>2, <3>3
  <2>4. g = [w \in X |-> g[w]]
    BY <2>2 DEF IsRecursion
  <2>5. g = Def(g)
    <3> HIDE DEF X, Z, pred
    <3> QED
      BY <1>6, <2>3, <2>4
  <2> QED
    BY <2>5
<1>8. f = Def(f)
  BY <1>7, Zenon
<1>9. Printing(format, args) = f
  BY DEF Printing, Def
<1> HIDE DEF f
<1>10. \A w \in X : f[w] = IF w \in Z THEN <<>> ELSE Ahead(format, args, w) \o f[pred[w]]
  <2>1. f = [w \in X |-> IF w \in Z THEN <<>> ELSE Ahead(format, args, w) \o f[pred[w]]]
    BY <1>6, <1>8
  <2> HIDE DEF X, Z, pred
  <2> QED
    BY <2>1
<1>11. \A w \in X : f[w] \in V
  <2> DEFINE T == {w \in X : f[w] \in V}
  <2>1. <<>> \in V
    OBVIOUS
  <2>2. IsInherited(T, X, Z, pred)
    <3> HIDE DEF X, Z, pred, V, rank
    <3> QED
      BY <1>2, <1>4, <1>10, <2>1 DEF IsInherited
  <2> HIDE DEF X, Z, pred, V, rank, T
  <2>3. X \subseteq T
    BY <1>3, <2>2, Induction
  <2> QED
    BY <2>3 DEF T
<1>12. \A w \in X : f[w] = IF Char(format, w[1]) = NUL THEN <<>>
                           ELSE Ahead(format, args, w) \o f[After(format, w)]
  BY <1>10
<1> QED
  BY <1>9, <1>11, <1>12 DEF IsPrinting

-----------------------------------------------------------------------------
(* The inductive invariant.                                                *)

\* The number whose digits are the text of a conversion, and that text.
Size == IF fn \in Signed THEN IF given < 0 THEN -given ELSE given ELSE given % WIDTH
Text == IF fn = "itoa" /\ given < 0 THEN <<MINUS>> \o Digits(Size, base) ELSE Digits(Size, base)

\* There is such a text: not for the least int.
Exact == ~(fn \in Signed /\ given = INT_MIN)

\* The types of Numerals' variables.
ConversionType ==
  /\ fn \in {"itoa", "utoa", "ltoa", "ultoa"} /\ given \in Ints /\ base \in {8, 10, 16}
  /\ num \in Int /\ sign \in Int /\ buffer \in Seq(Int)
  /\ step \in {"sign", "digits", "end", "done"}

\* The digits in buffer are the last of those of the number, in reverse; the others
\* are those of num.
Converting ==
  /\ step = "sign" => fn \in Signed /\ num = given /\ buffer = <<>>
  /\ step = "digits" => /\ num \in 0..(WIDTH - 1) /\ (fn = "itoa" => sign = given)
                        /\ Digits(Size, base) = Digits(num, base) \o Reverse(buffer)
  /\ step = "end" => /\ fn = "itoa" => sign = given
                     /\ Digits(Size, base) = Reverse(buffer)
  /\ step = "done" => buffer = Text \/ (buffer = <<>> /\ pc # "converting")

\* The types of Printf's variables.
WalkType ==
  /\ call \in Calls /\ at \in 1..(Len(call.format) + 1) /\ rejected \in BOOLEAN
  /\ taken \in Nat /\ out \in Seq(Pieces) /\ pc \in {"while", "converting", "returned"}

\* Two characters for each argument taken, and the conversion is that of the specifier.
AtSpecifier ==
  /\ pc # "converting" => 2 * taken <= at - 1
  /\ pc = "converting" => /\ 2 * taken <= at + 1 /\ taken > 0
                          /\ Now = "%" /\ Specifier \in Numbers /\ rejected = FALSE
                          /\ fn = Converter[Specifier] /\ base = Radius[Specifier]
                          /\ given = call.args[taken]
  /\ pc = "returned" => Now = NUL

\* What was printed and what is to come are the format.
Kept ==
  LET u == Unescaping(call.format)
  IN /\ pc # "converting" => Texts(out) \o u[at] = u[1]
     /\ pc = "converting" => Texts(out) \o (<<"%", Specifier>> \o u[at + 2]) = u[1]

\* The conversions in o have the arguments up to n in order.
Numbered(o, n) ==
  LET conversions == {i \in DOMAIN o : o[i][2] > 0}
  IN /\ \A i, j \in conversions : i < j => o[i][2] < o[j][2]
     /\ {o[i][2] : i \in conversions} = 1..n

\* The conversions printed so far have the arguments taken so far.
AllNumbered == Numbered(out, IF pc = "converting" THEN taken - 1 ELSE taken)

\* What was printed and what vprintf would print from here is what vprintf prints.
Copied ==
  LET v == Printing(call.format, call.args)
  IN /\ pc # "converting" => out \o v[<<at, taken, rejected>>] = v[<<1, 0, FALSE>>]
     /\ pc = "converting" =>
          out \o (<<<<Specifier, taken, Numeral(Specifier, call.args[taken])>>>>
                    \o v[<<at + 2, taken, rejected>>]) = v[<<1, 0, FALSE>>]

\* The least int has no counterpart: a conversion of it is claimed only to end in a text
\* of its place, and a call with it only to keep its format.
IInv ==
  /\ ConversionType /\ WalkType /\ AtSpecifier
  /\ Exact => Converting
  /\ Kept /\ AllNumbered
  /\ INT_MIN \notin Range(call.args) => Copied

-----------------------------------------------------------------------------
\* A call has a format, and an argument for every specifier that fits in it.
LEMMA CallFacts ==
  ASSUME NEW c \in Calls
  PROVE  /\ IsFormat(c.format)
         /\ c.args \in Seq(Ints) /\ 2 * Len(c.args) >= Len(c.format) - 1
<1>1. /\ c.format \in Seq(STRING) /\ {NUL, "0x"} \intersect Range(c.format) = {}
      /\ c.args \in Seq(Ints) /\ 2 * Len(c.args) >= Len(c.format) - 1
  BY PrintfAssumption
<1> DEFINE f == c.format
<1>2. ASSUME NEW i \in 1..Len(f) PROVE f[i] \in Range(f)
  <2>1. i \in DOMAIN f
    BY <1>1
  <2> QED
    BY <2>1 DEF Range
<1>3. NUL \notin Range(f) /\ "0x" \notin Range(f)
  <2>1. NUL \in {NUL, "0x"} /\ "0x" \in {NUL, "0x"}
    OBVIOUS
  <2> QED
    BY <1>1, <2>1, Zenon
<1>4. f \in Seq(Chars)
  <2> DEFINE S == STRING
  <2>1. f \in Seq(S) /\ S \subseteq Chars
    BY <1>1 DEF Chars
  <2> HIDE DEF f, S
  <2> QED
    BY <2>1
<1>5. \A i \in 1..Len(f) : f[i] # NUL /\ f[i] # "0x"
  <2> HIDE DEF f
  <2> QED
    BY <1>2, <1>3
<1> QED
  BY <1>1, <1>4, <1>5 DEF IsFormat

\* Half of the ints are negative.
LEMMA WidthFacts ==
  /\ WIDTH \in Nat /\ WIDTH > 0
  /\ WIDTH \div 2 \in Nat /\ WIDTH = 2 * (WIDTH \div 2) /\ WIDTH \div 2 > 0
<1>1. WIDTH \in Nat /\ WIDTH > 0 /\ WIDTH % 2 = 0
  BY NumeralsAssumption
<1> QED
  BY <1>1

\* Reverse of CommunityModules, of a text.
LEMMA ReverseIsSequence ==
  ASSUME NEW s \in Seq(Int)
  PROVE  Reverse(s) \in Seq(Int)
<1>1. \A i \in 1..Len(s) : (Len(s) - i) + 1 \in 1..Len(s)
  OBVIOUS
<1> QED
  BY <1>1 DEF Reverse

\* The last character comes first.
LEMMA ReverseFacts ==
  ASSUME NEW s \in Seq(Int), NEW d \in Int
  PROVE  /\ Reverse(Append(s, d)) = <<d>> \o Reverse(s)
         /\ Reverse(s \o <<d>>) = <<d>> \o Reverse(s)
         /\ Reverse(s \o <<>>) = Reverse(s)
<1> DEFINE N == Len(s)
           q == Append(s, d)
           r == [i \in 1..N |-> s[(N - i) + 1]]
<1>1. N \in Nat /\ \A i \in 1..N : s[i] \in Int
  OBVIOUS
<1>2. Reverse(s) = r /\ r \in Seq(Int) /\ Len(r) = N
  <2>1. \A i \in 1..N : (N - i) + 1 \in 1..N
    BY <1>1
  <2> QED
    BY <1>1, <2>1 DEF Reverse
<1>3. /\ q \in Seq(Int) /\ Len(q) = N + 1 /\ q[N + 1] = d
      /\ \A i \in 1..N : q[i] = s[i]
  OBVIOUS
<1>4. \A i \in 1..N : r[i] = s[(N - i) + 1]
  OBVIOUS
<1> HIDE DEF r, q, N
<1>5. Reverse(q) = [i \in 1..(N + 1) |-> q[((N + 1) - i) + 1]]
  BY <1>3 DEF Reverse
<1>6. <<d>> \o r = [i \in 1..(N + 1) |-> IF i = 1 THEN d ELSE r[i - 1]]
  BY <1>1, <1>2
<1>7. ASSUME NEW i \in 1..(N + 1)
      PROVE  q[((N + 1) - i) + 1] = IF i = 1 THEN d ELSE r[i - 1]
  <2>1. CASE i = 1
    BY <1>1, <1>3, <2>1
  <2>2. CASE i # 1
    <3>1. i - 1 \in 1..N /\ ((N + 1) - i) + 1 \in 1..N /\ (N - (i - 1)) + 1 = ((N + 1) - i) + 1
      BY <1>1, <2>2
    <3> QED
      BY <1>3, <1>4, <2>2, <3>1
  <2> QED
    BY <2>1, <2>2
<1>8. Reverse(q) = <<d>> \o r
  BY <1>5, <1>6, <1>7
<1>9. s \o <<d>> = q /\ s \o <<>> = s
  BY DEF q
<1> QED
  BY <1>2, <1>8, <1>9 DEF q

\* Where a specifier is understood there is an argument for it.
LEMMA ArgumentFacts ==
  ASSUME WalkType, pc # "converting", 2 * taken <= at - 1, Now = "%", Specifier \in Specifiers
  PROVE  /\ at \in 1..Len(call.format) /\ at + 1 \in 1..Len(call.format)
         /\ taken + 1 \in 1..Len(call.args) /\ va_arg \in Ints
         /\ Specifier = call.format[at + 1] /\ Specifier \in Chars
<1> DEFINE L == Len(call.format)
           A == Len(call.args)
<1>1. /\ at \in 1..(L + 1) /\ taken \in Nat /\ L \in Nat
      /\ IsFormat(call.format) /\ call.args \in Seq(Ints) /\ A \in Nat /\ 2 * A >= L - 1
  BY CallFacts, CharFacts DEF WalkType
<1>2. at + 1 \in Nat /\ (at + 1 > L => Specifier = NUL)
  BY <1>1, CharFacts DEF Specifier
<1>3. Specifier # NUL
  BY DEF Specifiers, Numbers, NUL
<1>4. at + 1 \in 1..L /\ at \in 1..L
  BY <1>1, <1>2, <1>3
<1>5. taken + 1 \in 1..A
  BY <1>1, <1>4
<1>6. va_arg \in Ints
  BY <1>1, <1>5 DEF va_arg
<1>7. Specifier = call.format[at + 1] /\ Specifier \in Chars
  BY <1>1, <1>4, CharFacts DEF Specifier
<1> QED
  BY <1>4, <1>5, <1>6, <1>7

\* The steps that print a run: from i, which is at or behind a percent.
Run(i) ==
  /\ i \in 1..Len(call.format) /\ pc = "while"
  /\ \/ i = at /\ Now \notin {NUL, "%"} /\ rejected' = rejected
     \/ i = at + 1 /\ Now = "%" /\ Specifier = "%" /\ rejected' = rejected
     \/ /\ i = at /\ Now = "%" /\ Specifier # "%" /\ rejected' = TRUE
        /\ rejected \/ Specifier \notin Specifiers
  /\ print_c(i)
  /\ UNCHANGED <<call, taken, pc, conversion>>

\* Each of the three steps of print_c prints a run.
LEMMA RunSteps ==
  ASSUME WalkType, PlainText \/ PercentPercent \/ Incomprehensible
  PROVE  \E i : Run(i)
<1>1. at \in 1..(Len(call.format) + 1) /\ IsFormat(call.format) /\ Len(call.format) \in Nat
  BY CallFacts, CharFacts DEF WalkType
<1>2. \A i \in Nat : i > Len(call.format) => Char(call.format, i) = NUL
  BY <1>1, CharFacts
<1>3. Now # NUL => at \in 1..Len(call.format)
  BY <1>1, <1>2 DEF Now
<1>4. Specifier # NUL => at + 1 \in 1..Len(call.format)
  BY <1>1, <1>2 DEF Specifier
<1>5. "%" # NUL
  BY DEF NUL
<1>6. CASE PlainText
  <2>1. Run(at)
    BY <1>3, <1>6 DEF PlainText, Run
  <2> QED
    BY <2>1
<1>7. CASE PercentPercent
  <2>1. Run(at + 1)
    BY <1>4, <1>5, <1>7 DEF PercentPercent, SecondPercent, Run
  <2> QED
    BY <2>1
<1>8. CASE Incomprehensible
  <2>1. Run(at)
    BY <1>3, <1>5, <1>8 DEF Incomprehensible, Run
  <2> QED
    BY <2>1
<1> QED
  BY <1>6, <1>7, <1>8

\* What is printed by such a step, and where it leads.
LEMMA RunFacts ==
  ASSUME WalkType, NEW i, Run(i)
  PROVE  /\ IsFormat(call.format) /\ i \in 1..Len(call.format) /\ Len(call.format) \in Nat
         /\ RunEnd(call.format, i) \in (i + 1)..(Len(call.format) + 1)
         /\ Literally(call.format, i, RunEnd(call.format, i)) \in Seq(Pieces)
         /\ out' = out \o Literally(call.format, i, RunEnd(call.format, i))
         /\ at' = RunEnd(call.format, i) /\ at' \in 1..(Len(call.format) + 1) /\ at < at'
<1>1. /\ IsFormat(call.format) /\ Len(call.format) \in Nat /\ i \in 1..Len(call.format)
      /\ (i = at \/ i = at + 1) /\ at \in Nat
  BY CallFacts, CharFacts DEF WalkType, Run
<1>2. RunEnd(call.format, i) \in (i + 1)..(Len(call.format) + 1)
  BY <1>1, RunEndFacts
<1>3. RunEnd(call.format, i) \in i..(Len(call.format) + 1)
  BY <1>1, <1>2
<1>4. Literally(call.format, i, RunEnd(call.format, i)) \in Seq(Pieces)
  BY <1>1, <1>3, LiterallyFacts
<1>5. /\ out' = out \o Literally(call.format, i, RunEnd(call.format, i))
      /\ at' = RunEnd(call.format, i)
  BY DEF Run, print_c
<1>6. at' \in 1..(Len(call.format) + 1) /\ at < at'
  BY <1>1, <1>2, <1>5
<1> QED
  BY <1>1, <1>2, <1>4, <1>5, <1>6

-----------------------------------------------------------------------------
(* The invariant holds initially.                                          *)

\* No conversion was called and the whole format is to come.
LEMMA InitIInv == Init => IInv
<1> SUFFICES ASSUME Init PROVE IInv
  OBVIOUS
<1>1. /\ call \in Calls /\ at = 1 /\ rejected = FALSE /\ taken = 0 /\ out = <<>>
      /\ pc = "while"
      /\ fn = "utoa" /\ given = 0 /\ base = 10 /\ num = 0 /\ sign = 0 /\ buffer = <<>>
      /\ step = "done"
  BY DEF Init, Idle
<1>2. IsFormat(call.format) /\ Len(call.format) \in Nat
  BY <1>1, CallFacts, CharFacts
<1>3. ConversionType
  <2>1. 0 \in Ints
    BY WidthFacts DEF Ints, INT_MIN
  <2>2. <<>> \in Seq(Int)
    OBVIOUS
  <2> QED
    BY <1>1, <2>1, <2>2 DEF ConversionType
<1>4. WalkType
  <2>1. out \in Seq(Pieces)
    BY <1>1
  <2>2. at \in 1..(Len(call.format) + 1) /\ taken \in Nat
    BY <1>1, <1>2
  <2>3. rejected \in BOOLEAN
    BY <1>1
  <2> QED
    BY <1>1, <2>1, <2>2, <2>3 DEF WalkType
<1>5. AtSpecifier
  BY <1>1 DEF AtSpecifier
<1>6. Converting
  BY <1>1 DEF Converting
<1>7. Kept
  <2> DEFINE u == Unescaping(call.format)
             ss == [i \in DOMAIN out |-> Origin(out[i])]
  <2>1. ss = <<>> /\ Len(ss) = 0
    BY <1>1
  <2>2. Texts(out) = <<>>
    <3>1. Texts(out) = FlattenSeq(ss)
      BY DEF Texts
    <3> HIDE DEF ss
    <3> QED
      BY <2>1, <3>1 DEF FlattenSeq
  <2>3. u[1] \in Seq(Chars)
    <3>1. IsUnescaping(u, call.format) /\ 1 \in 1..(Len(call.format) + 1)
      BY <1>2, UnescapingFacts
    <3> HIDE DEF u
    <3> QED
      BY <3>1 DEF IsUnescaping
  <2> HIDE DEF u
  <2>4. Texts(out) \o u[at] = u[1]
    BY <1>1, <2>2, <2>3
  <2> QED
    BY <1>1, <2>4 DEF Kept, u
<1>8. AllNumbered
  <2>1. {i \in DOMAIN out : out[i][2] > 0} = {}
    BY <1>1
  <2> QED
    BY <1>1, <2>1 DEF AllNumbered, Numbered
<1>9. Copied
  <2> DEFINE v == Printing(call.format, call.args)
             w == <<1, 0, FALSE>>
             S == Printable(call.format, call.args)
  <2>1. IsPrinting(v, call.format, call.args)
    BY <1>2, PrintingFacts
  <2>2. w \in Walks(call.format)
    <3>1. 1 \in 1..(Len(call.format) + 1) /\ 0 \in Nat
      BY <1>2
    <3>2. FALSE \in BOOLEAN
      OBVIOUS
    <3> QED
      BY <3>1, <3>2 DEF Walks
  <2> HIDE DEF v, w
  <2>3. v[w] \in Seq(S)
    BY <2>1, <2>2 DEF IsPrinting
  <2> HIDE DEF S
  <2>4. out \o v[w] = v[w]
    BY <1>1, <2>3
  <2>5. <<at, taken, rejected>> = w
    BY <1>1 DEF w
  <2>6. out \o v[<<at, taken, rejected>>] = v[<<1, 0, FALSE>>]
    BY <2>4, <2>5 DEF w
  <2> QED
    BY <1>1, <2>6 DEF Copied, v
<1> QED
  BY <1>3, <1>4, <1>5, <1>6, <1>7, <1>8, <1>9 DEF IInv

-----------------------------------------------------------------------------
(* The conversions.                                                        *)

\* / and % of C are \div and % for a number that is not negative.
LEMMA DivisionFacts ==
  ASSUME NEW n \in Int, NEW d \in {8, 10, 16}
  PROVE  /\ Quotient(n, d) \in Int /\ Remainder(n, d) \in Int
         /\ n >= 0 => Quotient(n, d) = n \div d /\ Remainder(n, d) = n % d
<1>1. d \in Nat /\ d > 0 /\ d \in Int
  OBVIOUS
<1>2. CASE n < 0
  <2>1. -n \in Nat
    BY <1>2
  <2>2. (-n) \div d \in Int
    BY <1>1, <2>1
  <2>3. Quotient(n, d) = -((-n) \div d)
    BY <1>2 DEF Quotient
  <2>4. Quotient(n, d) \in Int
    BY <2>2, <2>3
  <2>5. Remainder(n, d) \in Int
    BY <1>1, <2>4 DEF Remainder
  <2> QED
    BY <1>2, <2>4, <2>5
<1>3. CASE n >= 0
  <2>1. n \in Nat /\ d > 1
    BY <1>3
  <2>2. n \div d \in Nat /\ n % d \in Int /\ n = d * (n \div d) + (n % d)
    BY <1>1, <2>1, Divided
  <2>3. Quotient(n, d) = n \div d
    BY <1>3 DEF Quotient
  <2>4. Remainder(n, d) = n % d
    BY <1>1, <2>2, <2>3 DEF Remainder
  <2> QED
    BY <2>2, <2>3, <2>4
<1> QED
  BY <1>2, <1>3

\* Digits are integers, and there is at least one.
LEMMA NumeralsAreIntegers ==
  ASSUME NEW b \in {8, 10, 16}, NEW n \in 0..(WIDTH - 1)
  PROVE  /\ b \in Nat /\ b > 1
         /\ Digits(n, b) \in Seq(Int) /\ Digits(n, b) # <<>>
<1>1. b \in Nat /\ b > 1
  OBVIOUS
<1>2. Digits(n, b) \in Seq(Nat) /\ Len(Digits(n, b)) > 0
  BY <1>1, DigitsAreNumeral DEF IsNumeralOf
<1> DEFINE s == Digits(n, b)
<1> HIDE DEF s
<1>3. s \in Seq(Int) /\ s # <<>>
  BY <1>2 DEF s
<1> QED
  BY <1>1, <1>3 DEF s

\* Negating an int that is not the least one does not wrap.
LEMMA SizeFacts ==
  ASSUME NEW n \in Ints
  PROVE  /\ n \in Int /\ n % WIDTH \in 0..(WIDTH - 1)
         /\ Wrapped(-n) \in Int
         /\ n # INT_MIN => /\ Positive(n) = IF n < 0 THEN -n ELSE n
                           /\ Positive(n) \in 0..(WIDTH - 1)
<1> DEFINE h == WIDTH \div 2
<1>1. WIDTH \in Nat /\ h \in Nat /\ WIDTH = 2 * h /\ h > 0
  BY WidthFacts
<1> HIDE DEF h
<1>2. n \in (-h)..(h - 1) /\ INT_MIN = -h
  BY DEF Ints, INT_MIN, h
<1>3. n \in Int /\ -n \in Int /\ -n + h \in Nat
  BY <1>1, <1>2
<1>4. n % WIDTH \in 0..(WIDTH - 1)
  BY <1>1, <1>3
<1>5. Wrapped(-n) = ((-n + h) % WIDTH) - h
  BY DEF Wrapped, h
<1>6. (-n + h) % WIDTH \in 0..(WIDTH - 1)
  BY <1>1, <1>3
<1>7. Wrapped(-n) \in Int
  BY <1>1, <1>5, <1>6
<1>8. ASSUME n # INT_MIN, n < 0
      PROVE  Wrapped(-n) = -n
  <2>1. -n + h < WIDTH /\ WIDTH > 1
    BY <1>1, <1>2, <1>8
  <2>2. (-n + h) % WIDTH = -n + h
    BY <1>1, <1>3, <2>1, Divided
  <2> QED
    BY <1>1, <1>3, <1>5, <2>2
<1>9. ASSUME n # INT_MIN
      PROVE  Positive(n) = (IF n < 0 THEN -n ELSE n) /\ Positive(n) \in 0..(WIDTH - 1)
  BY <1>1, <1>2, <1>8, <1>9 DEF Positive
<1> QED
  BY <1>3, <1>4, <1>7, <1>9

\* A call of Number.
LEMMA NumberFacts ==
  ASSUME IInv, Number
  PROVE  /\ at + 1 \in 1..Len(call.format) /\ va_arg \in Ints /\ Specifier \in Chars
         /\ Specifier = call.format[at + 1]
         /\ pc = "while" /\ Now = "%" /\ rejected = FALSE /\ Specifier \in Numbers
         /\ 2 * taken <= at - 1
         /\ Converter[Specifier] \in {"itoa", "utoa", "ltoa", "ultoa"}
         /\ Radius[Specifier] \in {8, 10, 16}
<1>1. pc = "while" /\ Now = "%" /\ rejected = FALSE /\ Specifier \in Numbers
  BY DEF Number, Understood, IInv, WalkType
<1>2. WalkType /\ pc # "converting" /\ 2 * taken <= at - 1 /\ Specifier \in Specifiers
  BY <1>1 DEF IInv, AtSpecifier, Specifiers
<1>3. /\ at + 1 \in 1..Len(call.format) /\ va_arg \in Ints /\ Specifier \in Chars
      /\ Specifier = call.format[at + 1]
  BY <1>1, <1>2, ArgumentFacts
<1>4. /\ Converter[Specifier] \in {"itoa", "utoa", "ltoa", "ultoa"}
      /\ Radius[Specifier] \in {8, 10, 16}
  <2>1. \A s \in Numbers : /\ Converter[s] \in {"itoa", "utoa", "ltoa", "ultoa"}
                           /\ Radius[s] \in {8, 10, 16}
    BY DEF Numbers, Converter, Radius
  <2> QED
    BY <1>1, <2>1
<1> QED
  BY <1>1, <1>2, <1>3, <1>4

\* ConversionType is inductive.
LEMMA TypeOfConversion ==
  ASSUME IInv, [Next]_vars
  PROVE  ConversionType'
<1>1. ConversionType
  BY DEF IInv
<1>2. CASE UNCHANGED conversion
  BY <1>1, <1>2 DEF ConversionType, conversion
<1>3. CASE Number
  <2>1. /\ fn' = Converter[Specifier] /\ given' = va_arg /\ base' = Radius[Specifier]
        /\ num' = (IF fn' \in Signed THEN va_arg ELSE va_arg % WIDTH)
        /\ sign' = 0 /\ buffer' = <<>> /\ step' \in {"sign", "digits"}
    BY <1>3 DEF Number, Call
  <2>2. va_arg \in Int /\ va_arg % WIDTH \in Int
    BY <1>3, NumberFacts, SizeFacts
  <2>3. /\ fn' \in {"itoa", "utoa", "ltoa", "ultoa"} /\ base' \in {8, 10, 16}
        /\ given' \in Ints
    BY <1>3, <2>1, NumberFacts
  <2>4. num' \in Int /\ sign' \in Int /\ buffer' \in Seq(Int)
    BY <2>1, <2>2
  <2> QED
    BY <2>1, <2>3, <2>4 DEF ConversionType
<1>4. CASE Sign /\ UNCHANGED walk
  <2>1. fn' = fn /\ given' = given /\ base' = base /\ buffer' = buffer /\ sign' = num
        /\ num' = Positive(num) /\ step' = "digits"
    BY <1>4 DEF Sign
  <2>2. Positive(num) \in Int
    <3>1. WIDTH \in Nat /\ WIDTH > 0 /\ WIDTH \div 2 \in Nat
      BY WidthFacts
    <3>2. \A n \in Int : Wrapped(n) \in Int
      BY <3>1 DEF Wrapped
    <3> QED
      BY <1>1, <3>2 DEF ConversionType, Positive
  <2> QED
    BY <1>1, <2>1, <2>2 DEF ConversionType
<1>5. CASE Digit /\ UNCHANGED walk
  <2>1. fn' = fn /\ given' = given /\ base' = base /\ sign' = sign
        /\ buffer' = Append(buffer, Remainder(num, base)) /\ num' = Quotient(num, base)
        /\ step' \in {"digits", "end"}
    BY <1>5 DEF Digit
  <2>2. Quotient(num, base) \in Int /\ Remainder(num, base) \in Int
    BY <1>1, DivisionFacts DEF ConversionType
  <2>3. buffer' \in Seq(Int)
    BY <1>1, <2>1, <2>2 DEF ConversionType
  <2> QED
    BY <1>1, <2>1, <2>2, <2>3 DEF ConversionType
<1>6. CASE Finish /\ UNCHANGED walk
  <2>1. fn' = fn /\ given' = given /\ base' = base /\ sign' = sign /\ num' = num
        /\ buffer' = Reverse(buffer \o SignOf(fn, sign)) /\ step' = "done"
    BY <1>6 DEF Finish
  <2>2. buffer \in Seq(Int) /\ MINUS \in Int
    BY <1>1, WidthFacts DEF ConversionType, MINUS
  <2>3. SignOf(fn, sign) \in Seq(Int)
    BY <2>2 DEF SignOf
  <2>4. buffer \o SignOf(fn, sign) \in Seq(Int)
    BY <2>2, <2>3
  <2>5. buffer' \in Seq(Int)
    <3> DEFINE q == buffer \o SignOf(fn, sign)
    <3> HIDE DEF q
    <3>1. q \in Seq(Int)
      BY <2>4 DEF q
    <3>2. Reverse(q) \in Seq(Int)
      BY <3>1, ReverseIsSequence
    <3> QED
      BY <2>1, <3>2 DEF q
  <2> QED
    BY <1>1, <2>1, <2>5 DEF ConversionType
<1> QED
  BY <1>2, <1>3, <1>4, <1>5, <1>6 DEF Next, Convert, PlainText, PercentPercent,
     Incomprehensible, CharOrString, PrintNumeral, Return, Returned, vars

\* The first digits of a number are those of its quotient.
LEMMA DigitStep ==
  ASSUME NEW b \in {8, 10, 16}, NEW n \in 0..(WIDTH - 1), NEW s \in Seq(Int)
  PROVE  /\ n \div b > 0 => /\ n \div b \in 0..(WIDTH - 1)
                            /\ Digits(n, b) \o Reverse(s)
                                 = Digits(n \div b, b) \o Reverse(Append(s, n % b))
         /\ n \div b <= 0 => Digits(n, b) \o Reverse(s) = Reverse(Append(s, n % b))
<1> DEFINE q == n \div b
           d == n % b
           r == Reverse(s)
<1>1. n \in Nat /\ n < WIDTH /\ WIDTH \in Nat /\ b \in Nat /\ b > 1
  BY WidthFacts
<1>2. /\ q \in Nat /\ d \in 0..(b - 1) /\ (n > 0 => q < n)
      /\ (n < b => q = 0 /\ d = n) /\ (n >= b => q > 0)
  BY <1>1, Divided
<1>3. Digits(n, b) = IF n < b THEN <<n>> ELSE Append(Digits(q, b), d)
  BY <1>1, DigitsFacts
<1>4. d \in Int /\ r \in Seq(Int)
  BY <1>1, <1>2, ReverseIsSequence
<1>5. Reverse(Append(s, d)) = <<d>> \o r
  BY <1>4, ReverseFacts
<1> HIDE DEF q, d, r
<1>6. CASE q > 0
  <2>1. q \in 0..(WIDTH - 1) /\ ~(n < b)
    BY <1>1, <1>2, <1>6
  <2> DEFINE t == Digits(q, b)
  <2>2. t \in Seq(Int)
    BY <2>1, NumeralsAreIntegers
  <2> HIDE DEF t
  <2>3. Append(t, d) \o r = t \o (<<d>> \o r)
    <3> DEFINE e == <<d>>
    <3>1. Append(t, d) = t \o e /\ e \in Seq(Int)
      BY <1>4, <2>2
    <3> HIDE DEF e
    <3>2. (t \o e) \o r = t \o (e \o r)
      BY <1>4, <2>2, <3>1, ConcatAssociative, SMTT(30)
    <3> QED
      BY <3>1, <3>2 DEF e
  <2>4. Digits(n, b) \o r = t \o Reverse(Append(s, d))
    BY <1>3, <1>5, <2>1, <2>3 DEF t
  <2>5. Digits(n, b) \o r = Digits(q, b) \o Reverse(Append(s, d))
    BY <2>4 DEF t
  <2> QED
    BY <1>2, <1>6, <2>1, <2>5 DEF q, d, r
<1>7. CASE q <= 0
  <2>1. n < b /\ d = n
    BY <1>1, <1>2, <1>7
  <2>2. Digits(n, b) \o r = Reverse(Append(s, d))
    BY <1>3, <1>5, <2>1
  <2> QED
    BY <1>2, <1>7, <2>2 DEF q, d, r
<1> QED
  BY <1>2, <1>6, <1>7, SMTT(30)

\* Converting is inductive: a round moves a digit from num to buffer.
LEMMA StepOfConversion ==
  ASSUME IInv, [Next]_vars, Exact'
  PROVE  Converting'
<1>1. ConversionType /\ (Exact => Converting)
  BY DEF IInv
<1>2. /\ fn \in {"itoa", "utoa", "ltoa", "ultoa"} /\ given \in Ints /\ base \in {8, 10, 16}
      /\ num \in Int /\ sign \in Int /\ buffer \in Seq(Int)
  BY <1>1 DEF ConversionType
<1>3. CASE UNCHANGED conversion /\ (pc' # "converting" \/ pc' = pc)
  <2>1. fn' = fn /\ given' = given /\ base' = base /\ buffer' = buffer /\ num' = num
        /\ sign' = sign /\ step' = step
    BY <1>3 DEF conversion
  <2>2. Converting
    BY <1>1, <2>1 DEF Exact
  <2>3. Size' = Size /\ Text' = Text
    BY <2>1 DEF Size, Text
  <2> QED
    BY <1>3, <2>1, <2>2, <2>3 DEF Converting
<1>4. CASE Number
  <2> DEFINE n == va_arg
  <2>1. /\ fn' = Converter[Specifier] /\ given' = n /\ base' = Radius[Specifier]
        /\ num' = (IF fn' \in Signed THEN n ELSE n % WIDTH)
        /\ buffer' = <<>> /\ step' = IF fn' \in Signed THEN "sign" ELSE "digits"
    BY <1>4 DEF Number, Call
  <2>2. n \in Ints /\ base' \in {8, 10, 16}
    BY <1>4, <2>1, NumberFacts
  <2>3. CASE fn' \in Signed
    BY <2>1, <2>3 DEF Converting
  <2>4. CASE fn' \notin Signed
    <3>1. num' = n % WIDTH /\ step' = "digits" /\ fn' # "itoa" /\ Size' = n % WIDTH
      BY <2>1, <2>4 DEF Signed, Size
    <3>2. num' \in 0..(WIDTH - 1)
      BY <2>2, <3>1, SizeFacts
    <3>3. Digits(num', base') \in Seq(Int)
      BY <2>2, <3>2, NumeralsAreIntegers
    <3>4. Reverse(buffer') = <<>>
      BY <2>1 DEF Reverse
    <3> DEFINE s == Digits(num', base')
    <3> HIDE DEF s
    <3>5. s \o <<>> = s
      BY <3>3 DEF s
    <3>6. Digits(Size', base') = Digits(num', base') \o Reverse(buffer')
      BY <3>1, <3>4, <3>5 DEF s
    <3> QED
      BY <3>1, <3>2, <3>6 DEF Converting
  <2> QED
    BY <2>3, <2>4
<1>5. CASE Convert /\ UNCHANGED walk
  <2>1. fn' = fn /\ given' = given /\ base' = base /\ pc' = pc
    BY <1>5 DEF Convert, Sign, Digit, Finish, walk
  <2>2. Exact /\ Converting /\ Size' = Size /\ Text' = Text
    BY <1>1, <2>1 DEF Exact, Size, Text
  <2>3. CASE Sign
    <3>1. /\ sign' = num /\ num' = Positive(num) /\ step' = "digits" /\ buffer' = buffer
          /\ fn \in Signed /\ num = given /\ buffer = <<>>
      BY <2>2, <2>3 DEF Sign, Converting
    <3>2. given # INT_MIN
      BY <2>2, <3>1 DEF Exact
    <3>3. num' = Size /\ num' \in 0..(WIDTH - 1)
      BY <1>2, <3>1, <3>2, SizeFacts DEF Size
    <3>4. Digits(num', base') \in Seq(Int)
      BY <1>2, <2>1, <3>3, NumeralsAreIntegers
    <3>5. Reverse(buffer') = <<>>
      BY <3>1 DEF Reverse
    <3> DEFINE s == Digits(num', base')
    <3> HIDE DEF s
    <3>6. s \o <<>> = s
      BY <3>4 DEF s
    <3>7. Digits(Size', base') = Digits(num', base') \o Reverse(buffer')
      BY <2>2, <3>3, <3>5, <3>6 DEF s
    <3> QED
      BY <2>1, <3>1, <3>3, <3>7 DEF Converting
  <2>4. CASE Digit
    <3>1. /\ step = "digits" /\ sign' = sign /\ buffer' = Append(buffer, Remainder(num, base))
          /\ num' = Quotient(num, base)
          /\ step' = IF num' <= 0 THEN "end" ELSE "digits"
      BY <2>4 DEF Digit, IsLast
    <3>2. /\ num \in 0..(WIDTH - 1) /\ (fn = "itoa" => sign = given)
          /\ Digits(Size, base) = Digits(num, base) \o Reverse(buffer)
      BY <2>2, <3>1 DEF Converting
    <3>3. num >= 0
      BY <3>2, WidthFacts
    <3>4. num' = num \div base /\ buffer' = Append(buffer, num % base)
      BY <1>2, <3>1, <3>3, DivisionFacts
    <3>5. /\ num \div base > 0 => /\ num \div base \in 0..(WIDTH - 1)
                                  /\ Digits(Size, base)
                                       = Digits(num \div base, base) \o Reverse(Append(buffer, num % base))
          /\ num \div base <= 0 => Digits(Size, base) = Reverse(Append(buffer, num % base))
      BY <1>2, <3>2, DigitStep
    <3>6. num' > 0 => /\ num' \in 0..(WIDTH - 1)
                      /\ Digits(Size', base') = Digits(num', base') \o Reverse(buffer')
      BY <2>1, <2>2, <3>4, <3>5
    <3>7. num' <= 0 => Digits(Size', base') = Reverse(buffer')
      BY <2>1, <2>2, <3>4, <3>5
    <3>8. num' \in Int
      BY TypeOfConversion DEF ConversionType
    <3>9. (num' > 0 /\ step' = "digits") \/ (num' <= 0 /\ step' = "end")
      BY <3>1, <3>8
    <3> QED
      BY <2>1, <3>1, <3>2, <3>6, <3>7, <3>9 DEF Converting
  <2>5. CASE Finish
    <3>1. buffer' = Reverse(buffer \o SignOf(fn, sign)) /\ step = "end" /\ step' = "done"
      BY <2>5 DEF Finish
    <3>2. (fn = "itoa" => sign = given) /\ Digits(Size, base) = Reverse(buffer)
      BY <2>2, <3>1 DEF Converting
    <3>3. MINUS \in Int
      BY WidthFacts DEF MINUS
    <3>4. /\ Reverse(buffer \o <<MINUS>>) = <<MINUS>> \o Reverse(buffer)
          /\ Reverse(buffer \o <<>>) = Reverse(buffer)
      BY <1>2, <3>3, ReverseFacts
    <3>5. buffer' = Text
      <4>1. SignOf(fn, sign) = IF fn = "itoa" /\ given < 0 THEN <<MINUS>> ELSE <<>>
        BY <3>2 DEF SignOf
      <4> QED
        BY <3>1, <3>2, <3>4, <4>1 DEF Text
    <3> QED
      BY <2>2, <3>1, <3>5 DEF Converting
  <2> QED
    BY <1>5, <2>3, <2>4, <2>5 DEF Convert
<1> QED
  BY <1>3, <1>4, <1>5 DEF Next, PlainText, PercentPercent, Incomprehensible, CharOrString,
     PrintNumeral, Return, Returned, vars, walk

\* A finished text is not empty and is the numeral of Size, behind a minus or not.
LEMMA TextFacts ==
  ASSUME ConversionType, Exact
  PROVE  /\ Size \in 0..(WIDTH - 1)
         /\ IsNumeralOf(Digits(Size, base), Size, base)
         /\ Digits(Size, base) \in Seq(Int) /\ Digits(Size, base) # <<>>
         /\ Text \in Seq(Int) /\ Text # <<>>
<1>1. given \in Ints /\ base \in {8, 10, 16} /\ base \in Nat /\ base > 1
  BY DEF ConversionType
<1>2. Size \in 0..(WIDTH - 1)
  <2>1. given % WIDTH \in 0..(WIDTH - 1)
    BY <1>1, SizeFacts
  <2>2. CASE fn \in Signed
    <3>1. given # INT_MIN
      BY <2>2 DEF Exact
    <3> QED
      BY <1>1, <2>2, <3>1, SizeFacts DEF Size
  <2> QED
    BY <2>1, <2>2 DEF Size
<1>3. IsNumeralOf(Digits(Size, base), Size, base)
  BY <1>1, <1>2, DigitsAreNumeral
<1>4. Digits(Size, base) \in Seq(Int) /\ Digits(Size, base) # <<>>
  BY <1>1, <1>2, NumeralsAreIntegers
<1>5. Text \in Seq(Int) /\ Text # <<>>
  <2> DEFINE s == Digits(Size, base)
  <2>1. s \in Seq(Int) /\ s # <<>> /\ MINUS \in Int
    BY <1>4, WidthFacts DEF MINUS
  <2> HIDE DEF s
  <2>2. <<MINUS>> \o s \in Seq(Int) /\ <<MINUS>> \o s # <<>>
    BY <2>1
  <2> QED
    BY <2>1, <2>2 DEF Text, s
<1> QED
  BY <1>2, <1>3, <1>4, <1>5

-----------------------------------------------------------------------------
(* The walk.                                                               *)

\* A step of the walk, or none.
LEMMA WalkSteps ==
  ASSUME IInv, [Next]_vars
  PROVE  \/ \E i : Run(i)
         \/ CharOrString \/ Number \/ PrintNumeral \/ Return
         \/ UNCHANGED <<walk, fn, given, base>>
<1>1. CASE PlainText \/ PercentPercent \/ Incomprehensible
  BY <1>1, RunSteps DEF IInv
<1>2. CASE Convert /\ UNCHANGED walk
  BY <1>2 DEF Convert, Sign, Digit, Finish
<1>3. CASE UNCHANGED vars
  BY <1>3 DEF vars, conversion
<1> QED
  BY <1>1, <1>2, <1>3 DEF Next, Returned

\* A step of CharOrString.
LEMMA CharOrStringFacts ==
  ASSUME IInv, CharOrString
  PROVE  /\ at \in 1..Len(call.format) /\ at + 1 \in 1..Len(call.format) /\ va_arg \in Ints
         /\ Specifier \in Chars /\ Specifier \in Specifiers /\ Specifier \in {"c", "s"}
         /\ Specifier = call.format[at + 1] /\ 2 * taken <= at - 1
         /\ pc = "while" /\ pc' = "while" /\ Now = "%" /\ rejected = FALSE
         /\ <<Specifier, taken + 1, <<va_arg>>>> \in Pieces
         /\ out' = Append(out, <<Specifier, taken + 1, <<va_arg>>>>)
         /\ at' = at + 2 /\ taken' = taken + 1 /\ rejected' = FALSE /\ call' = call
<1>1. /\ pc = "while" /\ pc' = "while" /\ Now = "%" /\ rejected = FALSE
      /\ Specifier \in {"c", "s"} /\ Specifier \in Specifiers
      /\ out' = Append(out, <<Specifier, taken + 1, <<va_arg>>>>)
      /\ at' = at + 2 /\ taken' = taken + 1 /\ rejected' = FALSE /\ call' = call
  BY DEF CharOrString, Understood, Specifiers, IInv, WalkType
<1>2. WalkType /\ 2 * taken <= at - 1 /\ taken \in Nat
  BY <1>1 DEF IInv, AtSpecifier, WalkType
<1>3. /\ at \in 1..Len(call.format) /\ at + 1 \in 1..Len(call.format) /\ va_arg \in Ints
      /\ Specifier \in Chars /\ Specifier = call.format[at + 1]
  BY <1>1, <1>2, ArgumentFacts
<1>4. <<va_arg>> \in Seq(Int)
  <2>1. va_arg \in Int
    BY <1>3, SizeFacts
  <2> HIDE DEF va_arg
  <2> QED
    BY <2>1
<1>5. <<Specifier, taken + 1, <<va_arg>>>> \in Pieces
  <2> DEFINE t == <<va_arg>>
  <2>1. t \in Seq(Int) /\ taken + 1 \in Nat /\ Specifier \in Chars
    BY <1>2, <1>3, <1>4
  <2> HIDE DEF t
  <2>2. <<Specifier, taken + 1, t>> \in Pieces
    BY <2>1 DEF Pieces
  <2> QED
    BY <2>2 DEF t
<1> QED
  BY <1>1, <1>2, <1>3, <1>5

\* A step of PrintNumeral.
LEMMA PrintNumeralFacts ==
  ASSUME IInv, PrintNumeral
  PROVE  /\ at \in 1..Len(call.format) /\ at + 1 \in 1..Len(call.format)
         /\ Specifier \in Chars /\ Specifier = call.format[at + 1]
         /\ taken \in Nat /\ taken > 0 /\ 2 * taken <= at + 1
         /\ pc = "converting" /\ pc' = "while" /\ step = "done"
         /\ <<Specifier, taken, buffer>> \in Pieces
         /\ out' = Append(out, <<Specifier, taken, buffer>>)
         /\ at' = at + 2 /\ taken' = taken /\ rejected' = rejected /\ call' = call
<1>1. /\ pc = "converting" /\ pc' = "while" /\ step = "done"
      /\ out' = Append(out, <<Specifier, taken, buffer>>)
      /\ at' = at + 2 /\ taken' = taken /\ rejected' = rejected /\ call' = call
  BY DEF PrintNumeral
<1>2. /\ call \in Calls /\ at \in 1..(Len(call.format) + 1) /\ taken \in Nat /\ taken > 0
      /\ 2 * taken <= at + 1 /\ Now = "%" /\ Specifier \in Numbers /\ buffer \in Seq(Int)
  BY <1>1 DEF IInv, WalkType, AtSpecifier, ConversionType
<1>3. IsFormat(call.format) /\ Len(call.format) \in Nat
  BY <1>2, CallFacts, CharFacts
<1>4. at + 1 \in 1..Len(call.format) /\ at \in 1..Len(call.format)
  <2>1. Specifier # NUL
    BY <1>2 DEF Numbers, NUL
  <2>2. at + 1 \in Nat /\ (at + 1 > Len(call.format) => Specifier = NUL)
    BY <1>2, <1>3, CharFacts DEF Specifier
  <2> QED
    BY <1>2, <1>3, <2>1, <2>2
<1>5. Specifier \in Chars /\ Specifier = call.format[at + 1]
  BY <1>3, <1>4, CharFacts DEF Specifier
<1>6. <<Specifier, taken, buffer>> \in Pieces
  BY <1>2, <1>5 DEF Pieces
<1> QED
  BY <1>1, <1>2, <1>4, <1>5, <1>6

\* WalkType is inductive.
LEMMA TypeOfWalk ==
  ASSUME IInv, [Next]_vars
  PROVE  WalkType'
<1>1. /\ call \in Calls /\ at \in 1..(Len(call.format) + 1) /\ rejected \in BOOLEAN
      /\ taken \in Nat /\ out \in Seq(Pieces) /\ pc \in {"while", "converting", "returned"}
      /\ Len(call.format) \in Nat /\ WalkType
  BY CallFacts, CharFacts DEF IInv, WalkType
<1>2. CASE \E i : Run(i)
  <2>1. PICK i : Run(i)
    BY <1>2
  <2> DEFINE l == Literally(call.format, i, RunEnd(call.format, i))
  <2>2. call' = call /\ taken' = taken /\ pc' = pc /\ rejected' \in BOOLEAN
    BY <1>1, <2>1 DEF Run
  <2>3. l \in Seq(Pieces) /\ out' = out \o l /\ at' \in 1..(Len(call.format) + 1)
    BY <1>1, <2>1, RunFacts
  <2> HIDE DEF l
  <2>4. out' \in Seq(Pieces)
    BY <1>1, <2>3
  <2> QED
    BY <1>1, <2>2, <2>3, <2>4 DEF WalkType
<1>3. CASE CharOrString
  <2> DEFINE p == <<Specifier, taken + 1, <<va_arg>>>>
  <2>1. /\ at + 1 \in 1..Len(call.format) /\ p \in Pieces /\ out' = Append(out, p)
        /\ at' = at + 2 /\ taken' = taken + 1 /\ rejected' = FALSE /\ call' = call
        /\ pc' = "while"
    BY <1>3, CharOrStringFacts
  <2> HIDE DEF p
  <2>2. out' \in Seq(Pieces)
    BY <1>1, <2>1
  <2>3. at' \in 1..(Len(call.format) + 1) /\ taken' \in Nat
    BY <1>1, <2>1
  <2>4. rejected' \in BOOLEAN
    BY <2>1
  <2> QED
    BY <1>1, <2>1, <2>2, <2>3, <2>4 DEF WalkType
<1>4. CASE Number
  <2>1. /\ out' \in {out, Append(out, Hex)} /\ taken' = taken + 1 /\ pc' = "converting"
        /\ call' = call /\ at' = at /\ rejected' = rejected
    BY <1>4 DEF Number
  <2>2. out' \in Seq(Pieces)
    <3>1. Hex \in Pieces
      BY OriginFacts
    <3>2. Append(out, Hex) \in Seq(Pieces)
      BY <1>1, <3>1
    <3> QED
      BY <1>1, <2>1, <3>2
  <2>3. taken' \in Nat
    BY <1>1, <2>1
  <2> QED
    BY <1>1, <2>1, <2>2, <2>3 DEF WalkType
<1>5. CASE PrintNumeral
  <2> DEFINE p == <<Specifier, taken, buffer>>
  <2>1. /\ at + 1 \in 1..Len(call.format) /\ p \in Pieces /\ out' = Append(out, p)
        /\ at' = at + 2 /\ taken' = taken /\ rejected' = rejected /\ call' = call
        /\ pc' = "while"
    BY <1>5, PrintNumeralFacts
  <2> HIDE DEF p
  <2>2. out' \in Seq(Pieces)
    BY <1>1, <2>1
  <2>3. at' \in 1..(Len(call.format) + 1)
    BY <1>1, <2>1
  <2> QED
    BY <1>1, <2>1, <2>2, <2>3 DEF WalkType
<1>6. CASE Return
  <2>1. /\ out' = out /\ taken' = taken /\ pc' = "returned"
        /\ call' = call /\ at' = at /\ rejected' = rejected
    BY <1>6 DEF Return
  <2> QED
    BY <1>1, <2>1 DEF WalkType
<1>7. CASE UNCHANGED <<walk, fn, given, base>>
  BY <1>1, <1>7 DEF walk, WalkType
<1> QED
  BY <1>2, <1>3, <1>4, <1>5, <1>6, <1>7, WalkSteps

\* AtSpecifier is inductive: every specifier takes one argument and two characters.
LEMMA AtSpecifierStep ==
  ASSUME IInv, [Next]_vars
  PROVE  AtSpecifier'
<1>1. AtSpecifier /\ WalkType /\ at \in Nat /\ taken \in Nat
  BY CallFacts, CharFacts DEF IInv, WalkType
<1>2. CASE \E i : Run(i)
  <2>1. PICK i : Run(i)
    BY <1>2
  <2>2. taken' = taken /\ pc' = "while" /\ pc = "while"
    BY <2>1 DEF Run
  <2>3. at < at' /\ at' \in Nat
    BY <1>1, <2>1, RunFacts
  <2>4. 2 * taken' <= at' - 1
    <3>1. 2 * taken <= at - 1
      BY <1>1, <2>2 DEF AtSpecifier
    <3>2. taken \in Nat /\ at \in Nat /\ taken' = taken
      BY <1>1, <2>2
    <3>3. \A t, a, b \in Nat : a < b /\ 2 * t <= a - 1 => 2 * t <= b - 1
      OBVIOUS
    <3> QED
      BY <2>3, <3>1, <3>2, <3>3
  <2> QED
    BY <2>2, <2>4 DEF AtSpecifier
<1>3. CASE CharOrString
  <2>1. at' = at + 2 /\ taken' = taken + 1 /\ pc' = "while" /\ 2 * taken <= at - 1
    BY <1>3, CharOrStringFacts
  <2>2. 2 * taken' <= at' - 1
    BY <1>1, <2>1
  <2> QED
    BY <2>1, <2>2 DEF AtSpecifier
<1>4. CASE Number
  <2>1. /\ pc' = "converting" /\ taken' = taken + 1 /\ at' = at /\ call' = call
        /\ rejected' = rejected /\ given' = va_arg /\ fn' = Converter[Specifier]
        /\ base' = Radius[Specifier]
    BY <1>4 DEF Number, Call
  <2>2. /\ Now = "%" /\ Specifier \in Numbers /\ rejected = FALSE /\ 2 * taken <= at - 1
    BY <1>4, NumberFacts
  <2>3. Now' = Now /\ Specifier' = Specifier /\ given' = call'.args[taken']
    BY <2>1 DEF Now, Specifier, va_arg
  <2>4. 2 * taken' <= at' + 1 /\ taken' > 0
    BY <1>1, <2>1, <2>2
  <2> QED
    BY <2>1, <2>2, <2>3, <2>4 DEF AtSpecifier
<1>5. CASE PrintNumeral
  <2>1. at' = at + 2 /\ taken' = taken /\ pc' = "while" /\ 2 * taken <= at + 1
    BY <1>5, PrintNumeralFacts
  <2>2. 2 * taken' <= at' - 1
    BY <1>1, <2>1
  <2> QED
    BY <2>1, <2>2 DEF AtSpecifier
<1>6. CASE Return
  <2>1. /\ taken' = taken /\ pc = "while" /\ pc' = "returned" /\ Now = NUL
        /\ call' = call /\ at' = at
    BY <1>6 DEF Return
  <2>2. Now' = NUL
    BY <2>1 DEF Now
  <2> QED
    BY <1>1, <2>1, <2>2 DEF AtSpecifier
<1>7. CASE UNCHANGED <<walk, fn, given, base>>
  <2>1. /\ call' = call /\ at' = at /\ rejected' = rejected /\ taken' = taken /\ pc' = pc
        /\ fn' = fn /\ given' = given /\ base' = base
    BY <1>7 DEF walk
  <2>2. Now' = Now /\ Specifier' = Specifier
    BY <2>1 DEF Now, Specifier
  <2> QED
    BY <1>1, <2>1, <2>2 DEF AtSpecifier
<1> QED
  BY <1>2, <1>3, <1>4, <1>5, <1>6, <1>7, WalkSteps

-----------------------------------------------------------------------------
(* The format is kept.                                                     *)

\* Two characters, one after the other.
LEMMA PairOfElements ==
  ASSUME NEW S, NEW p \in S, NEW d \in S
  PROVE  <<p>> \o <<d>> = <<p, d>>
<1> DEFINE x == <<p>>
           z == <<p, d>>
           w == Append(x, d)
<1>0. x \in Seq(S)
  OBVIOUS
<1>1. z \in Seq(S) /\ Len(x) = 1 /\ Len(z) = 2 /\ x[1] = p /\ z[1] = p /\ z[2] = d
  OBVIOUS
<1>2. x \o <<d>> = w
  OBVIOUS
<1> HIDE DEF x, z
<1>3. w \in Seq(S) /\ Len(w) = Len(x) + 1 /\ w[Len(x) + 1] = d /\ \A i \in 1..Len(x) : w[i] = x[i]
  BY <1>0
<1> HIDE DEF w
<1>4. Len(w) = 2 /\ w[1] = p /\ w[2] = d
  BY <1>1, <1>3
<1>6. \A i \in 1..2 : w[i] = z[i]
  BY <1>1, <1>4
<1>7. w = z
  BY <1>1, <1>3, <1>4, <1>6, SeqEqual
<1> QED
  BY <1>2, <1>7 DEF x, z

\* Two characters in front of a text.
LEMMA PairInFront ==
  ASSUME NEW S, NEW p \in S, NEW d \in S, NEW r \in Seq(S)
  PROVE  <<p>> \o (<<d>> \o r) = <<p, d>> \o r
<1> DEFINE x == <<p>>
           y == <<d>>
           z == <<p, d>>
<1>1. x \in Seq(S) /\ y \in Seq(S)
  OBVIOUS
<1>2. x \o y = z
  BY PairOfElements
<1> HIDE DEF x, y, z
<1>3. (x \o y) \o r = x \o (y \o r)
  BY <1>1, ConcatAssociative, SMTT(30)
<1> QED
  BY <1>2, <1>3 DEF x, y, z

\* At a specifier the rest of the format is percent, specifier and the rest.
LEMMA SpecifierIsKept ==
  ASSUME NEW format, IsFormat(format), NEW i \in 1..Len(format), i + 1 \in 1..Len(format),
         format[i] = "%", format[i + 1] # "%"
  PROVE  LET u == Unescaping(format)
         IN  /\ u[i] = <<"%", format[i + 1]>> \o u[i + 2]
             /\ u[i + 2] \in Seq(Chars)
<1> DEFINE u == Unescaping(format)
           d == format[i + 1]
<1>1. Len(format) \in Nat /\ i \in Nat /\ d \in Chars /\ Char(format, i + 1) = d
  BY CharFacts
<1>2. IsUnescaping(u, format)
  BY UnescapingFacts
<1>3. Following(format, i) = i + 1 /\ Following(format, i + 1) = i + 2
  <2>1. (i + 1) + 1 = i + 2
    BY <1>1
  <2> QED
    BY <1>1, <2>1 DEF Following
<1> HIDE DEF u, d
<1>4. i + 2 \in 1..(Len(format) + 1)
  BY <1>1
<1>5. u[i] = <<"%">> \o u[i + 1] /\ u[i + 1] = <<d>> \o u[i + 2] /\ u[i + 2] \in Seq(Chars)
  BY <1>2, <1>3, <1>4 DEF IsUnescaping, d
<1>6. <<"%">> \o (<<d>> \o u[i + 2]) = <<"%", d>> \o u[i + 2]
  <2> DEFINE p == "%"
  <2>1. p \in Chars
    BY DEF Chars
  <2> HIDE DEF p
  <2>2. <<p>> \o (<<d>> \o u[i + 2]) = <<p, d>> \o u[i + 2]
    BY <1>1, <1>5, <2>1, PairInFront, SMTT(30)
  <2> QED
    BY <2>2 DEF p
<1>7. u[i] = <<"%", d>> \o u[i + 2]
  BY <1>5, <1>6
<1> QED
  BY <1>5, <1>7 DEF u, d

\* A conversion stands for percent and specifier.
LEMMA TextsOfSpecifier ==
  ASSUME NEW o \in Seq(Pieces), NEW c \in Chars, NEW n \in Nat, n > 0, NEW t,
         <<c, n, t>> \in Pieces, NEW r \in Seq(Chars)
  PROVE  Texts(Append(o, <<c, n, t>>)) \o r = Texts(o) \o (<<"%", c>> \o r)
<1>1. Texts(o) \in Seq(Chars) /\ Texts(Append(o, <<c, n, t>>)) = Texts(o) \o Origin(<<c, n, t>>)
  BY TextsOfAppend
<1>2. Origin(<<c, n, t>>) = <<"%", c>>
  BY OriginFacts
<1>3. "%" \in Chars
  BY DEF Chars
<1> DEFINE x == Texts(o)
           y == <<"%", c>>
<1>4. x \in Seq(Chars) /\ y \in Seq(Chars)
  BY <1>1, <1>3
<1>5. Texts(Append(o, <<c, n, t>>)) = x \o y
  BY <1>1, <1>2
<1> HIDE DEF x, y
<1>6. (x \o y) \o r = x \o (y \o r)
  BY <1>4, ConcatAssociative, SMTT(30)
<1>7. Texts(Append(o, <<c, n, t>>)) \o r = x \o (y \o r)
  BY <1>5, <1>6
<1> QED
  BY <1>7 DEF x, y

\* Kept is inductive: a step moves from what is to come to what was printed.
LEMMA KeptStep ==
  ASSUME IInv, [Next]_vars
  PROVE  Kept'
<1> DEFINE u == Unescaping(call.format)
<1>1. Kept /\ WalkType /\ out \in Seq(Pieces) /\ taken \in Nat
  BY DEF IInv, WalkType
<1>2. /\ IsFormat(call.format) /\ IsUnescaping(u, call.format) /\ Len(call.format) \in Nat
      /\ at \in 1..(Len(call.format) + 1)
  BY CallFacts, CharFacts, UnescapingFacts DEF IInv, WalkType
<1>3. /\ pc # "converting" => Texts(out) \o u[at] = u[1]
      /\ pc = "converting" => Texts(out) \o (<<"%", Specifier>> \o u[at + 2]) = u[1]
  BY <1>1 DEF Kept
<1>4. ASSUME call' = call, pc' # "converting", Texts(out') \o u[at'] = u[1]
      PROVE  Kept'
  BY <1>4 DEF Kept
<1>5. \A i \in 1..Len(call.format) : Char(call.format, i) = call.format[i]
  BY <1>2, CharFacts
<1> HIDE DEF u
<1>6. CASE \E i : Run(i)
  <2>1. PICK i : Run(i)
    BY <1>6
  <2>2. call' = call /\ pc' = "while" /\ pc = "while"
    BY <2>1 DEF Run
  <2>3. /\ i \in 1..Len(call.format)
        /\ out' = out \o Literally(call.format, i, RunEnd(call.format, i))
        /\ at' = RunEnd(call.format, i)
    BY <1>1, <2>1, RunFacts
  <2>4. Texts(out') \o u[at'] = Texts(out) \o (<<call.format[i]>> \o u[i + 1])
    BY <1>1, <1>2, <2>3, RunIsKept
  <2>5. <<call.format[i]>> \o u[i + 1] = u[at]
    <3>1. at \in 1..Len(call.format)
      BY <1>2, <2>1, <2>3 DEF Run
    <3>2. u[at] = <<call.format[at]>> \o u[Following(call.format, at)]
      BY <1>2, <3>1 DEF IsUnescaping
    <3>3. Now = call.format[at] /\ Specifier = Char(call.format, at + 1)
      BY <1>5, <3>1 DEF Now, Specifier
    <3>4. CASE i = at
      <4>1. Following(call.format, at) = at + 1
        BY <2>1, <3>3, <3>4 DEF Run, Following
      <4> QED
        BY <3>2, <3>4, <4>1
    <3>5. CASE i = at + 1
      <4>1. i # at
        BY <1>2, <3>5
      <4>2. Now = "%" /\ Specifier = "%"
        BY <2>1, <4>1 DEF Run
      <4>3. call.format[at] = "%" /\ call.format[i] = "%"
        BY <1>5, <2>3, <3>3, <3>5, <4>2
      <4>4. Following(call.format, at) = at + 2 /\ i + 1 = at + 2
        BY <1>2, <3>3, <3>5, <4>2, <4>3 DEF Following
      <4> QED
        BY <3>2, <4>3, <4>4
    <3> QED
      BY <2>1, <3>4, <3>5 DEF Run
  <2> QED
    BY <1>3, <1>4, <2>2, <2>4, <2>5
<1>7. ASSUME at \in 1..Len(call.format), at + 1 \in 1..Len(call.format), Now = "%",
             Specifier = call.format[at + 1], Specifier \in Specifiers
      PROVE  u[at] = <<"%", Specifier>> \o u[at + 2] /\ u[at + 2] \in Seq(Chars)
  <2>1. call.format[at] = "%"
    BY <1>5, <1>7 DEF Now
  <2>2. Specifier # "%"
    BY <1>7 DEF Specifiers, Numbers
  <2> QED
    BY <1>2, <1>7, <2>1, <2>2, SpecifierIsKept DEF u
<1>8. CASE CharOrString
  <2> DEFINE t == <<va_arg>>
  <2>1. /\ at \in 1..Len(call.format) /\ at + 1 \in 1..Len(call.format) /\ Specifier \in Chars
        /\ Specifier = call.format[at + 1] /\ Specifier \in Specifiers /\ Now = "%"
        /\ <<Specifier, taken + 1, t>> \in Pieces
        /\ out' = Append(out, <<Specifier, taken + 1, t>>) /\ at' = at + 2
        /\ pc = "while" /\ pc' = "while" /\ call' = call
    BY <1>8, CharOrStringFacts
  <2> HIDE DEF t
  <2>2. u[at] = <<"%", Specifier>> \o u[at + 2] /\ u[at + 2] \in Seq(Chars)
    BY <1>7, <2>1
  <2>3. taken + 1 \in Nat /\ taken + 1 > 0
    BY <1>1
  <2>4. Texts(out') \o u[at + 2] = Texts(out) \o (<<"%", Specifier>> \o u[at + 2])
    <3> DEFINE c == Specifier
               n == taken + 1
               r == u[at + 2]
    <3>1. /\ out \in Seq(Pieces) /\ c \in Chars /\ n \in Nat /\ n > 0
          /\ <<c, n, t>> \in Pieces /\ r \in Seq(Chars) /\ out' = Append(out, <<c, n, t>>)
      BY <1>1, <2>1, <2>2, <2>3
    <3> HIDE DEF c, n, r
    <3>2. Texts(out') \o r = Texts(out) \o (<<"%", c>> \o r)
      BY <3>1, TextsOfSpecifier
    <3> QED
      BY <3>2 DEF c, r
  <2> QED
    BY <1>3, <1>4, <2>1, <2>2, <2>4
<1>9. CASE Number
  <2>1. /\ at + 1 \in 1..Len(call.format) /\ Specifier \in Chars /\ Specifier \in Specifiers
        /\ Specifier = call.format[at + 1] /\ Now = "%" /\ pc = "while"
    BY <1>9, NumberFacts DEF Specifiers
  <2>2. /\ out' \in {out, Append(out, Hex)} /\ pc' = "converting" /\ call' = call /\ at' = at
    BY <1>9 DEF Number
  <2>3. at \in 1..Len(call.format)
    BY <1>2, <2>1
  <2>4. u[at] = <<"%", Specifier>> \o u[at + 2]
    BY <1>7, <2>1, <2>3
  <2>5. Texts(out') = Texts(out)
    <3>1. Texts(out) \in Seq(Chars) /\ Texts(Append(out, Hex)) = Texts(out) \o <<>>
      BY <1>1, OriginFacts, TextsOfAppend
    <3> DEFINE s == Texts(out)
    <3>2. s \in Seq(Chars)
      BY <3>1
    <3> HIDE DEF s
    <3>3. s \o <<>> = s
      BY <3>2
    <3> QED
      BY <2>2, <3>1, <3>3 DEF s
  <2>6. Specifier' = Specifier /\ u' = u
    BY <2>2 DEF Specifier, u
  <2>7. Texts(out') \o (<<"%", Specifier'>> \o u'[at' + 2]) = u'[1]
    BY <1>3, <2>1, <2>2, <2>4, <2>5, <2>6
  <2> QED
    BY <2>2, <2>7 DEF Kept, u
<1>10. CASE PrintNumeral
  <2>1. /\ at \in 1..Len(call.format) /\ at + 1 \in 1..Len(call.format) /\ Specifier \in Chars
        /\ <<Specifier, taken, buffer>> \in Pieces /\ taken > 0
        /\ out' = Append(out, <<Specifier, taken, buffer>>) /\ at' = at + 2
        /\ pc = "converting" /\ pc' = "while" /\ call' = call
    BY <1>10, PrintNumeralFacts
  <2>2. u[at + 2] \in Seq(Chars)
    <3>1. at + 2 \in 1..(Len(call.format) + 1)
      BY <1>2, <2>1
    <3> QED
      BY <1>2, <3>1 DEF IsUnescaping
  <2>3. Texts(out') \o u[at + 2] = Texts(out) \o (<<"%", Specifier>> \o u[at + 2])
    BY <1>1, <2>1, <2>2, TextsOfSpecifier
  <2> QED
    BY <1>3, <1>4, <2>1, <2>3
<1>11. CASE Return
  <2>1. out' = out /\ call' = call /\ at' = at /\ pc = "while" /\ pc' = "returned"
    BY <1>11 DEF Return
  <2> QED
    BY <1>3, <1>4, <2>1
<1>12. CASE UNCHANGED <<walk, fn, given, base>>
  <2>1. call' = call /\ at' = at /\ out' = out /\ pc' = pc
    BY <1>12 DEF walk
  <2>2. Specifier' = Specifier
    BY <2>1 DEF Specifier
  <2> QED
    BY <1>1, <2>1, <2>2 DEF Kept
<1> QED
  BY <1>6, <1>8, <1>9, <1>10, <1>11, <1>12, WalkSteps

-----------------------------------------------------------------------------
(* The arguments are printed in order.                                     *)

\* Characters have no number.
LEMMA NumberedOfRun ==
  ASSUME NEW o \in Seq(Pieces), NEW l \in Seq(Pieces), \A i \in 1..Len(l) : l[i][2] = 0,
         NEW n, Numbered(o, n)
  PROVE  Numbered(o \o l, n)
<1> DEFINE q == o \o l
           C == {i \in DOMAIN o : o[i][2] > 0}
           D == {i \in DOMAIN q : q[i][2] > 0}
<1>1. /\ Len(o) \in Nat /\ Len(l) \in Nat /\ DOMAIN o = 1..Len(o)
      /\ DOMAIN q = 1..(Len(o) + Len(l))
      /\ \A i \in 1..Len(o) : q[i] = o[i]
      /\ \A i \in 1..(Len(o) + Len(l)) : i > Len(o) => q[i] = l[i - Len(o)]
  OBVIOUS
<1> HIDE DEF q
<1>2. C = D
  <2>1. ASSUME NEW i \in DOMAIN q, i \notin DOMAIN o PROVE q[i][2] = 0
    <3>1. i > Len(o) /\ i - Len(o) \in 1..Len(l)
      BY <1>1, <2>1
    <3> QED
      BY <1>1, <3>1
  <2>2. \A i \in DOMAIN o : i \in DOMAIN q /\ q[i] = o[i]
    BY <1>1
  <2> QED
    BY <2>1, <2>2
<1>3. \A i \in C : q[i] = o[i]
  BY <1>1
<1>4. /\ \A i, j \in C : i < j => o[i][2] < o[j][2]
      /\ {o[i][2] : i \in C} = 1..n
  BY DEF Numbered
<1> HIDE DEF C
<1>5. {q[i][2] : i \in C} = {o[i][2] : i \in C}
  BY <1>3
<1>6. \A i, j \in C : i < j => q[i][2] < q[j][2]
  BY <1>3, <1>4
<1> QED
  BY <1>2, <1>4, <1>5, <1>6 DEF Numbered, q

\* A conversion has the next number.
LEMMA NumberedOfConversion ==
  ASSUME NEW o \in Seq(Pieces), NEW p \in Pieces, NEW n \in Nat, Numbered(o, n), p[2] = n + 1
  PROVE  Numbered(Append(o, p), n + 1)
<1> DEFINE q == Append(o, p)
           N == Len(o)
           C == {i \in DOMAIN o : o[i][2] > 0}
           D == {i \in DOMAIN q : q[i][2] > 0}
<1>1. /\ N \in Nat /\ DOMAIN o = 1..N /\ DOMAIN q = 1..(N + 1)
      /\ q[N + 1] = p /\ \A i \in 1..N : q[i] = o[i]
  OBVIOUS
<1> HIDE DEF q, N
<1>2. D = C \union {N + 1}
  <2>1. q[N + 1][2] > 0 /\ N + 1 \in DOMAIN q
    BY <1>1
  <2>2. \A i \in DOMAIN q : i \in DOMAIN o \/ i = N + 1
    BY <1>1
  <2>3. \A i \in DOMAIN o : i \in DOMAIN q /\ q[i] = o[i]
    BY <1>1
  <2> QED
    BY <2>1, <2>2, <2>3
<1>3. /\ \A i, j \in C : i < j => o[i][2] < o[j][2]
      /\ {o[i][2] : i \in C} = 1..n
  BY DEF Numbered
<1>4. \A i \in C : /\ q[i] = o[i] /\ i \in Int /\ i < N + 1
                   /\ o[i][2] \in 1..n
  <2>1. \A i \in C : o[i][2] \in {o[k][2] : k \in C}
    OBVIOUS
  <2>2. \A i \in C : i \in 1..N
    BY <1>1
  <2> HIDE DEF C
  <2> QED
    BY <1>1, <1>3, <2>1, <2>2
<1> HIDE DEF C, D
<1>5. {q[i][2] : i \in D} = 1..(n + 1)
  <2>1. {q[i][2] : i \in D} = {q[i][2] : i \in C} \union {q[N + 1][2]}
    BY <1>2
  <2>2. {q[i][2] : i \in C} = {o[i][2] : i \in C}
    BY <1>4
  <2>3. q[N + 1][2] = n + 1
    BY <1>1
  <2>4. 1..(n + 1) = (1..n) \union {n + 1}
    OBVIOUS
  <2> QED
    BY <1>3, <2>1, <2>2, <2>3, <2>4
<1>6. ASSUME NEW i \in D, NEW j \in D, i < j PROVE q[i][2] < q[j][2]
  <2>1. CASE i \in C /\ j \in C
    BY <1>3, <1>4, <1>6, <2>1
  <2>2. CASE i \in C /\ j = N + 1
    <3>1. q[i][2] \in 1..n /\ q[j][2] = n + 1
      BY <1>1, <1>4, <2>2
    <3> QED
      BY <3>1
  <2>3. CASE i = N + 1
    BY <1>1, <1>2, <1>4, <1>6, <2>3
  <2> QED
    BY <1>2, <2>1, <2>2, <2>3
<1> QED
  BY <1>5, <1>6 DEF Numbered, D, q

\* AllNumbered is inductive: only a conversion has a number, the next one.
LEMMA NumberedStep ==
  ASSUME IInv, [Next]_vars
  PROVE  AllNumbered'
<1>1. /\ WalkType /\ out \in Seq(Pieces) /\ taken \in Nat
      /\ pc \in {"while", "converting", "returned"}
      /\ pc # "converting" => Numbered(out, taken)
      /\ pc = "converting" => Numbered(out, taken - 1)
  BY DEF IInv, WalkType, AllNumbered
<1>2. ASSUME pc' # "converting", Numbered(out', taken') PROVE AllNumbered'
  BY <1>2 DEF AllNumbered
<1>3. CASE \E i : Run(i)
  <2>1. PICK i : Run(i)
    BY <1>3
  <2> DEFINE l == Literally(call.format, i, RunEnd(call.format, i))
  <2>2. taken' = taken /\ pc' = "while" /\ pc = "while"
    BY <2>1 DEF Run
  <2>3. l \in Seq(Pieces) /\ out' = out \o l
    BY <1>1, <2>1, RunFacts
  <2>4. \A k \in 1..Len(l) : l[k][2] = 0
    <3>1. \A k \in DOMAIN l : l[k][2] = 0
      BY DEF Literally
    <3> HIDE DEF l
    <3>2. DOMAIN l = 1..Len(l)
      BY <2>3
    <3> QED
      BY <3>1, <3>2
  <2> HIDE DEF l
  <2>5. Numbered(out \o l, taken)
    BY <1>1, <2>2, <2>3, <2>4, NumberedOfRun
  <2> QED
    BY <1>2, <2>2, <2>3, <2>5
<1>4. CASE CharOrString
  <2> DEFINE t == <<va_arg>>
             p == <<Specifier, taken + 1, t>>
  <2>1. p \in Pieces /\ out' = Append(out, p) /\ taken' = taken + 1 /\ pc = "while" /\ pc' = "while"
    BY <1>4, CharOrStringFacts
  <2>2. p[2] = taken + 1
    OBVIOUS
  <2> HIDE DEF p
  <2>3. Numbered(out', taken + 1)
    BY <1>1, <2>1, <2>2, NumberedOfConversion
  <2> QED
    BY <1>2, <2>1, <2>3
<1>5. CASE Number
  <2>1. /\ out' = (IF Specifier = "x" THEN Append(out, Hex) ELSE out)
        /\ taken' = taken + 1 /\ pc = "while" /\ pc' = "converting"
    BY <1>5, NumberFacts DEF Number
  <2>2. Numbered(Append(out, Hex), taken)
    <3> DEFINE l == <<Hex>>
    <3>1. l \in Seq(Pieces) /\ Len(l) = 1 /\ l[1] = Hex
      BY OriginFacts
    <3>2. Hex[2] = 0
      BY DEF Hex
    <3>3. Append(out, Hex) = out \o l
      BY <1>1, <3>1
    <3> HIDE DEF l
    <3>4. \A i \in 1..Len(l) : l[i][2] = 0
      BY <3>1, <3>2
    <3>5. Numbered(out \o l, taken)
      BY <1>1, <2>1, <3>1, <3>4, NumberedOfRun
    <3> QED
      BY <3>3, <3>5
  <2>3. taken' - 1 = taken
    BY <1>1, <2>1
  <2>4. Numbered(out', taken' - 1)
    BY <1>1, <2>1, <2>2, <2>3
  <2> QED
    BY <2>1, <2>4 DEF AllNumbered
<1>6. CASE PrintNumeral
  <2> DEFINE p == <<Specifier, taken, buffer>>
             n == taken - 1
  <2>1. /\ p \in Pieces /\ out' = Append(out, p) /\ taken' = taken /\ taken > 0
        /\ pc = "converting" /\ pc' = "while"
    BY <1>6, PrintNumeralFacts
  <2>2. n \in Nat /\ p[2] = n + 1 /\ n + 1 = taken
    BY <1>1, <2>1
  <2>3. Numbered(out, n)
    BY <1>1, <2>1
  <2> HIDE DEF p, n
  <2>4. Numbered(Append(out, p), n + 1)
    BY <1>1, <2>1, <2>2, <2>3, NumberedOfConversion
  <2> QED
    BY <1>2, <2>1, <2>2, <2>4
<1>7. CASE Return
  <2>1. out' = out /\ taken' = taken /\ pc = "while" /\ pc' = "returned"
    BY <1>7 DEF Return
  <2> QED
    BY <1>1, <1>2, <2>1
<1>8. CASE UNCHANGED <<walk, fn, given, base>>
  <2>1. out' = out /\ taken' = taken /\ pc' = pc
    BY <1>8 DEF walk
  <2> QED
    BY <1>1, <2>1 DEF AllNumbered
<1> QED
  BY <1>3, <1>4, <1>5, <1>6, <1>7, <1>8, WalkSteps

-----------------------------------------------------------------------------
(* vprintf prints the same.                                                *)

\* The text of a conversion is that of vprintf.
LEMMA TextIsNumeralOf ==
  ASSUME IInv, PrintNumeral, call.args[taken] # INT_MIN
  PROVE  buffer = Numeral(Specifier, call.args[taken])
<1> DEFINE n == call.args[taken]
<1>1. /\ ConversionType /\ (Exact => Converting) /\ step = "done" /\ pc = "converting"
      /\ Specifier \in Numbers /\ fn = Converter[Specifier] /\ base = Radius[Specifier]
      /\ given = n
  BY DEF IInv, AtSpecifier, PrintNumeral
<1>2. Exact
  BY <1>1 DEF Exact
<1>3. buffer = Text
  BY <1>1, <1>2 DEF Converting
<1> HIDE DEF n
<1>4. CASE Specifier \in {"d", "i"}
  <2>1. fn = "itoa" /\ base = 10 /\ Size = IF n < 0 THEN -n ELSE n
    BY <1>1, <1>4 DEF Converter, Radius, Size, Signed
  <2>2. Text = IF n < 0 THEN <<MINUS>> \o Digits(-n, 10) ELSE Digits(n, 10)
    BY <1>1, <2>1 DEF Text
  <2> QED
    BY <1>3, <1>4, <2>2 DEF Numeral, n
<1>5. CASE Specifier = "l"
  <2>1. fn = "ltoa" /\ base = 10 /\ Size = IF n < 0 THEN -n ELSE n
    BY <1>1, <1>5 DEF Converter, Radius, Size, Signed
  <2>2. Text = Digits(IF n < 0 THEN -n ELSE n, 10)
    BY <2>1 DEF Text
  <2> QED
    BY <1>3, <1>5, <2>2 DEF Numeral, n
<1>6. CASE Specifier = "o"
  <2>1. fn = "utoa" /\ base = 8 /\ Size = n % WIDTH
    BY <1>1, <1>6 DEF Converter, Radius, Size, Signed
  <2>2. Text = Digits(n % WIDTH, 8)
    BY <2>1 DEF Text
  <2> QED
    BY <1>3, <1>6, <2>2 DEF Numeral, n
<1>7. CASE Specifier = "x"
  <2>1. fn = "ultoa" /\ base = 16 /\ Size = n % WIDTH
    BY <1>1, <1>7 DEF Converter, Radius, Size, Signed
  <2>2. Text = Digits(n % WIDTH, 16)
    BY <2>1 DEF Text
  <2> QED
    BY <1>3, <1>7, <2>2 DEF Numeral, n
<1> QED
  BY <1>1, <1>4, <1>5, <1>6, <1>7 DEF Numbers

\* A piece at the end of a text is one in front of what follows.
LEMMA PieceInFront ==
  ASSUME NEW S, NEW o \in Seq(S), NEW p \in S, NEW r \in Seq(S)
  PROVE  Append(o, p) \o r = o \o (<<p>> \o r)
<1> DEFINE e == <<p>>
<1>1. Append(o, p) = o \o e /\ e \in Seq(S)
  OBVIOUS
<1> HIDE DEF e
<1>2. (o \o e) \o r = o \o (e \o r)
  BY <1>1, ConcatAssociative, SMTT(30)
<1> QED
  BY <1>1, <1>2 DEF e

\* Copied is inductive: each step prints what vprintf prints from the same place.
LEMMA CopiedStep ==
  ASSUME IInv, [Next]_vars, INT_MIN \notin Range(call'.args)
  PROVE  Copied'
<1> DEFINE format == call.format
           args == call.args
           v == Printing(format, args)
           S == Printable(format, args)
           w == <<at, taken, rejected>>
           all == v[<<1, 0, FALSE>>]
<1>1. /\ WalkType /\ out \in Seq(Pieces) /\ taken \in Nat /\ rejected \in BOOLEAN
      /\ at \in 1..(Len(format) + 1)
      /\ IsFormat(format) /\ Len(format) \in Nat /\ 2 * Len(args) >= Len(format) - 1
      /\ args \in Seq(Ints)
  BY CallFacts, CharFacts DEF IInv, WalkType
<1>2. call' = call
  BY WalkSteps DEF Run, CharOrString, Number, PrintNumeral, Return, walk
<1>3. INT_MIN \notin Range(args)
  BY <1>2
<1>4. /\ pc # "converting" => out \o v[w] = all
      /\ pc = "converting" =>
           out \o (<<<<Specifier, taken, Numeral(Specifier, args[taken])>>>>
                     \o v[<<at + 2, taken, rejected>>]) = all
  BY <1>3 DEF IInv, Copied
<1>5. /\ \A x \in Walks(format) : v[x] \in Seq(S)
      /\ \A x \in Walks(format) :
           v[x] = IF Char(format, x[1]) = NUL THEN <<>>
                  ELSE Ahead(format, args, x) \o v[After(format, x)]
  BY <1>1, PrintingFacts DEF IsPrinting
<1>6. w \in Walks(format) /\ w[1] = at /\ w[2] = taken /\ w[3] = rejected
  BY <1>1 DEF Walks
<1>7. out \in Seq(S) /\ Pieces \subseteq S
  <2>1. Pieces \subseteq S
    BY DEF Printable
  <2> HIDE DEF S
  <2> QED
    BY <1>1, <2>1
<1>8. ASSUME pc' # "converting", out' \o v[<<at', taken', rejected'>>] = all
      PROVE  Copied'
  BY <1>2, <1>8 DEF Copied
<1>9. Char(format, at) = Now /\ Char(format, at + 1) = Specifier
  BY DEF Now, Specifier
<1>10. Now # NUL => /\ v[w] = Ahead(format, args, w) \o v[After(format, w)]
                    /\ After(format, w) \in Walks(format) /\ v[After(format, w)] \in Seq(S)
  <2> HIDE DEF v, S, w
  <2> QED
    BY <1>1, <1>5, <1>6, <1>9, AfterFacts
<1> HIDE DEF w, all
<1>11. CASE \E i : Run(i)
  <2>1. PICK i : Run(i)
    BY <1>11
  <2> DEFINE l == Literally(format, i, RunEnd(format, i))
  <2>2. pc' = "while" /\ pc = "while" /\ taken' = taken
    BY <2>1 DEF Run
  <2>3. l \in Seq(Pieces) /\ out' = out \o l /\ at' = RunEnd(format, i)
    BY <1>1, <2>1, RunFacts
  <2>4. /\ Now # NUL
        /\ Ahead(format, args, w) = l
        /\ After(format, w) = <<at', taken', rejected'>>
    <3>1. \/ i = at /\ Now \notin {NUL, "%"} /\ rejected' = rejected
          \/ i = at + 1 /\ Now = "%" /\ Specifier = "%" /\ rejected' = rejected
          \/ /\ i = at /\ Now = "%" /\ Specifier # "%" /\ rejected' = TRUE
             /\ rejected \/ Specifier \notin Specifiers
      BY <2>1 DEF Run
    <3>2. "%" # NUL
      BY DEF NUL
    <3>3. CASE i = at /\ Now \notin {NUL, "%"} /\ rejected' = rejected
      BY <1>6, <1>9, <2>2, <2>3, <3>3 DEF Ahead, After
    <3>4. CASE i = at + 1 /\ Now = "%" /\ Specifier = "%" /\ rejected' = rejected
      BY <1>6, <1>9, <2>2, <2>3, <3>2, <3>4 DEF Ahead, After
    <3>5. CASE /\ i = at /\ Now = "%" /\ Specifier # "%" /\ rejected' = TRUE
               /\ rejected \/ Specifier \notin Specifiers
      BY <1>6, <1>9, <2>2, <2>3, <3>2, <3>5 DEF Ahead, After
    <3> QED
      BY <3>1, <3>3, <3>4, <3>5
  <2> DEFINE r == v[<<at', taken', rejected'>>]
  <2>5. v[w] = l \o r /\ r \in Seq(S)
    BY <1>10, <2>4
  <2> HIDE DEF l, r, v, S
  <2>6. l \in Seq(S)
    BY <1>7, <2>3
  <2>7. (out \o l) \o r = out \o (l \o r)
    BY <1>7, <2>5, <2>6, ConcatAssociative, SMTT(30)
  <2>8. out' \o r = all
    BY <1>4, <2>2, <2>3, <2>5, <2>7
  <2> QED
    BY <1>8, <2>2, <2>8 DEF r
<1>12. ASSUME Now = "%", Specifier \in Specifiers, rejected = FALSE
       PROVE  LET p == <<Specifier, taken + 1, Numeral(Specifier, args[taken + 1])>>
                  r == v[<<at + 2, taken + 1, rejected>>]
              IN  /\ v[w] = ((IF Specifier = "x" THEN <<Hex>> ELSE <<>>) \o <<p>>) \o r
                  /\ p \in S /\ r \in Seq(S)
  <2> DEFINE p == <<Specifier, taken + 1, Numeral(Specifier, args[taken + 1])>>
  <2>1. Now # NUL /\ Specifier # "%"
    BY <1>12 DEF NUL, Specifiers, Numbers
  <2>2. Ahead(format, args, w) = (IF Specifier = "x" THEN <<Hex>> ELSE <<>>) \o <<p>>
    BY <1>6, <1>9, <1>12, <2>1 DEF Ahead
  <2>3. After(format, w) = <<at + 2, taken + 1, rejected>>
    BY <1>6, <1>9, <1>12, <2>1 DEF After
  <2>4. p \in S
    <3>1. p = <<Char(format, w[1] + 1), w[2] + 1,
                Numeral(Char(format, w[1] + 1), args[w[2] + 1])>>
      BY <1>6, <1>9
    <3> HIDE DEF p
    <3> QED
      BY <1>6, <3>1 DEF Printable
  <2> HIDE DEF p, v, S
  <2> QED
    BY <1>10, <2>1, <2>2, <2>3, <2>4 DEF p
<1>13. CASE CharOrString
  <2> DEFINE t == <<va_arg>>
             p == <<Specifier, taken + 1, t>>
             r == v[<<at + 2, taken + 1, rejected>>]
  <2>1. /\ Specifier \in {"c", "s"} /\ Specifier \in Specifiers /\ Now = "%" /\ rejected = FALSE
        /\ out' = Append(out, p) /\ at' = at + 2 /\ taken' = taken + 1 /\ rejected' = rejected
        /\ pc = "while" /\ pc' = "while"
    BY <1>13, CharOrStringFacts
  <2>2. Numeral(Specifier, args[taken + 1]) = t
    BY <2>1 DEF Numeral, Numbers, va_arg
  <2> HIDE DEF t
  <2>3. /\ v[w] = ((IF Specifier = "x" THEN <<Hex>> ELSE <<>>) \o <<p>>) \o r
        /\ p \in S /\ r \in Seq(S)
    BY <1>12, <2>1, <2>2
  <2> HIDE DEF p, r, v, S
  <2>4. Specifier # "x" /\ <<>> \o <<p>> = <<p>>
    BY <2>1
  <2>5. v[w] = <<p>> \o r
    BY <2>3, <2>4
  <2>6. Append(out, p) \o r = out \o (<<p>> \o r)
    BY <1>7, <2>3, PieceInFront
  <2>7. out' \o r = all
    BY <1>4, <2>1, <2>5, <2>6
  <2> QED
    BY <1>8, <2>1, <2>7 DEF r
<1>14. CASE Number
  <2> DEFINE p == <<Specifier, taken + 1, Numeral(Specifier, args[taken + 1])>>
             r == v[<<at + 2, taken + 1, rejected>>]
             h == IF Specifier = "x" THEN <<Hex>> ELSE <<>>
  <2>1. /\ Specifier \in Specifiers /\ Now = "%" /\ rejected = FALSE /\ pc = "while"
    BY <1>14, NumberFacts DEF Specifiers
  <2>2. /\ out' = (IF Specifier = "x" THEN Append(out, Hex) ELSE out) /\ pc' = "converting"
        /\ at' = at /\ taken' = taken + 1 /\ rejected' = rejected
    BY <1>14 DEF Number
  <2>3. v[w] = (h \o <<p>>) \o r /\ p \in S /\ r \in Seq(S)
    BY <1>12, <2>1
  <2> HIDE DEF v, S
  <2>4. h \in Seq(S) /\ out' = out \o h
    <3>1. Hex \in S
      BY <1>7, OriginFacts
    <3> QED
      BY <1>7, <2>2, <3>1
  <2> HIDE DEF p, r, h
  <2>5. (out \o h) \o (<<p>> \o r) = out \o ((h \o <<p>>) \o r)
    <3> DEFINE e == <<p>>
    <3>1. e \in Seq(S)
      BY <2>3
    <3> HIDE DEF e
    <3>2. e \o r \in Seq(S)
      BY <2>3, <3>1
    <3>3. (h \o e) \o r = h \o (e \o r)
      BY <2>3, <2>4, <3>1, ConcatAssociative, SMTT(30)
    <3>4. (out \o h) \o (e \o r) = out \o (h \o (e \o r))
      BY <1>7, <2>4, <3>2, ConcatAssociative, SMTT(30)
    <3> QED
      BY <3>3, <3>4 DEF e
  <2>6. out' \o (<<p>> \o r) = all
    BY <1>4, <2>1, <2>3, <2>4, <2>5
  <2>7. Specifier' = Specifier
    BY <1>2, <2>2 DEF Specifier
  <2>8. out' \o (<<<<Specifier', taken', Numeral(Specifier', args[taken'])>>>>
                   \o v[<<at' + 2, taken', rejected'>>]) = all
    BY <2>2, <2>6, <2>7 DEF p, r
  <2> QED
    BY <1>2, <2>2, <2>8 DEF Copied, v, all
<1>15. CASE PrintNumeral
  <2> DEFINE p == <<Specifier, taken, buffer>>
             r == v[<<at + 2, taken, rejected>>]
  <2>1. /\ at + 1 \in 1..Len(format) /\ taken > 0 /\ 2 * taken <= at + 1
        /\ p \in Pieces /\ out' = Append(out, p) /\ at' = at + 2 /\ taken' = taken
        /\ rejected' = rejected /\ pc = "converting" /\ pc' = "while"
    BY <1>15, PrintNumeralFacts
  <2>2. taken \in 1..Len(args)
    BY <1>1, <2>1
  <2>3. args[taken] # INT_MIN
    BY <1>1, <1>3, <2>2 DEF Range
  <2>4. buffer = Numeral(Specifier, args[taken])
    BY <1>15, <2>3, TextIsNumeralOf
  <2>5. r \in Seq(S)
    <3>1. at + 2 \in 1..(Len(format) + 1)
      BY <1>1, <2>1
    <3>2. <<at + 2, taken, rejected>> \in Walks(format)
      BY <1>1, <3>1 DEF Walks
    <3> QED
      BY <1>5, <3>2
  <2>6. out \o (<<p>> \o r) = all
    BY <1>4, <2>1, <2>4
  <2> HIDE DEF p, r, v, S
  <2>7. Append(out, p) \o r = out \o (<<p>> \o r)
    BY <1>7, <2>1, <2>5, PieceInFront
  <2>8. out' \o r = all
    BY <2>1, <2>6, <2>7
  <2> QED
    BY <1>8, <2>1, <2>8 DEF r
<1>16. CASE Return
  <2>1. /\ out' = out /\ taken' = taken /\ rejected' = rejected /\ pc = "while" /\ pc' = "returned"
        /\ at' = at
    BY <1>16 DEF Return
  <2> QED
    BY <1>4, <1>8, <2>1 DEF w
<1>17. CASE UNCHANGED <<walk, fn, given, base>>
  <2>1. /\ out' = out /\ taken' = taken /\ rejected' = rejected /\ pc' = pc /\ at' = at
    BY <1>17 DEF walk
  <2>2. Specifier' = Specifier
    BY <1>2, <2>1 DEF Specifier
  <2> QED
    BY <1>2, <1>3, <2>1, <2>2 DEF Copied, IInv
<1> QED
  BY <1>11, <1>13, <1>14, <1>15, <1>16, <1>17, WalkSteps

-----------------------------------------------------------------------------
\* A step preserves the invariant.
LEMMA NextIInv == IInv /\ [Next]_vars => IInv'
<1> SUFFICES ASSUME IInv, [Next]_vars PROVE IInv'
  OBVIOUS
<1>1. ConversionType' /\ WalkType' /\ AtSpecifier' /\ Kept' /\ AllNumbered'
  BY TypeOfConversion, TypeOfWalk, AtSpecifierStep, KeptStep, NumberedStep
<1>2. Exact' => Converting'
  BY StepOfConversion
<1>3. INT_MIN' \notin Range(call'.args) => Copied'
  <2>1. INT_MIN' = INT_MIN
    BY DEF INT_MIN
  <2> QED
    BY <2>1, CopiedStep
<1> QED
  BY <1>1, <1>2, <1>3 DEF IInv

\* The inductive invariant: the digits of the conversion in progress, the place in the
\* format, what was printed against what is to come (printf.c:26-213).
THEOREM Invariant == Spec => []IInv
<1>1. Init => IInv
  BY InitIInv
<1>2. IInv /\ [Next]_vars => IInv'
  BY NextIInv
<1> QED
  BY <1>1, <1>2, PTL DEF Spec

-----------------------------------------------------------------------------
\* When a conversion is done its text is the numeral of Size, behind a minus if need be.
LEMMA IInvTextIsNumeral == IInv => TextIsNumeral
<1> SUFFICES ASSUME IInv, step = "done", buffer # <<>>, ~(fn \in Signed /\ given = INT_MIN)
             PROVE  LET digits == IF buffer[1] = MINUS THEN Tail(buffer) ELSE buffer
                    IN  /\ ~(fn = "ltoa" /\ given < 0) => Value(buffer, base) = Meant
                        /\ \A i \in DOMAIN digits : digits[i] \in 0..(base - 1)
                        /\ digits[1] = 0 => Len(digits) = 1
  BY DEF TextIsNumeral
<1> DEFINE s == Digits(Size, base)
<1>1. ConversionType /\ Exact /\ Converting
  BY DEF IInv, Exact
<1>2. buffer = Text
  BY <1>1 DEF Converting
<1>3. IsNumeralOf(s, Size, base) /\ s \in Seq(Int) /\ s # <<>>
  BY <1>1, TextFacts
<1>4. /\ Len(s) \in Nat /\ Len(s) > 0 /\ DOMAIN s = 1..Len(s) /\ Magnitude(s, base) = Size
      /\ \A i \in 1..Len(s) : s[i] \in 0..(base - 1)
      /\ s[1] = 0 => Len(s) = 1
  BY <1>3 DEF IsNumeralOf
<1>5. /\ fn \in {"itoa", "utoa", "ltoa", "ultoa"} /\ given \in Int
      /\ MINUS \in Int /\ MINUS < 0 /\ base \in Nat
  BY <1>1, WidthFacts, SizeFacts DEF ConversionType, MINUS
<1> HIDE DEF s
<1>6. CASE fn = "itoa" /\ given < 0
  <2>1. buffer = <<MINUS>> \o s
    BY <1>2, <1>6 DEF Text, s
  <2>2. buffer[1] = MINUS /\ Tail(buffer) = s
    BY <1>3, <1>5, <2>1
  <2>3. Meant = given /\ Size = -given
    BY <1>6 DEF Meant, Size, Signed
  <2>4. Value(buffer, base) = Meant
    <3>1. Value(buffer, base) = -Size
      BY <1>4, <2>2 DEF Value
    <3>2. -(-given) = given
      BY <1>5
    <3> QED
      BY <2>3, <3>1, <3>2
  <2> QED
    BY <1>4, <2>2, <2>4
<1>7. CASE ~(fn = "itoa" /\ given < 0)
  <2>1. buffer = s
    BY <1>2, <1>7 DEF Text, s
  <2>2. buffer[1] # MINUS
    <3>1. s[1] \in 0..(base - 1)
      BY <1>4
    <3> QED
      BY <1>5, <2>1, <3>1
  <2>3. ~(fn = "ltoa" /\ given < 0) => Meant = Size
    BY <1>5, <1>7 DEF Meant, Size, Signed
  <2>4. ~(fn = "ltoa" /\ given < 0) => Value(buffer, base) = Meant
    BY <1>4, <2>1, <2>2, <2>3 DEF Value
  <2> QED
    BY <1>4, <2>1, <2>2, <2>4
<1> QED
  BY <1>6, <1>7

\* At the end nothing is to come: what was printed is the format.
LEMMA IInvFormatIsKept == IInv => FormatIsKept
<1> SUFFICES ASSUME IInv, pc = "returned" PROVE FormatIsKept
  BY DEF FormatIsKept
<1> DEFINE u == Unescaping(call.format)
           N == Len(call.format)
<1>1. IsFormat(call.format) /\ N \in Nat /\ at \in 1..(N + 1) /\ out \in Seq(Pieces)
  BY CallFacts, CharFacts DEF IInv, WalkType
<1>2. IsUnescaping(u, call.format)
  BY <1>1, UnescapingFacts
<1>3. Now = NUL /\ Texts(out) \o u[at] = u[1] /\ Numbered(out, taken)
  BY DEF IInv, AtSpecifier, Kept, AllNumbered
<1>4. at = N + 1
  <2>1. at \in 1..N => Now # NUL
    BY <1>1, CharFacts DEF Now
  <2> QED
    BY <1>1, <1>3, <2>1
<1> HIDE DEF u
<1>5. u[at] = <<>>
  BY <1>2, <1>4 DEF IsUnescaping
<1>6. Texts(out) = u[1]
  <2> DEFINE s == Texts(out)
  <2>1. s \in Seq(Chars)
    <3>1. Hex \in Pieces
      BY OriginFacts
    <3> QED
      BY <1>1, <3>1, TextsOfAppend
  <2> HIDE DEF s
  <2>2. s \o <<>> = s
    BY <2>1
  <2> QED
    BY <1>3, <1>5, <2>2 DEF s
<1>7. FlattenSeq([i \in DOMAIN out |-> Origin(out[i])]) = Unescaped(call.format)
  BY <1>6 DEF Texts, Unescaped, u
<1> QED
  BY <1>3, <1>7 DEF FormatIsKept, Numbered

\* At the end nothing is to come from vprintf either.
LEMMA IInvSameTextAsVprintf == IInv => SameTextAsVprintf
<1> SUFFICES ASSUME IInv, pc = "returned", INT_MIN \notin Range(call.args)
             PROVE  out = vprintf(call.format, call.args)
  BY DEF SameTextAsVprintf
<1> DEFINE v == Printing(call.format, call.args)
           w == <<at, taken, rejected>>
<1>1. /\ IsFormat(call.format) /\ at \in 1..(Len(call.format) + 1) /\ taken \in Nat
      /\ rejected \in BOOLEAN /\ out \in Seq(Pieces)
  BY CallFacts, CharFacts DEF IInv, WalkType
<1>2. IsPrinting(v, call.format, call.args)
  BY <1>1, PrintingFacts
<1>3. Char(call.format, at) = NUL /\ out \o v[w] = v[<<1, 0, FALSE>>]
  BY DEF IInv, AtSpecifier, Copied, Now
<1>4. w \in Walks(call.format) /\ w[1] = at
  BY <1>1 DEF Walks
<1> HIDE DEF v, w
<1>5. v[w] = <<>>
  BY <1>2, <1>3, <1>4 DEF IsPrinting
<1>6. out \o <<>> = out
  BY <1>1
<1>7. out = v[<<1, 0, FALSE>>]
  BY <1>3, <1>5, <1>6
<1> QED
  BY <1>7 DEF vprintf, v

\* Every text of itoa, utoa, ltoa and ultoa is the numeral of its number in its base,
\* whatever the width of an int, but for the two cases that TextIsNumeral leaves out:
\* the value of a negative long and the least int (printf.c:26-102).
THEOREM NumeralsRight == Spec => []TextIsNumeral
  BY Invariant, IInvTextIsNumeral, PTL

\* printf loses, repeats and mistakes nothing of its format, and takes the arguments in
\* order (printf.c:104-213).
THEOREM FormatKept == Spec => []FormatIsKept
  BY Invariant, IInvFormatIsKept, PTL

\* vprintf prints what printf prints (printf.c:26-213, vprintf.c).
THEOREM SameText == Spec => []SameTextAsVprintf
  BY Invariant, IInvSameTextAsVprintf, PTL
=============================================================================
