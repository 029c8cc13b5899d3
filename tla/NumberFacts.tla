------------------------------ MODULE NumberFacts ------------------------------
(* Facts about numbers and finite sets that the proofs share. *)
EXTENDS Naturals, FiniteSets, TLAPS, FiniteSetTheorems, WellFoundedInduction

(* A non-empty set of numbers has a smallest one. *)
LEMMA SmallestOf ==
  ASSUME NEW S \in SUBSET Nat, S # {}
  PROVE  \E m \in S : \A n \in S : m <= n
<1>1. PICK m \in S : \A n \in S : <<n, m>> \notin OpToRel(<, Nat)
  BY NatLessThanWellFounded, WFMin
<1>2. \A n \in S : <<n, m>> \notin {ss \in Nat \X Nat : ss[1] < ss[2]}
  BY <1>1, Zenon DEF OpToRel
<1>3. \A n \in S : ~(n < m)
  BY <1>2
<1> QED
  BY <1>3

(* A non-empty set of numbers up to d has a largest one. *)
LEMMA LargestOf ==
  ASSUME NEW d \in Nat, NEW S \in SUBSET (1..d), S # {}
  PROVE  \E m \in S : \A n \in S : n <= m
<1> DEFINE Rests == {d - n : n \in S}
<1>1. Rests \in SUBSET Nat /\ Rests # {}
  <2>1. \A n \in S : d - n \in Nat
    OBVIOUS
  <2> QED
    BY <2>1
<1>2. PICK r \in Rests : \A q \in Rests : r <= q
  <2> HIDE DEF Rests
  <2> QED
    BY <1>1, SmallestOf
<1>3. PICK m \in S : r = d - m
  OBVIOUS
<1>4. \A n \in S : n <= m
  <2> SUFFICES ASSUME NEW n \in S PROVE n <= m
    OBVIOUS
  <2>1. d - m <= d - n
    BY <1>2, <1>3
  <2> QED
    BY <2>1
<1> QED
  BY <1>4

(* Induction, for a set of numbers. *)
LEMMA AllNumbers ==
  ASSUME NEW S \in SUBSET Nat, 0 \in S, \A n \in S : n + 1 \in S
  PROVE  \A n \in Nat : n \in S
<1> SUFFICES ASSUME Nat \ S # {} PROVE FALSE
  OBVIOUS
<1>1. PICK m \in Nat \ S : \A n \in Nat \ S : m <= n
  BY SmallestOf
<1>2. m - 1 \in Nat /\ m = (m - 1) + 1
  BY <1>1
<1>3. m - 1 \in S
  BY <1>1, <1>2
<1> QED
  BY <1>2, <1>3

(* f starts with x and goes on as F says. *)
Iterates(f, x, F) == f[0] = x /\ \A n \in Nat : f[n + 1] = F[f[n]]

(* What is iterated n times, is one thing. *)
LEMMA IteratesOnce ==
  ASSUME NEW f, NEW g, NEW x, NEW F, NEW d \in Nat,
         f[0] = x, \A n \in 0..d : n < d => f[n + 1] = F[f[n]],
         g[0] = x, \A n \in 0..d : n < d => g[n + 1] = F[g[n]]
  PROVE  f[d] = g[d]
<1> DEFINE S == {n \in Nat : n <= d => f[n] = g[n]}
<1>1. 0 \in S
  OBVIOUS
<1>2. ASSUME NEW n \in S PROVE n + 1 \in S
  OBVIOUS
<1>3. d \in S
  <2> HIDE DEF S
  <2>1. S \in SUBSET Nat
    BY DEF S
  <2> QED
    BY <1>1, <1>2, <2>1, AllNumbers
<1> QED
  BY <1>3

(* A function can be iterated. *)
LEMMA Iteration ==
  ASSUME NEW X, NEW x \in X, NEW F \in [X -> X]
  PROVE  \E f \in [Nat -> X] : Iterates(f, x, F)
<1> DEFINE Upto(n) == {g \in [0..n -> X] : g[0] = x /\ \A m \in 0..n : m < n => g[m + 1] = F[g[m]]}
           S == {n \in Nat : Upto(n) # {}}
<1>1. 0 \in S
  <2>1. [m \in 0..0 |-> x] \in Upto(0)
    OBVIOUS
  <2> QED
    BY <2>1
<1>2. ASSUME NEW n \in S PROVE n + 1 \in S
  <2>1. PICK g \in Upto(n) : TRUE
    OBVIOUS
  <2> DEFINE h == [m \in 0..n + 1 |-> IF m <= n THEN g[m] ELSE F[g[n]]]
  <2>2. n \in Nat /\ g[n] \in X
    BY <2>1
  <2>3. h \in [0..n + 1 -> X]
    BY <2>1, <2>2
  <2>4. h[0] = x /\ \A m \in 0..n + 1 : m < n + 1 => h[m + 1] = F[h[m]]
    BY <2>1, <2>2
  <2>5. n + 1 \in Nat
    BY <2>2
  <2> HIDE DEF h
  <2>6. h \in Upto(n + 1)
    BY <2>3, <2>4
  <2> QED
    BY <2>5, <2>6
<1>3. ASSUME NEW n \in Nat PROVE Upto(n) # {}
  <2> HIDE DEF Upto
  <2>1. S \in SUBSET Nat
    OBVIOUS
  <2> HIDE DEF S
  <2>2. n \in S
    BY <1>1, <1>2, <2>1, AllNumbers
  <2> QED
    BY <2>2 DEF S
<1> DEFINE run(n) == CHOOSE g \in Upto(n) : TRUE
           f == [n \in Nat |-> run(n)[n]]
<1>4. ASSUME NEW n \in Nat PROVE run(n) \in Upto(n)
  <2> HIDE DEF Upto
  <2> QED
    BY <1>3
<1>5. f \in [Nat -> X]
  <2> SUFFICES ASSUME NEW n \in Nat PROVE run(n)[n] \in X
    OBVIOUS
  <2> HIDE DEF run
  <2> QED
    BY <1>4
<1>6. f[0] = x
  <2> HIDE DEF run
  <2> QED
    BY <1>4
<1>7. ASSUME NEW n \in Nat PROVE f[n + 1] = F[f[n]]
  <2> HIDE DEF run
  <2>1. /\ run(n + 1) \in Upto(n + 1) /\ run(n) \in Upto(n)
    BY <1>4
  <2>2. run(n + 1)[n + 1] = F[run(n + 1)[n]]
    BY <2>1
  <2>3. run(n + 1)[n] = run(n)[n]
    <3>1. /\ run(n + 1)[0] = x
          /\ \A m \in 0..n : m < n => run(n + 1)[m + 1] = F[run(n + 1)[m]]
      BY <2>1
    <3>2. run(n)[0] = x /\ \A m \in 0..n : m < n => run(n)[m + 1] = F[run(n)[m]]
      BY <2>1
    <3> QED
      BY <3>1, <3>2, IteratesOnce
  <2> QED
    BY <2>2, <2>3
<1> QED
  BY <1>5, <1>6, <1>7 DEF Iterates

(* Induction on a measure. *)
LEMMA ByMeasure ==
  ASSUME NEW D, NEW M \in [D -> Nat], NEW S \in SUBSET D,
         \A k \in D : (\A j \in D : M[j] < M[k] => j \in S) => k \in S
  PROVE  S = D
<1> SUFFICES ASSUME D \ S # {} PROVE FALSE
  OBVIOUS
<1> DEFINE Sizes == {M[k] : k \in D \ S}
<1>1. Sizes \in SUBSET Nat /\ Sizes # {}
  OBVIOUS
<1>2. PICK m \in Sizes : \A n \in Sizes : m <= n
  <2> HIDE DEF Sizes
  <2> QED
    BY <1>1, SmallestOf
<1>3. PICK k \in D \ S : m = M[k]
  OBVIOUS
<1>4. ASSUME NEW j \in D, M[j] < M[k], j \notin S PROVE FALSE
  <2>1. M[j] \in Sizes
    BY <1>4
  <2>2. M[k] <= M[j] /\ M[k] \in Nat /\ M[j] \in Nat
    BY <1>2, <1>3, <2>1
  <2> QED
    BY <1>4, <2>2
<1> QED
  BY <1>3, <1>4

(* What F makes of a function at a point depends only on the function's values *)
(* at points of a smaller measure.                                             *)
Descends(F, M, D, X) ==
  \A g, h \in [D -> X] : \A k \in D :
    (\A j \in D : M[j] < M[k] => g[j] = h[j]) => F[g][k] = F[h][k]

(* Then there is a function that F leaves as it is.                            *)
HasFixpoint(F, D, X) == \E g \in [D -> X] : F[g] = g

LEMMA Recursion ==
  ASSUME NEW D, NEW X, NEW M \in [D -> Nat], NEW F \in [[D -> X] -> [D -> X]],
         [D -> X] # {}, Descends(F, M, D, X)
  PROVE  HasFixpoint(F, D, X)
<1>0. PICK g0 \in [D -> X] : TRUE
  OBVIOUS
<1>1. PICK f \in [Nat -> [D -> X]] : Iterates(f, g0, F)
  BY Iteration
<1>2. \A n \in Nat : f[n] \in [D -> X] /\ f[n + 1] = F[f[n]]
  BY <1>1 DEF Iterates
<1> DEFINE Settled(n) == \A k \in D : M[k] < n => f[n + 1][k] = f[n][k]
           S == {n \in Nat : Settled(n)}
<1>3. \A n \in Nat : n \in S
  <2>1. 0 \in S
    OBVIOUS
  <2>2. ASSUME NEW n \in S PROVE n + 1 \in S
    <3> SUFFICES ASSUME NEW k \in D, M[k] < n + 1 PROVE f[(n + 1) + 1][k] = f[n + 1][k]
      OBVIOUS
    <3>1. n \in Nat /\ n + 1 \in Nat
      OBVIOUS
    <3>2. \A j \in D : M[j] < M[k] => f[n + 1][j] = f[n][j]
      OBVIOUS
    <3>3. f[n] \in [D -> X] /\ f[n + 1] \in [D -> X]
      BY <1>2, <3>1
    <3> HIDE DEF S
    <3>4. F[f[n + 1]][k] = F[f[n]][k]
      BY <3>2, <3>3 DEF Descends
    <3> QED
      BY <1>2, <3>1, <3>4
  <2>3. S \in SUBSET Nat
    OBVIOUS
  <2> HIDE DEF S
  <2> QED
    BY <2>1, <2>2, <2>3, AllNumbers
<1> DEFINE g == [k \in D |-> f[M[k] + 1][k]]
<1>4. ASSUME NEW k \in D, NEW n \in Nat PROVE f[M[k] + 1 + n][k] = g[k]
  <2> DEFINE T == {m \in Nat : f[M[k] + 1 + m][k] = g[k]}
  <2>1. M[k] \in Nat /\ \A m \in Nat : /\ M[k] + 1 + m \in Nat /\ M[k] < M[k] + 1 + m
                                      /\ M[k] + 1 + (m + 1) = (M[k] + 1 + m) + 1
    OBVIOUS
  <2>2. 0 \in T
    <3>1. M[k] + 1 + 0 = M[k] + 1
      BY <2>1
    <3> QED
      BY <3>1
  <2>3. ASSUME NEW m \in T PROVE m + 1 \in T
    <3>1. Settled(M[k] + 1 + m)
      BY <1>3, <2>1
    <3>2. f[(M[k] + 1 + m) + 1][k] = f[M[k] + 1 + m][k]
      BY <2>1, <3>1
    <3> HIDE DEF g
    <3> QED
      BY <2>1, <3>2
  <2>4. T \in SUBSET Nat
    OBVIOUS
  <2> HIDE DEF T
  <2>5. n \in T
    BY <2>2, <2>3, <2>4, AllNumbers
  <2> QED
    BY <2>5 DEF T
<1>5. g \in [D -> X]
  BY <1>2
<1>6. ASSUME NEW k \in D PROVE F[g][k] = g[k]
  <2>1. ASSUME NEW j \in D, M[j] < M[k] PROVE f[M[k]][j] = g[j]
    <3> HIDE DEF g
    <3>1. M[k] - M[j] - 1 \in Nat /\ M[k] = M[j] + 1 + (M[k] - M[j] - 1)
      BY <2>1
    <3> QED
      BY <1>4, <3>1
  <2>2. F[f[M[k]]][k] = F[g][k]
    <3> HIDE DEF g
    <3> QED
      BY <1>2, <1>5, <2>1 DEF Descends
  <2>3. f[M[k] + 1] = F[f[M[k]]]
    BY <1>2
  <2> QED
    BY <2>2, <2>3
<1>7. F[g] = g
  <2> HIDE DEF g
  <2>1. F[g] \in [D -> X]
    BY <1>5
  <2> QED
    BY <1>5, <1>6, <2>1
<1> QED
  BY <1>5, <1>7 DEF HasFixpoint

(* R orders S: of two elements one comes before the other.                     *)
StrictlyOrders(R, S) ==
  /\ \A x, y \in S : x # y => <<x, y>> \in R \/ <<y, x>> \in R
  /\ \A x \in S : <<x, x>> \notin R
  /\ \A x, y, z \in S : <<x, y>> \in R /\ <<y, z>> \in R => <<x, z>> \in R

Preceding(x, R, S) == {y \in S : <<y, x>> \in R}

(* In a finite ordered set every place is taken, by one element: the one that  *)
(* so many others come before.                                                 *)
LEMMA PlacesTaken ==
  ASSUME NEW S, IsFiniteSet(S), NEW R, StrictlyOrders(R, S)
  PROVE  /\ \A x, y \in S :
              <<x, y>> \in R => Cardinality(Preceding(x, R, S)) < Cardinality(Preceding(y, R, S))
         /\ \A x \in S : Cardinality(Preceding(x, R, S)) \in Nat
         /\ \A n \in 1..Cardinality(S) : \E x \in S : Cardinality(Preceding(x, R, S)) = n - 1
<1> DEFINE place(x) == Cardinality(Preceding(x, R, S))
<1>1. \A x \in S : IsFiniteSet(Preceding(x, R, S)) /\ place(x) \in Nat
  <2> SUFFICES ASSUME NEW x \in S PROVE IsFiniteSet(Preceding(x, R, S)) /\ place(x) \in Nat
    OBVIOUS
  <2>1. Preceding(x, R, S) \in SUBSET S
    BY DEF Preceding
  <2>2. IsFiniteSet(Preceding(x, R, S))
    BY <2>1, FS_Subset
  <2> QED
    BY <2>2, FS_CardinalityType
<1>2. ASSUME NEW x \in S, NEW y \in S, <<x, y>> \in R PROVE place(x) < place(y)
  <2>1. Preceding(x, R, S) \in SUBSET Preceding(y, R, S)
    BY <1>2 DEF Preceding, StrictlyOrders
  <2>2. x \in Preceding(y, R, S) /\ x \notin Preceding(x, R, S)
    BY <1>2 DEF Preceding, StrictlyOrders
  <2>3. /\ place(x) <= place(y)
        /\ place(x) = place(y) => Preceding(y, R, S) = Preceding(x, R, S)
    BY <1>1, <2>1, FS_Subset
  <2> QED
    BY <1>1, <2>2, <2>3
<1>3. ASSUME NEW x \in S PROVE place(x) < Cardinality(S)
  <2>1. Preceding(x, R, S) \in SUBSET S /\ x \notin Preceding(x, R, S)
    BY DEF Preceding, StrictlyOrders
  <2>2. /\ place(x) <= Cardinality(S)
        /\ Cardinality(S) = place(x) => S = Preceding(x, R, S)
    BY <2>1, FS_Subset
  <2>3. Cardinality(S) \in Nat
    BY FS_CardinalityType
  <2> QED
    BY <1>1, <2>1, <2>2, <2>3
<1>4. ASSUME NEW n \in 1..Cardinality(S) PROVE \E x \in S : place(x) = n - 1
  <2> DEFINE f == [x \in S |-> place(x) + 1]
             T == 1..Cardinality(S)
  <2>1. Cardinality(S) \in Nat
    BY FS_CardinalityType
  <2>2. f \in [S -> T]
    BY <1>1, <1>3, <2>1
  <2>3. \A x, y \in S : x # y => f[x] # f[y]
    <3> SUFFICES ASSUME NEW x \in S, NEW y \in S, x # y PROVE place(x) # place(y)
      BY <1>1
    <3>1. place(x) < place(y) \/ place(y) < place(x)
      BY <1>2 DEF StrictlyOrders
    <3> QED
      BY <1>1, <3>1
  <2>4. f \in Injection(S, T)
    <3> HIDE DEF f
    <3> QED
      BY <2>2, <2>3 DEF Injection, IsInjective
  <2>5. IsFiniteSet(T) /\ Cardinality(T) = Cardinality(S)
    <3>1. IsFiniteSet(T) /\ Cardinality(T) = IF 1 > Cardinality(S) THEN 0 ELSE Cardinality(S) - 1 + 1
      BY <2>1, FS_Interval
    <3> QED
      BY <2>1, <3>1
  <2>6. f \in Surjection(S, T)
    <3> HIDE DEF f, T
    <3> QED
      BY <2>4, <2>5, FS_Injection
  <2>7. PICK x \in S : f[x] = n
    <3> HIDE DEF f
    <3> QED
      BY <2>6 DEF Surjection
  <2> QED
    BY <1>1, <2>7
<1> QED
  BY <1>1, <1>2, <1>4

(* A finite sequence of numbers has a largest one. *)
LEMMA LargestAt ==
  ASSUME NEW d \in Nat \ {0}, NEW f, \A n \in 1..d : f[n] \in Nat
  PROVE  \E m \in 1..d : \A n \in 1..d : f[n] <= f[m]
<1> DEFINE S == {k \in Nat : k < d => \E m \in 1..k + 1 : \A n \in 1..k + 1 : f[n] <= f[m]}
<1>1. 0 \in S
  <2>1. f[1] \in Nat
    OBVIOUS
  <2>2. 1..0 + 1 = {1}
    OBVIOUS
  <2> QED
    BY <2>1, <2>2
<1>2. ASSUME NEW k \in S PROVE k + 1 \in S
  <2> SUFFICES ASSUME k + 1 < d
               PROVE  \E m \in 1..(k + 1) + 1 : \A n \in 1..(k + 1) + 1 : f[n] <= f[m]
    OBVIOUS
  <2>1. PICK m \in 1..k + 1 : \A n \in 1..k + 1 : f[n] <= f[m]
    OBVIOUS
  <2>2. f[m] \in Nat /\ f[(k + 1) + 1] \in Nat /\ \A n \in 1..k + 1 : f[n] \in Nat
    OBVIOUS
  <2>3. /\ 1..(k + 1) + 1 = (1..k + 1) \cup {(k + 1) + 1}
    OBVIOUS
  <2>4. CASE f[(k + 1) + 1] <= f[m]
    BY <2>1, <2>3, <2>4
  <2>5. CASE ~(f[(k + 1) + 1] <= f[m])
    <3>1. \A n \in 1..(k + 1) + 1 : f[n] <= f[(k + 1) + 1]
      BY <2>1, <2>2, <2>3, <2>5
    <3> QED
      BY <2>3, <3>1
  <2> QED
    BY <2>4, <2>5
<1>3. S \in SUBSET Nat
  OBVIOUS
<1> HIDE DEF S
<1>4. d - 1 \in S
  BY <1>1, <1>2, <1>3, AllNumbers
<1>5. d - 1 \in Nat /\ d - 1 < d /\ (d - 1) + 1 = d
  OBVIOUS
<1> QED
  BY <1>4, <1>5 DEF S
================================================================================
