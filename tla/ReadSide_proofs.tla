---------------------------- MODULE ReadSide_proofs ----------------------------
(****************************************************************************)
(* For any legs, times and parent links: the causal order has every leg       *)
(* once, gives up one constraint per cycle of parent links, puts a child that *)
(* is not clearly asynchronous before its parent's response, is not moved by  *)
(* a late leg without children, and is that of the times where these          *)
(* contradict nothing.  And for any trace, rows, seed, direction and bounds:  *)
(* what the walk over that order returns is what the edge rule gives, and     *)
(* stays so when rows land that it met no leg of.                             *)
(****************************************************************************)
EXTENDS LegOrder, LineageWalk, NumberFacts

--------------------------------------------------------------------------------
(* The order of a trace's legs, from what a trace can be to the ranks and the  *)
(* sequence that order_legs makes of it.                                       *)

OrderTypes ==
  /\ parent \in [Interaction -> Interaction \cup {None}]
  /\ Legs \subseteq Leg /\ IsFiniteSet(Legs)
  /\ \A k \in Legs : time[k] \in Nat

Bounds == [k \in Legs |-> Bound(k)]
Ats == SortTimes(Bounds)
Owners == [k \in Legs |-> Owner(Bounds, Ats, k)]
Group == Groups(Owners)
Weights == [k \in Legs |-> Weight(Ats, Owners, k)]
Ranks == [k \in Legs |-> Rank(Weights, Owners, Group, k)]

LEMMA OrderedByRank ==
  OrderLegs => order' \in Ordered(Ranks)'
<1> SUFFICES ASSUME OrderLegs PROVE order' \in Ordered(Ranks)'
  OBVIOUS
<1>1. PICK bound, at, owner, groups, weight, rank :
        /\ bound = [k \in Legs |-> Bound(k)]' /\ at = SortTimes(bound)'
        /\ owner = [k \in Legs |-> Owner(bound, at, k)]'
        /\ groups = Groups(owner)'
        /\ weight = [k \in Legs |-> Weight(at, owner, k)]'
        /\ rank = [k \in Legs |-> Rank(weight, owner, groups, k)]'
        /\ order' \in Ordered(rank)'
  BY DEF OrderLegs
<1>2. bound = Bounds'
  BY <1>1 DEF Bounds
<1>3. at = Ats'
  BY <1>1, <1>2 DEF Ats
<1>4. owner = Owners'
  BY <1>1, <1>2, <1>3 DEF Owners
<1>5. groups = Group'
  BY <1>1, <1>4 DEF Group
<1>6. weight = Weights'
  BY <1>1, <1>3, <1>4 DEF Weights
<1>7. rank = Ranks'
  BY <1>1, <1>4, <1>5, <1>6 DEF Ranks
<1> QED
  BY <1>1, <1>7

--------------------------------------------------------------------------------
(* What x leads to: the least set that next[x] is in and next stays in.        *)
LEMMA BeyondFacts ==
  ASSUME NEW next, NEW x, NEW S
  PROVE  /\ Beyond(next, x, S) \subseteq S
         /\ \A z \in Beyond(next, x, S) \cup {x} : next[z] \in S => next[z] \in Beyond(next, x, S)
         /\ \A T \in SUBSET S :
              (\A z \in T \cup {x} : next[z] \in S => next[z] \in T) => Beyond(next, x, S) \subseteq T
  BY DEF Beyond

LEMMA BeyondStep ==
  ASSUME NEW next, NEW x, NEW S, next[x] \in S
  PROVE  Beyond(next, x, S) \subseteq {next[x]} \cup Beyond(next, next[x], S)
<1> DEFINE T == {next[x]} \cup Beyond(next, next[x], S)
<1>1. T \in SUBSET S /\ \A z \in T \cup {x} : next[z] \in S => next[z] \in T
  BY BeyondFacts
<1> HIDE DEF T
<1>2. Beyond(next, x, S) \subseteq T
  BY <1>1, BeyondFacts
<1> QED
  BY <1>2 DEF T

LEMMA CycleBack ==
  ASSUME NEW next, NEW x, NEW S, x \in Beyond(next, x, S)
  PROVE  \A y \in Beyond(next, x, S) : x \in Beyond(next, y, S)
<1> DEFINE T == {y \in Beyond(next, x, S) : x \in Beyond(next, y, S)}
<1>1. ASSUME NEW z \in T \cup {x}, next[z] \in S PROVE next[z] \in T
  <2>1. next[z] \in Beyond(next, x, S) /\ x \in Beyond(next, z, S)
    BY <1>1, BeyondFacts
  <2>2. x = next[z] \/ x \in Beyond(next, next[z], S)
    BY <1>1, <2>1, BeyondStep
  <2> QED
    BY <2>1, <2>2
<1>2. T \in SUBSET S
  BY BeyondFacts
<1>3. Beyond(next, x, S) \subseteq T
  <2> HIDE DEF T
  <2> QED
    BY <1>1, <1>2, BeyondFacts
<1> QED
  BY <1>3

(* Where next never leaves a finite set, it comes back to somewhere.           *)
LEMMA SomeCycle ==
  ASSUME NEW next, NEW S, NEW Q \in SUBSET S, IsFiniteSet(Q), Q # {},
         \A z \in Q : next[z] \in Q
  PROVE  \E k \in Q : k \in Beyond(next, k, S)
<1> DEFINE Closed == {T \in SUBSET Q : T # {} /\ \A z \in T : next[z] \in T}
           Sizes == {Cardinality(T) : T \in Closed}
<1>1. \A T \in SUBSET Q : IsFiniteSet(T) /\ Cardinality(T) \in Nat
  BY FS_Subset, FS_CardinalityType
<1>2. Sizes \in SUBSET Nat /\ Sizes # {}
  <2>1. Q \in Closed
    OBVIOUS
  <2> QED
    BY <1>1, <2>1
<1>3. PICK m \in Sizes : \A n \in Sizes : m <= n
  <2> HIDE DEF Sizes
  <2> QED
    BY <1>2, SmallestOf
<1>4. PICK T \in Closed : m = Cardinality(T)
  OBVIOUS
<1>5. ASSUME NEW U \in Closed, U \subseteq T PROVE U = T
  <2>1. Cardinality(T) <= Cardinality(U)
    BY <1>3, <1>4
  <2>2. /\ Cardinality(U) <= Cardinality(T) /\ (Cardinality(U) = Cardinality(T) => U = T)
        /\ Cardinality(U) \in Nat /\ Cardinality(T) \in Nat
    BY <1>1, <1>4, <1>5, FS_Subset
  <2> QED
    BY <2>1, <2>2
<1>6. PICK k \in T : TRUE
  BY <1>4
<1>7. ASSUME NEW U \in SUBSET S, \A z \in U \cup {k} : next[z] \in S => next[z] \in U
      PROVE  k \in U
  <2>1. U \cap T \in Closed
    BY <1>4, <1>6, <1>7
  <2> HIDE DEF Closed
  <2>2. U \cap T = T
    BY <1>5, <2>1
  <2> QED
    BY <1>6, <2>2
<1>8. k \in Q /\ k \in S
  BY <1>4, <1>6
<1> QED
  BY <1>7, <1>8 DEF Beyond

--------------------------------------------------------------------------------
(* The choice of the next leg. *)

LEMMA PrecederFacts ==
  ASSUME NEW k, Preceder(k) # None
  PROVE  Preceder(k) \in Legs /\ Preceder(k)[2] = "request"
  BY DEF Preceder, Present

(* As long as legs are left, one can be released.                              *)
LEMMA SomeReleasable ==
  ASSUME OrderTypes, NEW done \in SUBSET Legs, done # Legs
  PROVE  Releasable(done) # {} /\ Releasable(done) \subseteq Legs \ done
<1> DEFINE left == Legs \ done
           ready == {k \in left : Preceder(k) \in done \cup {None}}
<1>1. CASE ready # {}
  BY <1>1 DEF Releasable
<1>2. CASE ready = {}
  <2> DEFINE Q == {k \in left : k[2] = "request"}
             S == {j \in Legs : j[2] = "request"}
  <2>1. ASSUME NEW k \in left PROVE Preceder(k) \in Q
    BY <1>2, <2>1, PrecederFacts
  <2>2. Q \in SUBSET S /\ Q # {}
    BY <2>1
  <2>3. IsFiniteSet(Q)
    BY FS_Subset DEF OrderTypes
  <2>4. DOMAIN Waits = S /\ \A z \in Q : Waits[z] = Preceder(z)
    BY DEF Waits
  <2>5. \A z \in Q : Waits[z] \in Q
    BY <2>1, <2>4
  <2>6. \E k \in Q : k \in Beyond(Waits, k, S)
    <3> HIDE DEF Q, S
    <3> QED
      BY <2>2, <2>3, <2>5, SomeCycle
  <2>7. \E k \in left : OnCycle(k)
    BY <2>4, <2>6 DEF OnCycle
  <2> QED
    BY <1>2, <2>7 DEF Releasable
<1> QED
  BY <1>1, <1>2

(* The legs that come before the n-th. *)
Before(s, n) == {s[m] : m \in 1..n - 1}

(* A leg is one that could be released after those before it, and of these the *)
(* first in rank.                                                              *)
Chosen(s, rank) ==
  /\ s \in Seq(Legs)
  /\ \A m, n \in DOMAIN s : s[m] = s[n] => m = n
  /\ \A n \in DOMAIN s :
       /\ s[n] \in Releasable(Before(s, n))
       /\ \A j \in Releasable(Before(s, n)) : rank[s[n]] <= rank[j]

Complete(s) ==
  Len(s) = Cardinality(Legs) /\ \A k \in Legs : \E n \in DOMAIN s : s[n] = k

(* The legs of a sequence so far, chosen and counted.                          *)
Counted(s, n, rank) ==
  /\ Chosen(s, rank) /\ Len(s) = n
  /\ IsFiniteSet(Before(s, n + 1)) /\ Cardinality(Before(s, n + 1)) = n

LEMMA ChosenNext ==
  ASSUME OrderTypes, NEW rank \in [Legs -> Nat], NEW n \in Nat, n < Cardinality(Legs),
         NEW s, Counted(s, n, rank),
         NEW e, e = CHOOSE k \in Releasable(Before(s, n + 1)) :
                      \A j \in Releasable(Before(s, n + 1)) : rank[k] <= rank[j]
  PROVE  Counted(Append(s, e), n + 1, rank)
<1> DEFINE done == Before(s, n + 1)
           t == Append(s, e)
<1>1. s \in Seq(Legs) /\ Len(s) = n /\ DOMAIN s = 1..n
  BY DEF Counted, Chosen
<1>2. done \in SUBSET Legs /\ \A m \in 1..n : s[m] \in done
  BY <1>1 DEF Before
<1>3. done # Legs
  BY <1>2 DEF Counted
<1>4. e \in Releasable(done) /\ \A j \in Releasable(done) : rank[e] <= rank[j]
  <2>1. Releasable(done) # {} /\ Releasable(done) \subseteq Legs
    BY <1>2, <1>3, SomeReleasable
  <2> DEFINE S == {rank[k] : k \in Releasable(done)}
  <2>2. S \in SUBSET Nat /\ S # {}
    BY <2>1
  <2>3. \E m \in S : \A q \in S : m <= q
    <3> HIDE DEF S
    <3> QED
      BY <2>2, SmallestOf
  <2>4. \E k \in Releasable(done) : \A j \in Releasable(done) : rank[k] <= rank[j]
    BY <2>3
  <2> HIDE DEF done
  <2> QED
    BY <2>4 DEF done
<1>5. e \in Legs /\ e \notin done
  BY <1>2, <1>3, <1>4, SomeReleasable
<1>6. /\ t \in Seq(Legs) /\ Len(t) = n + 1 /\ DOMAIN t = 1..n + 1
      /\ t[n + 1] = e /\ \A m \in 1..n : t[m] = s[m]
  BY <1>1, <1>5
<1> HIDE DEF t
<1>7. \A m \in 1..n + 1 : Before(t, m) = Before(s, m)
  BY <1>6 DEF Before
<1>8. Chosen(t, rank)
  <2>1. ASSUME NEW m \in 1..n + 1
        PROVE  /\ t[m] \in Releasable(Before(t, m))
               /\ \A j \in Releasable(Before(t, m)) : rank[t[m]] <= rank[j]
    <3>1. CASE m = n + 1
      BY <1>4, <1>6, <1>7, <3>1
    <3>2. CASE m \in 1..n
      <4>1. t[m] = s[m] /\ m \in DOMAIN s /\ Before(t, m) = Before(s, m)
        BY <1>1, <1>6, <1>7, <3>2
      <4> QED
        BY <4>1 DEF Counted, Chosen
    <3> QED
      BY <3>1, <3>2
  <2>2. ASSUME NEW l \in 1..n + 1, NEW m \in 1..n + 1, t[l] = t[m] PROVE l = m
    <3>1. CASE l \in 1..n /\ m \in 1..n
      BY <1>1, <1>6, <2>2, <3>1 DEF Counted, Chosen
    <3>2. CASE l = n + 1 /\ m \in 1..n
      BY <1>2, <1>5, <1>6, <2>2, <3>2
    <3>3. CASE m = n + 1 /\ l \in 1..n
      BY <1>2, <1>5, <1>6, <2>2, <3>3
    <3> QED
      BY <3>1, <3>2, <3>3
  <2> QED
    BY <1>6, <2>1, <2>2 DEF Chosen
<1>9. IsFiniteSet(Before(t, n + 2)) /\ Cardinality(Before(t, n + 2)) = n + 1
  <2>1. 1..(n + 2) - 1 = 1..n \cup {n + 1} /\ 1..(n + 1) - 1 = 1..n
    OBVIOUS
  <2>2. Before(t, n + 2) = done \cup {e}
    BY <1>6, <2>1 DEF Before
  <2>3. IsFiniteSet(done) /\ Cardinality(done) = n
    BY DEF Counted
  <2> HIDE DEF done
  <2>4. /\ IsFiniteSet(done \cup {e})
        /\ Cardinality(done \cup {e}) = IF e \in done THEN Cardinality(done) ELSE Cardinality(done) + 1
    BY <2>3, FS_AddElement
  <2> QED
    BY <1>5, <2>2, <2>3, <2>4
<1>10. n + 1 + 1 = n + 2
  OBVIOUS
<1> QED
  BY <1>6, <1>8, <1>9, <1>10 DEF Counted, t

(* What order_legs returns is such a choice, of every leg.                     *)
LEMMA OrderedFacts ==
  OrderTypes =>
    \A rank \in [Legs -> Nat] : \A s \in Ordered(rank) : Chosen(s, rank) /\ Complete(s)
<1> SUFFICES ASSUME OrderTypes, NEW rank \in [Legs -> Nat]
             PROVE  \A s \in Ordered(rank) : Chosen(s, rank) /\ Complete(s)
  OBVIOUS
<1> DEFINE First(S) == CHOOSE k \in S : \A j \in S : rank[k] <= rank[j]
           Upto[n \in Nat] ==
             IF n = 0 THEN {<<>>}
             ELSE {Append(s, First(Releasable({s[m] : m \in 1..n - 1}))) :
                     s \in Upto[n - 1]}
           Step(n, T) == {Append(s, First(Releasable({s[m] : m \in 1..n - 1}))) : s \in T}
           Rule(g) == [n \in Nat |-> IF n = 0 THEN {<<>>} ELSE Step(n, g[n - 1])]
           V == {First(S) : S \in SUBSET Legs}
           X == SUBSET Seq(V)
           F == [g \in [Nat -> X] |-> Rule(g)]
           id == [n \in Nat |-> n]
           none == [n \in Nat |-> {}]
<1>1. Ordered(rank) = Upto[Cardinality(Legs)]
  BY DEF Ordered
<1>2. Upto = CHOOSE g : g = Rule(g)
  OBVIOUS
<1> HIDE DEF Upto
<1>3. \E g : g = Rule(g)
  <2>1. ASSUME NEW g \in [Nat -> X] PROVE Rule(g) \in [Nat -> X]
    <3> SUFFICES ASSUME NEW n \in Nat PROVE (IF n = 0 THEN {<<>>} ELSE Step(n, g[n - 1])) \in X
      OBVIOUS
    <3>1. CASE n = 0
      BY <3>1
    <3>2. CASE n # 0
      <4>1. g[n - 1] \in SUBSET Seq(V)
        <5>1. n - 1 \in Nat
          BY <3>2
        <5>2. g[n - 1] \in X
          <6> HIDE DEF X
          <6> QED
            BY <5>1
        <5> QED
          BY <5>2
      <4>2. ASSUME NEW s \in g[n - 1]
            PROVE  Append(s, First(Releasable({s[m] : m \in 1..n - 1}))) \in Seq(V)
        <5>1. Releasable({s[m] : m \in 1..n - 1}) \in SUBSET Legs
          BY DEF Releasable
        <5>2. First(Releasable({s[m] : m \in 1..n - 1})) \in V
          <6> HIDE DEF First
          <6> QED
            BY <5>1
        <5> HIDE DEF V, First
        <5> QED
          BY <4>1, <5>2
      <4> HIDE DEF V, First
      <4> QED
        BY <3>2, <4>2
    <3> QED
      BY <3>1, <3>2
  <2>2. F \in [[Nat -> X] -> [Nat -> X]] /\ \A g \in [Nat -> X] : F[g] = Rule(g)
    <3> HIDE DEF Rule, X
    <3> QED
      BY <2>1
  <2>3. ASSUME NEW g \in [Nat -> X], NEW h \in [Nat -> X], NEW k \in Nat,
               \A j \in Nat : id[j] < id[k] => g[j] = h[j]
        PROVE  F[g][k] = F[h][k]
    <3>1. k = 0 \/ g[k - 1] = h[k - 1]
      BY <2>3
    <3>2. Rule(g)[k] = Rule(h)[k]
      <4> HIDE DEF Step
      <4> QED
        BY <3>1
    <3> HIDE DEF F, Rule, X
    <3> QED
      BY <2>2, <3>2
  <2>4. id \in [Nat -> Nat] /\ none \in [Nat -> X]
    OBVIOUS
  <2>5. \E g \in [Nat -> X] : F[g] = g
    <3> HIDE DEF F, X, id, none, Rule
    <3>1. F \in [[Nat -> X] -> [Nat -> X]]
      BY <2>2
    <3>2. \A g, h \in [Nat -> X] : \A k \in Nat :
            (\A j \in Nat : id[j] < id[k] => g[j] = h[j]) => F[g][k] = F[h][k]
      BY <2>3
    <3>3. Descends(F, id, Nat, X)
      BY <3>2 DEF Descends
    <3>4. [Nat -> X] # {}
      BY <2>4
    <3>5. HasFixpoint(F, Nat, X)
      BY <2>4, <3>1, <3>3, <3>4, Recursion
    <3> QED
      BY <3>5 DEF HasFixpoint
  <2> HIDE DEF F, Rule, X
  <2> QED
    BY <2>2, <2>5
<1>4. Upto = Rule(Upto)
  <2> HIDE DEF Rule
  <2> QED
    BY <1>2, <1>3
<1>5. Upto[0] = {<<>>} /\ \A n \in Nat : Upto[n + 1] = Step(n + 1, Upto[n])
  <2> HIDE DEF Step
  <2>1. \A n \in Nat : n + 1 \in Nat /\ n + 1 # 0 /\ (n + 1) - 1 = n
    OBVIOUS
  <2> QED
    BY <1>4, <2>1
<1> DEFINE N == Cardinality(Legs)
           Good == {n \in Nat : n <= N => \A s \in Upto[n] : Counted(s, n, rank)}
<1>6. N \in Nat
  BY FS_CardinalityType DEF OrderTypes
<1>7. 0 \in Good
  <2>1. Before(<<>>, 0 + 1) = {}
    BY DEF Before
  <2>2. <<>> \in Seq(Legs) /\ Len(<<>>) = 0 /\ DOMAIN <<>> = {}
    OBVIOUS
  <2>3. Chosen(<<>>, rank)
    BY <2>2 DEF Chosen
  <2>4. Counted(<<>>, 0, rank)
    BY <2>1, <2>2, <2>3, FS_EmptySet DEF Counted
  <2> QED
    BY <1>5, <2>4
<1>8. ASSUME NEW n \in Good PROVE n + 1 \in Good
  <2> SUFFICES ASSUME n + 1 <= N, NEW t \in Upto[n + 1] PROVE Counted(t, n + 1, rank)
    OBVIOUS
  <2>1. n \in Nat /\ n < N
    BY <1>6
  <2>2. PICK s \in Upto[n] : t = Append(s, First(Releasable({s[m] : m \in 1..(n + 1) - 1})))
    BY <1>5, <2>1
  <2>3. Counted(s, n, rank)
    BY <1>6, <2>1
  <2>4. {s[m] : m \in 1..(n + 1) - 1} = Before(s, n + 1)
    BY DEF Before
  <2> QED
    BY <2>1, <2>2, <2>3, <2>4, ChosenNext
<1>9. N \in Good
  <2> HIDE DEF Good
  <2>1. Good \in SUBSET Nat
    BY DEF Good
  <2> QED
    BY <1>6, <1>7, <1>8, <2>1, AllNumbers
<1>10. ASSUME NEW s \in Upto[N] PROVE Chosen(s, rank) /\ Complete(s)
  <2>1. Counted(s, N, rank)
    BY <1>6, <1>9
  <2>2. Before(s, N + 1) = {s[m] : m \in DOMAIN s} /\ Before(s, N + 1) \in SUBSET Legs
    BY <1>6, <2>1 DEF Counted, Chosen, Before
  <2>3. Before(s, N + 1) = Legs
    BY <2>1, <2>2, FS_Subset DEF Counted, OrderTypes
  <2> QED
    BY <2>1, <2>2, <2>3 DEF Counted, Complete
<1> QED
  BY <1>1, <1>10

--------------------------------------------------------------------------------
(* One break per cycle. *)

OrderOf(rank) == OrderTypes /\ Chosen(order, rank) /\ Complete(order)

LEMMA PositionFacts ==
  ASSUME NEW rank, OrderOf(rank)
  PROVE  /\ Len(order) \in Nat /\ DOMAIN order = 1..Len(order)
         /\ \A k \in Legs : /\ Place(k) \in DOMAIN order /\ Place(k) \in Nat
                            /\ order[Place(k)] = k
         /\ \A n \in DOMAIN order : order[n] \in Legs /\ Place(order[n]) = n
<1>1. order \in Seq(Legs)
  BY DEF OrderOf, Chosen
<1>2. Len(order) \in Nat /\ DOMAIN order = 1..Len(order)
  BY <1>1
<1>3. ASSUME NEW k \in Legs PROVE Place(k) \in DOMAIN order /\ order[Place(k)] = k
  <2>1. \E n \in DOMAIN order : order[n] = k
    BY DEF OrderOf, Complete
  <2> QED
    BY <2>1 DEF Place
<1>4. ASSUME NEW n \in DOMAIN order PROVE order[n] \in Legs /\ Place(order[n]) = n
  <2>1. order[n] \in Legs
    BY <1>1
  <2>2. Place(order[n]) \in DOMAIN order /\ order[Place(order[n])] = order[n]
    BY <1>3, <2>1
  <2> QED
    BY <2>1, <2>2 DEF OrderOf, Chosen
<1> QED
  BY <1>2, <1>3, <1>4

LEMMA BeforeFacts ==
  ASSUME NEW rank, OrderOf(rank), NEW k \in Legs
  PROVE  /\ k \in Releasable(Before(order, Place(k)))
         /\ \A j \in Releasable(Before(order, Place(k))) : rank[k] <= rank[j]
         /\ \A j \in Legs : j \in Before(order, Place(k)) <=> Ahead(j, k)
<1>1. /\ Place(k) \in DOMAIN order /\ order[Place(k)] = k
      /\ Len(order) \in Nat /\ DOMAIN order = 1..Len(order)
  BY PositionFacts
<1>2. ASSUME NEW j \in Legs PROVE j \in Before(order, Place(k)) <=> Ahead(j, k)
  <2>1. Place(j) \in DOMAIN order /\ order[Place(j)] = j
    BY PositionFacts
  <2>2. ASSUME Ahead(j, k) PROVE j \in Before(order, Place(k))
    <3>1. Place(j) \in 1..Place(k) - 1
      BY <1>1, <2>1, <2>2 DEF Ahead
    <3> QED
      BY <2>1, <3>1 DEF Before
  <2>3. ASSUME j \in Before(order, Place(k)) PROVE Ahead(j, k)
    <3>1. PICK m \in 1..Place(k) - 1 : order[m] = j
      BY <2>3 DEF Before
    <3>2. m \in DOMAIN order /\ m < Place(k)
      BY <1>1, <3>1
    <3>3. Place(j) = m
      BY <3>1, <3>2, PositionFacts
    <3> QED
      BY <3>2, <3>3 DEF Ahead
  <2> QED
    BY <2>2, <2>3
<1> QED
  BY <1>1, <1>2 DEF OrderOf, Chosen

(* A leg is put before its preceder only when no leg is ready.                 *)
LEMMA BrokenFacts ==
  ASSUME NEW rank, OrderOf(rank), NEW k \in Legs,
         Preceder(k) # None, ~Ahead(Preceder(k), k)
  PROVE  /\ OnCycle(k)
         /\ \A j \in Legs : ~Ahead(j, k) => Preceder(j) \in Legs /\ ~Ahead(Preceder(j), k)
                                            /\ Preceder(j) # None
<1> DEFINE done == Before(order, Place(k))
           ready == {j \in Legs \ done : Preceder(j) \in done \cup {None}}
<1>1. k \in Releasable(done) /\ \A j \in Legs : j \in done <=> Ahead(j, k)
  BY BeforeFacts
<1>2. Preceder(k) \notin done \cup {None}
  BY <1>1, PrecederFacts
<1>3. ready = {} /\ OnCycle(k)
  BY <1>1, <1>2 DEF Releasable
<1>4. ASSUME NEW j \in Legs, ~Ahead(j, k)
      PROVE  Preceder(j) \in Legs /\ ~Ahead(Preceder(j), k) /\ Preceder(j) # None
  <2>1. Preceder(j) \notin done /\ Preceder(j) # None
    BY <1>1, <1>3, <1>4
  <2> QED
    BY <1>1, <2>1, PrecederFacts
<1> QED
  BY <1>3, <1>4

(* What the later of two broken legs is on the cycle with, was not released    *)
(* before it.                                                                  *)
LEMMA OneBroken ==
  ASSUME NEW rank, OrderOf(rank), NEW j \in Legs, NEW k \in Legs, Ahead(j, k),
         Preceder(k) # None, ~Ahead(Preceder(k), k)
  PROVE  j \notin Beyond(Waits, k, DOMAIN Waits)
<1> DEFINE S == DOMAIN Waits
           T == {i \in S : ~Ahead(i, k)}
<1>1. S = {i \in Legs : i[2] = "request"} /\ \A i \in S : Waits[i] = Preceder(i)
  BY DEF Waits
<1>2. OnCycle(k) /\ \A i \in Legs : ~Ahead(i, k) => Preceder(i) \in Legs
                            /\ ~Ahead(Preceder(i), k) /\ Preceder(i) # None
  BY BrokenFacts
<1>3. ~Ahead(k, k) /\ k \in S
  <2>1. Place(k) \in Nat
    BY PositionFacts
  <2> QED
    BY <1>2, <2>1 DEF Ahead, OnCycle
<1>4. T \in SUBSET S /\ \A z \in T \cup {k} : Waits[z] \in S => Waits[z] \in T
  BY <1>1, <1>2, <1>3
<1>5. Beyond(Waits, k, S) \subseteq T
  <2> HIDE DEF T, S
  <2> QED
    BY <1>4, BeyondFacts
<1> QED
  BY <1>5

LEMMA BreaksOnce ==
  ASSUME NEW rank, OrderOf(rank)
  PROVE  OneBreakPerCycle
<1> DEFINE broken == {k \in Legs : Preceder(k) # None /\ ~Ahead(Preceder(k), k)}
<1> SUFFICES ASSUME NEW k \in broken
             PROVE  OnCycle(k) /\ \A j \in broken \ {k} : j \notin Beyond(Waits, k, DOMAIN Waits)
  BY DEF OneBreakPerCycle
<1>1. OnCycle(k)
  BY BrokenFacts
<1>2. ASSUME NEW j \in broken \ {k}, j \in Beyond(Waits, k, DOMAIN Waits) PROVE FALSE
  <2>1. k \in Beyond(Waits, k, DOMAIN Waits)
    BY <1>1 DEF OnCycle
  <2>2. k \in Beyond(Waits, j, DOMAIN Waits)
    BY <1>2, <2>1, CycleBack
  <2>3. Ahead(j, k) \/ Ahead(k, j)
    <3>1. Place(j) \in Nat /\ Place(k) \in Nat /\ Place(j) # Place(k)
      BY <1>2, PositionFacts
    <3> QED
      BY <3>1 DEF Ahead
  <2> QED
    BY <1>2, <2>2, <2>3, OneBroken
<1> QED
  BY <1>1, <1>2

--------------------------------------------------------------------------------
(* Legs in groups, each at most in one other's, that never lead back.          *)
Forest(D, M, o, G) ==
  /\ M \in [D -> Nat]
  /\ \A k \in D : o[k] # None => o[k] \in D /\ M[o[k]] < M[k]
  /\ \A k \in D : G[k] = {k} \cup IF o[k] = None THEN {} ELSE G[o[k]]

LEMMA GroupFacts ==
  ASSUME NEW D, NEW M, NEW o, NEW G, Forest(D, M, o, G)
  PROVE  \A k \in D :
           /\ k \in G[k] /\ \A a \in G[k] : a \in D /\ G[a] \subseteq G[k]
           /\ \A a \in G[k] : a = k \/ (o[k] # None /\ a \in G[o[k]] /\ M[a] < M[k])
           /\ \A a, b \in G[k] : a \in G[b] \/ b \in G[a]
           /\ \E r \in G[k] : o[r] = None
<1> DEFINE Good(k) ==
             /\ k \in G[k] /\ \A a \in G[k] : a \in D /\ G[a] \subseteq G[k]
             /\ \A a \in G[k] : a = k \/ (o[k] # None /\ a \in G[o[k]] /\ M[a] < M[k])
             /\ \A a, b \in G[k] : a \in G[b] \/ b \in G[a]
             /\ \E r \in G[k] : o[r] = None
           S == {k \in D : Good(k)}
<1>1. M \in [D -> Nat]
  BY DEF Forest
<1>2. ASSUME NEW k \in D, \A j \in D : M[j] < M[k] => j \in S PROVE k \in S
  <2>1. CASE o[k] = None
    <3>1. G[k] = {k}
      BY <2>1 DEF Forest
    <3> QED
      BY <2>1, <3>1
  <2>2. CASE o[k] # None
    <3>1. /\ G[k] = {k} \cup G[o[k]] /\ o[k] \in D /\ M[o[k]] < M[k]
      BY <2>2 DEF Forest
    <3>2. Good(o[k])
      BY <1>2, <3>1
    <3>3. \A a \in G[o[k]] : M[a] < M[k]
      <4>1. \A a \in G[o[k]] : a \in D /\ (a = o[k] \/ M[a] < M[o[k]])
        BY <3>2
      <4>2. ASSUME NEW a \in G[o[k]] PROVE M[a] < M[k]
        <5>1. M[a] \in Nat /\ M[k] \in Nat /\ M[o[k]] \in Nat
          BY <1>1, <3>1, <4>1
        <5> QED
          BY <3>1, <4>1, <5>1
      <4> QED
        BY <4>2
    <3>4. \A a \in G[k] : a = k \/ a \in G[o[k]]
      BY <3>1
    <3> QED
      BY <2>2, <3>1, <3>2, <3>3, <3>4
  <2> QED
    BY <2>1, <2>2
<1>3. S = D
  <2> HIDE DEF S
  <2>1. S \in SUBSET D
    BY DEF S
  <2> QED
    BY <1>1, <1>2, <2>1, ByMeasure
<1> QED
  BY <1>3

(* Two legs of the same owner are never in the same groups.                    *)
LEMMA OneBranch ==
  ASSUME NEW D, NEW M, NEW o, NEW G, Forest(D, M, o, G), NEW k \in D,
         NEW a \in G[k], NEW b \in G[k], o[a] = o[b]
  PROVE  a = b
<1>1. /\ a \in D /\ b \in D
      /\ \A x \in D : o[x] # None => o[x] \in D /\ M[o[x]] < M[x] /\ M[x] \in Nat /\ M[o[x]] \in Nat
  <2>1. \A x \in G[k] : x \in D
    BY GroupFacts
  <2>2. M \in [D -> Nat] /\ \A x \in D : o[x] # None => o[x] \in D /\ M[o[x]] < M[x]
    BY DEF Forest
  <2> QED
    BY <2>1, <2>2
<1>2. ASSUME NEW x \in D, NEW y \in D, x \in G[y], o[x] = o[y], x # y PROVE FALSE
  <2>1. o[y] # None /\ x \in G[o[y]]
    BY <1>2, GroupFacts
  <2>2. x \in G[o[x]] /\ o[x] \in D /\ M[o[x]] < M[x] /\ M[x] \in Nat /\ M[o[x]] \in Nat
    BY <1>1, <1>2, <2>1
  <2>3. x = o[x] \/ M[x] < M[o[x]]
    BY <2>2, GroupFacts
  <2> QED
    BY <2>2, <2>3
<1>3. a \in G[b] \/ b \in G[a]
  BY GroupFacts
<1> QED
  BY <1>1, <1>2, <1>3

(* The leg j is before k: what Rank counts. *)
Smaller(o, G, w, j, k) ==
  \/ k \in G[j]
  \/ \E a \in G[j] \ G[k], b \in G[k] \ G[j] : o[a] = o[b] /\ Less(w[a], w[b])

Triples == Nat \X Nat \X Nat

LEMMA LessTriple ==
  ASSUME NEW s \in Triples, NEW t \in Triples
  PROVE  Less(s, t) <=> \/ s[1] < t[1]
                        \/ s[1] = t[1] /\ s[2] < t[2]
                        \/ s[1] = t[1] /\ s[2] = t[2] /\ s[3] < t[3]
<1>1. DOMAIN s = 1..3 /\ 1 \in 1..3 /\ 2 \in 1..3 /\ 3 \in 1..3
  BY DEF Triples
<1>2. 1..1 - 1 = {} /\ 1..2 - 1 = {1} /\ 1..3 - 1 = {1, 2}
  OBVIOUS
<1>3. \A n \in 1..3 : n = 1 \/ n = 2 \/ n = 3
  OBVIOUS
<1>4. ASSUME Less(s, t)
      PROVE  \/ s[1] < t[1]
             \/ s[1] = t[1] /\ s[2] < t[2]
             \/ s[1] = t[1] /\ s[2] = t[2] /\ s[3] < t[3]
  <2>1. PICK n \in 1..3 : s[n] < t[n] /\ \A m \in 1..n - 1 : s[m] = t[m]
    BY <1>1, <1>4 DEF Less
  <2>2. CASE n = 1
    BY <2>1, <2>2
  <2>3. CASE n = 2
    <3>1. 1 \in 1..n - 1
      BY <2>3
    <3> QED
      BY <2>1, <2>3, <3>1
  <2>4. CASE n = 3
    <3>1. 1 \in 1..n - 1 /\ 2 \in 1..n - 1
      BY <2>4
    <3> QED
      BY <2>1, <2>4, <3>1
  <2> QED
    BY <1>3, <2>2, <2>3, <2>4
<1>5. ASSUME NEW n \in 1..3, s[n] < t[n], \A m \in 1..n - 1 : s[m] = t[m] PROVE Less(s, t)
  BY <1>1, <1>5 DEF Less
<1> QED
  BY <1>1, <1>2, <1>4, <1>5

LEMMA LessOrders ==
  ASSUME NEW s \in Triples, NEW t \in Triples, NEW u \in Triples
  PROVE  /\ ~Less(s, s)
         /\ Less(s, t) /\ Less(t, u) => Less(s, u)
<1>1. \A x \in Triples : x[1] \in Nat /\ x[2] \in Nat /\ x[3] \in Nat
  BY DEF Triples
<1> QED
  BY <1>1, LessTriple

LEMMA SmallerOrders ==
  ASSUME NEW D, NEW M, NEW o, NEW G, Forest(D, M, o, G), NEW w \in [D -> Triples],
         NEW i \in D, NEW j \in D, NEW k \in D, i # j, j # k,
         Smaller(o, G, w, i, j), Smaller(o, G, w, j, k)
  PROVE  i # k /\ Smaller(o, G, w, i, k)
<1>0. /\ \A x \in D : \A y \in G[x] : y \in D /\ G[y] \subseteq G[x]
      /\ \A x \in D : x \in G[x]
      /\ \A x \in D : \A y \in G[x] : y = x \/ (o[x] # None /\ o[x] \in D /\ y \in G[o[x]] /\ M[y] < M[x])
      /\ \A x \in D : \A y, z \in G[x] : y \in G[z] \/ z \in G[y]
  <2>1. \A x \in D : \A y \in G[x] : y \in D /\ G[y] \subseteq G[x]
    BY GroupFacts
  <2>2. \A x \in D : x \in G[x]
    BY GroupFacts
  <2>3. \A x \in D : \A y \in G[x] : y = x \/ (o[x] # None /\ y \in G[o[x]] /\ M[y] < M[x])
    BY GroupFacts
  <2>4. \A x \in D : \A y, z \in G[x] : y \in G[z] \/ z \in G[y]
    BY GroupFacts
  <2>5. \A x \in D : o[x] # None => o[x] \in D
    BY DEF Forest
  <2> QED
    BY <2>1, <2>2, <2>3, <2>4, <2>5
<1>1. \A x \in D : \A y, z \in G[x] : o[y] = o[z] => y = z
  BY OneBranch
<1>2. \A x, y \in D : x \in G[y] /\ y \in G[x] => x = y
  <2> SUFFICES ASSUME NEW x \in D, NEW y \in D, x \in G[y], y \in G[x], x # y PROVE FALSE
    OBVIOUS
  <2>1. M[x] < M[y] /\ M[y] < M[x]
    BY <1>0
  <2>2. M[x] \in Nat /\ M[y] \in Nat
    BY DEF Forest
  <2> QED
    BY <2>1, <2>2
(* Below a leg is what its owner is in. *)
<1>3. ASSUME NEW x \in D, NEW y \in G[x], NEW z, o[z] = o[x], z \in D, y # x PROVE y \in G[z]
  <2>1. o[x] # None /\ y \in G[o[x]]
    BY <1>0, <1>3
  <2>2. G[z] = {z} \cup G[o[z]]
    BY <1>3, <2>1 DEF Forest
  <2> QED
    BY <1>3, <2>1, <2>2
<1>4. CASE j \in G[i] /\ k \in G[j]
  BY <1>0, <1>2, <1>4 DEF Smaller
<1>5. CASE /\ j \in G[i]
           /\ \E a \in G[j] \ G[k], b \in G[k] \ G[j] : o[a] = o[b] /\ Less(w[a], w[b])
  <2>1. PICK a \in G[j] \ G[k], b \in G[k] \ G[j] : o[a] = o[b] /\ Less(w[a], w[b])
    BY <1>5
  <2>2. a \in G[i] /\ a \in D /\ b \in D
    BY <1>0, <1>5, <2>1
  <2>3. b \notin G[i]
    <3> SUFFICES ASSUME b \in G[i] PROVE FALSE
      OBVIOUS
    <3>1. a = b
      BY <1>1, <2>1, <2>2
    <3> QED
      BY <2>1, <3>1
  <2> QED
    BY <2>1, <2>2, <2>3 DEF Smaller
<1>6. CASE /\ \E a \in G[i] \ G[j], b \in G[j] \ G[i] : o[a] = o[b] /\ Less(w[a], w[b])
           /\ k \in G[j]
  <2>1. PICK a \in G[i] \ G[j], b \in G[j] \ G[i] : o[a] = o[b] /\ Less(w[a], w[b])
    BY <1>6
  <2>2. a \in D /\ b \in D /\ a \notin G[k]
    BY <1>0, <1>6, <2>1
  <2>3. CASE b \in G[k]
    BY <2>1, <2>2, <2>3 DEF Smaller
  <2>4. CASE b \notin G[k]
    <3>1. k \in G[b] /\ k # b
      BY <1>0, <1>6, <2>1, <2>4
    <3>2. k \in G[a]
      BY <1>3, <2>1, <2>2, <3>1
    <3>3. k \in G[i] /\ i # k
      BY <1>0, <2>1, <2>2, <3>2
    <3> QED
      BY <3>3 DEF Smaller
  <2> QED
    BY <2>3, <2>4
<1>7. CASE /\ \E a \in G[i] \ G[j], b \in G[j] \ G[i] : o[a] = o[b] /\ Less(w[a], w[b])
           /\ \E a \in G[j] \ G[k], b \in G[k] \ G[j] : o[a] = o[b] /\ Less(w[a], w[b])
  <2>1. PICK a \in G[i] \ G[j], b \in G[j] \ G[i] : o[a] = o[b] /\ Less(w[a], w[b])
    BY <1>7
  <2>2. PICK c \in G[j] \ G[k], d \in G[k] \ G[j] : o[c] = o[d] /\ Less(w[c], w[d])
    BY <1>7
  <2>3. a \in D /\ b \in D /\ c \in D /\ d \in D
    BY <1>0, <2>1, <2>2
  <2>4. CASE b = c
    <3>1. Less(w[a], w[d]) /\ o[a] = o[d]
      <4>1. w[a] \in Triples /\ w[b] \in Triples /\ w[d] \in Triples
        BY <2>3
      <4> QED
        BY <2>1, <2>2, <2>4, <4>1, LessOrders
    <3>2. a # d
      <4>1. w[a] \in Triples
        BY <2>3
      <4> QED
        BY <3>1, <4>1, LessOrders
    <3>3. a \notin G[k] /\ d \notin G[i]
      BY <1>1, <2>1, <2>2, <3>1, <3>2
    <3> QED
      BY <2>1, <2>2, <3>1, <3>3 DEF Smaller
  <2>5. CASE b # c /\ b \in G[c]
    <3>1. b \in G[d]
      BY <1>3, <2>2, <2>3, <2>5
    <3>2. b \in G[k]
      BY <1>0, <2>2, <3>1
    <3>3. a \notin G[k]
      <4> SUFFICES ASSUME a \in G[k] PROVE FALSE
        OBVIOUS
      <4>1. a = b
        BY <1>1, <2>1, <3>2
      <4> QED
        BY <2>1, <4>1
    <3> QED
      BY <2>1, <3>2, <3>3 DEF Smaller
  <2>6. CASE b # c /\ c \in G[b]
    <3>1. c \in G[a]
      BY <1>3, <2>1, <2>3, <2>6
    <3>2. c \in G[i]
      BY <1>0, <2>1, <3>1
    <3>3. d \notin G[i]
      <4> SUFFICES ASSUME d \in G[i] PROVE FALSE
        OBVIOUS
      <4>1. c = d
        BY <1>1, <2>2, <3>2
      <4> QED
        BY <2>2, <4>1
    <3> QED
      BY <2>2, <3>2, <3>3 DEF Smaller
  <2> QED
    BY <1>0, <2>1, <2>2, <2>4, <2>5, <2>6
<1> QED
  BY <1>4, <1>5, <1>6, <1>7 DEF Smaller

--------------------------------------------------------------------------------
(* How far a leg is from the legs its time depends on: those of what its       *)
(* interaction's parents lead to, and a request's own response.                *)
Inter == {j[1] : j \in Legs}
Beneath(i) == Beyond(parent, i, Inter)
Size(i) == IF i \in Beneath(i) THEN 0 ELSE Cardinality(Beneath(i))
Measure == [k \in Legs |-> 2 * Size(k[1]) + IF k[2] = "request" THEN 1 ELSE 0]

LEMMA MeasureFacts ==
  ASSUME OrderTypes
  PROVE  /\ \A i : Beneath(i) \in SUBSET Inter /\ IsFiniteSet(Beneath(i))
                   /\ Cardinality(Beneath(i)) \in Nat /\ Size(i) \in Nat
         /\ Measure \in [Legs -> Nat]
         /\ \A k \in Legs : Measure[k] = 2 * Size(k[1]) + IF k[2] = "request" THEN 1 ELSE 0
<1>1. IsFiniteSet(Inter)
  <2> DEFINE f == [j \in Legs |-> j[1]]
  <2>1. f \in Surjection(Legs, Inter)
    BY DEF Surjection, Inter
  <2>2. IsFiniteSet(Legs)
    BY DEF OrderTypes
  <2> HIDE DEF f
  <2> QED
    BY <2>1, <2>2, FS_Surjection
<1>2. ASSUME NEW i
      PROVE  Beneath(i) \in SUBSET Inter /\ IsFiniteSet(Beneath(i))
             /\ Cardinality(Beneath(i)) \in Nat /\ Size(i) \in Nat
  <2>1. Beneath(i) \in SUBSET Inter
    BY BeyondFacts DEF Beneath
  <2>2. IsFiniteSet(Beneath(i)) /\ Cardinality(Beneath(i)) \in Nat
    BY <1>1, <2>1, FS_Subset, FS_CardinalityType
  <2> QED
    BY <2>1, <2>2 DEF Size
<1>3. \A k \in Legs : 2 * Size(k[1]) + (IF k[2] = "request" THEN 1 ELSE 0) \in Nat
  BY <1>2
<1> QED
  BY <1>2, <1>3 DEF Measure

LEMMA BoundFacts ==
  ASSUME OrderTypes, NEW k \in Legs, Bound(k) # None
  PROVE  /\ Bound(k) = <<parent[k[1]], "response">> /\ Bound(k) \in Legs
         /\ k[1] \notin Beneath(k[1]) /\ Measure[Bound(k)] < Measure[k]
<1> DEFINE i == k[1]
           p == parent[i]
<1>1. /\ i \notin Beneath(i) /\ Bound(k) = <<p, "response">> /\ Bound(k) \in Legs
  BY DEF Bound, Present, Beneath, Inter
<1>2. p \in Inter /\ i \in Inter
  <2>1. Bound(k)[1] = p
    BY <1>1
  <2> QED
    BY <1>1, <2>1 DEF Inter
<1>3. p \in Beneath(i) /\ Beneath(p) \subseteq Beneath(i)
  <2> HIDE DEF p, i
  <2>1. p = parent[i]
    BY DEF p
  <2>2. p \in Beneath(i)
    BY <1>2, <2>1, BeyondFacts DEF Beneath
  <2>3. Beneath(i) \in SUBSET Inter
        /\ \A z \in Beneath(i) \cup {p} : parent[z] \in Inter => parent[z] \in Beneath(i)
    BY <2>2, BeyondFacts DEF Beneath
  <2> QED
    BY <2>2, <2>3, BeyondFacts DEF Beneath
<1>4. Size(p) < Size(i)
  <2>1. IsFiniteSet(Beneath(i)) /\ Cardinality(Beneath(i)) \in Nat /\ Cardinality(Beneath(p)) \in Nat
    BY MeasureFacts
  <2>2. CASE p \in Beneath(p)
    <3>1. Cardinality(Beneath(i)) # 0
      BY <1>3, <2>1, FS_EmptySet
    <3> QED
      BY <1>1, <2>1, <2>2, <3>1 DEF Size
  <2>3. CASE p \notin Beneath(p)
    <3>1. Cardinality(Beneath(p)) <= Cardinality(Beneath(i))
          /\ Cardinality(Beneath(p)) # Cardinality(Beneath(i))
      BY <1>3, <2>1, <2>3, FS_Subset
    <3> QED
      BY <1>1, <2>1, <2>3, <3>1 DEF Size
  <2> QED
    BY <2>2, <2>3
<1>5. Measure[Bound(k)] = 2 * Size(p)
  <2>1. Bound(k)[1] = p /\ Bound(k)[2] = "response"
    BY <1>1
  <2>2. Size(p) \in Nat
    BY MeasureFacts
  <2>3. Measure[Bound(k)] = 2 * Size(Bound(k)[1]) + IF Bound(k)[2] = "request" THEN 1 ELSE 0
    BY <1>1, MeasureFacts
  <2> QED
    BY <2>1, <2>2, <2>3
<1>6. Measure[k] >= 2 * Size(i) /\ Measure[k] \in Nat
  <2>1. Size(i) \in Nat /\ Measure[k] = 2 * Size(i) + IF k[2] = "request" THEN 1 ELSE 0
    BY MeasureFacts
  <2> QED
    BY <2>1
<1>7. Size(i) \in Nat /\ Size(p) \in Nat
  BY MeasureFacts
<1>8. Measure[Bound(k)] < Measure[k]
  <2> HIDE DEF p, i
  <2> QED
    BY <1>4, <1>5, <1>6, <1>7
<1> QED
  BY <1>1, <1>8

LEMMA OwnFacts ==
  ASSUME OrderTypes, NEW k \in Legs, OwnResponse(k) # None
  PROVE  /\ k[2] = "request" /\ OwnResponse(k) = <<k[1], "response">>
         /\ OwnResponse(k) \in Legs /\ time[OwnResponse(k)] # Unknown
         /\ Bound(OwnResponse(k)) = Bound(k) /\ OwnResponse(OwnResponse(k)) = None
         /\ Measure[OwnResponse(k)] < Measure[k]
<1> DEFINE r == <<k[1], "response">>
<1>1. k[2] = "request" /\ OwnResponse(k) = r /\ r \in Legs /\ time[r] # Unknown
  BY DEF OwnResponse, Present
<1>2. r[1] = k[1] /\ r[2] = "response"
  OBVIOUS
<1>3. Bound(r) = Bound(k) /\ OwnResponse(r) = None
  BY <1>2 DEF Bound, OwnResponse
<1>4. Measure[r] < Measure[k]
  <2>1. Size(k[1]) \in Nat
    BY MeasureFacts
  <2>2. /\ Measure[r] = 2 * Size(r[1]) + IF r[2] = "request" THEN 1 ELSE 0
        /\ Measure[k] = 2 * Size(k[1]) + IF k[2] = "request" THEN 1 ELSE 0
    BY <1>1, MeasureFacts
  <2> QED
    BY <1>1, <1>2, <2>1, <2>2
<1> QED
  BY <1>1, <1>3, <1>4

--------------------------------------------------------------------------------
(* Sort times, owners, groups and weights. *)

PulledFrom(at, k) ==
  IF Bound(k) = None \/ ClearlyAsynchronous(k, Bound(k))
  THEN time[k] ELSE Earlier(time[k], at[Bound(k)])
TimeFrom(at, k) ==
  IF OwnResponse(k) = None THEN PulledFrom(at, k)
  ELSE Earlier(PulledFrom(at, k), at[OwnResponse(k)])

LEMMA AtFacts ==
  ASSUME OrderTypes
  PROVE  Ats \in [Legs -> Nat] /\ \A k \in Legs : Ats[k] = TimeFrom(Ats, k)
<1> DEFINE At[k \in Legs] ==
             LET response == OwnResponse(k)
                 pulled ==
                   IF Bounds[k] = None \/ ClearlyAsynchronous(k, Bounds[k])
                   THEN time[k] ELSE Earlier(time[k], At[Bounds[k]])
             IN IF response = None THEN pulled ELSE Earlier(pulled, At[response])
           Raw(g) == [k \in Legs |->
             LET response == OwnResponse(k)
                 pulled ==
                   IF Bounds[k] = None \/ ClearlyAsynchronous(k, Bounds[k])
                   THEN time[k] ELSE Earlier(time[k], g[Bounds[k]])
             IN IF response = None THEN pulled ELSE Earlier(pulled, g[response])]
           Rule(g) == [k \in Legs |-> TimeFrom(g, k)]
           X == [Legs -> Nat]
           F == [g \in X |-> Rule(g)]
<1>1. Ats = [k \in Legs |-> At[k]]
  BY DEF Ats, SortTimes
<1>2. At = CHOOSE g : g = Raw(g)
  OBVIOUS
<1>3. ASSUME NEW g PROVE Raw(g) = Rule(g)
  BY DEF Bounds, TimeFrom, PulledFrom
<1> HIDE DEF At, Raw
<1>4. At = CHOOSE g : g = Rule(g)
  <2> HIDE DEF Rule
  <2> QED
    BY <1>2, <1>3
<1>5. ASSUME NEW g \in X, NEW k \in Legs PROVE TimeFrom(g, k) \in Nat
  <2>1. time[k] \in Nat
    BY DEF OrderTypes
  <2>2. Bound(k) # None => g[Bound(k)] \in Nat
    BY BoundFacts
  <2>3. OwnResponse(k) # None => g[OwnResponse(k)] \in Nat
    BY OwnFacts
  <2> QED
    BY <2>1, <2>2, <2>3 DEF TimeFrom, PulledFrom, Earlier
<1>6. F \in [X -> X] /\ \A g \in X : F[g] = Rule(g)
  BY <1>5
<1>7. ASSUME NEW g \in X, NEW h \in X, NEW k \in Legs,
             \A j \in Legs : Measure[j] < Measure[k] => g[j] = h[j]
      PROVE  TimeFrom(g, k) = TimeFrom(h, k)
  <2>1. Bound(k) # None => g[Bound(k)] = h[Bound(k)]
    BY <1>7, BoundFacts
  <2>2. OwnResponse(k) # None => g[OwnResponse(k)] = h[OwnResponse(k)]
    BY <1>7, OwnFacts
  <2> QED
    BY <2>1, <2>2 DEF TimeFrom, PulledFrom
<1>8. Descends(F, Measure, Legs, Nat)
  <2>1. ASSUME NEW g \in X, NEW h \in X, NEW k \in Legs,
               \A j \in Legs : Measure[j] < Measure[k] => g[j] = h[j]
        PROVE  F[g][k] = F[h][k]
    <3>1. Rule(g)[k] = Rule(h)[k]
      BY <1>7, <2>1
    <3> HIDE DEF F, Rule
    <3> QED
      BY <1>6, <3>1
  <2> HIDE DEF F
  <2> QED
    BY <2>1 DEF Descends
<1>9. HasFixpoint(F, Legs, Nat)
  <2>1. X # {}
    <3>1. [k \in Legs |-> 0] \in X
      OBVIOUS
    <3> QED
      BY <3>1
  <2>2. Measure \in [Legs -> Nat]
    BY MeasureFacts
  <2> HIDE DEF F
  <2> QED
    BY <1>6, <1>8, <2>1, <2>2, Recursion
<1>10. \E g \in X : Rule(g) = g
  <2> HIDE DEF F, Rule
  <2> QED
    BY <1>6, <1>9 DEF HasFixpoint
<1>11. At = Rule(At)
  <2> HIDE DEF Rule
  <2> QED
    BY <1>4, <1>10
<1>12. Ats = At
  <2>1. At = [k \in Legs |-> At[k]]
    BY <1>11
  <2> QED
    BY <1>1, <2>1
<1>13. \A k \in Legs : At[k] = TimeFrom(At, k)
  BY <1>11
<1> DEFINE S == {k \in Legs : At[k] \in Nat}
<1>14. S = Legs
  <2>1. ASSUME NEW k \in Legs, \A j \in Legs : Measure[j] < Measure[k] => j \in S
        PROVE  k \in S
    <3>1. time[k] \in Nat
      BY DEF OrderTypes
    <3>2. Bound(k) # None => At[Bound(k)] \in Nat
      BY <2>1, BoundFacts
    <3>3. OwnResponse(k) # None => At[OwnResponse(k)] \in Nat
      BY <2>1, OwnFacts
    <3>4. TimeFrom(At, k) \in Nat
      BY <3>1, <3>2, <3>3 DEF TimeFrom, PulledFrom, Earlier
    <3> QED
      BY <1>13, <3>4
  <2>2. Measure \in [Legs -> Nat] /\ S \in SUBSET Legs
    BY MeasureFacts
  <2> HIDE DEF S
  <2> QED
    BY <2>1, <2>2, ByMeasure
<1>15. At \in [Legs -> Nat]
  <2>1. At = [k \in Legs |-> At[k]]
    BY <1>11
  <2>2. \A k \in Legs : At[k] \in Nat
    BY <1>14
  <2> QED
    BY <2>1, <2>2
<1> QED
  BY <1>12, <1>13, <1>15

(* A leg is pulled to a bound it is not clearly asynchronous with.             *)
LEMMA PulledDown ==
  ASSUME OrderTypes, NEW k \in Legs, Bound(k) # None,
         \/ MaySynchronize(k, Bound(k))
         \/ OwnResponse(k) # None /\ MaySynchronize(OwnResponse(k), Bound(k))
  PROVE  Ats[k] <= Ats[Bound(k)]
<1>0. Tolerance \in Nat /\ Ats \in [Legs -> Nat]
  BY LegOrderAssumption, AtFacts
<1>1. ASSUME NEW j \in Legs, Bound(j) # None, MaySynchronize(j, Bound(j))
      PROVE  Ats[j] <= Ats[Bound(j)]
  <2>1. Bound(j) \in Legs
    BY <1>1, BoundFacts
  <2>2. time[j] \in Nat /\ time[Bound(j)] \in Nat /\ Ats[Bound(j)] \in Nat
    BY <1>0, <2>1 DEF OrderTypes
  <2>3. ~ClearlyAsynchronous(j, Bound(j))
    BY <1>0, <1>1, <2>2 DEF MaySynchronize, ClearlyAsynchronous
  <2>4. PulledFrom(Ats, j) = Earlier(time[j], Ats[Bound(j)])
    BY <1>1, <2>3 DEF PulledFrom
  <2>5. PulledFrom(Ats, j) \in Nat /\ PulledFrom(Ats, j) <= Ats[Bound(j)]
    BY <2>2, <2>4 DEF Earlier
  <2>6. OwnResponse(j) # None => Ats[OwnResponse(j)] \in Nat
    BY <1>0, OwnFacts
  <2>7. TimeFrom(Ats, j) <= Ats[Bound(j)]
    BY <2>2, <2>5, <2>6 DEF TimeFrom, Earlier
  <2> QED
    BY <2>7, AtFacts
<1>2. ASSUME OwnResponse(k) # None, MaySynchronize(OwnResponse(k), Bound(k))
      PROVE  Ats[k] <= Ats[Bound(k)]
  <2> DEFINE r == OwnResponse(k)
  <2>1. r \in Legs /\ Bound(r) = Bound(k)
    BY <1>2, OwnFacts
  <2>2. Ats[r] <= Ats[Bound(k)]
    <3> HIDE DEF r
    <3> QED
      BY <1>1, <1>2, <2>1 DEF r
  <2>3. Bound(k) \in Legs /\ Ats[Bound(k)] \in Nat /\ Ats[r] \in Nat
    BY <1>0, <2>1, BoundFacts
  <2>4. PulledFrom(Ats, k) \in Nat
    <3>1. time[k] \in Nat
      BY DEF OrderTypes
    <3> QED
      BY <2>3, <3>1 DEF PulledFrom, Earlier
  <2>5. TimeFrom(Ats, k) = Earlier(PulledFrom(Ats, k), Ats[r])
    BY <1>2 DEF TimeFrom
  <2>6. TimeFrom(Ats, k) <= Ats[r] /\ TimeFrom(Ats, k) \in Nat
    <3> HIDE DEF r
    <3> QED
      BY <2>3, <2>4, <2>5 DEF Earlier
  <2>7. Ats[k] = TimeFrom(Ats, k)
    BY AtFacts
  <2> HIDE DEF r
  <2> QED
    BY <2>2, <2>3, <2>6, <2>7
<1> QED
  BY <1>1, <1>2

LEMMA OwnerFacts ==
  ASSUME OrderTypes, NEW k \in Legs
  PROVE  /\ Owners[k] # None => /\ Owners[k] \in Legs /\ Measure[Owners[k]] < Measure[k]
                                /\ Ats[Owners[k]] = Ats[k]
         /\ Bound(k) # None /\ Ats[k] = Ats[Bound(k)] =>
              \/ Owners[k] = Bound(k)
              \/ OwnResponse(k) # None /\ Owners[k] = OwnResponse(k)
<1> DEFINE r == OwnResponse(k)
           own == r # None /\ time[k] > time[r] /\ Ats[k] = Ats[r]
           pulled == Bound(k) # None /\ Ats[k] = Ats[Bound(k)]
<1>1. Owners[k] = IF own THEN r ELSE IF pulled THEN Bound(k) ELSE None
  BY DEF Owners, Owner, Bounds
<1>2. CASE own
  BY <1>1, <1>2, OwnFacts
<1>3. CASE ~own /\ pulled
  BY <1>1, <1>3, BoundFacts
<1>4. CASE ~own /\ ~pulled
  BY <1>1, <1>4
<1> QED
  BY <1>2, <1>3, <1>4

LEMMA ForestFacts ==
  ASSUME OrderTypes
  PROVE  Forest(Legs, Measure, Owners, Group)
<1> DEFINE In[k \in Legs] ==
             {k} \cup IF Owners[k] = None THEN {} ELSE In[Owners[k]]
           Rule(g) == [k \in Legs |-> {k} \cup IF Owners[k] = None THEN {} ELSE g[Owners[k]]]
           X == [Legs -> SUBSET Legs]
           F == [g \in X |-> Rule(g)]
<1>1. Group = [k \in Legs |-> In[k]]
  BY DEF Group, Groups
<1>2. In = CHOOSE g : g = Rule(g)
  OBVIOUS
<1> HIDE DEF In
<1>3. \A k \in Legs : Owners[k] # None => Owners[k] \in Legs /\ Measure[Owners[k]] < Measure[k]
  BY OwnerFacts
<1>4. ASSUME NEW g \in X PROVE Rule(g) \in X
  <2> SUFFICES ASSUME NEW k \in Legs
               PROVE  {k} \cup (IF Owners[k] = None THEN {} ELSE g[Owners[k]]) \in SUBSET Legs
    OBVIOUS
  <2>1. CASE Owners[k] = None
    BY <2>1
  <2>2. CASE Owners[k] # None
    <3>1. g[Owners[k]] \in SUBSET Legs
      BY <1>3, <2>2
    <3> QED
      BY <2>2, <3>1
  <2> QED
    BY <2>1, <2>2
<1>5. F \in [X -> X] /\ \A g \in X : F[g] = Rule(g)
  <2> HIDE DEF Rule, X
  <2> QED
    BY <1>4
<1>6. Descends(F, Measure, Legs, SUBSET Legs)
  <2>1. ASSUME NEW g \in X, NEW h \in X, NEW k \in Legs,
               \A j \in Legs : Measure[j] < Measure[k] => g[j] = h[j]
        PROVE  F[g][k] = F[h][k]
    <3>1. Rule(g)[k] = Rule(h)[k]
      BY <1>3, <2>1
    <3> HIDE DEF F, Rule
    <3> QED
      BY <1>5, <3>1
  <2> HIDE DEF F
  <2> QED
    BY <2>1 DEF Descends
<1>7. HasFixpoint(F, Legs, SUBSET Legs)
  <2>1. X # {}
    <3>1. [k \in Legs |-> {}] \in X
      OBVIOUS
    <3> QED
      BY <3>1
  <2>2. Measure \in [Legs -> Nat]
    BY MeasureFacts
  <2> HIDE DEF F
  <2> QED
    BY <1>5, <1>6, <2>1, <2>2, Recursion
<1>8. In = Rule(In)
  <2>1. \E g \in X : Rule(g) = g
    <3> HIDE DEF F, Rule
    <3> QED
      BY <1>5, <1>7 DEF HasFixpoint
  <2> HIDE DEF Rule
  <2> QED
    BY <1>2, <2>1
<1>9. Group = In
  <2>1. In = [k \in Legs |-> In[k]]
    BY <1>8
  <2> QED
    BY <1>1, <2>1
<1>10. \A k \in Legs : In[k] = {k} \cup IF Owners[k] = None THEN {} ELSE In[Owners[k]]
  BY <1>8
<1>11. Measure \in [Legs -> Nat]
  BY MeasureFacts
<1> QED
  BY <1>3, <1>9, <1>10, <1>11 DEF Forest

LEMMA WeightFacts ==
  ASSUME OrderTypes
  PROVE  /\ Weights \in [Legs -> Triples]
         /\ \A k \in Legs : Owners[k] = None => Weights[k][1] = Ats[k]
<1>1. Ats \in [Legs -> Nat]
  BY AtFacts
<1>2. ASSUME NEW k \in Legs
      PROVE  /\ Weight(Ats, Owners, k) \in Triples
             /\ Owners[k] = None => Weight(Ats, Owners, k)[1] = Ats[k]
  <2>1. Ats[k] \in Nat /\ time[k] \in Nat /\ Number[k] \in Nat
    BY <1>1, LegOrderAssumption DEF OrderTypes
  <2>2. (IF Owners[k] = None THEN Ats[k] ELSE IF k[1] = Owners[k][1] THEN 0 ELSE 1) \in Nat
    BY <2>1
  <2> QED
    BY <2>1, <2>2 DEF Weight, Triples
<1> QED
  BY <1>2 DEF Weights

(* The rank counts what is before a leg, so it grows along that order.         *)
LEMMA RankFacts ==
  ASSUME OrderTypes
  PROVE  /\ Ranks \in [Legs -> Nat]
         /\ \A j, k \in Legs :
              j # k /\ Smaller(Owners, Group, Weights, j, k) => Ranks[j] < Ranks[k]
<1> DEFINE Ahd(k) == {j \in Legs \ {k} : Smaller(Owners, Group, Weights, j, k)}
<1>1. ASSUME NEW k \in Legs PROVE Ranks[k] = Cardinality(Ahd(k))
  BY DEF Ranks, Rank, Smaller
<1>2. \A k \in Legs : IsFiniteSet(Ahd(k)) /\ Cardinality(Ahd(k)) \in Nat
  <2>1. IsFiniteSet(Legs) /\ \A k \in Legs : Ahd(k) \in SUBSET Legs
    BY DEF OrderTypes
  <2> HIDE DEF Ahd
  <2> QED
    BY <2>1, FS_Subset, FS_CardinalityType
<1>3. ASSUME NEW j \in Legs, NEW k \in Legs, j # k, Smaller(Owners, Group, Weights, j, k)
      PROVE  Ranks[j] < Ranks[k]
  <2>1. ASSUME NEW i \in Ahd(j) PROVE i \in Ahd(k)
    <3>1. Forest(Legs, Measure, Owners, Group) /\ Weights \in [Legs -> Triples]
      BY ForestFacts, WeightFacts
    <3>2. i # k /\ Smaller(Owners, Group, Weights, i, k)
      BY <1>3, <3>1, SmallerOrders
    <3> QED
      BY <3>2
  <2>2. j \in Ahd(k) /\ j \notin Ahd(j)
    BY <1>3
  <2> HIDE DEF Ahd
  <2>3. Ahd(j) \in SUBSET Ahd(k) /\ Ahd(j) # Ahd(k)
    BY <2>1, <2>2
  <2>4. Cardinality(Ahd(j)) <= Cardinality(Ahd(k)) /\ Cardinality(Ahd(j)) # Cardinality(Ahd(k))
    BY <1>2, <2>3, FS_Subset
  <2> QED
    BY <1>1, <1>2, <2>4
<1>4. Ranks \in [Legs -> Nat]
  <2>1. \A k \in Legs : Ranks[k] \in Nat
    BY <1>1, <1>2
  <2>2. Ranks = [k \in Legs |-> Ranks[k]]
    BY DEF Ranks
  <2> QED
    BY <2>1, <2>2
<1> QED
  BY <1>3, <1>4

--------------------------------------------------------------------------------
(* A child answers first. *)

(* A leg that its parent's response pulls ranks before it.                     *)
RanksChildren(rank) ==
  \A k \in Legs :
    /\ Bound(k) # None
    /\ \/ MaySynchronize(k, Bound(k))
       \/ OwnResponse(k) # None /\ MaySynchronize(OwnResponse(k), Bound(k))
    => rank[k] < rank[Bound(k)]

LEMMA RanksPulled ==
  OrderTypes => RanksChildren(Ranks)
<1> SUFFICES ASSUME OrderTypes, NEW k \in Legs, Bound(k) # None,
                    \/ MaySynchronize(k, Bound(k))
                    \/ OwnResponse(k) # None /\ MaySynchronize(OwnResponse(k), Bound(k))
             PROVE  Ranks[k] < Ranks[Bound(k)]
  BY DEF RanksChildren
<1> DEFINE b == Bound(k)
<1>1. Ats[k] <= Ats[b]
  BY PulledDown
<1>2. b \in Legs /\ b # k
  <2>1. Measure[b] \in Nat /\ Measure[b] < Measure[k] /\ b \in Legs
    BY BoundFacts, MeasureFacts
  <2> QED
    BY <2>1
<1>3. Forest(Legs, Measure, Owners, Group) /\ Measure \in [Legs -> Nat] /\ Ats \in [Legs -> Nat]
  BY ForestFacts, MeasureFacts, AtFacts
<1>4. \A x \in Legs : x \in Group[x] /\ \A a \in Group[x] : a \in Legs /\ Group[a] \subseteq Group[x]
  BY <1>3, GroupFacts
<1>5. Smaller(Owners, Group, Weights, k, b)
  <2>1. CASE Ats[k] = Ats[b]
    <3>1. \A x \in Legs : Owners[x] # None => Owners[x] \in Group[x]
      BY <1>3, <1>4 DEF Forest
    <3>2. CASE Owners[k] = b
      BY <3>1, <3>2 DEF Smaller
    <3>3. CASE OwnResponse(k) # None /\ Owners[k] = OwnResponse(k)
      <4> DEFINE r == OwnResponse(k)
      <4>1. r \in Legs /\ Bound(r) = b /\ OwnResponse(r) = None /\ Ats[r] = Ats[b]
        BY <2>1, <3>3, OwnFacts, OwnerFacts
      <4>2. Owners[r] = b
        <5> HIDE DEF r, b
        <5> QED
          BY <4>1, OwnerFacts DEF b
      <4>3. b \in Group[r] /\ r \in Group[k]
        BY <3>1, <3>3, <4>1, <4>2
      <4>4. b \in Group[k]
        BY <1>4, <4>3
      <4> QED
        BY <4>4 DEF Smaller
    <3> QED
      BY <2>1, <3>2, <3>3, OwnerFacts
  <2>2. CASE Ats[k] < Ats[b]
    <3> DEFINE S == {x \in Legs : \A a \in Group[x] : Ats[a] = Ats[x]}
    <3>1. S = Legs
      <4>1. ASSUME NEW x \in Legs, \A j \in Legs : Measure[j] < Measure[x] => j \in S
            PROVE  x \in S
        <5>1. Group[x] = {x} \cup IF Owners[x] = None THEN {} ELSE Group[Owners[x]]
          BY <1>3 DEF Forest
        <5>2. Owners[x] # None => Owners[x] \in S /\ Ats[Owners[x]] = Ats[x]
          BY <4>1, OwnerFacts
        <5> QED
          BY <5>1, <5>2
      <4>2. S \in SUBSET Legs
        OBVIOUS
      <4> HIDE DEF S
      <4> QED
        BY <1>3, <4>1, <4>2, ByMeasure
    <3>2. \A x \in Legs : \E r \in Group[x] : Owners[r] = None
      BY <1>3, GroupFacts
    <3>3. PICK p \in Group[k] : Owners[p] = None
      BY <3>2
    <3>4. PICK q \in Group[b] : Owners[q] = None
      BY <1>2, <3>2
    <3>5. p \in Legs /\ q \in Legs /\ Ats[p] = Ats[k] /\ Ats[q] = Ats[b]
      BY <1>2, <1>4, <3>1, <3>3, <3>4
    <3>6. p \notin Group[b] /\ q \notin Group[k]
      <4>1. Ats[k] # Ats[b]
        <5>1. Ats[k] \in Nat /\ Ats[b] \in Nat
          BY <1>2, <1>3
        <5> QED
          BY <2>2, <5>1
      <4>2. \A a \in Group[b] : Ats[a] = Ats[b]
        BY <1>2, <3>1
      <4>3. \A a \in Group[k] : Ats[a] = Ats[k]
        BY <3>1
      <4> QED
        BY <3>5, <4>1, <4>2, <4>3
    <3>7. Less(Weights[p], Weights[q])
      <4>1. Weights[p] \in Triples /\ Weights[q] \in Triples
        BY <3>5, WeightFacts
      <4>2. Weights[p][1] = Ats[k] /\ Weights[q][1] = Ats[b]
        BY <3>3, <3>4, <3>5, WeightFacts
      <4> QED
        BY <2>2, <4>1, <4>2, LessTriple
    <3> QED
      BY <3>3, <3>4, <3>6, <3>7 DEF Smaller
  <2>3. Ats[k] \in Nat /\ Ats[b] \in Nat
    BY <1>2, <1>3
  <2> QED
    BY <1>1, <2>1, <2>2, <2>3
<1> HIDE DEF b
<1>6. Ranks[k] < Ranks[b]
  BY <1>2, <1>5, RankFacts
<1> QED
  BY <1>6 DEF b

LEMMA AnswersFirst ==
  ASSUME NEW rank \in [Legs -> Nat], OrderOf(rank), RanksChildren(rank)
  PROVE  ChildAnswersFirst
<1> SUFFICES ASSUME NEW k \in Legs, k[2] = "response", Bound(k) # None,
                    MaySynchronize(k, Bound(k)), ~Ahead(k, Bound(k)),
                    <<k[1], "request">> \in Legs =>
                      time[k] # Unknown \/ MaySynchronize(<<k[1], "request">>, Bound(k))
             PROVE  FALSE
  BY DEF ChildAnswersFirst
<1> DEFINE b == Bound(k)
           q == <<k[1], "request">>
           done == Before(order, Place(b))
<1>0. OrderTypes
  BY DEF OrderOf
<1>1. b \in Legs /\ b = <<parent[k[1]], "response">>
  BY <1>0, BoundFacts
<1>2. /\ b \in Releasable(done) /\ \A j \in Releasable(done) : rank[b] <= rank[j]
      /\ k \notin done
  BY <1>1, BeforeFacts
<1>3. rank[k] < rank[b] /\ rank[k] \in Nat /\ rank[b] \in Nat
  BY <1>1 DEF RanksChildren
<1>4. b[2] = "response" /\ ~OnCycle(b)
  BY <1>1 DEF OnCycle, Waits
<1>5. /\ Preceder(b) \in done \cup {None}
      /\ \A j \in Legs \ done : Preceder(j) \in done \cup {None} => j \in Releasable(done)
  BY <1>2, <1>4 DEF Releasable
<1>6. Preceder(k) \notin done \cup {None}
  <2>1. k \notin Releasable(done)
    BY <1>2, <1>3
  <2> QED
    BY <1>2, <1>5, <2>1
<1>7. q \in Legs /\ q \notin done /\ q[1] = k[1] /\ q[2] = "request"
  BY <1>6 DEF Preceder, Present
<1>8. Bound(q) = b
  BY <1>7 DEF Bound
<1>9. rank[q] < rank[b] /\ rank[q] \in Nat
  <2>1. CASE time[k] = Unknown
    <3>1. MaySynchronize(q, Bound(q))
      BY <1>7, <1>8, <2>1
    <3> HIDE DEF q
    <3> QED
      BY <1>7, <1>8, <3>1 DEF RanksChildren
  <2>2. CASE time[k] # Unknown
    <3>1. k = <<k[1], "response">> /\ k # None
      BY <1>0, TraceLegsAssumption DEF OrderTypes, Leg
    <3>2. OwnResponse(q) = k
      BY <1>7, <2>2, <3>1 DEF OwnResponse, Present
    <3> HIDE DEF q
    <3> QED
      BY <1>7, <1>8, <3>1, <3>2 DEF RanksChildren
  <2> QED
    BY <2>1, <2>2
<1>10. Preceder(q) \in done \cup {None}
  <2>1. Preceder(b) = Present(<<parent[k[1]], "request">>)
    BY <1>1, <1>4 DEF Preceder
  <2>2. Preceder(q) = None \/ Preceder(q) = Preceder(b)
    BY <1>7, <2>1 DEF Preceder
  <2> QED
    BY <1>5, <2>2
<1>11. rank[b] <= rank[q]
  BY <1>2, <1>5, <1>7, <1>10
<1> QED
  BY <1>3, <1>9, <1>11

--------------------------------------------------------------------------------
(* The invariant: the order is one that order_legs chooses, by ranks that put  *)
(* every pulled leg before what pulls it.                                      *)
Shape ==
  /\ parent \in Parents /\ Legs \subseteq Leg /\ IsFiniteSet(Legs)
  /\ \A k \in Legs : time[k] \in 0..Unknown

Ranked ==
  \E rank \in [Legs -> Nat] :
    Chosen(order, rank) /\ Complete(order) /\ RanksChildren(rank)

OrderInv == Shape /\ Ranked

LEMMA ShapeFacts ==
  Shape => OrderTypes
<1> SUFFICES ASSUME Shape PROVE OrderTypes
  OBVIOUS
<1>1. parent \in [Interaction -> Interaction \cup {None}]
  BY LegOrderAssumption DEF Shape
<1>2. Unknown \in Nat
  BY LegOrderAssumption DEF Unknown
<1>3. \A k \in Legs : time[k] \in Nat
  BY <1>2 DEF Shape
<1> QED
  BY <1>1, <1>3 DEF Shape, OrderTypes

LEMMA RankedOrder ==
  Shape /\ order \in Ordered(Ranks) => Ranked
<1> SUFFICES ASSUME Shape, order \in Ordered(Ranks) PROVE Ranked
  OBVIOUS
<1>1. OrderTypes
  BY ShapeFacts
<1>2. Ranks \in [Legs -> Nat] /\ RanksChildren(Ranks)
  BY <1>1, RankFacts, RanksPulled
<1>3. Chosen(order, Ranks) /\ Complete(order)
  BY <1>1, <1>2, OrderedFacts
<1> QED
  BY <1>2, <1>3 DEF Ranked

LEMMA OrderStarts ==
  InitOrder => OrderInv
<1> SUFFICES ASSUME InitOrder PROVE OrderInv
  OBVIOUS
<1>1. Legs = {}
  BY DEF InitOrder, Legs
<1>2. Shape
  BY <1>1, FS_EmptySet DEF InitOrder, Shape
<1> DEFINE none == [k \in Legs |-> 0]
<1>3. none \in [Legs -> Nat]
  OBVIOUS
<1>4. order \in Seq(Legs) /\ DOMAIN order = {} /\ Len(order) = 0
  BY DEF InitOrder
<1>5. Chosen(order, none) /\ Complete(order) /\ RanksChildren(none)
  BY <1>1, <1>4, FS_EmptySet DEF Chosen, Complete, RanksChildren
<1> QED
  BY <1>2, <1>3, <1>5 DEF OrderInv, Ranked

LEMMA OrderGoesOn ==
  ASSUME OrderInv, NEW k \in Leg, NEW t \in 0..Unknown, Land(k, t)
  PROVE  OrderInv'
<1>1. Legs' = Legs \cup {k}
  BY DEF Land, Legs
<1>2. IsFiniteSet(Legs')
  BY <1>1, FS_AddElement DEF OrderInv, Shape
<1>3. \A j \in Legs' : time'[j] \in 0..Unknown
  BY <1>1 DEF OrderInv, Shape, Land
<1>4. Shape'
  <2>1. parent' = parent
    BY DEF Land
  <2> QED
    BY <1>1, <1>2, <1>3, <2>1 DEF OrderInv, Shape, Unknown
<1>5. (order \in Ordered(Ranks))'
  BY OrderedByRank DEF Land
<1>6. (Shape /\ order \in Ordered(Ranks) => Ranked)'
  BY RankedOrder, PTL
<1> QED
  BY <1>4, <1>5, <1>6 DEF OrderInv

LEMMA OrderStill ==
  ASSUME OrderInv, UNCHANGED ordering
  PROVE  OrderInv'
<1>1. parent' = parent /\ time' = time /\ order' = order
  BY DEF ordering
<1>2. Legs' = Legs
  BY <1>1 DEF Legs
<1>3. \A k : Preceder(k)' = Preceder(k) /\ OwnResponse(k)' = OwnResponse(k)
  BY <1>1, <1>2 DEF Preceder, OwnResponse, Present, Unknown
<1>4. \A k : Bound(k)' = Bound(k)
  BY <1>1, <1>2 DEF Bound, Present, Beyond
<1>5. Waits' = Waits
  BY <1>2, <1>3 DEF Waits
<1>6. \A k : OnCycle(k)' <=> OnCycle(k)
  BY <1>5 DEF OnCycle, Beyond
<1>7. \A done : Releasable(done)' = Releasable(done)
  BY <1>2, <1>3, <1>6 DEF Releasable
<1>8. PICK rank \in [Legs -> Nat] : Chosen(order, rank) /\ Complete(order) /\ RanksChildren(rank)
  BY DEF OrderInv, Ranked
<1>9. Chosen(order, rank)'
  BY <1>1, <1>2, <1>7, <1>8 DEF Chosen, Before
<1>10. Complete(order)'
  BY <1>1, <1>2, <1>8 DEF Complete
<1>11. RanksChildren(rank)'
  BY <1>1, <1>2, <1>3, <1>4, <1>8 DEF RanksChildren, MaySynchronize, Unknown
<1>12. Shape'
  BY <1>1, <1>2 DEF OrderInv, Shape, Unknown
<1> QED
  BY <1>2, <1>8, <1>9, <1>10, <1>11, <1>12 DEF OrderInv, Ranked

LEMMA OrderAlways ==
  SpecOrder => []OrderInv
<1>1. OrderInv /\ [NextOrder]_ordering => OrderInv'
  BY OrderGoesOn, OrderStill DEF NextOrder
<1> QED
  BY <1>1, OrderStarts, PTL DEF SpecOrder

LEMMA OrderOfRanked ==
  ASSUME OrderInv
  PROVE  \E rank \in [Legs -> Nat] : OrderOf(rank) /\ RanksChildren(rank)
  BY ShapeFacts DEF OrderInv, Ranked, OrderOf

(* Every leg that has landed is in the order that order_legs returns, and once *)
(* (the loop that releases one leg at a time until none is left).              *)
THEOREM OrderTypeCorrect == SpecOrder => []OrderTypeOK
<1>1. ASSUME OrderInv PROVE OrderTypeOK
  <2>1. PICK rank \in [Legs -> Nat] : OrderOf(rank)
    BY <1>1, OrderOfRanked
  <2>2. \A n \in DOMAIN order : order[n] \in Legs
    BY <2>1, PositionFacts
  <2>3. Len(order) = Cardinality(Legs) /\ \A k \in Legs : \E n \in DOMAIN order : order[n] = k
    BY <2>1 DEF OrderOf, Complete
  <2> QED
    BY <1>1, <2>2, <2>3 DEF OrderTypeOK, OrderInv, Shape
<1> QED
  BY <1>1, OrderAlways, PTL

(* However parent links go in circles, only one constraint of each circle is   *)
(* given up, and none of the legs downstream of it (order_legs, "the earliest  *)
(* leg on a remaining cycle is released first").                               *)
THEOREM CyclesBreakOnce == SpecOrder => []OneBreakPerCycle
<1>1. ASSUME OrderInv PROVE OneBreakPerCycle
  BY <1>1, OrderOfRanked, BreaksOnce
<1> QED
  BY <1>1, OrderAlways, PTL

(* Whatever the clocks say, a child that is not clearly asynchronous answers   *)
(* before its parent (order_legs, "a synchronous child answers before its      *)
(* parent even when the callee's clock runs ahead"): its rank is smaller, and  *)
(* when the parent's response is ready to be released, so is it, or its        *)
(* request, whose rank is smaller too.                                         *)
THEOREM ChildrenAnswerFirst == SpecOrder => []ChildAnswersFirst
<1>1. ASSUME OrderInv PROVE ChildAnswersFirst
  BY <1>1, OrderOfRanked, AnswersFirst
<1> QED
  BY <1>1, OrderAlways, PTL

--------------------------------------------------------------------------------
(* A late leaf moves none. *)

(* What the ranks are made of sees of two legs one before the other.           *)
Precedes(j, k) == Smaller(Owners, Group, Weights, j, k)

(* Of two legs one is before the other, in any forest of groups whose weights  *)
(* differ.                                                                     *)
LEMMA SmallerTotal ==
  ASSUME NEW D, NEW M, NEW o, NEW G, Forest(D, M, o, G), NEW w \in [D -> Triples],
         \A a, b \in D : a # b => w[a][3] # w[b][3],
         NEW i \in D, NEW j \in D, i # j
  PROVE  Smaller(o, G, w, i, j) \/ Smaller(o, G, w, j, i)
<1> SUFFICES ASSUME j \notin G[i], i \notin G[j]
             PROVE  Smaller(o, G, w, i, j) \/ Smaller(o, G, w, j, i)
  BY DEF Smaller
<1>1. /\ M \in [D -> Nat]
      /\ \A x \in D : o[x] # None => o[x] \in D /\ M[o[x]] < M[x] /\ o[x] \in G[x]
      /\ \A x \in D : x \in G[x] /\ \A y \in G[x] : y \in D /\ G[y] \subseteq G[x]
  <2>1. \A x \in D : x \in G[x] /\ \A y \in G[x] : y \in D /\ G[y] \subseteq G[x]
    BY GroupFacts
  <2>2. \A x \in D : o[x] # None => o[x] \in D /\ M[o[x]] < M[x] /\ o[x] \in G[x]
    BY <2>1 DEF Forest
  <2> QED
    BY <2>1, <2>2 DEF Forest
<1>2. /\ \A x \in D : \A y \in G[x] : y = x \/ (o[x] # None /\ y \in G[o[x]] /\ M[y] < M[x])
      /\ \A x \in D : \A y, z \in G[x] : y \in G[z] \/ z \in G[y]
  BY GroupFacts
(* The outermost group of x that y is not in, and what it is in. *)
<1>3. ASSUME NEW x \in D, NEW y \in D, x \notin G[y]
      PROVE  \E a \in G[x] \ G[y] : o[a] # None => o[a] \in G[x] \cap G[y]
  <2> DEFINE Sizes == {M[a] : a \in G[x] \ G[y]}
  <2>1. Sizes \in SUBSET Nat /\ Sizes # {}
    BY <1>1, <1>3
  <2>2. PICK m \in Sizes : \A n \in Sizes : m <= n
    <3> HIDE DEF Sizes
    <3> QED
      BY <2>1, SmallestOf
  <2>3. PICK a \in G[x] \ G[y] : m = M[a]
    OBVIOUS
  <2>4. ASSUME o[a] # None, o[a] \notin G[y] PROVE FALSE
    <3>1. a \in D /\ o[a] \in D /\ M[o[a]] < M[a] /\ o[a] \in G[x]
      BY <1>1, <1>3, <2>3, <2>4
    <3>2. M[a] <= M[o[a]] /\ M[a] \in Nat /\ M[o[a]] \in Nat
      BY <1>1, <2>2, <2>3, <2>4, <3>1
    <3> QED
      BY <3>1, <3>2
  <2>5. a \in D /\ (o[a] # None => o[a] \in G[x])
    BY <1>1, <1>3, <2>3
  <2> QED
    BY <2>3, <2>4, <2>5
<1>4. PICK a \in G[i] \ G[j] : o[a] # None => o[a] \in G[i] \cap G[j]
  BY <1>3
<1>5. PICK b \in G[j] \ G[i] : o[b] # None => o[b] \in G[i] \cap G[j]
  BY <1>3
<1>6. a \in D /\ b \in D /\ a # b
  BY <1>1, <1>4, <1>5
(* What both are in, the group of one below it is in. *)
<1>7. ASSUME NEW x \in D, NEW y \in D, NEW p \in G[x] \ G[y], NEW c \in G[x] \cap G[y]
      PROVE  o[p] # None /\ c \in G[o[p]]
  <2>1. p \in D /\ c \in D /\ p # c
    BY <1>1, <1>7
  <2>2. p \notin G[c]
    BY <1>1, <1>7
  <2>3. c \in G[p]
    BY <1>2, <1>7, <2>2
  <2> QED
    BY <1>2, <2>1, <2>3
<1>8. o[a] = o[b]
  <2>1. CASE o[a] = None
    BY <1>4, <1>5, <1>7, <2>1
  <2>2. CASE o[b] = None
    BY <1>4, <1>5, <1>7, <2>2
  <2>3. CASE o[a] # None /\ o[b] # None
    <3>1. o[b] \in G[o[a]] /\ o[a] \in G[o[b]] /\ o[a] \in D /\ o[b] \in D
      BY <1>1, <1>4, <1>5, <1>6, <1>7, <2>3
    <3>2. o[a] = o[b] \/ (M[o[a]] < M[o[b]] /\ M[o[b]] < M[o[a]])
      BY <1>2, <3>1
    <3>3. M[o[a]] \in Nat /\ M[o[b]] \in Nat
      BY <1>1, <3>1
    <3> QED
      BY <3>2, <3>3
  <2> QED
    BY <2>1, <2>2, <2>3
<1>9. Less(w[a], w[b]) \/ Less(w[b], w[a])
  <2>1. w[a] \in Triples /\ w[b] \in Triples /\ w[a][3] # w[b][3]
    BY <1>6
  <2>2. \A x \in Triples : x[1] \in Nat /\ x[2] \in Nat /\ x[3] \in Nat
    BY DEF Triples
  <2> QED
    BY <2>1, <2>2, LessTriple
<1> QED
  BY <1>4, <1>5, <1>8, <1>9 DEF Smaller

LEMMA PrecedesFacts ==
  OrderTypes => \A j, k \in Legs : j # k =>
                  /\ Precedes(j, k) \/ Precedes(k, j)
                  /\ Precedes(j, k) => Ranks[j] < Ranks[k]
<1> SUFFICES ASSUME OrderTypes, NEW j \in Legs, NEW k \in Legs, j # k
             PROVE  (Precedes(j, k) \/ Precedes(k, j)) /\ (Precedes(j, k) => Ranks[j] < Ranks[k])
  OBVIOUS
<1>1. Forest(Legs, Measure, Owners, Group) /\ Weights \in [Legs -> Triples]
  BY ForestFacts, WeightFacts
<1>2. ASSUME NEW a \in Legs, NEW b \in Legs, a # b PROVE Weights[a][3] # Weights[b][3]
  <2>1. Weights[a][3] = Number[a] /\ Weights[b][3] = Number[b]
    BY DEF Weights, Weight
  <2>2. a \in Leg /\ b \in Leg
    BY DEF OrderTypes
  <2> QED
    BY <1>2, <2>1, <2>2, LegOrderAssumption
<1>3. Precedes(j, k) \/ Precedes(k, j)
  BY <1>1, <1>2, SmallerTotal DEF Precedes
<1> QED
  BY <1>3, RankFacts DEF Precedes

(* Legs that wait for none but themselves, and what can be released of them    *)
(* after those in done.                                                        *)
Apart(O) == O \subseteq Legs /\ \A j \in O : Preceder(j) \in O \cup {None}

ReleasableOf(O, done) ==
  LET ready == {j \in O \ done : Preceder(j) \in done \cup {None}}
  IN IF ready # {} THEN ready ELSE {j \in O \ done : OnCycle(j)}

ByRanks == Chosen(order, Ranks) /\ Complete(order)

AheadOf(O, i) == {j \in O : Ahead(j, i)}

(* Of the legs in O, i is the one to release after those ahead of it.          *)
IsNext(O, i) ==
  /\ i \in ReleasableOf(O, AheadOf(O, i))
  /\ \A j \in ReleasableOf(O, AheadOf(O, i)) \ {i} : Precedes(i, j)

(* Other legs do not matter for which of them comes next.                      *)
LEMMA NextOf ==
  OrderTypes /\ ByRanks => \A O : Apart(O) => \A i \in O : IsNext(O, i)
<1> SUFFICES ASSUME OrderTypes, ByRanks, NEW O, Apart(O), NEW i \in O
             PROVE  IsNext(O, i)
  OBVIOUS
<1> DEFINE done == AheadOf(O, i)
           all == Before(order, Place(i))
           readyOf == {j \in O \ done : Preceder(j) \in done \cup {None}}
           ready == {j \in Legs \ all : Preceder(j) \in all \cup {None}}
<1>1. i \in Legs /\ O \subseteq Legs /\ \A j \in O : Preceder(j) \in O \cup {None}
  BY DEF Apart
<1>2. /\ i \in Releasable(all) /\ \A j \in Releasable(all) : Ranks[i] <= Ranks[j]
      /\ \A j \in Legs : j \in all <=> Ahead(j, i)
  BY <1>1, BeforeFacts DEF OrderOf, ByRanks
<1>3. \A j \in O : j \in all <=> j \in done
  BY <1>1, <1>2 DEF AheadOf
<1>4. None \notin all \/ None \in all
  OBVIOUS
<1>5. readyOf = ready \cap O
  BY <1>1, <1>3
<1>6. i \in ReleasableOf(O, done) /\ ReleasableOf(O, done) \subseteq Releasable(all)
  <2>1. CASE ready # {}
    <3>1. Releasable(all) = ready
      BY <2>1 DEF Releasable
    <3>2. i \in readyOf
      BY <1>2, <1>5, <3>1
    <3>3. ReleasableOf(O, done) = readyOf
      BY <3>2 DEF ReleasableOf
    <3> QED
      BY <1>5, <3>1, <3>2, <3>3
  <2>2. CASE ready = {}
    <3>1. Releasable(all) = {j \in Legs \ all : OnCycle(j)}
      BY <2>2 DEF Releasable
    <3>2. readyOf = {}
      BY <1>5, <2>2
    <3>3. ReleasableOf(O, done) = {j \in O \ done : OnCycle(j)}
      BY <3>2 DEF ReleasableOf
    <3> QED
      BY <1>1, <1>2, <1>3, <3>1, <3>3
  <2> QED
    BY <2>1, <2>2
<1>7. ASSUME NEW j \in ReleasableOf(O, done) \ {i} PROVE Precedes(i, j)
  <2>1. j \in Legs /\ Ranks[i] <= Ranks[j]
    <3>1. Releasable(all) \subseteq Legs
      BY DEF Releasable
    <3> QED
      BY <1>2, <1>6, <1>7, <3>1
  <2>2. Ranks[i] \in Nat /\ Ranks[j] \in Nat
    BY <1>1, <2>1, RankFacts
  <2>3. ~Precedes(j, i)
    BY <1>1, <1>7, <2>1, <2>2, PrecedesFacts
  <2> QED
    BY <1>1, <1>7, <2>1, <2>3, PrecedesFacts
<1> QED
  BY <1>6, <1>7 DEF IsNext
--------------------------------------------------------------------------------
(* Two sets of legs, before a step and after it, that agree on some of them.   *)

OrderFacts ==
  /\ Ats \in [Legs -> Nat] /\ \A k \in Legs : Ats[k] = TimeFrom(Ats, k)
  /\ Forest(Legs, Measure, Owners, Group)
  /\ \A k \in Legs : Bound(k) # None => Measure[Bound(k)] < Measure[k]
  /\ \A k \in Legs : OwnResponse(k) # None => Measure[OwnResponse(k)] < Measure[k]

LEMMA OrderHas ==
  OrderTypes => OrderFacts
  BY AtFacts, ForestFacts, BoundFacts, OwnFacts DEF OrderFacts

LEMMA OrderHasNext ==
  OrderTypes' => OrderFacts'
<1>1. (OrderTypes => OrderFacts)'
  BY OrderHas, PTL
<1> QED
  BY <1>1

(* What decides the order of the legs in O is theirs and stays as it is.       *)
Alike(O) ==
  /\ O \subseteq Legs /\ O \subseteq Legs'
  /\ \A j \in O :
       /\ time'[j] = time[j]
       /\ Bound(j)' = Bound(j) /\ Bound(j) \in O \cup {None}
       /\ OwnResponse(j)' = OwnResponse(j) /\ OwnResponse(j) \in O \cup {None}
       /\ Preceder(j)' = Preceder(j) /\ Preceder(j) \in O \cup {None}
       /\ OnCycle(j)' <=> OnCycle(j)

LEMMA TimesAgree ==
  ASSUME OrderTypes, OrderTypes', NEW O, Alike(O)
  PROVE  \A k \in O : Ats'[k] = Ats[k]
<1> DEFINE S == {k \in Legs : k \in O => Ats'[k] = Ats[k]}
<1>1. /\ Measure \in [Legs -> Nat]
      /\ \A k \in Legs : Ats[k] = TimeFrom(Ats, k)
      /\ \A k \in Legs : Bound(k) # None => Measure[Bound(k)] < Measure[k]
      /\ \A k \in Legs : OwnResponse(k) # None => Measure[OwnResponse(k)] < Measure[k]
  BY OrderHas DEF OrderFacts, Forest
<1>2. \A k \in Legs' : Ats'[k] = TimeFrom(Ats, k)'
  BY OrderHasNext DEF OrderFacts
<1>3. ASSUME NEW k \in Legs, \A j \in Legs : Measure[j] < Measure[k] => j \in S, k \in O
      PROVE  Ats'[k] = Ats[k]
  <2>1. /\ time'[k] = time[k] /\ Bound(k)' = Bound(k) /\ OwnResponse(k)' = OwnResponse(k)
        /\ Ats'[k] = TimeFrom(Ats, k)' /\ Ats[k] = TimeFrom(Ats, k)
    BY <1>1, <1>2, <1>3 DEF Alike
  <2>2. Bound(k) # None => time'[Bound(k)] = time[Bound(k)] /\ Ats'[Bound(k)] = Ats[Bound(k)]
    BY <1>1, <1>3 DEF Alike
  <2>3. OwnResponse(k) # None => Ats'[OwnResponse(k)] = Ats[OwnResponse(k)]
    BY <1>1, <1>3 DEF Alike
  <2>4. PulledFrom(Ats, k)' = PulledFrom(Ats, k)
    BY <2>1, <2>2 DEF PulledFrom, ClearlyAsynchronous, Unknown, Earlier
  <2> QED
    BY <2>1, <2>3, <2>4 DEF TimeFrom, Earlier
<1>4. S = Legs
  <2>1. S \in SUBSET Legs /\ \A k \in Legs : (\A j \in Legs : Measure[j] < Measure[k] => j \in S) => k \in S
    BY <1>3
  <2> HIDE DEF S
  <2> QED
    BY <1>1, <2>1, ByMeasure
<1> QED
  BY <1>4 DEF Alike

LEMMA OwnersAgree ==
  ASSUME OrderTypes, OrderTypes', NEW O, Alike(O)
  PROVE  \A k \in O : Owners'[k] = Owners[k] /\ Owners[k] \in O \cup {None}
<1> SUFFICES ASSUME NEW k \in O
             PROVE  Owners'[k] = Owners[k] /\ Owners[k] \in O \cup {None}
  OBVIOUS
<1> DEFINE b == Bound(k)
           r == OwnResponse(k)
<1>1. /\ k \in Legs /\ k \in Legs' /\ time'[k] = time[k]
      /\ b' = b /\ b \in O \cup {None} /\ r' = r /\ r \in O \cup {None}
  BY DEF Alike
<1>2. /\ Ats'[k] = Ats[k]
      /\ b # None => Ats'[b] = Ats[b]
      /\ r # None => Ats'[r] = Ats[r] /\ time'[r] = time[r]
  BY <1>1, TimesAgree DEF Alike
<1>3. Owners[k] = IF r # None /\ time[k] > time[r] /\ Ats[k] = Ats[r] THEN r
                  ELSE IF b # None /\ Ats[k] = Ats[b] THEN b ELSE None
  BY <1>1 DEF Owners, Owner, Bounds
<1>4. Owners'[k] = IF r' # None /\ time'[k] > time'[r'] /\ Ats'[k] = Ats'[r'] THEN r'
                   ELSE IF b' # None /\ Ats'[k] = Ats'[b'] THEN b' ELSE None
  BY <1>1 DEF Owners, Owner, Bounds
<1> HIDE DEF b, r
<1> QED
  BY <1>1, <1>2, <1>3, <1>4

LEMMA GroupsAgree ==
  ASSUME OrderTypes, OrderTypes', NEW O, Alike(O)
  PROVE  \A k \in O : Group'[k] = Group[k] /\ Group[k] \subseteq O
<1> DEFINE S == {k \in Legs : k \in O => Group'[k] = Group[k] /\ Group[k] \subseteq O}
<1>1. /\ Measure \in [Legs -> Nat]
      /\ \A k \in Legs : Owners[k] # None => Owners[k] \in Legs /\ Measure[Owners[k]] < Measure[k]
      /\ \A k \in Legs : Group[k] = {k} \cup IF Owners[k] = None THEN {} ELSE Group[Owners[k]]
  BY OrderHas DEF OrderFacts, Forest
<1>2. \A k \in Legs' : Group'[k] = {k} \cup IF Owners'[k] = None THEN {} ELSE Group'[Owners'[k]]
  BY OrderHasNext DEF OrderFacts, Forest
<1>3. ASSUME NEW k \in Legs, \A j \in Legs : Measure[j] < Measure[k] => j \in S, k \in O
      PROVE  Group'[k] = Group[k] /\ Group[k] \subseteq O
  <2>1. k \in Legs' /\ Owners'[k] = Owners[k] /\ Owners[k] \in O \cup {None}
    BY <1>3, OwnersAgree DEF Alike
  <2>2. Owners[k] # None => Group'[Owners[k]] = Group[Owners[k]] /\ Group[Owners[k]] \subseteq O
    BY <1>1, <1>3, <2>1
  <2>3. /\ Group[k] = {k} \cup IF Owners[k] = None THEN {} ELSE Group[Owners[k]]
        /\ Group'[k] = {k} \cup IF Owners[k] = None THEN {} ELSE Group'[Owners[k]]
    BY <1>1, <1>2, <2>1
  <2>4. k \in O
    BY <1>3
  <2> QED
    BY <2>2, <2>3, <2>4
<1>4. S = Legs
  <2>1. S \in SUBSET Legs /\ \A k \in Legs : (\A j \in Legs : Measure[j] < Measure[k] => j \in S) => k \in S
    BY <1>3
  <2> HIDE DEF S
  <2> QED
    BY <1>1, <2>1, ByMeasure
<1> QED
  BY <1>4 DEF Alike

LEMMA PrecedesAgrees ==
  ASSUME OrderTypes, OrderTypes', NEW O, Alike(O)
  PROVE  \A j, k \in O : Precedes(j, k)' <=> Precedes(j, k)
<1>1. \A k \in O : /\ Owners'[k] = Owners[k]
                   /\ Group'[k] = Group[k] /\ Group[k] \subseteq O
  BY OwnersAgree, GroupsAgree
<1>2. ASSUME NEW k \in O PROVE Weights'[k] = Weights[k]
  <2>1. k \in Legs /\ k \in Legs' /\ time'[k] = time[k] /\ Ats'[k] = Ats[k]
    BY TimesAgree DEF Alike
  <2>2. /\ Weights[k] = <<IF Owners[k] = None THEN Ats[k]
                          ELSE IF k[1] = Owners[k][1] THEN 0 ELSE 1, time[k], Number[k]>>
        /\ Weights'[k] = <<IF Owners'[k] = None THEN Ats'[k]
                           ELSE IF k[1] = Owners'[k][1] THEN 0 ELSE 1, time'[k], Number[k]>>
    BY <2>1 DEF Weights, Weight
  <2> QED
    BY <1>1, <2>1, <2>2
<1> SUFFICES ASSUME NEW j \in O, NEW k \in O
             PROVE  Precedes(j, k)' <=> Precedes(j, k)
  OBVIOUS
<1>3. \A a \in Group[j] \cup Group[k] : Owners'[a] = Owners[a] /\ Weights'[a] = Weights[a]
  BY <1>1, <1>2
<1> QED
  BY <1>1, <1>3 DEF Precedes, Smaller, Less

(* Places are different numbers.                                               *)
LEMMA PlacesDiffer ==
  OrderTypes /\ ByRanks =>
    \A j, k \in Legs : Place(j) \in Nat /\ (Place(j) = Place(k) => j = k)
<1> SUFFICES ASSUME OrderTypes, ByRanks
             PROVE  \A j, k \in Legs : Place(j) \in Nat /\ (Place(j) = Place(k) => j = k)
  OBVIOUS
<1>1. OrderOf(Ranks)
  BY DEF OrderOf, ByRanks
<1>2. \A k \in Legs : Place(k) \in Nat /\ order[Place(k)] = k
  BY <1>1, PositionFacts
<1> QED
  BY <1>2

LEMMA NextOfNext ==
  OrderTypes' /\ ByRanks' =>
    /\ \A j, k \in Legs' : Place(j)' \in Nat /\ (Place(j)' = Place(k)' => j = k)
    /\ \A O : Apart(O)' => \A i \in O : IsNext(O, i)'
<1>1. (OrderTypes /\ ByRanks =>
         \A j, k \in Legs : Place(j) \in Nat /\ (Place(j) = Place(k) => j = k))'
  BY PlacesDiffer, PTL
<1>2. (OrderTypes /\ ByRanks => \A O : Apart(O) => \A i \in O : IsNext(O, i))'
  BY NextOf, PTL
<1> QED
  BY <1>1, <1>2

(* Legs that are alike have one order: the first that are different would both *)
(* be next after the same ones, each before the other.                         *)
LEMMA SameOrder ==
  ASSUME OrderTypes, OrderTypes', ByRanks, ByRanks', NEW O, Alike(O)
  PROVE  \A i, j \in O : Ahead(i, j)' <=> Ahead(i, j)
<1> DEFINE S == {i \in O : \A j \in O : Ahead(j, i)' <=> Ahead(j, i)}
           M == [k \in O |-> Place(k)]
<1>1. /\ \A j, k \in O : Place(j) \in Nat /\ (Place(j) = Place(k) => j = k)
      /\ \A j, k \in O : Place(j)' \in Nat /\ (Place(j)' = Place(k)' => j = k)
  BY PlacesDiffer, NextOfNext DEF Alike
<1>2. Apart(O) /\ Apart(O)'
  BY DEF Apart, Alike
<1>3. ASSUME NEW i \in O, \A j \in O : M[j] < M[i] => j \in S
      PROVE  i \in S
  <2>0. PICK B : B = AheadOf(O, i)
    OBVIOUS
  <2> DEFINE Rest == {Place(j)' : j \in O \ B}
  <2>1. \A j \in B : j \in S
    BY <1>3, <2>0 DEF Ahead, AheadOf
  <2>2. i \in O \ B
    BY <1>1, <1>3, <2>0 DEF Ahead, AheadOf
  <2>3. Rest \in SUBSET Nat /\ Rest # {}
    BY <1>1, <2>2
  <2>4. PICK m \in Rest : \A n \in Rest : m <= n
    <3> HIDE DEF Rest
    <3> QED
      BY <2>3, SmallestOf
  <2>5. PICK h \in O \ B : m = Place(h)'
    OBVIOUS
  <2>6. AheadOf(O, h)' = B
    <3>1. ASSUME NEW j \in O \ B PROVE ~Ahead(j, h)'
      <4>1. Place(h)' <= Place(j)'
        BY <2>4, <2>5
      <4> QED
        BY <1>1, <2>5, <4>1 DEF Ahead
    <3>2. ASSUME NEW j \in B, ~Ahead(j, h)' PROVE FALSE
      <4>1. Ahead(h, j)'
        BY <1>1, <2>0, <2>5, <3>2 DEF Ahead, AheadOf
      <4>2. Ahead(h, j)
        BY <2>1, <2>5, <4>1
      <4>3. Ahead(h, i)
        BY <1>1, <1>3, <2>0, <2>5, <3>2, <4>2 DEF Ahead, AheadOf
      <4> QED
        BY <2>0, <2>5, <4>3 DEF AheadOf
    <3> QED
      BY <2>0, <3>1, <3>2 DEF AheadOf
  <2>7. i \in ReleasableOf(O, B) /\ \A j \in ReleasableOf(O, B) \ {i} : Precedes(i, j)
    BY <1>2, <1>3, <2>0, NextOf DEF IsNext
  <2>8. h \in ReleasableOf(O, B)' /\ \A j \in ReleasableOf(O, B)' \ {h} : Precedes(h, j)'
    <3>1. IsNext(O, h)'
      BY <1>2, <2>5, NextOfNext
    <3> QED
      BY <2>6, <3>1 DEF IsNext, ReleasableOf
  <2>9. ReleasableOf(O, B)' = ReleasableOf(O, B)
    <3>1. {j \in O \ B : Preceder(j)' \in B \cup {None}} = {j \in O \ B : Preceder(j) \in B \cup {None}}
      BY DEF Alike
    <3>2. {j \in O \ B : OnCycle(j)'} = {j \in O \ B : OnCycle(j)}
      BY DEF Alike
    <3> QED
      BY <3>1, <3>2 DEF ReleasableOf
  <2>10. i = h
    <3> SUFFICES ASSUME i # h PROVE FALSE
      OBVIOUS
    <3>1. Precedes(i, h) /\ Precedes(h, i)
      <4>1. h \in ReleasableOf(O, B) \ {i} /\ i \in ReleasableOf(O, B)' \ {h}
        BY <2>7, <2>8, <2>9
      <4>2. Precedes(i, h) /\ Precedes(h, i)'
        BY <2>7, <2>8, <4>1
      <4> QED
        BY <2>5, <4>2, PrecedesAgrees
    <3>2. Ranks[i] < Ranks[h] /\ Ranks[h] < Ranks[i]
      BY <2>5, <3>1, PrecedesFacts DEF Alike
    <3>3. Ranks[i] \in Nat /\ Ranks[h] \in Nat
      BY <2>5, RankFacts DEF Alike
    <3> QED
      BY <3>2, <3>3
  <2> QED
    BY <1>3, <2>0, <2>6, <2>10 DEF AheadOf
<1>4. S = O
  <2>1. M \in [O -> Nat] /\ S \in SUBSET O
    BY <1>1
  <2> HIDE DEF M, S
  <2> QED
    BY <1>3, <2>1, ByMeasure
<1> QED
  BY <1>4

(* What a leg leads to stays when links that it does not lead to are added.    *)
LEMMA BeyondGrows ==
  ASSUME NEW next, NEW more, NEW S, NEW Q, S \subseteq Q, NEW x \in S,
         \A z \in S : more[z] = next[z] /\ (next[z] \in Q => next[z] \in S)
  PROVE  Beyond(more, x, Q) = Beyond(next, x, S)
<1> DEFINE T == Beyond(next, x, S)
           U == Beyond(more, x, Q)
<1>1. /\ T \subseteq S /\ \A z \in T \cup {x} : next[z] \in S => next[z] \in T
      /\ U \subseteq Q /\ \A z \in U \cup {x} : more[z] \in Q => more[z] \in U
  BY BeyondFacts
<1>2. U \subseteq T
  <2>1. T \in SUBSET Q /\ \A z \in T \cup {x} : more[z] \in Q => more[z] \in T
    BY <1>1
  <2> HIDE DEF T
  <2> QED
    BY <2>1, BeyondFacts
<1>3. T \subseteq U \cap S
  <2> DEFINE V == U \cap S
  <2>1. V \in SUBSET S /\ \A z \in V \cup {x} : next[z] \in S => next[z] \in V
    BY <1>1
  <2> HIDE DEF V
  <2>2. T \subseteq V
    BY <2>1, BeyondFacts
  <2> QED
    BY <2>2 DEF V
<1> QED
  BY <1>2, <1>3

(* The legs of other interactions than one that nothing has for a parent.      *)
LEMMA LandsApart ==
  ASSUME OrderTypes, NEW k \in Leg, NEW t, Land(k, t),
         \A j \in Legs : parent[j[1]] # k[1]
  PROVE  Alike({j \in Legs : j[1] # k[1]})
<1> DEFINE O == {j \in Legs : j[1] # k[1]}
<1>1. /\ k \notin Legs /\ Legs' = Legs \cup {k} /\ parent' = parent
      /\ \A j \in Legs : time'[j] = time[j]
  BY DEF Land, Legs
<1>2. \A i, s : i # k[1] => Present(<<i, s>>)' = Present(<<i, s>>)
  BY <1>1 DEF Present
<1>3. \A leg : Present(leg) = None \/ (Present(leg) = leg /\ leg \in Legs)
  BY DEF Present
<1>4. ASSUME NEW j \in O
      PROVE  Bound(j)' = Bound(j) /\ Bound(j) \in O \cup {None}
  <2>1. Inter' = Inter \cup {k[1]} /\ j[1] \in Inter
    BY <1>1 DEF Inter
  <2>2. \A z \in Inter : parent'[z] = parent[z] /\ (parent[z] \in Inter' => parent[z] \in Inter)
    BY <1>1, <2>1 DEF Inter
  <2>3. Beyond(parent', j[1], Inter') = Beyond(parent, j[1], Inter)
    BY <2>1, <2>2, BeyondGrows
  <2>4. parent[j[1]] # k[1]
    OBVIOUS
  <2>5. Bound(j) = IF j[1] \in Beyond(parent, j[1], Inter)
                   THEN None ELSE Present(<<parent[j[1]], "response">>)
    BY DEF Bound, Inter
  <2>6. Bound(j)' = IF j[1] \in Beyond(parent', j[1], Inter')
                    THEN None ELSE Present(<<parent[j[1]], "response">>)'
    BY DEF Bound, Inter
  <2>7. Bound(j)' = Bound(j)
    BY <1>1, <1>2, <2>3, <2>4, <2>5, <2>6
  <2>8. <<parent[j[1]], "response">>[1] = parent[j[1]]
    OBVIOUS
  <2> QED
    BY <1>3, <2>4, <2>5, <2>7, <2>8
<1>5. ASSUME NEW j \in O
      PROVE  OwnResponse(j)' = OwnResponse(j) /\ OwnResponse(j) \in O \cup {None}
  <2> DEFINE r == <<j[1], "response">>
  <2>1. /\ Present(r)' = Present(r)
        /\ Present(r) = None \/ (Present(r) = r /\ r \in Legs /\ time'[r] = time[r])
    BY <1>1, <1>2, <1>3
  <2>2. r[1] = j[1]
    OBVIOUS
  <2>3. r \in Legs => r \in O
    BY <2>2
  <2> QED
    BY <2>1, <2>3 DEF OwnResponse, Unknown
<1>6. \A j \in Legs : j[2] # "response" => Preceder(j)' = Preceder(j)
  BY <1>1, <1>2 DEF Preceder
<1>7. ASSUME NEW j \in O
      PROVE  Preceder(j)' = Preceder(j) /\ Preceder(j) \in O \cup {None}
  <2>1. parent[j[1]] # k[1] /\ j[1] # k[1]
    OBVIOUS
  <2>2. Preceder(j)' = Preceder(j)
    BY <1>1, <1>2, <2>1 DEF Preceder
  <2>3. <<parent[j[1]], "request">>[1] = parent[j[1]] /\ <<j[1], "request">>[1] = j[1]
    OBVIOUS
  <2> QED
    BY <1>3, <2>1, <2>2, <2>3 DEF Preceder
<1>8. ASSUME NEW j \in O PROVE OnCycle(j)' <=> OnCycle(j)
  <2> DEFINE S == {z \in Legs : z[2] = "request"}
             Q == {z \in Legs' : z[2] = "request"}
  <2>1. /\ DOMAIN Waits = S /\ DOMAIN Waits' = Q
        /\ \A z \in S : Waits[z] = Preceder(z) /\ Waits'[z] = Preceder(z)'
    BY <1>1 DEF Waits
  <2>2. S \subseteq Q /\ (j \in Q <=> j \in S)
    BY <1>1
  <2>3. None \notin Q
    BY <1>1, TraceLegsAssumption DEF OrderTypes
  <2>4. ASSUME NEW z \in S
        PROVE  Waits'[z] = Waits[z] /\ (Waits[z] \in Q => Waits[z] \in S)
    BY <1>6, <2>1, <2>3, PrecederFacts
  <2>5. j \in S => Beyond(Waits', j, Q) = Beyond(Waits, j, S)
    <3> HIDE DEF S, Q
    <3> QED
      BY <2>2, <2>4, BeyondGrows
  <2>6. OnCycle(j) <=> j \in S /\ j \in Beyond(Waits, j, S)
    BY <2>1 DEF OnCycle
  <2>7. OnCycle(j)' <=> j \in Q /\ j \in Beyond(Waits', j, Q)
    BY <2>1 DEF OnCycle, Beyond
  <2> QED
    BY <2>2, <2>5, <2>6, <2>7
<1> QED
  BY <1>1, <1>4, <1>5, <1>7, <1>8 DEF Alike

(* The order is one that the ranks of its own legs choose.                     *)
LEMMA RankedStill ==
  ASSUME OrderTypes, ByRanks, UNCHANGED ordering
  PROVE  ByRanks'
<1>1. parent' = parent /\ time' = time /\ order' = order
  BY DEF ordering
<1>2. Legs' = Legs
  BY <1>1 DEF Legs
<1>3. \A k : Preceder(k)' = Preceder(k) /\ OwnResponse(k)' = OwnResponse(k)
  BY <1>1, <1>2 DEF Preceder, OwnResponse, Present, Unknown
<1>4. \A k : Bound(k)' = Bound(k)
  BY <1>1, <1>2 DEF Bound, Present, Beyond
<1>5. Waits' = Waits
  BY <1>2, <1>3 DEF Waits
<1>6. \A k : OnCycle(k)' <=> OnCycle(k)
  BY <1>5 DEF OnCycle, Beyond
<1>7. Alike(Legs)
  <2>1. \A leg : Present(leg) \in Legs \cup {None}
    BY DEF Present
  <2>2. \A k : /\ Bound(k) \in Legs \cup {None} /\ OwnResponse(k) \in Legs \cup {None}
               /\ Preceder(k) \in Legs \cup {None}
    BY <2>1 DEF Bound, OwnResponse, Preceder
  <2> QED
    BY <1>1, <1>2, <1>3, <1>4, <1>6, <2>2 DEF Alike
<1>8. OrderTypes'
  BY <1>1, <1>2 DEF OrderTypes
<1>9. Ranks' = Ranks
  <2>1. \A j, k \in Legs : Precedes(j, k)' <=> Precedes(j, k)
    <3>1. PICK O : O = Legs
      OBVIOUS
    <3> QED
      BY <1>7, <1>8, <3>1, PrecedesAgrees
  <2>2. ASSUME NEW k \in Legs
        PROVE  /\ Ranks[k] = Cardinality({j \in Legs \ {k} : Precedes(j, k)})
               /\ Ranks'[k] = Cardinality({j \in Legs' \ {k} : Precedes(j, k)'})
    BY <1>2 DEF Ranks, Rank, Precedes, Smaller
  <2>3. \A k \in Legs : {j \in Legs' \ {k} : Precedes(j, k)'} = {j \in Legs \ {k} : Precedes(j, k)}
    BY <1>2, <2>1
  <2>4. Ranks = [k \in Legs |-> Ranks[k]] /\ Ranks' = [k \in Legs |-> Ranks'[k]]
    BY <1>2 DEF Ranks
  <2> QED
    BY <2>2, <2>3, <2>4
<1>10. \A done : Releasable(done)' = Releasable(done)
  BY <1>2, <1>3, <1>6 DEF Releasable
<1>11. Chosen(order, Ranks)'
  BY <1>1, <1>2, <1>9, <1>10 DEF Chosen, Before, ByRanks
<1>12. Complete(order)'
  BY <1>1, <1>2 DEF Complete, ByRanks
<1> QED
  BY <1>11, <1>12 DEF ByRanks

LEMMA RankedStarts ==
  InitOrder => ByRanks
<1> SUFFICES ASSUME InitOrder PROVE ByRanks
  OBVIOUS
<1>1. Legs = {}
  BY DEF InitOrder, Legs
<1>2. order \in Seq(Legs) /\ DOMAIN order = {} /\ Len(order) = 0
  BY DEF InitOrder
<1> QED
  BY <1>1, <1>2, FS_EmptySet DEF Chosen, Complete, ByRanks

LEMMA OrderIsByRanks ==
  Shape /\ order \in Ordered(Ranks) => ByRanks
<1> SUFFICES ASSUME Shape, order \in Ordered(Ranks) PROVE ByRanks
  OBVIOUS
<1>1. OrderTypes
  BY ShapeFacts
<1>2. Ranks \in [Legs -> Nat]
  BY <1>1, RankFacts
<1> QED
  BY <1>1, <1>2, OrderedFacts DEF ByRanks

LEMMA RankedGoesOn ==
  ASSUME OrderInv', NEW k, NEW t, Land(k, t)
  PROVE  ByRanks'
<1>1. (order \in Ordered(Ranks))'
  BY OrderedByRank DEF Land
<1>2. (Shape /\ order \in Ordered(Ranks) => ByRanks)'
  BY OrderIsByRanks, PTL
<1> QED
  BY <1>1, <1>2 DEF OrderInv

LEMMA StillTyped ==
  OrderInv' => OrderTypes'
<1>1. (Shape => OrderTypes)'
  BY ShapeFacts, PTL
<1> QED
  BY <1>1 DEF OrderInv

LEMMA RankedNext ==
  ASSUME OrderInv, OrderInv', ByRanks, [NextOrder]_ordering
  PROVE  ByRanks'
<1>1. OrderTypes
  BY ShapeFacts DEF OrderInv
<1> QED
  BY <1>1, RankedStill, RankedGoesOn DEF NextOrder

LEMMA RankedAlways ==
  SpecOrder => []ByRanks
<1>1. OrderInv /\ OrderInv' /\ ByRanks /\ [NextOrder]_ordering => ByRanks'
  BY RankedNext
<1> QED
  BY <1>1, OrderAlways, RankedStarts, PTL DEF SpecOrder

(* A leg of an interaction without children moves no leg of another when it    *)
(* lands (order_legs, "the parent's response is never moved later for its      *)
(* child"): no other leg's time, group or place in line is made of its.        *)
THEOREM LateLeavesMoveNone == SpecOrder => LateLeafMovesNone
<1> DEFINE Kept ==
             \A k \in Legs' \ Legs :
               (\A j \in Legs : parent[j[1]] # k[1]) =>
                 \A i, j \in {h \in Legs : h[1] # k[1]} : Ahead(i, j)' <=> Ahead(i, j)
<1>1. ASSUME OrderInv, OrderInv', ByRanks, ByRanks', [NextOrder]_ordering
      PROVE  Kept
  <2>1. OrderTypes /\ OrderTypes'
    BY <1>1, ShapeFacts, StillTyped DEF OrderInv
  <2>2. CASE UNCHANGED ordering
    BY <2>2 DEF ordering, Legs
  <2>3. ASSUME NEW k \in Leg, NEW t \in 0..Unknown, Land(k, t),
               \A j \in Legs : parent[j[1]] # k[1]
        PROVE  \A i, j \in {h \in Legs : h[1] # k[1]} : Ahead(i, j)' <=> Ahead(i, j)
    <3> PICK O : O = {h \in Legs : h[1] # k[1]}
      OBVIOUS
    <3>1. Alike(O)
      BY <2>1, <2>3, LandsApart
    <3> QED
      BY <1>1, <2>1, <3>1, SameOrder
  <2>4. \A k \in Leg, t \in 0..Unknown : Land(k, t) => Legs' \ Legs = {k}
    BY DEF Land, Legs
  <2> QED
    BY <1>1, <2>2, <2>3, <2>4 DEF NextOrder
<1> QED
  BY <1>1, OrderAlways, RankedAlways, PTL DEF SpecOrder, LateLeafMovesNone

--------------------------------------------------------------------------------
(* Times decide. *)

(* Times that contradict nothing. *)
Agreeing ==
  \A k \in Legs :
    /\ time[k] # Unknown /\ ~OnCycle(k)
    /\ Preceder(k) # None => time[Preceder(k)] <= time[k]
    /\ Bound(k) # None =>
         time[k] <= time[Bound(k)] \/ time[k] > time[Bound(k)] + Tolerance

(* Nothing is pulled before its time. *)
LEMMA TimesKept ==
  ASSUME OrderTypes, Agreeing
  PROVE  \A k \in Legs : Ats[k] = time[k]
<1> DEFINE S == {k \in Legs : Ats[k] = time[k]}
<1>1. ASSUME NEW k \in Legs, \A j \in Legs : Measure[j] < Measure[k] => j \in S
      PROVE  Ats[k] = time[k]
  <2>1. /\ time[k] \in Nat /\ Tolerance \in Nat
        /\ \A j \in Legs : time[j] \in Nat /\ time[j] # Unknown
    BY LegOrderAssumption DEF OrderTypes, Agreeing
  <2>2. PulledFrom(Ats, k) = time[k]
    <3>1. CASE Bound(k) = None \/ ClearlyAsynchronous(k, Bound(k))
      BY <3>1 DEF PulledFrom
    <3>2. CASE ~(Bound(k) = None \/ ClearlyAsynchronous(k, Bound(k)))
      <4>1. Bound(k) \in Legs /\ Ats[Bound(k)] = time[Bound(k)]
        BY <1>1, <3>2, BoundFacts
      <4>2. time[k] <= time[Bound(k)]
        BY <2>1, <3>2, <4>1 DEF Agreeing, ClearlyAsynchronous
      <4> QED
        BY <2>1, <3>2, <4>1, <4>2 DEF PulledFrom, Earlier
    <3> QED
      BY <3>1, <3>2
  <2>3. CASE OwnResponse(k) = None
    BY <2>2, <2>3, AtFacts DEF TimeFrom
  <2>4. CASE OwnResponse(k) # None
    <3> DEFINE r == OwnResponse(k)
    <3>1. /\ k[2] = "request" /\ r = <<k[1], "response">> /\ r \in Legs
          /\ Ats[r] = time[r]
      BY <1>1, <2>4, OwnFacts
    <3>2. r[1] = k[1] /\ r[2] = "response" /\ k = <<k[1], "request">>
      BY <3>1 DEF OrderTypes, Leg
    <3>3. Preceder(r) = k
      BY <3>2 DEF Preceder, Present
    <3>4. k # None
      BY TraceLegsAssumption DEF OrderTypes
    <3>5. time[k] <= time[r]
      BY <3>1, <3>3, <3>4 DEF Agreeing
    <3> QED
      BY <2>1, <2>2, <2>4, <3>1, <3>5, AtFacts DEF TimeFrom, Earlier
  <2> QED
    BY <2>3, <2>4
<1>2. S = Legs
  <2>1. S \in SUBSET Legs /\ \A k \in Legs : (\A j \in Legs : Measure[j] < Measure[k] => j \in S) => k \in S
    BY <1>1
  <2> HIDE DEF S
  <2> QED
    BY <2>1, MeasureFacts, ByMeasure
<1> QED
  BY <1>2

(* The groups that a leg is in are of legs of its time.                        *)
LEMMA GroupsTimes ==
  ASSUME OrderTypes
  PROVE  \A k \in Legs : \A a \in Group[k] : a \in Legs /\ Ats[a] = Ats[k]
<1> DEFINE S == {k \in Legs : \A a \in Group[k] : Ats[a] = Ats[k]}
<1>1. ASSUME NEW k \in Legs, \A j \in Legs : Measure[j] < Measure[k] => j \in S,
             NEW a \in Group[k]
      PROVE  Ats[a] = Ats[k]
  <2>1. a = k \/ (Owners[k] # None /\ a \in Group[Owners[k]])
    BY ForestFacts, GroupFacts
  <2> QED
    BY <1>1, <2>1, OwnerFacts
<1>2. S = Legs
  <2>1. S \in SUBSET Legs /\ \A k \in Legs : (\A j \in Legs : Measure[j] < Measure[k] => j \in S) => k \in S
    BY <1>1
  <2> HIDE DEF S
  <2> QED
    BY <2>1, MeasureFacts, ByMeasure
<1>3. \A k \in Legs : \A a \in Group[k] : a \in Legs
  BY ForestFacts, GroupFacts
<1> QED
  BY <1>2, <1>3

LEMMA PrecedesInTime ==
  ASSUME OrderTypes
  PROVE  \A j, k \in Legs : Precedes(j, k) => Ats[j] <= Ats[k]
<1> SUFFICES ASSUME NEW j \in Legs, NEW k \in Legs, Precedes(j, k)
             PROVE  Ats[j] <= Ats[k]
  OBVIOUS
<1>1. Ats[j] \in Nat /\ Ats[k] \in Nat
  BY AtFacts
<1>2. CASE k \in Group[j]
  BY <1>1, <1>2, GroupsTimes
<1>3. ASSUME NEW a \in Group[j] \ Group[k], NEW b \in Group[k] \ Group[j],
             Owners[a] = Owners[b], Less(Weights[a], Weights[b])
      PROVE  Ats[j] <= Ats[k]
  <2>1. a \in Legs /\ b \in Legs /\ Ats[a] = Ats[j] /\ Ats[b] = Ats[k]
    BY <1>3, GroupsTimes
  <2>2. CASE Owners[a] # None
    BY <1>1, <1>3, <2>1, <2>2, OwnerFacts
  <2>3. CASE Owners[a] = None
    <3>1. Weights[a][1] = Ats[a] /\ Weights[b][1] = Ats[b]
      BY <1>3, <2>1, <2>3, WeightFacts
    <3>2. Weights[a] \in Triples /\ Weights[b] \in Triples
      BY <2>1, WeightFacts
    <3>3. Weights[a][1] <= Weights[b][1]
      <4>1. Weights[a][1] \in Nat /\ Weights[b][1] \in Nat
        BY <3>2 DEF Triples
      <4>2. Weights[a][1] < Weights[b][1] \/ Weights[a][1] = Weights[b][1]
        BY <1>3, <3>2, LessTriple
      <4> QED
        BY <4>1, <4>2
    <3> QED
      BY <2>1, <3>1, <3>3
  <2> QED
    BY <2>2, <2>3
<1> QED
  BY <1>2, <1>3 DEF Precedes, Smaller

(* Where no leg is on a cycle, one of the earliest that are left is ready.     *)
LEMMA EarliestReady ==
  ASSUME OrderTypes, Agreeing, NEW done \in SUBSET Legs, done # Legs
  PROVE  \E x \in Legs \ done :
           /\ Preceder(x) \in done \cup {None}
           /\ \A j \in Legs \ done : time[x] <= time[j]
<1> DEFINE left == Legs \ done
           Times == {time[j] : j \in left}
<1>1. Times \in SUBSET Nat /\ Times # {}
  BY DEF OrderTypes
<1>2. PICK m \in Times : \A n \in Times : m <= n
  <2> HIDE DEF Times
  <2> QED
    BY <1>1, SmallestOf
<1> DEFINE first == {j \in left : time[j] = m}
<1>3. first # {} /\ \A x \in first : \A j \in left : time[x] <= time[j]
  BY <1>2
<1>4. ASSUME \A x \in first : Preceder(x) \notin done \cup {None} PROVE FALSE
  <2> DEFINE Q == {k \in first : k[2] = "request"}
             S == {j \in Legs : j[2] = "request"}
  <2>1. ASSUME NEW x \in first PROVE Preceder(x) \in Q
    <3>1. Preceder(x) \in left /\ Preceder(x)[2] = "request" /\ Preceder(x) # None
      BY <1>4, PrecederFacts
    <3>2. time[Preceder(x)] <= time[x]
      BY <3>1 DEF Agreeing
    <3>3. m <= time[Preceder(x)] /\ time[x] = m
      BY <1>2, <3>1
    <3>4. time[Preceder(x)] \in Nat /\ m \in Nat
      BY <1>1, <3>1 DEF OrderTypes
    <3> QED
      BY <3>1, <3>2, <3>3, <3>4
  <2>2. Q \in SUBSET S /\ Q # {}
    BY <1>3, <2>1
  <2>3. IsFiniteSet(Q)
    BY FS_Subset DEF OrderTypes
  <2>4. DOMAIN Waits = S /\ \A z \in Q : Waits[z] = Preceder(z)
    BY DEF Waits
  <2>5. \A z \in Q : Waits[z] \in Q
    BY <2>1, <2>4
  <2>6. \E k \in Q : k \in Beyond(Waits, k, S)
    <3> HIDE DEF Q, S
    <3> QED
      BY <2>2, <2>3, <2>5, SomeCycle
  <2>7. \E k \in Legs : OnCycle(k)
    BY <2>4, <2>6 DEF OnCycle
  <2> QED
    BY <2>7 DEF Agreeing
<1> QED
  BY <1>3, <1>4

(* The leg that is released is no later in time than one that is ready and the *)
(* earliest of those left.                                                     *)
LEMMA TimesInOrder ==
  ASSUME OrderTypes, ByRanks, Agreeing
  PROVE  \A j, k \in Legs : Ahead(j, k) => time[j] <= time[k]
<1> SUFFICES ASSUME NEW j \in Legs, NEW k \in Legs, Ahead(j, k)
             PROVE  time[j] <= time[k]
  OBVIOUS
<1> DEFINE done == Before(order, Place(j))
<1>1. OrderOf(Ranks)
  BY DEF OrderOf, ByRanks
<1>2. /\ \A i \in Releasable(done) : Ranks[j] <= Ranks[i]
      /\ \A i \in Legs : i \in done <=> Ahead(i, j)
  BY <1>1, BeforeFacts
<1>3. k \in Legs \ done
  BY <1>2, PlacesDiffer DEF Ahead
<1>4. done \in SUBSET Legs
  <2>1. \A n \in DOMAIN order : order[n] \in Legs
    BY <1>1, PositionFacts
  <2>2. 1..Place(j) - 1 \subseteq DOMAIN order
    BY <1>1, PositionFacts
  <2> QED
    BY <2>1, <2>2 DEF Before
<1> HIDE DEF done
<1>5. PICK x \in Legs \ done : /\ Preceder(x) \in done \cup {None}
                               /\ \A i \in Legs \ done : time[x] <= time[i]
  BY <1>3, <1>4, EarliestReady
<1>6. x \in Releasable(done)
  BY <1>5 DEF Releasable
<1>7. j = x \/ Precedes(j, x)
  <2>1. Ranks[j] \in Nat /\ Ranks[x] \in Nat /\ Ranks[j] <= Ranks[x]
    BY <1>2, <1>5, <1>6, RankFacts
  <2> QED
    BY <1>5, <2>1, PrecedesFacts
<1>8. time[j] <= time[x]
  <2>1. Ats[j] = time[j] /\ Ats[x] = time[x]
    BY <1>5, TimesKept
  <2>2. time[j] \in Nat
    BY DEF OrderTypes
  <2> QED
    BY <1>5, <1>7, <2>1, <2>2, PrecedesInTime
<1>9. time[x] <= time[k] /\ time[j] \in Nat /\ time[x] \in Nat /\ time[k] \in Nat
  BY <1>3, <1>5 DEF OrderTypes
<1> QED
  BY <1>8, <1>9

(* Where the times agree with the parent links and with who answers first, the *)
(* order is theirs (order_legs, "Among currently unconstrained legs, the       *)
(* earliest sort time wins"): no leg is pulled before its own time, and one of *)
(* the earliest that are left can always be released.                          *)
THEOREM TimesAreKept == SpecOrder => []TimesDecide
<1>1. ASSUME OrderInv, ByRanks PROVE TimesDecide
  <2>1. OrderTypes
    BY <1>1, ShapeFacts DEF OrderInv
  <2>2. Agreeing => \A j, k \in Legs : Ahead(j, k) => time[j] <= time[k]
    BY <1>1, <2>1, TimesInOrder
  <2> QED
    BY <2>2 DEF TimesDecide, Agreeing
<1> QED
  BY <1>1, OrderAlways, RankedAlways, PTL

--------------------------------------------------------------------------------
(* The legs of a trace as steps of a path.  A node is an entity and the leg,   *)
(* or the end of the trace, on which a path came to it.                        *)

Node == Entity \X Nat

Onward(x) == {p \in Adjacent(trace.row, x[1]) : Eligible(p, x[2])}
OpenAt(x) == {Destination(p) : p \in {q \in Undelivered(x[1]) : Eligible(q, x[2])}}

Successors(S) ==
  {<<Destination(p), p>> : p \in {q \in Position : \E x \in S : q \in Onward(x)}}

(* Whoever comes on a may go on over every leg that is open to one who comes   *)
(* on b.                                                                       *)
AsPermissive(a, b) == IF Forward THEN a <= b ELSE a >= b

(* Where paths of n legs end: what Arrivals says, for every n. *)
EndsOf(start, step) ==
  CHOOSE f \in [Nat -> SUBSET Node] : Iterates(f, start, step)

Ends == EndsOf(Start, [S \in SUBSET Node |-> Successors(S)])

WalkTypes ==
  /\ trace.legs \in Seq(Leg) /\ DOMAIN trace.row = DOMAIN trace.legs
  /\ trace.who \in [Interaction -> [caller : Entity \cup {None},
                                    callee : Entity \cup {None}]]
  /\ ask.seed \in Entity /\ ask.hops \in Nat \ {0} /\ ask.entities \in Nat \ {0}
  /\ DOMAIN hops \subseteq Entity \ {ask.seed} /\ IsFiniteSet(DOMAIN hops)
  /\ \A e \in DOMAIN hops : hops[e] \in Nat
  /\ DOMAIN bestArrival = DOMAIN hops \cup {ask.seed}
  /\ \A e \in DOMAIN bestArrival : bestArrival[e] \in Nat
  /\ reported \subseteq Position /\ truncated \in BOOLEAN
  /\ queue \in Seq([at : Entity, depth : Nat, arrival : Nat])
  /\ visit \in [at : Entity, depth : Nat, rest : SUBSET Position]
  /\ \A p \in visit.rest : Destination(p) \in Entity

LEMMA LegFacts ==
  WalkTypes =>
    /\ Len(trace.legs) \in Nat /\ Position = 1..Len(trace.legs) /\ SeedArrival \in Nat
    /\ Start \in SUBSET Node
    /\ \A x : \A p \in Onward(x) :
         p \in Position /\ Origin(p) = x[1] /\ Destination(p) \in Entity
<1> SUFFICES ASSUME WalkTypes
             PROVE  /\ Len(trace.legs) \in Nat /\ Position = 1..Len(trace.legs)
                    /\ SeedArrival \in Nat /\ Start \in SUBSET Node
                    /\ \A x : \A p \in Onward(x) :
                         p \in Position /\ Origin(p) = x[1] /\ Destination(p) \in Entity
  OBVIOUS
<1>1. Len(trace.legs) \in Nat /\ Position = 1..Len(trace.legs)
  BY DEF WalkTypes, Position
<1>2. SeedArrival \in Nat
  BY <1>1 DEF SeedArrival
<1>3. Start \in SUBSET Node
  BY <1>2 DEF Start, Node, WalkTypes
<1>4. ASSUME NEW x, NEW p \in Onward(x)
      PROVE  p \in Position /\ Origin(p) = x[1] /\ Destination(p) \in Entity
  <2>1. p \in Position /\ Origin(p) = x[1] /\ Destination(p) # None
    BY <1>4 DEF Onward, Adjacent
  <2>2. trace.legs[p] \in Leg
    BY <1>1, <2>1 DEF WalkTypes
  <2>3. trace.who[trace.legs[p][1]] \in [caller : Entity \cup {None},
                                         callee : Entity \cup {None}]
    BY <2>2 DEF WalkTypes, Leg
  <2>4. Producer(p) \in Entity \cup {None} /\ Consumer(p) \in Entity \cup {None}
    BY <2>3 DEF Producer, Consumer
  <2> QED
    BY <2>1, <2>4 DEF Destination
<1> QED
  BY <1>1, <1>2, <1>3, <1>4

LEMMA EndsFacts ==
  WalkTypes =>
    /\ Ends \in [Nat -> SUBSET Node]
    /\ Ends[0] = Start
    /\ \A n \in Nat : Ends[n + 1] = Successors(Ends[n])
<1> SUFFICES ASSUME WalkTypes
             PROVE  /\ Ends \in [Nat -> SUBSET Node]
                    /\ Ends[0] = Start
                    /\ \A n \in Nat : Ends[n + 1] = Successors(Ends[n])
  OBVIOUS
<1> DEFINE step == [S \in SUBSET Node |-> Successors(S)]
<1>1. step \in [SUBSET Node -> SUBSET Node]
  <2> SUFFICES ASSUME NEW S \in SUBSET Node PROVE Successors(S) \subseteq Node
    OBVIOUS
  <2>1. \A p \in Position : p \in Nat
    BY LegFacts
  <2> QED
    BY <2>1, LegFacts DEF Successors, Node
<1>2. \A S \in SUBSET Node : step[S] = Successors(S)
  OBVIOUS
<1> HIDE DEF step
<1>3. \E f \in [Nat -> SUBSET Node] : Iterates(f, Start, step)
  BY <1>1, LegFacts, Iteration
<1>4. Ends \in [Nat -> SUBSET Node] /\ Iterates(Ends, Start, step)
  BY <1>3 DEF Ends, EndsOf, step
<1>5. ASSUME NEW n \in Nat PROVE Ends[n] \in SUBSET Node
  BY <1>4
<1> QED
  BY <1>2, <1>4, <1>5 DEF Iterates

(* The trace and the question stay, and with them everything said of them.     *)
LEMMA SamePaths ==
  ASSUME UNCHANGED <<trace, ask>>
  PROVE  /\ Ends' = Ends /\ Start' = Start /\ Position' = Position
         /\ \A x : Onward(x)' = Onward(x) /\ OpenAt(x)' = OpenAt(x)
         /\ \A p : Origin(p)' = Origin(p) /\ Destination(p)' = Destination(p)
         /\ \A p, q : /\ Eligible(p, q)' = Eligible(p, q)
                      /\ AsPermissive(p, q)' = AsPermissive(p, q)
<1>1. Forward' = Forward /\ Position' = Position /\ SeedArrival' = SeedArrival
  BY DEF Forward, Position, SeedArrival
<1>2. \A p : Producer(p)' = Producer(p) /\ Consumer(p)' = Consumer(p)
  BY DEF Producer, Consumer
<1>3. \A p : Origin(p)' = Origin(p) /\ Destination(p)' = Destination(p)
  BY <1>1, <1>2 DEF Origin, Destination
<1>4. \A p, q : /\ Eligible(p, q)' = Eligible(p, q)
                /\ AsPermissive(p, q)' = AsPermissive(p, q)
  BY <1>1 DEF Eligible, AsPermissive
<1>5. ASSUME NEW x PROVE Onward(x)' = Onward(x)
  BY <1>1, <1>3, <1>4 DEF Onward, Adjacent
<1>6. ASSUME NEW x PROVE OpenAt(x)' = OpenAt(x)
  <2>1. Undelivered(x[1])' = Undelivered(x[1])
    BY <1>1, <1>3 DEF Undelivered
  <2> QED
    BY <1>3, <1>4, <2>1 DEF OpenAt
<1>7. Start' = Start
  BY <1>1 DEF Start
<1>8. ASSUME NEW S PROVE Successors(S)' = Successors(S)
  BY <1>1, <1>3, <1>5 DEF Successors
<1>9. [S \in SUBSET Node |-> Successors(S)]' = [S \in SUBSET Node |-> Successors(S)]
  BY <1>8
<1> QED
  BY <1>1, <1>3, <1>4, <1>5, <1>6, <1>7, <1>9 DEF Ends

LEMMA MoreLegs ==
  WalkTypes =>
    \A e, a, b : a \in Nat /\ b \in Nat /\ AsPermissive(a, b) =>
      /\ Onward(<<e, b>>) \subseteq Onward(<<e, a>>)
      /\ OpenAt(<<e, b>>) \subseteq OpenAt(<<e, a>>)
<1> SUFFICES ASSUME WalkTypes, NEW e, NEW a \in Nat, NEW b \in Nat, AsPermissive(a, b)
             PROVE  /\ Onward(<<e, b>>) \subseteq Onward(<<e, a>>)
                    /\ OpenAt(<<e, b>>) \subseteq OpenAt(<<e, a>>)
  OBVIOUS
<1>1. ASSUME NEW p \in Position, Eligible(p, b) PROVE Eligible(p, a)
  <2>1. p \in Nat
    BY LegFacts
  <2> QED
    BY <1>1, <2>1 DEF Eligible, AsPermissive
<1> QED
  BY <1>1 DEF Onward, OpenAt, Adjacent, Undelivered

LEMMA NearestLeg ==
  ASSUME WalkTypes, visit.rest # {}
  PROVE  Nearest(visit.rest) \in visit.rest
<1>1. visit.rest \in SUBSET (1..Len(trace.legs)) /\ Len(trace.legs) \in Nat
  BY LegFacts DEF WalkTypes
<1>2. (\E m \in visit.rest : \A n \in visit.rest : m <= n)
      /\ (\E m \in visit.rest : \A n \in visit.rest : n <= m)
  <2>1. visit.rest \in SUBSET Nat
    BY <1>1
  <2> QED
    BY <1>1, <2>1, SmallestOf, LargestOf
<1>3. (\E m \in visit.rest : \A n \in visit.rest : m =< n)
      /\ (\E m \in visit.rest : \A n \in visit.rest : m >= n)
  BY <1>1, <1>2
<1> QED
  BY <1>3 DEF Nearest, Min, Max

--------------------------------------------------------------------------------
(* What a step does. *)

Visit == [at : Entity, depth : Nat, arrival : Nat]

(* Pop takes the first of the queue: all the others stay, one place ahead.     *)
LEMMA PopFacts ==
  ASSUME WalkTypes, Pop
  PROVE  /\ UNCHANGED <<trace, ask, hops, reported, bestArrival>>
         /\ visit.rest = {}
         /\ 1 \in DOMAIN queue /\ queue[1] \in Visit
         /\ queue' \in Seq(Visit)
         /\ \A n \in DOMAIN queue' : n + 1 \in DOMAIN queue /\ queue'[n] = queue[n + 1]
         /\ \A n \in DOMAIN queue : n # 1 => n - 1 \in DOMAIN queue' /\ queue'[n - 1] = queue[n]
         /\ frontier' = frontier \cup OpenAt(<<queue[1].at, queue[1].arrival>>)
         /\ LET onward == Onward(<<queue[1].at, queue[1].arrival>>) IN
            \/ /\ queue[1].depth >= ask.hops
               /\ truncated' = (truncated \/ onward # {})
               /\ visit' = visit
            \/ /\ queue[1].depth < ask.hops
               /\ visit' = [at |-> queue[1].at, depth |-> queue[1].depth, rest |-> onward]
               /\ truncated' = truncated
<1>1. queue # <<>> /\ queue \in Seq(Visit) /\ queue' = Tail(queue) /\ visit.rest = {}
      /\ UNCHANGED <<trace, ask, hops, reported, bestArrival>>
  BY DEF Pop, WalkTypes, Visit
<1>2. Head(queue) = queue[1] /\ 1 \in DOMAIN queue /\ queue[1] \in Visit
  BY <1>1
<1>3. /\ queue' \in Seq(Visit)
      /\ \A n \in DOMAIN queue' : n + 1 \in DOMAIN queue /\ queue'[n] = queue[n + 1]
      /\ \A n \in DOMAIN queue : n # 1 => n - 1 \in DOMAIN queue' /\ queue'[n - 1] = queue[n]
  <2>1. /\ Tail(queue) \in Seq(Visit) /\ Len(queue) \in Nat /\ Len(Tail(queue)) = Len(queue) - 1
        /\ \A n \in 1..Len(queue) - 1 : Tail(queue)[n] = queue[n + 1]
    BY <1>1
  <2>2. DOMAIN queue = 1..Len(queue) /\ DOMAIN Tail(queue) = 1..Len(queue) - 1
    BY <1>1, <2>1
  <2>3. ASSUME NEW n \in DOMAIN queue, n # 1
        PROVE  n - 1 \in 1..Len(queue) - 1 /\ Tail(queue)[n - 1] = queue[n]
    <3>1. n - 1 \in 1..Len(queue) - 1 /\ n = (n - 1) + 1
      BY <2>1, <2>2, <2>3
    <3>2. Tail(queue)[n - 1] = queue[(n - 1) + 1]
      BY <2>1, <3>1
    <3> QED
      BY <3>1, <3>2
  <2>4. \A n \in 1..Len(queue) - 1 : n + 1 \in 1..Len(queue)
    BY <2>1
  <2> QED
    BY <1>1, <2>1, <2>2, <2>3, <2>4
<1>4. /\ frontier' = frontier \cup OpenAt(<<queue[1].at, queue[1].arrival>>)
      /\ LET onward == Onward(<<queue[1].at, queue[1].arrival>>) IN
            \/ /\ queue[1].depth >= ask.hops
               /\ truncated' = (truncated \/ onward # {})
               /\ visit' = visit
            \/ /\ queue[1].depth < ask.hops
               /\ visit' = [at |-> queue[1].at, depth |-> queue[1].depth, rest |-> onward]
               /\ truncated' = truncated
  BY <1>2 DEF Pop, Open, OpenAt, Onward
<1> QED
  BY <1>1, <1>2, <1>3, <1>4

(* The leg that Cross crosses, and where to. *)
Crossed == Nearest(visit.rest)
Target == Destination(Crossed)
Arrived == [at |-> Target, depth |-> visit.depth + 1, arrival |-> Crossed]

(* Cross leaves every visit where it is, and may add one at the end.           *)
LEMMA CrossFacts ==
  ASSUME WalkTypes, visit.rest # {}, Cross
  PROVE  /\ UNCHANGED <<trace, ask, frontier>>
         /\ Crossed \in visit.rest /\ Crossed \in Position /\ Crossed \in Nat
         /\ Target \in Entity /\ Arrived \in Visit
         /\ visit' = [visit EXCEPT !.rest = @ \ {Crossed}]
         /\ queue' \in Seq(Visit)
         /\ \A n \in DOMAIN queue : n \in DOMAIN queue' /\ queue'[n] = queue[n]
         /\ \A m, n \in DOMAIN queue' : m < n => m \in DOMAIN queue
         /\ \A n \in DOMAIN queue' : n \in DOMAIN queue \/ queue'[n] = Arrived
         /\ \/ Reports(Target) /\ truncated' = truncated
               /\ reported' = reported \cup {Crossed}
               /\ hops' = (IF Target = ask.seed THEN hops
                           ELSE Put(hops, Target, Distance(Target, visit.depth + 1)))
               /\ \/ /\ OpensMore(Target, Crossed)
                     /\ bestArrival' = Put(bestArrival, Target, Crossed)
                     /\ \E n \in DOMAIN queue' : queue'[n] = Arrived
                  \/ /\ ~OpensMore(Target, Crossed)
                     /\ bestArrival' = bestArrival
            \/ /\ ~Reports(Target) /\ truncated' = TRUE
               /\ UNCHANGED <<reported, hops, bestArrival, queue>>
<1> DEFINE p == Crossed
           depth == visit.depth + 1
           withheld == ~Reports(Target)
           more == ~withheld /\ OpensMore(Target, p)
           sooner == ~withheld /\ ArrivesSooner(Target, depth)
<1>1. /\ p \in visit.rest /\ p \in Position /\ p \in Nat /\ Target \in Entity
      /\ visit.depth \in Nat
  <2>1. Position \subseteq Nat
    BY LegFacts
  <2> QED
    BY <2>1, NearestLeg DEF Crossed, Target, WalkTypes
<1>2. Arrived \in Visit
  BY <1>1 DEF Arrived, Visit
<1>3. /\ UNCHANGED <<trace, ask, frontier>>
      /\ visit' = [visit EXCEPT !.rest = @ \ {p}]
      /\ truncated' = (truncated \/ (Target \notin DOMAIN bestArrival
                                     /\ Cardinality(DOMAIN hops) >= ask.entities))
      /\ reported' = (IF Reports(Target) THEN reported \cup {p} ELSE reported)
  BY DEF Cross, Crossed, Target
<1>4. (Target \notin DOMAIN bestArrival /\ Cardinality(DOMAIN hops) >= ask.entities) <=> withheld
  <2>1. Cardinality(DOMAIN hops) \in Nat /\ ask.entities \in Nat
    BY FS_CardinalityType DEF WalkTypes
  <2> QED
    BY <2>1 DEF Reports
<1>5. /\ hops' = (IF withheld \/ Target = ask.seed THEN hops
                  ELSE Put(hops, Target, Distance(Target, depth)))
      /\ bestArrival' = (IF more THEN Put(bestArrival, Target, p) ELSE bestArrival)
      /\ queue' = (IF more \/ sooner THEN Append(queue, Arrived) ELSE queue)
  <2>1. /\ hops' = (IF (Target \notin DOMAIN bestArrival
                        /\ Cardinality(DOMAIN hops) >= ask.entities) \/ Target = ask.seed
                    THEN hops ELSE Put(hops, Target, Distance(Target, depth)))
        /\ bestArrival' = (IF /\ ~(Target \notin DOMAIN bestArrival
                                   /\ Cardinality(DOMAIN hops) >= ask.entities)
                              /\ OpensMore(Target, p)
                           THEN Put(bestArrival, Target, p) ELSE bestArrival)
        /\ queue' = (IF \/ /\ ~(Target \notin DOMAIN bestArrival
                                /\ Cardinality(DOMAIN hops) >= ask.entities)
                           /\ OpensMore(Target, p)
                        \/ /\ ~(Target \notin DOMAIN bestArrival
                                /\ Cardinality(DOMAIN hops) >= ask.entities)
                           /\ ArrivesSooner(Target, depth)
                     THEN Append(queue, Arrived) ELSE queue)
    BY DEF Cross, Crossed, Target, Arrived, Enqueue
  <2> QED
    BY <1>4, <2>1
<1>6. queue \in Seq(Visit) /\ Len(queue) \in Nat /\ DOMAIN queue = 1..Len(queue)
  BY DEF WalkTypes, Visit
<1>7. /\ Append(queue, Arrived) \in Seq(Visit)
      /\ DOMAIN Append(queue, Arrived) = 1..Len(queue) + 1
      /\ \A n \in 1..Len(queue) : Append(queue, Arrived)[n] = queue[n]
      /\ Append(queue, Arrived)[Len(queue) + 1] = Arrived
  BY <1>2, <1>6
<1>8. /\ queue' \in Seq(Visit)
      /\ \A n \in DOMAIN queue : n \in DOMAIN queue' /\ queue'[n] = queue[n]
      /\ \A m, n \in DOMAIN queue' : m < n => m \in DOMAIN queue
      /\ \A n \in DOMAIN queue' : n \in DOMAIN queue \/ queue'[n] = Arrived
      /\ more => \E n \in DOMAIN queue' : queue'[n] = Arrived
  <2> HIDE DEF more, sooner
  <2>1. CASE more \/ sooner
    <3>1. queue' = Append(queue, Arrived)
      BY <1>5, <2>1
    <3>2. DOMAIN queue' = 1..Len(queue) + 1 /\ queue'[Len(queue) + 1] = Arrived
          /\ Len(queue) + 1 \in DOMAIN queue'
      BY <1>6, <1>7, <3>1
    <3>3. \A m, n \in DOMAIN queue' : m < n => m \in DOMAIN queue
      BY <1>6, <3>2
    <3>4. \A n \in DOMAIN queue' : n \in DOMAIN queue \/ queue'[n] = Arrived
      BY <1>6, <3>2
    <3>5. \A n \in DOMAIN queue : n \in DOMAIN queue' /\ queue'[n] = queue[n]
      BY <1>6, <1>7, <3>1, <3>2
    <3> QED
      BY <1>7, <3>1, <3>2, <3>3, <3>4, <3>5
  <2>2. CASE ~(more \/ sooner)
    BY <1>5, <1>6, <2>2
  <2> QED
    BY <2>1, <2>2
<1>9. CASE withheld
  BY <1>1, <1>2, <1>3, <1>4, <1>5, <1>8, <1>9
<1>10. CASE ~withheld
  <2>1. truncated' = truncated
    BY <1>3, <1>4, <1>10 DEF WalkTypes
  <2> QED
    BY <1>1, <1>2, <1>3, <1>5, <1>8, <1>10, <2>1
<1> QED
  BY <1>9, <1>10

LEMMA NextTypes ==
  ASSUME WalkTypes, NextWalk PROVE WalkTypes'
<1>1. CASE Pop
  <2>1. UNCHANGED <<trace, ask, hops, reported, bestArrival>>
    BY <1>1, PopFacts
  <2>2. queue' \in Seq(Visit)
    BY <1>1, PopFacts
  <2>3. truncated' \in BOOLEAN
    BY <1>1, PopFacts DEF WalkTypes
  <2>4. visit' \in [at : Entity, depth : Nat, rest : SUBSET Position]
        /\ \A p \in visit'.rest : Destination(p) \in Entity
    BY <1>1, PopFacts, LegFacts DEF WalkTypes, Visit
  <2> QED
    BY <2>1, <2>2, <2>3, <2>4, SamePaths DEF WalkTypes, Visit
<1>2. CASE visit.rest # {} /\ Cross
  <2>1. UNCHANGED <<trace, ask>> /\ queue' \in Seq(Visit) /\ truncated' \in BOOLEAN
        /\ reported' \subseteq Position
    BY <1>2, CrossFacts DEF WalkTypes
  <2>2. visit' \in [at : Entity, depth : Nat, rest : SUBSET Position]
        /\ \A p \in visit'.rest : Destination(p) \in Entity
    <3>1. visit' = [visit EXCEPT !.rest = visit.rest \ {Crossed}]
      BY <1>2, CrossFacts
    <3>2. /\ visit \in [at : Entity, depth : Nat, rest : SUBSET Position]
          /\ \A p \in visit.rest : Destination(p) \in Entity
      BY DEF WalkTypes
    <3>3. visit'.rest = visit.rest \ {Crossed}
      BY <3>1, <3>2
    <3>4. visit' \in [at : Entity, depth : Nat, rest : SUBSET Position]
      BY <3>1, <3>2
    <3> QED
      BY <3>2, <3>3, <3>4
  <2>3. Crossed \in Nat /\ Target \in Entity /\ visit.depth + 1 \in Nat
    <3>1. visit.depth \in Nat
      BY DEF WalkTypes
    <3>2. Crossed \in Nat /\ Target \in Entity
      BY <1>2, CrossFacts
    <3> QED
      BY <3>1, <3>2
  <2>4. /\ DOMAIN hops' \subseteq Entity \ {ask.seed} /\ IsFiniteSet(DOMAIN hops')
        /\ \A e \in DOMAIN hops' : hops'[e] \in Nat
        /\ DOMAIN bestArrival' = DOMAIN hops' \cup {ask.seed}
        /\ \A e \in DOMAIN bestArrival' : bestArrival'[e] \in Nat
    <3>1. CASE ~Reports(Target)
      BY <1>2, <3>1, CrossFacts DEF WalkTypes
    <3>2. CASE Reports(Target)
      <4>1. /\ hops' = (IF Target = ask.seed THEN hops
                        ELSE Put(hops, Target, Distance(Target, visit.depth + 1)))
            /\ \/ bestArrival' = Put(bestArrival, Target, Crossed)
               \/ ~OpensMore(Target, Crossed) /\ bestArrival' = bestArrival
        BY <1>2, <3>2, CrossFacts
      <4>2. Distance(Target, visit.depth + 1) \in Nat
        <5>1. ASSUME NEW a \in Nat, NEW b \in Nat PROVE Min({a, b}) \in Nat
          BY DEF Min
        <5> QED
          BY <2>3, <5>1 DEF Distance, WalkTypes
      <4>3. /\ DOMAIN hops' = DOMAIN hops \cup ({Target} \ {ask.seed})
            /\ \A e \in DOMAIN hops' : hops'[e] \in Nat
        BY <2>3, <4>1, <4>2 DEF Put, WalkTypes
      <4>4. IsFiniteSet(DOMAIN hops')
        <5>1. IsFiniteSet(DOMAIN hops) /\ IsFiniteSet(DOMAIN hops \cup {Target})
          BY FS_AddElement DEF WalkTypes
        <5>2. DOMAIN hops' = DOMAIN hops \/ DOMAIN hops' = DOMAIN hops \cup {Target}
          BY <4>3
        <5> QED
          BY <5>1, <5>2
      <4>5. /\ DOMAIN bestArrival' = DOMAIN bestArrival \cup {Target}
            /\ \A e \in DOMAIN bestArrival' : bestArrival'[e] \in Nat
        <5>1. CASE bestArrival' = Put(bestArrival, Target, Crossed)
          BY <2>3, <5>1 DEF Put, WalkTypes
        <5>2. CASE ~OpensMore(Target, Crossed) /\ bestArrival' = bestArrival
          BY <5>2 DEF OpensMore, WalkTypes
        <5> QED
          BY <4>1, <5>1, <5>2
      <4> QED
        BY <2>3, <4>3, <4>4, <4>5 DEF WalkTypes
    <3> QED
      BY <3>1, <3>2
  <2> QED
    BY <2>1, <2>2, <2>4, SamePaths DEF WalkTypes, Visit
<1> QED
  BY <1>1, <1>2 DEF NextWalk

--------------------------------------------------------------------------------
(* What the walk keeps. *)

(* What is reported hangs together with the seed, and what is still to visit   *)
(* or to cross with what is reported.                                          *)
LeavesRoute(p) ==
  \/ Origin(p) = ask.seed
  \/ \E q \in reported : Destination(q) = Origin(p) /\ Eligible(p, q)

Supported ==
  /\ \A p \in reported : LeavesRoute(p) /\ Destination(p) \in DOMAIN bestArrival
  /\ \A n \in DOMAIN queue :
       \/ queue[n].at = ask.seed
       \/ queue[n].arrival \in reported
          /\ Destination(queue[n].arrival) = queue[n].at
  /\ \A p \in visit.rest : LeavesRoute(p)

(* Everything the walk holds is on a path from the seed.                       *)
Sound ==
  /\ \A n \in DOMAIN queue : <<queue[n].at, queue[n].arrival>> \in Ends[queue[n].depth]
  /\ \A p \in visit.rest : <<Destination(p), p>> \in Ends[visit.depth + 1]
  /\ \A p \in reported : \E n \in Nat : <<Destination(p), p>> \in Ends[n + 1]
  /\ \A f \in frontier : \E n \in Nat : \E x \in Ends[n] : f \in OpenAt(x)
  /\ \A e \in DOMAIN hops : \E x \in Ends[hops[e]] : x[1] = e

(* The walk is a level at a time: the visit being made and those queued are at *)
(* one depth, or at two that follow each other, and the deeper ones are last.  *)
Layers ==
  /\ \A m, n \in DOMAIN queue :
       /\ m < n => queue[m].depth <= queue[n].depth
       /\ queue[n].depth <= queue[m].depth + 1
  /\ \A n \in DOMAIN queue : queue[n].depth <= ask.hops
  /\ visit.rest # {} =>
       /\ visit.depth < ask.hops
       /\ \A n \in DOMAIN queue :
            visit.depth <= queue[n].depth /\ queue[n].depth <= visit.depth + 1

(* The best arrival at an entity opens what every reported one would.          *)
BestKept ==
  \A p \in reported :
    /\ Destination(p) \in DOMAIN bestArrival
    /\ AsPermissive(bestArrival[Destination(p)], p)

(* No leg has been withheld. *)
Unhindered == ~truncated \/ Cardinality(DOMAIN hops) < ask.entities

(* All that is left to do is at depth m or beyond. *)
Level(m) ==
  /\ \A n \in DOMAIN queue : m <= queue[n].depth
  /\ visit.rest # {} => m <= visit.depth

(* The walk goes on from x, or will, at depth m at the latest. *)
Queued(x, m) ==
  \E n \in DOMAIN queue :
    /\ queue[n].at = x[1] /\ AsPermissive(queue[n].arrival, x[2])
    /\ queue[n].depth <= m

Made(x, m) ==
  /\ OpenAt(x) \subseteq frontier
  /\ \A p \in Onward(x) : p \in reported \/ (p \in visit.rest /\ visit.depth <= m)

Handled(x, m) == Queued(x, m) \/ Made(x, m)

AllHandled ==
  \A e \in DOMAIN bestArrival : \E m \in Nat : Handled(<<e, bestArrival[e]>>, m)

(* The bound on the depth drops nothing before the walk comes to it.           *)
NothingDropped ==
  Unhindered /\ (~truncated \/ ~Level(ask.hops)) => AllHandled

(* Once only depth m and beyond is left, every path of m legs is followed on.  *)
LevelsDone ==
  Unhindered =>
    \A m \in Nat : Level(m) /\ (m < ask.hops \/ ~truncated) =>
      \A x \in Ends[m] : Handled(x, m)

(* No shorter path leads to an entity of the answer.                           *)
Shortest ==
  \A e \in DOMAIN hops : \A k \in Nat :
    k < hops[e] => \A x \in Ends[k] : x[1] # e

WalkInv ==
  /\ WalkTypes /\ Supported /\ Sound /\ Layers /\ BestKept
  /\ NothingDropped /\ LevelsDone /\ Shortest

LEMMA NextSupported ==
  ASSUME WalkTypes, Supported, NextWalk PROVE Supported'
<1>1. UNCHANGED <<trace, ask>>
  BY PopFacts, CrossFacts DEF NextWalk
<1>2. \A p, q : /\ Origin(p)' = Origin(p) /\ Destination(p)' = Destination(p)
                /\ Eligible(p, q)' = Eligible(p, q)
  BY <1>1, SamePaths
<1>3. ASSUME NEW p, LeavesRoute(p), reported \subseteq reported' PROVE LeavesRoute(p)'
  BY <1>1, <1>2, <1>3 DEF LeavesRoute
<1>4. CASE Pop
  <2>1. /\ UNCHANGED <<reported, bestArrival>> /\ visit.rest = {}
        /\ \A n \in DOMAIN queue' : n + 1 \in DOMAIN queue /\ queue'[n] = queue[n + 1]
    BY <1>4, PopFacts
  <2>2. ASSUME NEW p \in visit'.rest PROVE LeavesRoute(p)
    <3>1. p \in Onward(<<queue[1].at, queue[1].arrival>>) /\ 1 \in DOMAIN queue
      BY <1>4, <2>1, <2>2, PopFacts
    <3>2. Origin(p) = queue[1].at /\ Eligible(p, queue[1].arrival)
      BY <3>1 DEF Onward, Adjacent
    <3> QED
      BY <3>1, <3>2 DEF Supported, LeavesRoute
  <2> QED
    BY <1>1, <1>2, <1>3, <2>1, <2>2 DEF Supported
<1>5. CASE visit.rest # {} /\ Cross
  <2>1. /\ Crossed \in visit.rest /\ visit'.rest \subseteq visit.rest
        /\ reported \subseteq reported' /\ DOMAIN bestArrival \subseteq DOMAIN bestArrival'
    BY <1>5, CrossFacts DEF WalkTypes, Put
  <2>2. ASSUME NEW p \in reported'
        PROVE  LeavesRoute(p) /\ Destination(p) \in DOMAIN bestArrival'
    <3>1. CASE p \in reported
      BY <2>1, <3>1 DEF Supported
    <3>2. CASE p \notin reported
      <4>1. p = Crossed /\ Reports(Target)
        BY <1>5, <2>2, <3>2, CrossFacts
      <4>2. Target \in DOMAIN bestArrival'
        BY <1>5, <4>1, CrossFacts DEF OpensMore, Put
      <4> QED
        BY <2>1, <4>1, <4>2 DEF Supported, Target
    <3> QED
      BY <3>1, <3>2
  <2>3. ASSUME NEW n \in DOMAIN queue'
        PROVE  \/ queue'[n].at = ask.seed
               \/ queue'[n].arrival \in reported' /\ Destination(queue'[n].arrival) = queue'[n].at
    <3>1. CASE n \in DOMAIN queue
      <4>1. queue'[n] = queue[n]
        BY <1>5, <3>1, CrossFacts
      <4> QED
        BY <2>1, <3>1, <4>1 DEF Supported
    <3>2. CASE n \notin DOMAIN queue
      <4>1. queue'[n] = Arrived
        BY <1>5, <3>2, CrossFacts
      <4>2. Crossed \in reported'
        BY <1>5, <3>2, CrossFacts
      <4> QED
        BY <4>1, <4>2 DEF Arrived, Target
    <3> QED
      BY <3>1, <3>2
  <2> QED
    BY <1>1, <1>2, <1>3, <2>1, <2>2, <2>3 DEF Supported
<1> QED
  BY <1>4, <1>5 DEF NextWalk

LEMMA NextLayers ==
  ASSUME WalkTypes, Layers, NextWalk PROVE Layers'
<1>0. /\ \A n \in DOMAIN queue : n \in Nat /\ queue[n].depth \in Nat
      /\ visit.depth \in Nat /\ ask.hops \in Nat
  <2>1. queue \in Seq(Visit)
    BY DEF WalkTypes, Visit
  <2>2. \A n \in DOMAIN queue : n \in Nat /\ queue[n] \in Visit
    BY <2>1
  <2> QED
    BY <2>2 DEF WalkTypes, Visit
<1>1. UNCHANGED ask
  BY PopFacts, CrossFacts DEF NextWalk
<1>2. CASE Pop
  <2>1. /\ \A n \in DOMAIN queue' :
             n \in Nat /\ n + 1 \in DOMAIN queue /\ queue'[n] = queue[n + 1] /\ n + 1 > 1
        /\ 1 \in DOMAIN queue
    <3>1. queue' \in Seq(Visit)
      BY <1>2, PopFacts
    <3>2. \A n \in DOMAIN queue' : n \in Nat /\ n + 1 > 1
      BY <3>1
    <3> QED
      BY <1>2, <3>2, PopFacts
  <2>2. \A m, n \in DOMAIN queue' :
          /\ m < n => queue'[m].depth <= queue'[n].depth
          /\ queue'[n].depth <= queue'[m].depth + 1
    BY <2>1 DEF Layers
  <2>3. \A n \in DOMAIN queue' : queue'[n].depth <= ask.hops
    BY <2>1 DEF Layers
  <2>4. ASSUME visit'.rest # {}
        PROVE  /\ visit'.depth < ask.hops
               /\ \A n \in DOMAIN queue' :
                    visit'.depth <= queue'[n].depth /\ queue'[n].depth <= visit'.depth + 1
    <3>1. visit'.depth = queue[1].depth /\ queue[1].depth < ask.hops
      BY <1>2, <2>4, PopFacts
    <3> QED
      BY <2>1, <3>1 DEF Layers
  <2> QED
    BY <1>1, <2>2, <2>3, <2>4 DEF Layers
<1>3. CASE visit.rest # {} /\ Cross
  <2>1. /\ \A n \in DOMAIN queue : n \in DOMAIN queue' /\ queue'[n] = queue[n]
        /\ \A m, n \in DOMAIN queue' : m < n => m \in DOMAIN queue
        /\ \A n \in DOMAIN queue' : n \in DOMAIN queue \/ queue'[n] = Arrived
        /\ visit'.depth = visit.depth
    BY <1>3, CrossFacts DEF WalkTypes
  <2>2. Arrived.depth = visit.depth + 1
    BY DEF Arrived
  <2>3. /\ visit.depth < ask.hops
        /\ \A n \in DOMAIN queue : visit.depth <= queue[n].depth
                                   /\ queue[n].depth <= visit.depth + 1
    BY <1>3 DEF Layers
  <2>4. \A n \in DOMAIN queue' : /\ queue'[n].depth \in Nat
                                 /\ visit.depth <= queue'[n].depth
                                 /\ queue'[n].depth <= visit.depth + 1
    BY <1>0, <2>1, <2>2, <2>3
  <2>5. ASSUME NEW m \in DOMAIN queue', NEW n \in DOMAIN queue', m < n
        PROVE  queue'[m].depth <= queue'[n].depth
    <3>1. m \in DOMAIN queue /\ queue'[m] = queue[m]
      BY <2>1, <2>5
    <3>2. CASE n \in DOMAIN queue
      BY <2>1, <2>5, <3>1, <3>2 DEF Layers
    <3>3. CASE n \notin DOMAIN queue
      BY <2>1, <2>2, <2>3, <3>1, <3>3
    <3> QED
      BY <3>2, <3>3
  <2> QED
    BY <1>0, <1>1, <2>1, <2>3, <2>4, <2>5 DEF Layers
<1> QED
  BY <1>2, <1>3 DEF NextWalk

LEMMA NextBestKept ==
  ASSUME WalkTypes, BestKept, NextWalk PROVE BestKept'
<1>1. UNCHANGED <<trace, ask>>
  BY PopFacts, CrossFacts DEF NextWalk
<1>2. \A p, q : /\ Destination(p)' = Destination(p)
                /\ AsPermissive(p, q)' = AsPermissive(p, q)
  BY <1>1, SamePaths
<1>3. CASE Pop
  BY <1>2, <1>3, PopFacts DEF BestKept
<1>4. CASE visit.rest # {} /\ Cross
  <2>1. CASE ~Reports(Target)
    BY <1>2, <1>4, <2>1, CrossFacts DEF BestKept
  <2>2. CASE Reports(Target) /\ bestArrival' = bestArrival
    <3>1. Target \in DOMAIN bestArrival /\ ~MorePermissive(Crossed, bestArrival[Target])
      <4>1. ~OpensMore(Target, Crossed)
        <5>1. SUFFICES ASSUME OpensMore(Target, Crossed),
                              bestArrival' = Put(bestArrival, Target, Crossed)
                       PROVE  FALSE
          BY <1>4, <2>2, CrossFacts
        <5>2. Target \in DOMAIN bestArrival /\ bestArrival[Target] = Crossed
          BY <2>2, <5>1 DEF Put
        <5>3. Crossed \in Nat
          BY <1>4, CrossFacts
        <5> QED
          BY <5>1, <5>2, <5>3 DEF OpensMore, MorePermissive
      <4> QED
        BY <4>1 DEF OpensMore
    <3>2. bestArrival[Target] \in Nat /\ Crossed \in Nat
      BY <1>4, <3>1, CrossFacts DEF WalkTypes
    <3>3. AsPermissive(bestArrival[Target], Crossed)
      BY <3>1, <3>2 DEF AsPermissive, MorePermissive
    <3>4. reported' = reported \cup {Crossed}
      BY <1>4, <2>2, CrossFacts
    <3> QED
      BY <1>2, <2>2, <3>1, <3>3, <3>4 DEF BestKept, Target
  <2>3. CASE Reports(Target) /\ bestArrival' # bestArrival
    <3>1. /\ OpensMore(Target, Crossed) /\ bestArrival' = Put(bestArrival, Target, Crossed)
          /\ reported' = reported \cup {Crossed}
      BY <1>4, <2>3, CrossFacts
    <3>2. Crossed \in Nat /\ \A p \in reported : p \in Nat
      <4>1. Position \subseteq Nat
        BY LegFacts
      <4> QED
        BY <1>4, <4>1, CrossFacts DEF WalkTypes
    <3>3. AsPermissive(Crossed, Crossed)
      BY <3>2 DEF AsPermissive
    <3>4. ASSUME NEW p \in reported, Destination(p) = Target PROVE AsPermissive(Crossed, p)
      <4>1. Target \in DOMAIN bestArrival /\ AsPermissive(bestArrival[Target], p)
        BY <3>4 DEF BestKept
      <4>2. bestArrival[Target] \in Nat /\ MorePermissive(Crossed, bestArrival[Target])
        BY <3>1, <4>1 DEF OpensMore, WalkTypes
      <4> QED
        BY <3>2, <4>1, <4>2 DEF AsPermissive, MorePermissive
    <3>5. ASSUME NEW p \in reported'
          PROVE  Destination(p) \in DOMAIN bestArrival'
                 /\ AsPermissive(bestArrival'[Destination(p)], p)
      <4>1. DOMAIN bestArrival' = DOMAIN bestArrival \cup {Target}
            /\ \A e \in DOMAIN bestArrival' :
                 bestArrival'[e] = IF e = Target THEN Crossed ELSE bestArrival[e]
        BY <3>1 DEF Put
      <4>2. CASE p = Crossed
        BY <3>3, <4>1, <4>2 DEF Target
      <4>3. CASE p \in reported /\ Destination(p) = Target
        BY <3>4, <4>1, <4>3
      <4>4. CASE p \in reported /\ Destination(p) # Target
        BY <4>1, <4>4 DEF BestKept
      <4> QED
        BY <3>1, <4>2, <4>3, <4>4
    <3> QED
      BY <1>2, <3>5 DEF BestKept
  <2> QED
    BY <2>1, <2>2, <2>3
<1> QED
  BY <1>3, <1>4 DEF NextWalk

(* A path goes on over any leg that is onward of its end.                      *)
LEMMA PathGoesOn ==
  WalkTypes => \A n \in Nat : \A x \in Ends[n] : \A p \in Onward(x) :
                 <<Destination(p), p>> \in Ends[n + 1]
<1> SUFFICES ASSUME WalkTypes, NEW n \in Nat, NEW x \in Ends[n], NEW p \in Onward(x)
             PROVE  <<Destination(p), p>> \in Successors(Ends[n])
  BY EndsFacts
<1> QED
  BY LegFacts DEF Successors

LEMMA NextSound ==
  ASSUME WalkTypes, Sound, NextWalk PROVE Sound'
<1>1. UNCHANGED <<trace, ask>>
  BY PopFacts, CrossFacts DEF NextWalk
<1>2. /\ Ends' = Ends
      /\ \A p : Destination(p)' = Destination(p)
      /\ \A x : OpenAt(x)' = OpenAt(x)
  BY <1>1, SamePaths
<1>3. CASE Pop
  <2>1. /\ \A n \in DOMAIN queue' : n + 1 \in DOMAIN queue /\ queue'[n] = queue[n + 1]
        /\ 1 \in DOMAIN queue /\ queue[1] \in Visit
        /\ UNCHANGED <<reported, hops>> /\ visit.rest = {}
    BY <1>3, PopFacts
  <2>2. /\ <<queue[1].at, queue[1].arrival>> \in Ends[queue[1].depth]
        /\ queue[1].depth \in Nat
    BY <2>1 DEF Sound, Visit
  <2>3. ASSUME NEW p \in visit'.rest PROVE <<Destination(p), p>> \in Ends[visit'.depth + 1]
    <3>1. p \in Onward(<<queue[1].at, queue[1].arrival>>) /\ visit'.depth = queue[1].depth
      BY <1>3, <2>1, <2>3, PopFacts
    <3> QED
      BY <2>2, <3>1, PathGoesOn
  <2>4. ASSUME NEW f \in frontier'
        PROVE  \E n \in Nat : \E x \in Ends[n] : f \in OpenAt(x)
    <3>1. f \in frontier \/ f \in OpenAt(<<queue[1].at, queue[1].arrival>>)
      BY <1>3, <2>4, PopFacts
    <3> QED
      BY <2>2, <3>1 DEF Sound
  <2>5. \A n \in DOMAIN queue' :
          <<queue'[n].at, queue'[n].arrival>> \in Ends[queue'[n].depth]
    BY <2>1 DEF Sound
  <2> QED
    BY <1>2, <2>1, <2>3, <2>4, <2>5 DEF Sound
<1>4. CASE visit.rest # {} /\ Cross
  <2>1. /\ Crossed \in visit.rest /\ UNCHANGED frontier /\ reported' \subseteq reported \cup {Crossed}
        /\ visit'.depth = visit.depth /\ visit'.rest \subseteq visit.rest
    BY <1>4, CrossFacts DEF WalkTypes
  <2>2. <<Target, Crossed>> \in Ends[visit.depth + 1] /\ visit.depth \in Nat
    BY <2>1 DEF Sound, Target, WalkTypes
  <2>3. ASSUME NEW n \in DOMAIN queue'
        PROVE  <<queue'[n].at, queue'[n].arrival>> \in Ends[queue'[n].depth]
    <3>1. CASE n \in DOMAIN queue
      <4>1. queue'[n] = queue[n]
        BY <1>4, <3>1, CrossFacts
      <4> QED
        BY <3>1, <4>1 DEF Sound
    <3>2. CASE n \notin DOMAIN queue
      <4>1. queue'[n] = Arrived
        BY <1>4, <3>2, CrossFacts
      <4> QED
        BY <2>2, <4>1 DEF Arrived
    <3> QED
      BY <3>1, <3>2
  <2>4. ASSUME NEW p \in reported' PROVE \E n \in Nat : <<Destination(p), p>> \in Ends[n + 1]
    <3>1. CASE p \in reported
      BY <3>1 DEF Sound
    <3>2. CASE p = Crossed
      BY <2>2, <3>2 DEF Target
    <3> QED
      BY <2>1, <3>1, <3>2
  <2>5. ASSUME NEW e \in DOMAIN hops' PROVE \E x \in Ends[hops'[e]] : x[1] = e
    <3>1. CASE e \in DOMAIN hops /\ hops'[e] = hops[e]
      BY <3>1 DEF Sound
    <3>2. CASE ~(e \in DOMAIN hops /\ hops'[e] = hops[e])
      <4>1. hops' = Put(hops, Target, Distance(Target, visit.depth + 1))
        BY <1>4, <2>5, <3>2, CrossFacts
      <4>2. e = Target /\ hops'[e] = Distance(Target, visit.depth + 1)
        BY <2>5, <3>2, <4>1 DEF Put
      <4>3. hops'[e] = visit.depth + 1
        <5>1. CASE Target \in DOMAIN hops
          <6>1. hops[Target] \in Nat /\ visit.depth + 1 \in Nat
            BY <2>2, <5>1 DEF WalkTypes
          <6>2. ASSUME NEW a \in Nat, NEW b \in Nat PROVE Min({a, b}) = a \/ Min({a, b}) = b
            BY DEF Min
          <6>3. Distance(Target, visit.depth + 1) = Min({hops[Target], visit.depth + 1})
            BY <5>1 DEF Distance
          <6> QED
            BY <3>2, <4>2, <5>1, <6>1, <6>2, <6>3
        <5>2. CASE Target \notin DOMAIN hops
          BY <4>2, <5>2 DEF Distance
        <5> QED
          BY <5>1, <5>2
      <4> QED
        BY <2>2, <4>2, <4>3
    <3> QED
      BY <3>1, <3>2
  <2> QED
    BY <1>2, <2>1, <2>3, <2>4, <2>5 DEF Sound
<1> QED
  BY <1>3, <1>4 DEF NextWalk

LEMMA UnhinderedBefore ==
  ASSUME WalkTypes, NextWalk
  PROVE  /\ truncated => truncated'
         /\ Unhindered' => Unhindered
         /\ visit.rest # {} /\ Cross /\ Unhindered' => Reports(Target)
<1>1. truncated => truncated'
  BY PopFacts, CrossFacts DEF NextWalk
<1>2. DOMAIN hops \subseteq DOMAIN hops' /\ ask' = ask
  BY PopFacts, CrossFacts DEF NextWalk, Put
<1>3. /\ Cardinality(DOMAIN hops) <= Cardinality(DOMAIN hops')
      /\ Cardinality(DOMAIN hops) \in Nat /\ Cardinality(DOMAIN hops') \in Nat
      /\ ask.entities \in Nat
  <2>1. IsFiniteSet(DOMAIN hops) /\ IsFiniteSet(DOMAIN hops')
    BY NextTypes DEF WalkTypes
  <2> QED
    BY <1>2, <2>1, FS_Subset, FS_CardinalityType DEF WalkTypes
<1>4. Unhindered' => Unhindered
  BY <1>1, <1>2, <1>3 DEF Unhindered
<1>5. ASSUME visit.rest # {}, Cross, Unhindered', ~Reports(Target) PROVE FALSE
  <2>1. truncated' = TRUE /\ hops' = hops
    BY <1>5, CrossFacts
  <2> QED
    BY <1>2, <1>3, <1>5, <2>1 DEF Unhindered, Reports
<1> QED
  BY <1>1, <1>4, <1>5

(* Handled, of the next state. *)
StillHandled(x, m) ==
  \/ \E n \in DOMAIN queue' :
       /\ queue'[n].at = x[1] /\ AsPermissive(queue'[n].arrival, x[2])
       /\ queue'[n].depth <= m
  \/ /\ OpenAt(x) \subseteq frontier'
     /\ \A p \in Onward(x) :
          p \in reported' \/ (p \in visit'.rest /\ visit'.depth <= m)

LEMMA HandledNext ==
  ASSUME UNCHANGED <<trace, ask>>
  PROVE  /\ \A x, m : Handled(x, m)' <=> StillHandled(x, m)
         /\ AllHandled' <=> \A e \in DOMAIN bestArrival' :
              \E m \in Nat : StillHandled(<<e, bestArrival'[e]>>, m)
<1>1. /\ \A y : Onward(y)' = Onward(y) /\ OpenAt(y)' = OpenAt(y)
      /\ \A p, q : AsPermissive(p, q)' = AsPermissive(p, q)
  BY SamePaths
<1>2. \A x, m : Handled(x, m)' <=> StillHandled(x, m)
  BY <1>1 DEF Handled, Queued, Made, StillHandled
<1>3. AllHandled' <=> \A e \in DOMAIN bestArrival' :
              \E m \in Nat : StillHandled(<<e, bestArrival'[e]>>, m)
  BY <1>1 DEF AllHandled, Handled, Queued, Made, StillHandled
<1> QED
  BY <1>2, <1>3

(* Whatever the walk goes on from, it still does after a step, unless the      *)
(* bound on the depth takes that visit.                                        *)
LEMMA HandledStays ==
  ASSUME WalkTypes, Layers, NextWalk, Unhindered', NEW x \in Node, NEW m \in Nat,
         Handled(x, m), m < ask.hops \/ ~truncated' \/ ~Level(ask.hops)
  PROVE  StillHandled(x, m)
<1>1. CASE Pop
  <2> DEFINE popped == <<queue[1].at, queue[1].arrival>>
  <2>1. /\ \A n \in DOMAIN queue : n # 1 => n - 1 \in DOMAIN queue' /\ queue'[n - 1] = queue[n]
        /\ reported' = reported /\ visit.rest = {}
        /\ frontier' = frontier \cup OpenAt(popped)
        /\ 1 \in DOMAIN queue /\ queue[1] \in Visit
    BY <1>1, PopFacts
  <2>2. CASE Made(x, m)
    <3>1. OpenAt(x) \subseteq frontier /\ \A p \in Onward(x) : p \in reported
      BY <2>1, <2>2 DEF Made
    <3> QED
      BY <2>1, <3>1 DEF StillHandled
  <2>3. CASE Queued(x, m)
    <3>1. PICK n \in DOMAIN queue : /\ queue[n].at = x[1] /\ AsPermissive(queue[n].arrival, x[2])
                                    /\ queue[n].depth <= m
      BY <2>3 DEF Queued
    <3>2. CASE n # 1
      <4>1. n - 1 \in DOMAIN queue' /\ queue'[n - 1] = queue[n]
        BY <2>1, <3>2
      <4> QED
        BY <3>1, <4>1 DEF StillHandled
    <3>3. CASE n = 1
      <4>1. Onward(x) \subseteq Onward(popped) /\ OpenAt(x) \subseteq OpenAt(popped)
        <5>1. x = <<queue[1].at, x[2]>> /\ x[2] \in Nat /\ queue[1].arrival \in Nat
          BY <2>1, <3>1, <3>3 DEF Node, Visit
        <5> QED
          BY <3>1, <3>3, <5>1, MoreLegs
      <4>2. \A p \in Onward(popped) : p \in visit'.rest /\ visit'.depth <= m
        <5>1. CASE queue[1].depth < ask.hops
          <6>1. visit' = [at |-> queue[1].at, depth |-> queue[1].depth, rest |-> Onward(popped)]
            BY <1>1, <2>1, <5>1, PopFacts DEF WalkTypes, Visit
          <6> QED
            BY <3>1, <3>3, <6>1
        <5>2. CASE queue[1].depth >= ask.hops
          <6>1. queue[1].depth \in Nat /\ ask.hops \in Nat
            BY <2>1 DEF WalkTypes, Visit
          <6>2. truncated' = (truncated \/ Onward(popped) # {})
            <7>1. ~(queue[1].depth < ask.hops)
              BY <5>2, <6>1
            <7> QED
              BY <1>1, <7>1, PopFacts, Zenon
          <6>3. ~(m < ask.hops)
            BY <3>1, <3>3, <5>2, <6>1
          <6>4. Level(ask.hops)
            <7>1. queue \in Seq(Visit)
              BY DEF WalkTypes, Visit
            <7>2. \A h \in DOMAIN queue :
                    queue[h].depth \in Nat /\ (h = 1 \/ 1 < h)
              <8>1. \A h \in DOMAIN queue : h \in Nat \ {0} /\ queue[h] \in Visit
                BY <7>1
              <8> QED
                BY <8>1 DEF Visit
            <7> QED
              BY <2>1, <5>2, <6>1, <7>2 DEF Level, Layers
          <6>5. ~truncated'
            BY <6>3, <6>4
          <6>6. Onward(popped) = {}
            BY <6>2, <6>5, Zenon
          <6> QED
            BY <6>6
        <5>3. queue[1].depth < ask.hops \/ queue[1].depth >= ask.hops
          BY <2>1 DEF WalkTypes, Visit
        <5> QED
          BY <5>1, <5>2, <5>3
      <4> QED
        BY <2>1, <4>1, <4>2 DEF StillHandled
    <3> QED
      BY <3>2, <3>3
  <2> QED
    BY <2>2, <2>3 DEF Handled
<1>2. CASE visit.rest # {} /\ Cross
  <2>1. /\ \A n \in DOMAIN queue : n \in DOMAIN queue' /\ queue'[n] = queue[n]
        /\ frontier' = frontier /\ reported' = reported \cup {Crossed}
        /\ visit' = [visit EXCEPT !.rest = @ \ {Crossed}]
    BY <1>2, CrossFacts, UnhinderedBefore
  <2>2. visit'.depth = visit.depth /\ visit'.rest = visit.rest \ {Crossed}
    BY <2>1 DEF WalkTypes
  <2>3. CASE Queued(x, m)
    BY <2>1, <2>3 DEF Queued, StillHandled
  <2>4. CASE Made(x, m)
    BY <2>1, <2>2, <2>4 DEF Made, StillHandled
  <2> QED
    BY <2>3, <2>4 DEF Handled
<1> QED
  BY <1>1, <1>2 DEF NextWalk

LEMMA AllHandledStays ==
  ASSUME WalkTypes, Layers, NextWalk, Unhindered', AllHandled, ~truncated' \/ ~Level(ask.hops)
  PROVE  AllHandled'
<1>1. UNCHANGED <<trace, ask>>
  BY PopFacts, CrossFacts DEF NextWalk
<1> SUFFICES ASSUME NEW e \in DOMAIN bestArrival'
             PROVE  \E m \in Nat : StillHandled(<<e, bestArrival'[e]>>, m)
  BY <1>1, HandledNext
<1>2. CASE e \in DOMAIN bestArrival /\ bestArrival'[e] = bestArrival[e]
  <2>1. PICK m \in Nat : Handled(<<e, bestArrival[e]>>, m)
    BY <1>2 DEF AllHandled
  <2>2. <<e, bestArrival[e]>> \in Node
    BY <1>2 DEF WalkTypes, Node
  <2>3. \A x \in Node : \A h \in Nat : Handled(x, h) => StillHandled(x, h)
    BY HandledStays
  <2> QED
    BY <1>2, <2>1, <2>2, <2>3
<1>3. CASE ~(e \in DOMAIN bestArrival /\ bestArrival'[e] = bestArrival[e])
  <2>1. Cross /\ visit.rest # {}
    BY <1>3, PopFacts DEF NextWalk
  <2>2. /\ bestArrival' = Put(bestArrival, Target, Crossed)
        /\ \E n \in DOMAIN queue' : queue'[n] = Arrived
    BY <1>3, <2>1, CrossFacts
  <2>3. e = Target /\ bestArrival'[e] = Crossed
    BY <1>3, <2>2 DEF Put
  <2>4. Crossed \in Nat /\ visit.depth + 1 \in Nat
    <3>1. visit.depth \in Nat
      BY DEF WalkTypes
    <3>2. Crossed \in Nat
      BY <2>1, CrossFacts
    <3> QED
      BY <3>1, <3>2
  <2>5. AsPermissive(Crossed, Crossed)
    BY <2>4 DEF AsPermissive
  <2>6. PICK n \in DOMAIN queue' : queue'[n] = Arrived
    BY <2>2
  <2>7. queue'[n].at = e /\ queue'[n].arrival = Crossed /\ queue'[n].depth = visit.depth + 1
    BY <2>3, <2>6 DEF Arrived
  <2>8. visit.depth + 1 <= visit.depth + 1
    BY <2>4
  <2> QED
    BY <2>3, <2>4, <2>5, <2>7, <2>8 DEF StillHandled
<1> QED
  BY <1>2, <1>3

(* Whatever a path reaches in as many legs as the visit being made, or fewer,  *)
(* the walk knows.                                                             *)
LEMMA SeenBelow ==
  ASSUME WalkTypes, Supported, Layers, LevelsDone, Unhindered, visit.rest # {},
         NEW k \in Nat, k <= visit.depth, NEW x \in Ends[k]
  PROVE  x[1] \in DOMAIN bestArrival
<1>1. CASE k = 0
  <2>1. x \in Start
    BY <1>1, EndsFacts
  <2>2. x[1] = ask.seed
    BY <2>1 DEF Start
  <2> QED
    BY <2>2 DEF WalkTypes
<1>2. CASE k # 0
  <2>1. k - 1 \in Nat /\ k = (k - 1) + 1
    BY <1>2
  <2>2. PICK q \in Position, y \in Ends[k - 1] : q \in Onward(y) /\ x = <<Destination(q), q>>
    <3>1. x \in Successors(Ends[k - 1])
      BY <2>1, EndsFacts
    <3> QED
      BY <3>1 DEF Successors
  <2>3. /\ visit.depth \in Nat /\ ask.hops \in Nat
        /\ \A n \in DOMAIN queue : queue[n].depth \in Nat
    <3>1. queue \in Seq(Visit)
      BY DEF WalkTypes, Visit
    <3>2. \A n \in DOMAIN queue : queue[n] \in Visit
      BY <3>1
    <3> QED
      BY <3>2 DEF WalkTypes, Visit
  <2>4. /\ visit.depth < ask.hops
        /\ \A n \in DOMAIN queue : visit.depth <= queue[n].depth
    BY DEF Layers
  <2>5. Level(k - 1) /\ k - 1 < ask.hops
    BY <2>1, <2>3, <2>4 DEF Level
  <2>6. Handled(y, k - 1)
    BY <2>1, <2>2, <2>5 DEF LevelsDone
  <2>7. ~Queued(y, k - 1)
    BY <2>1, <2>3, <2>4 DEF Queued
  <2>8. q \in reported
    BY <2>1, <2>2, <2>3, <2>6, <2>7 DEF Handled, Made
  <2> QED
    BY <2>2, <2>8 DEF Supported
<1> QED
  BY <1>1, <1>2

LEMMA Depths ==
  WalkTypes => /\ ask.hops \in Nat /\ visit.depth \in Nat
               /\ \A n \in DOMAIN queue : queue[n] \in Visit /\ queue[n].depth \in Nat
<1> SUFFICES ASSUME WalkTypes
             PROVE  /\ ask.hops \in Nat /\ visit.depth \in Nat
                    /\ \A n \in DOMAIN queue : queue[n] \in Visit /\ queue[n].depth \in Nat
  OBVIOUS
<1>1. queue \in Seq(Visit)
  BY DEF WalkTypes, Visit
<1>2. \A n \in DOMAIN queue : queue[n] \in Visit
  BY <1>1
<1> QED
  BY <1>2 DEF WalkTypes, Visit

(* Level, of the next state. *)
StillLevel(m) ==
  /\ \A n \in DOMAIN queue' : m <= queue'[n].depth
  /\ visit'.rest # {} => m <= visit'.depth

(* What is left to do never moves up, and a step adds nothing beyond the level *)
(* after the first that is left.                                               *)
LEMMA LevelStays ==
  ASSUME WalkTypes, NextWalk, NEW m \in Nat, Level(m)
  PROVE  StillLevel(m)
<1>1. CASE Pop
  <2>1. /\ \A n \in DOMAIN queue' : n + 1 \in DOMAIN queue /\ queue'[n] = queue[n + 1]
        /\ 1 \in DOMAIN queue /\ visit.rest = {}
        /\ visit' = visit \/ visit'.depth = queue[1].depth
    BY <1>1, PopFacts
  <2> QED
    BY <2>1 DEF Level, StillLevel
<1>2. CASE visit.rest # {} /\ Cross
  <2>1. /\ \A n \in DOMAIN queue : queue'[n] = queue[n]
        /\ \A n \in DOMAIN queue' : n \in DOMAIN queue \/ queue'[n] = Arrived
        /\ visit'.depth = visit.depth
    BY <1>2, CrossFacts DEF WalkTypes
  <2>2. m <= visit.depth /\ m <= visit.depth + 1 /\ Arrived.depth = visit.depth + 1
    BY <1>2, Depths DEF Level, Arrived
  <2> QED
    BY <2>1, <2>2 DEF Level, StillLevel
<1> QED
  BY <1>1, <1>2 DEF NextWalk

LEMMA NothingBeyond ==
  ASSUME WalkTypes, Layers, NextWalk, NEW m \in Nat, ~Level(m)
  PROVE  /\ \A n \in DOMAIN queue' : queue'[n].depth <= m
         /\ visit'.rest # {} => visit'.depth <= m
<1>1. CASE Pop
  <2>1. /\ \A n \in DOMAIN queue' : n + 1 \in DOMAIN queue /\ queue'[n] = queue[n + 1]
        /\ 1 \in DOMAIN queue /\ visit.rest = {}
        /\ visit'.rest = {} \/ visit'.depth = queue[1].depth
    BY <1>1, PopFacts
  <2>2. PICK h \in DOMAIN queue : queue[h].depth < m
    BY <2>1, Depths DEF Level
  <2>3. \A n \in DOMAIN queue : queue[n].depth <= queue[h].depth + 1
    BY DEF Layers
  <2>4. \A n \in DOMAIN queue : queue[n].depth <= m
    BY <2>2, <2>3, Depths
  <2> QED
    BY <2>1, <2>4
<1>2. CASE visit.rest # {} /\ Cross
  <2>1. /\ \A n \in DOMAIN queue : queue'[n] = queue[n]
        /\ \A n \in DOMAIN queue' : n \in DOMAIN queue \/ queue'[n] = Arrived
        /\ visit'.depth = visit.depth
    BY <1>2, CrossFacts DEF WalkTypes
  <2>2. \A n \in DOMAIN queue : visit.depth <= queue[n].depth
                                /\ queue[n].depth <= visit.depth + 1
    BY <1>2 DEF Layers
  <2>3. visit.depth < m
    BY <2>2, Depths DEF Level
  <2>4. visit.depth + 1 <= m /\ visit.depth <= m
    BY <2>3, Depths
  <2>5. \A n \in DOMAIN queue : queue[n].depth <= m
    BY <2>2, <2>4, Depths
  <2> QED
    BY <2>1, <2>4, <2>5 DEF Arrived
<1> QED
  BY <1>1, <1>2 DEF NextWalk

LEMMA NextNothingDropped ==
  ASSUME WalkTypes, Layers, NothingDropped, NextWalk PROVE NothingDropped'
<1> SUFFICES ASSUME Unhindered', ~truncated' \/ ~StillLevel(ask.hops)
             PROVE  AllHandled'
  <2>1. UNCHANGED ask
    BY PopFacts, CrossFacts DEF NextWalk
  <2>2. Level(ask.hops)' <=> StillLevel(ask.hops)
    BY <2>1 DEF Level, StillLevel
  <2> QED
    BY <2>2 DEF NothingDropped
<1>1. Unhindered /\ (truncated => truncated')
  BY UnhinderedBefore
<1>2. Level(ask.hops) => StillLevel(ask.hops)
  BY LevelStays, Depths
<1>3. ~truncated \/ ~Level(ask.hops)
  BY <1>1, <1>2
<1>4. AllHandled
  BY <1>1, <1>3 DEF NothingDropped
<1>5. ~truncated' \/ ~Level(ask.hops)
  BY <1>2
<1> QED
  BY <1>4, <1>5, AllHandledStays

LEMMA NextLevelsDone ==
  ASSUME WalkTypes, Supported, Layers, BestKept, NothingDropped, LevelsDone, NextWalk
  PROVE  LevelsDone'
<1>1. UNCHANGED <<trace, ask>>
  BY PopFacts, CrossFacts DEF NextWalk
<1>2. Ends' = Ends /\ \A x, m : Handled(x, m)' <=> StillHandled(x, m)
  BY <1>1, SamePaths, HandledNext
<1> SUFFICES ASSUME Unhindered'
             PROVE  \A m \in Nat : StillLevel(m) /\ (m < ask.hops \/ ~truncated') =>
                      \A x \in Ends[m] : StillHandled(x, m)
  <2>1. \A m : Level(m)' <=> StillLevel(m)
    BY DEF Level, StillLevel
  <2> QED
    BY <1>1, <1>2, <2>1 DEF LevelsDone
<1>3. Unhindered /\ (truncated => truncated')
  BY UnhinderedBefore
<1>4. Ends \in [Nat -> SUBSET Node]
  BY EndsFacts
<1> DEFINE Followed(m) == StillLevel(m) /\ (m < ask.hops \/ ~truncated') =>
                        \A x \in Ends[m] : StillHandled(x, m)
           S == {m \in Nat : Followed(m)}
(* What was done already. *)
<1>5. ASSUME NEW m \in Nat, Level(m) PROVE Followed(m)
  <2> SUFFICES ASSUME m < ask.hops \/ ~truncated', NEW x \in Ends[m]
               PROVE  StillHandled(x, m)
    OBVIOUS
  <2>1. Handled(x, m)
    BY <1>3, <1>5 DEF LevelsDone
  <2>2. x \in Node
    BY <1>4
  <2> QED
    BY <2>1, <2>2, HandledStays
(* What this step completes: the best arrival at the end of a path is after    *)
(* no path, and will be gone on from by the level after the last.              *)
<1>6. ASSUME NEW m \in Nat, Followed(m) PROVE Followed(m + 1)
  <2> SUFFICES ASSUME StillLevel(m + 1), m + 1 < ask.hops \/ ~truncated', ~Level(m + 1),
                      NEW x \in Ends[m + 1]
               PROVE  StillHandled(x, m + 1)
    BY <1>5
  <2>1. PICK q \in Position, y \in Ends[m] : q \in Onward(y) /\ x = <<Destination(q), q>>
    <3>1. x \in Successors(Ends[m])
      BY EndsFacts
    <3> QED
      BY <3>1 DEF Successors
  <2>2. /\ \A n \in DOMAIN queue' : ~(queue'[n].depth <= m) /\ m <= queue'[n].depth
        /\ visit'.rest # {} => ~(visit'.depth <= m) /\ m <= visit'.depth
    <3>1. WalkTypes'
      BY NextTypes
    <3>2. visit'.depth \in Nat /\ \A n \in DOMAIN queue' : queue'[n].depth \in Nat
      <4>1. (WalkTypes => /\ ask.hops \in Nat /\ visit.depth \in Nat
                         /\ \A n \in DOMAIN queue : queue[n] \in Visit /\ queue[n].depth \in Nat)'
        BY Depths, PTL
      <4> QED
        BY <3>1, <4>1
    <3> QED
      BY <3>2 DEF StillLevel
  <2>3. StillHandled(y, m)
    <3>1. StillLevel(m) /\ ask.hops \in Nat
      BY <2>2, Depths DEF StillLevel
    <3>2. m < ask.hops \/ ~truncated'
      BY <3>1
    <3> QED
      BY <1>6, <2>1, <3>1, <3>2
  <2>4. q \in reported'
    BY <2>1, <2>2, <2>3 DEF StillHandled
  <2>5. /\ Destination(q) \in DOMAIN bestArrival'
        /\ AsPermissive(bestArrival'[Destination(q)], q)
    <3>1. BestKept'
      BY NextBestKept
    <3>2. \A p, r : Destination(p)' = Destination(p)
                    /\ AsPermissive(p, r)' = AsPermissive(p, r)
      BY <1>1, SamePaths
    <3> QED
      BY <2>4, <3>1, <3>2 DEF BestKept
  <2>6. AllHandled'
    <3>1. ~truncated' \/ ~Level(ask.hops)
      BY Depths DEF Level
    <3>2. AllHandled
      BY <1>3, <3>1 DEF NothingDropped
    <3> QED
      BY <3>1, <3>2, AllHandledStays
  <2> DEFINE best == bestArrival'[Destination(q)]
  <2>7. PICK k \in Nat : StillHandled(<<Destination(q), best>>, k)
    BY <1>1, <2>5, <2>6, HandledNext
  <2>8. best \in Nat /\ q \in Nat
    <3>1. WalkTypes' /\ Position \subseteq Nat
      BY NextTypes, LegFacts
    <3> QED
      BY <2>5, <3>1 DEF WalkTypes
  <2>9. /\ \A n \in DOMAIN queue' : queue'[n].depth <= m + 1
        /\ visit'.rest # {} => visit'.depth <= m + 1
    BY NothingBeyond
  <2> HIDE DEF best
  <2>10. /\ Onward(x) \subseteq Onward(<<Destination(q), best>>)
         /\ OpenAt(x) \subseteq OpenAt(<<Destination(q), best>>)
    BY <2>1, <2>5, <2>8, MoreLegs DEF best
  <2>11. AsPermissive(best, q)
    BY <2>5 DEF best
  <2>12. CASE \E n \in DOMAIN queue' :
                /\ queue'[n].at = Destination(q) /\ AsPermissive(queue'[n].arrival, best)
    <3>1. PICK n \in DOMAIN queue' :
                /\ queue'[n].at = Destination(q) /\ AsPermissive(queue'[n].arrival, best)
      BY <2>12
    <3>2. queue'[n].arrival \in Nat
      <4>1. queue' \in Seq(Visit)
        BY NextTypes DEF WalkTypes, Visit
      <4>2. queue'[n] \in Visit
        BY <4>1
      <4> QED
        BY <4>2 DEF Visit
    <3>3. AsPermissive(queue'[n].arrival, q)
      BY <2>8, <2>11, <3>1, <3>2 DEF AsPermissive
    <3> QED
      BY <2>1, <2>9, <3>1, <3>3 DEF StillHandled
  <2>13. CASE /\ OpenAt(<<Destination(q), best>>) \subseteq frontier'
              /\ \A p \in Onward(<<Destination(q), best>>) : p \in reported' \/ p \in visit'.rest
    BY <2>9, <2>10, <2>13 DEF StillHandled
  <2> QED
    BY <2>7, <2>12, <2>13 DEF StillHandled
<1>7. Followed(0)
  <2>1. Level(0)
    BY Depths DEF Level
  <2> QED
    BY <1>5, <2>1
<1>8. S = Nat
  <2>1. 0 \in S /\ \A m \in S : m + 1 \in S
    BY <1>6, <1>7
  <2> QED
    BY <2>1, AllNumbers
<1> QED
  BY <1>8

LEMMA NextShortest ==
  ASSUME WalkTypes, Supported, Layers, LevelsDone, Shortest, NextWalk PROVE Shortest'
<1>1. UNCHANGED <<trace, ask>>
  BY PopFacts, CrossFacts DEF NextWalk
<1>2. Ends' = Ends
  BY <1>1, SamePaths
<1> SUFFICES ASSUME NEW e \in DOMAIN hops', NEW k \in Nat, k < hops'[e], NEW x \in Ends[k]
             PROVE  x[1] # e
  BY <1>2 DEF Shortest
<1>3. CASE e \in DOMAIN hops /\ hops'[e] <= hops[e]
  <2>1. hops[e] \in Nat /\ hops'[e] \in Nat
    BY <1>3, NextTypes DEF WalkTypes
  <2>2. k < hops[e]
    BY <1>3, <2>1
  <2> QED
    BY <1>3, <2>2 DEF Shortest
<1>4. CASE ~(e \in DOMAIN hops /\ hops'[e] <= hops[e])
  <2>1. /\ Cross /\ visit.rest # {} /\ Reports(Target) /\ Target # ask.seed
        /\ hops' = Put(hops, Target, Distance(Target, visit.depth + 1))
    <3>1. hops' # hops
      <4>1. \A h \in DOMAIN hops : hops[h] <= hops[h]
        BY DEF WalkTypes
      <4> QED
        BY <1>4, <4>1
    <3> QED
      BY <3>1, PopFacts, CrossFacts DEF NextWalk
  <2>2. e = Target /\ hops'[e] = Distance(Target, visit.depth + 1)
    <3>1. CASE e = Target
      BY <2>1, <3>1 DEF Put
    <3>2. CASE e # Target
      <4>1. e \in DOMAIN hops /\ hops'[e] = hops[e]
        BY <2>1, <3>2 DEF Put
      <4>2. hops[e] <= hops[e]
        BY <4>1 DEF WalkTypes
      <4> QED
        BY <1>4, <4>1, <4>2
    <3> QED
      BY <3>1, <3>2
  <2>3. Target \notin DOMAIN hops
    <3>1. SUFFICES ASSUME Target \in DOMAIN hops PROVE hops'[e] <= hops[e]
      BY <1>4, <2>2
    <3>2. hops[e] \in Nat /\ visit.depth + 1 \in Nat
      BY <2>2, <3>1, Depths DEF WalkTypes
    <3>3. ASSUME NEW a \in Nat, NEW b \in Nat PROVE Min({a, b}) <= a
      BY DEF Min
    <3> QED
      BY <2>2, <3>1, <3>2, <3>3 DEF Distance
  <2>4. Target \notin DOMAIN bestArrival
    BY <2>1, <2>3 DEF WalkTypes
  <2>5. Unhindered
    BY <2>1, <2>4 DEF Reports, Unhindered
  <2>6. k <= visit.depth
    <3>1. hops'[e] = visit.depth + 1
      BY <2>2, <2>3 DEF Distance
    <3> QED
      BY <3>1, Depths
  <2>7. x[1] \in DOMAIN bestArrival
    BY <2>1, <2>5, <2>6, SeenBelow
  <2> QED
    BY <2>2, <2>4, <2>7
<1> QED
  BY <1>3, <1>4

LEMMA WalkGoesOn ==
  ASSUME WalkInv, [NextWalk]_walking PROVE WalkInv'
<1>1. CASE NextWalk
  BY <1>1, NextTypes, NextSupported, NextSound, NextLayers, NextBestKept,
     NextNothingDropped, NextLevelsDone, NextShortest DEF WalkInv
<1>2. CASE UNCHANGED walking
  <2>1. UNCHANGED <<trace, ask>>
    BY <1>2 DEF walking
  <2>2. /\ Ends' = Ends /\ Position' = Position
        /\ \A x : Onward(x)' = Onward(x) /\ OpenAt(x)' = OpenAt(x)
        /\ \A p : Origin(p)' = Origin(p) /\ Destination(p)' = Destination(p)
        /\ \A p, q : /\ Eligible(p, q)' = Eligible(p, q)
                     /\ AsPermissive(p, q)' = AsPermissive(p, q)
    BY <2>1, SamePaths
  <2>3. WalkTypes'
    BY <1>2, <2>2 DEF WalkInv, WalkTypes, walking
  <2>4. Supported'
    <3>1. \A p : LeavesRoute(p)' = LeavesRoute(p)
      BY <1>2, <2>2 DEF LeavesRoute, walking
    <3> QED
      BY <1>2, <2>2, <3>1 DEF WalkInv, Supported, walking
  <2>5. Sound' /\ BestKept' /\ Layers' /\ Shortest'
    BY <1>2, <2>2 DEF WalkInv, Sound, BestKept, Layers, Shortest, walking
  <2>6. \A x, m : Handled(x, m)' <=> Handled(x, m)
    BY <1>2, <2>2 DEF Handled, Queued, Made, walking
  <2>7. \A m : Level(m)' <=> Level(m)
    BY <1>2 DEF Level, walking
  <2>8. Level(ask.hops)' <=> Level(ask.hops)
    BY <1>2 DEF Level, walking
  <2>9. Unhindered' <=> Unhindered
    BY <1>2 DEF Unhindered, walking
  <2>10. LevelsDone'
    BY <1>2, <2>2, <2>6, <2>7, <2>9 DEF WalkInv, LevelsDone, walking
  <2>11. AllHandled' <=> AllHandled
    BY <1>2, <2>2 DEF AllHandled, Handled, Queued, Made, walking
  <2>12. NothingDropped'
    BY <1>2, <2>8, <2>9, <2>11 DEF WalkInv, NothingDropped, walking
  <2> QED
    BY <2>3, <2>4, <2>5, <2>10, <2>12 DEF WalkInv
<1> QED
  BY <1>1, <1>2

LEMMA WalkStarts ==
  InitWalk => WalkInv
<1> SUFFICES ASSUME InitWalk PROVE WalkInv
  OBVIOUS
<1>1. PICK t \in Traces, r \in Rows :
        DOMAIN r = DOMAIN t.legs /\ trace = [legs |-> t.legs, who |-> t.who, row |-> r]
  BY DEF InitWalk
<1>2. PICK s \in Seeds, d \in {"fanin", "fanout"}, b \in Limits :
        ask = [seed |-> s, direction |-> d, hops |-> b.hops, entities |-> b.entities]
  BY DEF InitWalk
<1>3. /\ hops = <<>> /\ reported = {} /\ frontier = {} /\ truncated = FALSE
      /\ bestArrival = [e \in {ask.seed} |-> SeedArrival]
      /\ queue = <<[at |-> ask.seed, depth |-> 0, arrival |-> SeedArrival]>>
      /\ visit = [at |-> ask.seed, depth |-> 0, rest |-> {}]
  BY DEF InitWalk
<1>4. /\ trace.legs \in Seq(Leg) /\ DOMAIN trace.row = DOMAIN trace.legs
      /\ trace.who \in [Interaction -> [caller : Entity \cup {None},
                                        callee : Entity \cup {None}]]
      /\ ask.seed \in Entity /\ ask.hops \in Nat \ {0} /\ ask.entities \in Nat \ {0}
  BY <1>1, <1>2, LineageWalkAssumption
<1>5. SeedArrival \in Nat
  <2>1. Len(trace.legs) \in Nat
    BY <1>4
  <2> QED
    BY <2>1 DEF SeedArrival
<1>6. /\ DOMAIN queue = {1} /\ queue[1] = [at |-> ask.seed, depth |-> 0, arrival |-> SeedArrival]
      /\ queue \in Seq(Visit) /\ DOMAIN hops = {}
  <2>1. queue[1] \in Visit
    BY <1>3, <1>4, <1>5 DEF Visit
  <2> QED
    BY <1>3, <2>1
<1>7. WalkTypes
  BY <1>3, <1>4, <1>5, <1>6, FS_EmptySet DEF WalkTypes, Visit
<1>8. Ends[0] = Start
  BY <1>7, EndsFacts
<1>9. Supported /\ BestKept /\ Shortest
  BY <1>3, <1>6 DEF Supported, BestKept, Shortest
<1>10. Sound
  BY <1>3, <1>6, <1>8 DEF Sound, Start
<1>11. Layers
  BY <1>3, <1>4, <1>6 DEF Layers
<1>12. Handled(<<ask.seed, SeedArrival>>, 0)
  <2>1. AsPermissive(SeedArrival, SeedArrival)
    BY <1>5 DEF AsPermissive
  <2> QED
    BY <1>6, <2>1 DEF Handled, Queued
<1>13. NothingDropped
  BY <1>3, <1>12 DEF NothingDropped, AllHandled
<1>14. LevelsDone
  <2> SUFFICES ASSUME NEW m \in Nat, Level(m), NEW x \in Ends[m] PROVE Handled(x, m)
    BY DEF LevelsDone
  <2>1. m = 0
    BY <1>6 DEF Level
  <2> QED
    BY <1>8, <1>12, <2>1 DEF Start
<1> QED
  BY <1>7, <1>9, <1>10, <1>11, <1>13, <1>14 DEF WalkInv

LEMMA WalkInvariant == SpecWalk => []WalkInv
  BY WalkStarts, WalkGoesOn, PTL DEF SpecWalk

--------------------------------------------------------------------------------
(* A path crosses each leg after, or before, the one it crossed before: there  *)
(* is no path of more legs than the trace has.                                 *)
LEMMA PathsEnd ==
  WalkTypes => \A n \in Nat : n > Len(trace.legs) => Ends[n] = {}
<1> SUFFICES ASSUME WalkTypes
             PROVE  \A n \in Nat : n > Len(trace.legs) => Ends[n] = {}
  OBVIOUS
<1> DEFINE N == Len(trace.legs)
           Far(n) == \A x \in Ends[n] : IF Forward THEN n <= x[2] ELSE n + x[2] <= N + 1
           S == {n \in Nat : Far(n)}
<1>1. N \in Nat /\ Position = 1..N
  BY LegFacts
<1>2. ASSUME NEW n \in Nat, NEW x \in Ends[n + 1]
      PROVE  \E q \in 1..N : \E y \in Ends[n] : y \in Node /\ x[2] = q /\ Eligible(q, y[2])
  <2>1. x \in Successors(Ends[n]) /\ Ends[n] \in SUBSET Node
    BY EndsFacts
  <2> QED
    BY <1>1, <2>1 DEF Successors, Onward
<1>3. 0 \in S
  <2>1. Ends[0] = Start
    BY EndsFacts
  <2> QED
    BY <1>1, <2>1 DEF Start, SeedArrival
<1>4. ASSUME NEW n \in Nat, Far(n) PROVE Far(n + 1)
  <2> SUFFICES ASSUME NEW x \in Ends[n + 1]
               PROVE  IF Forward THEN n + 1 <= x[2] ELSE n + 1 + x[2] <= N + 1
    OBVIOUS
  <2>1. PICK q \in 1..N, y \in Ends[n] : y \in Node /\ x[2] = q /\ Eligible(q, y[2])
    BY <1>2
  <2>2. y[2] \in Nat /\ q \in Nat
    BY <2>1 DEF Node
  <2> HIDE DEF N
  <2> QED
    BY <1>1, <1>4, <2>1, <2>2 DEF Eligible
<1>5. \A n \in Nat : Far(n)
  <2> HIDE DEF Far
  <2>1. \A n \in S : n + 1 \in S
    BY <1>4
  <2>2. \A n \in Nat : n \in S
    <3> HIDE DEF S
    <3>1. S \subseteq Nat
      BY DEF S
    <3> QED
      BY <1>3, <2>1, <3>1, AllNumbers
  <2> QED
    BY <2>2
<1>6. ASSUME NEW n \in Nat, n > N, Ends[n] # {} PROVE FALSE
  <2>1. n - 1 \in Nat /\ n = (n - 1) + 1 /\ n >= 1
    BY <1>1, <1>6
  <2>2. PICK x \in Ends[n] : TRUE
    BY <1>6
  <2>3. x[2] \in 1..N
    BY <1>2, <2>1, <2>2
  <2>4. IF Forward THEN n <= x[2] ELSE n + x[2] <= N + 1
    BY <1>5
  <2> HIDE DEF N
  <2> QED
    BY <1>1, <1>6, <2>1, <2>3, <2>4
<1> QED
  BY <1>6

(* The legs that one may cross after those that S has, under other rows.       *)
Crossings(row, S) ==
  {q \in Position : \E x \in S : q \in Adjacent(row, x[1]) /\ Eligible(q, x[2])}

(* Rows by which one may cross the same legs give the same paths.              *)
LEMMA ArrivalsOf ==
  WalkTypes => \A row :
    (\A n \in Nat : Crossings(row, Ends[n]) = Crossings(trace.row, Ends[n])) =>
       /\ DOMAIN Arrivals(row) = 0..Len(trace.legs)
       /\ \A n \in 0..Len(trace.legs) : Arrivals(row)[n] = Ends[n]
<1> SUFFICES ASSUME WalkTypes, NEW row,
                    \A n \in Nat : Crossings(row, Ends[n]) = Crossings(trace.row, Ends[n])
             PROVE  /\ DOMAIN Arrivals(row) = 0..Len(trace.legs)
                    /\ \A n \in 0..Len(trace.legs) : Arrivals(row)[n] = Ends[n]
  OBVIOUS
<1> DEFINE Step(S0) == {<<Destination(p), p>> : p \in Crossings(row, S0)}
           At[n \in Nat] ==
             IF n = 0 THEN Start
             ELSE LET last == At[n - 1]
                  IN {<<Destination(p), p>> : p \in
                       {q \in Position : \E x \in last :
                          q \in Adjacent(row, x[1]) /\ Eligible(q, x[2])}}
           Rule(g) ==
             [n \in Nat |->
                IF n = 0 THEN Start
                ELSE LET last == g[n - 1]
                     IN {<<Destination(p), p>> : p \in
                          {q \in Position : \E x \in last :
                             q \in Adjacent(row, x[1]) /\ Eligible(q, x[2])}}]
           S == {n \in Nat : At[n] = Ends[n]}
<1>1. Arrivals(row) = [n \in 0..Len(trace.legs) |-> At[n]]
  BY DEF Arrivals
<1>2. At = CHOOSE g : g = Rule(g)
  OBVIOUS
<1> HIDE DEF At
<1>3. \A n \in Nat : Step(Ends[n]) = Successors(Ends[n])
  BY DEF Successors, Onward, Crossings
<1>4. \A g : Rule(g) = [n \in Nat |-> IF n = 0 THEN Start ELSE Step(g[n - 1])]
  BY DEF Crossings
<1> HIDE DEF Rule, Step
<1>5. Ends = Rule(Ends)
  <2>1. /\ Ends \in [Nat -> SUBSET Node] /\ Ends[0] = Start
        /\ \A n \in Nat : Ends[n + 1] = Successors(Ends[n])
    BY EndsFacts
  <2>2. ASSUME NEW n \in Nat, n # 0 PROVE Ends[n] = Step(Ends[n - 1])
    <3>1. n - 1 \in Nat /\ n = (n - 1) + 1
      BY <2>2
    <3> QED
      BY <1>3, <2>1, <3>1
  <2>3. Ends = [n \in Nat |-> Ends[n]]
    BY <2>1
  <2>4. Ends = [n \in Nat |-> IF n = 0 THEN Start ELSE Step(Ends[n - 1])]
    BY <2>1, <2>2, <2>3
  <2> QED
    BY <1>4, <2>4
<1>6. At = Rule(At)
  BY <1>2, <1>5
<1>7. At = [n \in Nat |-> IF n = 0 THEN Start ELSE Step(At[n - 1])]
  BY <1>4, <1>6
<1>8. 0 \in S
  BY <1>7, EndsFacts
<1>9. ASSUME NEW n \in S PROVE n + 1 \in S
  <2>1. n + 1 \in Nat /\ n + 1 # 0 /\ (n + 1) - 1 = n /\ n \in Nat
    BY <1>9
  <2>2. At[n + 1] = Step(At[n])
    BY <1>7, <2>1
  <2> QED
    BY <1>3, <1>9, <2>1, <2>2, EndsFacts
<1>10. \A n \in Nat : At[n] = Ends[n]
  <2>1. \A n \in Nat : n \in S
    BY <1>8, <1>9, AllNumbers
  <2> QED
    BY <2>1
<1>11. \A n \in 0..Len(trace.legs) : n \in Nat
  BY LegFacts
<1> QED
  BY <1>1, <1>10, <1>11

LEMMA ArrivalsAreEnds ==
  WalkTypes =>
    /\ DOMAIN Arrivals(trace.row) = 0..Len(trace.legs)
    /\ \A n \in 0..Len(trace.legs) : Arrivals(trace.row)[n] = Ends[n]
  BY ArrivalsOf

(* So the arrivals that the edge rule gives are the ends of all paths.         *)
LEMMA WithinIsAll ==
  WalkTypes =>
    \A x : x \in Within(Arrivals(trace.row)) <=> \E n \in Nat : x \in Ends[n]
<1> SUFFICES ASSUME WalkTypes, NEW x
             PROVE  x \in Within(Arrivals(trace.row)) <=> \E n \in Nat : x \in Ends[n]
  OBVIOUS
<1>1. x \in Within(Arrivals(trace.row)) <=> \E n \in 0..Len(trace.legs) : x \in Ends[n]
  BY ArrivalsAreEnds DEF Within
<1>2. ASSUME NEW n \in Nat, x \in Ends[n] PROVE n \in 0..Len(trace.legs)
  BY <1>2, PathsEnd, LegFacts
<1>3. \A n \in 0..Len(trace.legs) : n \in Nat
  BY LegFacts
<1> QED
  BY <1>1, <1>2, <1>3

(* When nothing is left and no bound was hit, every path has been followed on. *)
LEMMA AllFollowed ==
  ASSUME WalkInv, Done, ~truncated
  PROVE  \A n \in Nat : \A x \in Ends[n] :
           OpenAt(x) \subseteq frontier /\ Onward(x) \subseteq reported
<1> SUFFICES ASSUME NEW n \in Nat, NEW x \in Ends[n]
             PROVE  OpenAt(x) \subseteq frontier /\ Onward(x) \subseteq reported
  OBVIOUS
<1>1. queue = <<>> /\ visit.rest = {} /\ DOMAIN queue = {}
  BY DEF Done
<1>2. Unhindered /\ Level(n)
  BY <1>1 DEF Unhindered, Level
<1>3. Handled(x, n)
  BY <1>2 DEF WalkInv, LevelsDone
<1> QED
  BY <1>1, <1>3 DEF Handled, Queued, Made

(* What is reported hangs together, and with the seed, bounds or not: a leg    *)
(* leaves the seed, or an entity that an eligible reported leg enters, and     *)
(* ends at the seed or at an entity of the answer (_walk, "edges to nodes that *)
(* do not exist").                                                             *)
THEOREM RouteHangsTogether == SpecWalk => []RouteHolds
<1>1. WalkInv => RouteHolds
  BY DEF WalkInv, WalkTypes, Supported, LeavesRoute, RouteHolds
<1> QED
  BY <1>1, WalkInvariant, PTL

(* Where no bound was hit, the frontier is where the walk could go on, and no  *)
(* farther: the ends of the undelivered legs that some path reaches from the   *)
(* right side (_walk).                                                         *)
THEOREM FrontierIsExact == SpecWalk => []FrontierIsOnward
<1>1. WalkInv => FrontierIsOnward
  <2> SUFFICES ASSUME WalkInv, Done, ~truncated
               PROVE  frontier = {Destination(p) : p \in
                        {q \in Position : \E x \in Within(Arrivals(trace.row)) :
                           q \in Undelivered(x[1]) /\ Eligible(q, x[2])}}
    BY DEF FrontierIsOnward
  <2> DEFINE All == {Destination(p) : p \in
                        {q \in Position : \E x \in Within(Arrivals(trace.row)) :
                           q \in Undelivered(x[1]) /\ Eligible(q, x[2])}}
  <2>1. \A x : x \in Within(Arrivals(trace.row)) <=> \E n \in Nat : x \in Ends[n]
    BY WithinIsAll DEF WalkInv
  <2>2. ASSUME NEW f \in frontier PROVE f \in All
    <3>0. PICK n \in Nat : \E x \in Ends[n] : f \in OpenAt(x)
      BY <2>2 DEF WalkInv, Sound
    <3>1. PICK x \in Ends[n] : f \in OpenAt(x)
      BY <3>0
    <3>2. PICK q \in Undelivered(x[1]) : Eligible(q, x[2]) /\ f = Destination(q)
      BY <3>1 DEF OpenAt
    <3> QED
      BY <2>1, <3>1, <3>2 DEF Undelivered
  <2>3. ASSUME NEW f \in All PROVE f \in frontier
    <3>1. PICK q \in Position, x \in Within(Arrivals(trace.row)) :
             q \in Undelivered(x[1]) /\ Eligible(q, x[2]) /\ f = Destination(q)
      BY <2>3
    <3>2. f \in OpenAt(x)
      BY <3>1 DEF OpenAt
    <3> QED
      BY <2>1, <3>1, <3>2, AllFollowed
  <2> QED
    BY <2>2, <2>3
<1> QED
  BY <1>1, WalkInvariant, PTL

(* Where no bound was hit, the answer is what the edge rule gives.             *)
LEMMA AnswerIsRule ==
  ASSUME WalkInv, Done, ~truncated
  PROVE  /\ DOMAIN hops = Reach(trace.row)
         /\ reported = {x[2] : x \in Within(Arrivals(trace.row)) \ Start}
<1>1. \A x : x \in Within(Arrivals(trace.row)) <=> \E n \in Nat : x \in Ends[n]
  BY WithinIsAll DEF WalkInv
<1>2. WalkTypes /\ Supported /\ Sound
  BY DEF WalkInv
<1>3. ASSUME NEW n \in Nat, NEW x \in Ends[n]
      PROVE  x \in Start \/ (x[2] \in reported /\ x[1] = Destination(x[2]))
  <2>1. CASE n = 0
    BY <1>2, <2>1, EndsFacts
  <2>2. CASE n # 0
    <3>1. n - 1 \in Nat /\ n = (n - 1) + 1
      BY <2>2
    <3>2. x \in Successors(Ends[n - 1])
      BY <1>2, <3>1, EndsFacts
    <3>3. PICK q \in Position, y \in Ends[n - 1] : q \in Onward(y) /\ x = <<Destination(q), q>>
      BY <3>2 DEF Successors
    <3> QED
      BY <3>1, <3>3, AllFollowed
  <2> QED
    BY <2>1, <2>2
<1>4. ASSUME NEW p \in reported PROVE \E x \in Within(Arrivals(trace.row)) \ Start : x[2] = p
  <2>1. PICK n \in Nat : <<Destination(p), p>> \in Ends[n + 1]
    BY <1>2, <1>4 DEF Sound
  <2>2. <<Destination(p), p>> \notin Start
    <3>1. p \in 1..Len(trace.legs) /\ Len(trace.legs) \in Nat
      BY <1>2, <1>4, LegFacts DEF WalkTypes
    <3>2. p # SeedArrival
      BY <3>1 DEF SeedArrival
    <3> QED
      BY <3>2 DEF Start
  <2>3. n + 1 \in Nat
    OBVIOUS
  <2> QED
    BY <1>1, <2>1, <2>2, <2>3
<1>5. reported = {x[2] : x \in Within(Arrivals(trace.row)) \ Start}
  BY <1>1, <1>3, <1>4
<1>6. ASSUME NEW e \in DOMAIN hops PROVE e \in Reach(trace.row)
  <2>1. hops[e] \in Nat /\ e # ask.seed
    BY <1>2, <1>6 DEF WalkTypes
  <2>2. PICK x \in Ends[hops[e]] : x[1] = e
    BY <1>2, <1>6 DEF Sound
  <2> QED
    BY <1>1, <2>1, <2>2 DEF Reach
<1>7. ASSUME NEW e \in Reach(trace.row) PROVE e \in DOMAIN hops
  <2>0. PICK n \in Nat : \E x \in Ends[n] : x[1] = e /\ e # ask.seed
    BY <1>1, <1>7 DEF Reach
  <2>1. PICK x \in Ends[n] : x[1] = e /\ e # ask.seed
    BY <2>0
  <2>2. x \notin Start
    BY <2>1 DEF Start
  <2>3. e \in DOMAIN bestArrival
    BY <1>2, <1>3, <2>1, <2>2 DEF Supported
  <2> QED
    BY <1>2, <2>1, <2>3 DEF WalkTypes
<1> QED
  BY <1>5, <1>6, <1>7

(* The answer, where no bound was hit, is what the edge rule gives, entities   *)
(* and legs, and every distance is that of a shortest path, bounds or not      *)
(* (_walk, "How hops stays correct").                                          *)
THEOREM WalkAnswersTheRule == SpecWalk => []AnswersTheRule
<1>1. ASSUME WalkInv, NEW e \in DOMAIN hops
      PROVE  hops[e] = Min({n \in DOMAIN Arrivals(trace.row) :
                              \E x \in Arrivals(trace.row)[n] : x[1] = e})
  <2> DEFINE S == {n \in DOMAIN Arrivals(trace.row) :
                     \E x \in Arrivals(trace.row)[n] : x[1] = e}
  <2>1. hops[e] \in Nat /\ \E x \in Ends[hops[e]] : x[1] = e
    BY <1>1 DEF WalkInv, WalkTypes, Sound
  <2>2. hops[e] \in 0..Len(trace.legs)
    BY <1>1, <2>1, PathsEnd, LegFacts DEF WalkInv
  <2>3. hops[e] \in S
    BY <1>1, <2>1, <2>2, ArrivalsAreEnds DEF WalkInv
  <2>4. ASSUME NEW n \in S PROVE n \in Nat /\ hops[e] <= n
    <3>1. n \in 0..Len(trace.legs) /\ \E x \in Ends[n] : x[1] = e
      BY <1>1, <2>4, ArrivalsAreEnds DEF WalkInv
    <3>2. n \in Nat
      BY <1>1, <3>1, LegFacts DEF WalkInv
    <3>3. ~(n < hops[e])
      BY <1>1, <3>1, <3>2 DEF WalkInv, Shortest
    <3> QED
      BY <2>1, <3>2, <3>3
  <2> HIDE DEF S
  <2>5. ASSUME NEW m \in S, \A n \in S : m =< n PROVE m = hops[e]
    BY <2>1, <2>3, <2>4, <2>5
  <2>6. \E m \in S : \A n \in S : m =< n
    BY <2>3, <2>4
  <2>7. Min(S) = hops[e]
    BY <2>5, <2>6 DEF Min
  <2> QED
    BY <2>7 DEF S
<1>2. WalkInv => AnswersTheRule
  BY <1>1, AnswerIsRule DEF AnswersTheRule
<1> QED
  BY <1>2, WalkInvariant, PTL

(* An answer that met no undelivered leg, or that found nothing next to the    *)
(* seed, is final: whatever rows of the lineage still land, the same paths     *)
(* lead to the same entities (GetLineageGraphResult, "those are all complete   *)
(* answers").  No path can turn into a leg that lands now.                     *)
THEOREM SettledStaysSo == SpecWalk => []SettledIsFinal
<1>1. ASSUME WalkInv, Done, ~truncated, frontier = {} \/ State = "no-adjacent",
             NEW row \in Landings
      PROVE  Reach(row) = DOMAIN hops
  <2>1. WalkTypes /\ \A n \in Nat : Ends[n] \in SUBSET Node
    BY <1>1, EndsFacts DEF WalkInv
  <2>2. DOMAIN hops = Reach(trace.row)
    BY <1>1, AnswerIsRule
  <2>3. ASSUME NEW n \in Nat, NEW x \in Ends[n] PROVE OpenAt(x) = {}
    <3>1. CASE frontier = {}
      BY <1>1, <3>1, AllFollowed
    <3>2. CASE State = "no-adjacent"
      <4>1. hops = <<>> /\ Undelivered(ask.seed) = {}
        BY <3>2 DEF State
      <4>2. DOMAIN hops = {}
        BY <4>1
      <4>3. x[1] = ask.seed
        BY <2>1, <2>2, <4>2, WithinIsAll DEF Reach
      <4> QED
        BY <4>1, <4>3 DEF OpenAt
    <3> QED
      BY <1>1, <3>1, <3>2
  <2>4. ASSUME NEW n \in Nat
        PROVE  Crossings(row, Ends[n]) = Crossings(trace.row, Ends[n])
    <3>1. \A p \in Position : trace.row[p] # "none" => row[p] = trace.row[p]
      BY DEF Landings
    <3>2. ASSUME NEW q \in Position, NEW x \in Ends[n], Eligible(q, x[2])
          PROVE  q \in Adjacent(row, x[1]) <=> q \in Adjacent(trace.row, x[1])
      <4>1. ~(trace.row[q] = "none" /\ Origin(q) = x[1] /\ Destination(q) # None)
        BY <2>3, <3>2 DEF OpenAt, Undelivered
      <4> QED
        BY <3>1, <4>1 DEF Adjacent
    <3> QED
      BY <3>2 DEF Crossings
  <2>5. /\ DOMAIN Arrivals(row) = DOMAIN Arrivals(trace.row)
        /\ \A n \in DOMAIN Arrivals(row) : Arrivals(row)[n] = Arrivals(trace.row)[n]
    BY <2>1, <2>4, ArrivalsOf, ArrivalsAreEnds
  <2>6. Within(Arrivals(row)) = Within(Arrivals(trace.row))
    BY <2>5 DEF Within
  <2> QED
    BY <2>2, <2>6 DEF Reach
<1>2. WalkInv => SettledIsFinal
  BY <1>1 DEF SettledIsFinal
<1> QED
  BY <1>2, WalkInvariant, PTL
================================================================================
