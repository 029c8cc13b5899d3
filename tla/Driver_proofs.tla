----------------------------- MODULE Driver_proofs -----------------------------
(****************************************************************************)
(* For any number of concurrent writers, items, faults and any batch size:   *)
(* the types of the loop's state, and that it loses no item but those that   *)
(* became visible behind it.                                                 *)
(****************************************************************************)
EXTENDS Driver, NumberFacts

(* What drain relies on: below an item of the batch nothing is unaccounted for. *)
BatchLowest ==
  \A i \in batch : \A n \in committed \ late :
    n < i => n \in batch \cup processed

(* The types that this rests on. *)
Sets ==
  /\ drawn \in Nat /\ cursor \in Nat
  /\ open \subseteq 1..drawn /\ committed \subseteq 1..drawn
  /\ late \subseteq committed /\ processed \subseteq committed
  /\ batch \subseteq committed

LostInv == Sets /\ BatchLowest /\ NoneLost

LEMMA InitLost == Init => LostInv
BY DEF Init, LostInv, Sets, BatchLowest, NoneLost

(* Of two items past the cursor the lower one is in every batch with the       *)
(* higher one.                                                                 *)
LEMMA LowerIsRead ==
  ASSUME Sets, Read,
         NEW i \in batch', NEW n \in Past, n < i
  PROVE  n \in batch'
<1> DEFINE Below(k) == {m \in Past : m < k}
<1>1. BatchSize \in Nat
  BY DriverAssumption
<1>2. batch' = {k \in Past : Cardinality(Below(k)) < BatchSize}
  BY DEF Read
<1>3. Past \subseteq Nat
  <2>1. 1..drawn \subseteq Nat
    BY DEF Sets
  <2> QED
    BY <2>1 DEF Past, Sets
<1>4. i \in Past /\ n \in Nat /\ i \in Nat
  <2>1. i \in Past
    BY <1>2
  <2> QED
    BY <1>3, <2>1
<1>5. Below(n) \subseteq Below(i)
  <2> SUFFICES ASSUME NEW m \in Past, m < n PROVE m < i
    OBVIOUS
  <2>1. m \in Nat
    BY <1>3
  <2> QED
    BY <1>4, <2>1
<1>6. IsFiniteSet(Below(i))
  <2>1. IsFiniteSet(1..drawn)
    BY FS_Interval DEF Sets
  <2>2. Below(i) \subseteq 1..drawn
    BY DEF Past, Sets
  <2> QED
    BY <2>1, <2>2, FS_Subset
<1>7. Cardinality(Below(n)) <= Cardinality(Below(i))
  BY <1>5, <1>6, FS_Subset
<1>8. Cardinality(Below(n)) \in Nat /\ Cardinality(Below(i)) \in Nat
  BY <1>5, <1>6, FS_Subset, FS_CardinalityType
<1>9. Cardinality(Below(i)) < BatchSize
  BY <1>2
<1> QED
  BY <1>1, <1>2, <1>7, <1>8, <1>9

LEMMA NextLost == LostInv /\ [Next]_vars => LostInv'
<1> SUFFICES ASSUME LostInv, [Next]_vars PROVE LostInv'
  OBVIOUS
<1> USE DEF LostInv
<1>1. CASE UNCHANGED vars
  BY <1>1 DEF vars, table, loop, Sets, BatchLowest, NoneLost, LostInv
<1>2. CASE Draw
  BY <1>2 DEF Draw, loop, Sets, BatchLowest, NoneLost
<1>3. ASSUME NEW n \in open, CommitItem(n) PROVE LostInv'
  <2>1. /\ committed' = committed \cup {n}
        /\ late' = IF GonePast(n) THEN late \cup {n} ELSE late
        /\ UNCHANGED <<drawn, cursor, batch, processed>>
        /\ open' \subseteq open
    BY <1>3 DEF CommitItem, loop
  <2>2. Sets'
    BY <2>1 DEF Sets
  <2>3. \A m \in committed' \ late' : m \in committed \ late \/ (m = n /\ ~GonePast(n))
    BY <2>1
  <2>4. n \in Nat /\ cursor \in Nat
    BY DEF Sets
  <2>5. BatchLowest'
    BY <2>1, <2>3, <2>4 DEF BatchLowest, GonePast, Sets
  <2>6. NoneLost'
    BY <2>1, <2>3, <2>4 DEF NoneLost, GonePast
  <2> QED
    BY <2>2, <2>5, <2>6
<1>4. ASSUME NEW n \in open, RollbackItem(n) PROVE LostInv'
  BY <1>4 DEF RollbackItem, loop, Sets, BatchLowest, NoneLost
<1>5. CASE Read
  <2>1. UNCHANGED <<drawn, open, committed, late, cursor, processed>>
    BY <1>5 DEF Read, table
  <2>2. batch' \subseteq Past
    BY <1>5 DEF Read
  <2>3. Sets'
    BY <2>1, <2>2 DEF Sets, Past
  <2>4. BatchLowest'
    <3> SUFFICES ASSUME NEW i \in batch', NEW n \in committed \ late, n < i
                 PROVE  n \in batch' \cup processed
      BY <2>1 DEF BatchLowest
    <3>1. n \in Nat /\ cursor \in Nat
      BY DEF Sets
    <3>2. CASE n <= cursor
      BY <3>2 DEF NoneLost
    <3>3. CASE n > cursor
      <4>1. n \in Past
        BY <3>3 DEF Past
      <4> QED
        BY <1>5, <4>1, LowerIsRead
    <3> QED
      BY <3>1, <3>2, <3>3
  <2> QED
    BY <2>1, <2>3, <2>4 DEF NoneLost
<1>6. CASE Handle
  <2>1. PICK b \in batch : /\ \A m \in batch : b <= m
                           /\ processed' = processed \cup {b}
                           /\ cursor' = b
                           /\ batch' = batch \ {b}
    BY <1>6 DEF Handle
  <2>2. UNCHANGED <<drawn, open, committed, late>>
    BY <1>6 DEF Handle, table
  <2>3. Sets'
    BY <2>1, <2>2 DEF Sets
  <2>4. BatchLowest'
    BY <2>1, <2>2 DEF BatchLowest
  <2>5. NoneLost'
    <3> SUFFICES ASSUME NEW n \in committed \ late, n <= b
                 PROVE  n \in processed \cup {b}
      BY <2>1, <2>2 DEF NoneLost
    <3>1. n \in Nat /\ b \in Nat
      BY DEF Sets
    <3>2. CASE n < b
      <4>1. n \in batch \cup processed
        BY <3>2 DEF BatchLowest
      <4>2. n \notin batch
        BY <2>1, <3>1, <3>2
      <4> QED
        BY <4>1, <4>2
    <3> QED
      BY <3>1, <3>2
  <2> QED
    BY <2>3, <2>4, <2>5
<1>7. CASE Connect \/ Wake \/ Timeout \/ LoseSession \/ LoseNotification
  <2>1. UNCHANGED <<drawn, open, committed, late, cursor, processed, batch>>
    BY <1>7 DEF Connect, Wake, Timeout, LoseSession, LoseNotification, table, loop
  <2> QED
    BY <2>1 DEF Sets, BatchLowest, NoneLost
<1>8. CASE Restart
  <2>1. UNCHANGED <<drawn, open, committed, late, cursor, processed>> /\ batch' = {}
    BY <1>8 DEF Restart, table
  <2> QED
    BY <2>1 DEF Sets, BatchLowest, NoneLost
<1> QED
  BY <1>1, <1>2, <1>3, <1>4, <1>5, <1>6, <1>7, <1>8 DEF Next, Write, Step

(* However many writers commit out of order and whatever fails, an item that   *)
(* was visible before the loop went past it is never at or below the cursor    *)
(* without having been processed.                                              *)
THEOREM NothingLost == Spec => []NoneLost
<1>1. LostInv => NoneLost
  BY DEF LostInv
<1> QED
  BY <1>1, InitLost, NextLost, PTL DEF Spec
--------------------------------------------------------------------------------
(* Types. *)

(* The batch read keeps to its LIMIT: below the highest item of the batch lie  *)
(* fewer than BatchSize others.                                                *)
LEMMA ReadIsLimited ==
  ASSUME drawn \in Nat, committed \subseteq 1..drawn, Read
  PROVE  Cardinality(batch') <= BatchSize
<1> DEFINE Below(k) == {m \in Past : m < k}
<1>1. batch' = {k \in Past : Cardinality(Below(k)) < BatchSize}
  BY DEF Read
<1>2. BatchSize \in Nat
  BY DriverAssumption
<1>3. batch' \subseteq 1..drawn /\ Past \subseteq 1..drawn
  BY <1>1 DEF Past
<1>4. IsFiniteSet(1..drawn)
  BY FS_Interval
<1>5. CASE batch' = {}
  BY <1>2, <1>5, FS_EmptySet
<1>6. CASE batch' # {}
  <2>1. PICK top \in batch' : \A m \in batch' : m <= top
    BY <1>3, <1>6, LargestOf
  <2>2. batch' \ {top} \subseteq Below(top)
    <3> SUFFICES ASSUME NEW m \in batch', m # top PROVE m \in Past /\ m < top
      OBVIOUS
    <3>1. m \in Nat /\ top \in Nat
      BY <1>3
    <3> QED
      BY <1>1, <2>1, <3>1
  <2>3. Cardinality(Below(top)) < BatchSize
    BY <1>1
  <2>4. IsFiniteSet(Below(top)) /\ IsFiniteSet(batch')
    <3>1. Below(top) \subseteq 1..drawn
      BY <1>3
    <3> QED
      BY <1>3, <1>4, <3>1, FS_Subset
  <2>5. /\ Cardinality(batch' \ {top}) <= Cardinality(Below(top))
        /\ Cardinality(batch' \ {top}) = Cardinality(batch') - 1
    BY <2>2, <2>4, FS_Subset, FS_RemoveElement
  <2>6. /\ Cardinality(Below(top)) \in Nat
        /\ Cardinality(batch') \in Nat
    BY <2>4, FS_CardinalityType
  <2> QED
    BY <1>2, <2>3, <2>5, <2>6
<1> QED
  BY <1>5, <1>6

LEMMA InitType == Init => TypeOK
<1> SUFFICES ASSUME Init PROVE TypeOK
  OBVIOUS
<1>1. draining \in BOOLEAN /\ more \in BOOLEAN /\ notified \in BOOLEAN /\ draining
  BY DEF Init
<1>2. Cardinality(batch) <= BatchSize
  BY DriverAssumption, FS_EmptySet DEF Init
<1> QED
  BY <1>1, <1>2 DEF Init, TypeOK

LEMMA NextType == TypeOK /\ [Next]_vars => TypeOK'
<1> SUFFICES ASSUME TypeOK, [Next]_vars PROVE TypeOK'
  OBVIOUS
<1> BatchSize \in Nat \ {0}
  BY DriverAssumption
<1>1. CASE UNCHANGED vars
  BY <1>1 DEF vars, table, loop, TypeOK
<1>2. CASE Draw
  <2>1. /\ drawn' = drawn + 1 /\ open' = open \cup {drawn + 1}
        /\ UNCHANGED <<committed, late, loop, notified, faults>>
    BY <1>2 DEF Draw
  <2>2. open' \subseteq 1..drawn' /\ committed' \subseteq 1..drawn'
    BY <2>1 DEF TypeOK
  <2>3. drawn + 1 \notin committed
    BY DEF TypeOK
  <2> QED
    BY <2>1, <2>2, <2>3 DEF loop, TypeOK
<1>3. ASSUME NEW n \in open, CommitItem(n) PROVE TypeOK'
  <2>1. notified' \in BOOLEAN
    BY <1>3 DEF CommitItem, TypeOK
  <2>2. /\ open' = open \ {n} /\ committed' = committed \cup {n}
        /\ late' \subseteq late \cup {n}
        /\ UNCHANGED <<drawn, loop, faults>>
    BY <1>3 DEF CommitItem
  <2> QED
    BY <2>1, <2>2 DEF loop, TypeOK
<1>4. ASSUME NEW n \in open, RollbackItem(n) PROVE TypeOK'
  BY <1>4 DEF RollbackItem, loop, TypeOK
<1>5. CASE Read
  <2>6. more' \in BOOLEAN
    <3>1. more' = (Cardinality(Past) >= BatchSize)
      BY <1>5, Zenon DEF Read
    <3>2. (Cardinality(Past) >= BatchSize) \in BOOLEAN
      OBVIOUS
    <3> QED
      BY <3>1, <3>2, Zenon
  <2>1. /\ batch' \subseteq Past
        /\ Past = {} => draining' = FALSE /\ mode' = AfterDrain
        /\ Past # {} => UNCHANGED <<draining, mode>>
        /\ UNCHANGED <<drawn, open, committed, late, cursor, processed, notified, faults>>
        /\ draining
    BY <1>5 DEF Read, table
  <2>2. Cardinality(batch') <= BatchSize
    BY <1>5, ReadIsLimited DEF TypeOK
  <2>3. batch' \subseteq committed
    BY <2>1 DEF Past
  <2>4. AfterDrain \in {"connect", "listen", "poll"}
    BY DEF AfterDrain, TypeOK
  <2>5. /\ mode' \in {"start", "connect", "listen", "poll"}
        /\ draining' \in BOOLEAN
        /\ mode' = "start" => draining'
        /\ batch' # {} => draining'
    <3>1. CASE Past = {}
      BY <2>1, <2>4, <3>1
    <3>2. CASE Past # {}
      BY <2>1, <3>2 DEF TypeOK
    <3> QED
      BY <3>1, <3>2
  <2> QED
    BY <2>1, <2>2, <2>3, <2>5, <2>6 DEF TypeOK
<1>6. CASE Handle
  <2>1. PICK b \in batch : processed' = processed \cup {b} /\ cursor' = b
                           /\ batch' = batch \ {b}
    BY <1>6 DEF Handle
  <2>2. /\ batch' = {} /\ ~more => draining' = FALSE /\ mode' = AfterDrain
        /\ ~(batch' = {} /\ ~more) => UNCHANGED <<draining, mode>>
        /\ UNCHANGED <<drawn, open, committed, late, more, notified, faults>>
        /\ draining
    BY <1>6 DEF Handle, table
  <2>3. Cardinality(batch') <= BatchSize
    <3>1. IsFiniteSet(batch)
      <4>1. IsFiniteSet(1..drawn) /\ batch \subseteq 1..drawn
        BY FS_Interval DEF TypeOK
      <4> QED
        BY <4>1, FS_Subset
    <3>2. /\ Cardinality(batch) \in Nat /\ Cardinality(batch') \in Nat
          /\ Cardinality(batch') <= Cardinality(batch)
      BY <2>1, <3>1, FS_Subset, FS_CardinalityType
    <3> QED
      BY <3>2 DEF TypeOK
  <2>4. cursor' \in Nat
    BY <2>1 DEF TypeOK
  <2>5. AfterDrain \in {"connect", "listen", "poll"}
    BY DEF AfterDrain, TypeOK
  <2>6. /\ mode' \in {"start", "connect", "listen", "poll"}
        /\ draining' \in BOOLEAN
        /\ mode' = "start" => draining'
        /\ batch' # {} => draining'
    <3>1. CASE batch' = {} /\ ~more
      BY <2>2, <2>5, <3>1
    <3>2. CASE ~(batch' = {} /\ ~more)
      BY <2>2, <3>2 DEF TypeOK
    <3> QED
      BY <3>1, <3>2
  <2> QED
    BY <2>1, <2>2, <2>3, <2>4, <2>6 DEF TypeOK
<1>7. CASE Connect \/ Wake \/ Timeout \/ LoseNotification
  <2>1. /\ draining' \in BOOLEAN /\ more' \in BOOLEAN /\ notified' \in BOOLEAN
        /\ draining => draining'
    BY <1>7, Zenon DEF Connect, Waiting, Wake, Timeout, LoseNotification, loop, TypeOK
  <2>2. /\ UNCHANGED <<drawn, open, committed, late, cursor, batch, processed>>
        /\ mode' = mode \/ mode' = "listen"
        /\ faults' \in Nat
    BY <1>7 DEF Connect, Wake, Timeout, LoseNotification, table, loop, TypeOK
  <2> QED
    BY <2>1, <2>2 DEF TypeOK
<1>8. CASE LoseSession
  <2>1. draining' \in BOOLEAN /\ more' \in BOOLEAN /\ notified' \in BOOLEAN /\ draining'
    BY <1>8, Zenon DEF LoseSession, TypeOK
  <2>2. /\ UNCHANGED <<drawn, open, committed, late, cursor, batch, processed>>
        /\ mode' = "poll" /\ faults' \in Nat
    BY <1>8 DEF LoseSession, table, TypeOK
  <2> QED
    BY <2>1, <2>2 DEF TypeOK
<1>9. CASE Restart
  <2>1. Cardinality({}) = 0
    BY FS_EmptySet
  <2>2. draining' \in BOOLEAN /\ more' \in BOOLEAN /\ notified' \in BOOLEAN /\ draining'
    BY <1>9 DEF Restart
  <2>3. /\ UNCHANGED <<drawn, open, committed, late, cursor, processed>>
        /\ batch' = {} /\ mode' = "start" /\ faults' \in Nat
    BY <1>9 DEF Restart, table, TypeOK
  <2> QED
    BY <2>1, <2>2, <2>3 DEF TypeOK
<1> QED
  BY <1>1, <1>2, <1>3, <1>4, <1>5, <1>6, <1>7, <1>8, <1>9 DEF Next, Write, Step

(* The loop's state keeps its types: what is processed was visible, a batch    *)
(* keeps to its limit, and the loop never waits with items in hand.            *)
THEOREM TypeCorrect == Spec => []TypeOK
BY InitType, NextType, PTL DEF Spec
================================================================================
