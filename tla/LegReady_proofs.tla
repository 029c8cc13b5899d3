---------------------------- MODULE LegReady_proofs ----------------------------
(****************************************************************************)
(* For any interactions, payloads, batch size, re-derivations, withdrawals   *)
(* and restarts: legs are handed over in the order of seq, none twice, none  *)
(* left behind the cursor, none before the verdict on its payload, and no    *)
(* response before its request.  The theorems are about the writers whose    *)
(* legs draw their numbers from the sequence, not about the graph algorithm, *)
(* which supplies them.                                                      *)
(****************************************************************************)
EXTENDS LegReady, NumberFacts

(* The streaming and the sidecar algorithm. *)
FromTheSequence == \A i \in Interaction : Ordinal[i] = None

Stands(l) == legs[l] # Absent

Types ==
  /\ legs \in [Leg -> [seq: Nat, payload: Content] \cup {Absent}]
  /\ last_seq \in Nat /\ ready_cursor \in Nat
  /\ batch \in Seq(Delivery) /\ delivered \in Seq(Delivery)

(* A number names one leg, and was drawn. *)
LegsApart ==
  /\ ready_cursor <= last_seq
  /\ \A l \in Leg : Stands(l) => legs[l].seq <= last_seq
  /\ \A l, k \in Leg : Stands(l) /\ Stands(k) /\ l # k => legs[l].seq # legs[k].seq

(* The rest of a batch lies past the cursor, in order, judged. *)
BatchInOrder ==
  /\ \A n \in DOMAIN batch :
       ready_cursor < batch[n].seq /\ batch[n].seq <= last_seq
  /\ \A m, n \in DOMAIN batch : m < n => batch[m].seq < batch[n].seq

BatchJudged ==
  \A n \in DOMAIN batch : batch[n].payload # None => batch[n].payload \in verdicts

(* Between the cursor and an item of the batch lies nothing but the batch. *)
BatchCovers ==
  \A n \in DOMAIN batch : \A l \in Leg :
    Stands(l) /\ ready_cursor < legs[l].seq /\ legs[l].seq <= batch[n].seq =>
      \E m \in DOMAIN batch : batch[m].leg = l /\ batch[m].seq = legs[l].seq

DeliveredBehind == \A n \in DOMAIN delivered : delivered[n].seq <= ready_cursor

Order == BatchInOrder /\ DeliveredBehind /\ InSeqOrder
Verdicts == BatchJudged /\ VerdictFirst
Coverage == BatchCovers /\ NoneSkipped

LegInv == Types /\ LegsApart /\ Order /\ Verdicts /\ Coverage

--------------------------------------------------------------------------------
(* The writer. *)

(* What a transaction does to a leg: it goes, keeps its number, or gets one of *)
(* the next two.                                                               *)
Renumbered(i, l) ==
  legs'[l] # Absent =>
    \/ Stands(l) /\ legs'[l].seq = legs[l].seq
    \/ l = Request(i) /\ legs'[l].seq = last_seq + 1
    \/ l = Response(i) /\ legs'[l].seq = last_seq + 2

LEMMA WriteFacts ==
  ASSUME FromTheSequence, Types, Write
  PROVE  /\ legs' \in [Leg -> [seq: Nat, payload: Content] \cup {Absent}]
         /\ last_seq' \in {last_seq, last_seq + 2}
         /\ \E i \in Interaction :
              \A l \in Leg : Renumbered(i, l)
                             /\ (last_seq' = last_seq => legs'[l] \in {legs[l], Absent})
         /\ UNCHANGED <<classification, readiness>>
<1>0. legs \in [Leg -> [seq: Nat, payload: Content] \cup {Absent}] /\ last_seq \in Nat
  BY DEF Types
<1>1. ASSUME NEW i \in Interaction, Withdraw(i)
      PROVE  /\ legs' \in [Leg -> [seq: Nat, payload: Content] \cup {Absent}]
             /\ last_seq' = last_seq
             /\ \A l \in Leg : legs'[l] \in {legs[l], Absent}
             /\ UNCHANGED <<classification, readiness>>
  BY <1>0, <1>1 DEF Withdraw
<1>2. ASSUME NEW i \in Interaction, NEW request \in Content,
             NEW response \in Content \cup {Absent}, Derive(i, request, response)
      PROVE  /\ legs' \in [Leg -> [seq: Nat, payload: Content] \cup {Absent}]
             /\ last_seq' = last_seq + 2
             /\ \A l \in Leg : Renumbered(i, l)
             /\ UNCHANGED <<classification, readiness>>
  <2>1. Ordinal[i] = None
    BY DEF FromTheSequence
  <2>2. \A l \in Leg : /\ Stands(l) => legs[l].seq \in Nat
                       /\ legs[l] # Absent <=> Stands(l)
    BY <1>0 DEF Stands
  <2>3. ASSUME NEW l \in {Request(i), Response(i)}, NEW payload \in Content
        PROVE  /\ Stored(i, l, payload) \in [seq: Nat, payload: Content]
               /\ Stored(i, l, payload).seq
                    = IF Stands(l) THEN legs[l].seq
                      ELSE IF l = Request(i) THEN last_seq + 1 ELSE last_seq + 2
    <3>1. l \in Leg
      BY DEF Leg, Request, Response
    <3> DEFINE number == IF legs[l] = Absent THEN NewSeq(i, l) ELSE legs[l].seq
    <3>2. number = IF Stands(l) THEN legs[l].seq
                   ELSE IF l = Request(i) THEN last_seq + 1 ELSE last_seq + 2
      BY <1>0, <2>1, <2>2, <3>1 DEF NewSeq, Stands
    <3>3. number \in Nat
      BY <1>0, <2>2, <3>1, <3>2
    <3>4. Stored(i, l, payload) = [seq |-> number, payload |-> payload]
      BY DEF Stored
    <3> HIDE DEF number
    <3> QED
      BY <3>2, <3>3, <3>4
  <2>4. Request(i) # Response(i)
    BY DEF Request, Response
  <2>5. /\ legs' = [l \in Leg |->
                      IF l = Request(i) THEN Stored(i, l, request)
                      ELSE IF l = Response(i) /\ response # Absent
                      THEN Stored(i, l, response)
                      ELSE legs[l]]
        /\ last_seq' = last_seq + 2
        /\ UNCHANGED <<classification, readiness>>
    BY <1>2, <2>1 DEF Derive
  <2>6. ASSUME NEW l \in Leg
        PROVE  /\ legs'[l] \in [seq: Nat, payload: Content] \cup {Absent}
               /\ Renumbered(i, l)
    <3>1. CASE l = Request(i)
      <4>1. legs'[l] = Stored(i, l, request)
        BY <2>5, <3>1
      <4> QED
        BY <2>3, <3>1, <4>1 DEF Renumbered
    <3>2. CASE l = Response(i) /\ response # Absent
      <4>1. legs'[l] = Stored(i, l, response) /\ response \in Content
        BY <2>4, <2>5, <3>2
      <4> QED
        BY <2>3, <2>4, <3>2, <4>1 DEF Renumbered
    <3>3. CASE l # Request(i) /\ ~(l = Response(i) /\ response # Absent)
      <4>1. legs'[l] = legs[l]
        BY <2>5, <3>3
      <4> QED
        BY <1>0, <4>1 DEF Renumbered, Stands
    <3> QED
      BY <3>1, <3>2, <3>3
  <2> QED
    BY <2>5, <2>6
<1>3. ASSUME NEW l \in Leg, legs'[l] \in {legs[l], Absent}, NEW i \in Interaction
      PROVE  Renumbered(i, l)
  BY <1>3 DEF Renumbered, Stands
<1>4. last_seq + 2 # last_seq
  BY <1>0
<1>5. CASE \E i \in Interaction : Withdraw(i)
  BY <1>1, <1>3, <1>5
<1>6. CASE \E i \in Interaction, request \in Content, response \in Content \cup {Absent} :
             Derive(i, request, response)
  BY <1>2, <1>4, <1>6
<1> QED
  BY <1>5, <1>6 DEF Write

(* A leg that a transaction leaves or makes: an old number, or one beyond all. *)
LEMMA WriteKeepsLegs ==
  ASSUME FromTheSequence, Types, LegsApart, Write
  PROVE  /\ Types' /\ LegsApart'
         /\ \A l \in Leg : Stands(l)' =>
              \/ Stands(l) /\ legs'[l].seq = legs[l].seq
              \/ legs'[l].seq > last_seq
         /\ UNCHANGED <<verdicts, readiness>> /\ last_seq <= last_seq'
<1>1. PICK i \in Interaction :
        \A l \in Leg : /\ Renumbered(i, l)
                       /\ last_seq' = last_seq => legs'[l] \in {legs[l], Absent}
  BY WriteFacts
<1>2. /\ legs' \in [Leg -> [seq: Nat, payload: Content] \cup {Absent}]
      /\ last_seq' \in {last_seq, last_seq + 2}
      /\ UNCHANGED <<verdicts, ready_cursor, batch, delivered, readiness>>
  BY WriteFacts DEF classification, readiness
<1>3. Types'
  BY <1>2 DEF Types
<1>4. last_seq \in Nat /\ ready_cursor \in Nat
      /\ \A l \in Leg : Stands(l) => legs[l].seq \in Nat /\ legs[l].seq <= last_seq
  BY DEF Types, Stands, LegsApart
<1>5. ASSUME NEW l \in Leg, Stands(l)'
      PROVE  \/ Stands(l) /\ legs'[l].seq = legs[l].seq
             \/ /\ last_seq' = last_seq + 2
                /\ \/ l = Request(i) /\ legs'[l].seq = last_seq + 1
                   \/ l = Response(i) /\ legs'[l].seq = last_seq + 2
  <2>1. CASE last_seq' = last_seq
    BY <1>1, <1>5, <2>1 DEF Stands
  <2>2. CASE last_seq' # last_seq
    BY <1>1, <1>2, <1>5, <2>2 DEF Renumbered, Stands
  <2> QED
    BY <2>1, <2>2
<1>6. LegsApart'
  <2>1. ready_cursor' <= last_seq'
    BY <1>2, <1>4 DEF LegsApart
  <2>2. ASSUME NEW l \in Leg, Stands(l)' PROVE legs'[l].seq <= last_seq'
    BY <1>2, <1>4, <1>5, <2>2
  <2>3. ASSUME NEW l \in Leg, NEW k \in Leg, Stands(l)', Stands(k)', l # k
        PROVE  legs'[l].seq # legs'[k].seq
    BY <1>4, <1>5, <2>3 DEF LegsApart
  <2> QED
    BY <2>1, <2>2, <2>3 DEF LegsApart
<1>7. \A l \in Leg : Stands(l)' => \/ Stands(l) /\ legs'[l].seq = legs[l].seq
                                   \/ legs'[l].seq > last_seq
  BY <1>4, <1>5
<1> QED
  BY <1>2, <1>3, <1>4, <1>6, <1>7

LEMMA WriteKeeps == FromTheSequence /\ LegInv /\ Write => LegInv'
<1> SUFFICES ASSUME FromTheSequence, LegInv, Write PROVE LegInv'
  OBVIOUS
<1> USE DEF LegInv
<1>1. /\ Types' /\ LegsApart'
      /\ \A l \in Leg : Stands(l)' => \/ Stands(l) /\ legs'[l].seq = legs[l].seq
                                      \/ legs'[l].seq > last_seq
      /\ UNCHANGED <<verdicts, readiness>> /\ last_seq <= last_seq'
  BY WriteKeepsLegs
<1>2. UNCHANGED <<verdicts, ready_cursor, batch, delivered>>
  BY <1>1 DEF readiness
<1>3. /\ last_seq \in Nat /\ last_seq' \in Nat /\ ready_cursor \in Nat
      /\ \A n \in DOMAIN batch : batch[n].seq \in Nat
  <2>1. ASSUME NEW n \in DOMAIN batch PROVE batch[n].seq \in Nat
    <3>1. batch \in Seq(Delivery)
      BY DEF Types
    <3>2. batch[n] \in Delivery
      BY <3>1
    <3> QED
      BY <3>2 DEF Delivery
  <2> QED
    BY <1>1, <2>1 DEF Types
<1>4. Order'
  BY <1>1, <1>2, <1>3 DEF Order, BatchInOrder, DeliveredBehind, InSeqOrder
<1>5. Verdicts'
  BY <1>2 DEF Verdicts, BatchJudged, VerdictFirst
<1>6. ASSUME NEW l \in Leg, Stands(l)', ~(Stands(l) /\ legs'[l].seq = legs[l].seq)
      PROVE  /\ ~(legs'[l].seq <= ready_cursor)
             /\ \A n \in DOMAIN batch : ~(legs'[l].seq <= batch[n].seq)
  <2>1. legs'[l].seq > last_seq /\ legs'[l].seq \in Nat
    BY <1>1, <1>6 DEF Types, Stands
  <2>2. ready_cursor <= last_seq /\ \A n \in DOMAIN batch : batch[n].seq <= last_seq
    BY DEF LegsApart, Order, BatchInOrder
  <2> QED
    BY <1>3, <2>1, <2>2
<1>7. BatchCovers'
  BY <1>2, <1>6 DEF Coverage, BatchCovers
<1>8. NoneSkipped'
  <2>1. ASSUME NEW l \in Leg, legs'[l] # Absent, legs'[l].seq <= ready_cursor
        PROVE  \E n \in DOMAIN delivered :
                 delivered[n].leg = l /\ delivered[n].seq = legs'[l].seq
    BY <1>6, <2>1 DEF Coverage, NoneSkipped, Stands
  <2> QED
    BY <1>2, <2>1 DEF NoneSkipped
<1> QED
  BY <1>1, <1>4, <1>5, <1>7, <1>8 DEF Coverage
--------------------------------------------------------------------------------
(* Classification only adds verdicts. *)

LEMMA ClassifyKeeps ==
  ASSUME LegInv, NEW p \in Payload, Classify(p) PROVE LegInv'
<1>1. /\ verdicts \subseteq verdicts'
      /\ UNCHANGED <<legs, last_seq, ready_cursor, batch, delivered>>
  BY DEF Classify, writer, readiness
<1>2. Types' /\ LegsApart' /\ Order' /\ Coverage'
  BY <1>1 DEF LegInv, Types, LegsApart, Stands, Order, BatchInOrder, DeliveredBehind,
              InSeqOrder, Coverage, BatchCovers, NoneSkipped
<1>3. Verdicts'
  BY <1>1 DEF LegInv, Verdicts, BatchJudged, VerdictFirst
<1> QED
  BY <1>2, <1>3 DEF LegInv

--------------------------------------------------------------------------------
(* A batch. *)

(* The legs past the cursor are finitely many, since their numbers differ. *)
LEMMA PastIsFinite ==
  ASSUME Types, LegsApart PROVE IsFiniteSet(Past)
<1> DEFINE number == [l \in Past |-> legs[l].seq]
<1>1. \A l \in Past : /\ l \in Leg /\ Stands(l)
                       /\ legs[l].seq \in 1..last_seq
  BY DEF Past, Types, LegsApart, Stands
<1>2. number \in Injection(Past, 1..last_seq)
  BY <1>1 DEF LegsApart, Injection, IsInjective
<1>3. IsFiniteSet(1..last_seq)
  BY FS_Interval DEF Types
<1> HIDE DEF number
<1> QED
  BY <1>2, <1>3, FS_Injection

(* The prefix of a batch: its first rows, all of them ready. *)
LEMMA PrefixFacts ==
  ASSUME NEW size \in Nat, NEW rows \in [1..size -> Leg]
  PROVE  \E k \in 0..size :
           /\ DOMAIN Prefix(rows) = 1..k
           /\ \A n \in 1..k : Prefix(rows)[n] = rows[n] /\ Ready(rows[n])
<1> DEFINE Good == {n \in DOMAIN rows : \A m \in 1..n : Ready(rows[m])}
           k == Cardinality(Good)
<1>1. IsFiniteSet(1..size) /\ Cardinality(1..size) = size
  BY FS_Interval
<1>2. Good \subseteq 1..size
  OBVIOUS
<1>3. k \in 0..size
  <2>1. IsFiniteSet(Good) /\ Cardinality(Good) <= Cardinality(1..size)
    BY <1>1, <1>2, FS_Subset
  <2>2. Cardinality(Good) \in Nat
    BY <2>1, FS_CardinalityType
  <2> QED
    BY <1>1, <2>1, <2>2
<1>4. ASSUME NEW n \in 1..k PROVE Ready(rows[n])
  <2> SUFFICES ASSUME n \notin Good PROVE FALSE
    BY <1>3
  <2>1. Good \subseteq 1..(n - 1)
    BY <1>3
  <2>2. IsFiniteSet(1..(n - 1)) /\ Cardinality(1..(n - 1)) = n - 1
    <3>1. n \in Int /\ n >= 1 /\ 1 \in Int /\ n - 1 \in Int
      BY <1>3
    <3>2. /\ IsFiniteSet(1..(n - 1))
          /\ Cardinality(1..(n - 1)) = IF 1 > n - 1 THEN 0 ELSE (n - 1) - 1 + 1
      BY <3>1, FS_Interval
    <3> QED
      BY <3>1, <3>2
  <2>3. k <= n - 1
    BY <2>1, <2>2, FS_Subset
  <2> QED
    BY <1>3, <2>3
<1>5. Prefix(rows) = SubSeq(rows, 1, k)
  BY DEF Prefix
<1> HIDE DEF k, Good
<1>6. /\ DOMAIN SubSeq(rows, 1, k) = 1..k
      /\ \A n \in 1..k : SubSeq(rows, 1, k)[n] = rows[n]
  BY <1>3
<1> QED
  BY <1>3, <1>4, <1>5, <1>6

(* What is read: legs past the cursor, ordered, judged, with nothing between. *)
LEMMA FetchFacts ==
  ASSUME LegInv, Fetch
  PROVE  \E k \in Nat : \E leg \in [1..k -> Past] :
           /\ batch' = [n \in 1..k |-> Item(leg[n])]
           /\ \A n \in 1..k : Ready(leg[n])
           /\ \A m, n \in 1..k : m < n => legs[leg[m]].seq < legs[leg[n]].seq
           /\ \A n \in 1..k : \A l \in Past :
                legs[l].seq <= legs[leg[n]].seq => \E m \in 1..k : leg[m] = l
<1>0. PICK size \in Nat : \E rows \in FirstBySeq(size) :
        batch' = [n \in DOMAIN Prefix(rows) |->
                    Item(BySeq(rows, legs[Prefix(rows)[n]].seq))]
  <2>1. Cardinality(Past) \in Nat
    BY PastIsFinite, FS_CardinalityType DEF LegInv
  <2>2. BatchSize \in Nat
    BY LegReadyAssumption
  <2> QED
    BY <2>1, <2>2 DEF Fetch, Rows
<1>1. PICK rows \in FirstBySeq(size) :
        batch' = [n \in DOMAIN Prefix(rows) |->
                    Item(BySeq(rows, legs[Prefix(rows)[n]].seq))]
  BY <1>0
<1>2. /\ rows \in [1..size -> Past]
      /\ \A m, n \in 1..size : rows[m] = rows[n] => m = n
      /\ \A m, n \in 1..size : m < n => legs[rows[m]].seq <= legs[rows[n]].seq
      /\ \A l \in Past : \/ \E n \in 1..size : rows[n] = l
                         \/ \A n \in 1..size : legs[rows[n]].seq <= legs[l].seq
  BY DEF FirstBySeq, IsInjective, Range
<1>3. /\ \A l \in Past : l \in Leg /\ Stands(l) /\ legs[l].seq \in Nat
      /\ \A l, m \in Past : legs[l].seq = legs[m].seq => l = m
  BY DEF Past, LegInv, Types, LegsApart, Stands
<1>4. PICK k \in 0..size :
        /\ DOMAIN Prefix(rows) = 1..k
        /\ \A n \in 1..k : Prefix(rows)[n] = rows[n] /\ Ready(rows[n])
  <2>1. rows \in [1..size -> Leg]
    BY <1>2, <1>3
  <2> QED
    BY <2>1, PrefixFacts
<1>5. ASSUME NEW n \in 1..size PROVE BySeq(rows, legs[rows[n]].seq) = rows[n]
  <2> DEFINE Chosen(j) == /\ legs[rows[j]].seq = legs[rows[n]].seq
                          /\ \A m \in DOMAIN rows :
                               legs[rows[m]].seq = legs[rows[n]].seq => m <= j
  <2>1. \A j \in DOMAIN rows : legs[rows[j]].seq = legs[rows[n]].seq => j = n
    BY <1>2, <1>3
  <2>2. n \in DOMAIN rows /\ Chosen(n)
    BY <1>2, <2>1
  <2>3. \A j \in DOMAIN rows : Chosen(j) => j = n
    BY <2>1
  <2>4. (CHOOSE j \in DOMAIN rows : Chosen(j)) = n
    <3> HIDE DEF Chosen
    <3> QED
      BY <2>2, <2>3
  <2> QED
    BY <2>4 DEF BySeq
<1> DEFINE leg == [n \in 1..k |-> rows[n]]
<1>6. leg \in [1..k -> Past] /\ \A n \in 1..k : leg[n] = rows[n]
  BY <1>2
<1>7. batch' = [n \in 1..k |-> Item(leg[n])]
  BY <1>1, <1>4, <1>5
<1>8. \A n \in 1..k : Ready(leg[n])
  BY <1>4
<1>9. ASSUME NEW m \in 1..k, NEW n \in 1..k, m < n
      PROVE  legs[leg[m]].seq < legs[leg[n]].seq
  <2>1. legs[rows[m]].seq <= legs[rows[n]].seq /\ rows[m] # rows[n]
    BY <1>2, <1>9
  <2> QED
    BY <1>2, <1>3, <2>1
<1>10. ASSUME NEW n \in 1..k, NEW l \in Past, legs[l].seq <= legs[leg[n]].seq
       PROVE  \E m \in 1..k : leg[m] = l
  <2>1. rows[n] \in Past /\ legs[l].seq <= legs[rows[n]].seq
    BY <1>2, <1>10
  <2>2. CASE \E j \in 1..size : rows[j] = l
    <3>1. PICK j \in 1..size : rows[j] = l
      BY <2>2
    <3>2. CASE j <= n
      BY <3>1, <3>2
    <3>3. CASE n < j
      <4>1. legs[rows[n]].seq <= legs[rows[j]].seq
        BY <1>2, <3>3
      <4>2. legs[rows[n]].seq = legs[l].seq
        BY <1>3, <2>1, <3>1, <4>1
      <4> QED
        BY <1>3, <2>1, <4>2
    <3> QED
      BY <3>2, <3>3
  <2>3. CASE \A j \in 1..size : legs[rows[j]].seq <= legs[l].seq
    <3>1. legs[rows[n]].seq = legs[l].seq
      BY <1>3, <2>1, <2>3
    <3> QED
      BY <1>3, <2>1, <3>1
  <2> QED
    BY <1>2, <2>2, <2>3
<1> HIDE DEF leg
<1> QED
  BY <1>6, <1>7, <1>8, <1>9, <1>10

LEMMA FetchKeeps ==
  ASSUME LegInv, Fetch PROVE LegInv'
<1>0. PICK k \in Nat : \E leg \in [1..k -> Past] :
        /\ batch' = [n \in 1..k |-> Item(leg[n])]
        /\ \A n \in 1..k : Ready(leg[n])
        /\ \A m, n \in 1..k : m < n => legs[leg[m]].seq < legs[leg[n]].seq
        /\ \A n \in 1..k : \A l \in Past :
             legs[l].seq <= legs[leg[n]].seq => \E m \in 1..k : leg[m] = l
  BY FetchFacts
<1>1. PICK leg \in [1..k -> Past] :
        /\ batch' = [n \in 1..k |-> Item(leg[n])]
        /\ \A n \in 1..k : Ready(leg[n])
        /\ \A m, n \in 1..k : m < n => legs[leg[m]].seq < legs[leg[n]].seq
        /\ \A n \in 1..k : \A l \in Past :
             legs[l].seq <= legs[leg[n]].seq => \E m \in 1..k : leg[m] = l
  BY <1>0
<1>2. UNCHANGED <<legs, last_seq, ready_cursor, delivered, verdicts>>
  BY DEF Fetch, writer, classification
<1>3. \A l \in Past : /\ l \in Leg /\ Stands(l) /\ legs[l] \in [seq: Nat, payload: Content]
                       /\ ready_cursor < legs[l].seq /\ legs[l].seq <= last_seq
  BY DEF Past, LegInv, Types, LegsApart, Stands
<1>4. /\ DOMAIN batch' = 1..k
      /\ \A n \in 1..k : /\ batch'[n].leg = leg[n] /\ batch'[n].seq = legs[leg[n]].seq
                          /\ batch'[n].payload = legs[leg[n]].payload
                          /\ batch'[n] \in Delivery
  BY <1>1, <1>3 DEF Item, Delivery
<1>5. Types'
  <2>1. batch' \in Seq(Delivery)
    <3>1. batch' \in [1..k -> Delivery]
      BY <1>1, <1>4
    <3> QED
      BY <3>1
  <2> QED
    BY <1>2, <2>1 DEF LegInv, Types
<1>6. LegsApart'
  BY <1>2 DEF LegInv, LegsApart, Stands
<1>7. Order'
  <2>1. BatchInOrder'
    BY <1>1, <1>2, <1>3, <1>4 DEF BatchInOrder
  <2> QED
    BY <1>2, <2>1 DEF LegInv, Order, DeliveredBehind, InSeqOrder
<1>8. Verdicts'
  <2>1. BatchJudged'
    BY <1>1, <1>2, <1>4 DEF BatchJudged, Ready
  <2> QED
    BY <1>2, <2>1 DEF LegInv, Verdicts, VerdictFirst
<1>9. Coverage'
  <2>1. ASSUME NEW n \in 1..k, NEW l \in Leg, Stands(l),
               ready_cursor < legs[l].seq, legs[l].seq <= batch'[n].seq
        PROVE  \E m \in 1..k : batch'[m].leg = l /\ batch'[m].seq = legs[l].seq
    <3>1. l \in Past
      BY <2>1 DEF Past, Stands, LegInv, Types
    <3> QED
      BY <1>1, <1>4, <2>1, <3>1
  <2>2. BatchCovers'
    BY <1>2, <1>4, <2>1 DEF BatchCovers, Stands
  <2>3. NoneSkipped'
    BY <1>2 DEF LegInv, Coverage, NoneSkipped
  <2> QED
    BY <2>2, <2>3 DEF Coverage
<1> QED
  BY <1>5, <1>6, <1>7, <1>8, <1>9 DEF LegInv
--------------------------------------------------------------------------------
(* Delivery and restart. *)

LEMMA DeliverKeeps ==
  ASSUME LegInv, Deliver PROVE LegInv'
<1> DEFINE first == batch[1]
<1>1. /\ batch \in Seq(Delivery) /\ delivered \in Seq(Delivery)
      /\ ready_cursor \in Nat /\ last_seq \in Nat /\ batch # <<>>
  BY DEF LegInv, Types, Deliver
<1>2. /\ delivered' = Append(delivered, first) /\ ready_cursor' = first.seq
      /\ batch' = Tail(batch)
      /\ UNCHANGED <<legs, last_seq, verdicts>>
  BY <1>1 DEF Deliver, writer, classification
<1>3. /\ Len(batch) \in Nat /\ Len(batch) >= 1 /\ 1 \in DOMAIN batch
      /\ first \in Delivery /\ batch' \in Seq(Delivery)
      /\ DOMAIN batch' = 1..(Len(batch) - 1) /\ DOMAIN batch = 1..Len(batch)
      /\ \A n \in DOMAIN batch' : batch'[n] = batch[n + 1] /\ n + 1 \in DOMAIN batch
  BY <1>1, <1>2
<1>4. /\ \A n \in DOMAIN batch : batch[n] \in Delivery /\ batch[n].seq \in Nat
      /\ \A n \in DOMAIN delivered : delivered[n].seq \in Nat
  <2>1. \A n \in DOMAIN batch : batch[n] \in Delivery
    BY <1>1
  <2>2. \A n \in DOMAIN delivered : delivered[n] \in Delivery
    BY <1>1
  <2> QED
    BY <2>1, <2>2 DEF Delivery
<1>5. /\ DOMAIN delivered' = 1..(Len(delivered) + 1) /\ DOMAIN delivered = 1..Len(delivered)
      /\ Len(delivered) \in Nat
      /\ delivered'[Len(delivered) + 1] = first
      /\ \A n \in DOMAIN delivered : delivered'[n] = delivered[n]
      /\ delivered' \in Seq(Delivery)
  BY <1>1, <1>2, <1>3
<1>6. /\ \A n \in DOMAIN batch : ready_cursor < batch[n].seq /\ batch[n].seq <= last_seq
      /\ \A m, n \in DOMAIN batch : m < n => batch[m].seq < batch[n].seq
      /\ \A n \in DOMAIN delivered : delivered[n].seq <= ready_cursor
      /\ InSeqOrder
  BY DEF LegInv, Order, BatchInOrder, DeliveredBehind
<1>7. ready_cursor < first.seq /\ first.seq <= last_seq /\ first.seq \in Nat
  BY <1>3, <1>4, <1>6
<1> HIDE DEF first
<1>8. Types' /\ LegsApart'
  <2>1. Types'
    BY <1>2, <1>3, <1>5, <1>7 DEF LegInv, Types
  <2>2. LegsApart'
    BY <1>2, <1>7 DEF LegInv, LegsApart, Stands
  <2> QED
    BY <2>1, <2>2
<1>9. Order'
  <2>1. ASSUME NEW n \in DOMAIN batch'
        PROVE  first.seq < batch'[n].seq /\ batch'[n].seq <= last_seq
    <3>1. n + 1 \in DOMAIN batch /\ 1 < n + 1 /\ batch'[n] = batch[n + 1]
      BY <1>3
    <3> QED
      BY <1>3, <1>6, <3>1 DEF first
  <2>2. ASSUME NEW m \in DOMAIN batch', NEW n \in DOMAIN batch', m < n
        PROVE  batch'[m].seq < batch'[n].seq
    <3>1. /\ m + 1 \in DOMAIN batch /\ n + 1 \in DOMAIN batch /\ m + 1 < n + 1
          /\ batch'[m] = batch[m + 1] /\ batch'[n] = batch[n + 1]
      BY <1>3, <2>2
    <3> QED
      BY <1>6, <3>1
  <2>3. BatchInOrder'
    BY <1>2, <2>1, <2>2 DEF BatchInOrder
  <2>4. \A n \in DOMAIN delivered : delivered[n].seq < first.seq
    BY <1>1, <1>4, <1>6, <1>7
  <2>5. DeliveredBehind'
    BY <1>2, <1>5, <1>4, <1>7, <2>4 DEF DeliveredBehind
  <2>6. InSeqOrder'
    <3> SUFFICES ASSUME NEW m \in DOMAIN delivered', NEW n \in DOMAIN delivered', m < n
                 PROVE  delivered'[m].seq < delivered'[n].seq
      BY DEF InSeqOrder
    <3>1. m \in DOMAIN delivered /\ delivered'[m] = delivered[m]
      BY <1>5
    <3>2. CASE n \in DOMAIN delivered
      BY <1>5, <1>6, <3>1, <3>2 DEF InSeqOrder
    <3>3. CASE n = Len(delivered) + 1
      BY <1>5, <2>4, <3>1, <3>3
    <3> QED
      BY <1>5, <3>2, <3>3
  <2> QED
    BY <2>3, <2>5, <2>6 DEF Order
<1>10. Verdicts'
  <2>1. \A n \in DOMAIN batch : batch[n].payload # None => batch[n].payload \in verdicts
    BY DEF LegInv, Verdicts, BatchJudged
  <2>2. BatchJudged'
    BY <1>2, <1>3, <2>1 DEF BatchJudged
  <2>3. first.payload # None => first.payload \in verdicts
    BY <1>3, <2>1 DEF first
  <2>4. \A n \in DOMAIN delivered :
          delivered[n].payload # None => delivered[n].payload \in verdicts
    BY DEF LegInv, Verdicts, VerdictFirst
  <2>5. VerdictFirst'
    BY <1>2, <1>5, <2>3, <2>4 DEF VerdictFirst
  <2> QED
    BY <2>2, <2>5 DEF Verdicts
<1>11. \A n \in DOMAIN batch : \A l \in Leg :
         Stands(l) /\ ready_cursor < legs[l].seq /\ legs[l].seq <= batch[n].seq =>
           \E m \in DOMAIN batch : batch[m].leg = l /\ batch[m].seq = legs[l].seq
  BY DEF LegInv, Coverage, BatchCovers
<1>12. \A l \in Leg : Stands(l) => legs[l].seq \in Nat
  BY DEF LegInv, Types, Stands
<1>13. BatchCovers'
  <2>1. ASSUME NEW n \in DOMAIN batch', NEW l \in Leg, Stands(l),
               first.seq < legs[l].seq, legs[l].seq <= batch'[n].seq
        PROVE  \E m \in DOMAIN batch' : batch'[m].leg = l /\ batch'[m].seq = legs[l].seq
    <3>1. n + 1 \in DOMAIN batch /\ batch'[n] = batch[n + 1]
      BY <1>3
    <3>2. ready_cursor < legs[l].seq
      BY <1>1, <1>7, <1>12, <2>1
    <3>3. PICK m \in DOMAIN batch : batch[m].leg = l /\ batch[m].seq = legs[l].seq
      BY <1>11, <2>1, <3>1, <3>2
    <3>4. m # 1
      BY <1>7, <1>12, <2>1, <3>3 DEF first
    <3>5. m - 1 \in DOMAIN batch' /\ batch'[m - 1] = batch[m]
      BY <1>3, <3>4
    <3> QED
      BY <3>3, <3>5
  <2> QED
    BY <1>2, <2>1 DEF BatchCovers, Stands
<1>14. NoneSkipped'
  <2>1. ASSUME NEW l \in Leg, Stands(l), legs[l].seq <= first.seq
        PROVE  \E n \in DOMAIN delivered' :
                 delivered'[n].leg = l /\ delivered'[n].seq = legs[l].seq
    <3>1. CASE legs[l].seq <= ready_cursor
      <4>1. PICK n \in DOMAIN delivered :
              delivered[n].leg = l /\ delivered[n].seq = legs[l].seq
        BY <2>1, <3>1 DEF LegInv, Coverage, NoneSkipped, Stands
      <4> QED
        BY <1>5, <4>1
    <3>2. CASE ready_cursor < legs[l].seq
      <4>1. PICK m \in DOMAIN batch : batch[m].leg = l /\ batch[m].seq = legs[l].seq
        BY <1>3, <1>11, <2>1, <3>2 DEF first
      <4>2. m = 1
        <5> SUFFICES ASSUME 1 < m PROVE FALSE
          BY <1>3
        <5>1. first.seq < batch[m].seq
          BY <1>3, <1>6 DEF first
        <5> QED
          BY <1>7, <1>12, <2>1, <4>1, <5>1
      <4>3. first.leg = l /\ first.seq = legs[l].seq
        BY <4>1, <4>2 DEF first
      <4> QED
        BY <1>5, <4>3
    <3> QED
      BY <1>1, <1>12, <2>1, <3>1, <3>2
  <2> QED
    BY <1>2, <2>1 DEF NoneSkipped, Stands
<1> QED
  BY <1>8, <1>9, <1>10, <1>13, <1>14 DEF LegInv, Coverage

LEMMA RestartKeeps ==
  ASSUME LegInv, Restart PROVE LegInv'
<1>1. /\ batch' = <<>>
      /\ UNCHANGED <<legs, last_seq, ready_cursor, delivered, verdicts>>
  BY DEF Restart, writer, classification
<1>2. batch' \in Seq(Delivery) /\ DOMAIN batch' = {}
  BY <1>1
<1>3. Types' /\ LegsApart'
  BY <1>1, <1>2 DEF LegInv, Types, LegsApart, Stands
<1>4. Order'
  BY <1>1, <1>2 DEF LegInv, Order, BatchInOrder, DeliveredBehind, InSeqOrder
<1>5. Verdicts' /\ Coverage'
  BY <1>1, <1>2 DEF LegInv, Verdicts, BatchJudged, VerdictFirst, Coverage, BatchCovers, NoneSkipped
<1> QED
  BY <1>3, <1>4, <1>5 DEF LegInv

--------------------------------------------------------------------------------
(* The invariant. *)

LEMMA InitLegs == Init => LegInv
<1> SUFFICES ASSUME Init PROVE LegInv
  OBVIOUS
<1>1. /\ \A l \in Leg : legs[l] = Absent
      /\ legs \in [Leg -> [seq: Nat, payload: Content] \cup {Absent}]
      /\ last_seq = 0 /\ ready_cursor = 0 /\ verdicts = {}
      /\ batch = <<>> /\ delivered = <<>>
  BY DEF Init
<1>2. /\ batch \in Seq(Delivery) /\ delivered \in Seq(Delivery)
      /\ DOMAIN batch = {} /\ DOMAIN delivered = {}
  BY <1>1
<1>3. Types /\ LegsApart
  BY <1>1, <1>2 DEF Types, LegsApart, Stands
<1>4. Order /\ Verdicts
  BY <1>2 DEF Order, BatchInOrder, DeliveredBehind, InSeqOrder, Verdicts, BatchJudged, VerdictFirst
<1>5. Coverage
  BY <1>1, <1>2 DEF Coverage, BatchCovers, NoneSkipped, Stands
<1> QED
  BY <1>3, <1>4, <1>5 DEF LegInv

LEMMA NextKeeps == FromTheSequence /\ LegInv /\ [Next]_vars => LegInv'
<1> SUFFICES ASSUME FromTheSequence, LegInv, [Next]_vars PROVE LegInv'
  OBVIOUS
<1>1. CASE Write
  BY <1>1, WriteKeeps
<1>2. CASE \E p \in Payload : Classify(p)
  BY <1>2, ClassifyKeeps
<1>3. CASE Fetch
  BY <1>3, FetchKeeps
<1>4. CASE Deliver
  BY <1>4, DeliverKeeps
<1>5. CASE Restart
  BY <1>5, RestartKeeps
<1>6. CASE UNCHANGED vars
  <2>1. UNCHANGED <<legs, last_seq, verdicts, ready_cursor, batch, delivered>>
    BY <1>6 DEF vars, writer, classification, readiness
  <2>2. Types' /\ LegsApart' /\ Order'
    BY <2>1 DEF LegInv, Types, LegsApart, Stands, Order, BatchInOrder, DeliveredBehind, InSeqOrder
  <2>3. Verdicts' /\ Coverage'
    BY <2>1 DEF LegInv, Verdicts, BatchJudged, VerdictFirst, Coverage, BatchCovers,
                NoneSkipped, Stands
  <2> QED
    BY <2>2, <2>3 DEF LegInv
<1> QED
  BY <1>1, <1>2, <1>3, <1>4, <1>5, <1>6 DEF Next, Step

LEMMA LegInvHolds == ASSUME FromTheSequence PROVE Spec => []LegInv
<1>1. LegInv /\ [Next]_vars => LegInv'
  BY NextKeeps
<1> QED
  BY InitLegs, <1>1, PTL DEF Spec

(* Over all batches, re-derivations and restarts, deliveries follow seq        *)
(* strictly, so no leg is handed over twice (leg_ready/driver.py, "the durable *)
(* cursor is the complete exactly-once record"), provided that the numbers     *)
(* come from the sequence.                                                     *)
THEOREM DeliveredInOrder == ASSUME FromTheSequence PROVE Spec => []InSeqOrder
<1>1. LegInv => InSeqOrder
  BY DEF LegInv, Order
<1> QED
  BY LegInvHolds, <1>1, PTL

(* No payload is acted on before classification has judged it, although the    *)
(* batch that brings it was read some transactions ago.                        *)
THEOREM JudgedFirst == ASSUME FromTheSequence PROVE Spec => []VerdictFirst
<1>1. LegInv => VerdictFirst
  BY DEF LegInv, Verdicts
<1> QED
  BY LegInvHolds, <1>1, PTL

(* The cursor leaves no leg behind it undelivered (leg_ready/                  *)
(* readiness_cursor.py, "no re-delivery, no skip"), provided that the numbers  *)
(* come from the sequence: supplied numbers break it (LegReady_graph.cfg).     *)
THEOREM NoneLeftBehind == ASSUME FromTheSequence PROVE Spec => []NoneSkipped
<1>1. LegInv => NoneSkipped
  BY DEF LegInv, Coverage
<1> QED
  BY LegInvHolds, <1>1, PTL

--------------------------------------------------------------------------------
(* Requests and responses. *)

(* A response stands on its request, which has the smaller number. *)
Paired ==
  \A i \in Interaction : Stands(Response(i)) =>
    Stands(Request(i)) /\ legs[Request(i)].seq < legs[Response(i)].seq

(* The request of a response in the batch was delivered, or is further ahead in *)
(* the batch, whatever became of the rows since.                               *)
BatchPaired ==
  \A n \in DOMAIN batch : batch[n].leg[2] = "response" =>
    \/ \E m \in 1..n - 1 : batch[m].leg = Request(batch[n].leg[1])
    \/ \E m \in DOMAIN delivered : delivered[m].leg = Request(batch[n].leg[1])

PairInv == Paired /\ BatchPaired /\ RequestFirst

LEMMA WritePairs ==
  ASSUME FromTheSequence, LegInv, Paired, Write PROVE Paired'
<1>1. legs \in [Leg -> [seq: Nat, payload: Content] \cup {Absent}] /\ last_seq \in Nat
  BY DEF LegInv, Types
<1>2. \A i \in Interaction : Request(i) \in Leg /\ Response(i) \in Leg
  BY DEF Leg, Request, Response
<1>3. \A i, j \in Interaction : /\ Request(i) # Response(j)
                                /\ Request(i) = Request(j) => i = j
                                /\ Response(i) = Response(j) => i = j
  BY DEF Request, Response
<1>4. ASSUME NEW i \in Interaction, Withdraw(i) PROVE Paired'
  <2>1. legs' = [l \in Leg |->
                   IF l \in {Request(i), Response(i)} THEN Absent ELSE legs[l]]
    BY <1>4 DEF Withdraw
  <2>2. ASSUME NEW j \in Interaction, Stands(Response(j))'
        PROVE  legs'[Request(j)] = legs[Request(j)] /\ legs'[Response(j)] = legs[Response(j)]
    <3>1. Response(j) # Response(i)
      <4> SUFFICES ASSUME Response(j) = Response(i) PROVE FALSE
        OBVIOUS
      <4>1. legs'[Response(j)] = Absent
        BY <1>2, <2>1
      <4> QED
        BY <2>2, <4>1 DEF Stands
    <3>2. Request(j) # Request(i)
      BY <1>3, <3>1
    <3> QED
      BY <1>2, <1>3, <2>1, <3>1, <3>2
  <2> QED
    BY <2>2 DEF Paired, Stands
<1>5. ASSUME NEW i \in Interaction, NEW request \in Content,
             NEW response \in Content \cup {Absent}, Derive(i, request, response)
      PROVE  Paired'
  <2>1. /\ legs' = [l \in Leg |->
                      IF l = Request(i) THEN Stored(i, l, request)
                      ELSE IF l = Response(i) /\ response # Absent
                      THEN Stored(i, l, response)
                      ELSE legs[l]]
        /\ response = Absent => legs[Response(i)] = Absent
        /\ Ordinal[i] = None
    BY <1>5 DEF Derive, FromTheSequence
  <2>2. ASSUME NEW j \in Interaction, j # i, Stands(Response(j))'
        PROVE  Stands(Request(j))' /\ legs'[Request(j)].seq < legs'[Response(j)].seq
    <3>0. Request(j) # Request(i) /\ Response(j) # Response(i)
      BY <1>3, <2>2
    <3>1. legs'[Request(j)] = legs[Request(j)] /\ legs'[Response(j)] = legs[Response(j)]
      BY <1>2, <1>3, <2>1, <3>0
    <3> QED
      BY <2>2, <3>1 DEF Paired, Stands
  <2>3. ASSUME Stands(Response(i))'
        PROVE  Stands(Request(i))' /\ legs'[Request(i)].seq < legs'[Response(i)].seq
    <3>1. response # Absent
      <4> SUFFICES ASSUME response = Absent PROVE FALSE
        OBVIOUS
      <4>1. legs'[Response(i)] = Absent
        BY <1>2, <1>3, <2>1
      <4> QED
        BY <2>3, <4>1 DEF Stands
    <3>2. /\ legs'[Request(i)] = Stored(i, Request(i), request)
          /\ legs'[Response(i)] = Stored(i, Response(i), response)
      BY <1>2, <1>3, <2>1, <3>1
    <3>3. /\ legs'[Request(i)].seq
               = IF legs[Request(i)] = Absent THEN last_seq + 1 ELSE legs[Request(i)].seq
          /\ legs'[Response(i)].seq
               = IF legs[Response(i)] = Absent THEN last_seq + 2
                 ELSE legs[Response(i)].seq
      BY <1>1, <1>3, <2>1, <3>2 DEF Stored, NewSeq
    <3>4. /\ Stands(Request(i)) =>
               legs[Request(i)].seq \in Nat /\ legs[Request(i)].seq <= last_seq
          /\ Stands(Response(i)) =>
               Stands(Request(i)) /\ legs[Request(i)].seq < legs[Response(i)].seq
      BY <1>1, <1>2 DEF Paired, Stands, LegInv, LegsApart
    <3>5. legs'[Request(i)].seq < legs'[Response(i)].seq
      <4>1. CASE Stands(Response(i))
        BY <3>3, <3>4, <4>1 DEF Stands
      <4>2. CASE ~Stands(Response(i)) /\ Stands(Request(i))
        BY <1>1, <3>3, <3>4, <4>2 DEF Stands
      <4>3. CASE ~Stands(Response(i)) /\ ~Stands(Request(i))
        BY <1>1, <3>3, <4>3 DEF Stands
      <4> QED
        BY <4>1, <4>2, <4>3
    <3>6. Stands(Request(i))'
      <4>1. /\ legs'[Request(i)].seq \in Nat
            /\ legs'[Request(i)] = [seq |-> legs'[Request(i)].seq, payload |-> request]
        BY <1>1, <3>2, <3>3, <3>4 DEF Stored, Stands
      <4> QED
        BY <4>1, LegReadyAssumption DEF Stands, Content
    <3> QED
      BY <3>5, <3>6
  <2> QED
    BY <2>2, <2>3 DEF Paired
<1> QED
  BY <1>4, <1>5 DEF Write

(* What a batch takes up has its request before it, or delivered already.      *)
LEMMA FetchPairs ==
  ASSUME LegInv, Paired, Fetch PROVE BatchPaired'
<1>0. PICK k \in Nat : \E leg \in [1..k -> Past] :
        /\ batch' = [n \in 1..k |-> Item(leg[n])]
        /\ \A n \in 1..k : Ready(leg[n])
        /\ \A m, n \in 1..k : m < n => legs[leg[m]].seq < legs[leg[n]].seq
        /\ \A n \in 1..k : \A l \in Past :
             legs[l].seq <= legs[leg[n]].seq => \E m \in 1..k : leg[m] = l
  BY FetchFacts
<1>1. PICK leg \in [1..k -> Past] :
        /\ batch' = [n \in 1..k |-> Item(leg[n])]
        /\ \A m, n \in 1..k : m < n => legs[leg[m]].seq < legs[leg[n]].seq
        /\ \A n \in 1..k : \A l \in Past :
             legs[l].seq <= legs[leg[n]].seq => \E m \in 1..k : leg[m] = l
  BY <1>0
<1>2. /\ DOMAIN batch' = 1..k /\ \A n \in 1..k : batch'[n].leg = leg[n]
      /\ delivered' = delivered
  BY <1>1 DEF Item, Fetch
<1>3. /\ ready_cursor \in Nat
      /\ \A l \in Leg : Stands(l) => legs[l].seq \in Nat
  BY DEF LegInv, Types, Stands
<1> SUFFICES ASSUME NEW n \in 1..k, leg[n][2] = "response"
             PROVE  \/ \E m \in 1..n - 1 : leg[m] = Request(leg[n][1])
                    \/ \E m \in DOMAIN delivered : delivered[m].leg = Request(leg[n][1])
  BY <1>2 DEF BatchPaired
<1> DEFINE i == leg[n][1]
<1>4. /\ leg[n] \in Leg /\ Stands(leg[n]) /\ i \in Interaction
      /\ leg[n] = Response(i)
  BY DEF Past, Stands, Leg, Response
<1>5. /\ Request(i) \in Leg /\ Stands(Request(i))
      /\ legs[Request(i)].seq < legs[leg[n]].seq
  BY <1>4 DEF Paired, Leg, Request
<1>6. CASE legs[Request(i)].seq <= ready_cursor
  BY <1>5, <1>6 DEF LegInv, Coverage, NoneSkipped, Stands
<1>7. CASE ready_cursor < legs[Request(i)].seq
  <2>1. Request(i) \in Past
    BY <1>3, <1>5, <1>7 DEF Past, Stands
  <2>2. PICK m \in 1..k : leg[m] = Request(i)
    BY <1>1, <1>3, <1>4, <1>5, <2>1
  <2>3. ~(n <= m)
    <3>1. legs[leg[m]].seq < legs[leg[n]].seq
      BY <1>5, <2>2
    <3>2. n < m => legs[leg[n]].seq < legs[leg[m]].seq
      BY <1>1
    <3> QED
      BY <1>3, <1>4, <1>5, <2>2, <3>1, <3>2
  <2> QED
    BY <2>2, <2>3
<1> QED
  BY <1>3, <1>5, <1>6, <1>7

LEMMA DeliverPairs ==
  ASSUME LegInv, BatchPaired, RequestFirst, Deliver PROVE BatchPaired' /\ RequestFirst'
<1> DEFINE first == batch[1]
           last == Len(delivered) + 1
<1>1. /\ batch \in Seq(Delivery) /\ delivered \in Seq(Delivery) /\ batch # <<>>
      /\ delivered' = Append(delivered, first) /\ batch' = Tail(batch)
  BY DEF LegInv, Types, Deliver
<1>2. /\ Len(batch) \in Nat /\ 1 \in DOMAIN batch /\ DOMAIN batch = 1..Len(batch)
      /\ DOMAIN batch' = 1..(Len(batch) - 1)
      /\ \A n \in DOMAIN batch' : batch'[n] = batch[n + 1] /\ n + 1 \in DOMAIN batch
  BY <1>1
<1>3. /\ Len(delivered) \in Nat /\ DOMAIN delivered = 1..Len(delivered)
      /\ DOMAIN delivered' = 1..last /\ delivered'[last] = first
      /\ \A n \in DOMAIN delivered : delivered'[n] = delivered[n]
  BY <1>1
<1> HIDE DEF first
<1>4. BatchPaired'
  <2> SUFFICES ASSUME NEW n \in DOMAIN batch', batch'[n].leg[2] = "response"
               PROVE  \/ \E m \in 1..n - 1 : batch'[m].leg = Request(batch'[n].leg[1])
                      \/ \E m \in DOMAIN delivered' :
                           delivered'[m].leg = Request(batch'[n].leg[1])
    BY DEF BatchPaired
  <2>1. n + 1 \in DOMAIN batch /\ batch'[n] = batch[n + 1] /\ n \in 1..(Len(batch) - 1)
    BY <1>2
  <2>2. \/ \E m \in 1..n : batch[m].leg = Request(batch[n + 1].leg[1])
        \/ \E m \in DOMAIN delivered : delivered[m].leg = Request(batch[n + 1].leg[1])
    BY <2>1 DEF BatchPaired
  <2>3. CASE \E m \in 1..n : batch[m].leg = Request(batch[n + 1].leg[1])
    <3>1. PICK m \in 1..n : batch[m].leg = Request(batch[n + 1].leg[1])
      BY <2>3
    <3>2. CASE m = 1
      BY <1>3, <2>1, <3>1, <3>2 DEF first
    <3>3. CASE m # 1
      <4>1. m - 1 \in 1..n - 1 /\ batch'[m - 1] = batch[m]
        BY <1>2, <2>1, <3>3
      <4> QED
        BY <2>1, <3>1, <4>1
    <3> QED
      BY <3>2, <3>3
  <2>4. CASE \E m \in DOMAIN delivered : delivered[m].leg = Request(batch[n + 1].leg[1])
    BY <1>3, <2>1, <2>4
  <2> QED
    BY <2>2, <2>3, <2>4
<1>5. RequestFirst'
  <2> SUFFICES ASSUME NEW n \in DOMAIN delivered', delivered'[n].leg[2] = "response"
               PROVE  \E m \in 1..n - 1 : delivered'[m].leg = Request(delivered'[n].leg[1])
    BY DEF RequestFirst
  <2>1. CASE n = last
    <3>1. \E m \in DOMAIN delivered : delivered[m].leg = Request(first.leg[1])
      BY <1>2, <1>3, <2>1 DEF BatchPaired, first
    <3> QED
      BY <1>3, <2>1, <3>1
  <2>2. CASE n \in DOMAIN delivered
    <3>1. PICK m \in 1..n - 1 : delivered[m].leg = Request(delivered[n].leg[1])
      BY <1>3, <2>2 DEF RequestFirst
    <3> QED
      BY <1>3, <2>2, <3>1
  <2> QED
    BY <1>3, <2>1, <2>2
<1> QED
  BY <1>4, <1>5

LEMMA NextPairs == FromTheSequence /\ LegInv /\ PairInv /\ [Next]_vars => PairInv'
<1> SUFFICES ASSUME FromTheSequence, LegInv, PairInv, [Next]_vars PROVE PairInv'
  OBVIOUS
<1> USE DEF PairInv
<1>1. CASE Write
  <2>1. UNCHANGED <<batch, delivered>>
    BY <1>1, WriteFacts DEF LegInv, readiness
  <2> QED
    BY <1>1, <2>1, WritePairs DEF BatchPaired, RequestFirst
<1>2. CASE \E p \in Payload : Classify(p)
  <2>1. UNCHANGED <<legs, batch, delivered>>
    BY <1>2 DEF Classify, writer, readiness
  <2> QED
    BY <2>1 DEF Paired, Stands, BatchPaired, RequestFirst
<1>3. CASE Fetch
  <2>1. UNCHANGED <<legs, delivered>>
    BY <1>3 DEF Fetch, writer
  <2> QED
    BY <1>3, <2>1, FetchPairs DEF Paired, Stands, RequestFirst
<1>4. CASE Deliver
  <2>1. UNCHANGED legs
    BY <1>4 DEF Deliver, writer
  <2> QED
    BY <1>4, <2>1, DeliverPairs DEF Paired, Stands
<1>5. CASE Restart
  <2>1. UNCHANGED <<legs, delivered>> /\ DOMAIN batch' = {}
    BY <1>5 DEF Restart, writer
  <2> QED
    BY <2>1 DEF Paired, Stands, BatchPaired, RequestFirst
<1>6. CASE UNCHANGED vars
  <2>1. UNCHANGED <<legs, batch, delivered>>
    BY <1>6 DEF vars, writer, readiness
  <2> QED
    BY <2>1 DEF Paired, Stands, BatchPaired, RequestFirst
<1> QED
  BY <1>1, <1>2, <1>3, <1>4, <1>5, <1>6 DEF Next, Step

(* A response is handed over only after its request (ADR-0027, "intra-         *)
(* interaction ordering"), also when the interaction was withdrawn and written *)
(* again with new numbers while its legs waited in a batch.                    *)
THEOREM RequestsFirst == ASSUME FromTheSequence PROVE Spec => []RequestFirst
<1>1. Init => PairInv
  <2> SUFFICES ASSUME Init PROVE PairInv
    OBVIOUS
  <2>1. /\ \A i \in Interaction : ~Stands(Response(i))
        /\ DOMAIN batch = {} /\ DOMAIN delivered = {}
    BY DEF Init, Stands, Leg, Response
  <2> QED
    BY <2>1 DEF PairInv, Paired, BatchPaired, RequestFirst
<1>2. LegInv /\ PairInv /\ [Next]_vars => PairInv'
  BY NextPairs
<1>3. PairInv => RequestFirst
  BY DEF PairInv
<1> QED
  BY LegInvHolds, <1>1, <1>2, <1>3, PTL DEF Spec
================================================================================
