--------------------------- MODULE EntityReady_proofs ---------------------------
(****************************************************************************)
(* For any spans, facts, arrival order, batch size and number of restarts:   *)
(* the entity consumer hands no row over twice, no interaction names an      *)
(* entity or a parent that is gone, and the interactions of a trace whose    *)
(* spans are all processed do not depend on the order they arrived in.       *)
(****************************************************************************)
EXTENDS EntityReady, NumberFacts

(* Entities whose rows stay. *)
Lasting == DOMAIN entities \ Provisional

(* What each item in hand says is still so, and what was handed over lies      *)
(* behind the cursor and is not in hand.                                       *)
DeliveryInv ==
  /\ spans \in [Span -> Nat]
  /\ \A k \in DOMAIN entities : entities[k] \in Nat
  /\ entity_cursor \in Nat
  /\ \A i \in batch :
       /\ i = <<i[1], i[2]>> /\ i[2] \in Nat /\ i[2] >= entity_cursor
       /\ i[1] \notin Provisional =>
            i[1] \in DOMAIN entities /\ i[2] = entities[i[1]] /\ i[1] \notin delivered
  /\ \A k \in delivered \ Provisional :
       k \in DOMAIN entities /\ entities[k] <= entity_cursor
  /\ redelivered \subseteq Provisional

LEMMA InitDelivery == Init => DeliveryInv
BY DEF Init, InitReconcile, DeliveryInv

(* The seq that _upsert_entity gives a new row is that of a span.              *)
LEMMA MintedSeq ==
  ASSUME spans \in [Span -> Nat],
         NEW namings, \A n \in namings : n[1] \in Span,
         NEW place \in [Minting(namings) -> Nat],
         NEW k \in Named(namings), k \notin DOMAIN entities
  PROVE  Upsert(namings, place)[k] \in Nat
<1> DEFINE by == NamedBy(k, namings)
<1>1. by # {} /\ by \subseteq Minting(namings) /\ by \subseteq Span
  BY DEF NamedBy, Named, Minting
<1> DEFINE Places == {place[a] : a \in by}
<1>2. Places \in SUBSET Nat /\ Places # {}
  <2>1. \A a \in by : place[a] \in Nat
    BY <1>1
  <2> QED
    BY <1>1, <2>1
<1>3. PICK p \in Places : \A q \in Places : p <= q
  <2> HIDE DEF Places
  <2> QED
    BY <1>2, SmallestOf
<1>4. \E a \in by : \A b \in by : place[a] <= place[b]
  BY <1>3
<1>5. (CHOOSE a \in by : \A b \in by : place[a] <= place[b]) \in Span
  BY <1>1, <1>4
<1> QED
  BY <1>5 DEF Upsert

(* A derivation keeps the row of every entity that is not provisional.         *)
LEMMA RowsStay ==
  ASSUME DeliveryInv, NEW s \in Span, Reconcile(s)
  PROVE  /\ \A k \in DOMAIN entities' : entities'[k] \in Nat
         /\ \A k \in Lasting : k \in DOMAIN entities' /\ entities'[k] = entities[k]
<1> DEFINE want == Want(Stored(TraceOf(s)), spans)
           namings == Namings(want)
<1>1. PICK place \in [Minting(namings) -> 1..Cardinality(Minting(namings))] :
        entities' = Retire(Upsert(namings, place), interactions', want)
  BY DEF Reconcile
<1>2. \A n \in namings : n[1] \in Span
  <2>1. DOMAIN want \subseteq Span
    BY DEF Want, Anchors, Outbound, Inbound, Requests, Stored
  <2> HIDE DEF want
  <2> QED
    BY <2>1 DEF Namings
<1>3. place \in [Minting(namings) -> Nat]
  <2> HIDE DEF namings
  <2> QED
    BY <1>1
<1> DEFINE rows == Upsert(namings, place)
<1> HIDE DEF namings, want
<1>4. DOMAIN rows = DOMAIN entities \cup Named(namings)
  BY DEF Upsert
<1>5. \A k \in DOMAIN entities : rows[k] = entities[k]
  BY DEF Upsert
<1>6. \A k \in DOMAIN rows : rows[k] \in Nat
  <2> SUFFICES ASSUME NEW k \in DOMAIN rows PROVE rows[k] \in Nat
    OBVIOUS
  <2>1. CASE k \in DOMAIN entities
    BY <1>5, <2>1 DEF DeliveryInv
  <2>2. CASE k \notin DOMAIN entities
    BY <1>2, <1>3, <1>4, <2>2, MintedSeq DEF DeliveryInv
  <2> QED
    BY <2>1, <2>2
<1> HIDE DEF rows
<1>7. /\ DOMAIN entities' \subseteq DOMAIN rows
      /\ \A k \in DOMAIN entities' : entities'[k] = rows[k]
      /\ \A k \in DOMAIN rows : k \notin Provisional => k \in DOMAIN entities'
  BY <1>1 DEF Retire, rows
<1> QED
  BY <1>4, <1>5, <1>6, <1>7 DEF Lasting

LEMMA NextDelivery == DeliveryInv /\ [Next]_vars => DeliveryInv'
<1> SUFFICES ASSUME DeliveryInv, [Next]_vars PROVE DeliveryInv'
  OBVIOUS
<1>1. CASE UNCHANGED vars
  BY <1>1 DEF vars, reconcile, consumer, DeliveryInv
<1>2. ASSUME NEW s \in Span, Arrive(s), UNCHANGED consumer PROVE DeliveryInv'
  <2>1. LastSeq \in Nat
    <3>1. IsFiniteSet({r \in Span : spans[r] > 0})
      BY EntityReadyAssumption, FS_Subset
    <3> QED
      BY <3>1, FS_CardinalityType DEF LastSeq
  <2> QED
    BY <1>2, <2>1 DEF Arrive, consumer, DeliveryInv
<1>3. ASSUME NEW s \in Span, Reconcile(s), UNCHANGED consumer PROVE DeliveryInv'
  <2>1. UNCHANGED <<spans, entity_cursor, batch, delivered, redelivered>>
    BY <1>3 DEF Reconcile, consumer
  <2>2. /\ \A k \in DOMAIN entities' : entities'[k] \in Nat
        /\ \A k \in Lasting : k \in DOMAIN entities' /\ entities'[k] = entities[k]
    BY <1>3, RowsStay
  <2> QED
    BY <2>1, <2>2 DEF DeliveryInv, Lasting
<1>4. CASE Fetch
  <2>1. /\ batch' \subseteq New
        /\ UNCHANGED <<spans, entities, entity_cursor, delivered, redelivered>>
    BY <1>4 DEF Fetch, reconcile
  <2>2. ASSUME NEW i \in batch'
        PROVE  /\ i = <<i[1], i[2]>> /\ i[2] \in Nat /\ i[2] > entity_cursor
               /\ i[1] \in DOMAIN entities /\ i[2] = entities[i[1]]
    BY <2>1 DEF New, DeliveryInv
  <2>3. \A i \in batch' : i[1] \notin Provisional => i[1] \notin delivered
    BY <2>2 DEF DeliveryInv
  <2> QED
    BY <2>1, <2>2, <2>3 DEF DeliveryInv
<1>5. ASSUME NEW i \in batch, Deliver(i) PROVE DeliveryInv'
  <2>1. /\ \A j \in batch : i[2] <= j[2]
        /\ delivered' = delivered \cup {i[1]}
        /\ redelivered' = redelivered \cup (delivered \cap {i[1]})
        /\ entity_cursor' = i[2] /\ batch' = batch \ {i}
        /\ UNCHANGED <<spans, entities>>
    BY <1>5 DEF Deliver, HandOver, reconcile
  <2>2. entity_cursor' \in Nat /\ entity_cursor <= entity_cursor'
    BY <2>1 DEF DeliveryInv
  <2>3. ASSUME NEW j \in batch'
        PROVE  /\ j = <<j[1], j[2]>> /\ j[2] \in Nat /\ j[2] >= entity_cursor'
               /\ j[1] \notin Provisional =>
                    /\ j[1] \in DOMAIN entities /\ j[2] = entities[j[1]]
                    /\ j[1] \notin delivered'
    <3>1. j # i /\ j = <<j[1], j[2]>> /\ i = <<i[1], i[2]>>
      BY <2>1 DEF DeliveryInv
    <3>2. j[1] \notin Provisional => j[1] # i[1]
      BY <2>1, <3>1 DEF DeliveryInv
    <3> QED
      BY <2>1, <3>1, <3>2 DEF DeliveryInv
  <2>4. ASSUME NEW k \in delivered' \ Provisional
        PROVE  k \in DOMAIN entities /\ entities[k] <= entity_cursor'
    <3>1. CASE k = i[1]
      BY <2>1, <3>1 DEF DeliveryInv
    <3>2. CASE k \in delivered
      BY <2>2, <3>2 DEF DeliveryInv
    <3> QED
      BY <2>1, <3>1, <3>2
  <2>5. redelivered' \subseteq Provisional
    BY <2>1 DEF DeliveryInv
  <2> QED
    BY <2>1, <2>2, <2>3, <2>4, <2>5 DEF DeliveryInv
<1>6. CASE Restart
  BY <1>6 DEF Restart, reconcile, DeliveryInv
<1> QED
  BY <1>1, <1>2, <1>3, <1>4, <1>5, <1>6 DEF Next, NextReconcile

(* However traces are derived again and the consumer restarts, only a retired  *)
(* and newly minted entity is handed over again.                               *)
THEOREM NeverRedelivered == Spec => []DeliveredAtMostOnce
<1>1. DeliveryInv => DeliveredAtMostOnce
  BY DEF DeliveryInv, DeliveredAtMostOnce
<1> QED
  BY <1>1, InitDelivery, NextDelivery, PTL DEF Spec

--------------------------------------------------------------------------------

EndpointsInv ==
  /\ DOMAIN interactions = Span
  /\ EndpointsExist

(* A derivation writes the entities that its rows name before the rows, and    *)
(* retires only what no row of any trace names.                                *)
LEMMA NextEndpoints == EndpointsInv /\ [Next]_vars => EndpointsInv'
<1> SUFFICES ASSUME EndpointsInv, [Next]_vars PROVE EndpointsInv'
  OBVIOUS
<1>1. ASSUME UNCHANGED <<interactions, entities>> PROVE EndpointsInv'
  BY <1>1 DEF EndpointsInv, EndpointsExist, Endpoints
<1>2. ASSUME NEW s \in Span, Reconcile(s) PROVE EndpointsInv'
  <2> DEFINE want == Want(Stored(TraceOf(s)), spans)
             namings == Namings(want)
  <2>1. PICK place :
          /\ interactions' = Rewrite(TraceOf(s), want)
          /\ entities' = Retire(Upsert(namings, place), interactions', want)
    BY <1>2 DEF Reconcile
  <2> DEFINE rows == Upsert(namings, place)
  <2> HIDE DEF want
  <2>2. DOMAIN interactions' = Span
    BY <2>1 DEF Rewrite
  <2>3. Endpoints(interactions') \subseteq Endpoints(interactions) \cup Named(namings)
    <3> SUFFICES ASSUME NEW a \in Span, interactions'[a] # Absent,
                        NEW e \in {interactions'[a].caller, interactions'[a].callee}
                 PROVE  e \in Endpoints(interactions) \cup Named(namings)
      BY <2>2 DEF Endpoints
    <3>1. CASE a \in DOMAIN want
      <4>1. interactions'[a] = want[a]
        BY <2>1, <3>1 DEF Rewrite
      <4>2. <<a, e>> \in namings
        BY <3>1, <4>1 DEF Namings
      <4> HIDE DEF namings
      <4>3. e \in Named(namings)
        BY <4>2 DEF Named
      <4> QED
        BY <4>3
    <3>2. CASE a \notin DOMAIN want
      <4>1. interactions'[a] = interactions[a]
        BY <2>1, <3>2 DEF Rewrite
      <4> QED
        BY <4>1 DEF Endpoints, EndpointsInv
    <3> QED
      BY <3>1, <3>2
  <2>4. DOMAIN rows = DOMAIN entities \cup Named(namings)
    BY DEF Upsert
  <2>5. \A k \in DOMAIN rows : k \in Endpoints(interactions') => k \in DOMAIN entities'
    BY <2>1 DEF Retire
  <2> QED
    BY <2>2, <2>3, <2>4, <2>5 DEF EndpointsInv, EndpointsExist
<1> QED
  BY <1>1, <1>2 DEF Next, NextReconcile, Arrive, Fetch, Deliver, Restart, vars,
     reconcile, consumer

(* Whatever entities other traces retire, every stored interaction names       *)
(* entities that have rows.                                                    *)
THEOREM NoDanglingEndpoint == Spec => []EndpointsExist
<1>1. Init => EndpointsInv
  BY DEF Init, InitReconcile, EndpointsInv, EndpointsExist, Endpoints
<1>2. EndpointsInv => EndpointsExist
  BY DEF EndpointsInv
<1> QED
  BY <1>1, <1>2, NextEndpoints, PTL DEF Spec

--------------------------------------------------------------------------------
(* What plan_trace returns. *)

LEMMA FactsOf ==
  ASSUME NEW s \in Span
  PROVE  /\ Facts[s].protocol \in {"a2a", "mcp", "inference", "http"}
         /\ Facts[s].pod \in Names /\ Facts[s].peer \in Names /\ Facts[s].client \in Names
         /\ CalleeKind(s) \in {"agent", "tool", "llm", "service"}
<1>1. Facts[s] \in SpanFacts({Facts[r].trace : r \in Span}, Names)
  BY FactsAssumption
<1>2. Facts[s].protocol \in {"a2a", "mcp", "inference", "http"}
  BY <1>1 DEF SpanFacts
<1> QED
  BY <1>1, <1>2 DEF CalleeKind, Names

(* The nearest target is a target. *)
LEMMA NearestIsTarget ==
  ASSUME NEW s, NEW targets, NEW S
  PROVE  Nearest(s, targets, S) \in targets \cup {None}
<1> DEFINE up[n \in 0..Cardinality(S) + 1] ==
             IF n = 0 THEN s
             ELSE LET r == up[n - 1] IN IF r \in S THEN Facts[r].parent ELSE None
           hits == {n \in 1..Cardinality(S) + 1 : up[n] \in targets}
           first == CHOOSE n \in hits : \A m \in hits : n <= m
<1>1. Nearest(s, targets, S) = IF hits = {} THEN None ELSE up[first]
  BY DEF Nearest
<1> HIDE DEF up
<1>2. ASSUME hits # {} PROVE first \in hits
  <2>1. hits \in SUBSET Nat
    OBVIOUS
  <2>2. \E n \in hits : \A m \in hits : n <= m
    <3> HIDE DEF hits
    <3> QED
      BY <1>2, <2>1, SmallestOf
  <2> QED
    BY <2>2
<1> QED
  BY <1>1, <1>2

(* Every row wanted is a row, of a span that is stored, and its parent is      *)
(* wanted too.                                                                 *)
LEMMA WantedRows ==
  ASSUME NEW S \in SUBSET Span, NEW seq \in [Span -> Nat], NEW a \in DOMAIN Want(S, seq)
  PROVE  /\ a \in S /\ Want(S, seq)[a] # Absent
         /\ Want(S, seq)[a].parent \in DOMAIN Want(S, seq) \cup {None}
<1> DEFINE anchors == Anchors(S)
           echoes == Echoes(a, anchors, S)
           row == Row(a, anchors, S, seq)
<1>1. DOMAIN Want(S, seq) = anchors /\ Want(S, seq)[a] = row /\ a \in anchors
  BY DEF Want
<1>2. anchors \subseteq S /\ a \in Span
  BY <1>1 DEF Anchors, Outbound, Inbound, Requests
<1>3. echoes # {} => Echo(echoes, seq) \in Span
  <2> DEFINE Seqs == {seq[s] : s \in echoes}
  <2>1. echoes \subseteq Span
    BY DEF Echoes, Inbound, Requests
  <2>2. ASSUME echoes # {} PROVE \E s \in echoes : \A r \in echoes : seq[s] <= seq[r]
    <3>1. Seqs \in SUBSET Nat /\ Seqs # {}
      BY <2>1, <2>2
    <3>2. \E m \in Seqs : \A n \in Seqs : m <= n
      <4> HIDE DEF Seqs
      <4> QED
        BY <3>1, SmallestOf
    <3> QED
      BY <3>2
  <2> HIDE DEF echoes
  <2> QED
    BY <2>1, <2>2 DEF Echo
<1>4. Caller(a, S) \in EntityKey
  <2>1. SelfKind(Facts[a].pod, S) \in {"client", "agent", "tool", "llm", "service"}
    <3> DEFINE served == {CalleeKind(s) : s \in {r \in Inbound(S) : Facts[r].pod = Facts[a].pod}}
    <3>1. served \subseteq {"agent", "tool", "llm", "service"}
      BY FactsOf DEF Inbound, Requests
    <3>2. (CHOOSE kind \in served : TRUE) \in served \/ served = {}
      OBVIOUS
    <3> HIDE DEF served
    <3>3. SelfKind(Facts[a].pod, S) = IF \E kind \in served : served = {kind}
            THEN CHOOSE kind \in served : TRUE ELSE "agent"
      BY DEF SelfKind, served
    <3> QED
      BY <3>1, <3>2, <3>3
  <2> QED
    BY <1>2, <2>1, FactsOf DEF Caller, EntityKey
<1>5. Callee(a, echoes, seq) \in EntityKey
  <2> HIDE DEF echoes
  <2> QED
    BY <1>2, <1>3, FactsOf DEF Callee, EntityKey
<1>6. row.parent \in anchors \cup {None}
  BY NearestIsTarget DEF Row
<1>7. row \in [parent: Span \cup {None}, caller: EntityKey, callee: EntityKey,
              answered: BOOLEAN]
  <2>1. Nearest(a, anchors, S) \in Span \cup {None}
    BY <1>2, NearestIsTarget
  <2>2. Answered(a, S) \in BOOLEAN
    BY DEF Answered
  <2> QED
    BY <1>4, <1>5, <2>1, <2>2 DEF Row
<1>8. row # Absent
  BY <1>7, EntityReadyAssumption
<1> QED
  BY <1>1, <1>2, <1>6, <1>8

--------------------------------------------------------------------------------

ParentsInv ==
  /\ DOMAIN interactions = Span
  /\ spans \in [Span -> Nat]
  /\ \A s \in Span : interactions[s] # Absent => interactions[s].parent \in Span \cup {None}
  /\ ParentsLive

LEMMA NextParents == ParentsInv /\ [Next]_vars => ParentsInv'
<1> SUFFICES ASSUME ParentsInv, [Next]_vars PROVE ParentsInv'
  OBVIOUS
<1>1. ASSUME UNCHANGED <<interactions, spans>> PROVE ParentsInv'
  BY <1>1 DEF ParentsInv, ParentsLive
<1>2. ASSUME NEW s \in Span, Arrive(s) PROVE ParentsInv'
  <2>1. LastSeq \in Nat
    <3>1. IsFiniteSet({r \in Span : spans[r] > 0})
      BY EntityReadyAssumption, FS_Subset
    <3> QED
      BY <3>1, FS_CardinalityType DEF LastSeq
  <2> QED
    BY <1>2, <2>1 DEF Arrive, ParentsInv, ParentsLive
<1>3. ASSUME NEW s \in Span, Reconcile(s) PROVE ParentsInv'
  <2> DEFINE t == TraceOf(s)
             want == Want(Stored(t), spans)
  <2>1. interactions' = Rewrite(t, want) /\ UNCHANGED spans
    BY <1>3 DEF Reconcile
  <2>2. Stored(t) \in SUBSET Span /\ \A a \in Stored(t) : TraceOf(a) = t
    BY DEF Stored
  <2>3. \A a \in DOMAIN want : /\ a \in Span /\ TraceOf(a) = t /\ want[a] # Absent
                               /\ want[a].parent \in DOMAIN want \cup {None}
    BY <2>2, WantedRows DEF ParentsInv
  <2> HIDE DEF want
  <2>4. /\ DOMAIN interactions' = Span
        /\ \A a \in Span : interactions'[a] = IF a \in DOMAIN want THEN want[a]
                                                ELSE IF TraceOf(a) = t THEN Absent
                                                ELSE interactions[a]
    BY <2>1 DEF Rewrite
  <2>5. ASSUME NEW a \in Span, interactions'[a] # Absent,
               interactions'[a].parent # None
        PROVE  LET p == interactions'[a].parent IN
               p \in Span /\ interactions'[p] # Absent /\ TraceOf(p) = TraceOf(a)
    <3>1. CASE a \in DOMAIN want
      BY <2>3, <2>4, <2>5, <3>1
    <3>2. CASE a \notin DOMAIN want
      <4> DEFINE p == interactions[a].parent
      <4>1. interactions'[a] = interactions[a] /\ TraceOf(a) # t
        BY <2>4, <2>5, <3>2
      <4>2. p \in Span /\ interactions[p] # Absent /\ TraceOf(p) = TraceOf(a)
        BY <2>5, <4>1 DEF ParentsInv, ParentsLive
      <4>3. p \notin DOMAIN want
        BY <2>3, <4>1, <4>2
      <4> QED
        BY <2>4, <4>1, <4>2, <4>3
    <3> QED
      BY <3>1, <3>2
  <2> QED
    BY <2>1, <2>4, <2>5 DEF ParentsInv, ParentsLive
<1> QED
  BY <1>1, <1>2, <1>3 DEF Next, NextReconcile, Fetch, Deliver, Restart, vars,
     reconcile, consumer

(* A stored interaction's parent is a stored interaction of the same trace,    *)
(* although every derivation rewrites all of a trace's rows (_write step 2).   *)
THEOREM NoDanglingParent == Spec => []ParentsLive
<1>1. Init => ParentsInv
  BY DEF Init, InitReconcile, ParentsInv, ParentsLive
<1>2. ParentsInv => ParentsLive
  BY DEF ParentsInv
<1> QED
  BY <1>1, <1>2, NextParents, PTL DEF Spec
--------------------------------------------------------------------------------
(* Convergence. *)

(* The inbound requests that show one call name the same pod, whichever spans  *)
(* of the trace have arrived.  Two pods below one call, of which one hides     *)
(* what the other received, are told apart by their order of arrival.          *)
EchoesAgree ==
  \A a \in Span : \A S \in SUBSET {s \in Span : TraceOf(s) = TraceOf(a)} :
    \A r, s \in Echoes(a, Anchors(S), S) : Facts[r].pod = Facts[s].pod

(* A caught-up trace has what its spans give in an order nobody had.           *)
DerivedAll(t) ==
  LET want == Want(Stored(t), SomeOrder) IN
  \A s \in {r \in Span : TraceOf(r) = t} :
    interactions[s] = IF s \in DOMAIN want THEN want[s] ELSE Absent

Processed(t) == \A s \in Stored(t) : spans[s] <= span_cursor

ConvergedInv ==
  /\ DOMAIN interactions = Span
  /\ spans \in [Span -> Nat] /\ span_cursor \in Nat
  /\ \A s \in Span : spans[s] <= LastSeq
  /\ \A r, s \in Span : spans[r] = spans[s] /\ spans[r] > 0 => r = s
  /\ span_cursor <= LastSeq
  /\ \A t \in {TraceOf(s) : s \in Span} : Processed(t) => DerivedAll(t)

LEMMA SomeOrderExists == SomeOrder \in [Span -> Nat]
<1> DEFINE n == Cardinality(Span)
           Orders == {f \in [Span -> 1..n] : \A r, s \in Span : f[r] = f[s] => r = s}
<1>1. IsFiniteSet(Span) /\ n \in Nat
  BY EntityReadyAssumption, FS_CardinalityType
<1>2. IsFiniteSet(1..n) /\ Cardinality(1..n) = n
  BY <1>1, FS_Interval
<1>3. ExistsBijection(Span, 1..n)
  BY <1>1, <1>2, FS_SameCardinalityBij
<1>4. Orders # {}
  BY <1>3 DEF ExistsBijection, Bijection, Injection, IsInjective
<1>5. SomeOrder \in [Span -> 1..n]
  BY <1>4 DEF SomeOrder
<1> QED
  BY <1>1, <1>5

(* The echo of a call is one of its echoes. *)
LEMMA EchoIsEcho ==
  ASSUME NEW echoes \in SUBSET Span, echoes # {}, NEW seq \in [Span -> Nat]
  PROVE  Echo(echoes, seq) \in echoes
<1> DEFINE Seqs == {seq[s] : s \in echoes}
<1>1. Seqs \in SUBSET Nat /\ Seqs # {}
  OBVIOUS
<1>2. \E m \in Seqs : \A n \in Seqs : m <= n
  <2> HIDE DEF Seqs
  <2> QED
    BY <1>1, SmallestOf
<1>3. \E s \in echoes : \A r \in echoes : seq[s] <= seq[r]
  BY <1>2
<1> QED
  BY <1>3 DEF Echo

(* The plan of a trace does not depend on the order of its spans. *)
LEMMA AnyOrder ==
  ASSUME EchoesAgree, NEW t, NEW S \in SUBSET {s \in Span : TraceOf(s) = t},
         NEW one \in [Span -> Nat], NEW other \in [Span -> Nat]
  PROVE  Want(S, one) = Want(S, other)
<1> DEFINE anchors == Anchors(S)
<1>1. anchors \subseteq S
  BY DEF Anchors, Outbound, Inbound, Requests
<1>2. ASSUME NEW a \in anchors
      PROVE  Row(a, anchors, S, one) = Row(a, anchors, S, other)
  <2> DEFINE echoes == Echoes(a, anchors, S)
  <2>1. a \in Span /\ TraceOf(a) = t
    BY <1>1
  <2>2. echoes \subseteq Span
    BY DEF Echoes, Inbound, Requests
  <2>3. \A r, s \in echoes : Facts[r].pod = Facts[s].pod
    BY <2>1 DEF EchoesAgree
  <2>4. echoes # {} => Facts[Echo(echoes, one)].pod = Facts[Echo(echoes, other)].pod
    <3> HIDE DEF echoes
    <3> QED
      BY <2>2, <2>3, EchoIsEcho
  <2>5. Callee(a, echoes, one) = Callee(a, echoes, other)
    <3> HIDE DEF echoes
    <3> QED
      BY <2>4 DEF Callee
  <2> QED
    BY <2>5 DEF Row
<1> HIDE DEF anchors
<1>3. [a \in anchors |-> Row(a, anchors, S, one)] = [a \in anchors |-> Row(a, anchors, S, other)]
  BY <1>2
<1> QED
  BY <1>3 DEF Want, anchors

LEMMA NextConverged ==
  ASSUME EchoesAgree, ConvergedInv, [Next]_vars
  PROVE  ConvergedInv'
<1>1. ASSUME UNCHANGED <<spans, span_cursor, interactions>> PROVE ConvergedInv'
  BY <1>1 DEF ConvergedInv, Processed, DerivedAll, Stored, LastSeq
<1>2. ASSUME NEW s \in Span, Arrive(s) PROVE ConvergedInv'
  <2> DEFINE have == {r \in Span : spans[r] > 0}
  <2>1. /\ spans[s] = 0 /\ spans' = [spans EXCEPT ![s] = LastSeq + 1]
        /\ UNCHANGED <<span_cursor, interactions>>
    BY <1>2 DEF Arrive
  <2>2. IsFiniteSet(have) /\ LastSeq = Cardinality(have) /\ LastSeq \in Nat
    BY EntityReadyAssumption, FS_Subset, FS_CardinalityType DEF LastSeq
  <2>3. have' = have \cup {s} /\ s \notin have
    BY <2>1, <2>2 DEF ConvergedInv
  <2>4. LastSeq' = LastSeq + 1
    <3>1. Cardinality(have \cup {s}) = Cardinality(have) + 1
      BY <2>2, <2>3, FS_AddElement
    <3>2. LastSeq' = Cardinality(have')
      BY DEF LastSeq
    <3> QED
      BY <2>2, <2>3, <3>1, <3>2
  <2> HIDE DEF have
  <2>5. spans' \in [Span -> Nat] /\ \A r \in Span : spans'[r] <= LastSeq'
    BY <2>1, <2>2, <2>4 DEF ConvergedInv
  <2>6. \A r, q \in Span : spans'[r] = spans'[q] /\ spans'[r] > 0 => r = q
    BY <2>1, <2>2 DEF ConvergedInv
  <2>7. ASSUME NEW r \in Span, Processed(TraceOf(r))' PROVE DerivedAll(TraceOf(r))'
    <3>1. TraceOf(r) # TraceOf(s)
      <4>1. s \in Stored(TraceOf(s))' /\ ~(spans'[s] <= span_cursor')
        BY <2>1, <2>2 DEF Stored, ConvergedInv
      <4> QED
        BY <2>7, <4>1 DEF Processed
    <3>2. Stored(TraceOf(r))' = Stored(TraceOf(r))
      BY <2>1, <3>1 DEF Stored, ConvergedInv
    <3>3. Processed(TraceOf(r))
      BY <2>1, <2>7, <3>1, <3>2 DEF Processed, Stored, ConvergedInv
    <3> QED
      BY <2>1, <3>2, <3>3 DEF ConvergedInv, DerivedAll
  <2> QED
    BY <2>1, <2>2, <2>4, <2>5, <2>6, <2>7 DEF ConvergedInv
<1>3. ASSUME NEW s \in Span, Reconcile(s) PROVE ConvergedInv'
  <2> DEFINE t == TraceOf(s)
             want == Want(Stored(t), spans)
  <2>1. /\ spans[s] > span_cursor /\ span_cursor' = spans[s]
        /\ \A r \in Span : spans[r] > span_cursor => spans[s] <= spans[r]
        /\ interactions' = Rewrite(t, want) /\ UNCHANGED spans
    BY <1>3 DEF Reconcile
  <2>2. Stored(t) \in SUBSET {r \in Span : TraceOf(r) = t}
    BY DEF Stored
  <2>3. want = Want(Stored(t), SomeOrder)
    BY <2>2, AnyOrder, SomeOrderExists DEF ConvergedInv
  <2>4. DOMAIN want \subseteq Stored(t)
    BY DEF Want, Anchors, Outbound, Inbound, Requests
  <2> HIDE DEF want
  <2>5. /\ DOMAIN interactions' = Span
        /\ \A a \in Span : interactions'[a] = IF a \in DOMAIN want THEN want[a]
                                                ELSE IF TraceOf(a) = t THEN Absent
                                                ELSE interactions[a]
    BY <2>1 DEF Rewrite
  <2>6. DerivedAll(t)'
    <3>1. Stored(t)' = Stored(t)
      BY <2>1 DEF Stored
    <3> QED
      BY <2>3, <2>5, <3>1 DEF DerivedAll
  <2>7. ASSUME NEW r \in Span, TraceOf(r) # t, Processed(TraceOf(r))'
        PROVE  DerivedAll(TraceOf(r))'
    <3>1. Stored(TraceOf(r))' = Stored(TraceOf(r))
      BY <2>1 DEF Stored
    <3>2. Processed(TraceOf(r))
      <4> SUFFICES ASSUME NEW q \in Stored(TraceOf(r)), spans[q] > span_cursor
                   PROVE  FALSE
        BY DEF Processed, Stored, ConvergedInv
      <4>1. q \in Span /\ TraceOf(q) = TraceOf(r) /\ spans[q] <= spans[s]
        BY <2>1, <2>7, <3>1 DEF Processed, Stored
      <4>2. spans[q] = spans[s] /\ spans[q] > 0
        BY <2>1, <4>1 DEF ConvergedInv
      <4>3. q = s
        BY <4>1, <4>2 DEF ConvergedInv
      <4> QED
        BY <2>7, <4>1, <4>3
    <3>3. DerivedAll(TraceOf(r))
      BY <3>2 DEF ConvergedInv
    <3>4. \A a \in Span : TraceOf(a) = TraceOf(r) => interactions'[a] = interactions[a]
      BY <2>2, <2>4, <2>5, <2>7
    <3> QED
      BY <3>1, <3>3, <3>4 DEF DerivedAll
  <2>8. span_cursor' \in Nat /\ span_cursor' <= LastSeq' /\ LastSeq' = LastSeq
    BY <2>1 DEF ConvergedInv, LastSeq
  <2> QED
    BY <2>1, <2>5, <2>6, <2>7, <2>8 DEF ConvergedInv
<1> QED
  BY <1>1, <1>2, <1>3 DEF Next, NextReconcile, Fetch, Deliver, Restart, vars,
     reconcile, consumer

(* Once every stored span is processed, the interactions are those that any    *)
(* other order of arrival would have given (sidecar.py, "converges to the same *)
(* tables"), provided that one pod shows each call.                            *)
THEOREM AnyOrderConverges == ASSUME EchoesAgree PROVE Spec => []Converged
<1>1. Init => ConvergedInv
  <2> SUFFICES ASSUME Init PROVE ConvergedInv
    OBVIOUS
  <2>1. spans = [s \in Span |-> 0] /\ span_cursor = 0
        /\ interactions = [s \in Span |-> Absent]
    BY DEF Init, InitReconcile
  <2>2. LastSeq = 0
    <3>1. {s \in Span : spans[s] > 0} = {}
      BY <2>1
    <3> QED
      BY <3>1, FS_EmptySet DEF LastSeq
  <2>3. \A t : Stored(t) = {}
    BY <2>1 DEF Stored
  <2>4. DOMAIN Want({}, SomeOrder) = {}
    BY DEF Want, Anchors, Outbound, Inbound, Requests
  <2>5. ASSUME NEW t PROVE DerivedAll(t)
    BY <2>1, <2>3, <2>4 DEF DerivedAll
  <2> QED
    BY <2>1, <2>2, <2>5 DEF ConvergedInv
<1>2. ConvergedInv => Converged
  <2> SUFFICES ASSUME ConvergedInv, span_cursor = LastSeq, NEW r \in Span
               PROVE  DerivedAll(TraceOf(r))
    BY DEF Converged, DerivedAll
  <2>1. Processed(TraceOf(r))
    BY DEF Processed, Stored, ConvergedInv
  <2> QED
    BY <2>1 DEF ConvergedInv
<1> QED
  BY <1>1, <1>2, NextConverged, PTL DEF Spec
================================================================================
