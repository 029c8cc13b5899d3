-------------------------------- MODULE LegReady --------------------------------
(****************************************************************************)
(* The two consumers behind the interactions writer that decide when a leg   *)
(* may be acted on (ADR-0027): classification gives each payload a verdict,  *)
(* in the order of payloads.seq, and leg readiness follows legs.seq with a   *)
(* cursor of its own, handing over a leg only when it has no payload or its  *)
(* payload has a verdict, and stopping at the first that is not ready.       *)
(*                                                                          *)
(* Simplifications.  A transaction of the writer touches one interaction; a  *)
(* longer one is several of these.  Rows become visible with the number they *)
(* drew, since one process writes them (module Driver has the general case). *)
(* Numbers that an ON CONFLICT burns are not drawn.  A verdict does not      *)
(* depend on anything, so the batch that classification reads ahead is left  *)
(* out.  An observer called by a transaction that rolls back is called       *)
(* again; a delivery counts when it commits.                                 *)
(****************************************************************************)
EXTENDS Naturals, Sequences, FiniteSets, SequencesExt

CONSTANTS
  Interaction,
  Payload,      \* content hashes
  None,         \* NULL
  Absent,       \* no row, no response leg
  Ordinal,      \* the seq the writer supplies for the request leg of an
                \* interaction, its response taking the next; or None: nextval
  BatchSize,    \* _DRAIN_BATCH
  MaxWrites,    \* bound: transactions of the writer
  MaxCrashes    \* bound: restarts of the leg-readiness consumer

ASSUME LegReadyAssumption ==
  /\ Ordinal \in [Interaction -> Nat \cup {None}]
  /\ BatchSize \in Nat \ {0} /\ MaxWrites \in Nat /\ MaxCrashes \in Nat
  /\ Absent \notin [seq: Nat, payload: Payload \cup {None}]

VARIABLES
  legs,             \* the row of each leg, or Absent
  payloads,         \* the seq of each payload's row, 0 when there is none
  last_seq,         \* of interaction_legs_seq
  verdicts,         \* payloads with a row in payload_classifications
  classify_cursor,  \* processor_state of "classification"
  ready_cursor,     \* processor_state of "leg_ready"
  batch,            \* legs read and about to be delivered, in this order
  delivered,        \* all deliveries, in order
  writes, crashes

writer == <<legs, payloads, last_seq, writes>>
classification == <<verdicts, classify_cursor>>
readiness == <<ready_cursor, batch, delivered, crashes>>
vars == <<writer, classification, readiness>>

Request(i) == <<i, "request">>
Response(i) == <<i, "response">>
Leg == Interaction \X {"request", "response"}

Content == Payload \cup {None}

Init ==
  /\ legs = [l \in Leg |-> Absent]
  /\ payloads = [p \in Payload |-> 0]
  /\ last_seq = 0
  /\ verdicts = {} /\ classify_cursor = 0
  /\ ready_cursor = 0 /\ batch = <<>> /\ delivered = <<>>
  /\ writes = 0 /\ crashes = 0

--------------------------------------------------------------------------------
(* The interactions writer. *)

(* ON CONFLICT (content_hash) DO NOTHING. *)
StorePayloads(i, request, response) ==
  LET top == CHOOSE n \in {payloads[p] : p \in Payload} :
               \A p \in Payload : payloads[p] <= n
      new == {p \in {request, response} \cap Payload : payloads[p] = 0}
  IN  payloads' = [p \in Payload |->
                     IF p \notin new THEN payloads[p]
                     ELSE IF p = request \/ request \notin new THEN top + 1
                     ELSE top + 2]

(* The request leg is inserted first. *)
NewSeq(i, l) ==
  LET first == IF Ordinal[i] # None THEN Ordinal[i] ELSE last_seq + 1
  IN  IF l = Request(i) THEN first ELSE first + 1

(* A row that exists keeps its seq and takes the payload. *)
Stored(i, l, payload) ==
  [seq |-> IF legs[l] = Absent THEN NewSeq(i, l) ELSE legs[l].seq,
   payload |-> payload]

(* A re-derivation of the trace writes the interaction, with or without a      *)
(* response leg.                                                               *)
Derive(i, request, response) ==
  /\ writes < MaxWrites /\ writes' = writes + 1
  /\ response = Absent => legs[Response(i)] = Absent
  /\ StorePayloads(i, request, response)
  /\ legs' = [l \in Leg |->
                IF l = Request(i) THEN Stored(i, l, request)
                ELSE IF l = Response(i) /\ response # Absent
                THEN Stored(i, l, response)
                ELSE legs[l]]
  /\ last_seq' = IF Ordinal[i] = None THEN last_seq + 2 ELSE last_seq
  /\ UNCHANGED <<classification, readiness>>

(* The sidecar writer deletes an interaction that its trace no longer has. *)
Withdraw(i) ==
  /\ Ordinal[i] = None
  /\ writes < MaxWrites /\ writes' = writes + 1
  /\ legs[Request(i)] # Absent
  /\ legs' = [l \in Leg |->
                IF l \in {Request(i), Response(i)} THEN Absent ELSE legs[l]]
  /\ UNCHANGED <<payloads, last_seq, classification, readiness>>

--------------------------------------------------------------------------------
(* Classification. *)

Unclassified == {p \in Payload : payloads[p] > classify_cursor}

(* Mutant: ORDER BY seq DESC. *)
ClassifyNewest(p) ==
  /\ p \in Unclassified
  /\ \A q \in Unclassified : payloads[q] <= payloads[p]
  /\ verdicts' = verdicts \cup {p}
  /\ classify_cursor' = payloads[p]
  /\ UNCHANGED <<writer, readiness>>

(* process_payload, with the cursor advance in the same transaction. *)
Classify(p) ==
  /\ p \in Unclassified
  /\ \A q \in Unclassified : payloads[p] <= payloads[q]
  /\ verdicts' = verdicts \cup {p}
  /\ classify_cursor' = payloads[p]
  /\ UNCHANGED <<writer, readiness>>

--------------------------------------------------------------------------------
(* Leg readiness. *)

(* Mutant: the payload's row is enough. *)
ReadyOnceStored(l) ==
  legs[l].payload = None \/ payloads[legs[l].payload] > 0

(* The readiness predicate of _FETCH_SQL. *)
Ready(l) == legs[l].payload = None \/ legs[l].payload \in verdicts

Past == {l \in Leg : legs[l] # Absent /\ legs[l].seq > ready_cursor}

(* The first rows ORDER BY seq; legs of one seq come in no given order. *)
FirstBySeq(size) ==
  {rows \in [1..size -> Past] :
     /\ IsInjective(rows)
     /\ \A m, n \in 1..size : m < n => legs[rows[m]].seq <= legs[rows[n]].seq
     /\ \A l \in Past : l \in Range(rows)
                       \/ \A n \in 1..size : legs[rows[n]].seq <= legs[l].seq}

Rows ==
  FirstBySeq(IF Cardinality(Past) < BatchSize THEN Cardinality(Past) ELSE BatchSize)

(* Mutant: every ready leg of the batch is delivered. *)
PrefixOfAll(rows) == SelectSeq(rows, Ready)

(* contiguous_prefix: the legs before the first that is not ready. *)
Prefix(rows) ==
  SubSeq(rows, 1, Cardinality({n \in DOMAIN rows : \A m \in 1..n : Ready(rows[m])}))

(* by_seq: one leg of the batch for each seq, the last one read. *)
BySeq(rows, seq) ==
  rows[CHOOSE n \in DOMAIN rows :
         /\ legs[rows[n]].seq = seq
         /\ \A m \in DOMAIN rows : legs[rows[m]].seq = seq => m <= n]

Item(l) == [leg |-> l, seq |-> legs[l].seq, payload |-> legs[l].payload]

(* The batch read; with nothing deliverable the drain ends. *)
Fetch ==
  /\ batch = <<>>
  /\ UNCHANGED <<writer, classification, ready_cursor, delivered, crashes>>
  /\ \E rows \in Rows :
       LET prefix == Prefix(rows) IN
       /\ prefix # <<>>
       /\ batch' = [n \in DOMAIN prefix |->
                      Item(BySeq(rows, legs[prefix[n]].seq))]

(* Mutant: the cursor is advanced when the batch is done. *)
DeliverThenAdvance ==
  /\ batch # <<>>
  /\ delivered' = Append(delivered, Head(batch))
  /\ ready_cursor' = IF Len(batch) = 1 THEN Head(batch).seq ELSE ready_cursor
  /\ batch' = Tail(batch)
  /\ UNCHANGED <<writer, classification, crashes>>

(* process_leg, with the cursor advance in the same transaction. *)
Deliver ==
  /\ batch # <<>>
  /\ delivered' = Append(delivered, Head(batch))
  /\ ready_cursor' = Head(batch).seq
  /\ batch' = Tail(batch)
  /\ UNCHANGED <<writer, classification, crashes>>

Restart ==
  /\ crashes < MaxCrashes /\ crashes' = crashes + 1
  /\ batch' = <<>>
  /\ UNCHANGED <<writer, classification, ready_cursor, delivered>>

--------------------------------------------------------------------------------

Write ==
  \E i \in Interaction :
    \/ \E request \in Content, response \in Content \cup {Absent} :
         Derive(i, request, response)
    \/ Withdraw(i)

Step == (\E p \in Payload : Classify(p)) \/ Fetch \/ Deliver

Next == Write \/ Step \/ Restart

Spec == Init /\ [][Next]_vars

(* Both consumers keep running; a verdict is always found. *)
FairSpec ==
  Spec /\ WF_vars(\E p \in Payload : Classify(p)) /\ WF_vars(Fetch \/ Deliver)

--------------------------------------------------------------------------------

Delivery == [leg: Leg, seq: Nat, payload: Content]

TypeOK ==
  /\ legs \in [Leg -> [seq: Nat, payload: Content] \cup {Absent}]
  /\ payloads \in [Payload -> Nat] /\ last_seq \in Nat
  /\ \A l \in Leg : legs[l] # Absent /\ legs[l].payload # None
                      => payloads[legs[l].payload] > 0
  /\ verdicts \subseteq {p \in Payload : payloads[p] > 0}
  /\ classify_cursor \in Nat /\ ready_cursor \in Nat
  /\ batch \in Seq(Delivery) /\ Len(batch) <= BatchSize
  /\ delivered \in Seq(Delivery)
  /\ writes \in 0..MaxWrites /\ crashes \in 0..MaxCrashes

(* Deliveries follow seq strictly, over all batches and restarts: no leg's row *)
(* is delivered twice (leg_ready module docstring, "the durable cursor is the  *)
(* complete exactly-once record").                                             *)
InSeqOrder ==
  \A m, n \in DOMAIN delivered : m < n => delivered[m].seq < delivered[n].seq

(* A payload is acted on only after its verdict, although the batch was read   *)
(* some transactions ago (ADR-0027).                                           *)
VerdictFirst ==
  \A n \in DOMAIN delivered :
    delivered[n].payload # None => delivered[n].payload \in verdicts

(* A response is delivered only after its request: the order the writer drew   *)
(* the numbers in survives withdrawals, late payloads and slow verdicts        *)
(* (ADR-0027, "intra-interaction ordering").                                   *)
RequestFirst ==
  \A n \in DOMAIN delivered : delivered[n].leg[2] = "response" =>
    \E m \in 1..n - 1 : delivered[m].leg = Request(delivered[n].leg[1])

(* The cursor strands no leg: one at or below it has been delivered ("no       *)
(* re-delivery, no skip", readiness_cursor module docstring).                  *)
NoneSkipped ==
  \A l \in Leg : legs[l] # Absent /\ legs[l].seq <= ready_cursor =>
    \E n \in DOMAIN delivered :
      delivered[n].leg = l /\ delivered[n].seq = legs[l].seq

(* However the verdicts are ordered, a leg that stays is delivered: the leg    *)
(* that blocks the head of the line waits for a verdict that comes.            *)
EventuallyDelivered ==
  \A l \in Leg :
    legs[l] # Absent ~>
      \/ legs[l] = Absent
      \/ \E n \in DOMAIN delivered :
           delivered[n].leg = l /\ delivered[n].seq = legs[l].seq

(* "Readiness is a latch: once a leg is ready it stays ready" (CONTEXT.md,     *)
(* Leg readiness).                                                             *)
ReadinessLatches ==
  [][\A l \in Leg : legs[l] # Absent /\ legs'[l] # Absent /\ Ready(l)
       => Ready(l)']_vars
================================================================================
