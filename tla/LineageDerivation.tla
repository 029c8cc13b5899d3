--------------------------- MODULE LineageDerivation ---------------------------
(****************************************************************************)
(* What one whole-trace lineage derivation computes, as a function of the    *)
(* rows it reads (processors/data_lineage/driver.py load_trace,              *)
(* data_lineage/traversal.py derive_trace_lineage).                          *)
(*                                                                          *)
(* The lineage triple itself (sources, transformations, entities) is a       *)
(* function of the legs at or before a leg in causal order and of the        *)
(* entities that produced and consumed them, so a derived row carries those  *)
(* inputs in place of the triple: two rows are equal exactly when nothing    *)
(* the derivation reads has changed.  LineageAlgebra's triple is coarser.    *)
(****************************************************************************)
EXTENDS Naturals

CONSTANTS
  Trace,        \* trace ids
  Interaction,  \* interaction ids (a uuid5 of the trace and the anchor span)
  Entity,       \* entity ids (a uuid5 of the natural key)
  Payload,      \* payload content hashes
  TraceOf,      \* the trace an interaction id belongs to, fixed by the uuid5
  Absent        \* SQL NULL, or no row

ASSUME TraceOfAssumption == TraceOf \in [Interaction -> Trace]

LegType == {"request", "response"}

(* The key of interaction_legs and of lineage_metadata. *)
Key == Interaction \X LegType

(* A row of interactions; `parent` is the nearest enclosing interaction. *)
InteractionRow ==
  [caller: Entity, callee: Entity, parent: Interaction \cup {Absent}]

(* A row of interaction_legs.  `at` stands for the place that occurred_at and  *)
(* the parents give the leg in the trace's causal order.                       *)
LegRow == [seq: Nat, at: Nat, payload_hash: Payload \cup {Absent}]

Optional(S) == S \cup {Absent}

KeysOf(t) == {k \in Key : TraceOf[k[1]] = t}

--------------------------------------------------------------------------------

(* load_trace: the legs of t joined with their interactions. *)
LoadTrace(t, ix, legs) ==
  {k \in KeysOf(t) : legs[k] # Absent /\ ix[k[1]] # Absent}

(* The producer of a leg: the caller of a request, the callee of a response. *)
Producer(k, ix) ==
  IF k[2] = "request" THEN ix[k[1]].caller ELSE ix[k[1]].callee

(* Causal order of two legs of a trace; seq only breaks ties. *)
Before(j, k, legs) ==
  \/ legs[j].at < legs[k].at
  \/ legs[j].at = legs[k].at /\ legs[j].seq < legs[k].seq

Gaps(L, legs) == {k \in L : legs[k].payload_hash = Absent}

(* prefix_leg_keys: the legs up to and including the first gap. *)
Prefix(L, legs) ==
  {k \in L : \A g \in Gaps(L, legs) : ~Before(g, k, legs)}

(* The legs that get a row: before the cutoff, and with a producer that the    *)
(* entities table knows.                                                       *)
Covered(L, ix, legs, known) ==
  {k \in Prefix(L, legs) : /\ legs[k].payload_hash # Absent
                           /\ Producer(k, ix) \in known}

(* Everything the derivation reads of one leg. *)
Fact(k, ix, legs, known) ==
  [key          |-> k,
   at           |-> legs[k].at,
   payload_hash |-> legs[k].payload_hash,
   caller       |-> ix[k[1]].caller,
   callee       |-> ix[k[1]].callee,
   parent       |-> ix[k[1]].parent,
   known        |-> Producer(k, ix) \in known]

FactType ==
  [key: Key, at: Nat, payload_hash: Optional(Payload), caller: Entity,
   callee: Entity, parent: Optional(Interaction), known: BOOLEAN]

(* One derived lineage_metadata row. *)
DeriveRow(k, L, ix, legs, known) ==
  [payload_hash |-> legs[k].payload_hash,
   seq          |-> legs[k].seq,
   inputs       |-> {Fact(j, ix, legs, known) :
                       j \in {i \in L : i = k \/ Before(i, k, legs)}}]

MetadataRow ==
  [payload_hash: Optional(Payload), seq: Nat, inputs: SUBSET FactType]

(* TraceLineage.legs, as a function that is Absent where there is no row. *)
DeriveRows(t, ix, legs, known) ==
  LET L == LoadTrace(t, ix, legs) IN
  [k \in Key |-> IF k \in Covered(L, ix, legs, known)
                 THEN DeriveRow(k, L, ix, legs, known)
                 ELSE Absent]

(* The coverage claim _upsert_status writes; Absent when there are no legs.    *)
(* prefix_leg_keys is stored for a partial trace only.                         *)
DeriveStatus(t, ix, legs) ==
  LET L == LoadTrace(t, ix, legs)
      Stops == Gaps(L, legs) \cap Prefix(L, legs)
  IN  IF L = {} THEN Absent
      ELSE IF Gaps(L, legs) = {}
      THEN [status |-> "complete", stopped_at_seq |-> Absent,
            prefix_leg_keys |-> {}]
      ELSE [status |-> "partial",
            stopped_at_seq  |-> legs[CHOOSE k \in Stops : TRUE].seq,
            prefix_leg_keys |-> Prefix(L, legs)]

StatusRow ==
  [status: {"complete", "partial"}, stopped_at_seq: Optional(Nat),
   prefix_leg_keys: SUBSET Key]

(* The entity names a derived row may hold: the known producers upstream.      *)
Names(row) ==
  {IF f.key[2] = "request" THEN f.caller ELSE f.callee :
     f \in {g \in row.inputs : g.known}}

--------------------------------------------------------------------------------

(* NULL is neither a value nor a row. *)
ASSUME AbsentAssumption ==
  /\ Absent \notin Interaction /\ Absent \notin Entity
  /\ Absent \notin Payload     /\ Absent \notin Nat
  /\ Absent \notin InteractionRow /\ Absent \notin LegRow
  /\ Absent \notin MetadataRow    /\ Absent \notin StatusRow

================================================================================
