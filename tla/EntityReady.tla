------------------------------ MODULE EntityReady ------------------------------
(****************************************************************************)
(* The entity-ready consumer (processors/entity_ready/driver.py) on the      *)
(* entities that the sidecar writer stores.  It follows entities.seq with a  *)
(* durable cursor and hands each row it is offered to an observer, one row   *)
(* per transaction.                                                          *)
(*                                                                          *)
(* A delivery counts when its transaction commits: an observer called by a   *)
(* transaction that then rolls back is called again (process_entity says     *)
(* so of its counter).                                                       *)
(****************************************************************************)
EXTENDS SidecarReconcile

CONSTANTS
  BatchSize,    \* _DRAIN_BATCH
  MaxCrashes    \* bound: restarts of the consumer

VARIABLES
  entity_cursor,  \* processor_state of "entity_ready"
  batch,          \* rows read and not yet delivered, as <<key, seq>>
  delivered,      \* history: the entities delivered
  redelivered,    \* history: those among them delivered more than once
  crashes

consumer == <<entity_cursor, batch, delivered, redelivered, crashes>>

vars == <<reconcile, consumer>>

EntityKey == {"client", "agent", "tool", "llm", "service"} \X Names

ASSUME EntityReadyAssumption ==
  /\ IsFiniteSet(Span)
  /\ Provisional \subseteq EntityKey
  /\ Absent \notin [parent: Span \cup {None}, caller: EntityKey, callee: EntityKey,
                    answered: BOOLEAN]
  /\ BatchSize \in Nat \ {0} /\ MaxCrashes \in Nat

Init ==
  /\ InitReconcile
  /\ entity_cursor = 0
  /\ batch = {}
  /\ delivered = {} /\ redelivered = {}
  /\ crashes = 0

New == {<<k, entities[k]>> : k \in {e \in DOMAIN entities : entities[e] > entity_cursor}}

(* _fetch_batch: ORDER BY seq LIMIT; rows of one seq come in no given order.   *)
Fetch ==
  /\ batch = {} /\ New # {}
  /\ \E chosen \in SUBSET New :
       /\ \A i \in chosen, j \in New \ chosen : i[2] <= j[2]
       /\ \/ Cardinality(chosen) = BatchSize
          \/ chosen = New /\ Cardinality(New) < BatchSize
       /\ batch' = chosen
  /\ UNCHANGED <<reconcile, entity_cursor, delivered, redelivered, crashes>>

(* The observer call of process_entity. *)
HandOver(k) ==
  /\ delivered' = delivered \cup {k}
  /\ redelivered' = redelivered \cup (delivered \cap {k})

(* process_entity, with the cursor advance in the same transaction.            *)
Deliver(i) ==
  /\ \A j \in batch : i[2] <= j[2]
  /\ HandOver(i[1])
  /\ entity_cursor' = i[2]
  /\ batch' = batch \ {i}
  /\ UNCHANGED <<reconcile, crashes>>

(* The consumer dies and restarts at its durable cursor. *)
Restart ==
  /\ crashes < MaxCrashes
  /\ crashes' = crashes + 1
  /\ batch' = {}
  /\ UNCHANGED <<reconcile, entity_cursor, delivered, redelivered>>

Next ==
  \/ NextReconcile /\ UNCHANGED consumer
  \/ Fetch \/ (\E i \in batch : Deliver(i)) \/ Restart

Spec == Init /\ [][Next]_vars

--------------------------------------------------------------------------------

TypeOK ==
  /\ spans \in [Span -> 0..Cardinality(Span)]
  /\ span_cursor \in 0..Cardinality(Span)
  /\ \A s \in Span : interactions[s] # Absent =>
       /\ {interactions[s].caller, interactions[s].callee} \subseteq EntityKey
       /\ interactions[s].parent \in Span \cup {None}
  /\ DOMAIN entities \subseteq EntityKey
  /\ \A k \in DOMAIN entities : entities[k] \in 1..Cardinality(Span)
  /\ entity_cursor \in 0..Cardinality(Span)
  /\ batch \subseteq EntityKey \X (1..Cardinality(Span))
  /\ redelivered \subseteq delivered /\ delivered \subseteq EntityKey
  /\ crashes \in 0..MaxCrashes

(* No entity is delivered twice, however often its trace is derived again and  *)
(* the consumer restarts (_upsert_entity: "delivered exactly once").  A        *)
(* provisional entity may be retired and minted anew, and then is a new row.   *)
DeliveredAtMostOnce == redelivered \subseteq Provisional

(* Once the consumer has caught up, it has been handed every entity stored:    *)
(* "exactly-once delivery past the durable cursor" (driver.py module           *)
(* docstring).                                                                 *)
NoneMissed ==
  (batch = {} /\ New = {}) => DOMAIN entities \subseteq delivered
================================================================================
