------------------------------ MODULE LineageSync ------------------------------
(****************************************************************************)
(* The interactions writer and the data-lineage processor, two processes     *)
(* that meet only in Postgres:                                               *)
(*                                                                          *)
(*   - the writer rewrites a trace's interactions and legs in one            *)
(*     transaction, statement by statement (sidecar._write, state.flush);    *)
(*     the triggers of migration 0026 run inside its statements and queue    *)
(*     the trace in data_lineage_dirty_traces when a correction would        *)
(*     otherwise be missed;                                                  *)
(*   - the lineage processor (data_lineage/driver.py, processors/_driver.py) *)
(*     drains new legs by its cursor, then the queue, then a sweep for stale *)
(*     rows, re-deriving one whole trace per transaction under the trace's   *)
(*     advisory lock (trace_lock.py).                                        *)
(*                                                                          *)
(* Simplifications.  A writer transaction's changes stay in tx_interactions  *)
(* and tx_legs and become visible to the processor at Commit (READ           *)
(* COMMITTED).  The lineage rows its delete triggers remove go at Commit     *)
(* too.  load_trace's two reads are one step.  The wait for NOTIFY or the    *)
(* poll timeout is the step from the last arm back to the first.             *)
(****************************************************************************)
EXTENDS LineageDerivation, FiniteSets

CONSTANTS
  Algorithm,    \* INTERACTIONS_ALGORITHM: "sidecar", "graph" or "streaming"
  Plans,        \* what one writer transaction may want to store
  LateEntity,   \* entities whose row lands after an interaction names them
  Provisional,  \* host:port agent and tool identities, retired when unused
  BatchSize,    \* _DRAIN_BATCH
  MaxTx,        \* bound: writer transactions
  MaxCrashes    \* bound: crashes of the lineage processor

(* A planned leg: seq is used by the graph writer only, which supplies it.     *)
PlanType ==
  [trace: Trace, interactions: [Interaction -> Optional(InteractionRow)],
   legs: [Key -> Optional(LegRow)]]

(* A plan names interactions of its trace only, and gives each a request leg   *)
(* whenever it gives it a leg.                                                 *)
PlanOK(plan) ==
  /\ \A i \in Interaction :
       plan.interactions[i] # Absent => TraceOf[i] = plan.trace
  /\ \A k \in Key :
       plan.legs[k] # Absent => /\ plan.interactions[k[1]] # Absent
                                /\ plan.legs[<<k[1], "request">>] # Absent

ASSUME SyncAssumption ==
  /\ Algorithm \in {"sidecar", "graph", "streaming"}
  /\ Plans \subseteq PlanType /\ \A plan \in Plans : PlanOK(plan)
  /\ LateEntity \subseteq Entity
  /\ Provisional \subseteq Entity \ LateEntity
  /\ BatchSize \in Nat \ {0} /\ MaxTx \in Nat /\ MaxCrashes \in Nat

VARIABLES
  \* committed tables
  interactions,         \* interactions
  interaction_legs,     \* interaction_legs
  entities,             \* ids present in entities
  lineage_metadata,     \* lineage_metadata
  lineage_trace_status, \* lineage_trace_status
  dirty,                \* data_lineage_dirty_traces: generation, 0 = no row
  cursor,               \* processor_state row "data_lineage"
  \* sequences and locks
  legs_seq,             \* interaction_legs_seq
  dirty_generation,     \* data_lineage_dirty_generation
  lock,                 \* holder of each trace's advisory lock
  \* the writer and its open transaction
  wpc, plan, todo, tx_interactions, tx_legs, queued, txs,
  \* the lineage processor
  phase, arm, batch, more, item, derived, claim, crashes

tables == <<interactions, interaction_legs, entities, lineage_metadata,
            lineage_trace_status, dirty, cursor>>
writer == <<wpc, plan, todo, tx_interactions, tx_legs, queued, txs>>
processor == <<phase, arm, batch, more, item, derived, claim, crashes>>
vars == <<tables, legs_seq, dirty_generation, lock, writer, processor>>

NoPlan ==
  [trace |-> Absent, interactions |-> [i \in Interaction |-> Absent],
   legs |-> [k \in Key |-> Absent]]
NoRows == [k \in Key |-> Absent]
NoItem == [trace |-> Absent, rank |-> 0]

(* One unit of the processor's work: ArrivingLeg, a queue row, or a stale      *)
(* trace; rank is the leg's seq, the generation, or min(seq).                  *)
Item == [trace: Trace, rank: Nat]

Init ==
  /\ interactions = [i \in Interaction |-> Absent]
  /\ interaction_legs = [k \in Key |-> Absent]
  /\ entities = {}
  /\ lineage_metadata = NoRows
  /\ lineage_trace_status = [t \in Trace |-> Absent]
  /\ dirty = [t \in Trace |-> 0]
  /\ cursor = 0
  /\ legs_seq = 0
  /\ dirty_generation = 0
  /\ lock = [t \in Trace |-> "free"]
  /\ wpc = "idle" /\ plan = NoPlan /\ todo = {}
  /\ tx_interactions = interactions /\ tx_legs = interaction_legs
  /\ queued = FALSE /\ txs = 0
  /\ phase = "fetch" /\ arm = "cursor" /\ batch = {} /\ more = FALSE
  /\ item = NoItem /\ derived = NoRows /\ claim = Absent /\ crashes = 0

--------------------------------------------------------------------------------
(****************************************************************************)
(* The interactions writer: one transaction for one trace.                   *)
(****************************************************************************)

(* Only the sidecar reconciler takes the trace lock, and only it deletes.      *)
TakesLock == Algorithm = "sidecar"

(* derive_trace / the drain's per-span transaction: lock, then plan.           *)
Begin(p) ==
  /\ wpc = "idle" /\ txs < MaxTx
  /\ IF TakesLock
     THEN /\ lock[p.trace] = "free"
          /\ lock' = [lock EXCEPT ![p.trace] = "writer"]
     ELSE lock' = lock
  /\ wpc' = "interactions" /\ plan' = p /\ txs' = txs + 1
  /\ todo' = {k \in Key : p.legs[k] # Absent}
  /\ queued' = FALSE
  /\ UNCHANGED <<tables, legs_seq, dirty_generation, tx_interactions, tx_legs,
                 processor>>

(* dg_lineage_interaction_dirty: an updated caller, callee or parent queues    *)
(* the trace, unless the interaction has no leg yet.                           *)
InteractionDirty(i) ==
  /\ tx_interactions[i] # Absent
  /\ plan.interactions[i] \notin {Absent, tx_interactions[i]}
  /\ \E type \in LegType : tx_legs[<<i, type>>] # Absent

WriteInteractions ==
  /\ wpc = "interactions"
  /\ tx_interactions' = [i \in Interaction |->
       IF plan.interactions[i] # Absent THEN plan.interactions[i]
                                        ELSE tx_interactions[i]]
  /\ queued' = (\E i \in Interaction : InteractionDirty(i))
  /\ wpc' = "legs"
  /\ UNCHANGED <<tables, legs_seq, dirty_generation, lock, plan, todo, tx_legs,
                 txs, processor>>

(* dg_lineage_leg_inserted: `reach` is the highest of the cursor and of the    *)
(* legs written outside this statement; a leg at or below it is queued.        *)
BelowReach(k, seq) ==
  \/ seq <= cursor
  \/ \E j \in Key \ {k} : tx_legs[j] # Absent /\ seq <= tx_legs[j].seq

(* dg_lineage_leg_dirty: a changed time or payload hash queues the trace.      *)
LegDirty(k) ==
  \/ plan.legs[k].at # tx_legs[k].at
  \/ plan.legs[k].payload_hash # tx_legs[k].payload_hash

(* nextval, or the edge ordinal the graph writer supplies. *)
NewSeq(k) == IF Algorithm = "graph" THEN plan.legs[k].seq ELSE legs_seq + 1

InsertLeg(k) ==
  /\ tx_legs[k] = Absent
  /\ tx_legs' = [tx_legs EXCEPT ![k] = [plan.legs[k] EXCEPT !.seq = NewSeq(k)]]
  /\ legs_seq' = IF Algorithm = "graph" THEN legs_seq ELSE legs_seq + 1
  /\ queued' = (queued \/ BelowReach(k, NewSeq(k)))

(* ON CONFLICT DO UPDATE: everything but the seq. *)
UpdateLeg(k) ==
  /\ tx_legs[k] # Absent
  /\ tx_legs' =
       [tx_legs EXCEPT ![k] = [plan.legs[k] EXCEPT !.seq = tx_legs[k].seq]]
  /\ queued' = (queued \/ LegDirty(k))
  /\ legs_seq' = legs_seq

(* One upsert of interaction_legs; the request leg comes before its response.  *)
WriteLeg(k) ==
  /\ wpc = "legs" /\ k \in todo
  /\ k[2] = "response" => <<k[1], "request">> \notin todo
  /\ InsertLeg(k) \/ UpdateLeg(k)
  /\ todo' = todo \ {k}
  /\ UNCHANGED <<tables, dirty_generation, lock, wpc, plan, tx_interactions,
                 txs, processor>>

(* The interactions the sidecar's plan no longer wants. *)
Unwanted ==
  IF TakesLock
  THEN {i \in Interaction : /\ TraceOf[i] = plan.trace
                            /\ tx_interactions[i] # Absent
                            /\ plan.interactions[i] = Absent}
  ELSE {}

(* Step 4 of _write: legs first, then interactions; both delete triggers queue *)
(* the trace.                                                                  *)
DeleteUnwanted ==
  /\ wpc = "legs" /\ todo = {}
  /\ tx_legs' = [k \in Key |-> IF k[1] \in Unwanted THEN Absent ELSE tx_legs[k]]
  /\ tx_interactions' = [i \in Interaction |->
       IF i \in Unwanted THEN Absent ELSE tx_interactions[i]]
  /\ queued' = (queued \/ Unwanted # {})
  /\ wpc' = "commit"
  /\ UNCHANGED <<tables, legs_seq, dirty_generation, lock, plan, todo, txs,
                 processor>>

Endpoints(ix) ==
  UNION {{ix[i].caller, ix[i].callee} : i \in {j \in Interaction : ix[j] # Absent}}

(* The entities after a commit: the plan's endpoints are upserted, and the     *)
(* sidecar retires provisional ones that nothing references any more.          *)
EntitiesAfter ==
  LET upserted == entities \cup (Endpoints(plan.interactions) \ LateEntity)
  IN  IF TakesLock
      THEN upserted \ (Provisional \ Endpoints(tx_interactions))
      ELSE upserted

(* dg_queue_lineage_trace, once the transaction's last generation is visible.  *)
QueueTrace(t) ==
  IF queued
  THEN /\ dirty_generation' = dirty_generation + 1
       /\ dirty' = [dirty EXCEPT ![t] = dirty_generation + 1]
  ELSE UNCHANGED <<dirty_generation, dirty>>

EndTx ==
  /\ wpc' = "idle" /\ plan' = NoPlan /\ todo' = {} /\ queued' = FALSE
  /\ lock' = [t \in Trace |-> IF lock[t] = "writer" THEN "free" ELSE lock[t]]

Commit ==
  /\ wpc = "commit"
  /\ interactions' = tx_interactions
  /\ interaction_legs' = tx_legs
  /\ entities' = EntitiesAfter
  /\ lineage_metadata' = [k \in Key |->
       IF interaction_legs[k] # Absent /\ tx_legs[k] = Absent
       THEN Absent ELSE lineage_metadata[k]]
  /\ QueueTrace(plan.trace)
  /\ EndTx
  /\ UNCHANGED <<lineage_trace_status, cursor, legs_seq, tx_interactions,
                 tx_legs, txs, processor>>

(* The transaction fails, or the pod dies: nothing but the sequence moved.     *)
Rollback ==
  /\ wpc # "idle"
  /\ EndTx
  /\ tx_interactions' = interactions
  /\ tx_legs' = interaction_legs
  /\ UNCHANGED <<tables, legs_seq, dirty_generation, txs, processor>>

(* An entity row arrives on its own: entities has no foreign key to it, and    *)
(* the processor is written for a producer whose row lands late.               *)
EntityLands(e) ==
  /\ e \in LateEntity \ entities
  /\ entities' = entities \cup {e}
  /\ UNCHANGED <<interactions, interaction_legs, lineage_metadata,
                 lineage_trace_status, dirty, cursor, legs_seq,
                 dirty_generation, lock, writer, processor>>

--------------------------------------------------------------------------------
(****************************************************************************)
(* The lineage processor.                                                    *)
(****************************************************************************)

Visible(k) == interaction_legs[k] # Absent /\ interactions[k[1]] # Absent

(* _fetch_batch: legs past the cursor. *)
NewLegs ==
  {[trace |-> TraceOf[k[1]], rank |-> interaction_legs[k].seq] :
     k \in {j \in Key : Visible(j) /\ interaction_legs[j].seq > cursor}}

(* _fetch_dirty_traces: queued traces with their generations. *)
QueuedTraces ==
  {[trace |-> t, rank |-> dirty[t]] : t \in {u \in Trace : dirty[u] > 0}}

(* Mutant: the sweep reports a missing row past the coverage cutoff too. *)
MissingRowAnywhere(k) ==
  /\ lineage_metadata[k] = Absent
  /\ interaction_legs[k].seq <= cursor
  /\ interaction_legs[k].payload_hash # Absent
  /\ Producer(k, interactions) \in entities

(* Predicate 2 of _fetch_stale_traces: the cursor has passed the leg and its   *)
(* missing row is not explained by a gap or an unknown producer.               *)
MissingRow(k) ==
  LET s == lineage_trace_status[TraceOf[k[1]]] IN
  /\ lineage_metadata[k] = Absent
  /\ interaction_legs[k].seq <= cursor
  /\ interaction_legs[k].payload_hash # Absent
  /\ Producer(k, interactions) \in entities
  /\ s # Absent /\ s.stopped_at_seq # Absent => k \in s.prefix_leg_keys

(* Predicates 1 and 3: another payload, or a producer the row does not name.   *)
DriftedRow(k) ==
  /\ lineage_metadata[k] # Absent
  /\ \/ lineage_metadata[k].payload_hash # interaction_legs[k].payload_hash
     \/ /\ Producer(k, interactions) \in entities
        /\ Producer(k, interactions) \notin Names(lineage_metadata[k])

StaleLegs(t) ==
  {k \in KeysOf(t) : Visible(k) /\ (MissingRow(k) \/ DriftedRow(k))}

(* A stale trace ranks by its oldest offending leg. *)
StaleTraces ==
  {[trace |-> TraceOf[k[1]], rank |-> interaction_legs[k].seq] :
     k \in {j \in Key : \E t \in Trace :
              /\ j \in StaleLegs(t)
              /\ \A i \in StaleLegs(t) :
                   interaction_legs[j].seq <= interaction_legs[i].seq}}

Work(a) == CASE a = "cursor" -> NewLegs
             [] a = "dirty"  -> QueuedTraces
             [] a = "stale"  -> StaleTraces

(* Mutant: the driver runs its default drain, without the redrive arms. *)
NextArmDefault(a) == "cursor"

NextArm(a) == CASE a = "cursor" -> "dirty"
                [] a = "dirty"  -> "stale"
                [] a = "stale"  -> "cursor"

(* ORDER BY rank LIMIT BatchSize. *)
FirstOf(work, chosen) ==
  /\ chosen \subseteq work
  /\ \A i \in chosen, j \in work \ chosen : i.rank <= j.rank
  /\ \/ Cardinality(chosen) = BatchSize
     \/ chosen = work /\ Cardinality(chosen) < BatchSize

(* The batch read of an arm, in a transaction of its own; an empty one ends    *)
(* the arm.                                                                    *)
Fetch ==
  /\ phase = "fetch"
  /\ \E chosen \in SUBSET Work(arm) :
       /\ FirstOf(Work(arm), chosen)
       /\ batch' = chosen
       /\ more' = (Cardinality(chosen) = BatchSize)
       /\ IF chosen = {}
          THEN arm' = NextArm(arm) /\ phase' = "fetch"
          ELSE arm' = arm /\ phase' = "lock"
  /\ UNCHANGED <<tables, legs_seq, dirty_generation, lock, writer, item,
                 derived, claim, crashes>>

(* Mutant: process_leg does not take the trace lock. *)
LockTraceNot ==
  /\ phase = "lock"
  /\ \E i \in batch :
       /\ \A j \in batch : i.rank <= j.rank
       /\ item' = i
  /\ phase' = "load"
  /\ UNCHANGED <<tables, legs_seq, dirty_generation, lock, writer, arm, batch,
                 more, derived, claim, crashes>>

(* lock_trace, the first statement of process_leg. *)
LockTrace ==
  /\ phase = "lock"
  /\ \E i \in batch :
       /\ \A j \in batch : i.rank <= j.rank
       /\ lock[i.trace] = "free"
       /\ lock' = [lock EXCEPT ![i.trace] = "lineage"]
       /\ item' = i
  /\ phase' = "load"
  /\ UNCHANGED <<tables, legs_seq, dirty_generation, writer, arm, batch, more,
                 derived, claim, crashes>>

(* load_trace and derive_trace_lineage. *)
Load ==
  /\ phase = "load"
  /\ derived' = DeriveRows(item.trace, interactions, interaction_legs, entities)
  /\ claim' = DeriveStatus(item.trace, interactions, interaction_legs)
  /\ phase' = "store"
  /\ UNCHANGED <<tables, legs_seq, dirty_generation, lock, writer, arm, batch,
                 more, item, crashes>>

(* The upserts, and _delete_stale: the trace's rows outside the derivation go, *)
(* as far as the join with interactions reaches them.                          *)
StoredRow(k) ==
  CASE derived[k] # Absent -> derived[k]
    [] derived[k] = Absent /\ k \in KeysOf(item.trace)
         /\ interactions[k[1]] # Absent -> Absent
    [] OTHER -> lineage_metadata[k]

(* An arm goes on to its next item; the cursor arm fetches again after a full  *)
(* batch; otherwise the next arm starts.                                       *)
NextItem ==
  LET rest == batch \ {item} IN
  /\ batch' = rest /\ item' = NoItem
  /\ IF rest # {} THEN phase' = "lock" /\ UNCHANGED <<arm, more>>
     ELSE /\ phase' = "fetch"
          /\ arm' = IF arm = "cursor" /\ more THEN arm ELSE NextArm(arm)
          /\ more' = FALSE

(* Mutant: every arm advances the cursor to its item. *)
StoreAdvancing ==
  /\ phase = "store"
  /\ lineage_metadata' = IF claim = Absent THEN lineage_metadata
                         ELSE [k \in Key |-> StoredRow(k)]
  /\ lineage_trace_status' =
       [lineage_trace_status EXCEPT ![item.trace] = claim]
  /\ cursor' = item.rank
  /\ lock' = [lock EXCEPT ![item.trace] = "free"]
  /\ derived' = NoRows /\ claim' = Absent
  /\ IF arm = "dirty" THEN phase' = "unqueue" /\ UNCHANGED <<arm, batch, more, item>>
     ELSE NextItem
  /\ UNCHANGED <<interactions, interaction_legs, entities, dirty, legs_seq,
                 dirty_generation, writer, crashes>>

(* The rest of process_leg, and the commit.  A trace without legs only loses   *)
(* its status.  The cursor arm advances the cursor in the same transaction.    *)
Store ==
  /\ phase = "store"
  /\ lineage_metadata' = IF claim = Absent THEN lineage_metadata
                         ELSE [k \in Key |-> StoredRow(k)]
  /\ lineage_trace_status' =
       [lineage_trace_status EXCEPT ![item.trace] = claim]
  /\ cursor' = IF arm = "cursor" THEN item.rank ELSE cursor
  /\ lock' = [lock EXCEPT ![item.trace] = "free"]
  /\ derived' = NoRows /\ claim' = Absent
  /\ IF arm = "dirty" THEN phase' = "unqueue" /\ UNCHANGED <<arm, batch, more, item>>
     ELSE NextItem
  /\ UNCHANGED <<interactions, interaction_legs, entities, dirty, legs_seq,
                 dirty_generation, writer, crashes>>

(* Mutant: the queue row goes whatever its generation is now. *)
UnqueueAny ==
  /\ phase = "unqueue"
  /\ ~(queued /\ plan.trace = item.trace)
  /\ dirty' = [dirty EXCEPT ![item.trace] = 0]
  /\ NextItem
  /\ UNCHANGED <<interactions, interaction_legs, entities, lineage_metadata,
                 lineage_trace_status, cursor, legs_seq, dirty_generation, lock,
                 writer, derived, claim, crashes>>

(* The conditional delete of the queue row; it waits for a writer whose        *)
(* triggers hold that row.                                                     *)
Unqueue ==
  /\ phase = "unqueue"
  /\ ~(queued /\ plan.trace = item.trace)
  /\ dirty' = IF dirty[item.trace] = item.rank
              THEN [dirty EXCEPT ![item.trace] = 0] ELSE dirty
  /\ NextItem
  /\ UNCHANGED <<interactions, interaction_legs, entities, lineage_metadata,
                 lineage_trace_status, cursor, legs_seq, dirty_generation, lock,
                 writer, derived, claim, crashes>>

(* The process dies or a drain error propagates; it restarts at its durable    *)
(* cursor, and its open transaction rolls back.                                *)
Crash ==
  /\ crashes < MaxCrashes
  /\ crashes' = crashes + 1
  /\ phase' = "fetch" /\ arm' = "cursor" /\ batch' = {} /\ more' = FALSE
  /\ item' = NoItem /\ derived' = NoRows /\ claim' = Absent
  /\ lock' = [t \in Trace |-> IF lock[t] = "lineage" THEN "free" ELSE lock[t]]
  /\ UNCHANGED <<tables, legs_seq, dirty_generation, writer>>

--------------------------------------------------------------------------------

FinishTx == WriteInteractions \/ (\E k \in Key : WriteLeg(k)) \/ DeleteUnwanted \/ Commit

WriterStep == (\E p \in Plans : Begin(p)) \/ FinishTx \/ Rollback

Drain == Fetch \/ LockTrace \/ Load \/ Store \/ Unqueue

Next == WriterStep \/ (\E e \in LateEntity : EntityLands(e)) \/ Drain \/ Crash

Spec == Init /\ [][Next]_vars

(* The processor keeps running, an open transaction ends, and Postgres grants  *)
(* a lock in the order it was asked for, so nobody waits for it forever.       *)
Fairness ==
  /\ WF_vars(Fetch) /\ SF_vars(LockTrace) /\ WF_vars(Load) /\ WF_vars(Store)
  /\ SF_vars(Unqueue)
  /\ WF_vars(FinishTx)

FairSpec == Spec /\ Fairness

--------------------------------------------------------------------------------
(****************************************************************************)
(* Properties.                                                               *)
(****************************************************************************)

TypeOK ==
  /\ interactions \in [Interaction -> Optional(InteractionRow)]
  /\ interaction_legs \in [Key -> Optional(LegRow)]
  /\ entities \subseteq Entity
  /\ lineage_metadata \in [Key -> Optional(MetadataRow)]
  /\ lineage_trace_status \in [Trace -> Optional(StatusRow)]
  /\ dirty \in [Trace -> Nat] /\ cursor \in Nat
  /\ legs_seq \in Nat /\ dirty_generation \in Nat
  /\ lock \in [Trace -> {"free", "writer", "lineage"}]
  /\ wpc \in {"idle", "interactions", "legs", "commit"}
  /\ IF wpc = "idle" THEN plan = NoPlan ELSE plan \in Plans
  /\ todo \subseteq {k \in Key : plan.legs[k] # Absent}
  /\ tx_interactions \in [Interaction -> Optional(InteractionRow)]
  /\ tx_legs \in [Key -> Optional(LegRow)]
  /\ queued \in BOOLEAN /\ txs \in Nat
  /\ phase \in {"fetch", "lock", "load", "store", "unqueue"}
  /\ arm \in {"cursor", "dirty", "stale"}
  /\ batch \in SUBSET Item /\ more \in BOOLEAN
  /\ item \in Item \cup {NoItem}
  /\ derived \in [Key -> Optional(MetadataRow)]
  /\ claim \in Optional(StatusRow) /\ crashes \in Nat

(* The stored lineage of a trace is what deriving it now would store. *)
Current(t) ==
  /\ \A k \in KeysOf(t) :
       lineage_metadata[k] =
         DeriveRows(t, interactions, interaction_legs, entities)[k]
  /\ lineage_trace_status[t] = DeriveStatus(t, interactions, interaction_legs)

(* The cursor arm will still be offered a leg of the trace. *)
Ahead(t) ==
  \E k \in KeysOf(t) : Visible(k) /\ interaction_legs[k].seq > cursor

(* No lineage row outlives its leg.  trace_lock.py: a lineage write that lands *)
(* after the delete triggers ran would be a permanent orphan.                  *)
NoOrphanLineage ==
  \A k \in Key : lineage_metadata[k] # Absent => Visible(k)

(* No correction is ever lost: a trace whose stored lineage or coverage claim  *)
(* differs from a fresh derivation is in the queue, or the cursor arm or the   *)
(* sweep will find it, whatever either process does next.                      *)
NoLostCorrection ==
  \A t \in Trace :
    Current(t) \/ dirty[t] > 0 \/ Ahead(t) \/ StaleLegs(t) # {}

(* The sweep never spins: it does not report a trace that re-deriving could    *)
(* not change (_fetch_stale_traces, "an unbounded work loop").                 *)
SweepQuiet ==
  \A t \in Trace : Current(t) => StaleLegs(t) = {}

(* The durable cursor never moves back, so no leg is offered again             *)
(* (_redrive_stale: advancing to a stale leg would drag the cursor backwards). *)
CursorMonotone == [][cursor' >= cursor]_vars

(* Once the writer stops, lineage catches up for good: every trace becomes and *)
(* stays current, and the queue empties.                                       *)
Converges ==
  <>[](\A t \in Trace : Current(t) /\ dirty[t] = 0)

================================================================================
