# A TLA+ model of the data-governance pipeline

The repository receives OpenTelemetry spans of agentic applications, derives
from them who called whom with which data, and computes for every leg of every
call where its data came from.  Its processes meet only in one Postgres
database: each follows a stream of rows by a durable cursor, is woken by
`NOTIFY` or a poll timeout, and may be killed and restarted at any point.  This
directory holds TLA+ modules translated from that code, TLC configurations that
check them on small instances, and TLAPS proofs for every instance.

Paths below are relative to `src/data_governance/` unless they start with `src/`.

## The system

| Component | State it keeps | Operations |
|---|---|---|
| OTLP receiver (`processors/otlp_receiver/`) | `spans`, `rejected_spans`, `blocked_span_counts` | gRPC and HTTP `Export`: per span block, write (insert, finalize, or find a duplicate), reject; per batch acknowledge, partially succeed, or ask for a retry |
| Shared stream driver (`processors/_driver.py`) | `processor_state` (one cursor per processor) | read cursor, drain, LISTEN wake loop, poll loop |
| Interactions writer (`processors/interactions/`), one of three algorithms: sidecar (`sidecar.py`, what the manifests deploy), streaming (`procedure.py`, `state.py`, the program's default), graph (`graph/`, `graph_adapter.py`, `graph_driver.py`) | `entities`, `interactions`, `interaction_legs`, `interaction_payloads`, `interaction_spans` | sidecar: derive a whole trace, write what it wants, delete what it no longer wants; streaming: load the lineage of one span, emit what it completes, repair what it encloses; graph: derive a whole trace on every span, upsert |
| Causal leg order (`interaction_order.py`) | none | order the legs of one trace |
| Lineage triggers (`db/migrations/versions/2026_10_06_0026_causal_leg_order.py`) | `data_lineage_dirty_traces`, its generation sequence | queue a trace, drop the lineage of a deleted leg |
| Data-lineage processor (`processors/data_lineage/`, `processors/trace_lock.py`, `matching/`) | `lineage_metadata`, `lineage_trace_status`, its cursor | the cursor arm, the queue arm, the stale sweep |
| Classification (`processors/classification/`) | `payload_classifications`, its cursor | one verdict per payload, in stream order |
| Leg readiness (`processors/leg_ready/`, `processors/readiness_cursor.py`) | its cursor; messages | deliver each leg once its payload has a verdict, in order |
| Entity readiness (`processors/entity_ready/`) | its cursor; messages | deliver each entity once |
| Live trace pages (`api/live.py`, `retrieval/trace_version.py`) | subscribers, one LISTEN connection | wake subscribers, send a trace's version when it changes |
| Read side (`retrieval/`, `api/`) | none | the paged lists of traces and of a span's children, the walk behind the provenance graph, other queries over the tables |
| Web UI (`src/ui/`) | pages, the span tree, what is being fetched | page the list, expand and page a tree, reveal a span, keep an open page current |
| Schema (`db/`) | `alembic_version` | migrate, check the version at start |
| Deployment (`src/deploy/`), offline classification model (`src/classification/`), tools | - | - |

How they interact:

    OTLP --> receiver --> spans --> interactions writer --> entities ----> entity readiness
                            |           |                   payloads ----> classification
                            |           |                   legs ---------> leg readiness <-- verdicts
                            |           +-- triggers -----> dirty traces --+
                            |                               legs ----------+--> data lineage --> live pages
                            +--> lists and trees of spans                         |
                                                                                  +--> provenance graph

Every arrow is a table, read by cursor (`seq > cursor ORDER BY seq LIMIT n`) or,
on the read side, by request.  A `NOTIFY` only shortens the wait.  The receiver
runs as two replicas with ten threads each; the interactions writer and the
lineage processor run as one replica each, and the manifests never let a second
one start beside it (`src/deploy/k8s/70-interactions.yaml`,
`90-data-lineage.yaml`).

What is hard:

- *Interleaving.*  The writer rewrites a trace, statement by statement, while
  the lineage processor reads it, and both commit to tables the other reads.  A
  reader pages through spans that arrive and are completed in between.
- *Order.*  A sequence number is drawn when a row is written and becomes
  visible when its transaction commits; a cursor can pass it in between.  The
  spans of a trace arrive in any order and each algorithm acts on a part of it.
- *Corrections.*  A late span changes rows the cursors have passed.  Triggers,
  a queue with generations and a sweep exist to notice.
- *Crashes.*  Every processor may die between any two transactions.
- *Retries.*  A collector repeats a batch of which a part was already stored.

For each component the properties that make it correct are in PROJECT.json under
`hazards`, at the line where they would break.

## What is modelled

### `LineageDerivation`: one whole-trace derivation

Pure operators for `load_trace` and `derive_trace_lineage`: the legs of a trace,
their causal order, the cutoff at the first leg without a payload
(`Prefix`, ADR-0028 D6), the legs that get a row (`Covered`), the coverage claim
(`DeriveStatus`).  A derived row carries the *inputs* of its lineage triple (the
rows of every leg at or before it, and which producers are known) in place of
the triple, which is a function of them.  So two rows are equal exactly when
nothing the derivation reads has changed, and "the stored lineage is current"
means the strongest thing it can.

### `LineageSync`: the interactions writer and the lineage processor

The writer's state is one open transaction: the plan it is writing, its own view
of the tables (`tx_interactions`, `tx_legs`), and whether a trigger has queued
the trace.  Its actions are the statements in the order the code issues them:

| Action | Code |
|---|---|
| `Begin` | `sidecar.derive_trace`: the trace lock, then the plan |
| `WriteInteractions` | the interaction upserts, with trigger `dg_lineage_interaction_dirty` |
| `WriteLeg(k)` | one leg upsert, with `dg_lineage_leg_inserted` or `dg_lineage_leg_dirty` |
| `DeleteUnwanted` | step 4 of `sidecar._write`, with the delete triggers |
| `Commit`, `Rollback` | the end of the transaction; the pod may die |
| `EntityLands(e)` | an entity whose row lands after an interaction names it |

The processor's actions are the transactions of its drain loop: `Fetch` (the
batch read of the current arm), `LockTrace`, `Load`, `Store` (the rest of
`process_leg`, with the cursor advance in the cursor arm), `Unqueue` (the
conditional delete of the queue row, a transaction of its own), and `Crash`.
`arm` is the arm of `_drain_spec`: new legs, queued traces, stale traces.  The
end of the stale arm leads back to the first one: that step is the wait for a
`NOTIFY` or the poll timeout.

`Algorithm` selects the writer: `"sidecar"` takes the trace lock, deletes, and
draws leg numbers from the sequence; `"graph"` supplies its own ordinals as leg
numbers and never deletes; `"streaming"` draws from the sequence and never
deletes.

What a writer may want to store is the constant `Plans`, a set of complete
plans.  This module does not say how a plan follows from spans: any plan may
follow any other, which includes every order in which late spans can change a
trace.  The modules of the three algorithms below say what plans there are.

Simplifications, each with its reason:

- A transaction's rows become visible at `Commit`, all at once (READ
  COMMITTED).  Its trigger reads see committed rows and its own.
- The rows the delete triggers remove from `lineage_metadata` go at `Commit`.
- `load_trace`'s reads of legs and entities are one step.
- The queue's generation is drawn at `Commit`: a transaction keeps the queue row
  locked from its first trigger to its end, so nobody sees another value.
- The trace lock is per trace; the code's lock may also be shared by two traces
  whose hashes collide, which only makes them wait.

### `SpanStore` and `OtlpReceiver`: the receiver

`SpanStore` is the abstract promise of ADR-0004 about one span's row: inserted
once, completed at most once, each time under a `seq` nobody has.
`OtlpReceiver` is the two handlers' loop: `Export` takes a batch, `Skip` and
`Reject` go past a span, `Execute` is the `INSERT ... ON CONFLICT` of
`write_span` (its row lock is held until the transaction's end), `Commit`
the end of that transaction, `Reply` the answer, `Fail` a lost connection or a
dead handler.  A batch may be sent again at any time, also while its first
attempt still runs.  `StorePromise` is the refinement: `Store!Spec`, the
variable `spans` mapped to the committed table.

### `Driver`: the shared loop

`processors/_driver.py` as one state machine, `mode` being the phase of `run`
(first drain, opening the session, listening, polling) and `batch` what `drain`
has read.  The writers of the table draw a number and commit later, in any
order, or roll back.  A session may drop, a notification get lost and the
process restart at any point.  `late` records the items that became visible
after the loop had gone past them: the gap `docs/PROJECT.md` documents.

### `SidecarPlan`, `SidecarReconcile`, `EntityReady`

`SidecarPlan` is `plan_trace` over a set of spans: which requests are anchors,
whose echo names a callee, callers and parents by the nearest ancestor, which
entity keys are provisional.  `SidecarReconcile` is the processor around it:
spans arrive in any order, each is processed once by deriving its whole trace,
writing and deleting what differs, and retiring provisional entities nobody
names.  `EntityReady` composes it with the consumer of `entities.seq`.
`SidecarTraffic` holds the spans of the instances.

### `StreamEndpoints`, `StreamDerivation`: the streaming algorithm

`StreamEndpoints` decides caller and callee of the edge a span anchors, as far
as the spans in sight decide them: the rules of `canonical_identity.py` and of
`_classify_oi_endpoint`, `_resolve_cross_service_caller` and their like, each
with what it needs to have seen (a tool's transport is unknown until a span
below it says so).  `StreamDerivation` is `process_span` around it: `Rehydrated`
(`state.rehydrate`: the span's ancestors and subtree, and the stored rows that
touch them), `Emitted` (`_retry_pending_endpoints` over the lineage),
`Repaired` (`_repair_after_arrival`: owners of spans and parents of
interactions in the region), `Flushed` (`state.flush`, with which rows are
replaced, which are overwritten, and how a leg's window widens).  Spans arrive
in any order behind a cursor, are completed later under a new number, and the
stream may be replayed.  The roles `info` and `connector` are one (`inner`), and
a span's data are those of its last write.

### `GraphFacts`, `GraphExecution`, `GraphEntities`, `GraphAdapter`, `GraphDriver`

The graph algorithm, a module per stage.  `GraphFacts` is what `adapters.py` and
`classifiers.py` read off one span: its colour, kind, role and natural key.
`GraphExecution` is steps 1 and 2: the links between spans, duplicated and
inferred nodes, and the three merges (an inferred callee with the span in which
another service records the call, equal records of one processing, a replayed
call with the call), then the absorption of a tool by the agent that serves it.
`GraphEntities` is step 3 and the extractor: groups, labels, combined entities,
transport chains, and the walk that gives every side of a call its place.
`GraphAdapter` is `adapt`: identities, the stack that joins two sides into an
interaction, times, parents and evidence rows.  `GraphDriver` is the process:
every span has the whole trace derived anew and stored over what is there.

Where the code iterates a set of random ids or compares hashes, an outcome is
chosen: `luck` fixes which of several services names an agent, in which order
ties come, and which of several interactions on a span encloses others.
Deployed tools, external hosts and the schema variants of framework versions
are left out.  A derivation that raises is repeated for ever, as `_driver.py`
does with an exception.

### `LegReady`: classification and leg readiness

The writer's legs and payloads, the classifier's verdicts in the order of
`payloads.seq`, and the readiness consumer: the batch query with its verdict
column, `contiguous_prefix`, the deliveries one transaction each, the restart.
`Ordinal` selects between numbers from the sequence and the graph writer's.

### `LegOrder`: the causal order

`interaction_order.py` as operators: bounds, the asynchrony test, sort times
from the root down, groups, ranks, the release loop with its breaking of
cycles.  The code's heap and depth-first walk appear as the order they produce.
The legs of a trace land one at a time, with every time or none; every set of
legs on the way is ordered again, so the properties cover all sets of legs and
the action property relates two consecutive ones.  `TraceLegs` has what this module
and the next share: an interaction's two legs.

### `LineageWalk`: the provenance graph

`retrieval/lineage_graph.py`: a breadth-first walk over the legs of one trace in
causal order, upstream or downstream from an entity.  An entity is expanded
again when it is reached by a leg that opens more legs than before, or at a
lesser depth.  The state is the queue, the best arrival and depth of every
entity, and the answer (`hops`, `reported`, `frontier`, `truncated`); the steps
are those of `_walk`'s loop.  The reference the answer is compared with is the
rule itself: `Arrivals`, the pairs of entity and leg that paths of n legs reach.

### `SpanListing`, `SpanBrowser`: lists and trees of spans

`SpanListing` holds the reads of `retrieval/spans.py` as operators over one
snapshot: listing roots, the page of traces after a cursor, a page of children,
counts.  `SpanBrowser` is a reader: the infinite list of
`RecentTracesPage.tsx`, the tree of `SpanTree.tsx` with pages of children asked
for twice and answered out of order, and `reveal`, which works on a copy of the
tree and merges it at its end.  The writer is the table's promise, `SpanStore`,
between any two requests.

### `LivePage`: one open page

The hub's LISTEN session and `_wake_all`, one `_stream` with its event, the
version token read by two statements, the tokens on their way, the browser's
`EventSource` with its closed state, the poll and reopen timers, and the page's
queries.  A trace is two parts written by different processors; the lineage
part changes without any notification.  Everything between a commit and the
picture may fail, any number of times.

A read is sent (`pending`), answered with the version of that moment (`served`,
`reply`) and lands (`Land`).  What an invalidation does to a read under way is
TanStack Query 5's rule (`JoinedReads`): of a query with data the read is taken
back and starts again; a query without data (`bare`), whose first read is under
way, keeps that read, and when it lands the query is no longer invalidated.  The
page may find a view in the query cache, or read it for the first time.  Two
kinds of view wait for the trace's next change, since a token is not sent twice:
one whose read and retry both failed (`failed`), and one whose first read had
been answered with less than the token stands for when the token came
(`swallowed`).

## What the runs check

| Run | Instance | Question |
|---|---|---|
| `lineage` | 2 traces, 3 interactions, sidecar plans, batches of 2, 3 transactions, 1 crash, fairness | Can a lineage row outlive its leg, can a correction get lost, can the sweep spin, can the cursor move back, and does lineage catch up with everything, for good? |
| `receiver` | 2 handlers, 2 batches over the same two spans in opposite orders, one malformed and one blocked span, each batch sent twice, 1 fault, fairness | Does the receiver implement the span store under concurrent handlers and retries, is an acknowledgement ever wrong, can handlers block each other? |
| `driver` | 2 open writers, 4 items, batches of 2, 2 faults, fairness | Which items can the cursor lose, and are all others processed? |
| `entities` | 5 spans in 2 traces in every arrival order, batches of 2, 1 restart | Do the derived tables depend on the arrival order, is any reference left dangling, is an entity delivered twice? |
| `leg_ready` | 2 interactions, 2 payloads, 3 transactions, 1 restart, fairness | Are legs delivered in order, after their verdicts, without gaps, in the end? |
| `leg_order` | 3 interactions (6 legs), times 0 to 2 and unknown, tolerance 1; a chain, a fork under a self-parent, a cycle with a child | Is the order causal and stable, whatever the clocks and the links say? |
| `live_page` | 1 change of each part, 1 token under way, unbounded failures, fairness | Is a wake slept over, is a view left behind a token, does an open page catch up, for good? |
| `span_browser` | 9 spans in 4 traces, pages of 1, 2 writes, 3 requests for children, 1 reveal, 1 failure | Does paging list everything once while rows move, and does a reveal show its span? |
| `lineage_walk` | every trace of 4 legs among 4 entities in 6 shapes, at most one leg undelivered or without the source, both directions, two pairs of bounds | Is the answer what the rule of causally ordered legs reaches, at least distances, by routes that hold together, and final where nothing was pending? |
| `streaming` | 2 traces of 7 or 8 spans (a delegation, a deployed tool), every arrival order with at most 2 spans waiting, 1 completion or replay | Do interactions, owners and windows end as the whole trace gives them? |
| `graph` | 5 traces (a replayed tool call, a model recorded twice, a nested retry, a delegation over HTTP, an agent without a span), every arrival order with at most 2 spans waiting, 1 replay, two outcomes of luck | Are calls kept, ordered, paired and nested rightly in every derivation on the way? |
| `graph_converges` | the replayed tool call | Do derivations of a growing trace converge? They do not: see Findings |

The bounds, and why they are enough:

- *Lineage.*  The plans (`FewSidecarPlans`) are chosen so that what the triggers
  and the sweep exist for can happen: an interaction disappears when its echo
  arrives, its endpoint is retargeted, a leg's time, payload or order changes, a
  leg without a payload cuts the trace short and later gets one, an entity lands
  late, a second trace competes for the cursor.  Three transactions are a first
  version, a correction while the processor works on the first, and another
  while it works on the correction; a batch of two covers an item that changed
  while it waited in memory.  The numbers of
  this run come from the sequence in the order of the commits, so the insert
  trigger's comparison with the cursor never fires in it; that one does with the
  graph writer's ordinals (`LineageSync_tied.cfg`).
- *Receiver.*  Two handlers over the same two spans in opposite orders are the
  least that can wait for each other; a partial and an end version of each span
  meet in both orders, first as strangers and then as retries.
- *Driver.*  Two writers can commit against the order of their numbers; four
  items fill a batch of two, leave one behind and let one arrive during the
  drain; two faults are a lost notification and a lost session, or two restarts.
- *Entities.*  The two traces share one provisional entity, which one of them
  retires; every span of the first changes what the others mean.
- *Leg readiness.*  Two interactions and two payloads give a leg that waits for
  a verdict behind and in front of legs that do not; three transactions withdraw
  one and write it again.
- *Leg order.*  Times 0 to 2 with a tolerance of 1 have an equal time, one within
  the tolerance and one beyond it; three interactions have a grandchild, two
  siblings, and a cycle with a leg downstream.  The numbers run against the
  calls, so that an order that follows the numbers is wrong.
- *Live page.*  To catch up, one change is enough: it is the last one, and the
  token, the picture and the reads of the version before it are there when it
  comes.  The two invariants are proved for any number of changes, and were checked
  with `MaxWrites = 2`, where a second change meets every stage of the way of the
  first, in 3.2 million states without the liveness property.
- *Span browser.*  With pages of one row every row is a page boundary.  The
  traces are chosen so that an orphan starts before its root, a root arrives
  late, an exchange hides and then shows a trace, and a child is completed
  between two pages.  Two writes can move one row and change another; three
  requests are two for one parent, which can overtake each other, and one more.
- *Lineage walk.*  Four legs among four entities are the least in which an entity
  is reached late and deep, reached again sooner, and has a leg between the two;
  the bounds of two entities and two hops cut walks off in the middle.
- *Streaming.*  The two traces have every rule that decides an endpoint, a
  failing step that ends after its call, and a service that sends no spans.
  With two spans waiting a span can be processed while its parent is there but
  not yet in sight.
- *Graph.*  Each trace has one of the merges at its heart.  All spans but the
  unprocessed ones are in sight, so `MaxBehind` of 2 separates what is stored
  from what is processed.

Most configurations turn deadlock checking off: the bounded writers run out,
the consumers catch up, and the system then rightly waits.

Properties that carry the design:

- `NoLostCorrection`: *whenever a trace's stored lineage differs from what
  deriving it now would give, something durable still leads the processor to
  it*: the queue, the cursor, or the sweep.  `Converges` adds that it gets there.
- `StorePromise`, `AckMeansKept`: what the table promises, and what a sender may
  conclude from a success.
- `NoneLost`: the only items a cursor loses are those that became visible late.
- `Converged` (sidecar), `WholeGraph`, `OwnersSettle` (streaming): the tables are
  a function of the set of spans, not of their order.
- `ReplaysAreOne`, `LegsOfOneCall`, `Nested`, `AgentsServe` (graph): a call is one
  interaction, its two legs are its own, and it lies where it belongs.
- `NoneSkipped`: a cursor that a leg lies behind has delivered it.
- `OneBreakPerCycle`, `LateLeafMovesNone`: contradictory links cost one
  constraint per cycle, and a late child never pushes its parent's response.
- `AnswersTheRule`: the walk, with its re-expansions and its two marks per entity,
  answers what the edge rule says, no more and no less.
- `SettledIsFinal`: an answer that met no undelivered leg never changes, whatever
  the lineage processor still writes.
- `StableListedOnce`, `NoChildLost`: paging by a number that moves loses nothing.
- `PictureCoversToken`, `EventuallyShown`: no view is left behind a token the
  page has received, and none is left behind the trace; but for the two kinds
  that wait for the next change.

`ChildAnswersFirst` makes one exception, which the code makes too: a response
without a time that waits for a request stamped clearly after the parent's
response cannot come before it.

Besides the listed properties the modules state others, among them a type
invariant each, that hold on the instances above but are not part of the runs.
Proved below are `TypeOK`, `BrowserTypeOK`, `OrderTypeOK`, `RequestFirst` (no
response is delivered before its request), `TimesDecide` (where every link and
every answer agrees with the times, the causal order is theirs), `CountsAgree` (a
listed trace's counts and its error are of one snapshot) and `SeqUnique`;
`EmittedIsFinal` is only model-checked.  Those that fail are under Observations.
`LineageSync` was checked with the graph and the streaming writer as well, and a
part of the graph modules' operators was compared with the program itself on
randomly made traces.

Fairness:

- `LineageSync`: the processor keeps running (weak fairness of its steps), an
  open transaction ends (weak fairness of `FinishTx`), and Postgres grants a
  lock in the order of the requests (strong fairness of `LockTrace` and
  `Unqueue`).  Nothing forces a new transaction, a rollback, a crash or a late
  entity.
- `OtlpReceiver`: a handler thread goes on, or fails.
- `Driver`: the loop goes on; the writers, the notifications and the session
  need not.
- `LegReady`: the classifier and the consumer go on.  Restarts are bounded.
- `LivePage`: the stream's loop (its wait has a timeout), the browser's connecting
  and its timers, and the server's answer to each read.  An answer lands in the
  end (strong fairness of `Land`): while the stream is down every poll takes the
  read under way back, so some answer must come within the 2 seconds between two
  polls.  The hub, its session and the writers are owed nothing.

## What is proved

The proofs hold for any values of the constants, under the assumptions named in
the modules.

`LineageSync_proofs`: any sets of traces,
interactions, entities and payloads, any plans, every algorithm, any batch size
and any number of transactions and crashes.  Assumed are `TraceOfAssumption`,
`AbsentAssumption` and `SyncAssumption`: an interaction id belongs to one trace,
NULL is no value, and a plan names only interactions of its trace and a request
with every leg.

- `TypeCorrect`: `Spec => []TypeOK`.  The step that is not routine is that a
  coverage claim's `stopped_at_seq` is a number: it needs that among the gaps of
  a trace one is first in causal order (`FirstGap`), from the well-foundedness
  of the numbers (`NumberFacts`).
- `NoOrphans`: `Spec => []NoOrphanLineage`.  The invariant is not inductive by
  itself.  `OrphanInv` adds what the argument in `trace_lock.py` needs: rows
  leave the writer's transaction only in its last step and only from the trace
  whose lock it holds (`Transaction`), each side holds the lock it relies on
  (`LockHeld`), and the rows about to be stored belong to legs that exist
  (`DerivedVisible`).  The lock makes the two sides' traces differ.
- `SweepIsQuiet`: `Spec => []SweepQuiet`.  A consequence of what a derivation
  returns: a missing row of a current trace lies outside the stored prefix or
  has no known producer, and a current row names its producer.
- `CursorNeverMovesBack`: `Spec => CursorMonotone`, from the invariant that the
  cursor arm's batch lies at or above the cursor and is handled lowest first.
- `NothingSlipsThrough`: `Spec => []NoLostCorrection`, under the sidecar writer
  (`Algorithm = "sidecar"`).  The numbers that the graph algorithm supplies break
  the property, `LineageSync_tied.cfg` shows how.  `SyncInv` is the invariant.  A
  trace outside the queue is *settled*: its stored rows are what a derivation
  gives with the entities that were known at some earlier time.  A settled trace
  that is not current lacks what an entity that arrived since would add, and that
  is what the sweep looks for (`SettledIsFound`); a trace with a leg past the
  cursor is the cursor arm's.  The remaining parts carry this over the steps:
  the trace lock keeps the writer away from a trace between the processor's read
  and its store (`OrphanInv`, `Touched`), a batch skips no leg (`CursorInv`), an
  open transaction's numbers lie past everything that was read (`Numbers`), and a
  transaction that queues nothing changes nothing that a derivation reads.

`OtlpReceiver_proofs`: any spans, versions, batches and handlers, any number of
repetitions and faults (`ReceiverAssumption`).

- `ImplementsStore`: `Spec => StorePromise`, the refinement.  Initial states map
  to initial states, a commit maps to `Insert` or `Finalize` of the span it
  writes, every other step to a stutter.  The invariant behind it says what an
  open transaction may rely on: a row is written only under the span's lock, so
  what `Execute` decided on (absent, or open) still holds at `Commit`
  (`PendingFits`, `PendingApart`), and every number in use was drawn (`Drawn`), so
  that the next one is new.
- `SuccessMeansKept`: `Spec => []AckMeansKept`: what a handler has gone past is
  stored as far as it was sent, counted or blocked, and stays so, since no later
  commit reopens a row.
- `NumbersAreUnique`: `Spec => []SeqUnique`.

`Driver_proofs`: any number of writers, items and faults, any batch size
(`DriverAssumption`: they are numbers, the first and the batch not zero).

- `TypeCorrect`: `Spec => []TypeOK`.
- `NothingLost`: `Spec => []NoneLost`.  The inductive invariant `LostInv` adds
  `BatchLowest`: below an item of the batch no visible item is unaccounted for,
  but late ones.  It holds when the batch is read because `ORDER BY ... LIMIT`
  keeps the lower of two items whenever it keeps the higher (`LowerIsRead`, by
  counting), and it survives commits because an item that commits below the
  batch is late.

`LegReady_proofs`: any interactions, payloads, re-derivations, withdrawals and
restarts, any batch size, provided that the writer draws its numbers from the
sequence (`FromTheSequence`, the streaming and the sidecar algorithm; the graph
algorithm's numbers break all four).  `Absent`, the missing row,
is no row (`LegReadyAssumption`).

- `DeliveredInOrder`, `JudgedFirst`, `NoneLeftBehind`: `[]InSeqOrder`,
  `[]VerdictFirst` and `[]NoneSkipped`.  `LegInv` says that a number names one
  leg, that the rest of a batch lies past the cursor, in order and judged, and
  (`BatchCovers`) that nothing stands between the cursor and an item of the batch
  but the batch itself.  A fetch establishes it because the legs past the cursor
  are finitely many, a prefix of the first of them is taken, and no two tie; a
  later write cannot break it, since what it adds lies above every number drawn.
- `RequestsFirst`: `[]RequestFirst`.  A response's row stands on its request's, which
  has the smaller number (`Paired`).  A batch is read later than it is delivered, and
  the interaction may be withdrawn and written again in between; `BatchPaired`
  says that a response in the batch has its request before it there, or delivered.
  A fetch establishes it by `NoneSkipped` if the request lies behind the cursor, and by
  what a prefix contains if it does not.

`EntityReady_proofs`: any finite set of spans of any traces, with any contents
(`EntityReadyAssumption`).

- `NeverRedelivered`: `Spec => []DeliveredAtMostOnce`.  `DeliveryInv`: a
  delivered lasting entity still has its row, with a number at or below the
  cursor, and a row waiting in the batch has not been delivered.  It rests on
  `RowsStay`: a re-derivation keeps every lasting row and its number.
- `NoDanglingEndpoint`: `Spec => []EndpointsExist`, although the retirement of
  one trace's derivation sees entities that other traces name.
- `NoDanglingParent`: `Spec => []ParentsLive`: the parent of a row is an anchor
  that the same derivation writes (`NearestIsTarget`), and a derivation rewrites
  all rows of its trace, so no older row names a parent that has gone.  Assumed is
  that every span has facts of `SpanFacts` (`FactsAssumption`).

- `AnyOrderConverges`: `Spec => []Converged`, under `EchoesAgree`: the inbound
  requests that show one call name one pod.  It holds of the run's spans, and
  without it the property is false: two pods below one call, of which one hides
  what the other received, are told apart by arrival (`ForkSpan`, under
  Observations).  `ConvergedInv` says that the seqs of the spans are distinct and
  that a trace whose spans are all behind the cursor has the rows its whole set
  of spans asks for; the plan of a set of spans is the same under any numbering
  of them (`AnyOrder`).

`WebUI_proofs`, about `LivePage`: any number of changes and of tokens on their
way.

- `NoWakeSleptOver`: `Spec => []WakeHeard`.  The event is cleared before the first
  of the token's two statements (`MarksHeard`), so a wake that comes in between
  finds it clear and sets it.
- `PageCoversItsToken`: `Spec => []PictureCoversToken`.  Nothing the server or the
  page holds is ahead of the tables (`NothingAhead`), so a read answered after the
  token shows at least what it stands for.  A token leaves no view settled
  (`NoneSettled`) and, of the answers on their way, only those to first reads;
  `AnswersCoverToken` says that each of these is new enough or `swallowed`.

`WebUI_proofs`, about `SpanBrowser`: any spans, start times and parent links, any
page size, any number of writes, requests, failures and reveals.  Assumed are
`SpanListingAssumption` and `TablesAssumption`: the table that the reader meets is
one the receiver can have left, so no two spans share a number (that is
`NumbersAreUnique`) and a span that was not completed still has its first one.

- `BrowserTypeCorrect`: `SpecBrowser => []BrowserTypeOK`.  The invariant, `ReadInv`,
  says that everything the list and the tree hold was read from the table: a span
  that is loaded is in the table under the number it was read with or a later one
  (`WasRead`), what is listed under a span are its children and is loaded, and the
  same for the answers on their way and for the copies a reveal works on.
- `RevealEndsShown`: `SpecBrowser => RevealShows`, from `ReadInv`: the chain of a
  reveal goes from child to parent, the merge ends with each of its spans listed
  under the next and all of these expanded (`MergeChains`), and what is drawn is
  closed under that (`RenderedLevels`, `ChainedIsRendered`).
- `NoChildIsLost`: `SpecBrowser => []NoChildLost`, for traces whose parents are not
  circular (`Acyclic`).  `AheadInv` says of every child that a span had when it was
  first read: it is listed, or every number that is listed lies below its own, so
  that the next page can still bring it (`TreeAhead`, and for pages on their way
  and copies `LoadsAhead`, `CopyAhead`).  It survives a completion since numbers
  only grow, and a page since a page behind a cursor leaves out only what lies
  behind the page (`PageOnward`).  What could break it is a number that goes up
  without the page that goes with it: a reveal fetches the spans of its chain one
  by one, and its merge puts these numbers over the tree's.  `CopyOlder` says why
  that does no harm: nothing was listed or asked for under the parent when the span
  was fetched.  A circle of parents through the root of the tree breaks exactly
  this, see Observations.
- `StableListed`: `SpecBrowser => []StableListedOnce`.  The invariant, `PagesInv`:
  the list goes on strictly in the listing's order, over page boundaries
  (`InListOrder`); a number on it is one that its span bears or bore, so that a
  cursor that is not refused is the last entry's own (`EntriesRead`,
  `CursorIsLast`); and the entry of a stable trace is on the list, on its way, or
  still behind both (`EntryOf`).
- `CountsAreRead`: `SpecBrowser => []CountsAgree`, from `ReadInv`: a listing root is a
  row of the snapshot that its counts are taken from (`AnswerCounted`).

`ReadSide_proofs`, about `LegOrder`: any interactions, parent links, times,
numbers and tolerance (`LegOrderAssumption`: numbers are distinct;
`TraceLegsAssumption`: None is no leg).

- `OrderTypeCorrect`: `SpecOrder => []OrderTypeOK`: the order has every leg and
  none twice.  The loop could stop early only where no leg is ready and none on a
  cycle, and that cannot be: what a leg that is not ready waits for is not ready
  either, and following that in a finite set comes back somewhere (`SomeCycle`).
- `CyclesBreakOnce`: `SpecOrder => []OneBreakPerCycle`.  A leg released before its
  preceder was released when nothing was ready, and then nothing it leads to was
  out yet (`BrokenFacts`); of two broken legs on one cycle the earlier was.
- `ChildrenAnswerFirst`: `SpecOrder => []ChildAnswersFirst`.  The sort times exist
  and are numbers, the groups are a forest: both follow a measure that falls from
  a leg to its parent's response and to its own (`MeasureFacts`, `BoundFacts`).
  What the ranks count is a strict order (`SmallerOrders`), so a leg that its
  parent's response pulls has a smaller rank (`RanksPulled`).  When the parent's
  response was released, the child's was not ready, so its request was ready and
  came first in rank, unless it is clearly asynchronous and the response untimed,
  which is the property's exception.
- `LateLeavesMoveNone`: `SpecOrder => LateLeafMovesNone`.  The legs of the other
  interactions refer only to each other and do so alike before and after the step
  (`LandsApart`); then their times, owners, groups and weights agree
  (`TimesAgree` to `PrecedesAgrees`), and what the ranks count is decided between two
  legs by these alone.  It is total (`SmallerTotal`), so each leg is the one that
  comes first among those of its kind that may be released (`NextOf`), whatever
  other legs are there, and the two orders cannot differ at a first place
  (`SameOrder`).
- `TimesAreKept`: `SpecOrder => []TimesDecide`.  Where the times contradict nothing
  no leg is pulled before its own time (`TimesKept`), by the measure again, so a
  group holds legs of one time, whoever owns them (`GroupsTimes`), and what the
  ranks count never runs against the times (`PrecedesInTime`).  A cycle cannot be
  there, so one of the earliest legs that are left is always ready
  (`EarliestReady`), and the one released is no later than that (`TimesInOrder`).

The invariant, `OrderInv`, is that the order is one the loop chooses (`Chosen`,
`Complete`) for ranks with that property (`RanksChildren`); for the last two theorems,
that they are the ranks of the legs there are (`ByRanks`).  That the recursive
definitions of the times, groups and orders name functions at all is proved from
the fact that each value depends on those of a smaller measure (`Recursion` in
`NumberFacts`).

`ReadSide_proofs`, about `LineageWalk`: any traces, rows, seeds and bounds
(`LineageWalkAssumption`: traces are sequences of legs whose interactions have
participants, bounds are at least 1).

- `RouteHangsTogether`: `SpecWalk => []RouteHolds`, from `Supported`: what is queued
  or still to cross hangs together with what is reported.
- `FrontierIsExact`: `SpecWalk => []FrontierIsOnward`.
- `WalkAnswersTheRule`: `SpecWalk => []AnswersTheRule`.
- `SettledStaysSo`: `SpecWalk => []SettledIsFinal`.  By `FrontierIsExact` no path of
  the rows there are meets an undelivered leg when the frontier is empty, and none
  leaves a seed with nothing next to it.  A row that lands changes only a leg that was
  undelivered, so path by path the same legs may be crossed (`ArrivalsOf`), and
  by `WalkAnswersTheRule` those paths lead to the answer.

The invariant is `WalkInv`.  `Ends[n]` are the ends of the paths of n legs.  One
half says that the walk stays on paths (`Sound`).  The other that it leaves none
out: it takes one depth after the other (`Layers`), the arrival it keeps at an
entity opens what every reported one would (`BestKept`), and once only depth m
and more is left, every path of m legs is followed on, at depth m at the latest,
by what is queued or by what was done (`LevelsDone`, `NothingDropped`).  From the
two follows that no shorter path leads to an entity of the answer (`Shortest`),
also when the bound on the entities cuts the walk off.  TLC checked `WalkInv` on the
run's instance before it was proved.

Only model-checked: the properties of the streaming and graph algorithms, which
rest on what recursive operators and derivations of whole traces compute, and of
which the first hold for the kinds of traces in the instances and not for every set
of spans; and every liveness property, which is beyond this prover.
`NoLostCorrection` is proved for the sidecar writer only: the streaming writer
takes no trace lock.

## Findings

- **Re-derivations of a growing trace leave stale interactions**
  (`graph_converges`).  The graph adapter puts the place of a call's request among
  all sides of the derivation into the interaction's id
  (`processors/interactions/graph_adapter.py:605`).  A later span shifts the places,
  the same call gets another id, and nothing deletes the row under the former
  one.  `graph_driver.py:14-17` says that re-running a trace as its spans arrive
  "converges rather than duplicating", and so does
  `src/tests/processors/interactions/test_graph_driver.py:106`.  The repository's
  own recorded traces show it: fed span by span, `patent_agent_I` ends with 11
  interactions stored of which 5 are of the last derivation, `travel_agent_II` with
  49 of which 25 are.

## Observations

Smaller disagreements between the code and its text, and behaviours a reader
should know of.  Each was shown by TLC; the configuration that shows it is in
this directory where one is named, and otherwise is that of the run with the
change that is given.

Receiver and driver:

- A span that fails with an unclassified error stops its batch
  (`processors/otlp_receiver/server.py:181-188`), on every retry, so the spans
  behind it are not stored; `write_span.py:23-24` and `src/docs/PROJECT.md:252` say
  it "never blocks a neighbour".  `receiver` with `Malformed` empty, `Unstorable`
  the bad span, and the property `NeighboursWritten`.
- An item that commits after the first drain and before LISTEN is registered waits
  for the first poll timeout, which the comment at `processors/_driver.py:236-238`
  says does not happen.  Nothing is lost.  `driver` with one writer, two items, no
  faults, and the invariant `NoticedAtOnce`.

Lineage and the readers of legs:

- `LineageSync_tied.cfg`: the graph writer numbers the legs of every trace by its
  own edge ordinals (`processors/interactions/graph_adapter.py:701`), so two traces
  commonly have a leg with the same `seq`.  The insert trigger queues the second of
  the two, but the first was above everything when it was written and is not
  queued.  When the cursor arm then handles the second first, and its batch ends
  there or the process dies before the next item, the cursor equals the first
  leg's `seq` and `seq > cursor` never offers it.  If that leg has no payload the
  sweep does not report it either, and its trace keeps the claim `complete` over a
  payload that was never captured.  The migration (`:9-18`) and the test
  `src/tests/processors/data_lineage/test_new_legs_reach_lineage.py:3-10` say a leg
  the cursor might never offer is queued.
- `LegReady_graph.cfg`: leg readiness skips legs numbered by ordinals.  The graph
  writer's first leg has number 0, which is never past a cursor that starts at 0,
  and a second trace's legs start below the cursor; `readiness_cursor.py:75-77`
  relies on numbers from the sequence.
- A re-derivation replaces a leg's payload in place (`state.py:585`) and the leg is
  not ready until the new payload's verdict; `src/CONTEXT.md:535-536` calls
  readiness a latch.  `leg_ready` with two transactions, no restart, and the
  property `ReadinessLatches`.

Sidecar algorithm:

- `EntityReady_missed.cfg`: an entity named late is never delivered.
  `_upsert_entity` gives a new entity the number of the request span it is named
  by (`sidecar.py:521`); one that only a later derivation names gets a number the
  consumer's cursor has passed.  The comment at `:533-534` promises first detection
  "delivered exactly once".
- With two inbound requests under one outbound anchor the first in `seq` order is
  its echo (`sidecar.py:464`), so the plan depends on the arrival order, against
  `:388-389`.  The wire contract gives an outbound request one echo; the instance
  of `entities` keeps to it.  `entities` with `Span <- ForkSpan`, `Converged`.

Streaming algorithm:

- `StreamDerivation_aside.cfg`: an interaction emitted at an ancestor of the span
  that arrives repairs the ancestor's whole subtree, fetched on demand
  (`state.py:191-203`), but a span's owner is looked for by climbing `spans_by_id`
  (`procedure.py:1003-1006`), which holds only the lineage of the arriving span.  A
  child of that ancestor on another branch is attached; its own child is not, since
  the climb ends at a parent that is not loaded.  The order r, l, s, g leaves l in
  no interaction for good, where `state.py:191-203` describes the territory of the
  other branches as repaired.
- The repair walks over siblings that are not in the lineage that was loaded, and
  the upsert of `state.py:636-643` then overwrites the anchor row of another call,
  though anchors are "emit-once, never deleted" (`state.py:615-617`,
  `procedure.py:956`).  `streaming` with `Traces <- MCBeside`, one span waiting, no
  replay, and the invariant `AnchorsKept`.
- A leg's window and error, called "AUTHORITATIVE, arrival-independent"
  (`state.py:646-698`), keep what a span said before another interaction took it
  over.  `streaming` with `Traces <- MCFailing`, `LegsOfOwnSpans`.
- The loss that the finalization tripwire (`driver.py:72-106`) watches for was not
  found in any instance.

Graph algorithm:

- A stored leg keeps its `seq` while the derivation's changes
  (`state.py:570-582`), so the places of legs from different derivations mix.
  `graph` with `Traces <- MCWrapped` and the invariant `SeqStays`.
- `GraphDriver_stuck.cfg`: an agent without a span that calls another such agent
  has a call that no span starts; the comparison in `step3_entity_graph.py:520-537`
  (whose comment, `:514-517`, says every key is complete) raises, for every later
  span of the stream too.
- Two services that both record a tool's call fold each into the other's span,
  `graph` with `Traces <- MCTwin`, where `LegsOfOneCall` fails.
- A dispatch, a handoff or a model's span without a key gives two interactions of
  an agent with itself, each with one leg, where `graph_adapter.py:527` says a leg is
  never made up.  A delegation whose agent lies directly below the transport span
  gives two interactions for one call.  A callback (A calls B, which calls A) is
  joined with the wrong side.  From 21 replayed tool calls on, the bands of input
  and output overlap (`_shared.py:126`).

Reads and UI:

- The page of a single trace and the list of traces may name different roots
  (`retrieval/spans.py:535-549` against `:576-578`).  `span_browser` with
  `Tables <- MCListTables` and the invariant `SameListingRoot`.
- A child that is completed behind the cursor is listed twice (`spans.py:438-441`,
  "neither duplicates nor skips can occur").  `span_browser` with
  `ChildListedOnce`.
- A reveal's merge takes back rows that were loaded while it ran
  (`src/ui/src/components/SpanTree.tsx:271`; the comment at `:267-269` says they
  survive).  `span_browser` with the property `RevealKeeps`.  A page of children
  that fails leaves its parent marked as exhausted (`:106`, `:117`).
- `LivePage_window.cfg`: the first token can be swallowed.  `live.ts:39-43` says that
  re-reading once at the first token "closes the window" between the page's first
  reads and that token, and so does `src/ui/src/api/live.test.tsx:94`.  But
  `invalidateQueries` (`live.ts:92`) takes a running read back only if its query has
  data.  A first read that the server answered before a change, and that is still on
  its way when the token of that change comes, is joined; it lands, the query is no
  longer invalidated, and the view shows the trace before the change until the next
  one.  The test counts the invalidations, not the reads.  The rule is that of
  TanStack Query 5 (`src/ui/package-lock.json`), whose code is not in the repository;
  the definitions that follow it are marked as external.
- A view of the page whose read and its one retry (`src/ui/src/main.tsx:23`) both
  fail keeps its old picture until the trace's next change.  While the stream is
  down, every poll (`live.ts:101`) takes a read under way back: a view whose reads
  take longer than 2 seconds is not read until the stream is up.  `live_page`
  with weak instead of strong fairness of `Land`, `EventuallyShown`.
- A trace whose parents are circular can lose a child in the tree: the reveal's
  merge replaces the number a listed span was read with by a later one, and the
  next page goes on from there (`src/ui/src/components/SpanTree.tsx:271`).  Four
  spans of which each is the parent of the next and the last of the first, the tree
  opened at one of them before its own parent has arrived, and a second child under
  another; `span_browser` with that table and `NoChildLost`.
- An entity that was reached is not named as pending though undelivered legs lie
  beyond it (`retrieval/lineage_graph.py:709`; the docstring at `:287-291` reads
  otherwise).  `lineage_walk` with the invariant `NothingPendingIsFinal`.

## Not modelled

- *Payloads and names.*  Payload extraction and canonicalisation, display names,
  entity evidence rows (`entity_spans`), content kinds.  Times and payloads are
  kept where a property tells them apart.
- *The lineage triple.*  The derivation's rows carry the inputs of the triple
  instead; its algebra (traversal, fan-in and fan-out, `matching/`) is a function
  of them and is not written out.
- *The other reads* (`retrieval/interactions.py`, `entities.py`, `payloads.py`,
  `lineage.py`, `get_lineage_summary`): projections of one snapshot.
- *The other views of the UI* (`traceTree.ts`, the interaction diagrams) and
  `useEntitiesAndInteractions`,
  which draws two reads together.
- *Graph:* deployed tools, external hosts, and the schemas of framework versions
  in `adapters.py`.  *Sidecar:* a span that breaks the wire contract makes
  `plan_trace` raise on every restart (`sidecar.py:404`); the instances keep to the
  contract.  *Receiver:* the counters of blocked and rejected spans
  (`server.py:97`), which a retried batch raises again.
- *Schema, deployment, the offline classification model, the trace loading tool:*
  one-shot scripts and manifests, read for replica counts, defaults and the
  constraints the modules rely on.
