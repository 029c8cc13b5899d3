--------------------------- MODULE StreamDerivation ---------------------------
(****************************************************************************)
(* The streaming derivation of one trace (interactions/driver.py, state.py,  *)
(* procedure.py). Spans are processed in the order of their seq, each in a   *)
(* transaction of its own: the part of the trace that the span is connected  *)
(* to is loaded with the rows derived from it, the interactions the span     *)
(* completes are emitted, the region below it and below them is repaired,    *)
(* and the result is written back. A span whose end is recorded later takes  *)
(* a new seq and is processed again; resetting the cursor replays them all.  *)
(*                                                                          *)
(* An interaction is known by the span that is its primary anchor. The roles *)
(* info and connector are one, "inner".                                      *)
(****************************************************************************)
EXTENDS StreamEndpoints

CONSTANTS
  Order,       \* the spans, a parent before its children
  Traces,      \* the traces that may be sent
  MaxBehind,   \* the spans that may wait for the processor
  MaxRedone    \* the spans finalized and the resets of the cursor

ASSUME StreamDerivationAssumption ==
  /\ MaxBehind \in Nat \ {0} /\ MaxRedone \in Nat
  /\ IsInjective(Order) /\ ToSet(Order) = Span
  /\ \A t \in Traces, n \in DOMAIN Order :
       ToSet(t[Order[n]].above) \subseteq ToSet(SubSeq(Order, 1, n - 1))

VARIABLES
  arrived,       \* the spans stored, in the order of their seq
  cursor,        \* how many of them have been processed
  interactions,  \* primary anchor -> [caller, callee, parent]
  own,           \* interaction_spans: span -> [ix, role]
  legs,          \* primary anchor -> [start, end, error] of its two legs
  entities,      \* the natural keys stored
  redone         \* bound: finalizations and resets
derived == <<interactions, own, legs, entities>>
vars == <<trace, arrived, cursor, derived, redone>>

Max2(a, b) == IF a < b THEN b ELSE a
Min2(a, b) == IF a < b THEN a ELSE b

(* Rows of new over rows of old. *)
Upserted(old, new) ==
  [x \in DOMAIN old \cup DOMAIN new |-> IF x \in DOMAIN new THEN new[x] ELSE old[x]]

Only(rows, keys) == [x \in DOMAIN rows \cap keys |-> rows[x]]

Anchoring(ix) == [ix |-> ix, role |-> "anchor"]
IsAnchor(rows, s) == s \in DOMAIN rows /\ rows[s].role = "anchor"

--------------------------------------------------------------------------------
(* Loading. *)

(* The spans connected to s: its ancestors and its subtree. *)
Lineage(seen, s) ==
  Subtree(seen, s) \cup ToSet(Before(Ancestors(s), LAMBDA a : a \notin seen))

SightOf(seen, view) ==
  [seen |-> seen, view |-> view,
   mcp |-> {Service(s) : s \in {x \in view : IsMcpServer(x) /\ Service(x) # None}}]

(* Mutant: an interaction is known by its other anchor, when it has two. *)
PrimaryOther(anchors, ix) ==
  IF anchors = {ix} THEN ix ELSE CHOOSE s \in anchors \ {ix} : TRUE

(* The anchor whose id gives the interaction's, when it is among them. *)
Primary(anchors, ix) == IF ix \in anchors THEN ix ELSE CHOOSE s \in anchors : TRUE

(* All the rows of the interactions that are loaded. *)
RowsOf(loaded) == Only(own, {s \in DOMAIN own : own[s].ix \in loaded})

(* rehydrate: what the processor holds before it processes a span. by has the  *)
(* interactions by the anchor they are known by, tools the tools by span.      *)
Rehydrated(view) ==
  LET anchors(ix) == {s \in view : s \in DOMAIN own /\ own[s] = Anchoring(ix)}
      loaded == {ix \in DOMAIN interactions : anchors(ix) # {}}
      keys == {Primary(anchors(ix), ix) : ix \in loaded}
      id == [k \in keys |-> own[k].ix]
      by == [k \in keys |-> [id |-> id[k]] @@ interactions[id[k]]]
  IN [by |-> by, rows |-> RowsOf(loaded),
      tools |-> [k \in {x \in keys : by[x].callee[1] = "tool"} |-> by[k].callee],
      entities |-> {}]

--------------------------------------------------------------------------------
(* Emission. *)

(* The nearest ancestor in view that anchors an interaction. *)
ParentOf(sight, by, s) ==
  LET above == SelectSeq(Chain(sight, s), LAMBDA a : a \in DOMAIN by)
  IN IF above = <<>> THEN None ELSE by[Head(above)].id

(* Mutant: a span that belongs to any interaction cannot anchor another. *)
FreeUnowned(rows, anchors) == anchors \cap DOMAIN rows = {}

(* Only a span that anchors an interaction already cannot anchor another. *)
Free(rows, anchors) == \A a \in anchors : ~IsAnchor(rows, a)

(* _upsert_entity: a callee that is a model or a tool is stored even while its *)
(* caller is not known.                                                        *)
Named(s, e) ==
  IF e.caller # None /\ e.callee # None THEN {e.caller, e.callee}
  ELSE IF IsOi(s, {"LLM", "TOOL"}) /\ e.callee # None THEN {e.callee} ELSE {}

(* _materialise: the interaction, if both its ends are known. *)
Materialised(sight, m, s, e) ==
  LET emits == e.caller # None /\ e.callee # None /\ Free(m.rows, e.anchors)
      ix == [id |-> s, caller |-> e.caller, callee |-> e.callee,
             parent |-> ParentOf(sight, m.by, s)]
  IN [by |-> IF emits THEN Upserted(m.by, s :> ix) ELSE m.by,
      rows |-> IF emits THEN Upserted(m.rows, [a \in e.anchors |-> Anchoring(s)])
               ELSE m.rows,
      tools |-> IF IsOi(s, {"TOOL"}) /\ e.callee # None
                THEN Upserted(m.tools, s :> e.callee) ELSE m.tools,
      entities |-> m.entities \cup Named(s, e)]

(* _retry_pending_endpoints, for one span. *)
Attempted(sight, m, s) ==
  IF s \in DOMAIN m.by THEN m
  ELSE Materialised(sight, m, s, EdgeOf(sight, m.tools, s))

(* _lineage_spans: the span, its ancestors and its subtree; a parent comes     *)
(* before its children there, the order of siblings decides nothing.           *)
Candidates(sight, s) ==
  <<s>> \o Chain(sight, s) \o
  SelectSeq(Order, LAMBDA x : x # s /\ x \in Subtree(sight.seen, s))

Emitted(sight, m, candidates) ==
  FoldLeft(LAMBDA acc, s : Attempted(sight, acc, s), m, candidates)

--------------------------------------------------------------------------------
(* Repair. *)

(* _innermost_owner_for: the nearest anchor on the span's own service. *)
OwnerOf(sight, by, s) ==
  LET around == SelectSeq(<<s>> \o Chain(sight, s),
                  LAMBDA a : a \in DOMAIN by /\ ~OnOtherService(s, a))
  IN IF around = <<>> THEN None ELSE by[Head(around)].id

(* The subtrees of the span and of the interactions that it has completed. *)
Region(seen, s, emitted) == UNION {Subtree(seen, r) : r \in {s} \cup emitted}

(* _repair_after_arrival: the rows and the parents of a region. *)
Repaired(sight, m, region) ==
  LET inner == {s \in region : Parent(s) # None /\ ~IsAnchor(m.rows, s)}
      owned == {s \in inner : OwnerOf(sight, m.by, s) # None}
      attached == [s \in owned |-> [ix |-> OwnerOf(sight, m.by, s), role |-> "inner"]]
  IN [m EXCEPT
        !.rows = Upserted(Only(m.rows, DOMAIN m.rows \ inner), attached),
        !.by = [k \in DOMAIN m.by |->
                  IF k \in region
                  THEN [m.by[k] EXCEPT !.parent = ParentOf(sight, m.by, k)]
                  ELSE m.by[k]]]

--------------------------------------------------------------------------------
(* Writing back. *)

(* The inner rows of the region are replaced, an anchor row overwrites. *)
RowsWritten(rows, region) ==
  LET kept == {s \in DOMAIN own : s \notin region \/ IsAnchor(own, s)}
      written == {s \in DOMAIN rows : s \in region \/ IsAnchor(rows, s)}
  IN Upserted(Only(own, kept), Only(rows, written))

(* An error outweighs its absence, and that outweighs not knowing. *)
ErrorOf(errors) ==
  IF "yes" \in errors THEN "yes" ELSE IF "no" \in errors THEN "no" ELSE "unset"

Says(s) == [start |-> trace[s].start, end |-> trace[s].end, error |-> trace[s].error]

(* _update_aggregates and the recompute of flush: the leg of an interaction,   *)
(* widened by the spans that belong to it now.                                 *)
Widened(leg, spans) ==
  [start |-> FoldSet(Min2, leg.start, {trace[s].start : s \in spans}),
   end   |-> FoldSet(Max2, leg.end, {trace[s].end : s \in spans}),
   error |-> ErrorOf({leg.error} \cup {trace[s].error : s \in spans})]

(* Mutant: only the spans that the processor has loaded count. *)
LegsWrittenInView(m, before, rows, sight) ==
  LET ids == {m.by[k].id : k \in DOMAIN m.by}
      old(ix) == IF \E k \in DOMAIN before.by : before.by[k].id = ix
                 THEN legs[ix] ELSE Says(ix)
  IN Upserted(legs, [ix \in ids |->
       Widened(old(ix), {s \in DOMAIN rows \cap sight.view : rows[s].ix = ix})])

(* The legs of every interaction that is loaded, by all of its spans. *)
LegsWritten(m, before, rows, sight) ==
  LET ids == {m.by[k].id : k \in DOMAIN m.by}
      old(ix) == IF \E k \in DOMAIN before.by : before.by[k].id = ix
                 THEN legs[ix] ELSE Says(ix)
  IN Upserted(legs, [ix \in ids |->
       Widened(old(ix), {s \in DOMAIN rows \cap sight.seen : rows[s].ix = ix})])

(* flush: the tables after a span. *)
Flushed(sight, before, after, rows) ==
  LET ids == {after.by[k].id : k \in DOMAIN after.by}
      key(ix) == CHOOSE k \in DOMAIN after.by : after.by[k].id = ix
  IN [interactions |-> Upserted(interactions, [ix \in ids |->
         [caller |-> after.by[key(ix)].caller, callee |-> after.by[key(ix)].callee,
          parent |-> after.by[key(ix)].parent]]),
      own |-> rows,
      legs |-> LegsWritten(after, before, rows, sight),
      entities |-> entities \cup after.entities]

RepairedAndFlushed(sight, before, emitted, region) ==
  LET after == Repaired(sight, emitted, region)
  IN Flushed(sight, before, after, RowsWritten(after.rows, region))

EmittedAndFlushed(sight, before, emitted, s) ==
  RepairedAndFlushed(sight, before, emitted,
    Region(sight.seen, s, DOMAIN emitted.by \ DOMAIN before.by))

(* process_span: load, emit, repair, write back. *)
Loaded(sight, before, s) ==
  EmittedAndFlushed(sight, before, Emitted(sight, before, Candidates(sight, s)), s)

Derived(s, seen) ==
  LET view == Lineage(seen, s) IN
  Loaded(SightOf(seen, view), Rehydrated(view), s)

--------------------------------------------------------------------------------
Init ==
  /\ trace \in Traces
  /\ arrived = <<>> /\ cursor = 0
  /\ interactions = <<>> /\ own = <<>> /\ legs = <<>> /\ entities = {}
  /\ redone = 0

Sent == {s \in Span : trace[s].sent}

(* The receiver stores a span. *)
Arrive(s) ==
  /\ Len(arrived) - cursor < MaxBehind
  /\ arrived' = Append(arrived, s)
  /\ UNCHANGED <<trace, cursor, derived, redone>>

(* The receiver updates a stored span: it takes the next seq. *)
Finalize(s) ==
  /\ redone < MaxRedone /\ Len(arrived) - cursor < MaxBehind
  /\ s \in ToSet(arrived) /\ s # Last(arrived)
  /\ arrived' = Append(Remove(arrived, s), s)
  /\ cursor' = IF s \in ToSet(SubSeq(arrived, 1, cursor)) THEN cursor - 1 ELSE cursor
  /\ redone' = redone + 1
  /\ UNCHANGED <<trace, derived>>

(* drain: the next span, and the cursor with it. *)
Process ==
  /\ cursor < Len(arrived)
  /\ cursor' = cursor + 1
  /\ \E d \in {Derived(arrived[cursor'], ToSet(SubSeq(arrived, 1, cursor')))} :
       /\ interactions' = d.interactions
       /\ own' = d.own
       /\ legs' = d.legs
       /\ entities' = d.entities
  /\ UNCHANGED <<trace, arrived, redone>>

(* An operator sets the cursor back to replay the stream. *)
Reset ==
  /\ cursor > 0 /\ cursor = Len(arrived) /\ redone < MaxRedone
  /\ cursor' = 0 /\ redone' = redone + 1
  /\ UNCHANGED <<trace, arrived, derived>>

Next ==
  \/ \E s \in Sent \ ToSet(arrived) : Arrive(s)
  \/ \E s \in Sent : Finalize(s)
  \/ Process \/ Reset

Spec == Init /\ [][Next]_vars

--------------------------------------------------------------------------------
(* What the whole trace says, every span in sight at once. *)

Whole ==
  LET sight == SightOf(Sent, Sent)
  IN Emitted(sight, [by |-> <<>>, rows |-> <<>>, tools |-> <<>>, entities |-> {}],
       SelectSeq(Order, LAMBDA s : s \in Sent))

CaughtUp == cursor = Len(arrived)
Complete == CaughtUp /\ ToSet(arrived) = Sent

(* What has arrived, with the rows that are stored. *)
Now == SightOf(ToSet(arrived), ToSet(arrived))
Stored == [k \in DOMAIN interactions |-> [id |-> k] @@ interactions[k]]

(* Rows and interactions are of spans processed, entities are natural keys. *)
TypeOK ==
  /\ cursor \in 0..Len(arrived) /\ IsInjective(arrived) /\ ToSet(arrived) \subseteq Sent
  /\ DOMAIN interactions = DOMAIN legs /\ DOMAIN interactions \subseteq ToSet(arrived)
  /\ DOMAIN own \subseteq ToSet(arrived)
  /\ \A s \in DOMAIN own : /\ own[s].ix \in DOMAIN interactions
                           /\ own[s].role \in {"anchor", "inner"}
  /\ \A k \in DOMAIN interactions :
       /\ {interactions[k].caller, interactions[k].callee} \subseteq entities
       /\ interactions[k].parent \in DOMAIN interactions \cup {None}

(* An interaction is emitted only once it is decided for good: whatever        *)
(* arrives later, in whatever order, the whole trace says the same of its      *)
(* caller and callee (procedure.py, "no future span can change it").           *)
EmittedIsFinal ==
  \E whole \in {Whole} :
    \A k \in DOMAIN interactions :
      /\ k \in DOMAIN whole.by
      /\ interactions[k].caller = whole.by[k].caller
      /\ interactions[k].callee = whole.by[k].callee

(* Every interaction keeps the row of its primary anchor, by which the next    *)
(* span finds it (state.py, "emit-once and never deleted").                    *)
AnchorsKept == \A k \in DOMAIN interactions : k \in DOMAIN own /\ own[k] = Anchoring(k)

(* Once the processor has caught up, every span that has arrived belongs to    *)
(* its innermost interaction and every interaction has the nearest one above   *)
(* it as its parent, in whatever order they came.                              *)
OwnersSettle ==
  CaughtUp =>
    /\ \A s \in {x \in ToSet(arrived) : ~IsAnchor(own, x)} :
         LET owner == IF Parent(s) = None THEN None ELSE OwnerOf(Now, Stored, s)
         IN IF owner = None THEN s \notin DOMAIN own
            ELSE s \in DOMAIN own /\ own[s].ix = owner
    /\ \A k \in DOMAIN interactions :
         interactions[k].parent = ParentOf(Now, Stored, k)

(* Once all of the trace has been processed its graph is the whole trace's, in *)
(* whatever order it came and however often it was replayed.                   *)
WholeGraph ==
  Complete =>
    \E whole \in {Whole} :
      /\ DOMAIN interactions = DOMAIN whole.by
      /\ entities = whole.entities
      /\ Only(own, {s \in DOMAIN own : IsAnchor(own, s)}) = whole.rows

(* The window and the error of an interaction are those of the spans that      *)
(* belong to it, in whatever order they came (state.py, "authoritative,        *)
(* arrival-independent").                                                      *)
LegsOfOwnSpans ==
  Complete =>
    \A k \in DOMAIN interactions :
      legs[k] = Widened(Says(k), {s \in DOMAIN own : own[s].ix = k})
================================================================================
