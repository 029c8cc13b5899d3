--------------------------- MODULE SidecarReconcile ---------------------------
(****************************************************************************)
(* The sidecar interactions processor (sidecar_driver.py over the shared     *)
(* drain loop): spans arrive in any order, each is processed once, in the    *)
(* order of seq, in one transaction that rewrites the span's whole trace.    *)
(*                                                                          *)
(* Simplifications.  A span becomes visible with the seq it drew (the loop's *)
(* treatment of gaps belongs to the loop, not to this algorithm).  A batch   *)
(* read ahead changes nothing here, since an item is only a trace and a seq. *)
(* A span arrives once and complete; the second arrival of one that ended    *)
(* later only derives its trace again.                                       *)
(* entity_spans holds exactly the endpoints of interactions under this       *)
(* writer, so the retirement's second guard adds nothing to the first.       *)
(****************************************************************************)
EXTENDS SidecarPlan

CONSTANTS
  Provisional,  \* entities named host:port, without a namespace, agent or tool
  Absent        \* no row

VARIABLES
  spans,         \* the seq of each stored span, 0 when it has not arrived
  span_cursor,   \* processor_state of "interactions"
  interactions,  \* the row of each anchor span, or Absent
  entities       \* the seq of each entity row, a function on the keys stored

reconcile == <<spans, span_cursor, interactions, entities>>

TraceOf(s) == Facts[s].trace

Stored(t) == {s \in Span : TraceOf(s) = t /\ spans[s] > 0}

Endpoints(ix) ==
  UNION {{ix[a].caller, ix[a].callee} : a \in {b \in DOMAIN ix : ix[b] # Absent}}

InitReconcile ==
  /\ spans = [s \in Span |-> 0]
  /\ span_cursor = 0
  /\ interactions = [s \in Span |-> Absent]
  /\ entities = [k \in {} |-> 0]

LastSeq == Cardinality({s \in Span : spans[s] > 0})

(* The receiver stores a span. *)
Arrive(s) ==
  /\ spans[s] = 0
  /\ spans' = [spans EXCEPT ![s] = LastSeq + 1]
  /\ UNCHANGED <<span_cursor, interactions, entities>>

(* What the wanted rows name: pairs of an anchor span and an entity. *)
Namings(want) ==
  UNION {{<<a, want[a].caller>>, <<a, want[a].callee>>} : a \in DOMAIN want}

(* The rows that name an entity without a row; the order in which they are     *)
(* written decides which seq it gets.                                          *)
Minting(namings) == {n[1] : n \in {m \in namings : m[2] \notin DOMAIN entities}}

(* The anchor spans of the rows that name entity k. *)
NamedBy(k, namings) == {n[1] : n \in {m \in namings : m[2] = k}}

Named(namings) == {n[2] : n \in namings}

(* Mutant: a conflict takes the new seq (EXCLUDED.seq). *)
UpsertNewestSeq(namings, place) ==
  [k \in DOMAIN entities \cup Named(namings) |->
     IF k \notin Named(namings) THEN entities[k]
     ELSE CHOOSE n \in {spans[a] : a \in NamedBy(k, namings)} :
            \A a \in NamedBy(k, namings) : spans[a] <= n]

(* _upsert_entity: a row that exists keeps its seq; a new one takes that of    *)
(* the anchor span of the first row that names it.                             *)
Upsert(namings, place) ==
  [k \in DOMAIN entities \cup Named(namings) |->
     IF k \in DOMAIN entities THEN entities[k]
     ELSE spans[CHOOSE a \in NamedBy(k, namings) :
                  \A b \in NamedBy(k, namings) : place[a] <= place[b]]]

(* Mutant: only the reconciled trace's references keep a provisional entity. *)
RetireHere(table, ix, want) ==
  [k \in {e \in DOMAIN table : e \in Provisional => e \in Endpoints(want)}
     |-> table[k]]

(* Step 7 of _write: a provisional entity that no interaction names goes.      *)
Retire(table, ix, want) ==
  [k \in {e \in DOMAIN table : e \in Provisional => e \in Endpoints(ix)}
     |-> table[k]]

(* Mutant: step 4 of _write is missing, nothing is deleted. *)
RewriteKeeping(t, want) ==
  [s \in Span |-> IF s \in DOMAIN want THEN want[s] ELSE interactions[s]]

(* Steps 2 to 4: the trace's interactions become those wanted.                 *)
Rewrite(t, want) ==
  [s \in Span |-> IF s \in DOMAIN want THEN want[s]
                  ELSE IF TraceOf(s) = t THEN Absent ELSE interactions[s]]

(* process_span, with the cursor advance in the same transaction.  anchor_ids  *)
(* is a set, so the rows are written in an order nobody chose.                 *)
Reconcile(s) ==
  /\ spans[s] > span_cursor
  /\ \A r \in Span : spans[r] > span_cursor => spans[s] <= spans[r]
  /\ span_cursor' = spans[s]
  /\ \E want \in {Want(Stored(TraceOf(s)), spans)} :
       LET namings == Namings(want)
           minting == Minting(namings)
       IN  /\ interactions' = Rewrite(TraceOf(s), want)
           /\ \E place \in [minting -> 1..Cardinality(minting)] :
                /\ \A a, b \in minting : place[a] = place[b] => a = b
                /\ entities' = Retire(Upsert(namings, place), interactions', want)
  /\ UNCHANGED spans

NextReconcile == \E s \in Span : Arrive(s) \/ Reconcile(s)

SpecReconcile == InitReconcile /\ [][NextReconcile]_reconcile

--------------------------------------------------------------------------------

(* An arrival order that nobody had: the reference for Converged. *)
SomeOrder ==
  CHOOSE f \in [Span -> 1..Cardinality(Span)] :
    \A r, s \in Span : f[r] = f[s] => r = s

(* Once every stored span is processed, each trace has exactly the             *)
(* interactions that the same spans would have given in any other order of     *)
(* arrival: nothing is left of a row that a late span made obsolete (sidecar   *)
(* module docstring, "any arrival order ... converges to the same tables").    *)
Converged ==
  span_cursor = LastSeq =>
    \A t \in {TraceOf(s) : s \in Span} :
      LET want == Want(Stored(t), SomeOrder) IN
      \A s \in {r \in Span : TraceOf(r) = t} :
        interactions[s] = IF s \in DOMAIN want THEN want[s] ELSE Absent

(* Every interaction names entities that have rows, whichever trace retired    *)
(* what (_write step 7, "safe across traces").  No foreign key checks this.    *)
EndpointsExist == Endpoints(interactions) \subseteq DOMAIN entities

(* A parent is a live interaction of the same trace, although the parent's     *)
(* row may have been deleted by this very transaction (_write step 2).         *)
ParentsLive ==
  \A s \in Span : interactions[s] # Absent =>
    LET p == interactions[s].parent IN
    p # None => interactions[p] # Absent /\ TraceOf(p) = TraceOf(s)
================================================================================
