----------------------------- MODULE LineageWalk -----------------------------
(****************************************************************************)
(* The lineage graph read (retrieval/lineage_graph.py): which entities the   *)
(* content of one data source came from or went to, over one trace.  A       *)
(* breadth-first walk that may enter an entity again, at another position.   *)
(*                                                                          *)
(* A trace is what _fetch_legs returns of it: its legs in causal order (that *)
(* order is LegOrder's), who takes part in each interaction, and whether a   *)
(* leg's lineage row is there and carries the source.  A leg is its position *)
(* in that order.                                                            *)
(****************************************************************************)
EXTENDS Naturals, Sequences, FiniteSets, FiniteSetsExt, TraceLegs

CONSTANTS
  Entity,
  Traces,      \* the traces to walk: [legs, who]
  Rows,        \* what their lineage rows may be
  Seeds,       \* the entities asked about
  Limits       \* the bounds of a walk: [hops, entities]

Row == {"none", "carries", "lacks"}

ASSUME LineageWalkAssumption ==
  /\ \A t \in Traces :
       /\ t.legs \in Seq(Leg)
       /\ t.who \in [Interaction -> [caller : Entity \cup {None},
                                     callee : Entity \cup {None}]]
  /\ \A r \in Rows : \A n \in DOMAIN r : r[n] \in Row
  /\ Seeds \subseteq Entity
  /\ \A b \in Limits : b.hops \in Nat \ {0} /\ b.entities \in Nat \ {0}

VARIABLES
  trace, ask,                \* what is walked; [seed, direction, hops, entities]
  hops,                      \* the answer: entities with their distances,
  reported,                  \*   the legs of the route,
  frontier,                  \*   the far ends of undelivered legs,
  truncated,                 \*   whether a bound was hit
  bestArrival, bestDepth,    \* the most permissive arrival, the least depth
  queue,                     \* visits to make: [at, depth, arrival]
  visit                      \* the one being made: [at, depth, rest]

walking == <<trace, ask, hops, reported, frontier, truncated, bestArrival,
          bestDepth, queue, visit>>

--------------------------------------------------------------------------------
(* _adjacency. *)

Forward == ask.direction = "fanout"
Position == DOMAIN trace.legs

Producer(p) ==
  LET who == trace.who[trace.legs[p][1]]
  IN IF trace.legs[p][2] = "request" THEN who.caller ELSE who.callee
Consumer(p) ==
  LET who == trace.who[trace.legs[p][1]]
  IN IF trace.legs[p][2] = "request" THEN who.callee ELSE who.caller

(* Where the walk leaves a leg from, and where that takes it. *)
Origin(p) == IF Forward THEN Producer(p) ELSE Consumer(p)
Destination(p) == IF Forward THEN Consumer(p) ELSE Producer(p)

Adjacent(row, e) ==
  {p \in Position : /\ row[p] = "carries" /\ Origin(p) = e
                    /\ Destination(p) # None}
Undelivered(e) ==
  {p \in Position : /\ trace.row[p] = "none" /\ Origin(p) = e
                    /\ Destination(p) # None}

--------------------------------------------------------------------------------
(* _walk. *)

(* The seed has not arrived on a leg: it may leave on any. *)
SeedArrival == IF Forward THEN 0 ELSE Len(trace.legs) + 1

Eligible(p, arrival) == IF Forward THEN p > arrival ELSE p < arrival
MorePermissive(p, q) == IF Forward THEN p < q ELSE p > q

InitWalk ==
  /\ \E t \in Traces, r \in Rows :
       /\ DOMAIN r = DOMAIN t.legs
       /\ trace = [legs |-> t.legs, who |-> t.who, row |-> r]
  /\ \E e \in Seeds, d \in {"fanin", "fanout"}, b \in Limits :
       ask = [seed |-> e, direction |-> d, hops |-> b.hops,
              entities |-> b.entities]
  /\ hops = <<>> /\ reported = {} /\ frontier = {} /\ truncated = FALSE
  /\ bestArrival = [e \in {ask.seed} |-> SeedArrival]
  /\ bestDepth = [e \in {ask.seed} |-> 0]
  /\ queue = <<[at |-> ask.seed, depth |-> 0, arrival |-> SeedArrival]>>
  /\ visit = [at |-> ask.seed, depth |-> 0, rest |-> {}]

(* Mutant: undelivered legs on either side of the arrival. *)
OpenEither(v) == {Destination(p) : p \in Undelivered(v.at)}

(* Mutant: not where the walk has been. *)
OpenUnreached(v) ==
  {Destination(p) : p \in {q \in Undelivered(v.at) : Eligible(q, v.arrival)}}
    \ DOMAIN bestArrival

(* Where the walk could go on from here once a lineage row lands. *)
Open(v) ==
  {Destination(p) : p \in {q \in Undelivered(v.at) : Eligible(q, v.arrival)}}

Pop ==
  LET v == Head(queue)
      onward == {p \in Adjacent(trace.row, v.at) : Eligible(p, v.arrival)}
  IN
  /\ queue # <<>> /\ visit.rest = {}
  /\ queue' = Tail(queue)
  /\ frontier' = frontier \cup Open(v)
  /\ \/ /\ v.depth >= ask.hops
        /\ truncated' = (truncated \/ onward # {})
        /\ UNCHANGED visit
     \/ /\ v.depth < ask.hops
        /\ visit' = [at |-> v.at, depth |-> v.depth, rest |-> onward]
        /\ UNCHANGED truncated
  /\ UNCHANGED <<trace, ask, hops, reported, bestArrival, bestDepth>>

(* The leg to cross next: the nearest in the direction of travel. *)
Nearest(S) == IF Forward THEN Min(S) ELSE Max(S)

(* Mutant: an entity is walked from once. *)
OpensMoreOnce(target, arrival) == target \notin DOMAIN bestArrival

(* Whether an arrival leaves more legs to cross than any before. *)
OpensMore(target, arrival) ==
  target \in DOMAIN bestArrival => MorePermissive(arrival, bestArrival[target])

ArrivesSooner(target, depth) ==
  target \in DOMAIN bestDepth => depth < bestDepth[target]

Put(f, e, n) == [x \in DOMAIN f \cup {e} |-> IF x = e THEN n ELSE f[x]]

(* Mutant: a leg to an entity that is not returned is reported. *)
ReportsAll(target) == TRUE

(* A leg that would add an entity beyond the bound is withheld. *)
Reports(target) ==
  \/ target \in DOMAIN bestArrival
  \/ Cardinality(DOMAIN hops) < ask.entities

Distance(target, depth) ==
  IF target \in DOMAIN hops THEN Min({hops[target], depth}) ELSE depth

Enqueue(q, v) == Append(q, v)

Cross ==
  \E p \in {Nearest(visit.rest)} :
  LET target == Destination(p)
      depth == visit.depth + 1
      withheld == /\ target \notin DOMAIN bestArrival
                  /\ Cardinality(DOMAIN hops) >= ask.entities
      more == ~withheld /\ OpensMore(target, p)
      sooner == ~withheld /\ ArrivesSooner(target, depth)
  IN
  /\ visit' = [visit EXCEPT !.rest = @ \ {p}]
  /\ truncated' = (truncated \/ withheld)
  /\ reported' = IF Reports(target) THEN reported \cup {p} ELSE reported
  /\ hops' = IF withheld \/ target = ask.seed THEN hops
             ELSE Put(hops, target, Distance(target, depth))
  /\ bestArrival' = IF more THEN Put(bestArrival, target, p) ELSE bestArrival
  /\ bestDepth' = IF sooner THEN Put(bestDepth, target, depth) ELSE bestDepth
  /\ queue' = IF more \/ sooner
              THEN Enqueue(queue, [at |-> target, depth |-> depth, arrival |-> p])
              ELSE queue
  /\ UNCHANGED <<trace, ask, frontier>>

NextWalk == Pop \/ (visit.rest # {} /\ Cross)

SpecWalk == InitWalk /\ [][NextWalk]_walking

--------------------------------------------------------------------------------
(* get_lineage_graph. *)

Done == queue = <<>> /\ visit.rest = {}

PendingFrontier == frontier \ (DOMAIN hops \cup {ask.seed})

State ==
  IF hops # <<>> THEN "derived"
  ELSE IF PendingFrontier # {} \/ Undelivered(ask.seed) # {}
       THEN "pending" ELSE "no-adjacent"

--------------------------------------------------------------------------------
(* The edge rule: a path crosses legs that carry the source, each after the    *)
(* one before (before it, for a fanin).                                        *)

Start == {<<ask.seed, SeedArrival>>}

(* Where paths of n legs end, and on which leg, under these lineage rows. *)
Arrivals(row) ==
  LET At[n \in Nat] ==
        IF n = 0 THEN Start
        ELSE LET last == At[n - 1]
             IN {<<Destination(p), p>> : p \in
                  {q \in Position : \E x \in last :
                     q \in Adjacent(row, x[1]) /\ Eligible(q, x[2])}}
  IN [n \in 0..Len(trace.legs) |-> At[n]]

Within(arrivals) == UNION {arrivals[n] : n \in DOMAIN arrivals}
Reach(row) == {x[1] : x \in Within(Arrivals(row))} \ {ask.seed}

WalkTypeOK ==
  /\ DOMAIN hops \subseteq Entity /\ reported \subseteq Position
  /\ Cardinality(DOMAIN hops) <= ask.entities
  /\ \A e \in DOMAIN hops : hops[e] \in 1..ask.hops
  /\ frontier \subseteq Entity
  /\ DOMAIN bestArrival = DOMAIN hops \cup {ask.seed}
  /\ DOMAIN bestDepth = DOMAIN bestArrival
  /\ \A m, n \in DOMAIN queue : m < n => queue[m].depth <= queue[n].depth

(* The answer, where no bound was hit, is what the edge rule gives: the        *)
(* entities that paths reach and the legs they cross; and every distance,      *)
(* bounds or not, is that of the shortest path (_walk, "How hops stays         *)
(* correct").                                                                  *)
AnswersTheRule ==
  Done => LET arrivals == Arrivals(trace.row) IN
    /\ ~truncated =>
         /\ DOMAIN hops = Reach(trace.row)
         /\ reported = {x[2] : x \in Within(arrivals) \ Start}
    /\ \A e \in DOMAIN hops :
         hops[e] = Min({n \in DOMAIN arrivals : \E x \in arrivals[n] : x[1] = e})

(* What is reported hangs together, and with the seed, bounds or not: a leg    *)
(* leaves the seed, or an entity that an earlier leg of the route reached, and *)
(* ends at the seed or at an entity of the answer (_walk, "edges to nodes that *)
(* do not exist").                                                             *)
RouteHolds ==
  Done => \A p \in reported :
    /\ \/ Origin(p) = ask.seed
       \/ \E q \in reported : Destination(q) = Origin(p) /\ Eligible(p, q)
    /\ Destination(p) \in DOMAIN hops \cup {ask.seed}

(* The frontier is where the walk could go on, and no farther: the ends of     *)
(* undelivered legs that a path reaches from the right side (_walk, "a settled *)
(* never an edge").                                                            *)
FrontierIsOnward ==
  Done /\ ~truncated =>
    frontier = {Destination(p) : p \in
      {q \in Position : \E x \in Within(Arrivals(trace.row)) :
         q \in Undelivered(x[1]) /\ Eligible(q, x[2])}}

(* The lineage rows that may still land. *)
Landings ==
  {row \in [Position -> {"carries", "lacks"}] :
     \A p \in Position : trace.row[p] # "none" => row[p] = trace.row[p]}

(* An answer that met no undelivered leg is final: whatever rows land, the     *)
(* same walk gives it again.  A seed with nothing adjacent is such an answer   *)
(* (GetLineageGraphResult, "those are all complete answers").                  *)
SettledIsFinal ==
  Done /\ ~truncated /\ (frontier = {} \/ State = "no-adjacent") =>
    \A row \in Landings : Reach(row) = DOMAIN hops

(* So is one that names no pending entity (GetLineageGraphResult, "the honest  *)
(* distinction between provenance genuinely ends here and P-data-lineage has   *)
(* not got here yet").  But an undelivered leg to an entity already reached is *)
(* not on pending_frontier, and once it carries the source the entity is       *)
(* reached earlier and the walk goes on from it.                               *)
NothingPendingIsFinal ==
  Done /\ ~truncated /\ PendingFrontier = {} =>
    \A row \in Landings : Reach(row) = DOMAIN hops
================================================================================
