----------------------------- MODULE GraphEntities -----------------------------
(****************************************************************************)
(* The entities of an execution graph and the calls between them              *)
(* (interactions/graph/step3_entity_graph.py and extractor.py). An entity is  *)
(* the set of its nodes. A chain is a call and its response: the two nodes it *)
(* joins, the spans that its two sides are dated by (call and resp), and the  *)
(* span it is nested by (at).                                                 *)
(****************************************************************************)
EXTENDS GraphExecution

--------------------------------------------------------------------------------
(* Entities. *)

(* build_entity_graph: the agentic nodes that are linked make a group. *)
Groups(g) ==
  LET links == {l \in Within(g) : IsBlue(l[1]) /\ IsBlue(l[2])}
  IN [n \in {x \in g.nodes : IsBlue(x)} |-> Component(links, n)]

(* The agent below a transport span is named by the service of its calls. *)
BareAgentKey(g, p) ==
  <<"agent", Service(FirstOf(g, LAMBDA s : s \in Models(ToSet(g.spans), p)))>>

(* Who runs in a group: a call or a query names its callee, so it says nothing, *)
(* unless it is the span in which the callee recorded the call.                 *)
AgentKeys(g, group) ==
  {Key(n[2]) : n \in {x \in group : /\ x[1] = "span" /\ Kind(x[2]) = "AGENT"
                                    /\ (x \in g.served \/ ~(IsCall(x[2]) \/ IsCombined(x[2])))}}
  \cup {BareAgentKey(g, n[2]) : n \in {x \in group : x[1] = "agent"}}

(* The natural key of a group; None, a bare service name or no name. A group    *)
(* whose spans name several agents takes any of them.                           *)
Label(g, group) ==
  LET callees == {n \in group : n[1] \in {"peer", "tool"}}
      copies == {n \in group : n[1] = "dup"}
      agents == AgentKeys(g, group) \ {None}
  IN IF callees # {} THEN NodeKey(CHOOSE n \in callees : TRUE)
     ELSE IF copies # {} THEN QueryTarget((CHOOSE n \in copies : TRUE)[2])
     ELSE IF agents = {} THEN None ELSE CHOOSE k \in agents : TRUE

Inferred(entity) ==
  \/ \A n \in entity : ~Observed(n)
  \/ \E n \in entity : n[1] = "agent"

(* combine_identical_entities: what two groups of one entity have in common. *)
CombineKey(g, group) ==
  <<Label(g, group), Inferred(group),
    IF Inferred(group) THEN None ELSE Scope(SpanOf(CHOOSE n \in group : TRUE))>>

Entities(g, groups) ==
  LET all == Range(groups)
      key == [p \in all |-> CombineKey(g, p)]
      whole == [p \in all |-> IF key[p][1] = None THEN p
                              ELSE UNION {q \in all : key[q] = key[p]}]
  IN [n \in DOMAIN groups |-> whole[groups[n]]]

--------------------------------------------------------------------------------
(* Chains. *)

(* _anchor_and_payload: the side that emits, unless only the other is observed. *)
AnchorOf(from, to) ==
  IF SpanOf(from) # None /\ (Observed(from) \/ ~Observed(to)) THEN SpanOf(from)
  ELSE SpanOf(to)

(* The side of a model's span that a tool call came from. *)
Phase(src, band) ==
  IF src[1] # "call" \/ band = 0 THEN None ELSE IF band > 0 THEN "output" ELSE "input"

Chain(src, dst, band) ==
  LET call == AnchorOf(src, dst)
  IN [src |-> src, dst |-> dst, band |-> band, call |-> call,
      resp |-> AnchorOf(dst, src), phase |-> Phase(src, band),
      at |-> IF SpanOf(src) = None THEN call ELSE SpanOf(src)]

(* The servers are a set: they come in either order.                           *)
RouteChains(g, groups, reversed) ==
  LET apart == SelectSeq(IF reversed THEN Reverse(g.routes) ELSE g.routes,
                         LAMBDA r : groups[r.src] # groups[r.dst])
  IN [n \in DOMAIN apart |-> Chain(apart[n].src, apart[n].dst, apart[n].band)]

(* Of the nodes of a group beside a transport chain, the first to start; the   *)
(* agent inferred below it has no start.                                        *)
Endpoint(nodes) ==
  LET spans == {n \in nodes : SpanOf(n) # None}
  IN IF spans = {} THEN CHOOSE n \in nodes : TRUE
     ELSE CHOOSE n \in spans :
            \A m \in spans : trace[SpanOf(n)].start <= trace[SpanOf(m)].start

(* Who calls: the endpoint that starts first, either when one has no start.    *)
Directed(ends, backwards) ==
  LET a == CHOOSE n \in ends : TRUE
      b == CHOOSE n \in ends : n # a
      calls(n, m) == IF SpanOf(n) = None \/ SpanOf(m) = None THEN ~backwards
                     ELSE trace[SpanOf(n)].start < trace[SpanOf(m)].start
  IN IF calls(a, b) THEN Chain(a, b, 0) ELSE Chain(b, a, 0)

(* _reconstruct_two_component_transport_chains: the connected transport spans,  *)
(* by their first, that are beside exactly two groups; a set again.             *)
TransportChains(g, groups, reversed, backwards) ==
  LET links == {l \in g.links : IsTeal(l[1]) /\ IsTeal(l[2])}
      run(s) == Component(links, Of(s))
      beside(s) == {n \in DOMAIN groups :
                      \E l \in g.links : \/ l[1] = n /\ l[2] \in run(s)
                                         \/ l[2] = n /\ l[1] \in run(s)}
      sides(s) == {{n \in beside(s) : groups[n] = p} : p \in {groups[n] : n \in beside(s)}}
      firsts == SelectSeq(IF reversed THEN Reverse(g.spans) ELSE g.spans, LAMBDA s :
        /\ Of(s) \in g.nodes /\ IsTransport(s)
        /\ FirstOf(g, LAMBDA t : Of(t) \in run(s)) = s
        /\ Cardinality(sides(s)) = 2)
  IN [n \in DOMAIN firsts |->
        Directed({Endpoint(nodes) : nodes \in sides(firsts[n])}, backwards)]

--------------------------------------------------------------------------------
(* The order of the calls (_order_execution_walk). *)

(* The chains that start first, first; those of one span by their bands. *)
ByStart(chains) ==
  LET start(i) == trace[chains[i].at].start
      before(i, j) ==
        \/ start(i) < start(j)
        \/ start(i) = start(j) /\ \/ chains[i].band < chains[j].band
                                  \/ chains[i].band = chains[j].band /\ i < j
  IN SortSeq([i \in DOMAIN chains |-> i], before)

(* The chain of the nearest span above that a chain is nested by, or 0. *)
Enclosing(view, chains, order, i) ==
  LET above == SelectSeq(Ancestors(view, chains[i].at),
                         LAMBDA a : \E j \in DOMAIN chains : chains[j].at = a)
  IN IF above = <<>> THEN 0
     ELSE Head(SelectSeq(order, LAMBDA j : chains[j].at = Head(above)))

(* A call, the calls below it, its response; then the next call. *)
RECURSIVE Unwound(_, _, _)
Unwound(order, up, level) ==
  IF level = <<>> THEN <<>>
  ELSE <<[chain |-> Head(level), side |-> "request"]>> \o
       Unwound(order, up, SelectSeq(order, LAMBDA j : up[j] = Head(level))) \o
       <<[chain |-> Head(level), side |-> "response"]>> \o
       Unwound(order, up, Tail(level))

Walk(view, chains) ==
  LET order == ByStart(chains)
      up == [i \in DOMAIN chains |-> Enclosing(view, chains, order, i)]
  IN Unwound(order, up, SelectSeq(order, LAMBDA i : up[i] = 0))

--------------------------------------------------------------------------------
(* The sides of all calls in their order: who speaks to whom, and the span that *)
(* dates it (_derive_interactions).                                             *)
Side(of, c, order, step) ==
  LET asks == step.side = "request"
  IN [order |-> order, chain |-> step.chain, side |-> step.side,
      from |-> of[IF asks THEN c.src ELSE c.dst],
      to |-> of[IF asks THEN c.dst ELSE c.src],
      span |-> IF asks THEN c.call ELSE c.resp,
      phase |-> IF asks THEN c.phase ELSE None]

SidesOn(of, chains, walk) ==
  [n \in DOMAIN walk |-> Side(of, chains[walk[n].chain], n - 1, walk[n])]

SidesOf(view, of, chains) == SidesOn(of, chains, Walk(view, chains))

Chains(g, groups, luck) ==
  RouteChains(g, groups, luck.reversed) \o
  TransportChains(g, groups, luck.swapped, luck.backwards)

SidesWithin(g, groups, luck) ==
  SidesOf(ToSet(g.spans), Entities(g, groups), Chains(g, groups, luck))

Sides(g, luck) == SidesWithin(g, Groups(g), luck)

(* The walk compares a call that no span starts with the others and raises.    *)
Raises(g) ==
  LET groups == Groups(g)
      chains == RouteChains(g, groups, FALSE) \o TransportChains(g, groups, FALSE, FALSE)
  IN \E c \in Range(chains), d \in Range(chains) : c.at = None /\ d.at # None
================================================================================
