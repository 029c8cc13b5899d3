---------------------------- MODULE GraphExecution ----------------------------
(****************************************************************************)
(* The execution graph of a trace (interactions/graph/step1_build_graph.py    *)
(* and step2_base_graph.py): spans and the nodes inferred from them, the      *)
(* links that do not leave an entity, and the routes that do.                 *)
(*                                                                          *)
(* A node is a tuple: <<"span", s>>, its duplicate as a model <<"dup", s>>,   *)
(* the k-th tool call on a side of a model's span <<"call", s, side, k>> and  *)
(* its tool <<"tool", s, side, k>>, the unobserved callee <<"peer", s>> and   *)
(* the agent inferred below a transport span <<"agent", s>>. A route is a     *)
(* Teal server: the nodes it joins and the band that orders it.               *)
(****************************************************************************)
EXTENDS GraphFacts, Integers, Folds

CONSTANTS InputBase, OutputBase   \* where the two bands of tool calls begin

Of(s) == <<"span", s>>
Observed(n) == n[1] \in {"span", "dup"}
SpanOf(n) == IF n[1] = "agent" THEN None ELSE n[2]
IsBlue(n) == n[1] # "span" \/ IsAgentic(n[2])
IsTeal(n) == n[1] = "span" /\ IsTransport(n[2])

CallAt(n) == Asked(n[2], n[3])[n[4]]

(* peer_match_key, and the natural key of a span. *)
NodeKey(n) ==
  CASE n[1] \in {"span", "peer"} -> Key(n[2])
    [] n[1] = "tool" -> <<"tool", CallAt(n).tool>>
    [] OTHER -> None

NodeKind(n) ==
  CASE n[1] \in {"call", "tool"} -> "TOOL"
    [] n[1] = "agent" -> "AGENT"
    [] OTHER -> Kind(n[2])

--------------------------------------------------------------------------------
(* Links. *)

(* The ancestors of a span as far as the trace has them, nearest first. *)
Ancestors(view, s) ==
  LET gaps == {n \in DOMAIN trace[s].above : trace[s].above[n] \notin view}
  IN SubSeq(trace[s].above, 1,
            IF gaps = {} THEN Len(trace[s].above) ELSE Min(gaps) - 1)

(* The coloured span nearest above s. *)
NearestColoured(view, s) ==
  LET above == SelectSeq(Ancestors(view, s), LAMBDA a : IsAgentic(a) \/ IsTransport(a))
  IN IF above = <<>> THEN None ELSE Head(above)

ChildrenIn(view, s) == {c \in view : Parent(c) = s}

(* build_base_graph and color_agentic: a parent with its child, an agentic span *)
(* with the next agentic ones below it, not past transport.                     *)
SpanLinks(view) ==
  {<<Of(Parent(s)), Of(s)>> : s \in {x \in view : Parent(x) \in view}} \cup
  {<<Of(NearestColoured(view, s)), Of(s)>> :
     s \in {x \in view : /\ IsAgentic(x) /\ NearestColoured(view, x) # None
                         /\ IsAgentic(NearestColoured(view, x))}}

(* infer_agent_from_bare_leaf_llms: a transport span whose agentic children are *)
(* all calls of models, below no agentic span.                                  *)
BareParents(view) ==
  {p \in view :
     LET blue == {c \in ChildrenIn(view, p) : IsAgentic(c)}
     IN /\ IsTransport(p) /\ blue # {}
        /\ \A c \in blue : Kind(c) = "LLM"
        /\ \A a \in ToSet(Ancestors(view, p)) : ~IsAgentic(a)}

Models(view, p) == {c \in ChildrenIn(view, p) : IsAgentic(c) /\ Kind(c) = "LLM"}

BareCut(view) ==
  UNION {{<<Of(p), Of(c)>> : c \in Models(view, p)} : p \in BareParents(view)}
BareLinks(view) ==
  UNION {{<<Of(p), <<"agent", p>>>>} \cup {<<<<"agent", p>>, Of(c)>> : c \in Models(view, p)}
         : p \in BareParents(view)}

--------------------------------------------------------------------------------
(* Routes. *)

Route(src, dst, band) == [src |-> src, dst |-> dst, band |-> band]

ToolRoutes(s, side) ==
  [k \in DOMAIN Asked(s, side) |->
     Route(<<"call", s, side, k>>, <<"tool", s, side, k>>,
           IF side = "in" THEN InputBase + 2 * (k - 1) ELSE OutputBase + 3 * (k - 1))]

(* duplicate_combined_nodes, infer_tool_calls_from_attributes, then              *)
(* synthesize_missing_peers for the calls that have no callee.                  *)
Routes(spans) ==
  LET combined == SelectSeq(spans, IsCombined)
      calls == SelectSeq(spans, IsCall)
  IN [n \in DOMAIN combined |-> Route(Of(combined[n]), <<"dup", combined[n]>>, 0)] \o
     FlattenSeq([n \in DOMAIN spans |->
                   ToolRoutes(spans[n], "in") \o ToolRoutes(spans[n], "out")]) \o
     [n \in DOMAIN calls |-> Route(Of(calls[n]), <<"peer", calls[n]>>, 0)]

(* spans: those of the trace, by start. served: those that a callee has turned  *)
(* out to be.                                                                   *)
Base(spans) ==
  LET view == ToSet(spans)
      routes == Routes(spans)
      ends == UNION {{routes[n].src, routes[n].dst} : n \in DOMAIN routes}
      calls == {n \in ends : n[1] = "call"}
  IN [spans |-> spans,
      nodes |-> {Of(s) : s \in view} \cup ends \cup
                {<<"agent", p>> : p \in BareParents(view)},
      links |-> (SpanLinks(view) \ BareCut(view)) \cup BareLinks(view) \cup
                {<<Of(n[2]), n>> : n \in calls},
      routes |-> routes, served |-> {}]

--------------------------------------------------------------------------------
(* Components. *)

RECURSIVE Flood(_, _, _)
Flood(links, seen, edge) ==
  IF edge = {} THEN seen
  ELSE LET near == {l[2] : l \in {x \in links : x[1] \in edge}} \cup
                   {l[1] : l \in {x \in links : x[2] \in edge}}
       IN Flood(links, seen \cup near, near \ seen)

Component(links, n) == Flood(links, {n}, {n})

(* Links that touch no transport span keep to one entity. *)
Within(g) == {l \in g.links : ~IsTeal(l[1]) /\ ~IsTeal(l[2])}

(* _white_blue_components *)
Components(g) == [n \in g.nodes |-> Component(Within(g), n)]

--------------------------------------------------------------------------------
(* Merging (merge_identical_interactions). *)

(* _rewire_edges: nodes replaced by others. *)
Rewired(g, to) ==
  LET sub(n) == IF n \in DOMAIN to THEN to[n] ELSE n
  IN [g EXCEPT
        !.nodes = @ \ DOMAIN to,
        !.links = {l \in {<<sub(x[1]), sub(x[2])>> : x \in @} : l[1] # l[2]},
        !.routes = [n \in DOMAIN @ |-> [@[n] EXCEPT !.src = sub(@), !.dst = sub(@)]],
        !.served = {sub(n) : n \in @}]

(* The first of the spans that satisfy a condition. *)
FirstOf(g, Test(_)) ==
  LET hits == SelectSeq(g.spans, LAMBDA s : Of(s) \in g.nodes /\ Test(s))
  IN IF hits = <<>> THEN None ELSE Head(hits)

(* Mutant: any span that records the call of a tool will do. *)
IndependentAny(n, s) == Kind(s) # "LLM"

(* _independent_observation *)
Independent(n, s) ==
  /\ Kind(s) # "LLM"
  /\ Service(SpanOf(n)) # None /\ Service(s) # None
  /\ Service(SpanOf(n)) # Service(s)

(* An inferred callee is the span in which another service records the call. *)
Folded(g) ==
  LET comp == Components(g)
      twin == [n \in {x \in g.nodes : x[1] \in {"peer", "tool"}} |->
                 FirstOf(g, LAMBDA s :
                   /\ IsCall(s) /\ Key(s) # None
                   /\ Key(s) = NodeKey(n) /\ Kind(s) = NodeKind(n)
                   /\ comp[Of(s)] # comp[Of(SpanOf(n))] /\ Independent(n, s))]
      found == {n \in DOMAIN twin : twin[n] # None}
      g2 == Rewired(g, [n \in found |-> Of(twin[n])])
  IN [g2 EXCEPT !.served = @ \cup {Of(twin[n]) : n \in found}]

(* _same_processing_signature: of a call whose key fits its kind. *)
Signature(s) ==
  <<Key(s), Kind(s), Scope(s), trace[s].io, trace[s].start, trace[s].end>>
SameProcessing(s, t) ==
  /\ IsCall(s) /\ IsCall(t)
  /\ Key(s) # None /\ Key(s)[1] = Prefix(Kind(s)) /\ Signature(s) = Signature(t)

(* Spans that record the same processing are one. *)
Collapsed(g) ==
  LET first == [s \in ToSet(g.spans) |-> FirstOf(g, LAMBDA t : SameProcessing(t, s))]
      again == {s \in DOMAIN first : first[s] \notin {None, s}}
  IN Rewired(g, [n \in {Of(s) : s \in again} |-> Of(first[n[2]])])

(* Mutant: of two bands the lower one. *)
OriginatingLower(a, b) == IF a < b THEN a ELSE b

(* _originating_order *)
Originating(a, b) ==
  IF a >= 0 /\ b < 0 THEN a ELSE IF b >= 0 /\ a < 0 THEN b ELSE IF a < b THEN a ELSE b

SameCall(comp, r, q) ==
  /\ r.src[1] = "call" /\ q.src[1] = "call"
  /\ comp[r.src] = comp[q.src] /\ NodeKey(r.dst) = NodeKey(q.dst)
  /\ CallAt(r.src).args # None /\ CallAt(r.src).args = CallAt(q.src).args

(* A call that is replayed is the call: what is kept is the record on the output *)
(* that disclosed it.                                                            *)
Kept(comp, kept, r) ==
  LET before == {n \in DOMAIN kept : SameCall(comp, kept[n], r)}
      n == Min(before)
      band == Originating(kept[n].band, r.band)
  IN IF before = {} THEN Append(kept, r)
     ELSE IF kept[n].band < 0 /\ r.band >= 0
     THEN Append(RemoveAt(kept, n), [r EXCEPT !.band = band])
     ELSE [kept EXCEPT ![n].band = band]

Merged(g) ==
  LET comp == Components(g)
  IN [g EXCEPT !.routes = FoldLeft(LAMBDA kept, r : Kept(comp, kept, r), <<>>, @)]

--------------------------------------------------------------------------------
(* A call absorbed by the agent that served it. *)

(* _first_observed_agent_below: breadth first below the call, through transport *)
(* and plumbing; ingress is the first other service whose transport is met.     *)
RECURSIVE Served(_, _, _, _, _)
Served(g, comp, src, queue, ingress) ==
  IF queue = <<>> THEN None
  ELSE LET s == Head(queue)
           known == Of(s) \in g.nodes
           enters == /\ ingress = None /\ known /\ IsTransport(s)
                     /\ Service(s) \notin {None, Service(src)}
           at == IF enters THEN Service(s) ELSE ingress
           below == SelectSeq(g.spans, LAMBDA c : Parent(c) = s)
       IN IF known /\ IsAgentic(s)
          THEN IF comp[Of(s)] # comp[Of(src)] /\ at # None /\ Service(s) = at
               THEN s ELSE Served(g, comp, src, Tail(queue), at)
          ELSE Served(g, comp, src, Tail(queue) \o below, at)

(* Mutant: no call is absorbed. *)
NotAbsorbed(g) == g

(* _absorb_inferred_call_into_observed_agent *)
Absorbed(g) ==
  LET comp == Components(g)
      roots(s) == SelectSeq(g.spans, LAMBDA c :
                    Parent(c) = s /\ IsTransport(c) /\ Of(c) \in g.nodes)
      calls == {g.routes[n] : n \in {m \in DOMAIN g.routes :
                  Observed(g.routes[m].src) /\ ~Observed(g.routes[m].dst)}}
      by == [n \in {r.dst : r \in calls} |->
               LET r == CHOOSE x \in calls : x.dst = n
                   s == SpanOf(r.src)
               IN Served(g, comp, s, roots(s), None)]
      found == {n \in DOMAIN by : by[n] # None}
  IN Rewired(g, [n \in found |-> Of(by[n])])

(* Steps 1 and 2. *)
Execution(spans) == Absorbed(Merged(Collapsed(Folded(Base(spans)))))
================================================================================
