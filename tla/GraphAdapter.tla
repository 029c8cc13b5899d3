----------------------------- MODULE GraphAdapter -----------------------------
(****************************************************************************)
(* The rows that are stored for a derived graph (interactions/                *)
(* graph_adapter.py): every entity gets the identity that the other           *)
(* algorithms give it, the two sides of each call are joined into one         *)
(* interaction, dated, nested and given its evidence.                         *)
(*                                                                          *)
(* Sets of uuids and hashes are iterated where the code does: luck says what  *)
(* comes out, the services in the order in which one of several is taken,     *)
(* whether servers or transport chains that tie come in the reverse order     *)
(* (reversed, swapped), whether a transport chain with an end of unknown      *)
(* start is read backwards, and which of the interactions that a span dates   *)
(* encloses those below it (pick, counted from the first). Deployed tools and *)
(* hosts are not told apart here.                                             *)
(****************************************************************************)
EXTENDS GraphEntities

VARIABLE ended   \* the spans that are stored with their end

Started(s) == trace[s].start
Ended(s) == IF s \in ended THEN trace[s].end ELSE None

--------------------------------------------------------------------------------
(* Identities (_representative_identity). *)

SpansOf(entity) == {SpanOf(n) : n \in entity} \ {None}

(* The first of some services, in an order nothing fixes. *)
AnyOf(luck, services) == Head(SelectSeq(luck.services, LAMBDA v : v \in services))

(* An agent is its service; a span of an agent or a chain is asked first. *)
AgentIdentity(luck, entity) ==
  LET runs == {s \in SpansOf(entity) : trace[s].oi \in {"AGENT", "CHAIN"}}
      asked == IF runs = {} THEN SpansOf(entity) ELSE runs
  IN <<"agent", AnyOf(luck, {Service(s) : s \in asked})>>

(* A model is known by a span of kind LLM; without one it is taken for a client, *)
(* named by any of its spans.                                                   *)
ModelIdentity(label, entity) ==
  IF \E s \in SpansOf(entity) : trace[s].oi = "LLM" THEN label
  ELSE <<"client", CHOOSE s \in SpansOf(entity) : TRUE>>

IsTool(label) == label # None /\ label[1] = "tool"

(* The first pass, which leaves tools out. *)
Plain(g, luck, entity) ==
  LET label == Label(g, entity)
  IN IF IsTool(label) THEN None
     ELSE IF label # None /\ label[1] = "llm" THEN ModelIdentity(label, entity)
     ELSE AgentIdentity(luck, entity)

(* The second pass: a tool is of an agent that calls it, and is left out when    *)
(* there is none.                                                               *)
Owners(sides, plain, e) ==
  LET callers == {plain[sides[n].from] : n \in {m \in DOMAIN sides : sides[m].to = e}}
  IN {k[2] : k \in {x \in callers \ {None} : x[1] = "agent"}}

Owned(luck, owners, name) ==
  IF owners = {} THEN None ELSE <<"tool", AnyOf(luck, owners), name>>

WithTools(g, luck, sides, plain) ==
  [e \in DOMAIN plain |->
     IF IsTool(Label(g, e)) THEN Owned(luck, Owners(sides, plain, e), Label(g, e)[2])
     ELSE plain[e]]

Identities(g, luck, sides) ==
  LET all == {sides[n].from : n \in DOMAIN sides} \cup {sides[n].to : n \in DOMAIN sides}
  IN WithTools(g, luck, sides, [e \in all |-> Plain(g, luck, e)])

(* Who is stored: entities that no call involves are stored too. *)
Stored(g, luck, ids) ==
  LET groups == Groups(g)
      alone == Range(Entities(g, groups)) \ DOMAIN ids
  IN (Range(ids) \cup {Plain(g, luck, e) : e \in alone}) \ {None}

--------------------------------------------------------------------------------
(* Calls: the request and the response of one, either may be None. *)

Named(ids, side) ==
  [order |-> side.order, chain |-> side.chain, phase |-> side.phase,
   span |-> side.span, from |-> ids[side.from], to |-> ids[side.to]]

Call(request, response) == [request |-> request, response |-> response]

(* Mutant: a response closes the call that was opened first. *)
PairedFirst(fwd, m, leg) ==
  IF <<leg.from, leg.to>> = fwd
  THEN [m EXCEPT !.open = Append(@, leg)]
  ELSE IF m.open = <<>> THEN [m EXCEPT !.calls = Append(@, Call(None, leg))]
  ELSE [open |-> Tail(m.open), calls |-> Append(m.calls, Call(Head(m.open), leg))]

(* One side after another: in the direction of the first it opens a call, in    *)
(* the other it closes the one opened last.                                     *)
Paired(fwd, m, leg) ==
  IF <<leg.from, leg.to>> = fwd
  THEN [m EXCEPT !.open = Append(@, leg)]
  ELSE IF m.open = <<>> THEN [m EXCEPT !.calls = Append(@, Call(None, leg))]
  ELSE [open |-> Front(m.open), calls |-> Append(m.calls, Call(Last(m.open), leg))]

(* The calls between two entities. *)
CallsOf(legs) ==
  LET fwd == <<legs[1].from, legs[1].to>>
      m == FoldLeft(LAMBDA acc, leg : Paired(fwd, acc, leg),
                    [open |-> <<>>, calls |-> <<>>], legs)
  IN Range(m.calls) \cup {Call(leg, None) : leg \in Range(m.open)}

Calls(ids, sides) ==
  LET legs == SelectSeq([n \in DOMAIN sides |-> Named(ids, sides[n])],
                        LAMBDA l : l.from # None /\ l.to # None /\ l.span # None)
      pairs == {{legs[n].from, legs[n].to} : n \in DOMAIN legs}
  IN UNION {CallsOf(SelectSeq(legs, LAMBDA l : {l.from, l.to} = p)) : p \in pairs}

(* A call without a request is known by its response. *)
Primary(c) == IF c.request # None THEN c.request ELSE c.response
Caller(c) == IF c.request # None THEN c.request.from ELSE c.response.to
Callee(c) == IF c.request # None THEN c.request.to ELSE c.response.from
Id(c) == <<Primary(c).span, Callee(c), Primary(c).order>>

--------------------------------------------------------------------------------
(* Times. *)

IsModel(s) == Kind(s) = "LLM"

(* Mutant: a call is disclosed when the model is asked. *)
DisclosedAtStart(c) ==
  LET s == Primary(c).span
      phase == IF c.request = None THEN None ELSE c.request.phase
  IN IF phase = None \/ ~IsModel(s) THEN None ELSE Started(s)

(* When the model's span discloses the call of a tool: with its answer, or with *)
(* the question that replays it. None for the other calls.                      *)
Disclosed(c) ==
  LET s == Primary(c).span
      phase == IF c.request = None THEN None ELSE c.request.phase
  IN IF phase = None \/ ~IsModel(s) THEN None
     ELSE IF phase = "output" /\ Ended(s) # None THEN Ended(s) ELSE Started(s)

RequestTime(c) == IF Disclosed(c) # None THEN Disclosed(c) ELSE Started(c.request.span)

ResponseTime(c) ==
  IF Disclosed(c) # None /\ c.response.span = c.request.span THEN Disclosed(c)
  ELSE Ended(c.response.span)

(* Mutant: an open response of a model is dated whatever its call encloses. *)
AnsweredEnclosing(c, enclosing) ==
  LET s == Primary(c).span
  IN IF ResponseTime(c) = None /\ Callee(c)[1] = "llm"
        /\ s \notin ended /\ IsModel(s)
     THEN Started(s) ELSE ResponseTime(c)

(* _time_unended_llm_responses: the response of a model's call that is not over  *)
(* is dated by its start, unless the call encloses others.                       *)
Answered(c, enclosing) ==
  LET s == Primary(c).span
  IN IF ResponseTime(c) = None /\ Id(c) \notin enclosing /\ Callee(c)[1] = "llm"
        /\ s \notin ended /\ IsModel(s)
     THEN Started(s) ELSE ResponseTime(c)

--------------------------------------------------------------------------------
(* Nesting and evidence. *)

(* Of the interactions a span dates, the one with the lowest id: the n-th of    *)
(* them, as the hash has it.                                                    *)
Representative(luck, ids, s) ==
  LET on == {i \in ids : i[1] = s}
      n == Min({luck.pick[s], Cardinality(on)})
  IN CHOOSE i \in on : Cardinality({j \in on : j[3] <= i[3]}) = n

(* _compute_parents *)
ParentOf(view, luck, ids, id) ==
  LET above == SelectSeq(Ancestors(view, id[1]), LAMBDA a : \E i \in ids : i[1] = a)
  IN IF above = <<>> THEN None ELSE Representative(luck, ids, Head(above))

(* _innermost_owner *)
OwnerOf(view, luck, ids, s) ==
  LET foreign(a) == Service(s) # None /\ Service(a) # None /\ Service(s) # Service(a)
      around == SelectSeq(<<s>> \o Ancestors(view, s),
                          LAMBDA a : (\E i \in ids : i[1] = a) /\ ~foreign(a))
  IN IF around = <<>> THEN None ELSE Representative(luck, ids, Head(around))

Rank(kind) == CASE kind = "agent" -> 1 [] kind = "client" -> 2
                [] kind = "llm" -> 3 [] OTHER -> 4

(* The first of the interactions on a span has the span for its evidence, the    *)
(* others a row of their own making.                                             *)
AnchorRow(call, id) ==
  LET ids == DOMAIN call
      closed(i) == IF call[i].response = None THEN <<1, i[3]>>
                   ELSE <<0, call[i].response.order>>
      before(i) == \/ Rank(i[2][1]) < Rank(id[2][1])
                   \/ /\ Rank(i[2][1]) = Rank(id[2][1])
                      /\ \/ closed(i)[1] < closed(id)[1]
                         \/ closed(i)[1] = closed(id)[1] /\ closed(i)[2] < closed(id)[2]
  IN IF \E i \in ids : i[1] = id[1] /\ before(i) THEN id ELSE <<id[1]>>

InnerRows(view, luck, ids) ==
  LET free == {s \in view : Parent(s) # None /\ ~\E i \in ids : i[1] = s}
      owned == {s \in free : OwnerOf(view, luck, ids, s) # None}
  IN [r \in {<<s>> : s \in owned} |->
        [ix |-> OwnerOf(view, luck, ids, r[1]), role |-> "inner"]]

--------------------------------------------------------------------------------
(* adapt: what is stored for the spans of a trace, once its calls are known. *)

CallById(calls) ==
  [i \in {Id(c) : c \in calls} |-> CHOOSE c \in calls : Id(c) = i]

Leg(time, side) == [time |-> time, seq |-> side.order, chain |-> side.chain]

Requests(call) ==
  [l \in {<<i, "request">> : i \in {j \in DOMAIN call : call[j].request # None}} |->
     Leg(RequestTime(call[l[1]]), call[l[1]].request)]

Responses(call, enclosing) ==
  [l \in {<<i, "response">> : i \in {j \in DOMAIN call : call[j].response # None}} |->
     Leg(Answered(call[l[1]], enclosing), call[l[1]].response)]

Anchors(call) ==
  [r \in {AnchorRow(call, i) : i \in DOMAIN call} |->
     [ix |-> CHOOSE i \in DOMAIN call : AnchorRow(call, i) = r, role |-> "anchor"]]

Rows(view, luck, call, parent, entities) ==
  [interactions |-> [i \in DOMAIN call |-> [caller |-> Caller(call[i]), callee |-> i[2],
                                            parent |-> parent[i]]],
   legs |-> Requests(call) @@ Responses(call, Range(parent)),
   rows |-> Anchors(call) @@ InnerRows(view, luck, DOMAIN call),
   entities |-> entities]

NestedRows(view, luck, call, entities) ==
  Rows(view, luck, call,
       [i \in DOMAIN call |-> ParentOf(view, luck, DOMAIN call, i)], entities)

NamedRows(g, luck, sides, ids) ==
  NestedRows(ToSet(g.spans), luck, CallById(Calls(ids, sides)), Stored(g, luck, ids))

Adapted(g, luck, sides) == NamedRows(g, luck, sides, Identities(g, luck, sides))
================================================================================
