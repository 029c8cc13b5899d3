------------------------------ MODULE GraphDriver ------------------------------
(****************************************************************************)
(* The graph algorithm at work (interactions/graph_driver.py, the graph path  *)
(* of state.flush): spans of a trace arrive in any order, and each one that   *)
(* the processor takes has the whole trace derived anew and stored over what  *)
(* is there. Nothing that a former derivation stored is taken back.           *)
(****************************************************************************)
EXTENDS GraphAdapter

CONSTANTS
  Order,      \* the spans, in the order of their names
  Traces,     \* the traces that may be sent
  Lucks,      \* the outcomes of iterating sets that are considered
  MaxBehind,  \* bound: spans stored and not yet processed
  MaxRedone   \* bound: replays of the stream

VARIABLES
  arrived,       \* the spans stored, in the order of their seq
  cursor,        \* how many of them have been processed
  interactions,  \* id -> [caller, callee, parent]
  legs,          \* <<id, side>> -> [time, seq, chain]
  rows,          \* evidence: row -> [ix, role]
  entities,      \* the natural keys of the entities
  latest,        \* what the last derivation gave: its interactions and legs
  redone

derived == <<interactions, legs, rows, entities, latest>>
vars == <<trace, ended, arrived, cursor, derived, redone>>

Open(s) == trace[s].open
Sent == {s \in Span : trace[s].sent}

(* _fetch_trace_spans, then by start as every step sorts them. *)
ByStarts(spans) ==
  SortSeq(SelectSeq(Order, LAMBDA s : s \in spans),
          LAMBDA s, t : trace[s].start < trace[t].start)

Init ==
  /\ trace \in Traces
  /\ ended = {} /\ arrived = <<>> /\ cursor = 0
  /\ interactions = <<>> /\ legs = <<>> /\ rows = <<>> /\ entities = {}
  /\ latest = [interactions |-> <<>>, legs |-> <<>>]
  /\ redone = 0

(* The receiver stores a span; one that is open comes without its end. *)
Arrive(s) ==
  /\ Len(arrived) - cursor < MaxBehind
  /\ arrived' = Append(arrived, s)
  /\ ended' = IF Open(s) THEN ended ELSE ended \cup {s}
  /\ UNCHANGED <<trace, cursor, derived, redone>>

(* The end of an open span comes: the span takes the next seq. *)
Finalize(s) ==
  /\ Open(s) /\ s \in ToSet(arrived) \ ended
  /\ Len(arrived) - cursor < MaxBehind
  /\ arrived' = Append(Remove(arrived, s), s)
  /\ ended' = ended \cup {s}
  /\ cursor' = IF s \in ToSet(SubSeq(arrived, 1, cursor)) THEN cursor - 1 ELSE cursor
  /\ UNCHANGED <<trace, derived, redone>>

(* A stored leg keeps its seq. *)
Relegged(new) ==
  [l \in DOMAIN new |->
     IF l \in DOMAIN legs THEN [new[l] EXCEPT !.seq = legs[l].seq] ELSE new[l]] @@ legs

(* process_span and flush: by all spans stored, also those past the cursor. A   *)
(* derivation that raises is tried again and again.                            *)
Process ==
  /\ cursor < Len(arrived)
  /\ \E g \in {Execution(ByStarts(ToSet(arrived)))} :
       /\ ~Raises(g)
       /\ \E d \in {Adapted(g, luck, Sides(g, luck)) : luck \in Lucks} :
            /\ interactions' = d.interactions @@ interactions
            /\ legs' = Relegged(d.legs)
            /\ rows' = d.rows @@ rows
            /\ entities' = entities \cup d.entities
            /\ latest' = [interactions |-> d.interactions, legs |-> d.legs]
  /\ cursor' = cursor + 1
  /\ UNCHANGED <<trace, ended, arrived, redone>>

(* An operator sets the cursor back to replay the stream. *)
Reset ==
  /\ cursor > 0 /\ cursor = Len(arrived) /\ redone < MaxRedone
  /\ cursor' = 0 /\ redone' = redone + 1
  /\ UNCHANGED <<trace, ended, arrived, derived>>

Next ==
  \/ \E s \in Sent \ ToSet(arrived) : Arrive(s)
  \/ \E s \in Sent : Finalize(s)
  \/ Process \/ Reset

Spec == Init /\ [][Next]_vars

--------------------------------------------------------------------------------
CaughtUp == cursor = Len(arrived)
Complete == CaughtUp /\ ToSet(arrived) = Sent /\ ended = Sent

Ids == DOMAIN latest.interactions
LegOf(i, side) == latest.legs[<<i, side>>]
SidesIn(i) == {side \in {"request", "response"} : <<i, side>> \in DOMAIN latest.legs}

(* Every interaction has a leg, and its parent and parties are stored. Legs of   *)
(* one derivation take different places, from 0.                                *)
TypeOK ==
  /\ cursor \in 0..Len(arrived) /\ IsInjective(arrived) /\ ToSet(arrived) \subseteq Sent
  /\ {l[1] : l \in DOMAIN legs} = DOMAIN interactions
  /\ \A r \in DOMAIN rows : rows[r].ix \in DOMAIN interactions
  /\ \A i \in DOMAIN interactions :
       /\ {interactions[i].caller, interactions[i].callee} \subseteq entities
       /\ interactions[i].parent \in DOMAIN interactions \cup {None}
  /\ {latest.legs[l].seq : l \in DOMAIN latest.legs} = 0..(Cardinality(DOMAIN latest.legs) - 1)

(* A call to a model or tool that a span records is an interaction dated by the  *)
(* span, whatever else has arrived (step2_base_graph.py: only spans of another   *)
(* service are folded into one another), unless an agent served it.             *)
CallsKept ==
  \A s \in ToSet(SubSeq(arrived, 1, cursor)) :
    IsCall(s) /\ Key(s) # None =>
      \E i \in Ids : /\ i[1] = s /\ i[2][1] \in {Prefix(Kind(s)), "agent"}
                     /\ i[2] # latest.interactions[i].caller

(* A model's answer comes before the calls it asks for, by place and by time,    *)
(* also while its span has no end (graph_adapter.py, the times of inferred      *)
(* calls).                                                                      *)
AnswersFirst ==
  \A i \in Ids, j \in Ids :
    /\ i[1] = j[1] /\ IsModel(i[1]) /\ trace[i[1]].replays = <<>>
    /\ j[2][1] = "llm" /\ i[2][1] = "tool"
    => /\ LegOf(j, "response").seq < LegOf(i, "request").seq
       /\ LegOf(j, "response").time # None
            => LegOf(j, "response").time <= LegOf(i, "request").time

(* What a model asks for and a later prompt replays is one call, disclosed by    *)
(* the answer of the model that asked (step2_base_graph.py, "the same           *)
(* interaction echoed back as history").                                        *)
ReplaysAreOne ==
  Complete =>
    \A s \in Sent : \A k \in DOMAIN Asked(s, "out") :
      LET call == Asked(s, "out")[k]
          calls == {i \in Ids : i[2][1] = "tool" /\ i[2][3] = call.tool}
          named == {c.args : c \in UNION {ToSet(Asked(t, "out")) \cup ToSet(Asked(t, "in"))
                                           : t \in Sent}}
      IN \E i \in calls : /\ i[1] = s /\ LegOf(i, "request").time = trace[s].end
                          /\ Cardinality(calls) <= Cardinality(named)

(* The two legs of an interaction are of one call, also where calls of the same  *)
(* pair are nested (graph_adapter.py, the stack of unclosed requests).          *)
LegsOfOneCall ==
  \A i \in Ids : SidesIn(i) = {"request", "response"} =>
    /\ LegOf(i, "request").chain = LegOf(i, "response").chain
    /\ LegOf(i, "request").seq < LegOf(i, "response").seq

(* A nested interaction lies within the one above it, by its place and, as far   *)
(* as the times are known, by time: an answer that is not over yet is not dated *)
(* before what it waits for (graph_adapter.py, _time_unended_llm_responses).    *)
Nested ==
  \A i \in Ids : LET p == latest.interactions[i].parent IN
    p # None /\ SidesIn(i) = {"request", "response"} /\ SidesIn(p) = SidesIn(i) =>
      /\ LegOf(p, "request").seq < LegOf(i, "request").seq
      /\ LegOf(i, "response").seq < LegOf(p, "response").seq
      /\ \A side \in {"request", "response"} :
           LegOf(p, "response").time # None /\ LegOf(i, side).time # None =>
             LegOf(i, side).time <= LegOf(p, "response").time

(* An agent that another one reaches by a tool of its own is called by it, and   *)
(* no such tool is stored (step2_base_graph.py,                                 *)
(* _absorb_inferred_call_into_observed_agent).                                  *)
AgentsServe ==
  Complete =>
    \A b \in Sent :
      LET above == SelectSeq(trace[b].above, LAMBDA s : Kind(s) = "TOOL")
      IN Kind(b) = "AGENT" /\ above # <<>> =>
           /\ \E i \in Ids : /\ i[1] = Head(above)
                             /\ latest.interactions[i].caller = <<"agent", Service(Head(above))>>
                             /\ i[2] = <<"agent", Service(b)>>
           /\ \A i \in Ids : i[1] = Head(above) => i[2][1] # "tool"

(* What is stored of a trace is what its spans say in the end                    *)
(* (graph_driver.py, a re-derivation "converges rather than duplicating").      *)
Converges == Complete => DOMAIN interactions = Ids

(* A leg's stored place is the one that the last derivation gives it             *)
(* (state.py, "for graph the supplied seq is deterministic").                   *)
SeqStays == \A l \in DOMAIN latest.legs : legs[l].seq = latest.legs[l].seq

(* The processor gets past every span (step3_entity_graph.py, "every ordering    *)
(* key ends in (anchor started_at, call band, anchor span_id)").                *)
NeverStuck == ~CaughtUp => ~Raises(Execution(ByStarts(ToSet(arrived))))
================================================================================
