------------------------------ MODULE SidecarPlan ------------------------------
(****************************************************************************)
(* plan_trace of processors/interactions/sidecar.py: the interactions a      *)
(* trace should have, as a function of its stored spans and of their         *)
(* sequence numbers, which give the order in which plan_trace reads them.    *)
(*                                                                          *)
(* A span carries what the derivation reads and nothing else.  Spans that    *)
(* violate the wire contract are left out: the code refuses them with an     *)
(* exception.  Payloads, times and outcomes of a span do not depend on the   *)
(* other spans; a row keeps only whether the exchange was answered.          *)
(****************************************************************************)
EXTENDS Naturals, FiniteSets

CONSTANTS
  Span,    \* span ids; an exchange is named by its request span
  Facts,   \* what each span says, a SpanFacts
  None     \* no parent, no exchange

(* role "other" stands for a span without an exchange id.                      *)
SpanFacts(Trace, Name) ==
  [trace: Trace, parent: Span \cup {None}, role: {"request", "response", "other"},
   exchange: Span \cup {None}, direction: {"inbound", "outbound"},
   protocol: {"a2a", "mcp", "inference", "http"},
   pod: Name, peer: Name, client: Name]

Names == UNION {{Facts[s].pod, Facts[s].peer, Facts[s].client} : s \in Span}

ASSUME FactsAssumption ==
  Facts \in [Span -> SpanFacts({Facts[s].trace : s \in Span}, Names)]

(* sidecar_facts._KIND_TABLE: the kind of an exchange's callee. *)
CalleeKind(s) ==
  CASE Facts[s].protocol = "a2a"       -> "agent"
    [] Facts[s].protocol = "mcp"       -> "tool"
    [] Facts[s].protocol = "inference" -> "llm"
    [] Facts[s].protocol = "http"      ->
         IF Facts[s].direction = "inbound" THEN "agent" ELSE "service"

Requests(S) == {s \in S : Facts[s].role = "request"}
Outbound(S) == {s \in Requests(S) : Facts[s].direction = "outbound"}
Inbound(S) == Requests(S) \ Outbound(S)

(* _reaches: the nearest of the targets among s's ancestors, through stored    *)
(* spans of any role; a cycle ends the walk.                                   *)
Nearest(s, targets, S) ==
  LET up[n \in 0..Cardinality(S) + 1] ==
        IF n = 0 THEN s
        ELSE LET r == up[n - 1] IN IF r \in S THEN Facts[r].parent ELSE None
      hits == {n \in 1..Cardinality(S) + 1 : up[n] \in targets}
  IN  IF hits = {} THEN None
      ELSE up[CHOOSE n \in hits : \A m \in hits : n <= m]

(* Every outbound request, and the inbound requests below none of them.        *)
Anchors(S) ==
  Outbound(S) \cup {s \in Inbound(S) : Nearest(s, Outbound(S), S) = None}

(* echo_of: the first inbound request, in the order read, that is below the    *)
(* outbound anchor a.                                                          *)
Echoes(a, anchors, S) ==
  {s \in Inbound(S) \ anchors : Nearest(s, anchors, S) = a}

Echo(echoes, seq) == CHOOSE s \in echoes : \A r \in echoes : seq[s] <= seq[r]

(* _self_kinds: what a pod is when it calls.  A single served kind decides;    *)
(* every other verdict, and the default, is "agent".                           *)
SelfKind(pod, S) ==
  LET served == {CalleeKind(s) : s \in {r \in Inbound(S) : Facts[r].pod = pod}}
  IN  IF \E kind \in served : served = {kind}
      THEN CHOOSE kind \in served : TRUE ELSE "agent"

Caller(a, S) ==
  IF Facts[a].direction = "inbound"
  THEN <<"client", Facts[a].client>>
  ELSE <<SelfKind(Facts[a].pod, S), Facts[a].pod>>

Callee(a, echoes, seq) ==
  IF CalleeKind(a) = "llm" THEN <<"llm", Facts[a].peer>>
  ELSE IF Facts[a].direction = "inbound" THEN <<CalleeKind(a), Facts[a].pod>>
  ELSE IF echoes # {} THEN <<CalleeKind(a), Facts[Echo(echoes, seq)].pod>>
  ELSE <<CalleeKind(a), Facts[a].peer>>

(* The response leg exists exactly when a response span does. *)
Answered(a, S) ==
  \E s \in S : Facts[s].role = "response" /\ Facts[s].exchange = a

(* Mutant: a row's parent is the nearest request, echo or not. *)
RowUnderRequest(a, anchors, S, seq) ==
  [parent |-> Nearest(a, Requests(S), S), caller |-> Caller(a, S),
   callee |-> Callee(a, Echoes(a, anchors, S), seq), answered |-> Answered(a, S)]

Row(a, anchors, S, seq) ==
  [parent |-> Nearest(a, anchors, S), caller |-> Caller(a, S),
   callee |-> Callee(a, Echoes(a, anchors, S), seq), answered |-> Answered(a, S)]

(* The plan's `want`. *)
Want(S, seq) ==
  LET anchors == Anchors(S) IN [a \in anchors |-> Row(a, anchors, S, seq)]
================================================================================
