-------------------------- MODULE MCStreamDerivation --------------------------
(****************************************************************************)
(* Instances of StreamDerivation. Each trace is a request to agent A:        *)
(*   Delegation   A's tool calls agent B over HTTP, where a step fails after *)
(*                the call has been answered;                                *)
(*   Deployed     A's tool is a service of its own behind /mcp, which calls  *)
(*                a service that sends no spans; A asks a model as well;     *)
(*   Beside       A's model call is beside its AGENT span, not below it;     *)
(*   Aside        a step of A has a step below it, beside its AGENT span;    *)
(*   Failing      A's tool calls agent B, and its span says that it failed.  *)
(****************************************************************************)
EXTENDS StreamDerivation

MCOrder == <<"r", "g", "t", "c", "s", "h", "l", "e">>
MCSpan == ToSet(MCOrder)

(* A span under others, given nearest first, and within their time. *)
S0(above, service, kind, oi) ==
  [sent |-> TRUE, above |-> above, service |-> service, kind |-> kind, oi |-> oi,
   path |-> "agent", name |-> None, from |-> None,
   start |-> Len(above), end |-> 20 - Len(above), error |-> "no"]
Silent == [S0(<<>>, None, "INTERNAL", None) EXCEPT !.sent = FALSE]

Trace(spans) == [s \in MCSpan |-> IF s \in DOMAIN spans THEN spans[s] ELSE Silent]

ByR == <<"r">>
ByG == <<"g">> \o ByR
ByT == <<"t">> \o ByG
ByC == <<"c">> \o ByT
ByS == <<"s">> \o ByC

Request ==
  "r" :> [S0(<<>>, "A", "SERVER", None) EXCEPT !.from = <<"user", "u">>] @@
  "g" :> S0(ByR, "A", "INTERNAL", "AGENT")
Tool(name) == [S0(ByG, "A", "INTERNAL", "TOOL") EXCEPT !.name = name]
Model(above) == [S0(above, "A", "INTERNAL", "LLM") EXCEPT !.name = "m"]
Call(above, service, path) == [S0(above, service, "CLIENT", None) EXCEPT !.path = path]

Late == [S0(ByS, "B", "INTERNAL", None) EXCEPT !.error = "yes", !.end = 30]
AgentB == "c" :> Call(ByT, "A", "agent") @@ "s" :> S0(ByC, "B", "SERVER", None) @@
          "h" :> S0(ByS, "B", "INTERNAL", "AGENT")
ToolT == "c" :> Call(ByT, "A", "mcp") @@
         "s" :> [S0(ByC, "T", "SERVER", None) EXCEPT !.path = "mcp"] @@
         "e" :> [Call(ByS, "T", "business") EXCEPT !.name = "host"]

Delegation == Trace(Request @@ "t" :> Tool("ask-B") @@ AgentB @@ "l" :> Late)
Deployed == Trace(Request @@ "t" :> Tool("T") @@ ToolT @@ "l" :> Model(ByG))
Beside == Trace(Request @@ "l" :> Model(ByR))
Aside == Trace(Request @@ "s" :> S0(ByR, "A", "INTERNAL", None) @@
               "l" :> S0(<<"s">> \o ByR, "A", "INTERNAL", None))
Failing == Trace(Request @@ "t" :> [Tool("ask-B") EXCEPT !.error = "yes"] @@ AgentB)

MCTraces == {Delegation, Deployed}
MCBeside == {Beside}
MCAside == {Aside}
MCFailing == {Failing}
================================================================================
