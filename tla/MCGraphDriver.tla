----------------------------- MODULE MCGraphDriver -----------------------------
(****************************************************************************)
(* Instances of GraphDriver. Each trace is of agent A:                       *)
(*   Replay      a model asks for tool T, and the next prompt replays it;    *)
(*   Wrapped     a model's span is recorded twice, one in the other; the end *)
(*               of the outer one comes later;                               *)
(*   Retried     a tool calls itself, and is called again;                   *)
(*   Delegation  a tool of A reaches agent B over HTTP;                      *)
(*   Twin        a tool of A is a service that records the call as well;     *)
(*   Bare        A has no span of its own, only its models, below HTTP;      *)
(*   BareCall    such an agent calls another such agent.                     *)
(****************************************************************************)
EXTENDS GraphDriver

MCOrder == <<"a", "b", "c", "l", "m", "s", "t", "w">>
MCSpan == ToSet(MCOrder)
InBand == -40

(* A span under others, given nearest first. *)
S0(above, service, scope, oi, start, end) ==
  [sent |-> TRUE, open |-> FALSE, above |-> above, service |-> service,
   scope |-> scope, oi |-> oi, form |-> "call",
   name |-> CASE oi = "LLM" -> "m" [] oi = "TOOL" -> "T" [] OTHER -> service,
   asks |-> <<>>, replays |-> <<>>, io |-> start, start |-> start, end |-> end]
Silent == [S0(<<>>, None, "other", "none", 0, 0) EXCEPT !.sent = FALSE]
Trace(spans) == [s \in MCSpan |-> IF s \in DOMAIN spans THEN spans[s] ELSE Silent]

Run(above, service, start, end) == S0(above, service, "google_adk", "AGENT", start, end)
Model(above, start, end) == S0(above, "A", "anthropic", "LLM", start, end)
Tool(above, start, end) == S0(above, "A", "google_adk", "TOOL", start, end)
Http(above, service, start, end) == S0(above, service, "transport", "none", start, end)
T(args) == <<[tool |-> "T", args |-> args]>>

Replay == Trace(
  "a" :> Run(<<>>, "A", 0, 20) @@
  "l" :> [Model(<<"a">>, 2, 5) EXCEPT !.asks = T("x")] @@
  "m" :> [Model(<<"a">>, 7, 9) EXCEPT !.replays = T("x"), !.open = TRUE])

Wrapped == Trace(
  "a" :> Run(<<>>, "A", 0, 20) @@
  "l" :> [Model(<<"a">>, 2, 9) EXCEPT !.scope = "google_adk", !.open = TRUE] @@
  "m" :> Model(<<"l", "a">>, 3, 8))

Retried == Trace(
  "a" :> Run(<<>>, "A", 0, 20) @@
  "t" :> Tool(<<"a">>, 10, 16) @@
  "s" :> Tool(<<"t", "a">>, 11, 15) @@
  "w" :> Tool(<<"a">>, 17, 19))

Delegation == Trace(
  "t" :> Tool(<<>>, 2, 18) @@
  "c" :> Http(<<"t">>, "A", 3, 17) @@
  "s" :> Http(<<"c", "t">>, "B", 4, 16) @@
  "w" :> S0(<<"s", "c", "t">>, "B", "other", "none", 5, 15) @@
  "b" :> Run(<<"w", "s", "c", "t">>, "B", 6, 14))

Twin == Trace(
  "t" :> Tool(<<>>, 2, 18) @@
  "c" :> Http(<<"t">>, "A", 3, 17) @@
  "s" :> Http(<<"c", "t">>, "B", 4, 16) @@
  "w" :> [Tool(<<"s", "c", "t">>, 6, 14) EXCEPT !.service = "B"])

Bare == Trace(
  "s" :> Http(<<>>, "A", 0, 20) @@
  "l" :> [Model(<<"s">>, 2, 5) EXCEPT !.asks = T("x")] @@
  "m" :> [Model(<<"s">>, 7, 9) EXCEPT !.replays = T("x"), !.asks = T("y")])

BareCall == Trace(
  "w" :> Http(<<>>, "A", 0, 20) @@
  "l" :> Model(<<"w">>, 2, 5) @@
  "c" :> Http(<<"w">>, "A", 6, 12) @@
  "s" :> Http(<<"c", "w">>, "B", 7, 11) @@
  "m" :> [Model(<<"s", "c", "w">>, 8, 9) EXCEPT !.service = "B"])

MCTraces == {Replay, Wrapped, Retried, Delegation, Bare}
MCTwin == {Twin}
MCWrapped == {Wrapped}
MCReplay == {Replay}
MCBareCall == {BareCall}

Luck(services, flag, n) ==
  [services |-> services, reversed |-> flag, swapped |-> flag, backwards |-> flag,
   pick |-> [s \in MCSpan |-> n]]
MCLucks == {Luck(<<"A", "B">>, FALSE, 1), Luck(<<"B", "A">>, TRUE, 2)}
================================================================================
