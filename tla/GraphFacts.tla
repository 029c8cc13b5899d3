------------------------------ MODULE GraphFacts ------------------------------
(****************************************************************************)
(* What the graph algorithm reads off one span (interactions/graph/           *)
(* adapters.py): what it is about, whether it is a call, and whom it calls.   *)
(* Identities are pairs <<kind, name>>, the code's prefixed strings.          *)
(****************************************************************************)
EXTENDS Naturals, Sequences, FiniteSets, SequencesExt, FiniteSetsExt, Functions

CONSTANTS
  Span,    \* the spans of the trace
  None     \* an absent value

VARIABLE
  trace    \* span -> what its instrumentation says, see below

(* Of each span: sent, whether it is sent at all; above, its ancestors nearest *)
(* first; service; scope, "transport", "other" or the framework of an          *)
(* OpenInference scope; oi, its span kind; form, what its name says ("query",  *)
(* "dispatch", "handoff", "workflow"); name, the model, tool or agent that it  *)
(* names; asks and replays, the tool calls on a model's output and input, each *)
(* [tool, args]; io, its input and output; start and end.                      *)
Parent(s) == IF trace[s].above = <<>> THEN None ELSE Head(trace[s].above)
Service(s) == trace[s].service
Scope(s) == trace[s].scope

(* Communication scopes are coloured Teal, agentic ones Blue, others White. *)
IsTransport(s) == Scope(s) = "transport"
IsAgentic(s) == Scope(s) \notin {"transport", "other"}

Framed(s, framework, form) == Scope(s) = framework /\ trace[s].form = form

(* _ClaudeAgentSDKAdapter: a query is caller and model in one span, a dispatch *)
(* names the agent or tool that it starts.                                     *)
IsQuery(s) == Framed(s, "claude_agent_sdk", "query")
IsDispatch(s) == Framed(s, "claude_agent_sdk", "dispatch") /\ trace[s].oi = "AGENT"

(* _OpenAIAgentsAdapter: a handoff names an agent, a run names none. *)
IsHandoff(s) == Framed(s, "openai_agents", "handoff") /\ trace[s].oi = "TOOL"
IsRunner(s) == Framed(s, "openai_agents", "workflow") /\ trace[s].oi = "AGENT"

(* SpanFacts.kind. *)
Kind(s) ==
  LET oi == IF trace[s].oi \in {"LLM", "TOOL", "AGENT"} THEN trace[s].oi ELSE "OTHER"
  IN IF IsQuery(s) THEN IF oi = "OTHER" THEN "AGENT" ELSE oi
     ELSE IF ~IsAgentic(s) \/ Scope(s) = "mcp" \/ (Scope(s) = "anthropic" /\ oi # "LLM")
     THEN "OTHER" ELSE oi

(* SpanFacts.role: BOTH for a query, SOURCE for a call, NONE for the others. *)
IsCombined(s) == IsQuery(s)
IsCall(s) == ~IsQuery(s) /\ (IsDispatch(s) \/ Kind(s) \in {"LLM", "TOOL"})

Prefix(kind) == IF kind = "LLM" THEN "llm" ELSE IF kind = "TOOL" THEN "tool" ELSE "agent"

(* SpanFacts.natural_key: whom a call is to, or which agent runs. An AGENT span *)
(* without a name has its service's, except where the framework names it.       *)
Key(s) ==
  LET named == Scope(s) \in {"openai_agents"} \/ IsDispatch(s)
      name == IF Kind(s) = "AGENT" /\ ~named /\ trace[s].name = None
              THEN Service(s) ELSE trace[s].name
  IN IF Kind(s) = "OTHER" \/ IsQuery(s) \/ IsRunner(s) \/ name = None THEN None
     ELSE <<IF IsHandoff(s) THEN "agent" ELSE Prefix(Kind(s)), name>>

(* target_label of a query: the model, which may be unknown. *)
QueryTarget(s) == <<"llm", IF trace[s].name = None THEN "?" ELSE trace[s].name>>

(* The tool calls that only the Anthropic adapter reads off a model's span. *)
Asked(s, side) ==
  IF Scope(s) # "anthropic" \/ Kind(s) # "LLM" THEN <<>>
  ELSE IF side = "out" THEN trace[s].asks ELSE trace[s].replays
================================================================================
