--------------------------- MODULE StreamEndpoints ---------------------------
(****************************************************************************)
(* What the streaming derivation concludes from the spans it can see         *)
(* (procedure.py and caller_inference.py): which entity a span is of, who    *)
(* calls it, and whether that is decided yet.                                *)
(*                                                                          *)
(* A sight of the trace has: view, the spans the processor indexes; seen,    *)
(* those its walks downward fetch; mcp, the services it knows for tools.     *)
(* An entity is its natural key, a tuple that begins with its kind; a        *)
(* service stands for its canonical name and project.  Of a CLIENT span's    *)
(* URL only the class of its path is kept.                                   *)
(****************************************************************************)
EXTENDS Naturals, FiniteSets, SequencesExt

CONSTANTS
  Span,      \* the spans of a trace
  None       \* no parent, no service, no entity

VARIABLE trace     \* Span -> what a span says, above: its ancestors, nearest first

Ancestors(s) == trace[s].above
Parent(s) == IF Ancestors(s) = <<>> THEN None ELSE Head(Ancestors(s))
Service(s) == trace[s].service
IsServer(s) == trace[s].kind = "SERVER"
IsMcpServer(s) == IsServer(s) /\ trace[s].path = "mcp"
IsOi(s, kinds) == trace[s].oi \in kinds

(* Two spans on services that are known and not the same. *)
OnOtherService(s, t) ==
  Service(s) # None /\ Service(t) # None /\ Service(s) # Service(t)

--------------------------------------------------------------------------------
(* Walks. *)

Children(sight, s) == {c \in sight.seen : Parent(c) = s}

(* A span and all below it that have arrived, connected to it. *)
Subtree(seen, s) ==
  {d \in seen : d = s \/ \E n \in DOMAIN Ancestors(d) :
     /\ Ancestors(d)[n] = s
     /\ \A m \in 1..n - 1 : Ancestors(d)[m] \in seen}

(* The elements of a sequence before the first that stops a walk. *)
Before(seq, Stops(_)) ==
  LET stops == {n \in DOMAIN seq : Stops(seq[n])}
  IN SubSeq(seq, 1, IF stops = {} THEN Len(seq) ELSE Min(stops) - 1)

(* The chain of a span's ancestors, as far as the view has them. *)
Chain(sight, s) == Before(Ancestors(s), LAMBDA a : a \notin sight.view)

(* The spans below s, not past a span that ends the descent. *)
Below(sight, s, Ends(_)) ==
  {d \in Subtree(sight.seen, s) \ {s} :
     \A x \in ToSet(Before(Ancestors(d), LAMBDA a : a = s)) : ~Ends(x)}

--------------------------------------------------------------------------------
(* Identities. *)

Agent(s) == <<"agent", Service(s)>>
DeployedTool(s) == <<"tool", Service(s)>>

(* infer_caller_for_orphan_server: the root's own facts, else a client of its own. *)
OrphanCaller(root) ==
  IF trace[root].from = None THEN <<"client", root>> ELSE trace[root].from

(* An AGENT span of s's service, below s or above it, and not past a service   *)
(* boundary.                                                                   *)
HasAgent(sight, s) ==
  \/ \E d \in Below(sight, s, LAMBDA x : IsServer(x) /\ OnOtherService(x, s)) :
       Service(d) = Service(s) /\ IsOi(d, {"AGENT"})
  \/ \E a \in {s} \cup ToSet(Before(Chain(sight, s), LAMBDA x : OnOtherService(x, s))) :
       Service(a) = Service(s) /\ IsOi(a, {"AGENT"})

(* _resolve_service_side_identity. *)
ServiceSide(sight, s) ==
  IF Service(s) = None THEN None
  ELSE IF Service(s) \in sight.mcp THEN DeployedTool(s)
  ELSE IF HasAgent(sight, s) \/ IsOi(s, {"AGENT", "LLM", "CHAIN", "TOOL"})
       THEN Agent(s) ELSE None

(* _resolve_caller_around_oi_span: the nearest tool whose entity is known, on  *)
(* the same service.                                                           *)
CallerAround(sight, tools, s) ==
  LET around == SelectSeq(
        Before(Chain(sight, s), LAMBDA a : Service(a) # Service(s)),
        LAMBDA a : a \in DOMAIN tools)
  IN IF around # <<>> THEN tools[Head(around)] ELSE ServiceSide(sight, s)

(* _tool_transport_signal: by the nearest SERVER of every branch. *)
Transport(sight, s) ==
  LET nearest == {d \in Below(sight, s, IsServer) : IsServer(d)}
  IN IF \E d \in nearest : IsMcpServer(d) THEN "deployed"
     ELSE IF \E d \in nearest : Service(d) \notin {None, Service(s)}
     THEN "in-process" ELSE None

(* The MCP server of a deployed tool: of the tool's name, else any below it. *)
McpServerOf(sight, s) ==
  LET below == Subtree(sight.seen, s)
      named == {d \in below : /\ IsServer(d) /\ Service(d) = trace[s].name
                              /\ Service(d) \in sight.mcp}
  IN CHOOSE d \in below :
       IF named # {} THEN d \in named ELSE IsMcpServer(d)

(* _classify_oi_endpoint: what an LLM or a TOOL span is as a callee. *)
Classify(sight, tools, s) ==
  IF IsOi(s, {"LLM"}) THEN <<"llm", trace[s].name>>
  ELSE CASE Transport(sight, s) = "deployed" ->
              DeployedTool(McpServerOf(sight, s))
         [] Transport(sight, s) = "in-process" ->
              <<"tool", CallerAround(sight, tools, s), trace[s].name>>
         [] OTHER -> None

(* _resolve_cross_service_caller: a tool that encloses the call on its         *)
(* service, but not beyond an LLM span; else the service.                      *)
CrossServiceCaller(sight, tools, s) ==
  LET around == SelectSeq(
        Before(Chain(sight, s), LAMBDA a : Service(a) # Service(s)),
        LAMBDA a : IsOi(a, {"LLM", "TOOL"}))
  IN IF around # <<>> /\ IsOi(Head(around), {"TOOL"})
     THEN Classify(sight, tools, Head(around)) ELSE ServiceSide(sight, s)

(* _external_http_host: no MCP, discovery, probe or agent call, and no callee  *)
(* that sends spans of its own.                                                *)
IsExternal(sight, s) ==
  /\ trace[s].path = "business" /\ trace[s].name # None
  /\ ~\E c \in Children(sight, s) : IsServer(c)

(* The span that stops the climb from an egress to the tool that made it: an   *)
(* LLM span, or the parent of another agent's inbound call.                    *)
StopsEgress(sight, path, a) ==
  LET below == CHOOSE x \in path : Parent(x) = a
  IN \/ IsOi(a, {"LLM"})
     \/ OnOtherService(a, below) /\ IsServer(below) /\ ~IsMcpServer(below)

(* The tool that an egress belongs to, if one does. A TOOL parent is taken     *)
(* before a boundary is looked for.                                            *)
EgressTool(sight, s) ==
  LET path == {s} \cup ToSet(Chain(sight, s))
      climb == Before(Chain(sight, s),
                      LAMBDA a : StopsEgress(sight, path, a) /\ ~IsOi(a, {"TOOL"}))
      tools == SelectSeq(climb, LAMBDA a : IsOi(a, {"TOOL"}))
  IN IF tools = <<>> THEN None ELSE Head(tools)

(* The interaction a span is the primary anchor of, if it can be decided. *)
Edge(caller, callee, anchors) ==
  [caller |-> caller, callee |-> callee, anchors |-> anchors]
NoEdge == Edge(None, None, {})

OiEdge(sight, tools, s) ==
  Edge(CallerAround(sight, tools, s), Classify(sight, tools, s), {s})

OrphanServerEdge(sight, s) ==
  Edge(OrphanCaller(s), ServiceSide(sight, s), {s})

(* A call to the same service, to oneself or to a deployed tool is absorbed. *)
CrossServiceEdge(sight, tools, s) ==
  LET caller == CrossServiceCaller(sight, tools, Parent(s))
      callee == ServiceSide(sight, s)
  IN IF OnOtherService(Parent(s), s) /\ caller # callee /\ callee # DeployedTool(s)
     THEN Edge(caller, callee, {Parent(s), s}) ELSE NoEdge

ExternalEdge(sight, tools, s) ==
  LET tool == EgressTool(sight, s)
  IN IF tool # None /\ IsExternal(sight, s)
     THEN Edge(Classify(sight, tools, tool), <<"service", trace[s].name>>, {s})
     ELSE NoEdge

(* _retry_pending_endpoints, for one span. *)
EdgeOf(sight, tools, s) ==
  IF IsOi(s, {"LLM", "TOOL"}) THEN OiEdge(sight, tools, s)
  ELSE IF IsServer(s) /\ Parent(s) = None THEN OrphanServerEdge(sight, s)
  ELSE IF IsServer(s) /\ Parent(s) \in sight.view
       THEN CrossServiceEdge(sight, tools, s)
  ELSE IF trace[s].kind = "CLIENT" THEN ExternalEdge(sight, tools, s)
  ELSE NoEdge
================================================================================
