----------------------------- MODULE SidecarTraffic -----------------------------
(* Spans for the instances of the sidecar modules.  Trace t1: a client calls   *)
(* pod bot (in), bot calls the tool at hp (call), the tool's own sidecar, pod  *)
(* kit, sees the call (echo), the call is answered (resp), and the tool calls  *)
(* a service (next).  A call from kit to pod spare that kit's sidecar does not *)
(* capture shows at spare's sidecar only (echo2).  Trace t2: bot calls the     *)
(* same host:port, whose sidecar stays unseen (far).                           *)
EXTENDS SidecarPlan

CONSTANTS t1, t2, in, call, echo, echo2, resp, next, far,
          bot, kit, spare, hp, api, user

Request(t, parent, id, direction, protocol, pod, peer) ==
  [trace |-> t, parent |-> parent, role |-> "request", exchange |-> id,
   direction |-> direction, protocol |-> protocol,
   pod |-> pod, peer |-> peer, client |-> user]

AllFacts(s) ==
  CASE s = in    -> Request(t1, None, in, "inbound", "a2a", bot, hp)
    [] s = call  -> Request(t1, in, call, "outbound", "mcp", bot, hp)
    [] s = echo  -> Request(t1, call, echo, "inbound", "mcp", kit, hp)
    [] s = echo2 -> Request(t1, echo, echo2, "inbound", "mcp", spare, hp)
    [] s = next  -> Request(t1, echo, next, "outbound", "http", kit, api)
    [] s = far   -> Request(t2, None, far, "outbound", "mcp", bot, hp)
    [] s = resp  -> [Request(t1, call, call, "outbound", "mcp", bot, hp)
                       EXCEPT !.role = "response"]

TwoTraceSpan == {in, call, echo, next, far}
CallSpan == {in, call, echo, resp}
ForkSpan == {in, call, echo, echo2}
MCFacts == [s \in Span |-> AllFacts(s)]
MCProvisional == {<<"tool", hp>>}
================================================================================
