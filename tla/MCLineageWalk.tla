---------------------------- MODULE MCLineageWalk ----------------------------
(* Every trace of four legs in which each entity calls another; entities come  *)
(* into it in the order s, x, y, z.                                            *)
EXTENDS LineageWalk, TLC

CONSTANTS s, x, y, z, i, j, k, l

Number == (i :> 1) @@ (j :> 2) @@ (k :> 3) @@ (l :> 4)

(* The shapes of a trace: a request is before its response. *)
MCShapes ==
  LET request(n) == <<n, "request">>
      response(n) == <<n, "response">>
  IN {<<request(i), request(j), request(k), request(l)>>,
      <<request(i), request(j), response(j), response(i)>>,
      <<request(i), request(j), response(i), response(j)>>,
      <<request(i), response(i), request(j), response(j)>>,
      <<request(i), request(j), response(j), request(k)>>,
      <<request(i), request(j), response(i), request(k)>>}

MCCalls == {w \in [caller : Entity, callee : Entity] : w.caller # w.callee}

(* Entities come into a trace in turn. *)
InTurn(calls) ==
  \E m \in {<<calls[1].caller, calls[1].callee, calls[2].caller, calls[2].callee,
             calls[3].caller, calls[3].callee, calls[4].caller, calls[4].callee>>} :
    \A n \in 1..8 : m[n] \in {s, x}
       \/ \E h \in 1..n - 1 : (m[n] = y /\ m[h] = x) \/ (m[n] = z /\ m[h] = y)

FourCalls == {c \in [1..4 -> MCCalls] : InTurn(c)}

(* Interactions that are not in the trace have no participants. *)
MCWho(legs) ==
  LET Call(c, n) == IF n \in {legs[h][1] : h \in 1..4} THEN c[Number[n]]
                    ELSE [caller |-> None, callee |-> None]
  IN {[n \in Interaction |-> Call(c, n)] : c \in FourCalls}

MCTraces ==
  UNION {{[legs |-> legs, who |-> who] : who \in MCWho(legs)} : legs \in MCShapes}

(* At most one leg has no row yet or lacks the source. *)
MCRows ==
  {r \in [1..4 -> Row] :
     \A m, n \in 1..4 : r[m] # "carries" /\ r[n] # "carries" => m = n}

MCLimits == {[hops |-> 64, entities |-> 512], [hops |-> 2, entities |-> 2]}
================================================================================
