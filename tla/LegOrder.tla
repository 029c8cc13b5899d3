------------------------------- MODULE LegOrder -------------------------------
(****************************************************************************)
(* The causal order of one trace's legs (interaction_order.py), which every  *)
(* reader and the lineage derivation use, computed again for every set of    *)
(* legs a trace goes through as its legs arrive in any order.                *)
(*                                                                          *)
(* A time is a number, and Unknown, a leg without one, is above them all:    *)
(* the code sorts such legs last and takes minima past them.  A leg is a     *)
(* pair of its interaction and its type.  Legs of one interaction name the   *)
(* same parent.  The heap and the depth-first walk that the code ranks with  *)
(* are the orders they produce.                                              *)
(****************************************************************************)
EXTENDS Naturals, Sequences, FiniteSets, TraceLegs

CONSTANTS
  LastTime,      \* bound: times are 0..LastTime
  Tolerance,     \* CLOCK_SKEW_TOLERANCE
  Parents,       \* the parent links a trace may have, cycles included
  Number            \* the stored number of every leg

Unknown == LastTime + 1

ASSUME LegOrderAssumption ==
  /\ LastTime \in Nat /\ Tolerance \in Nat
  /\ Parents \subseteq [Interaction -> Interaction \cup {None}]
  /\ Number \in [Leg -> Nat]
  /\ \A j, k \in Leg : Number[j] = Number[k] => j = k

VARIABLES
  parent,   \* each interaction's parent
  time,     \* when each leg of the trace occurred
  order     \* what order_legs returns for them

ordering == <<parent, time, order>>

Legs == DOMAIN time
Present(leg) == IF leg \in Legs THEN leg ELSE None

--------------------------------------------------------------------------------
(* Sort times. *)

(* What x leads to in S, following next: the strong components that matter.    *)
Beyond(next, x, S) ==
  {y \in S : \A T \in SUBSET S :
     (\A z \in T \cup {x} : next[z] \in S => next[z] \in T) => y \in T}

(* A parent link on a cycle bounds nothing. *)
Bound(k) ==
  LET interactions == {j[1] : j \in Legs} IN
  IF k[1] \in Beyond(parent, k[1], interactions)
  THEN None ELSE Present(<<parent[k[1]], "response">>)

(* A request's own response, when it is timed. *)
OwnResponse(k) ==
  LET response == Present(<<k[1], "response">>) IN
  IF k[2] = "request" /\ response # None /\ time[response] # Unknown
  THEN response ELSE None

Earlier(s, t) == IF s < t THEN s ELSE t

(* Mutant: a tolerance too small by one. *)
ClearlyAsynchronousAt(k, bound) ==
  /\ time[k] # Unknown /\ time[bound] # Unknown
  /\ time[k] >= time[bound] + Tolerance

ClearlyAsynchronous(k, bound) ==
  /\ time[k] # Unknown /\ time[bound] # Unknown
  /\ time[k] > time[bound] + Tolerance

(* A leg is pulled to its parent's response, a request to its own. *)
SortTimes(bound) ==
  LET At[k \in Legs] ==
        LET response == OwnResponse(k)
            pulled ==
              IF bound[k] = None \/ ClearlyAsynchronous(k, bound[k])
              THEN time[k] ELSE Earlier(time[k], At[bound[k]])
        IN IF response = None THEN pulled ELSE Earlier(pulled, At[response])
  IN [k \in Legs |-> At[k]]

(* The response whose group a leg joins: its own for a request stamped after   *)
(* it, else its parent's for a leg that was pulled.                            *)
Owner(bound, at, k) ==
  LET response == OwnResponse(k)
  IN IF response # None /\ time[k] > time[response] /\ at[k] = at[response]
     THEN response
     ELSE IF bound[k] # None /\ at[k] = at[bound[k]] THEN bound[k] ELSE None

--------------------------------------------------------------------------------
(* Ranks. *)

Less(s, t) ==
  \E n \in DOMAIN s : s[n] < t[n] /\ \A m \in 1..n - 1 : s[m] = t[m]

(* What legs that have the same owner, or none, are sorted by.  *)
Weight(at, owner, k) ==
  <<IF owner[k] = None THEN at[k]
    ELSE IF k[1] = owner[k][1] THEN 0 ELSE 1, time[k], Number[k]>>

(* The groups a leg is in: its own, its owner's, and so on. *)
Groups(owner) ==
  LET In[k \in Legs] ==
        {k} \cup IF owner[k] = None THEN {} ELSE In[owner[k]]
  IN [k \in Legs |-> In[k]]

(* A group comes immediately before its owner; otherwise the outermost groups  *)
(* that two legs do not share decide.                                          *)
Rank(weight, owner, groups, k) ==
  Cardinality({j \in Legs \ {k} :
    \/ k \in groups[j]
    \/ \E a \in groups[j] \ groups[k], b \in groups[k] \ groups[j] :
         owner[a] = owner[b] /\ Less(weight[a], weight[b])})

--------------------------------------------------------------------------------
(* order_legs. *)

(* The leg that must come before, if it is there. *)
Preceder(k) ==
  IF k[2] = "response" THEN Present(<<k[1], "request">>)
  ELSE IF parent[k[1]] = k[1] THEN None
  ELSE Present(<<parent[k[1]], "request">>)

(* Only requests wait for another interaction's leg. *)
Waits == [k \in {j \in Legs : j[2] = "request"} |-> Preceder(k)]
OnCycle(k) == k \in DOMAIN Waits /\ k \in Beyond(Waits, k, DOMAIN Waits)

(* Mutant: a response waits for those of its children. *)
ReleasableChildrenFirst(done) ==
  LET ready == {k \in Legs \ done :
                  /\ Preceder(k) \in done \cup {None}
                  /\ \A j \in Legs \ done : j[2] = "response" => Bound(j) # k}
  IN IF ready # {} THEN ready ELSE {k \in Legs \ done : OnCycle(k)}

(* Mutant: any leg may break a cycle. *)
ReleasableDownstream(done) ==
  LET ready == {k \in Legs \ done : Preceder(k) \in done \cup {None}}
  IN IF ready # {} THEN ready ELSE Legs \ done

(* The legs to choose the next one from.  *)
Releasable(done) ==
  LET ready == {k \in Legs \ done : Preceder(k) \in done \cup {None}}
  IN IF ready # {} THEN ready ELSE {k \in Legs \ done : OnCycle(k)}

(* The order of the first n legs is the only member of Upto[n]. *)
Ordered(rank) ==
  LET First(S) == CHOOSE k \in S : \A j \in S : rank[k] <= rank[j]
      Upto[n \in Nat] ==
        IF n = 0 THEN {<<>>}
        ELSE {Append(s, First(Releasable({s[m] : m \in 1..n - 1}))) :
                s \in Upto[n - 1]}
  IN Upto[Cardinality(Legs)]

(* order_legs, of the legs there are now. *)
OrderLegs ==
  \E bound \in {[k \in Legs |-> Bound(k)]'} :
  \E at \in {SortTimes(bound)'} :
  \E owner \in {[k \in Legs |-> Owner(bound, at, k)]'} :
  \E groups \in {Groups(owner)'} :
  \E weight \in {[k \in Legs |-> Weight(at, owner, k)]'} :
  \E rank \in {[k \in Legs |-> Rank(weight, owner, groups, k)]'} :
    order' \in Ordered(rank)'

--------------------------------------------------------------------------------

InitOrder ==
  /\ parent \in Parents
  /\ time = <<>> /\ order = <<>>

(* A leg of the trace is derived, its time known or not, and a reader orders   *)
(* the trace again.                                                            *)
Land(k, t) ==
  /\ k \notin Legs /\ UNCHANGED parent
  /\ time' = [j \in Legs \cup {k} |-> IF j = k THEN t ELSE time[j]]
  /\ OrderLegs

NextOrder == \E k \in Leg, t \in 0..Unknown : Land(k, t)

SpecOrder == InitOrder /\ [][NextOrder]_ordering

--------------------------------------------------------------------------------

Place(k) == CHOOSE n \in DOMAIN order : order[n] = k
Ahead(j, k) == Place(j) < Place(k)

(* Every leg is in the order, and once.                                        *)
OrderTypeOK ==
  /\ parent \in Parents
  /\ Legs \subseteq Leg /\ \A k \in Legs : time[k] \in 0..Unknown
  /\ Len(order) = Cardinality(Legs)
  /\ {order[n] : n \in DOMAIN order} = Legs

(* A request comes before its response and before its children's requests; of  *)
(* a cycle of parent links one such constraint is given up, and of the legs    *)
(* downstream of it none (order_legs, "the earliest leg on a remaining cycle   *)
(* is released first").                                                        *)
OneBreakPerCycle ==
  LET broken == {k \in Legs : Preceder(k) # None /\ ~Ahead(Preceder(k), k)}
  IN \A k \in broken :
       OnCycle(k) /\ \A j \in broken \ {k} : j \notin Beyond(Waits, k, DOMAIN Waits)

(* No evidence of asynchrony: an unknown time is none. *)
MaySynchronize(k, bound) ==
  time[k] = Unknown \/ time[k] <= time[bound] + Tolerance

(* A child whose response is not clearly asynchronous answers before its       *)
(* parent, whatever their clocks say; but a response without a time that waits *)
(* for a clearly asynchronous request (order_legs, "a synchronous child        *)
(* answers before its parent even when the callee's clock runs ahead").        *)
ChildAnswersFirst ==
  \A k \in Legs :
    LET bound == Bound(k)
        request == <<k[1], "request">>
    IN k[2] = "response" /\ bound # None /\ MaySynchronize(k, bound)
       => \/ Ahead(k, bound)
          \/ /\ time[k] = Unknown /\ request \in Legs
             /\ ~MaySynchronize(request, bound)

(* Times that contradict nothing decide: if every constraint agrees with them, *)
(* and every child leg came before its parent's response or clearly after,     *)
(* the order is theirs.                                                        *)
TimesDecide ==
  (\A k \in Legs :
     /\ time[k] # Unknown /\ ~OnCycle(k)
     /\ Preceder(k) # None => time[Preceder(k)] <= time[k]
     /\ Bound(k) # None =>
          time[k] <= time[Bound(k)] \/ time[k] > time[Bound(k)] + Tolerance)
  => \A j, k \in Legs : Ahead(j, k) => time[j] <= time[k]

(* A leg of an interaction without children moves no leg of another when it    *)
(* lands: a late child never pushes its parent's response (order_legs, "the    *)
(* parent's response is never moved later for its child").                     *)
LateLeafMovesNone ==
  [][\A k \in Legs' \ Legs :
       (\A j \in Legs : parent[j[1]] # k[1]) =>
         \A i, j \in {h \in Legs : h[1] # k[1]} : Ahead(i, j)' <=> Ahead(i, j)]_ordering
================================================================================
