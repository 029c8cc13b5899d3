----------------------------- MODULE MCLineageSync -----------------------------
(* Small instances of LineageSync: trace t1 with interactions i1 and i2, and   *)
(* trace t2 with i3.                                                           *)
EXTENDS LineageSync

CONSTANTS t1, t2, i1, i2, i3, user, bot, peer, p, q

MCTrace == {t1, t2}
MCInteraction == {i1, i2, i3}
MCEntity == {user, bot, peer}
MCPayload == {p, q}
MCTraceOf == [i \in MCInteraction |-> IF i = i3 THEN t2 ELSE t1]

Ix(caller, callee, parent) ==
  [caller |-> caller, callee |-> callee, parent |-> parent]
Leg(seq, at, payload) == [seq |-> seq, at |-> at, payload_hash |-> payload]

(* A plan from the rows it holds: partial functions, Absent elsewhere. *)
MakePlan(t, ix, legs) ==
  [trace |-> t,
   interactions |->
     [i \in MCInteraction |-> IF i \in DOMAIN ix THEN ix[i] ELSE Absent],
   legs |-> [k \in Key |-> IF k \in DOMAIN legs THEN legs[k] ELSE Absent]]

Only(x, y) == [z \in {x} |-> y]
Both(f, g) == [z \in DOMAIN f \cup DOMAIN g |->
                 IF z \in DOMAIN f THEN f[z] ELSE g[z]]
Req(i, leg) == Only(<<i, "request">>, leg)
Resp(i, leg) == Only(<<i, "response">>, leg)

(* i1: user calls bot, or peer once its echo arrives; i2: the inbound entry    *)
(* that the sidecar drops when it turns out to be i1's echo.                   *)
I1(callee) == Only(i1, Ix(user, callee, Absent))
I2(parent) == Only(i2, Ix(bot, peer, parent))

SidecarPlans ==
  {MakePlan(t1, I2(Absent), Req(i2, Leg(0, 2, p))),
   MakePlan(t1, I1(peer), Req(i1, Leg(0, 1, p))),
   MakePlan(t1, Both(I1(bot), I2(i1)),
            Both(Req(i1, Leg(0, 1, Absent)), Req(i2, Leg(0, 2, p)))),
   MakePlan(t1, Both(I1(bot), I2(i1)),
            Both(Req(i1, Leg(0, 3, Absent)), Req(i2, Leg(0, 2, p)))),
   MakePlan(t1, Both(I1(bot), I2(i1)),
            Both(Both(Req(i1, Leg(0, 1, q)), Resp(i1, Leg(0, 4, p))),
                 Req(i2, Leg(0, 2, p)))),
   MakePlan(t2, Only(i3, Ix(user, bot, Absent)), Req(i3, Leg(0, 1, p)))}

(* Without two of t1's derivations: the one that lacks i2, and one that differs *)
(* by a time.                                                                  *)
FewSidecarPlans ==
  {pl \in SidecarPlans :
     /\ pl.trace = t1 => pl.interactions[i2] # Absent
     /\ pl.legs[<<i1, "request">>] # Leg(0, 3, Absent)}

(* Graph ordinals: every trace counts its own edges, so a later, larger         *)
(* derivation adds legs at ordinals other traces have passed, and traces tie.  *)
(* Here no leg without a payload ties with another trace's leg.                *)
T1Calls == Both(I1(bot), I2(i1))

GraphPlansFor(tied) ==
  {MakePlan(t1, I1(bot), Req(i1, Leg(0, 1, p))),
   MakePlan(t1, T1Calls, Both(Req(i1, Leg(0, 1, q)), Req(i2, Leg(1, 2, p)))),
   MakePlan(t1, T1Calls,
            Both(Both(Req(i1, Leg(0, 1, q)), Resp(i1, Leg(2, 4, Absent))),
                 Req(i2, Leg(1, 2, p)))),
   MakePlan(t2, Only(i3, Ix(user, bot, Absent)),
            Both(Req(i3, Leg(1, 1, p)), Resp(i3, Leg(tied, 2, p)))),
   MakePlan(t2, Only(i3, Ix(peer, bot, Absent)), Req(i3, Leg(1, 1, q)))}

GraphPlans == GraphPlansFor(3)

(* t1's response without a payload ties with t2's response. *)
TiedGraphPlans == GraphPlansFor(2)
================================================================================
