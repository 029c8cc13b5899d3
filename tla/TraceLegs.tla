------------------------------- MODULE TraceLegs -------------------------------
(****************************************************************************)
(* What the readers of a trace share: its interactions and their legs.  A    *)
(* leg is a pair of its interaction and its type, as the primary key of      *)
(* interaction_legs is.                                                      *)
(****************************************************************************)
CONSTANTS
  Interaction,
  None           \* no parent, no leg, a participant not yet inferred

Leg == Interaction \X {"request", "response"}

ASSUME TraceLegsAssumption == None \notin Leg
================================================================================
