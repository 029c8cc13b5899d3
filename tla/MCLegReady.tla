------------------------------ MODULE MCLegReady ------------------------------
(* Small instances of LegReady: numbers from the sequence, or the graph       *)
(* writer's ordinals, which start at 0 in each of two traces.                 *)
EXTENDS LegReady

FromSequence == [i \in Interaction |-> None]
FromEdges == [i \in Interaction |-> 0]
================================================================================
