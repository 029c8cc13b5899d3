------------------------------ MODULE MCLegOrder ------------------------------
(* Three interactions: a call in a call in a call, two calls side by side in   *)
(* one that is its own parent, a cycle of two with a call below it.            *)
EXTENDS LegOrder, TLC

CONSTANTS a, b, c

MCParents ==
  {(a :> None) @@ (b :> a) @@ (c :> b),
   (a :> a) @@ (b :> a) @@ (c :> a),
   (a :> b) @@ (b :> a) @@ (c :> a)}

(* Numbers against the order of the calls: children first, responses first.    *)
MCNumber ==
  (<<a, "request">> :> 6) @@ (<<a, "response">> :> 3) @@
  (<<b, "request">> :> 5) @@ (<<b, "response">> :> 1) @@
  (<<c, "request">> :> 2) @@ (<<c, "response">> :> 4)
================================================================================
