---------------------------- MODULE MCOtlpReceiver ----------------------------
(* Small instances of OtlpReceiver: two spans sent as a partial and as an end  *)
(* version, in batches that name them in opposite orders, with a span that     *)
(* Postgres refuses and one that the blocklist drops.                          *)
EXTENDS OtlpReceiver

CONSTANTS th1, th2, s1, s2, bad, probe, b1, b2, b3

V(s, ended) == [span |-> s, ended |-> ended]

MCVersions ==
  [b \in Batch |->
     CASE b = b1 -> <<V(s1, FALSE), V(bad, TRUE), V(s2, TRUE)>>
       [] b = b2 -> <<V(s2, FALSE), V(s1, TRUE), V(probe, TRUE)>>
       [] b = b3 -> <<V(bad, TRUE), V(s2, TRUE)>>]
================================================================================
