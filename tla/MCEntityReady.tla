----------------------------- MODULE MCEntityReady -----------------------------
(* Small instances of EntityReady: spans of SidecarTraffic. *)
EXTENDS EntityReady, SidecarTraffic
================================================================================
