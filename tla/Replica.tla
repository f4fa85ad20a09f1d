------------------------------- MODULE Replica -------------------------------
(***************************************************************************)
(* What a client can rely on about one life of an operator process: it     *)
(* answers before its cache is filled, from a filled cache from then on,   *)
(* and not at all in the end.  The operator implements this (ReplicaPhases *)
(* of Operator); LiveClient uses it for the pods it talks to.              *)
(***************************************************************************)
VARIABLE phase

Phases == {"starting", "serving", "ready", "down"}

Later(p) == CASE p = "starting" -> {"serving", "ready", "down"}
              [] p = "serving" -> {"ready", "down"}
              [] p = "ready" -> {"down"}
              [] OTHER -> {}

ReplicaSpec == phase = "starting" /\ [][phase' \in Later(phase)]_phase
=============================================================================
