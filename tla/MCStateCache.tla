----------------------------- MODULE MCStateCache -----------------------------
(* Small instances of StateCache for TLC.                                  *)
EXTENDS StateCache, TLC

CONSTANTS c1, x1, oc, ox

MC_GvrOf == (oc :> c1) @@ (ox :> x1)
MC_GvrOfX == ox :> x1
=============================================================================
