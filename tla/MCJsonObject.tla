---------------------------- MODULE MCJsonObject ----------------------------
(* Five names that collide: k1 and k2 have the same hash; k1, k2 and k4 have *)
(* their probes start in the last of eight cells, k5 in the one before, and  *)
(* k3 in the first, so that runs of used cells wrap around.                  *)
EXTENDS JsonObject, TLC

CONSTANTS k1, k2, k3, k4, k5

Hash == k1 :> 7 @@ k2 :> 7 @@ k3 :> 0 @@ k4 :> 15 @@ k5 :> 6
Symmetry == Permutations(Values)
=============================================================================
