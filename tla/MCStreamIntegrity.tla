------------------------- MODULE MCStreamIntegrity --------------------------
(* Instances of StreamIntegrity. *)
EXTENDS StreamIntegrity, TLC

AnyId == Permutations(Ids)
=============================================================================
