-------------------------- MODULE MCActionEffects ---------------------------
(* ActionEffects for TLC: the configurations give the constants.  *)
(* They check liveness too, so no symmetry is declared. *)
EXTENDS ActionEffects
=============================================================================
