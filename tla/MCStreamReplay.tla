--------------------------- MODULE MCStreamReplay ---------------------------
(* StreamReplay for TLC: the configurations give the constants.  *)
(* They check liveness too, so no symmetry is declared. *)
EXTENDS StreamReplay
=============================================================================
