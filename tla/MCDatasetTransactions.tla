----------------------- MODULE MCDatasetTransactions ------------------------
(* DatasetTransactions for TLC: the configurations give the constants.  *)
(* They check liveness too, so no symmetry is declared.                 *)
EXTENDS DatasetTransactions, TLC

CONSTANTS w1, w2, r1, r2, r3

OneEach == w1 :> r2 @@ w2 :> r3
=============================================================================
