------------------------- MODULE MCMediaTransactions -------------------------
(* MediaTransactions for TLC. *)
EXTENDS MediaTransactions, TLC

\* Sessions, transactions and calls of commit are only compared.
Alike == Permutations(Sessions) \cup Permutations(Txs) \cup Permutations(Committers)
=============================================================================
