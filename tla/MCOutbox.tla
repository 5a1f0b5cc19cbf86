------------------------------ MODULE MCOutbox ------------------------------
(***************************************************************************)
(* Instances of Outbox for TLC.                                            *)
(***************************************************************************)
EXTENDS Outbox, TLC

CONSTANTS worker, caller

OneEach  == 1 :> 1 @@ 2 :> 2
SameTenant == 1 :> 1 @@ 2 :> 1
=============================================================================
