---------------------------- MODULE MCTransfers -----------------------------
(***************************************************************************)
(* ann can pay either her transfer or the request bob made her, not both;  *)
(* she can pay the request twice, and bob has a transfer of his own.       *)
(***************************************************************************)
EXTENDS Transfers, TLC

CONSTANTS ann, bob, farm, gift, back, rent

MCUsers == {ann, bob, farm}
MCInitialBalance == ann :> 4 @@ bob :> 1 @@ farm :> 0
MCFrom == gift :> ann @@ back :> bob @@ rent :> ann
MCTo == gift :> bob @@ back :> ann @@ rent :> bob
MCAmount == gift :> 2 @@ back :> 1 @@ rent :> 1
MCFee == gift :> 1 @@ back :> 0 @@ rent :> 1
MCMerchantFee == gift :> 0 @@ back :> 1

Symmetry == Permutations(Calls)

=============================================================================
