------------------------------ MODULE MCEscrow ------------------------------
(***************************************************************************)
(* ann asks for two escrows and can afford one of them at a time, one with *)
(* bob and one with the platform's account; two handlers are in flight.    *)
(***************************************************************************)
EXTENDS Escrow, TLC

CONSTANTS ann, bob, farm, e1, e2

MCUsers == {ann, bob, farm}
MCEscrows == {e1, e2}
MCBuyer == e1 :> ann @@ e2 :> ann
MCSeller == e1 :> bob @@ e2 :> farm
MCAmount == e1 :> 2 @@ e2 :> 1
MCFee == [a \in 0 .. 2 |-> a \div 2]
MCInitialBalance == ann :> 3 @@ bob :> 0 @@ farm :> 0

=============================================================================
