--------------------------- MODULE MCWithdrawals ----------------------------
(***************************************************************************)
(* ann can afford some of her bank and crypto withdrawals at a time; one   *)
(* is left by the retired provider.  Two submission handlers in flight.    *)
(* What happens to the second bank withdrawal and to the one that is left  *)
(* is checked in different behaviours.                                     *)
(***************************************************************************)
EXTENDS Withdrawals, TLC

CONSTANTS ann, farm, bank, coin, bank2, old

MCUsers == {ann, farm}
MCInitialBalance == ann :> 5 @@ farm :> 0
MCWithdrawals4 == {bank, coin, bank2, old}
MCOwner == bank :> ann @@ coin :> ann @@ bank2 :> ann @@ old :> ann
MCAmount == bank :> 2 @@ coin :> 3 @@ bank2 :> 1 @@ old :> 1
MCFee == bank :> 1 @@ coin :> 1 @@ bank2 :> 0 @@ old :> 0
MCTwo == {bank, coin}
MCTwoOwner == bank :> ann @@ coin :> ann
MCTwoAmount == bank :> 2 @@ coin :> 3
MCTwoFee == bank :> 1 @@ coin :> 1

\* One of the two was rejected before.
MCInit == \E w \in {bank2, old} : InitAfter({w})

MCSpec == MCInit /\ [][Next]_vars

Symmetry == Permutations(Calls)

=============================================================================
