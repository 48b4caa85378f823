-------------------------- MODULE EscrowContracts --------------------------
(***************************************************************************)
(* What escrow contracts promise their parties, whatever requests, jobs    *)
(* and administrators act on them: a principal is funded once, and what    *)
(* leaves a contract goes to the seller, in parts or at once, or back to   *)
(* the buyer after a dispute, and never exceeds the principal.             *)
(***************************************************************************)
EXTENDS Integers

CONSTANTS Contracts, Principal          \* escrow_contracts.amount of each, positive

VARIABLES status, paid, refunded        \* by contract

contractVars == <<status, paid, refunded>>

Init ==
  /\ status = [k \in Contracts |-> "none"]
  /\ paid = [k \in Contracts |-> 0]
  /\ refunded = [k \in Contracts |-> 0]

Move(k, from, to) == status[k] = from /\ status' = [status EXCEPT ![k] = to]

Fund(k) == Move(k, "none", "active") /\ UNCHANGED <<paid, refunded>>

\* The buyer, or the deadline, lets `part` of the principal go to the seller.
Pay(k, part) ==
  /\ part <= Principal[k] - paid[k]
  /\ paid' = [paid EXCEPT ![k] = @ + part]
  /\ Move(k, "active", IF paid'[k] = Principal[k] THEN "completed" ELSE "active")
  /\ UNCHANGED refunded

Dispute(k) == Move(k, "active", "disputed") /\ UNCHANGED <<paid, refunded>>

\* The administrator decides for the seller, or for the buyer.
Award(k) ==
  /\ Move(k, "disputed", "completed")
  /\ paid' = [paid EXCEPT ![k] = Principal[k]]
  /\ UNCHANGED refunded

Refund(k) ==
  /\ Move(k, "disputed", "refunded")
  /\ refunded' = [refunded EXCEPT ![k] = Principal[k] - paid[k]]
  /\ UNCHANGED paid

Next ==
  \E k \in Contracts :
    \/ Fund(k) \/ Dispute(k) \/ Award(k) \/ Refund(k)
    \/ \E part \in 1 .. Principal[k] : Pay(k, part)

Spec == Init /\ [][Next]_contractVars

=============================================================================
