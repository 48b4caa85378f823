----------------------------- MODULE MCDeposits -----------------------------
(***************************************************************************)
(* A card payment and a crypto payment, two handlers in flight, and two    *)
(* that are cut short; or a guest's payment of a sale on its own;          *)
(* or, in other behaviours, a payment collected by IvoryPay that may be    *)
(* given up and still arrive.                                              *)
(***************************************************************************)
EXTENDS Deposits, IvoryDeposits, TLC

CONSTANTS card, coin, token

VARIABLE gateway

MCInit == Init /\ InitIvory /\ gateway \in {"checkout", "ivorypay"}

\* A sale is settled apart from the deposits of users: they share no row.
Apart == \A d \in Deposits : sale[d] # "none" => \A e \in Deposits \ {d} : Unused(e)

MCNext ==
  /\ UNCHANGED gateway
  /\ \/ gateway = "checkout" /\ Next /\ UNCHANGED ivoryVars
     \/ gateway = "ivorypay" /\ NextIvory /\ UNCHANGED vars
  /\ Apart'

MCSpec == MCInit /\ [][MCNext]_<<gateway, vars, ivoryVars>> /\ Fairness

=============================================================================
