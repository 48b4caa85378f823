------------------------------- MODULE Shared --------------------------------
(***************************************************************************)
(* What the models of the payment products have in common: the wallets     *)
(* their handlers move money between, and the slots handlers run in.       *)
(***************************************************************************)
EXTENDS Wallets

CONSTANTS
  Users, Platform,  \* Platform: the super administrator, who receives fees
  InitialBalance,
  Calls             \* handlers that can be in flight at once

ASSUME SharedAssumption ==
  /\ IsFiniteSet(Users) /\ Platform \in Users
  /\ InitialBalance \in [Users -> Nat]

VARIABLE wallet

Idle == [op |-> "idle"]
Idles == [c \in Calls |-> Idle]

InitWallets == wallet = [u \in Users |-> [balance |-> InitialBalance[u], locked |-> 0]]

CanSpend(u, amount) == Available(wallet[u]) >= amount

\* One transaction that takes price and surcharge from one user and gives the
\* rest, after a cut, to another; both fees go to the platform.
Sell(payer, payee, price, cut, surcharge) ==
  Credit(Credit(Debit(wallet, payer, price + surcharge), payee, price - cut),
         Platform, cut + surcharge)

\* Money that came from outside, shared between a payee and the platform.
Collect(payee, price, cut) ==
  Credit(Credit(wallet, payee, price - cut), Platform, cut)

\* All wallets together hold what they held at first, and extra.
Holds(extra) == Total(wallet) = SumOver(InitialBalance, Users) + extra

=============================================================================
