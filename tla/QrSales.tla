------------------------------ MODULE QrSales -------------------------------
(***************************************************************************)
(* Merchants and the QR payments they receive: applications and their      *)
(* review, public sales paid at an external checkout, and purchases from a *)
(* customer's wallet.                                                      *)
(*                                                                         *)
(* A public sale has two rows, in transactions and in qr_payments, and is  *)
(* settled by whoever learns the outcome: a webhook, or the customer's     *)
(* browser that polls verify().  Any number of them run at once, each on a *)
(* report it fetched before.                                               *)
(***************************************************************************)
EXTENDS Shared

CONSTANTS
  Owner, Customer,
  Shops,            \* rows of merchants, all of them the owner's
  Sales, Purchases, \* public sales; purchases from the customer's wallet
  Paystack,         \* sales at the provider whose failures verify() trusts
  ShopOf, Price,
  Cut, Surcharge    \* the merchant's fee; the customer's, of a purchase

ASSUME QrSalesAssumption ==
  /\ {Owner, Customer} \subseteq Users
  /\ IsFiniteSet(Sales \cup Purchases) /\ Sales \cap Purchases = {} /\ Paystack \subseteq Sales
  /\ ShopOf \in [Sales \cup Purchases -> Shops]
  /\ Price \in [Sales \cup Purchases -> Nat \ {0}]
  /\ Cut \in [Sales \cup Purchases -> Nat]
  /\ \A s \in Sales \cup Purchases : Cut[s] <= Price[s]
  /\ Surcharge \in [Purchases -> Nat]

VARIABLES
  shop,      \* status of each merchants row
  sold,      \* its total_sales
  sale,      \* status of the two rows of each sale
  checkout,  \* the sale as its provider knows it
  bought,    \* purchases made
  qrCall     \* the handler in each slot

qrVars == <<shop, sold, sale, checkout, bought, qrCall>>

RowStatuses == {"none", "pending", "completed", "failed"}

QrSalesTypeOK ==
  /\ wallet \in [Users -> Row]
  /\ shop \in [Shops -> {"none", "pending", "approved", "rejected"}]
  /\ sold \in [Shops -> Nat]
  /\ sale \in [Sales -> [txn : RowStatuses, row : RowStatuses]]
  /\ checkout \in [Sales -> {"none", "open", "mispaid", "paid"}]
  /\ bought \subseteq Purchases
  /\ qrCall \in [Calls -> {Idle, [op |-> "apply"]}
                   \cup [op : {"resubmit"}, id : Shops]
                   \cup [op : {"initialize", "complete", "fail"}, id : Sales]
                   \cup [op : {"purchase"}, id : Purchases]]

InitQrSales ==
  /\ shop = [m \in Shops |-> "none"]
  /\ sold = [m \in Shops |-> 0]
  /\ sale = [s \in Sales |-> [txn |-> "none", row |-> "none"]]
  /\ checkout = [s \in Sales |-> "none"]
  /\ bought = {}
  /\ qrCall = Idles

QrStart(c, handler) == qrCall[c] = Idle /\ qrCall' = [qrCall EXCEPT ![c] = handler]
QrEnd(c, op) == qrCall[c].op = op /\ qrCall' = [qrCall EXCEPT ![c] = Idle]

Approved(s) == shop[ShopOf[s]] = "approved"

----------------------------------------------------------------------------
(* Merchants.                                                              *)

\* apply: "You already have a merchant application", unless it was rejected.
BeginApply(c) ==
  /\ \/ /\ \A m \in Shops : shop[m] = "none"
        /\ QrStart(c, [op |-> "apply"])
     \/ \E m \in Shops : /\ shop[m] = "rejected"
                         /\ QrStart(c, [op |-> "resubmit", id |-> m])
  /\ UNCHANGED <<wallet, shop, sold, sale, checkout, bought>>

CommitApply(c) ==
  /\ QrEnd(c, "apply")
  /\ \E m \in Shops : /\ shop[m] = "none"
                      /\ shop' = [shop EXCEPT ![m] = "pending"]
  /\ UNCHANGED <<wallet, sold, sale, checkout, bought>>

CommitResubmit(c) ==
  /\ QrEnd(c, "resubmit")
  /\ shop' = [shop EXCEPT ![qrCall[c].id] = "pending"]
  /\ UNCHANGED <<wallet, sold, sale, checkout, bought>>

\* approveMerchant: an update by id, whatever the status is.
Review(m, status) ==
  /\ shop[m] # "none"
  /\ shop' = [shop EXCEPT ![m] = status]
  /\ UNCHANGED <<wallet, sold, sale, checkout, bought, qrCall>>

----------------------------------------------------------------------------
(* Public sales.                                                           *)

\* Both rows are created in one transaction.
Initialize(c, s) ==
  /\ Approved(s) /\ sale[s].txn = "none"
  /\ QrStart(c, [op |-> "initialize", id |-> s])
  /\ sale' = [sale EXCEPT ![s] = [txn |-> "pending", row |-> "pending"]]
  /\ UNCHANGED <<wallet, shop, sold, checkout, bought>>

\* The provider opened a checkout, whose address the customer is given.
OpenCheckout(c) ==
  /\ QrEnd(c, "initialize")
  /\ checkout' = [checkout EXCEPT ![qrCall[c].id] = "open"]
  /\ UNCHANGED <<wallet, shop, sold, sale, bought>>

\* Faulty: the rows are closed whatever became of them.
MarkFailedAlways(s) == sale' = [sale EXCEPT ![s] = [txn |-> "failed", row |-> "failed"]]

\* markFailed: one transaction, from pending only.
MarkFailed(s) ==
  sale' = IF sale[s].txn # "pending" THEN sale
          ELSE [sale EXCEPT ![s].txn = "failed",
                            ![s].row = IF @ = "pending" THEN "failed" ELSE @]

\* The provider answered with an error, or without an address.
InitializeFails(c) ==
  /\ QrEnd(c, "initialize")
  /\ MarkFailed(qrCall[c].id)
  /\ UNCHANGED <<wallet, shop, sold, checkout, bought>>

\* The customer pays the price, or something else.
Pay(s, outcome) ==
  /\ checkout[s] = "open"
  /\ checkout' = [checkout EXCEPT ![s] = outcome]
  /\ UNCHANGED <<wallet, shop, sold, sale, bought, qrCall>>

\* A webhook or verify() saw the payment; provider, reference, currency and
\* amount match the sale.
BeginComplete(c, s) ==
  /\ checkout[s] = "paid"
  /\ QrStart(c, [op |-> "complete", id |-> s])
  /\ UNCHANGED <<wallet, shop, sold, sale, checkout, bought>>

\* Providers report a checkout as abandoned or expired that can still be paid.
BeginFail(c, s) ==
  /\ checkout[s] \in {"open", "mispaid"}
  /\ sale[s].txn = "pending" \/ (s \notin Paystack /\ sale[s].txn = "failed")
  /\ QrStart(c, [op |-> "fail", id |-> s])
  /\ UNCHANGED <<wallet, shop, sold, sale, checkout, bought>>

\* updateMany finds no row to claim: a sale that failed can still be claimed.
Settled(s) == sale[s].txn \notin {"pending", "failed"}

BothCompleted == [txn |-> "completed", row |-> "completed"]

\* Faulty: a report is credited without asking whether the claim found a row.
CompleteAgain(c) ==
  LET s == qrCall[c].id
  IN  /\ QrEnd(c, "complete")
      /\ sale' = [sale EXCEPT ![s] = BothCompleted]
      /\ wallet' = Collect(Owner, Price[s], Cut[s])
      /\ sold' = [sold EXCEPT ![ShopOf[s]] = @ + Price[s]]
      /\ UNCHANGED <<shop, checkout, bought>>

\* complete: one transaction claims both rows and pays merchant and platform.
Complete(c) ==
  LET s == qrCall[c].id
  IN  /\ QrEnd(c, "complete")
      /\ \/ /\ Settled(s)
            /\ UNCHANGED <<wallet, sold, sale>>
         \/ /\ ~Settled(s) /\ sale[s].row \in {"pending", "failed"}
            /\ sale' = [sale EXCEPT ![s] = BothCompleted]
            /\ wallet' = Collect(Owner, Price[s], Cut[s])
            /\ sold' = [sold EXCEPT ![ShopOf[s]] = @ + Price[s]]
      /\ UNCHANGED <<shop, checkout, bought>>

CommitFail(c) ==
  /\ QrEnd(c, "fail")
  /\ MarkFailed(qrCall[c].id)
  /\ UNCHANGED <<wallet, shop, sold, checkout, bought>>

----------------------------------------------------------------------------
(* Purchases from a wallet.                                                *)

\* merchantPay reads the merchant and both wallets.
BeginPurchase(c, p) ==
  /\ p \notin bought /\ Approved(p)
  /\ CanSpend(Customer, Price[p] + Surcharge[p])
  /\ QrStart(c, [op |-> "purchase", id |-> p])
  /\ UNCHANGED <<wallet, shop, sold, sale, checkout, bought>>

\* The purchases of the model are made once: a repeated call is another one.
CommitPurchase(c) ==
  LET p == qrCall[c].id
  IN  /\ QrEnd(c, "purchase")
      /\ p \notin bought
      /\ wallet' = Sell(Customer, Owner, Price[p], Cut[p], Surcharge[p])
      /\ sold' = [sold EXCEPT ![ShopOf[p]] = @ + Price[p]]
      /\ bought' = bought \cup {p}
      /\ UNCHANGED <<shop, sale, checkout>>

\* A handler ends with an error, or with the process.
QrAbort(c) ==
  /\ qrCall[c] # Idle
  /\ qrCall' = [qrCall EXCEPT ![c] = Idle]
  /\ UNCHANGED <<wallet, shop, sold, sale, checkout, bought>>

----------------------------------------------------------------------------

NextQrSales ==
  \/ \E c \in Calls :
       \/ BeginApply(c) \/ CommitApply(c) \/ CommitResubmit(c)
       \/ \E s \in Sales : Initialize(c, s) \/ BeginComplete(c, s) \/ BeginFail(c, s)
       \/ OpenCheckout(c) \/ InitializeFails(c) \/ Complete(c) \/ CommitFail(c)
       \/ \E p \in Purchases : BeginPurchase(c, p)
       \/ CommitPurchase(c) \/ QrAbort(c)
  \/ \E m \in Shops, status \in {"approved", "rejected"} : Review(m, status)
  \/ \E s \in Sales, outcome \in {"paid", "mispaid"} : Pay(s, outcome)

----------------------------------------------------------------------------
(* Properties.                                                             *)

QrCompleted == {s \in Sales : sale[s].txn = "completed"}

\* However many handlers settle one sale, its price is credited once, in shares
\* for merchant and platform, and counted once in the merchant's total.
SaleCreditedOnce ==
  /\ Holds(SumOver(Price, QrCompleted))
  /\ \A m \in Shops :
       sold[m] = SumOver(Price, {s \in QrCompleted \cup bought : ShopOf[s] = m})

\* Only money that was collected, to the amount of the sale, settles it.
SettledIsCollected == \A s \in QrCompleted : checkout[s] = "paid"

\* The payment list of the merchant shows what became of the transaction.
RowsAgree == \A s \in Sales : sale[s].txn = sale[s].row

\* No late report of a failure takes a settled sale back.
SettledStays == [][\A s \in QrCompleted : sale'[s].txn = "completed"]_<<wallet, qrVars>>

\* One sale settled by a webhook, a poll and the wallet at the same time: it is credited
\* once, only for what was collected, and the merchant's list agrees.
QrSalesInv == QrSalesTypeOK /\ SaleCreditedOnce /\ SettledIsCollected /\ RowsAgree

=============================================================================
