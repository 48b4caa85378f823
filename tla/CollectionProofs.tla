-------------------------- MODULE CollectionProofs --------------------------
(***************************************************************************)
(* Sales and purchases by QR code, payments by card tap, the queue in      *)
(* front of the payment webhooks, invoices and payment links, payouts by   *)
(* API key, webhooks to businesses, tokens, and the funding rounds of      *)
(* projects, for every set of rows and handlers.                           *)
(*                                                                         *)
(* Most of the invariants say who holds what: the handler that has claimed *)
(* a row, the checkouts and handlers that keep a use of a link, the        *)
(* attempts an event still has. A project's also says what is in           *)
(* proportion to what was invested, and that what it holds covers the      *)
(* shares that a refund has still to give back.                            *)
(***************************************************************************)
EXTENDS QrSales, NfcTaps, WebhookIntake, Commerce, ApiPayouts, HookDeliveries, Tokens,
        Projects, WalletSums, SequenceTheorems

----------------------------------------------------------------------------
(* Sales and purchases by QR code.                                         *)

\* A sale moves money between three rows and neither makes nor loses any.
LEMMA SaleRows ==
  ASSUME wallet \in [Users -> Row], NEW a \in Users, NEW b \in Users,
         NEW price \in Int, NEW taken \in Int, NEW surcharge \in Int
  PROVE  /\ Sell(a, b, price, taken, surcharge) \in [Users -> Row]
         /\ Total(Sell(a, b, price, taken, surcharge)) = Total(wallet)
<1>1. /\ Platform \in Users /\ IsFiniteSet(Users) /\ Total(wallet) \in Int
      /\ price + surcharge \in Int /\ price - taken \in Int /\ taken + surcharge \in Int
  BY SharedAssumption, IncrementTotals
<1>2. /\ Sell(a, b, price, taken, surcharge) \in [Users -> Row]
      /\ Total(Sell(a, b, price, taken, surcharge))
           = Total(wallet) - (price + surcharge) + (price - taken) + (taken + surcharge)
  BY <1>1, PaymentTotals DEF Sell
<1> QED BY <1>1, <1>2

QrSalesSpec == InitWallets /\ InitQrSales /\ [][NextQrSales]_<<wallet, qrVars>>

\* A call that is opening a checkout for a sale.
Opening(c, s) == qrCall[c].op = "initialize" /\ qrCall[c].id = s

\* One call at most opens the checkout of a sale, before it can be paid, and a
\* call that completes one saw it paid.
CheckoutsFit ==
  /\ \A c, d \in Calls, s \in Sales : Opening(c, s) /\ Opening(d, s) => c = d
  /\ \A c \in Calls, s \in Sales : Opening(c, s) => checkout[s] = "none" /\ sale[s].txn # "none"
  /\ \A c \in Calls : qrCall[c].op = "complete" => checkout[qrCall[c].id] = "paid"
  /\ \A s \in Sales : sale[s].txn = "none" => checkout[s] = "none"

QrSalesIInv == QrSalesInv /\ CheckoutsFit

\* What a shop has sold grows by one sale.
LEMMA CountedOnce ==
  ASSUME NEW done \in SUBSET (Sales \cup Purchases), NEW e \in (Sales \cup Purchases) \ done,
         NEW counts \in [Shops -> Nat],
         \A m \in Shops : counts[m] = SumOver(Price, {x \in done : ShopOf[x] = m}),
         NEW m \in Shops
  PROVE  [counts EXCEPT ![ShopOf[e]] = @ + Price[e]][m]
           = SumOver(Price, {x \in done \cup {e} : ShopOf[x] = m})
<1> DEFINE S == Sales \cup Purchases
           part == {x \in done : ShopOf[x] = m}
<1>1. IsFiniteSet(S) /\ Price \in [S -> Int] /\ ShopOf[e] \in Shops
  BY QrSalesAssumption
<1>2. part \in SUBSET S /\ e \in S \ part
  OBVIOUS
<1>3. SumOver(Price, part \cup {e}) = SumOver(Price, part) + Price[e]
  <2> HIDE DEF S, part
  <2> QED BY ONLY <1>1, <1>2, SumOverPart
<1>4. CASE ShopOf[e] = m
  <2>1. {x \in done \cup {e} : ShopOf[x] = m} = part \cup {e}
    BY <1>4
  <2> QED BY <1>1, <1>3, <1>4, <2>1
<1>5. CASE ShopOf[e] # m
  <2>1. {x \in done \cup {e} : ShopOf[x] = m} = part
    BY <1>5
  <2> QED BY <1>1, <1>5, <2>1
<1> QED BY <1>4, <1>5

\* One more sale is completed: its price comes in.
LEMMA SaleMoney ==
  ASSUME QrSalesTypeOK, SaleCreditedOnce, NEW s \in Sales, s \notin QrCompleted,
         QrCompleted' = QrCompleted \cup {s}, bought' = bought,
         wallet' = Collect(Owner, Price[s], Cut[s]),
         sold' = [sold EXCEPT ![ShopOf[s]] = @ + Price[s]]
  PROVE  /\ SaleCreditedOnce' /\ wallet' \in [Users -> Row] /\ sold' \in [Shops -> Nat]
<1>1. /\ Owner \in Users /\ Platform \in Users /\ IsFiniteSet(Users) /\ wallet \in [Users -> Row]
      /\ Price[s] - Cut[s] \in Int /\ Cut[s] \in Int /\ Price[s] \in Nat /\ ShopOf[s] \in Shops
  BY QrSalesAssumption, SharedAssumption DEF QrSalesTypeOK
<1>2. /\ wallet' \in [Users -> Row]
      /\ Total(wallet') = Total(wallet) + (Price[s] - Cut[s]) + Cut[s]
  <2>1. PICK y \in Int : y = Price[s] - Cut[s]
    BY <1>1
  <2>2. PICK z \in Int : z = Cut[s]
    BY <1>1
  <2>3. wallet' = Credit(Credit(wallet, Owner, y), Platform, z)
    BY <2>1, <2>2 DEF Collect
  <2>4. /\ Credit(Credit(wallet, Owner, y), Platform, z) \in [Users -> Row]
        /\ Total(Credit(Credit(wallet, Owner, y), Platform, z)) = Total(wallet) + y + z
    BY <1>1, CollectTotals
  <2> QED BY <2>1, <2>2, <2>3, <2>4
<1>3. Total(wallet) \in Int /\ SumOver(InitialBalance, Users) \in Int
  <2>1. InitialBalance \in [Users -> Int]
    BY SharedAssumption
  <2> QED BY <1>1, <2>1, IncrementTotals, SumOverBound
<1>4. /\ SumOver(Price, QrCompleted \cup {s}) = SumOver(Price, QrCompleted) + Price[s]
      /\ SumOver(Price, QrCompleted) \in Int
  <2>1. PICK S : S = Sales \cup Purchases
    OBVIOUS
  <2>2. IsFiniteSet(S) /\ Price \in [S -> Int] /\ QrCompleted \in SUBSET S
        /\ s \in S \ QrCompleted
    BY <2>1, QrSalesAssumption DEF QrCompleted
  <2> QED BY ONLY <2>2, SumOverPart
<1>5. Holds(SumOver(Price, QrCompleted))'
  BY <1>1, <1>2, <1>3, <1>4 DEF Holds, SaleCreditedOnce
<1>6. \A m \in Shops : sold'[m] = SumOver(Price, {x \in QrCompleted' \cup bought' : ShopOf[x] = m})
  <2>1. PICK done : done = QrCompleted \cup bought
    OBVIOUS
  <2>2. done \in SUBSET (Sales \cup Purchases) /\ s \in (Sales \cup Purchases) \ done
        /\ QrCompleted' \cup bought' = done \cup {s}
    BY <2>1, QrSalesAssumption DEF QrCompleted, QrSalesTypeOK
  <2>3. sold \in [Shops -> Nat]
        /\ \A m \in Shops : sold[m] = SumOver(Price, {x \in done : ShopOf[x] = m})
    BY <2>1 DEF QrSalesTypeOK, SaleCreditedOnce
  <2>4. \A m \in Shops : [sold EXCEPT ![ShopOf[s]] = @ + Price[s]][m]
                           = SumOver(Price, {x \in done \cup {s} : ShopOf[x] = m})
    BY <2>2, <2>3, CountedOnce
  <2> QED BY <2>2, <2>4
<1>7. sold' \in [Shops -> Nat]
  BY <1>1 DEF QrSalesTypeOK
<1> QED BY <1>2, <1>5, <1>6, <1>7 DEF SaleCreditedOnce

\* A purchase moves money and is counted.
LEMMA PurchaseMoney ==
  ASSUME QrSalesTypeOK, SaleCreditedOnce, NEW p \in Purchases, p \notin bought,
         QrCompleted' = QrCompleted, bought' = bought \cup {p},
         wallet' = Sell(Customer, Owner, Price[p], Cut[p], Surcharge[p]),
         sold' = [sold EXCEPT ![ShopOf[p]] = @ + Price[p]]
  PROVE  /\ SaleCreditedOnce' /\ wallet' \in [Users -> Row] /\ sold' \in [Shops -> Nat]
<1>1. /\ Owner \in Users /\ Customer \in Users /\ ShopOf[p] \in Shops
      /\ Cut[p] \in Int /\ Price[p] \in Nat /\ Surcharge[p] \in Int
  BY QrSalesAssumption
<1>2. wallet' \in [Users -> Row] /\ Total(wallet') = Total(wallet)
  BY <1>1, SaleRows DEF QrSalesTypeOK
<1>5. Holds(SumOver(Price, QrCompleted))'
  BY <1>2 DEF Holds, SaleCreditedOnce
<1>6. \A m \in Shops : sold'[m] = SumOver(Price, {x \in QrCompleted' \cup bought' : ShopOf[x] = m})
  <2>1. PICK done : done = QrCompleted \cup bought
    OBVIOUS
  <2>2. done \in SUBSET (Sales \cup Purchases) /\ p \in (Sales \cup Purchases) \ done
        /\ QrCompleted' \cup bought' = done \cup {p}
    BY <2>1, QrSalesAssumption DEF QrCompleted, QrSalesTypeOK
  <2>3. sold \in [Shops -> Nat]
        /\ \A m \in Shops : sold[m] = SumOver(Price, {x \in done : ShopOf[x] = m})
    BY <2>1 DEF QrSalesTypeOK, SaleCreditedOnce
  <2>4. \A m \in Shops : [sold EXCEPT ![ShopOf[p]] = @ + Price[p]][m]
                           = SumOver(Price, {x \in done \cup {p} : ShopOf[x] = m})
    BY <2>2, <2>3, CountedOnce
  <2> QED BY <2>2, <2>4
<1>7. sold' \in [Shops -> Nat]
  BY <1>1 DEF QrSalesTypeOK
<1> QED BY <1>2, <1>5, <1>6, <1>7 DEF SaleCreditedOnce

\* Whoever settles, fails, opens or pays, the rows of a sale stay together and
\* its money is counted once.
LEMMA QrSalesInductive == QrSalesIInv /\ [NextQrSales]_<<wallet, qrVars>> => QrSalesIInv'
<1> SUFFICES ASSUME QrSalesIInv, [NextQrSales]_<<wallet, qrVars>> PROVE QrSalesIInv'
  OBVIOUS
<1>t. QrSalesTypeOK /\ SaleCreditedOnce
  BY DEF QrSalesIInv, QrSalesInv
<1>m. ASSUME UNCHANGED <<wallet, sold, bought>>, QrCompleted' = QrCompleted
      PROVE SaleCreditedOnce'
  BY <1>t, <1>m DEF SaleCreditedOnce, Holds
<1> DEFINE Rest == QrSalesTypeOK /\ SettledIsCollected /\ RowsAgree /\ CheckoutsFit
<1>r. Rest' /\ SaleCreditedOnce' => QrSalesIInv'
  BY DEF QrSalesIInv, QrSalesInv
<1>i. Rest
  BY DEF QrSalesIInv, QrSalesInv
<1>1. ASSUME NEW c \in Calls, BeginApply(c) \/ CommitApply(c) \/ CommitResubmit(c)
      PROVE QrSalesIInv'
  <2>1. Rest' /\ QrCompleted' = QrCompleted
    BY SMTT(30), <1>1, <1>i DEF BeginApply, CommitApply, CommitResubmit, QrStart, QrEnd, Idle, Opening,
       QrSalesTypeOK, SettledIsCollected, RowsAgree, CheckoutsFit, QrCompleted
  <2> QED BY <1>1, <1>m, <1>r, <2>1 DEF BeginApply, CommitApply, CommitResubmit
<1>2. ASSUME NEW c \in Calls, NEW s \in Sales, Initialize(c, s) PROVE QrSalesIInv'
  <2>a. PICK h : h = [op |-> "initialize", id |-> s]
    OBVIOUS
  <2>b. /\ h \in [op : {"initialize", "complete", "fail"}, id : Sales] /\ h.op = "initialize"
           /\ h.id = s
        /\ qrCall' = [qrCall EXCEPT ![c] = h] /\ sale[s].txn = "none"
        /\ sale' = [sale EXCEPT ![s] = [txn |-> "pending", row |-> "pending"]]
        /\ UNCHANGED <<wallet, shop, sold, checkout, bought>>
    BY <1>2, <2>a DEF Initialize, QrStart
  <2>c. checkout[s] = "none" /\ \A d \in Calls : ~Opening(d, s)
    BY <1>i, <2>b DEF CheckoutsFit
  <2>d. QrSalesTypeOK'
    BY <1>i, <2>b DEF QrSalesTypeOK, RowStatuses
  <2>e. /\ \A x \in Sales : sale'[x] = IF x = s THEN [txn |-> "pending", row |-> "pending"] ELSE sale[x]
        /\ \A d \in Calls : qrCall'[d] = IF d = c THEN h ELSE qrCall[d]
    BY <1>i, <2>b DEF QrSalesTypeOK
  <2>f. QrCompleted' = QrCompleted
    BY <2>b, <2>e DEF QrCompleted
  <2>g. SettledIsCollected' /\ RowsAgree'
    BY <1>i, <2>b, <2>e, <2>f DEF SettledIsCollected, RowsAgree
  <2>h. CheckoutsFit'
    BY <1>i, <2>b, <2>c, <2>e DEF CheckoutsFit, Opening
  <2>1. Rest' /\ QrCompleted' = QrCompleted
    BY <2>d, <2>f, <2>g, <2>h
  <2> QED BY <1>2, <1>m, <1>r, <2>1 DEF Initialize
<1>3. ASSUME NEW c \in Calls, NEW s \in Sales, BeginComplete(c, s) \/ BeginFail(c, s)
      PROVE QrSalesIInv'
  <2>a. PICK h \in [op : {"complete", "fail"}, id : Sales] :
               qrCall' = [qrCall EXCEPT ![c] = h]
               /\ (h.op = "complete" => checkout[h.id] = "paid")
    <3>1. CASE BeginComplete(c, s)
      <4>1. PICK h : h = [op |-> "complete", id |-> s]
        OBVIOUS
      <4>2. h \in [op : {"complete", "fail"}, id : Sales] /\ h.id = s
            /\ qrCall' = [qrCall EXCEPT ![c] = h] /\ checkout[s] = "paid"
        BY <3>1, <4>1 DEF BeginComplete, QrStart
      <4> QED BY <4>2
    <3>2. CASE BeginFail(c, s)
      <4>1. PICK h : h = [op |-> "fail", id |-> s]
        OBVIOUS
      <4>2. h \in [op : {"complete", "fail"}, id : Sales] /\ h.op = "fail"
            /\ qrCall' = [qrCall EXCEPT ![c] = h]
        BY <3>2, <4>1 DEF BeginFail, QrStart
      <4> QED BY <4>2
    <3> QED BY <1>3, <3>1, <3>2
  <2>b. UNCHANGED <<wallet, shop, sold, sale, checkout, bought>>
    BY <1>3 DEF BeginComplete, BeginFail
  <2>c. \A d \in Calls : qrCall'[d] = IF d = c THEN h ELSE qrCall[d]
    BY <1>i, <2>a DEF QrSalesTypeOK
  <2>d. QrSalesTypeOK' /\ QrCompleted' = QrCompleted
    BY <1>i, <2>a, <2>b DEF QrSalesTypeOK, QrCompleted
  <2>e. SettledIsCollected' /\ RowsAgree'
    BY <1>i, <2>b, <2>d DEF SettledIsCollected, RowsAgree
  <2>f. CheckoutsFit'
    BY <1>i, <2>a, <2>b, <2>c DEF CheckoutsFit, Opening
  <2>1. Rest' /\ QrCompleted' = QrCompleted
    BY <2>d, <2>e, <2>f
  <2> QED BY <1>3, <1>m, <1>r, <2>1 DEF BeginComplete, BeginFail
<1>4. ASSUME NEW c \in Calls, OpenCheckout(c) PROVE QrSalesIInv'
  <2>1. Rest' /\ QrCompleted' = QrCompleted
    BY <1>4, <1>i DEF OpenCheckout, QrEnd, Idle, Opening,
       QrSalesTypeOK, SettledIsCollected, RowsAgree, CheckoutsFit, QrCompleted
  <2> QED BY <1>4, <1>m, <1>r, <2>1 DEF OpenCheckout
<1>5. ASSUME NEW c \in Calls, InitializeFails(c) \/ CommitFail(c) PROVE QrSalesIInv'
  <2>a. PICK s : s = qrCall[c].id
    OBVIOUS
  <2>b. /\ s \in Sales /\ MarkFailed(s) /\ qrCall' = [qrCall EXCEPT ![c] = Idle]
        /\ UNCHANGED <<wallet, shop, sold, checkout, bought>>
    BY <1>5, <1>i, <2>a DEF InitializeFails, CommitFail, QrEnd, QrSalesTypeOK, Idle
  <2>c. /\ sale' \in [Sales -> [txn : RowStatuses, row : RowStatuses]]
        /\ \A x \in Sales : /\ sale'[x].txn # sale[x].txn => sale[x].txn = "pending" /\ sale'[x].txn = "failed"
                            /\ sale'[x].txn = sale'[x].row
    BY <1>i, <2>b DEF MarkFailed, QrSalesTypeOK, RowStatuses, RowsAgree
  <2>d. /\ qrCall'[c] = Idle /\ \A d \in Calls \ {c} : qrCall'[d] = qrCall[d]
    BY <1>i, <2>b DEF QrSalesTypeOK
  <2>e. QrSalesTypeOK'
    BY <1>i, <2>b, <2>c DEF QrSalesTypeOK
  <2>f. QrCompleted' = QrCompleted
    BY <2>c DEF QrCompleted
  <2>g. SettledIsCollected' /\ RowsAgree'
    BY <1>i, <2>b, <2>c, <2>f DEF SettledIsCollected, RowsAgree
  <2>h. CheckoutsFit'
    BY <1>i, <2>b, <2>c, <2>d DEF CheckoutsFit, Opening, Idle
  <2>1. Rest' /\ QrCompleted' = QrCompleted
    BY <2>e, <2>f, <2>g, <2>h
  <2> QED BY <1>5, <1>m, <1>r, <2>1 DEF InitializeFails, CommitFail
<1>6. ASSUME NEW c \in Calls, Complete(c) PROVE QrSalesIInv'
  <2>1. PICK s : s = qrCall[c].id
    OBVIOUS
  <2>2. s \in Sales /\ checkout[s] = "paid"
    BY <1>6, <1>i, <2>1 DEF Complete, QrEnd, QrSalesTypeOK, CheckoutsFit, Idle
  <2>3. CASE Settled(s)
    <3>1. UNCHANGED <<wallet, shop, sold, sale, checkout, bought>> /\ QrEnd(c, "complete")
      BY <1>6, <2>1, <2>3 DEF Complete
    <3>2. Rest' /\ QrCompleted' = QrCompleted
      BY <3>1, <1>i DEF QrEnd, Idle, Opening,
         QrSalesTypeOK, SettledIsCollected, RowsAgree, CheckoutsFit, QrCompleted
    <3> QED BY <1>m, <1>r, <3>1, <3>2
  <2>4. CASE ~Settled(s)
    <3>1. /\ sale' = [sale EXCEPT ![s] = BothCompleted]
          /\ wallet' = Collect(Owner, Price[s], Cut[s])
          /\ sold' = [sold EXCEPT ![ShopOf[s]] = @ + Price[s]]
          /\ UNCHANGED <<shop, checkout, bought>> /\ QrEnd(c, "complete")
      BY <1>6, <2>1, <2>4 DEF Complete
    <3>2. s \notin QrCompleted /\ QrCompleted' = QrCompleted \cup {s}
      BY <1>t, <2>2, <2>4, <3>1 DEF Settled, QrCompleted, BothCompleted, QrSalesTypeOK
    <3>3. SaleCreditedOnce' /\ wallet' \in [Users -> Row] /\ sold' \in [Shops -> Nat]
      BY <1>t, <2>2, <3>1, <3>2, SaleMoney
    <3>4. Rest'
      BY <1>i, <2>2, <3>1, <3>3 DEF QrEnd, Idle, Opening, BothCompleted, RowStatuses,
         QrSalesTypeOK, SettledIsCollected, RowsAgree, CheckoutsFit, QrCompleted
    <3> QED BY <1>r, <3>3, <3>4
  <2> QED BY <2>3, <2>4
<1>7. ASSUME NEW c \in Calls, NEW p \in Purchases, BeginPurchase(c, p) PROVE QrSalesIInv'
  <2>1. Rest' /\ QrCompleted' = QrCompleted
    BY <1>7, <1>i DEF BeginPurchase, QrStart, Idle, Opening,
       QrSalesTypeOK, SettledIsCollected, RowsAgree, CheckoutsFit, QrCompleted
  <2> QED BY <1>7, <1>m, <1>r, <2>1 DEF BeginPurchase
<1>8. ASSUME NEW c \in Calls, CommitPurchase(c) PROVE QrSalesIInv'
  <2>1. PICK p : p = qrCall[c].id
    OBVIOUS
  <2>2. p \in Purchases
    BY <1>8, <1>i, <2>1 DEF CommitPurchase, QrEnd, QrSalesTypeOK, Idle
  <2>3. /\ p \notin bought /\ bought' = bought \cup {p}
        /\ wallet' = Sell(Customer, Owner, Price[p], Cut[p], Surcharge[p])
        /\ sold' = [sold EXCEPT ![ShopOf[p]] = @ + Price[p]]
        /\ UNCHANGED <<shop, sale, checkout>> /\ QrEnd(c, "purchase")
    BY <1>8, <2>1 DEF CommitPurchase
  <2>4. QrCompleted' = QrCompleted
    BY <2>3 DEF QrCompleted
  <2>5. SaleCreditedOnce' /\ wallet' \in [Users -> Row] /\ sold' \in [Shops -> Nat]
    BY <1>t, <2>2, <2>3, <2>4, PurchaseMoney
  <2>6. Rest'
    BY <1>i, <2>2, <2>3, <2>5 DEF QrEnd, Idle, Opening,
       QrSalesTypeOK, SettledIsCollected, RowsAgree, CheckoutsFit, QrCompleted
  <2> QED BY <1>r, <2>5, <2>6
<1>9. ASSUME NEW c \in Calls, QrAbort(c) PROVE QrSalesIInv'
  <2>1. Rest' /\ QrCompleted' = QrCompleted
    BY <1>9, <1>i DEF QrAbort, Idle, Opening,
       QrSalesTypeOK, SettledIsCollected, RowsAgree, CheckoutsFit, QrCompleted
  <2> QED BY <1>9, <1>m, <1>r, <2>1 DEF QrAbort
<1>10. ASSUME NEW m \in Shops, NEW verdict \in {"approved", "rejected"}, Review(m, verdict)
       PROVE QrSalesIInv'
  <2>1. Rest' /\ QrCompleted' = QrCompleted
    BY <1>10, <1>i DEF Review, Idle, Opening,
       QrSalesTypeOK, SettledIsCollected, RowsAgree, CheckoutsFit, QrCompleted
  <2> QED BY <1>10, <1>m, <1>r, <2>1 DEF Review
<1>11. ASSUME NEW s \in Sales, NEW outcome \in {"paid", "mispaid"}, Pay(s, outcome)
       PROVE QrSalesIInv'
  <2>1. Rest' /\ QrCompleted' = QrCompleted
    BY <1>11, <1>i DEF Pay, Idle, Opening,
       QrSalesTypeOK, SettledIsCollected, RowsAgree, CheckoutsFit, QrCompleted
  <2> QED BY <1>11, <1>m, <1>r, <2>1 DEF Pay
<1>12. CASE UNCHANGED <<wallet, qrVars>>
  <2>1. Rest' /\ QrCompleted' = QrCompleted
    BY <1>12, <1>i DEF qrVars, Opening,
       QrSalesTypeOK, SettledIsCollected, RowsAgree, CheckoutsFit, QrCompleted
  <2> QED BY <1>12, <1>m, <1>r, <2>1 DEF qrVars
<1> QED BY <1>1, <1>2, <1>3, <1>4, <1>5, <1>6, <1>7, <1>8, <1>9, <1>10, <1>11,
    <1>12 DEF NextQrSales

\* The invariant holds of every reachable state.
LEMMA QrSalesInvariance == QrSalesSpec => []QrSalesIInv
<1>1. InitWallets /\ InitQrSales => QrSalesIInv
  <2> SUFFICES ASSUME InitWallets, InitQrSales PROVE QrSalesIInv
    OBVIOUS
  <2>1. QrSalesTypeOK /\ SettledIsCollected /\ RowsAgree /\ CheckoutsFit
    BY SharedAssumption DEF InitWallets, InitQrSales, Idles, Idle, Row, RowStatuses, Opening,
       QrSalesTypeOK, SettledIsCollected, RowsAgree, CheckoutsFit, QrCompleted
  <2>2. QrCompleted = {} /\ bought = {}
    BY DEF InitQrSales, QrCompleted
  <2>3. SumOver(Price, {}) = 0
    <3>1. PICK S : S = Sales \cup Purchases
      OBVIOUS
    <3>2. IsFiniteSet(S) /\ Price \in [S -> Int]
      BY <3>1, QrSalesAssumption
    <3> QED BY ONLY <3>2, SumOverPart
  <2>4. Total(wallet) = SumOver(InitialBalance, Users) /\ SumOver(InitialBalance, Users) \in Int
    <3>1. DOMAIN wallet = Users /\ \A u \in Users : wallet[u].balance = InitialBalance[u]
      BY DEF InitWallets
    <3>2. PICK f : f = [u \in Users |-> wallet[u].balance]
      OBVIOUS
    <3>3. IsFiniteSet(Users) /\ InitialBalance \in [Users -> Int] /\ f \in [Users -> Int]
          /\ \A u \in Users : f[u] = InitialBalance[u]
      BY <3>1, <3>2, SharedAssumption
    <3>4. SumOver(f, Users) = SumOver(InitialBalance, Users)
          /\ SumOver(InitialBalance, Users) \in Int
      BY ONLY <3>3, SumOverSame, SumOverBound
    <3> QED BY <3>1, <3>2, <3>4 DEF Total
  <2>5. \A m \in Shops : {x \in {} : ShopOf[x] = m} = {}
    OBVIOUS
  <2>6. SaleCreditedOnce
    BY <2>2, <2>3, <2>4, <2>5 DEF SaleCreditedOnce, Holds, InitQrSales
  <2> QED BY <2>1, <2>6 DEF QrSalesIInv, QrSalesInv
<1> QED BY <1>1, QrSalesInductive, PTL DEF QrSalesSpec

\* complete credits a sale once, in shares for merchant and platform, and only
\* when its price was collected, however many webhooks and polls of verify()
\* report it; the two rows agree.
THEOREM SalesCreditedOnce == QrSalesSpec => []QrSalesInv
<1>1. QrSalesIInv => QrSalesInv
  BY DEF QrSalesIInv
<1> QED BY <1>1, QrSalesInvariance, PTL

\* markFailed takes no settled sale back, however late the failure is reported.
THEOREM SettledIsFinal == QrSalesSpec => SettledStays
<1>1. ASSUME QrSalesIInv, [NextQrSales]_<<wallet, qrVars>>, NEW s \in QrCompleted
      PROVE  sale'[s].txn = "completed"
  <2>1. QrSalesTypeOK /\ s \in Sales /\ sale[s].txn = "completed"
    BY <1>1 DEF QrSalesIInv, QrSalesInv, QrCompleted
  <2>2. CASE UNCHANGED sale
    BY <2>1, <2>2
  <2>3. CASE \E c \in Calls, x \in Sales : Initialize(c, x)
    BY <2>1, <2>3 DEF Initialize, QrSalesTypeOK
  <2>4. CASE \E c \in Calls : InitializeFails(c) \/ CommitFail(c)
    BY <2>1, <2>4 DEF InitializeFails, CommitFail, MarkFailed, QrSalesTypeOK
  <2>5. CASE \E c \in Calls : Complete(c)
    BY <2>1, <2>5 DEF Complete, BothCompleted, QrSalesTypeOK
  <2> QED BY <1>1, <2>2, <2>3, <2>4, <2>5 DEF NextQrSales, qrVars, BeginApply, CommitApply,
       CommitResubmit, BeginComplete, BeginFail, OpenCheckout, BeginPurchase, CommitPurchase,
       QrAbort, Review, Pay
<1>2. QrSalesIInv /\ [NextQrSales]_<<wallet, qrVars>>
        => [\A s \in QrCompleted : sale'[s].txn = "completed"]_<<wallet, qrVars>>
  BY <1>1
<1> QED BY <1>2, QrSalesInvariance, PTL DEF QrSalesSpec, SettledStays

----------------------------------------------------------------------------
(* Payments by NFC tap.                                                    *)

NfcTapsSpec == InitWallets /\ InitNfcTaps /\ [][NextNfcTaps]_<<wallet, tapVars>>

\* The handler whose claim on a tap stands.
TapHeld(c, t) == tapCall[c].op \in {"claimed", "funded", "sent"} /\ tapCall[c].id = t

NfcTapsIInv ==
  /\ NfcTapsTypeOK
  /\ \A c, d \in Calls, t \in Taps : TapHeld(c, t) /\ TapHeld(d, t) => c = d
  /\ \A c \in Calls, t \in Taps :
       TapHeld(c, t) =>
         /\ tap[t] = "used" /\ payer[t] = tapCall[c].by
         /\ tapPaid[t] = IF tapCall[c].op = "sent" THEN 1 ELSE 0
  /\ TapPaidOnce /\ TapShownIsPaid

\* Each handler of a tap keeps at most one claim on it and the money paid for it
\* in step.
LEMMA NfcTapsInductive == NfcTapsIInv /\ [NextNfcTaps]_<<wallet, tapVars>> => NfcTapsIInv'
<1> SUFFICES ASSUME NfcTapsIInv, [NextNfcTaps]_<<wallet, tapVars>> PROVE NfcTapsIInv'
  OBVIOUS
<1> USE DEF NfcTapsIInv, NfcTapsTypeOK, TapHeld, TapPaidOnce, TapShownIsPaid, TapStep,
    TapEnd, Idle
<1>1. ASSUME NEW t \in Taps, CreateTap(t) \/ TapExpires(t) PROVE NfcTapsIInv'
  BY <1>1 DEF CreateTap, TapExpires
<1>2. ASSUME NEW c \in Calls, NEW t \in Taps, NEW u \in Users, ReadTap(c, t, u) PROVE NfcTapsIInv'
  BY <1>2 DEF ReadTap
<1>3. ASSUME NEW c \in Calls, ClaimTap(c) PROVE NfcTapsIInv'
  BY <1>3 DEF ClaimTap, Claimable
<1>4. ASSUME NEW c \in Calls, ClaimTapLost(c) \/ FundTap(c) PROVE NfcTapsIInv'
  BY <1>4 DEF ClaimTapLost, FundTap
<1>5. ASSUME NEW c \in Calls, SendTap(c) PROVE NfcTapsIInv'
  <2> DEFINE t == tapCall[c].id
  <2>1. tapCall[c] \in [op : {"read", "claimed", "funded", "sent"}, id : Taps, by : Users]
    BY <1>5 DEF SendTap
  <2>2. TapPayee[t] \in Users /\ TapPrice[t] \in Int /\ TapCut[t] \in Int /\ TapFee[t] \in Int
    BY <2>1, NfcTapsAssumption
  <2>3. wallet' \in [Users -> Row]
    BY <1>5, <2>1, <2>2, SaleRows DEF SendTap
  <2> QED BY <1>5, <2>1, <2>3 DEF SendTap
<1>6. ASSUME NEW c \in Calls, ReleaseTap(c) PROVE NfcTapsIInv'
  BY <1>6, NfcTapsAssumption DEF ReleaseTap
<1>7. ASSUME NEW c \in Calls, RecordTap(c) PROVE NfcTapsIInv'
  BY <1>7 DEF RecordTap
<1>8. CASE TapRestart
  BY <1>8 DEF TapRestart, Idles
<1>9. CASE UNCHANGED <<wallet, tapVars>>
  BY <1>9 DEF tapVars
<1> QED BY <1>1, <1>2, <1>3, <1>4, <1>5, <1>6, <1>7, <1>8, <1>9 DEF NextNfcTaps

\* An NFC tap is paid at most once and shown as paid only when it was, whoever
\* retries.
THEOREM TapsPayOnce == NfcTapsSpec => []NfcTapsInv
<1>1. InitWallets /\ InitNfcTaps => NfcTapsIInv
  BY SharedAssumption, NfcTapsAssumption DEF InitWallets, InitNfcTaps, Idles, Idle, NfcTapsIInv,
     NfcTapsTypeOK, TapHeld, TapPaidOnce, TapShownIsPaid, Row
<1>2. NfcTapsIInv => NfcTapsInv
  BY DEF NfcTapsIInv, NfcTapsInv
<1> QED BY <1>1, <1>2, NfcTapsInductive, PTL DEF NfcTapsSpec

----------------------------------------------------------------------------
(* Webhook intake.                                                         *)

WebhookIntakeSpec == InitWebhookIntake /\ [][NextWebhookIntake]_hookVars

\* What a worker of the queue, a callback or a request handler is doing.
HookWork ==
  [op : {"http", "direct", "job", "callback", "ipn"}, event : Events, at : {"start", "locked", "ended"}]

\* A worker that has not had its attempt yet.
TriesAs(h, e) == h # Resting /\ h.event = e /\ h.at # "ended"

\* The workers that will still try an event.
Trying(e) == {w \in Workers : TriesAs(worker[w], e)}

\* Attempts of an event that were made and missed, are under way, or are queued.
Tries(e) == misses[e] + queue[e] + background[e] + Cardinality(Trying(e))

\* Attempts an event gets before nothing tries it again.
Enough(e) == IF e \in stranded THEN 2 ELSE 3

\* An attempt has ended: the event is reflected, or it was missed once.
TriedBy(w) == Reflected(worker[w].event) \/ misses[worker[w].event] >= 1

\* The HTTP handler answers only after its own attempt.
TriedOrReflected == \A w \in Workers : At(w, "ended") => TriedBy(w)

\* A remembered event is reflected, or its attempts, made and to come, are
\* enough.
TriedEnough == \A e \in marked : Reflected(e) \/ Tries(e) >= Enough(e)

WebhookIntakeIInv == WebhookIntakeTypeOK /\ TriedOrReflected /\ TriedEnough /\ PaymentWins

\* Work is not rest.
LEMMA HookWorkIsWork == \A h \in HookWork : h # Resting
BY DEF HookWork, Resting

\* Finitely many workers try an event.
LEMMA TryingCount ==
  ASSUME NEW e \in Events
  PROVE  IsFiniteSet(Trying(e)) /\ Cardinality(Trying(e)) \in Nat
<1>1. IsFiniteSet(Trying(e))
  BY WebhookIntakeAssumption, FS_Subset DEF Trying
<1> QED BY <1>1, FS_CardinalityType

\* When one worker changes, the number of those trying an event changes with it.
LEMMA OneWorker ==
  ASSUME WebhookIntakeTypeOK, NEW w \in Workers, NEW h \in {Resting} \cup HookWork,
         worker' = [worker EXCEPT ![w] = h], NEW e \in Events
  PROVE  Cardinality(Trying(e))' =
           (Cardinality(Trying(e)) - (IF TriesAs(worker[w], e) THEN 1 ELSE 0))
             + (IF TriesAs(h, e) THEN 1 ELSE 0)
<1>1. PICK T : T = Trying(e)
  OBVIOUS
<1>2. PICK U : U = Trying(e)'
  OBVIOUS
<1>3. IsFiniteSet(T) /\ Cardinality(T) \in Nat
  BY <1>1, TryingCount
<1>4. \A x \in Workers \ {w} : worker'[x] = worker[x]
  BY DEF WebhookIntakeTypeOK
<1>5. worker'[w] = h
  BY DEF WebhookIntakeTypeOK
<1>6. /\ w \in T <=> TriesAs(worker[w], e)
      /\ w \in U <=> TriesAs(h, e)
      /\ \A x : x # w => (x \in T <=> x \in U)
  BY <1>1, <1>2, <1>4, <1>5 DEF Trying
<1>7. PICK R : R = T \ {w}
  OBVIOUS
<1>8. IsFiniteSet(R) /\ Cardinality(R) \in Nat /\ w \notin R
      /\ Cardinality(R) = Cardinality(T) - (IF w \in T THEN 1 ELSE 0)
  <2>1. IsFiniteSet(R) /\ w \notin R
    BY <1>3, <1>7, FS_Subset
  <2>2. Cardinality(R) \in Nat
    BY <2>1, FS_CardinalityType
  <2>3. Cardinality(R) = Cardinality(T) - (IF w \in T THEN 1 ELSE 0)
    <3>1. Cardinality(T \ {w}) = IF w \in T THEN Cardinality(T) - 1 ELSE Cardinality(T)
      BY <1>3, FS_RemoveElement
    <3> QED BY <1>3, <1>7, <3>1
  <2> QED BY <2>1, <2>2, <2>3
<1>9. Cardinality(U) = Cardinality(R) + (IF w \in U THEN 1 ELSE 0)
  <2>1. CASE w \in U
    <3>1. U = R \cup {w}
      BY <1>6, <1>7, <2>1
    <3>2. Cardinality(R \cup {w}) = Cardinality(R) + 1
      BY <1>8, FS_AddElement
    <3> QED BY <2>1, <3>1, <3>2
  <2>2. CASE w \notin U
    <3>1. U = R
      BY <1>6, <1>7, <2>2
    <3> QED BY <1>8, <2>2, <3>1
  <2> QED BY <2>1, <2>2
<1> QED BY <1>1, <1>2, <1>3, <1>6, <1>8, <1>9

\* What the rows show of an event is not taken back.
LEMMA ReflectedStays ==
  ASSUME handled \in SUBSET handled', NEW e \in Events, Reflected(e),
         \A p \in Payments : /\ status[p] = "completed" => status'[p] = "completed"
                             /\ status[p] # "pending" => status'[p] # "pending"
  PROVE  Reflected(e)'
BY WebhookIntakeAssumption DEF Reflected

\* A step that loses no attempt and takes back nothing the rows show keeps the
\* invariant.
LEMMA AttemptsKept ==
  ASSUME WebhookIntakeTypeOK, WebhookIntakeTypeOK', TriedEnough, TriedOrReflected, PaymentWins,
         stranded \in SUBSET stranded',
         \A e \in marked' : e \in marked \/ Reflected(e)' \/ Tries(e)' >= Enough(e)',
         handled \in SUBSET handled', \A e \in Events : misses[e] <= misses'[e],
         \A p \in Payments : /\ status[p] = "completed" => status'[p] = "completed"
                             /\ status[p] # "pending" => status'[p] # "pending",
         \A e \in Events : e \in handled' \/ Tries(e)' >= Tries(e),
         \A w \in Workers : At(w, "ended")' =>
           \/ At(w, "ended") /\ worker'[w] = worker[w]
           \/ worker'[w].event \in handled' \/ misses'[worker'[w].event] >= 1,
         \A e \in handled' : e \in handled \/ e \in Mismatched
                               \/ (e \in Successes /\ EventOf[e] \in QrPayments => status'[EventOf[e]] = "completed")
  PROVE  WebhookIntakeIInv'
<1>1. \A e \in Events : Reflected(e) => Reflected(e)'
  BY ReflectedStays
<1>2. \A e \in Events : e \in handled' => Reflected(e)'
  BY DEF Reflected
<1>3. TriedEnough'
  <2> SUFFICES ASSUME NEW e \in marked' PROVE Reflected(e)' \/ Tries(e)' >= Enough(e)'
    BY DEF TriedEnough
  <2>0. CASE Reflected(e)' \/ Tries(e)' >= Enough(e)'
    BY <2>0
  <2> SUFFICES ASSUME e \in marked PROVE Reflected(e)' \/ Tries(e)' >= Enough(e)'
    BY <2>0
  <2>1. e \in Events /\ (Reflected(e) \/ Tries(e) >= Enough(e))
    BY DEF TriedEnough, WebhookIntakeTypeOK
  <2>2. CASE Tries(e) >= Enough(e) /\ Tries(e)' >= Tries(e)
    <3>1. Enough(e)' <= Enough(e) /\ Enough(e) \in Int /\ Enough(e)' \in Int
      BY DEF Enough
    <3>2. Tries(e) \in Int
      BY <2>1, TryingCount DEF Tries, WebhookIntakeTypeOK
    <3>3. Tries(e)' \in Int
      <4>1. (IsFiniteSet(Trying(e)) /\ Cardinality(Trying(e)) \in Nat)'
        BY <2>1, WebhookIntakeAssumption, FS_Subset, FS_CardinalityType DEF Trying
      <4> QED BY <2>1, <4>1 DEF Tries, WebhookIntakeTypeOK
    <3> QED BY <2>2, <3>1, <3>2, <3>3
  <2> QED BY <1>1, <1>2, <2>1, <2>2
<1>4. TriedOrReflected'
  <2> SUFFICES ASSUME NEW w \in Workers, At(w, "ended")' PROVE TriedBy(w)'
    BY DEF TriedOrReflected
  <2>1. PICK e \in Events : e = worker'[w].event
    BY HookWorkIsWork DEF At, WebhookIntakeTypeOK
  <2>2. misses[e] \in Nat /\ misses'[e] \in Nat
    BY DEF WebhookIntakeTypeOK
  <2>3. CASE At(w, "ended") /\ worker'[w] = worker[w]
    <3>1. Reflected(e) \/ misses[e] >= 1
      BY <2>1, <2>3 DEF TriedOrReflected, TriedBy
    <3>2. Reflected(e)' \/ misses'[e] >= 1
      BY <1>1, <2>2, <3>1
    <3> QED BY <2>1, <3>2 DEF TriedBy, Reflected
  <2>4. CASE e \in handled' \/ misses'[e] >= 1
    BY <2>1, <2>4 DEF TriedBy, Reflected
  <2> QED BY <2>1, <2>3, <2>4
<1>5. PaymentWins'
  <2> SUFFICES ASSUME NEW e \in handled', e \in Successes, e \notin Mismatched,
                      EventOf[e] \in QrPayments
               PROVE  status'[EventOf[e]] = "completed"
    BY DEF PaymentWins
  <2> QED BY WebhookIntakeAssumption DEF PaymentWins, WebhookIntakeTypeOK
<1> QED BY <1>3, <1>4, <1>5 DEF WebhookIntakeIInv

\* Each step of delivery, processing, answering, the queue, the locks and a
\* restart loses no attempt without counting it as missed.
LEMMA WebhookIntakeInductive == WebhookIntakeIInv
/\ [NextWebhookIntake]_hookVars => WebhookIntakeIInv'
<1> SUFFICES ASSUME WebhookIntakeIInv, [NextWebhookIntake]_hookVars PROVE WebhookIntakeIInv'
  OBVIOUS
<1>t. WebhookIntakeTypeOK /\ TriedEnough /\ TriedOrReflected /\ PaymentWins
  BY DEF WebhookIntakeIInv
<1>a. /\ EventOf \in [Events -> Payments] /\ Mismatched \in SUBSET Successes
         /\ Successes \in SUBSET Events
  BY WebhookIntakeAssumption
<1>n. \A e \in Events : Cardinality(Trying(e)) \in Nat
  BY TryingCount
<1>r. Resting \notin HookWork
  BY HookWorkIsWork
<1>w. worker \in [Workers -> {Resting} \cup HookWork]
  BY <1>t DEF WebhookIntakeTypeOK, HookWork
<1>h. \A h \in HookWork : /\ h.op \in {"http", "direct", "job", "callback", "ipn"}
                             /\ h.event \in Events
                          /\ h.at \in {"start", "locked", "ended"}
  BY DEF HookWork
<1>1. ASSUME NEW w \in Workers, NEW e \in Events, DeliverPaystack(w, e) PROVE WebhookIntakeIInv'
  <2>1. PICK h \in HookWork : h = [op |-> "http", event |-> e, at |-> "start"] /\ h.event = e
             /\ h.at = "start"
    <3>1. [op |-> "http", event |-> e, at |-> "start"] \in HookWork
      BY DEF HookWork
    <3> QED BY <3>1
  <2>2. /\ worker[w] = Resting /\ worker' = [worker EXCEPT ![w] = h]
           /\ sent' = [sent EXCEPT ![e] = @ + 1]
        /\ UNCHANGED <<status, lock, marked, queue, background, stranded, handled, misses, restarts>>
    BY <1>1, <2>1 DEF DeliverPaystack, Begin
  <2>8. WebhookIntakeTypeOK'
    <3>1. worker' \in [Workers -> {Resting} \cup HookWork]
      BY <1>w, <2>1, <2>2
    <3> QED BY <1>t, <1>a, <2>1, <2>2, <3>1 DEF WebhookIntakeTypeOK, HookWork
  <2>9. \A x \in Events : x \in handled' \/ Tries(x)' >= Tries(x)
    <3> SUFFICES ASSUME NEW x \in Events PROVE x \in handled' \/ Tries(x)' >= Tries(x)
      OBVIOUS
    <3>1. Cardinality(Trying(x))' = (Cardinality(Trying(x)) - (IF TriesAs(worker[w], x) THEN 1 ELSE 0))
                                      + (IF TriesAs(h, x) THEN 1 ELSE 0)
      BY <1>t, <2>1, <2>2, OneWorker
    <3>2. Cardinality(Trying(x)) \in Nat /\ misses[x] \in Nat /\ queue[x] \in Nat
          /\ background[x] \in Nat
      BY <1>t, <1>n DEF WebhookIntakeTypeOK
    <3> QED BY <1>t, <1>r, <2>1, <2>2, <3>1, <3>2 DEF Tries, TriesAs, WebhookIntakeTypeOK
  <2>10. \A x \in Workers : At(x, "ended")' =>
           \/ At(x, "ended") /\ worker'[x] = worker[x]
           \/ worker'[x].event \in handled' \/ misses'[worker'[x].event] >= 1
    BY <1>t, <1>w, <1>r, <2>1, <2>2 DEF At, WebhookIntakeTypeOK
  <2>11. handled \in SUBSET handled' /\ \A x \in Events : misses[x] <= misses'[x]
    BY <1>t, <2>1, <2>2 DEF WebhookIntakeTypeOK
  <2>12. \A p \in Payments : /\ status[p] = "completed" => status'[p] = "completed"
                             /\ status[p] # "pending" => status'[p] # "pending"
    BY <1>t, <2>1, <2>2 DEF WebhookIntakeTypeOK
  <2>14. \A x \in marked' : x \in marked \/ Reflected(x)' \/ Tries(x)' >= Enough(x)'
    BY <2>1, <2>2
  <2>15. stranded \in SUBSET stranded'
    BY <2>1, <2>2
  <2>13. \A x \in handled' : x \in handled \/ x \in Mismatched
                               \/ (x \in Successes /\ EventOf[x] \in QrPayments => status'[EventOf[x]] = "completed")
    BY <2>1, <2>2
  <2> QED BY <1>t, <2>1, <2>2, <2>8, <2>9, <2>10, <2>11, <2>12, <2>13, <2>14, <2>15,
      AttemptsKept
<1>2. ASSUME NEW w \in Workers, NEW e \in Events, DeliverIvorypay(w, e) PROVE WebhookIntakeIInv'
  <2>1. PICK h \in HookWork : h = [op |-> "http", event |-> e, at |-> "start"] /\ h.event = e
             /\ h.at = "start"
    <3>1. [op |-> "http", event |-> e, at |-> "start"] \in HookWork
      BY DEF HookWork
    <3> QED BY <3>1
  <2>2. /\ worker[w] = Resting /\ worker' = [worker EXCEPT ![w] = h]
           /\ sent' = [sent EXCEPT ![e] = @ + 1]
        /\ UNCHANGED <<status, lock, marked, queue, background, stranded, handled, misses, restarts>>
    BY <1>2, <2>1 DEF DeliverIvorypay, Begin
  <2>8. WebhookIntakeTypeOK'
    <3>1. worker' \in [Workers -> {Resting} \cup HookWork]
      BY <1>w, <2>1, <2>2
    <3> QED BY <1>t, <1>a, <2>1, <2>2, <3>1 DEF WebhookIntakeTypeOK, HookWork
  <2>9. \A x \in Events : x \in handled' \/ Tries(x)' >= Tries(x)
    <3> SUFFICES ASSUME NEW x \in Events PROVE x \in handled' \/ Tries(x)' >= Tries(x)
      OBVIOUS
    <3>1. Cardinality(Trying(x))' = (Cardinality(Trying(x)) - (IF TriesAs(worker[w], x) THEN 1 ELSE 0))
                                      + (IF TriesAs(h, x) THEN 1 ELSE 0)
      BY <1>t, <2>1, <2>2, OneWorker
    <3>2. Cardinality(Trying(x)) \in Nat /\ misses[x] \in Nat /\ queue[x] \in Nat
          /\ background[x] \in Nat
      BY <1>t, <1>n DEF WebhookIntakeTypeOK
    <3> QED BY <1>t, <1>r, <2>1, <2>2, <3>1, <3>2 DEF Tries, TriesAs, WebhookIntakeTypeOK
  <2>10. \A x \in Workers : At(x, "ended")' =>
           \/ At(x, "ended") /\ worker'[x] = worker[x]
           \/ worker'[x].event \in handled' \/ misses'[worker'[x].event] >= 1
    BY <1>t, <1>w, <1>r, <2>1, <2>2 DEF At, WebhookIntakeTypeOK
  <2>11. handled \in SUBSET handled' /\ \A x \in Events : misses[x] <= misses'[x]
    BY <1>t, <2>1, <2>2 DEF WebhookIntakeTypeOK
  <2>12. \A p \in Payments : /\ status[p] = "completed" => status'[p] = "completed"
                             /\ status[p] # "pending" => status'[p] # "pending"
    BY <1>t, <2>1, <2>2 DEF WebhookIntakeTypeOK
  <2>14. \A x \in marked' : x \in marked \/ Reflected(x)' \/ Tries(x)' >= Enough(x)'
    BY <2>1, <2>2
  <2>15. stranded \in SUBSET stranded'
    BY <2>1, <2>2
  <2>13. \A x \in handled' : x \in handled \/ x \in Mismatched
                               \/ (x \in Successes /\ EventOf[x] \in QrPayments => status'[EventOf[x]] = "completed")
    BY <2>1, <2>2
  <2> QED BY <1>t, <2>1, <2>2, <2>8, <2>9, <2>10, <2>11, <2>12, <2>13, <2>14, <2>15,
      AttemptsKept
<1>3. ASSUME NEW w \in Workers, NEW e \in Events, DeliverIpn(w, e) PROVE WebhookIntakeIInv'
  <2>1. PICK h \in HookWork : h = [op |-> "ipn", event |-> e, at |-> "start"] /\ h.event = e
             /\ h.at = "start"
    <3>1. [op |-> "ipn", event |-> e, at |-> "start"] \in HookWork
      BY DEF HookWork
    <3> QED BY <3>1
  <2>2. /\ worker[w] = Resting /\ worker' = [worker EXCEPT ![w] = h]
           /\ sent' = [sent EXCEPT ![e] = @ + 1]
        /\ UNCHANGED <<status, lock, marked, queue, background, stranded, handled, misses, restarts>>
    BY <1>3, <2>1 DEF DeliverIpn, Begin
  <2>8. WebhookIntakeTypeOK'
    <3>1. worker' \in [Workers -> {Resting} \cup HookWork]
      BY <1>w, <2>1, <2>2
    <3> QED BY <1>t, <1>a, <2>1, <2>2, <3>1 DEF WebhookIntakeTypeOK, HookWork
  <2>9. \A x \in Events : x \in handled' \/ Tries(x)' >= Tries(x)
    <3> SUFFICES ASSUME NEW x \in Events PROVE x \in handled' \/ Tries(x)' >= Tries(x)
      OBVIOUS
    <3>1. Cardinality(Trying(x))' = (Cardinality(Trying(x)) - (IF TriesAs(worker[w], x) THEN 1 ELSE 0))
                                      + (IF TriesAs(h, x) THEN 1 ELSE 0)
      BY <1>t, <2>1, <2>2, OneWorker
    <3>2. Cardinality(Trying(x)) \in Nat /\ misses[x] \in Nat /\ queue[x] \in Nat
          /\ background[x] \in Nat
      BY <1>t, <1>n DEF WebhookIntakeTypeOK
    <3> QED BY <1>t, <1>r, <2>1, <2>2, <3>1, <3>2 DEF Tries, TriesAs, WebhookIntakeTypeOK
  <2>10. \A x \in Workers : At(x, "ended")' =>
           \/ At(x, "ended") /\ worker'[x] = worker[x]
           \/ worker'[x].event \in handled' \/ misses'[worker'[x].event] >= 1
    BY <1>t, <1>w, <1>r, <2>1, <2>2 DEF At, WebhookIntakeTypeOK
  <2>11. handled \in SUBSET handled' /\ \A x \in Events : misses[x] <= misses'[x]
    BY <1>t, <2>1, <2>2 DEF WebhookIntakeTypeOK
  <2>12. \A p \in Payments : /\ status[p] = "completed" => status'[p] = "completed"
                             /\ status[p] # "pending" => status'[p] # "pending"
    BY <1>t, <2>1, <2>2 DEF WebhookIntakeTypeOK
  <2>14. \A x \in marked' : x \in marked \/ Reflected(x)' \/ Tries(x)' >= Enough(x)'
    BY <2>1, <2>2
  <2>15. stranded \in SUBSET stranded'
    BY <2>1, <2>2
  <2>13. \A x \in handled' : x \in handled \/ x \in Mismatched
                               \/ (x \in Successes /\ EventOf[x] \in QrPayments => status'[EventOf[x]] = "completed")
    BY <2>1, <2>2
  <2> QED BY <1>t, <2>1, <2>2, <2>8, <2>9, <2>10, <2>11, <2>12, <2>13, <2>14, <2>15,
      AttemptsKept
<1>4. ASSUME NEW w \in Workers, NEW e \in Events, StartJob(w, e) PROVE WebhookIntakeIInv'
  <2>1. PICK h \in HookWork : h = [op |-> "job", event |-> e, at |-> "start"] /\ h.event = e
             /\ h.at = "start"
    <3>1. [op |-> "job", event |-> e, at |-> "start"] \in HookWork
      BY DEF HookWork
    <3> QED BY <3>1
  <2>2. /\ worker[w] = Resting /\ worker' = [worker EXCEPT ![w] = h]
           /\ queue' = [queue EXCEPT ![e] = @ - 1] /\ queue[e] > 0
        /\ UNCHANGED <<status, lock, sent, marked, background, stranded, handled, misses, restarts>>
    BY <1>4, <2>1 DEF StartJob, Begin
  <2>8. WebhookIntakeTypeOK'
    <3>1. worker' \in [Workers -> {Resting} \cup HookWork]
      BY <1>w, <2>1, <2>2
    <3> QED BY <1>t, <1>a, <2>1, <2>2, <3>1 DEF WebhookIntakeTypeOK, HookWork
  <2>9. \A x \in Events : x \in handled' \/ Tries(x)' >= Tries(x)
    <3> SUFFICES ASSUME NEW x \in Events PROVE x \in handled' \/ Tries(x)' >= Tries(x)
      OBVIOUS
    <3>1. Cardinality(Trying(x))' = (Cardinality(Trying(x)) - (IF TriesAs(worker[w], x) THEN 1 ELSE 0))
                                      + (IF TriesAs(h, x) THEN 1 ELSE 0)
      BY <1>t, <2>1, <2>2, OneWorker
    <3>2. Cardinality(Trying(x)) \in Nat /\ misses[x] \in Nat /\ queue[x] \in Nat
          /\ background[x] \in Nat
      BY <1>t, <1>n DEF WebhookIntakeTypeOK
    <3> QED BY <1>t, <1>r, <2>1, <2>2, <3>1, <3>2 DEF Tries, TriesAs, WebhookIntakeTypeOK
  <2>10. \A x \in Workers : At(x, "ended")' =>
           \/ At(x, "ended") /\ worker'[x] = worker[x]
           \/ worker'[x].event \in handled' \/ misses'[worker'[x].event] >= 1
    BY <1>t, <1>w, <1>r, <2>1, <2>2 DEF At, WebhookIntakeTypeOK
  <2>11. handled \in SUBSET handled' /\ \A x \in Events : misses[x] <= misses'[x]
    BY <1>t, <2>1, <2>2 DEF WebhookIntakeTypeOK
  <2>12. \A p \in Payments : /\ status[p] = "completed" => status'[p] = "completed"
                             /\ status[p] # "pending" => status'[p] # "pending"
    BY <1>t, <2>1, <2>2 DEF WebhookIntakeTypeOK
  <2>14. \A x \in marked' : x \in marked \/ Reflected(x)' \/ Tries(x)' >= Enough(x)'
    BY <2>1, <2>2
  <2>15. stranded \in SUBSET stranded'
    BY <2>1, <2>2
  <2>13. \A x \in handled' : x \in handled \/ x \in Mismatched
                               \/ (x \in Successes /\ EventOf[x] \in QrPayments => status'[EventOf[x]] = "completed")
    BY <2>1, <2>2
  <2> QED BY <1>t, <2>1, <2>2, <2>8, <2>9, <2>10, <2>11, <2>12, <2>13, <2>14, <2>15,
      AttemptsKept
<1>5. ASSUME NEW w \in Workers, NEW e \in Events, StartCallback(w, e) PROVE WebhookIntakeIInv'
  <2>1. PICK h \in HookWork : h = [op |-> "callback", event |-> e, at |-> "start"]
             /\ h.event = e /\ h.at = "start"
    <3>1. [op |-> "callback", event |-> e, at |-> "start"] \in HookWork
      BY DEF HookWork
    <3> QED BY <3>1
  <2>2. /\ worker[w] = Resting /\ worker' = [worker EXCEPT ![w] = h]
           /\ background' = [background EXCEPT ![e] = @ - 1] /\ background[e] > 0
        /\ UNCHANGED <<status, lock, sent, marked, queue, stranded, handled, misses, restarts>>
    BY <1>5, <2>1 DEF StartCallback, Begin
  <2>8. WebhookIntakeTypeOK'
    <3>1. worker' \in [Workers -> {Resting} \cup HookWork]
      BY <1>w, <2>1, <2>2
    <3> QED BY <1>t, <1>a, <2>1, <2>2, <3>1 DEF WebhookIntakeTypeOK, HookWork
  <2>9. \A x \in Events : x \in handled' \/ Tries(x)' >= Tries(x)
    <3> SUFFICES ASSUME NEW x \in Events PROVE x \in handled' \/ Tries(x)' >= Tries(x)
      OBVIOUS
    <3>1. Cardinality(Trying(x))' = (Cardinality(Trying(x)) - (IF TriesAs(worker[w], x) THEN 1 ELSE 0))
                                      + (IF TriesAs(h, x) THEN 1 ELSE 0)
      BY <1>t, <2>1, <2>2, OneWorker
    <3>2. Cardinality(Trying(x)) \in Nat /\ misses[x] \in Nat /\ queue[x] \in Nat
          /\ background[x] \in Nat
      BY <1>t, <1>n DEF WebhookIntakeTypeOK
    <3> QED BY <1>t, <1>r, <2>1, <2>2, <3>1, <3>2 DEF Tries, TriesAs, WebhookIntakeTypeOK
  <2>10. \A x \in Workers : At(x, "ended")' =>
           \/ At(x, "ended") /\ worker'[x] = worker[x]
           \/ worker'[x].event \in handled' \/ misses'[worker'[x].event] >= 1
    BY <1>t, <1>w, <1>r, <2>1, <2>2 DEF At, WebhookIntakeTypeOK
  <2>11. handled \in SUBSET handled' /\ \A x \in Events : misses[x] <= misses'[x]
    BY <1>t, <2>1, <2>2 DEF WebhookIntakeTypeOK
  <2>12. \A p \in Payments : /\ status[p] = "completed" => status'[p] = "completed"
                             /\ status[p] # "pending" => status'[p] # "pending"
    BY <1>t, <2>1, <2>2 DEF WebhookIntakeTypeOK
  <2>14. \A x \in marked' : x \in marked \/ Reflected(x)' \/ Tries(x)' >= Enough(x)'
    BY <2>1, <2>2
  <2>15. stranded \in SUBSET stranded'
    BY <2>1, <2>2
  <2>13. \A x \in handled' : x \in handled \/ x \in Mismatched
                               \/ (x \in Successes /\ EventOf[x] \in QrPayments => status'[EventOf[x]] = "completed")
    BY <2>1, <2>2
  <2> QED BY <1>t, <2>1, <2>2, <2>8, <2>9, <2>10, <2>11, <2>12, <2>13, <2>14, <2>15,
      AttemptsKept
<1>6. ASSUME NEW w \in Workers, TurnedAway(w) PROVE WebhookIntakeIInv'
  <2>1. PICK e \in Events : e = worker[w].event /\ worker[w] \in HookWork
             /\ worker[w].at = "start"
    BY <1>w, <1>h, <1>6 DEF TurnedAway, At
  <2>2. PICK h \in {Resting} \cup HookWork : /\ worker' = [worker EXCEPT ![w] = h]
                                           /\ (h = Resting \/ (h.at = "ended" /\ h.event = e))
    <3>1. \A g \in HookWork : LET f == [g EXCEPT !.at = "ended"] IN f \in HookWork
                              /\ f.at = "ended" /\ f.event = g.event
      BY DEF HookWork
    <3>2. worker' = [worker EXCEPT ![w] = IF worker[w].op = "http" THEN [worker[w] EXCEPT !.at = "ended"] ELSE Resting]
      BY <1>w, <1>6 DEF TurnedAway, Ended
    <3> QED BY <2>1, <3>1, <3>2
  <2>3. /\ misses' = [misses EXCEPT ![e] = @ + 1]
        /\ UNCHANGED <<status, lock, sent, marked, queue, background, stranded, handled, restarts>>
    BY <1>6, <2>1 DEF TurnedAway, Miss
  <2>8. WebhookIntakeTypeOK'
    <3>1. worker' \in [Workers -> {Resting} \cup HookWork]
      BY <1>w, <2>1, <2>2, <2>3
    <3> QED BY <1>t, <1>a, <2>1, <2>2, <2>3, <3>1 DEF WebhookIntakeTypeOK, HookWork
  <2>9. \A x \in Events : x \in handled' \/ Tries(x)' >= Tries(x)
    <3> SUFFICES ASSUME NEW x \in Events PROVE x \in handled' \/ Tries(x)' >= Tries(x)
      OBVIOUS
    <3>1. Cardinality(Trying(x))' = (Cardinality(Trying(x)) - (IF TriesAs(worker[w], x) THEN 1 ELSE 0))
                                      + (IF TriesAs(h, x) THEN 1 ELSE 0)
      BY <1>t, <2>1, <2>2, <2>3, OneWorker
    <3>2. Cardinality(Trying(x)) \in Nat /\ misses[x] \in Nat /\ queue[x] \in Nat
          /\ background[x] \in Nat
      BY <1>t, <1>n DEF WebhookIntakeTypeOK
    <3> QED BY <1>t, <1>r, <2>1, <2>2, <2>3, <3>1, <3>2 DEF Tries, TriesAs, WebhookIntakeTypeOK
  <2>10. \A x \in Workers : At(x, "ended")' =>
           \/ At(x, "ended") /\ worker'[x] = worker[x]
           \/ worker'[x].event \in handled' \/ misses'[worker'[x].event] >= 1
    BY <1>t, <1>w, <1>r, <2>1, <2>2, <2>3 DEF At, WebhookIntakeTypeOK
  <2>11. handled \in SUBSET handled' /\ \A x \in Events : misses[x] <= misses'[x]
    BY <1>t, <2>1, <2>2, <2>3 DEF WebhookIntakeTypeOK
  <2>12. \A p \in Payments : /\ status[p] = "completed" => status'[p] = "completed"
                             /\ status[p] # "pending" => status'[p] # "pending"
    BY <1>t, <2>1, <2>2, <2>3 DEF WebhookIntakeTypeOK
  <2>14. \A x \in marked' : x \in marked \/ Reflected(x)' \/ Tries(x)' >= Enough(x)'
    BY <2>1, <2>2, <2>3
  <2>15. stranded \in SUBSET stranded'
    BY <2>1, <2>2, <2>3
  <2>13. \A x \in handled' : x \in handled \/ x \in Mismatched
                               \/ (x \in Successes /\ EventOf[x] \in QrPayments => status'[EventOf[x]] = "completed")
    BY <2>1, <2>2, <2>3
  <2> QED BY <1>t, <2>1, <2>2, <2>3, <2>8, <2>9, <2>10, <2>11, <2>12, <2>13, <2>14, <2>15,
      AttemptsKept
<1>7. ASSUME NEW w \in Workers, IpnFails(w) PROVE WebhookIntakeIInv'
  <2>1. PICK e \in Events : e = worker[w].event /\ worker[w] \in HookWork
             /\ worker[w].at = "start"
    BY <1>w, <1>h, <1>7 DEF IpnFails, At
  <2>2. PICK h \in {Resting} \cup HookWork : /\ worker' = [worker EXCEPT ![w] = h]
                                           /\ (h = Resting \/ (h.at = "ended" /\ h.event = e))
    <3>1. \A g \in HookWork : LET f == [g EXCEPT !.at = "ended"] IN f \in HookWork
                              /\ f.at = "ended" /\ f.event = g.event
      BY DEF HookWork
    <3>2. worker' = [worker EXCEPT ![w] = IF worker[w].op = "http" THEN [worker[w] EXCEPT !.at = "ended"] ELSE Resting]
      BY <1>w, <1>7 DEF IpnFails, Ended
    <3> QED BY <2>1, <3>1, <3>2
  <2>3. /\ misses' = [misses EXCEPT ![e] = @ + 1]
        /\ UNCHANGED <<status, lock, sent, marked, queue, background, stranded, handled, restarts>>
    BY <1>7, <2>1 DEF IpnFails, Miss
  <2>8. WebhookIntakeTypeOK'
    <3>1. worker' \in [Workers -> {Resting} \cup HookWork]
      BY <1>w, <2>1, <2>2, <2>3
    <3> QED BY <1>t, <1>a, <2>1, <2>2, <2>3, <3>1 DEF WebhookIntakeTypeOK, HookWork
  <2>9. \A x \in Events : x \in handled' \/ Tries(x)' >= Tries(x)
    <3> SUFFICES ASSUME NEW x \in Events PROVE x \in handled' \/ Tries(x)' >= Tries(x)
      OBVIOUS
    <3>1. Cardinality(Trying(x))' = (Cardinality(Trying(x)) - (IF TriesAs(worker[w], x) THEN 1 ELSE 0))
                                      + (IF TriesAs(h, x) THEN 1 ELSE 0)
      BY <1>t, <2>1, <2>2, <2>3, OneWorker
    <3>2. Cardinality(Trying(x)) \in Nat /\ misses[x] \in Nat /\ queue[x] \in Nat
          /\ background[x] \in Nat
      BY <1>t, <1>n DEF WebhookIntakeTypeOK
    <3> QED BY <1>t, <1>r, <2>1, <2>2, <2>3, <3>1, <3>2 DEF Tries, TriesAs, WebhookIntakeTypeOK
  <2>10. \A x \in Workers : At(x, "ended")' =>
           \/ At(x, "ended") /\ worker'[x] = worker[x]
           \/ worker'[x].event \in handled' \/ misses'[worker'[x].event] >= 1
    BY <1>t, <1>w, <1>r, <2>1, <2>2, <2>3 DEF At, WebhookIntakeTypeOK
  <2>11. handled \in SUBSET handled' /\ \A x \in Events : misses[x] <= misses'[x]
    BY <1>t, <2>1, <2>2, <2>3 DEF WebhookIntakeTypeOK
  <2>12. \A p \in Payments : /\ status[p] = "completed" => status'[p] = "completed"
                             /\ status[p] # "pending" => status'[p] # "pending"
    BY <1>t, <2>1, <2>2, <2>3 DEF WebhookIntakeTypeOK
  <2>14. \A x \in marked' : x \in marked \/ Reflected(x)' \/ Tries(x)' >= Enough(x)'
    BY <2>1, <2>2, <2>3
  <2>15. stranded \in SUBSET stranded'
    BY <2>1, <2>2, <2>3
  <2>13. \A x \in handled' : x \in handled \/ x \in Mismatched
                               \/ (x \in Successes /\ EventOf[x] \in QrPayments => status'[EventOf[x]] = "completed")
    BY <2>1, <2>2, <2>3
  <2> QED BY <1>t, <2>1, <2>2, <2>3, <2>8, <2>9, <2>10, <2>11, <2>12, <2>13, <2>14, <2>15,
      AttemptsKept
<1>8. ASSUME NEW w \in Workers, ProcessFails(w) PROVE WebhookIntakeIInv'
  <2>1. PICK e \in Events : e = worker[w].event /\ worker[w] \in HookWork
             /\ worker[w].at = "locked"
    BY <1>w, <1>h, <1>8 DEF ProcessFails, At
  <2>2. PICK h \in {Resting} \cup HookWork : /\ worker' = [worker EXCEPT ![w] = h]
                                           /\ (h = Resting \/ (h.at = "ended" /\ h.event = e))
    <3>1. \A g \in HookWork : LET f == [g EXCEPT !.at = "ended"] IN f \in HookWork
                              /\ f.at = "ended" /\ f.event = g.event
      BY DEF HookWork
    <3>2. worker' = [worker EXCEPT ![w] = IF worker[w].op = "http" THEN [worker[w] EXCEPT !.at = "ended"] ELSE Resting]
      BY <1>w, <1>8 DEF ProcessFails, Ended
    <3> QED BY <2>1, <3>1, <3>2
  <2>3. /\ misses' = [misses EXCEPT ![e] = @ + 1] /\ lock' \in SUBSET lock
        /\ UNCHANGED <<status, sent, marked, queue, background, stranded, handled, restarts>>
    BY <1>8, <2>1 DEF ProcessFails, Miss, ReleaseLock
  <2>8. WebhookIntakeTypeOK'
    <3>1. worker' \in [Workers -> {Resting} \cup HookWork]
      BY <1>w, <2>1, <2>2, <2>3
    <3> QED BY <1>t, <1>a, <2>1, <2>2, <2>3, <3>1 DEF WebhookIntakeTypeOK, HookWork
  <2>9. \A x \in Events : x \in handled' \/ Tries(x)' >= Tries(x)
    <3> SUFFICES ASSUME NEW x \in Events PROVE x \in handled' \/ Tries(x)' >= Tries(x)
      OBVIOUS
    <3>1. Cardinality(Trying(x))' = (Cardinality(Trying(x)) - (IF TriesAs(worker[w], x) THEN 1 ELSE 0))
                                      + (IF TriesAs(h, x) THEN 1 ELSE 0)
      BY <1>t, <2>1, <2>2, <2>3, OneWorker
    <3>2. Cardinality(Trying(x)) \in Nat /\ misses[x] \in Nat /\ queue[x] \in Nat
          /\ background[x] \in Nat
      BY <1>t, <1>n DEF WebhookIntakeTypeOK
    <3> QED BY <1>t, <1>r, <2>1, <2>2, <2>3, <3>1, <3>2 DEF Tries, TriesAs, WebhookIntakeTypeOK
  <2>10. \A x \in Workers : At(x, "ended")' =>
           \/ At(x, "ended") /\ worker'[x] = worker[x]
           \/ worker'[x].event \in handled' \/ misses'[worker'[x].event] >= 1
    BY <1>t, <1>w, <1>r, <2>1, <2>2, <2>3 DEF At, WebhookIntakeTypeOK
  <2>11. handled \in SUBSET handled' /\ \A x \in Events : misses[x] <= misses'[x]
    BY <1>t, <2>1, <2>2, <2>3 DEF WebhookIntakeTypeOK
  <2>12. \A p \in Payments : /\ status[p] = "completed" => status'[p] = "completed"
                             /\ status[p] # "pending" => status'[p] # "pending"
    BY <1>t, <2>1, <2>2, <2>3 DEF WebhookIntakeTypeOK
  <2>14. \A x \in marked' : x \in marked \/ Reflected(x)' \/ Tries(x)' >= Enough(x)'
    BY <2>1, <2>2, <2>3
  <2>15. stranded \in SUBSET stranded'
    BY <2>1, <2>2, <2>3
  <2>13. \A x \in handled' : x \in handled \/ x \in Mismatched
                               \/ (x \in Successes /\ EventOf[x] \in QrPayments => status'[EventOf[x]] = "completed")
    BY <2>1, <2>2, <2>3
  <2> QED BY <1>t, <2>1, <2>2, <2>3, <2>8, <2>9, <2>10, <2>11, <2>12, <2>13, <2>14, <2>15,
      AttemptsKept
<1>9. ASSUME NEW w \in Workers, ProcessFailsEarly(w) PROVE WebhookIntakeIInv'
  <2>1. PICK e \in Events : e = worker[w].event /\ worker[w] \in HookWork
             /\ worker[w].at = "locked"
    BY <1>w, <1>h, <1>9 DEF ProcessFailsEarly, At
  <2>2. PICK h \in {Resting} \cup HookWork : /\ worker' = [worker EXCEPT ![w] = h]
                                           /\ (h = Resting \/ (h.at = "ended" /\ h.event = e))
    <3>1. \A g \in HookWork : LET f == [g EXCEPT !.at = "ended"] IN f \in HookWork
                              /\ f.at = "ended" /\ f.event = g.event
      BY DEF HookWork
    <3>2. worker' = [worker EXCEPT ![w] = IF worker[w].op = "http" THEN [worker[w] EXCEPT !.at = "ended"] ELSE Resting]
      BY <1>w, <1>9 DEF ProcessFailsEarly, Ended
    <3> QED BY <2>1, <3>1, <3>2
  <2>3. /\ misses' = [misses EXCEPT ![e] = @ + 1]
        /\ UNCHANGED <<status, lock, sent, marked, queue, background, stranded, handled, restarts>>
    BY <1>9, <2>1 DEF ProcessFailsEarly, Miss
  <2>8. WebhookIntakeTypeOK'
    <3>1. worker' \in [Workers -> {Resting} \cup HookWork]
      BY <1>w, <2>1, <2>2, <2>3
    <3> QED BY <1>t, <1>a, <2>1, <2>2, <2>3, <3>1 DEF WebhookIntakeTypeOK, HookWork
  <2>9. \A x \in Events : x \in handled' \/ Tries(x)' >= Tries(x)
    <3> SUFFICES ASSUME NEW x \in Events PROVE x \in handled' \/ Tries(x)' >= Tries(x)
      OBVIOUS
    <3>1. Cardinality(Trying(x))' = (Cardinality(Trying(x)) - (IF TriesAs(worker[w], x) THEN 1 ELSE 0))
                                      + (IF TriesAs(h, x) THEN 1 ELSE 0)
      BY <1>t, <2>1, <2>2, <2>3, OneWorker
    <3>2. Cardinality(Trying(x)) \in Nat /\ misses[x] \in Nat /\ queue[x] \in Nat
          /\ background[x] \in Nat
      BY <1>t, <1>n DEF WebhookIntakeTypeOK
    <3> QED BY <1>t, <1>r, <2>1, <2>2, <2>3, <3>1, <3>2 DEF Tries, TriesAs, WebhookIntakeTypeOK
  <2>10. \A x \in Workers : At(x, "ended")' =>
           \/ At(x, "ended") /\ worker'[x] = worker[x]
           \/ worker'[x].event \in handled' \/ misses'[worker'[x].event] >= 1
    BY <1>t, <1>w, <1>r, <2>1, <2>2, <2>3 DEF At, WebhookIntakeTypeOK
  <2>11. handled \in SUBSET handled' /\ \A x \in Events : misses[x] <= misses'[x]
    BY <1>t, <2>1, <2>2, <2>3 DEF WebhookIntakeTypeOK
  <2>12. \A p \in Payments : /\ status[p] = "completed" => status'[p] = "completed"
                             /\ status[p] # "pending" => status'[p] # "pending"
    BY <1>t, <2>1, <2>2, <2>3 DEF WebhookIntakeTypeOK
  <2>14. \A x \in marked' : x \in marked \/ Reflected(x)' \/ Tries(x)' >= Enough(x)'
    BY <2>1, <2>2, <2>3
  <2>15. stranded \in SUBSET stranded'
    BY <2>1, <2>2, <2>3
  <2>13. \A x \in handled' : x \in handled \/ x \in Mismatched
                               \/ (x \in Successes /\ EventOf[x] \in QrPayments => status'[EventOf[x]] = "completed")
    BY <2>1, <2>2, <2>3
  <2> QED BY <1>t, <2>1, <2>2, <2>3, <2>8, <2>9, <2>10, <2>11, <2>12, <2>13, <2>14, <2>15,
      AttemptsKept
<1>10. ASSUME NEW w \in Workers, ProcessPaystack(w) PROVE WebhookIntakeIInv'
  <2>1. PICK e \in Events : e = worker[w].event /\ worker[w] \in HookWork
             /\ worker[w].at = "locked"
    BY <1>w, <1>h, <1>10 DEF ProcessPaystack, At
  <2>2. PICK h \in {Resting} \cup HookWork : /\ worker' = [worker EXCEPT ![w] = h]
                                           /\ (h = Resting \/ (h.at = "ended" /\ h.event = e))
    <3>1. \A g \in HookWork : LET f == [g EXCEPT !.at = "ended"] IN f \in HookWork
                              /\ f.at = "ended" /\ f.event = g.event
      BY DEF HookWork
    <3>2. worker' = [worker EXCEPT ![w] = IF worker[w].op = "http" THEN [worker[w] EXCEPT !.at = "ended"] ELSE Resting]
      BY <1>w, <1>10 DEF ProcessPaystack, Ended
    <3> QED BY <2>1, <3>1, <3>2
  <2>0. PICK q \in Payments : q = EventOf[e]
    BY <1>a
  <2>o. PICK o : /\ o = Outcome(q, e) /\ o \in {"pending", "completed", "failed"}
                 /\ status[q] = "completed" => o = "completed"
                 /\ status[q] # "pending" => o # "pending"
                 /\ e \in Mismatched \/ (e \in Successes /\ q \in QrPayments => o = "completed")
    BY <1>t, <2>0 DEF Outcome, WebhookIntakeTypeOK
  <2>3. /\ handled' = handled \cup {e} /\ status' = [status EXCEPT ![q] = o]
           /\ lock' \in SUBSET lock
        /\ UNCHANGED <<sent, marked, queue, background, stranded, misses, restarts>>
    BY <1>10, <2>0, <2>o, <2>1 DEF ProcessPaystack, ReleaseLock
  <2>4. /\ handled' = handled \cup {e} /\ lock' \in SUBSET lock
        /\ UNCHANGED <<sent, marked, queue, background, stranded, misses, restarts>>
        /\ status' \in [Payments -> {"pending", "completed", "failed"}]
        /\ \A p \in Payments : /\ status[p] = "completed" => status'[p] = "completed"
                               /\ status[p] # "pending" => status'[p] # "pending"
        /\ e \in Mismatched \/ (e \in Successes /\ EventOf[e] \in QrPayments => status'[EventOf[e]] = "completed")
    BY <1>t, <2>0, <2>o, <2>3 DEF WebhookIntakeTypeOK
  <2>5. \A x \in handled : x \in handled'
    BY <2>4
  <2>8. WebhookIntakeTypeOK'
    <3>1. worker' \in [Workers -> {Resting} \cup HookWork]
      BY <1>w, <2>1, <2>2, <2>4
    <3> QED BY <1>t, <1>a, <2>1, <2>2, <2>4, <3>1 DEF WebhookIntakeTypeOK, HookWork
  <2>9. \A x \in Events : x \in handled' \/ Tries(x)' >= Tries(x)
    <3> SUFFICES ASSUME NEW x \in Events PROVE x \in handled' \/ Tries(x)' >= Tries(x)
      OBVIOUS
    <3>1. Cardinality(Trying(x))' = (Cardinality(Trying(x)) - (IF TriesAs(worker[w], x) THEN 1 ELSE 0))
                                      + (IF TriesAs(h, x) THEN 1 ELSE 0)
      BY <1>t, <2>1, <2>2, <2>4, OneWorker
    <3>2. Cardinality(Trying(x)) \in Nat /\ misses[x] \in Nat /\ queue[x] \in Nat
          /\ background[x] \in Nat
      BY <1>t, <1>n DEF WebhookIntakeTypeOK
    <3> QED BY <1>t, <1>r, <2>1, <2>2, <2>4, <3>1, <3>2 DEF Tries, TriesAs, WebhookIntakeTypeOK
  <2>10. \A x \in Workers : At(x, "ended")' =>
           \/ At(x, "ended") /\ worker'[x] = worker[x]
           \/ worker'[x].event \in handled' \/ misses'[worker'[x].event] >= 1
    BY <1>t, <1>w, <1>r, <2>1, <2>2, <2>4 DEF At, WebhookIntakeTypeOK
  <2>11. handled \in SUBSET handled' /\ \A x \in Events : misses[x] <= misses'[x]
    BY <1>t, <2>1, <2>2, <2>4 DEF WebhookIntakeTypeOK
  <2>12. \A p \in Payments : /\ status[p] = "completed" => status'[p] = "completed"
                             /\ status[p] # "pending" => status'[p] # "pending"
    BY <1>t, <2>1, <2>2, <2>4 DEF WebhookIntakeTypeOK
  <2>14. \A x \in marked' : x \in marked \/ Reflected(x)' \/ Tries(x)' >= Enough(x)'
    BY <2>1, <2>2, <2>4
  <2>15. stranded \in SUBSET stranded'
    BY <2>1, <2>2, <2>4
  <2>13. \A x \in handled' : x \in handled \/ x \in Mismatched
                               \/ (x \in Successes /\ EventOf[x] \in QrPayments => status'[EventOf[x]] = "completed")
    BY <2>1, <2>2, <2>4
  <2> QED BY <1>t, <2>1, <2>2, <2>4, <2>8, <2>9, <2>10, <2>11, <2>12, <2>13, <2>14, <2>15,
      AttemptsKept
<1>11. ASSUME NEW w \in Workers, ProcessIvorypay(w) PROVE WebhookIntakeIInv'
  <2>1. PICK e \in Events : e = worker[w].event /\ worker[w] \in HookWork
             /\ worker[w].at = "locked"
    BY <1>w, <1>h, <1>11 DEF ProcessIvorypay, At
  <2>2. PICK h \in {Resting} \cup HookWork : /\ worker' = [worker EXCEPT ![w] = h]
                                           /\ (h = Resting \/ (h.at = "ended" /\ h.event = e))
    <3>1. \A g \in HookWork : LET f == [g EXCEPT !.at = "ended"] IN f \in HookWork
                              /\ f.at = "ended" /\ f.event = g.event
      BY DEF HookWork
    <3>2. worker' = [worker EXCEPT ![w] = IF worker[w].op = "http" THEN [worker[w] EXCEPT !.at = "ended"] ELSE Resting]
      BY <1>w, <1>11 DEF ProcessIvorypay, Ended
    <3> QED BY <2>1, <3>1, <3>2
  <2>0. PICK q \in Payments : q = EventOf[e]
    BY <1>a
  <2>o. PICK o : /\ o = Outcome(q, e) /\ o \in {"pending", "completed", "failed"}
                 /\ status[q] = "completed" => o = "completed"
                 /\ status[q] # "pending" => o # "pending"
                 /\ e \in Mismatched \/ (e \in Successes /\ q \in QrPayments => o = "completed")
    BY <1>t, <2>0 DEF Outcome, WebhookIntakeTypeOK
  <2>3. /\ handled' = handled \cup {e} /\ status' = [status EXCEPT ![q] = o]
           /\ lock' \in SUBSET lock
        /\ UNCHANGED <<sent, marked, queue, background, stranded, misses, restarts>>
    BY <1>11, <2>0, <2>o, <2>1 DEF ProcessIvorypay, ReleaseLock
  <2>4. /\ handled' = handled \cup {e} /\ lock' \in SUBSET lock
        /\ UNCHANGED <<sent, marked, queue, background, stranded, misses, restarts>>
        /\ status' \in [Payments -> {"pending", "completed", "failed"}]
        /\ \A p \in Payments : /\ status[p] = "completed" => status'[p] = "completed"
                               /\ status[p] # "pending" => status'[p] # "pending"
        /\ e \in Mismatched \/ (e \in Successes /\ EventOf[e] \in QrPayments => status'[EventOf[e]] = "completed")
    BY <1>t, <2>0, <2>o, <2>3 DEF WebhookIntakeTypeOK
  <2>5. \A x \in handled : x \in handled'
    BY <2>4
  <2>8. WebhookIntakeTypeOK'
    <3>1. worker' \in [Workers -> {Resting} \cup HookWork]
      BY <1>w, <2>1, <2>2, <2>4
    <3> QED BY <1>t, <1>a, <2>1, <2>2, <2>4, <3>1 DEF WebhookIntakeTypeOK, HookWork
  <2>9. \A x \in Events : x \in handled' \/ Tries(x)' >= Tries(x)
    <3> SUFFICES ASSUME NEW x \in Events PROVE x \in handled' \/ Tries(x)' >= Tries(x)
      OBVIOUS
    <3>1. Cardinality(Trying(x))' = (Cardinality(Trying(x)) - (IF TriesAs(worker[w], x) THEN 1 ELSE 0))
                                      + (IF TriesAs(h, x) THEN 1 ELSE 0)
      BY <1>t, <2>1, <2>2, <2>4, OneWorker
    <3>2. Cardinality(Trying(x)) \in Nat /\ misses[x] \in Nat /\ queue[x] \in Nat
          /\ background[x] \in Nat
      BY <1>t, <1>n DEF WebhookIntakeTypeOK
    <3> QED BY <1>t, <1>r, <2>1, <2>2, <2>4, <3>1, <3>2 DEF Tries, TriesAs, WebhookIntakeTypeOK
  <2>10. \A x \in Workers : At(x, "ended")' =>
           \/ At(x, "ended") /\ worker'[x] = worker[x]
           \/ worker'[x].event \in handled' \/ misses'[worker'[x].event] >= 1
    BY <1>t, <1>w, <1>r, <2>1, <2>2, <2>4 DEF At, WebhookIntakeTypeOK
  <2>11. handled \in SUBSET handled' /\ \A x \in Events : misses[x] <= misses'[x]
    BY <1>t, <2>1, <2>2, <2>4 DEF WebhookIntakeTypeOK
  <2>12. \A p \in Payments : /\ status[p] = "completed" => status'[p] = "completed"
                             /\ status[p] # "pending" => status'[p] # "pending"
    BY <1>t, <2>1, <2>2, <2>4 DEF WebhookIntakeTypeOK
  <2>14. \A x \in marked' : x \in marked \/ Reflected(x)' \/ Tries(x)' >= Enough(x)'
    BY <2>1, <2>2, <2>4
  <2>15. stranded \in SUBSET stranded'
    BY <2>1, <2>2, <2>4
  <2>13. \A x \in handled' : x \in handled \/ x \in Mismatched
                               \/ (x \in Successes /\ EventOf[x] \in QrPayments => status'[EventOf[x]] = "completed")
    BY <2>1, <2>2, <2>4
  <2> QED BY <1>t, <2>1, <2>2, <2>4, <2>8, <2>9, <2>10, <2>11, <2>12, <2>13, <2>14, <2>15,
      AttemptsKept
<1>12. ASSUME NEW w \in Workers, ProcessIpn(w) PROVE WebhookIntakeIInv'
  <2>1. PICK e \in Events : e = worker[w].event /\ worker[w] \in HookWork
             /\ worker[w].at = "start"
    BY <1>w, <1>h, <1>12 DEF ProcessIpn, At
  <2>2. PICK h \in {Resting} \cup HookWork : /\ worker' = [worker EXCEPT ![w] = h]
                                           /\ (h = Resting \/ (h.at = "ended" /\ h.event = e))
    <3>1. \A g \in HookWork : LET f == [g EXCEPT !.at = "ended"] IN f \in HookWork
                              /\ f.at = "ended" /\ f.event = g.event
      BY DEF HookWork
    <3>2. worker' = [worker EXCEPT ![w] = IF worker[w].op = "http" THEN [worker[w] EXCEPT !.at = "ended"] ELSE Resting]
      BY <1>w, <1>12 DEF ProcessIpn, Ended
    <3> QED BY <2>1, <3>1, <3>2
  <2>0. PICK q \in Payments : q = EventOf[e]
    BY <1>a
  <2>o. PICK o : /\ o = Outcome(q, e) /\ o \in {"pending", "completed", "failed"}
                 /\ status[q] = "completed" => o = "completed"
                 /\ status[q] # "pending" => o # "pending"
                 /\ e \in Mismatched \/ (e \in Successes /\ q \in QrPayments => o = "completed")
    BY <1>t, <2>0 DEF Outcome, WebhookIntakeTypeOK
  <2>3. /\ handled' = handled \cup {e} /\ status' = [status EXCEPT ![q] = o]
           /\ lock' \in SUBSET lock
        /\ UNCHANGED <<sent, marked, queue, background, stranded, misses, restarts>>
    BY <1>12, <2>0, <2>o, <2>1 DEF ProcessIpn, At
  <2>4. /\ handled' = handled \cup {e} /\ lock' \in SUBSET lock
        /\ UNCHANGED <<sent, marked, queue, background, stranded, misses, restarts>>
        /\ status' \in [Payments -> {"pending", "completed", "failed"}]
        /\ \A p \in Payments : /\ status[p] = "completed" => status'[p] = "completed"
                               /\ status[p] # "pending" => status'[p] # "pending"
        /\ e \in Mismatched \/ (e \in Successes /\ EventOf[e] \in QrPayments => status'[EventOf[e]] = "completed")
    BY <1>t, <2>0, <2>o, <2>3 DEF WebhookIntakeTypeOK
  <2>5. \A x \in handled : x \in handled'
    BY <2>4
  <2>8. WebhookIntakeTypeOK'
    <3>1. worker' \in [Workers -> {Resting} \cup HookWork]
      BY <1>w, <2>1, <2>2, <2>4
    <3> QED BY <1>t, <1>a, <2>1, <2>2, <2>4, <3>1 DEF WebhookIntakeTypeOK, HookWork
  <2>9. \A x \in Events : x \in handled' \/ Tries(x)' >= Tries(x)
    <3> SUFFICES ASSUME NEW x \in Events PROVE x \in handled' \/ Tries(x)' >= Tries(x)
      OBVIOUS
    <3>1. Cardinality(Trying(x))' = (Cardinality(Trying(x)) - (IF TriesAs(worker[w], x) THEN 1 ELSE 0))
                                      + (IF TriesAs(h, x) THEN 1 ELSE 0)
      BY <1>t, <2>1, <2>2, <2>4, OneWorker
    <3>2. Cardinality(Trying(x)) \in Nat /\ misses[x] \in Nat /\ queue[x] \in Nat
          /\ background[x] \in Nat
      BY <1>t, <1>n DEF WebhookIntakeTypeOK
    <3> QED BY <1>t, <1>r, <2>1, <2>2, <2>4, <3>1, <3>2 DEF Tries, TriesAs, WebhookIntakeTypeOK
  <2>10. \A x \in Workers : At(x, "ended")' =>
           \/ At(x, "ended") /\ worker'[x] = worker[x]
           \/ worker'[x].event \in handled' \/ misses'[worker'[x].event] >= 1
    BY <1>t, <1>w, <1>r, <2>1, <2>2, <2>4 DEF At, WebhookIntakeTypeOK
  <2>11. handled \in SUBSET handled' /\ \A x \in Events : misses[x] <= misses'[x]
    BY <1>t, <2>1, <2>2, <2>4 DEF WebhookIntakeTypeOK
  <2>12. \A p \in Payments : /\ status[p] = "completed" => status'[p] = "completed"
                             /\ status[p] # "pending" => status'[p] # "pending"
    BY <1>t, <2>1, <2>2, <2>4 DEF WebhookIntakeTypeOK
  <2>14. \A x \in marked' : x \in marked \/ Reflected(x)' \/ Tries(x)' >= Enough(x)'
    BY <2>1, <2>2, <2>4
  <2>15. stranded \in SUBSET stranded'
    BY <2>1, <2>2, <2>4
  <2>13. \A x \in handled' : x \in handled \/ x \in Mismatched
                               \/ (x \in Successes /\ EventOf[x] \in QrPayments => status'[EventOf[x]] = "completed")
    BY <2>1, <2>2, <2>4
  <2> QED BY <1>t, <2>1, <2>2, <2>4, <2>8, <2>9, <2>10, <2>11, <2>12, <2>13, <2>14, <2>15,
      AttemptsKept
<1>13. ASSUME NEW w \in Workers, AcquireLock(w) PROVE WebhookIntakeIInv'
  <2>1. PICK e \in Events : e = worker[w].event /\ worker[w] \in HookWork
             /\ worker[w].at = "start"
    BY <1>w, <1>h, <1>13 DEF AcquireLock, At
  <2>2. PICK h \in HookWork : worker' = [worker EXCEPT ![w] = h] /\ h.at = "locked" /\ h.event = e
    <3>1. \A g \in HookWork : LET f == [g EXCEPT !.at = "locked"] IN f \in HookWork
                              /\ f.at = "locked" /\ f.event = g.event
      BY DEF HookWork
    <3>2. worker' = [worker EXCEPT ![w] = [worker[w] EXCEPT !.at = "locked"]]
      BY <1>w, <1>13 DEF AcquireLock
    <3> QED BY <2>1, <3>1, <3>2
  <2>3. lock' \in SUBSET Payments
        /\ UNCHANGED <<status, sent, marked, queue, background, stranded, handled, misses, restarts>>
    BY <1>t, <1>a, <1>13, <2>1 DEF AcquireLock, WebhookIntakeTypeOK
  <2>8. WebhookIntakeTypeOK'
    <3>1. worker' \in [Workers -> {Resting} \cup HookWork]
      BY <1>w, <2>1, <2>2, <2>3
    <3> QED BY <1>t, <1>a, <2>1, <2>2, <2>3, <3>1 DEF WebhookIntakeTypeOK, HookWork
  <2>9. \A x \in Events : x \in handled' \/ Tries(x)' >= Tries(x)
    <3> SUFFICES ASSUME NEW x \in Events PROVE x \in handled' \/ Tries(x)' >= Tries(x)
      OBVIOUS
    <3>1. Cardinality(Trying(x))' = (Cardinality(Trying(x)) - (IF TriesAs(worker[w], x) THEN 1 ELSE 0))
                                      + (IF TriesAs(h, x) THEN 1 ELSE 0)
      BY <1>t, <2>1, <2>2, <2>3, OneWorker
    <3>2. Cardinality(Trying(x)) \in Nat /\ misses[x] \in Nat /\ queue[x] \in Nat
          /\ background[x] \in Nat
      BY <1>t, <1>n DEF WebhookIntakeTypeOK
    <3> QED BY <1>t, <1>r, <2>1, <2>2, <2>3, <3>1, <3>2 DEF Tries, TriesAs, WebhookIntakeTypeOK
  <2>10. \A x \in Workers : At(x, "ended")' =>
           \/ At(x, "ended") /\ worker'[x] = worker[x]
           \/ worker'[x].event \in handled' \/ misses'[worker'[x].event] >= 1
    BY <1>t, <1>w, <1>r, <2>1, <2>2, <2>3 DEF At, WebhookIntakeTypeOK
  <2>11. handled \in SUBSET handled' /\ \A x \in Events : misses[x] <= misses'[x]
    BY <1>t, <2>1, <2>2, <2>3 DEF WebhookIntakeTypeOK
  <2>12. \A p \in Payments : /\ status[p] = "completed" => status'[p] = "completed"
                             /\ status[p] # "pending" => status'[p] # "pending"
    BY <1>t, <2>1, <2>2, <2>3 DEF WebhookIntakeTypeOK
  <2>14. \A x \in marked' : x \in marked \/ Reflected(x)' \/ Tries(x)' >= Enough(x)'
    BY <2>1, <2>2, <2>3
  <2>15. stranded \in SUBSET stranded'
    BY <2>1, <2>2, <2>3
  <2>13. \A x \in handled' : x \in handled \/ x \in Mismatched
                               \/ (x \in Successes /\ EventOf[x] \in QrPayments => status'[EventOf[x]] = "completed")
    BY <2>1, <2>2, <2>3
  <2> QED BY <1>t, <2>1, <2>2, <2>3, <2>8, <2>9, <2>10, <2>11, <2>12, <2>13, <2>14, <2>15,
      AttemptsKept
<1>14. ASSUME NEW w \in Workers, AnswerDirect(w) PROVE WebhookIntakeIInv'
  <2>1. PICK e \in Events : e = worker[w].event /\ worker[w] \in HookWork
             /\ worker[w].at = "ended"
    BY <1>w, <1>h, <1>14 DEF AnswerDirect, At
  <2>2. PICK h \in HookWork : worker' = [worker EXCEPT ![w] = h] /\ h.at = "start" /\ h.event = e
    <3>1. \A g \in HookWork : LET f == [g EXCEPT !.op = "direct", !.at = "start"]
                             IN  f \in HookWork /\ f.at = "start" /\ f.event = g.event
      BY DEF HookWork
    <3>2. worker' = [worker EXCEPT ![w] = [worker[w] EXCEPT !.op = "direct", !.at = "start"]]
      BY <1>w, <1>14 DEF AnswerDirect
    <3> QED BY <2>1, <3>1, <3>2
  <2>3. UNCHANGED <<status, lock, sent, marked, queue, background, stranded, handled, misses, restarts>>
    BY <1>14, <2>1 DEF AnswerDirect
  <2>8. WebhookIntakeTypeOK'
    <3>1. worker' \in [Workers -> {Resting} \cup HookWork]
      BY <1>w, <2>1, <2>2, <2>3
    <3> QED BY <1>t, <1>a, <2>1, <2>2, <2>3, <3>1 DEF WebhookIntakeTypeOK, HookWork
  <2>9. \A x \in Events : x \in handled' \/ Tries(x)' >= Tries(x)
    <3> SUFFICES ASSUME NEW x \in Events PROVE x \in handled' \/ Tries(x)' >= Tries(x)
      OBVIOUS
    <3>1. Cardinality(Trying(x))' = (Cardinality(Trying(x)) - (IF TriesAs(worker[w], x) THEN 1 ELSE 0))
                                      + (IF TriesAs(h, x) THEN 1 ELSE 0)
      BY <1>t, <2>1, <2>2, <2>3, OneWorker
    <3>2. Cardinality(Trying(x)) \in Nat /\ misses[x] \in Nat /\ queue[x] \in Nat
          /\ background[x] \in Nat
      BY <1>t, <1>n DEF WebhookIntakeTypeOK
    <3> QED BY <1>t, <1>r, <2>1, <2>2, <2>3, <3>1, <3>2 DEF Tries, TriesAs, WebhookIntakeTypeOK
  <2>10. \A x \in Workers : At(x, "ended")' =>
           \/ At(x, "ended") /\ worker'[x] = worker[x]
           \/ worker'[x].event \in handled' \/ misses'[worker'[x].event] >= 1
    BY <1>t, <1>w, <1>r, <2>1, <2>2, <2>3 DEF At, WebhookIntakeTypeOK
  <2>11. handled \in SUBSET handled' /\ \A x \in Events : misses[x] <= misses'[x]
    BY <1>t, <2>1, <2>2, <2>3 DEF WebhookIntakeTypeOK
  <2>12. \A p \in Payments : /\ status[p] = "completed" => status'[p] = "completed"
                             /\ status[p] # "pending" => status'[p] # "pending"
    BY <1>t, <2>1, <2>2, <2>3 DEF WebhookIntakeTypeOK
  <2>14. \A x \in marked' : x \in marked \/ Reflected(x)' \/ Tries(x)' >= Enough(x)'
    BY <2>1, <2>2, <2>3
  <2>15. stranded \in SUBSET stranded'
    BY <2>1, <2>2, <2>3
  <2>13. \A x \in handled' : x \in handled \/ x \in Mismatched
                               \/ (x \in Successes /\ EventOf[x] \in QrPayments => status'[EventOf[x]] = "completed")
    BY <2>1, <2>2, <2>3
  <2> QED BY <1>t, <2>1, <2>2, <2>3, <2>8, <2>9, <2>10, <2>11, <2>12, <2>13, <2>14, <2>15,
      AttemptsKept
<1>15. ASSUME NEW w \in Workers, AnswerProcessed(w) PROVE WebhookIntakeIInv'
  <2>1. PICK e \in Events : e = worker[w].event /\ worker[w] \in HookWork
             /\ worker[w].at = "ended"
    BY <1>w, <1>h, <1>15 DEF AnswerProcessed, At
  <2>2. PICK h : h = Resting /\ h \in {Resting} \cup HookWork
             /\ worker' = [worker EXCEPT ![w] = h]
    BY <1>15 DEF AnswerProcessed, Answered
  <2>3. /\ marked' = marked \cup {e} /\ marked' \subseteq Events /\ Final(e)
        /\ UNCHANGED <<status, lock, sent, queue, background, stranded, handled, misses, restarts>>
    BY <1>t, <1>15, <2>1 DEF AnswerProcessed, Remember, WebhookIntakeTypeOK
  <2>8. WebhookIntakeTypeOK'
    <3>1. worker' \in [Workers -> {Resting} \cup HookWork]
      BY <1>w, <2>1, <2>2, <2>3
    <3> QED BY <1>t, <1>a, <2>1, <2>2, <2>3, <3>1 DEF WebhookIntakeTypeOK, HookWork
  <2>9. \A x \in Events : x \in handled' \/ Tries(x)' >= Tries(x)
    <3> SUFFICES ASSUME NEW x \in Events PROVE x \in handled' \/ Tries(x)' >= Tries(x)
      OBVIOUS
    <3>1. Cardinality(Trying(x))' = (Cardinality(Trying(x)) - (IF TriesAs(worker[w], x) THEN 1 ELSE 0))
                                      + (IF TriesAs(h, x) THEN 1 ELSE 0)
      BY <1>t, <2>1, <2>2, <2>3, OneWorker
    <3>2. Cardinality(Trying(x)) \in Nat /\ misses[x] \in Nat /\ queue[x] \in Nat
          /\ background[x] \in Nat
      BY <1>t, <1>n DEF WebhookIntakeTypeOK
    <3> QED BY <1>t, <1>r, <2>1, <2>2, <2>3, <3>1, <3>2 DEF Tries, TriesAs, WebhookIntakeTypeOK
  <2>10. \A x \in Workers : At(x, "ended")' =>
           \/ At(x, "ended") /\ worker'[x] = worker[x]
           \/ worker'[x].event \in handled' \/ misses'[worker'[x].event] >= 1
    BY <1>t, <1>w, <1>r, <2>1, <2>2, <2>3 DEF At, WebhookIntakeTypeOK
  <2>11. handled \in SUBSET handled' /\ \A x \in Events : misses[x] <= misses'[x]
    BY <1>t, <2>1, <2>2, <2>3 DEF WebhookIntakeTypeOK
  <2>12. \A p \in Payments : /\ status[p] = "completed" => status'[p] = "completed"
                             /\ status[p] # "pending" => status'[p] # "pending"
    BY <1>t, <2>1, <2>2, <2>3 DEF WebhookIntakeTypeOK
  <2>14. \A x \in marked' : x \in marked \/ Reflected(x)' \/ Tries(x)' >= Enough(x)'
    BY <1>a, <2>3 DEF Reflected, Final
  <2>15. stranded \in SUBSET stranded'
    BY <2>1, <2>2, <2>3
  <2>13. \A x \in handled' : x \in handled \/ x \in Mismatched
                               \/ (x \in Successes /\ EventOf[x] \in QrPayments => status'[EventOf[x]] = "completed")
    BY <2>1, <2>2, <2>3
  <2> QED BY <1>t, <2>1, <2>2, <2>3, <2>8, <2>9, <2>10, <2>11, <2>12, <2>13, <2>14, <2>15,
      AttemptsKept
<1>16. ASSUME NEW w \in Workers, AnswerQueued(w) PROVE WebhookIntakeIInv'
  <2>1. PICK e \in Events : e = worker[w].event /\ worker[w] \in HookWork
             /\ worker[w].at = "ended"
    BY <1>w, <1>h, <1>16 DEF AnswerQueued, At
  <2>2. PICK h : h = Resting /\ h \in {Resting} \cup HookWork
             /\ worker' = [worker EXCEPT ![w] = h]
    BY <1>16 DEF AnswerQueued, Answered
  <2>3. /\ marked' = marked \cup {e} /\ marked' \subseteq Events
        /\ background' = [background EXCEPT ![e] = @ + 1]
        /\ \/ (queue' = [queue EXCEPT ![e] = @ + 1] /\ UNCHANGED stranded)
           \/ (stranded' = stranded \cup {e} /\ UNCHANGED queue)
        /\ UNCHANGED <<status, lock, sent, handled, misses, restarts>>
    BY <1>t, <1>16, <2>1 DEF AnswerQueued, Remember, WebhookIntakeTypeOK
  <2>4. Reflected(e) \/ misses[e] >= 1
    BY <1>t, <1>16, <2>1 DEF TriedOrReflected, TriedBy, AnswerQueued
  <2>5. Reflected(e)' \/ Tries(e)' >= Enough(e)'
    <3>1. CASE Reflected(e)
      BY <2>3, <3>1 DEF Reflected
    <3>2. CASE misses[e] >= 1
      <4>1. (Cardinality(Trying(e)) \in Nat)'
        BY WebhookIntakeAssumption, FS_Subset, FS_CardinalityType DEF Trying
      <4>2. misses[e] \in Nat /\ queue[e] \in Nat /\ background[e] \in Nat
        BY <1>t DEF WebhookIntakeTypeOK
      <4>3. misses'[e] = misses[e] /\ background'[e] = background[e] + 1
            /\ (queue'[e] = queue[e] + 1 \/ (queue'[e] = queue[e] /\ e \in stranded'))
        BY <1>t, <2>3 DEF WebhookIntakeTypeOK
      <4> QED BY <3>2, <4>1, <4>2, <4>3 DEF Tries, Enough
    <3> QED BY <2>4, <3>1, <3>2
  <2>8. WebhookIntakeTypeOK'
    <3>1. worker' \in [Workers -> {Resting} \cup HookWork]
      BY <1>w, <2>1, <2>2, <2>3
    <3> QED BY <1>t, <1>a, <2>1, <2>2, <2>3, <3>1 DEF WebhookIntakeTypeOK, HookWork
  <2>9. \A x \in Events : x \in handled' \/ Tries(x)' >= Tries(x)
    <3> SUFFICES ASSUME NEW x \in Events PROVE x \in handled' \/ Tries(x)' >= Tries(x)
      OBVIOUS
    <3>1. Cardinality(Trying(x))' = (Cardinality(Trying(x)) - (IF TriesAs(worker[w], x) THEN 1 ELSE 0))
                                      + (IF TriesAs(h, x) THEN 1 ELSE 0)
      BY <1>t, <2>1, <2>2, <2>3, OneWorker
    <3>2. Cardinality(Trying(x)) \in Nat /\ misses[x] \in Nat /\ queue[x] \in Nat
          /\ background[x] \in Nat
      BY <1>t, <1>n DEF WebhookIntakeTypeOK
    <3> QED BY <1>t, <1>r, <2>1, <2>2, <2>3, <3>1, <3>2 DEF Tries, TriesAs, WebhookIntakeTypeOK
  <2>10. \A x \in Workers : At(x, "ended")' =>
           \/ At(x, "ended") /\ worker'[x] = worker[x]
           \/ worker'[x].event \in handled' \/ misses'[worker'[x].event] >= 1
    BY <1>t, <1>w, <1>r, <2>1, <2>2, <2>3 DEF At, WebhookIntakeTypeOK
  <2>11. handled \in SUBSET handled' /\ \A x \in Events : misses[x] <= misses'[x]
    BY <1>t, <2>1, <2>2, <2>3 DEF WebhookIntakeTypeOK
  <2>12. \A p \in Payments : /\ status[p] = "completed" => status'[p] = "completed"
                             /\ status[p] # "pending" => status'[p] # "pending"
    BY <1>t, <2>1, <2>2, <2>3 DEF WebhookIntakeTypeOK
  <2>14. \A x \in marked' : x \in marked \/ Reflected(x)' \/ Tries(x)' >= Enough(x)'
    BY <2>3, <2>5
  <2>15. stranded \in SUBSET stranded'
    BY <2>1, <2>2, <2>3
  <2>13. \A x \in handled' : x \in handled \/ x \in Mismatched
                               \/ (x \in Successes /\ EventOf[x] \in QrPayments => status'[EventOf[x]] = "completed")
    BY <2>1, <2>2, <2>3
  <2> QED BY <1>t, <2>1, <2>2, <2>3, <2>8, <2>9, <2>10, <2>11, <2>12, <2>13, <2>14, <2>15,
      AttemptsKept
<1>17. ASSUME NEW e \in Events, RejectMismatch(e) PROVE WebhookIntakeIInv'
  <2>1. /\ e \in Mismatched /\ sent' = [sent EXCEPT ![e] = @ + 1] /\ handled' = handled \cup {e}
        /\ UNCHANGED <<status, lock, marked, queue, background, stranded, worker, misses, restarts>>
    BY <1>17 DEF RejectMismatch
  <2>8. WebhookIntakeTypeOK'
    BY <1>t, <1>a, <2>1 DEF WebhookIntakeTypeOK, HookWork
  <2>9. \A x \in Events : x \in handled' \/ Tries(x)' >= Tries(x)
    BY <1>t, <1>n, <2>1 DEF Tries, Trying, WebhookIntakeTypeOK
  <2>10. \A x \in Workers : At(x, "ended")' =>
           \/ (At(x, "ended") /\ worker'[x] = worker[x])
           \/ worker'[x].event \in handled' \/ misses'[worker'[x].event] >= 1
    BY <2>1 DEF At
  <2>11. handled \in SUBSET handled' /\ \A x \in Events : misses[x] <= misses'[x]
    BY <1>t, <2>1 DEF WebhookIntakeTypeOK
  <2>12. \A p \in Payments : /\ status[p] = "completed" => status'[p] = "completed"
                             /\ status[p] # "pending" => status'[p] # "pending"
    BY <1>t, <2>1 DEF WebhookIntakeTypeOK
  <2>14. \A x \in marked' : x \in marked \/ Reflected(x)' \/ Tries(x)' >= Enough(x)'
    BY <2>1
  <2>15. stranded \in SUBSET stranded'
    BY <2>1
  <2>13. \A x \in handled' : x \in handled \/ x \in Mismatched
                               \/ (x \in Successes /\ EventOf[x] \in QrPayments => status'[EventOf[x]] = "completed")
    BY <2>1
  <2> QED BY <1>t, <2>1, <2>8, <2>9, <2>10, <2>11, <2>12, <2>13, <2>14, <2>15, AttemptsKept
<1>18. ASSUME NEW r \in Payments, LockExpires(r) PROVE WebhookIntakeIInv'
  <2>1. /\ lock' \in SUBSET Payments
        /\ UNCHANGED <<status, sent, marked, queue, background, stranded, worker, handled, misses, restarts>>
    BY <1>t, <1>18 DEF LockExpires, WebhookIntakeTypeOK
  <2>8. WebhookIntakeTypeOK'
    BY <1>t, <1>a, <2>1 DEF WebhookIntakeTypeOK, HookWork
  <2>9. \A x \in Events : x \in handled' \/ Tries(x)' >= Tries(x)
    BY <1>t, <1>n, <2>1 DEF Tries, Trying, WebhookIntakeTypeOK
  <2>10. \A x \in Workers : At(x, "ended")' =>
           \/ (At(x, "ended") /\ worker'[x] = worker[x])
           \/ worker'[x].event \in handled' \/ misses'[worker'[x].event] >= 1
    BY <2>1 DEF At
  <2>11. handled \in SUBSET handled' /\ \A x \in Events : misses[x] <= misses'[x]
    BY <1>t, <2>1 DEF WebhookIntakeTypeOK
  <2>12. \A p \in Payments : /\ status[p] = "completed" => status'[p] = "completed"
                             /\ status[p] # "pending" => status'[p] # "pending"
    BY <1>t, <2>1 DEF WebhookIntakeTypeOK
  <2>14. \A x \in marked' : x \in marked \/ Reflected(x)' \/ Tries(x)' >= Enough(x)'
    BY <2>1
  <2>15. stranded \in SUBSET stranded'
    BY <2>1
  <2>13. \A x \in handled' : x \in handled \/ x \in Mismatched
                               \/ (x \in Successes /\ EventOf[x] \in QrPayments => status'[EventOf[x]] = "completed")
    BY <2>1
  <2> QED BY <1>t, <2>1, <2>8, <2>9, <2>10, <2>11, <2>12, <2>13, <2>14, <2>15, AttemptsKept
<1>19. ASSUME UNCHANGED hookVars PROVE WebhookIntakeIInv'
  <2>1. UNCHANGED <<status, lock, sent, marked, queue, background, stranded, worker, handled, misses, restarts>>
    BY <1>19 DEF hookVars
  <2>8. WebhookIntakeTypeOK'
    BY <1>t, <1>a, <2>1 DEF WebhookIntakeTypeOK, HookWork
  <2>9. \A x \in Events : x \in handled' \/ Tries(x)' >= Tries(x)
    BY <1>t, <1>n, <2>1 DEF Tries, Trying, WebhookIntakeTypeOK
  <2>10. \A x \in Workers : At(x, "ended")' =>
           \/ (At(x, "ended") /\ worker'[x] = worker[x])
           \/ worker'[x].event \in handled' \/ misses'[worker'[x].event] >= 1
    BY <2>1 DEF At
  <2>11. handled \in SUBSET handled' /\ \A x \in Events : misses[x] <= misses'[x]
    BY <1>t, <2>1 DEF WebhookIntakeTypeOK
  <2>12. \A p \in Payments : /\ status[p] = "completed" => status'[p] = "completed"
                             /\ status[p] # "pending" => status'[p] # "pending"
    BY <1>t, <2>1 DEF WebhookIntakeTypeOK
  <2>14. \A x \in marked' : x \in marked \/ Reflected(x)' \/ Tries(x)' >= Enough(x)'
    BY <2>1
  <2>15. stranded \in SUBSET stranded'
    BY <2>1
  <2>13. \A x \in handled' : x \in handled \/ x \in Mismatched
                               \/ (x \in Successes /\ EventOf[x] \in QrPayments => status'[EventOf[x]] = "completed")
    BY <2>1
  <2> QED BY <1>t, <2>1, <2>8, <2>9, <2>10, <2>11, <2>12, <2>13, <2>14, <2>15, AttemptsKept
<1>20. ASSUME HookRestart PROVE WebhookIntakeIInv'
  <2> DEFINE Lost(x) == {w \in Workers : worker[w] # Resting /\ worker[w].event = x /\ worker[w].op # "job"}
             Jobs(x) == {w \in Workers : worker[w] # Resting /\ worker[w].event = x /\ worker[w].op = "job"}
  <2>0. \A x : /\ IsFiniteSet(Lost(x)) /\ Cardinality(Lost(x)) \in Nat
              /\ IsFiniteSet(Jobs(x)) /\ Cardinality(Jobs(x)) \in Nat
    BY WebhookIntakeAssumption, FS_Subset, FS_CardinalityType
  <2>1. /\ misses' = [x \in Events |-> misses[x] + background[x] + Cardinality(Lost(x))]
        /\ queue' = [x \in Events |-> queue[x] + Cardinality(Jobs(x))]
        /\ background' = [x \in Events |-> 0] /\ worker' = [x \in Workers |-> Resting]
        /\ restarts' = restarts + 1
        /\ UNCHANGED <<status, lock, sent, marked, stranded, handled>>
    BY <1>20 DEF HookRestart
  <2>2. \A x \in Events : Cardinality(Trying(x)) <= Cardinality(Lost(x)) + Cardinality(Jobs(x))
    <3> SUFFICES ASSUME NEW x \in Events
                 PROVE  Cardinality(Trying(x)) <= Cardinality(Lost(x)) + Cardinality(Jobs(x))
      OBVIOUS
    <3>1. Trying(x) \subseteq Lost(x) \cup Jobs(x)
      BY DEF Trying, TriesAs
    <3>2. PICK A : A = Lost(x)
      OBVIOUS
    <3>3. PICK B : B = Jobs(x)
      OBVIOUS
    <3>4. /\ IsFiniteSet(A) /\ Cardinality(A) \in Nat /\ IsFiniteSet(B) /\ Cardinality(B) \in Nat
      BY <2>0, <3>2, <3>3
    <3>5. /\ IsFiniteSet(A \cup B) /\ IsFiniteSet(A \cap B)
          /\ Cardinality(A \cup B) = Cardinality(A) + Cardinality(B) - Cardinality(A \cap B)
      BY <3>4, FS_Union, FS_Intersection
    <3>6. Cardinality(A \cap B) \in Nat /\ Cardinality(A \cup B) \in Nat
      BY <3>5, FS_CardinalityType
    <3>7. Cardinality(Trying(x)) <= Cardinality(A \cup B)
      <4>1. Trying(x) \subseteq A \cup B
        BY <3>1, <3>2, <3>3
      <4> QED BY <3>5, <4>1, FS_Subset
    <3> HIDE DEF Lost, Jobs
    <3> QED BY <1>n, <3>2, <3>3, <3>4, <3>5, <3>6, <3>7
  <2> HIDE DEF Lost, Jobs
  <2>8. WebhookIntakeTypeOK'
    BY <1>t, <1>a, <2>0, <2>1 DEF WebhookIntakeTypeOK, HookWork
  <2>9. \A x \in Events : x \in handled' \/ Tries(x)' >= Tries(x)
    <3> SUFFICES ASSUME NEW x \in Events PROVE Tries(x)' >= Tries(x)
      OBVIOUS
    <3>1. Cardinality(Trying(x))' \in Nat
      <4>1. (Cardinality(Trying(x)) \in Nat)'
        BY WebhookIntakeAssumption, FS_Subset, FS_CardinalityType DEF Trying
      <4> QED BY <4>1
    <3>2. Cardinality(Trying(x)) \in Nat /\ misses[x] \in Nat /\ queue[x] \in Nat
          /\ background[x] \in Nat
      BY <1>t, <1>n DEF WebhookIntakeTypeOK
    <3> QED BY <2>0, <2>1, <2>2, <3>1, <3>2 DEF Tries
  <2>10. \A x \in Workers : At(x, "ended")' =>
           \/ (At(x, "ended") /\ worker'[x] = worker[x])
           \/ worker'[x].event \in handled' \/ misses'[worker'[x].event] >= 1
    BY <2>1 DEF At
  <2>11. handled \in SUBSET handled' /\ \A x \in Events : misses[x] <= misses'[x]
    BY <1>t, <2>0, <2>1 DEF WebhookIntakeTypeOK
  <2>12. \A p \in Payments : /\ status[p] = "completed" => status'[p] = "completed"
                             /\ status[p] # "pending" => status'[p] # "pending"
    BY <1>t, <2>0, <2>1 DEF WebhookIntakeTypeOK
  <2>14. \A x \in marked' : x \in marked \/ Reflected(x)' \/ Tries(x)' >= Enough(x)'
    BY <2>0, <2>1
  <2>15. stranded \in SUBSET stranded'
    BY <2>0, <2>1
  <2>13. \A x \in handled' : x \in handled \/ x \in Mismatched
                               \/ (x \in Successes /\ EventOf[x] \in QrPayments => status'[EventOf[x]] = "completed")
    BY <2>0, <2>1
  <2> QED BY <1>t, <2>0, <2>1, <2>8, <2>9, <2>10, <2>11, <2>12, <2>13, <2>14, <2>15,
      AttemptsKept
<1> QED BY <1>1, <1>2, <1>3, <1>4, <1>5, <1>6, <1>7, <1>8, <1>9, <1>10, <1>11, <1>12, <1>13,
    <1>14, <1>15, <1>16, <1>17, <1>18, <1>19, <1>20 DEF NextWebhookIntake, Work

\* An event remembered as processed is reflected in the rows, still to be tried,
\* or was tried three times (twice when Bull refused it), through lock
\* contention, errors and restarts; and a QR payment outlasts the failures
\* reported around it.
THEOREM RetriedBeforeWrittenOff == WebhookIntakeSpec => []WebhookIntakeInv
<1>1. InitWebhookIntake => WebhookIntakeIInv
  <2> SUFFICES ASSUME InitWebhookIntake PROVE WebhookIntakeIInv
    OBVIOUS
  <2>1. WebhookIntakeTypeOK
    BY DEF InitWebhookIntake, WebhookIntakeTypeOK
  <2> QED BY <2>1 DEF InitWebhookIntake, WebhookIntakeIInv, TriedOrReflected, TriedEnough,
      PaymentWins, At
<1>2. WebhookIntakeIInv => WebhookIntakeInv
  <2> SUFFICES ASSUME WebhookIntakeIInv, NEW e \in marked, ~Reflected(e), ~Underway(e)
               PROVE  misses[e] >= IF e \in stranded THEN 2 ELSE 3
    BY DEF WebhookIntakeIInv, WebhookIntakeInv, WrittenOffAfterRetries
  <2>1. e \in Events /\ Tries(e) >= Enough(e)
    BY DEF WebhookIntakeIInv, WebhookIntakeTypeOK, TriedEnough
  <2>2. misses[e] \in Nat /\ queue[e] \in Nat /\ background[e] \in Nat
    BY <2>1 DEF WebhookIntakeIInv, WebhookIntakeTypeOK
  <2>3. Trying(e) = {}
    BY DEF Underway, Trying, TriesAs
  <2>4. Cardinality(Trying(e)) = 0
    BY <2>3, FS_EmptySet
  <2> QED BY <2>1, <2>2, <2>4 DEF Underway, Tries, Enough
<1> QED BY <1>1, <1>2, WebhookIntakeInductive, PTL DEF WebhookIntakeSpec

----------------------------------------------------------------------------
(* Invoices and payment links.                                             *)

CommerceSpec == InitCommerce /\ [][NextCommerce]_shopVars

\* The places a handler can be in.
Services ==
  {AtRest}
    \cup [op : {"pay", "claimed", "transferred"}, id : Invoices, was : PAYABLE]
    \cup [op : {"pay", "claimed", "transferred"}, id : Links]
    \cup [op : {"start"}, id : Checkouts]
    \cup [op : {"reconcile", "settle", "release"}, id : Checkouts, was : LookedUp,
          saw : Arrived \cup {"pending", "failed"}]

\* A handler that has claimed an invoice or a link and has still to transfer.
Claimed(s, x) == serving[s].op = "claimed" /\ serving[s].id = x

\* Outside what was left unrecorded, an invoice that is claimed is shown as paid
\* and has one claimant, who has still to transfer.
InvoicesFit ==
  \A i \in Invoices \ unrecorded :
    /\ applied[i] <= 1 /\ (applied[i] = 1 => invoice[i] = "paid")
    /\ \A s \in Servers : Claimed(s, i) => invoice[i] = "paid" /\ applied[i] = 0
    /\ \A s, t \in Servers : Claimed(s, i) /\ Claimed(t, i) => s = t

\* A handler that is opening a checkout.
Starting(s, k) == serving[s].op = "start" /\ serving[s].id = k

\* A checkout is reserved while the one handler that opens it is at work.
StartsFit ==
  /\ \A s \in Servers, k \in Checkouts : Starting(s, k) => webPay[k] = "reserved"
  /\ \A s, t \in Servers, k \in Checkouts : Starting(s, k) /\ Starting(t, k) => s = t

\* The states of a checkout that keep a use of its link.
Open == {"reserved", "pending"}
OpenFor(l) == {k \in Checkouts : WebFor[k] = l /\ webPay[k] \in Open}

\* Handlers that keep a use of a link: they have claimed it, or they have the
\* checkout that did and are to settle it or to give the use back.
Takes(h, l) ==
  \/ h.op = "claimed" /\ h.id = l
  \/ h.op \in {"settle", "release"} /\ h.was = "pending" /\ WebFor[h.id] = l
TakenBy(l) == {s \in Servers : Takes(serving[s], l)}

\* What was paid through a link, its open checkouts and the handlers that keep a
\* use are all counted as uses, and uses are within the limit.
LinksFit ==
  \A l \in Links \ unrecorded :
    /\ applied[l] + Cardinality(OpenFor(l)) + Cardinality(TakenBy(l)) <= link[l].uses
    /\ link[l].uses <= MaxUses[l]

\* Collected on the web for x, and nowhere accounted for.
Loose(x) ==
  {k \in Checkouts : /\ WebFor[k] = x /\ webPay[k] = "completed"
                     /\ ~InHand(k) /\ k \notin exceptions \cup unrecorded}

\* Payments collected on the web that are nowhere else accounted for were
\* applied.
MoneyFits == \A x \in (Invoices \cup Links) \ unrecorded : Cardinality(Loose(x)) <= applied[x]

\* Rows and handlers are what the code makes them.
Typed == CommerceTypeOK /\ serving \in [Servers -> Services]

CommerceIInv == Typed /\ InvoicesFit /\ StartsFit /\ LinksFit /\ MoneyFits

\* A condition as a number.
One(b) == IF b THEN 1 ELSE 0

\* The open checkouts of a link when one of them changes.
LEMMA OpenForChange ==
  ASSUME Typed, NEW k \in Checkouts, NEW v, webPay' = [webPay EXCEPT ![k] = v], NEW l \in Links
  PROVE  /\ Cardinality(OpenFor(l)) \in Nat /\ Cardinality(OpenFor(l)') \in Nat
         /\ Cardinality(OpenFor(l)')
              = Cardinality(OpenFor(l)) - One(WebFor[k] = l /\ webPay[k] \in Open)
                  + One(WebFor[k] = l /\ v \in Open)
<1>1. IsFiniteSet(Checkouts) /\ DOMAIN webPay = Checkouts
  BY CommerceAssumption DEF Typed, CommerceTypeOK
<1> DEFINE rest == OpenFor(l) \ {k}
<1>2. IsFiniteSet(OpenFor(l)) /\ IsFiniteSet(rest) /\ k \notin rest
  BY <1>1, FS_Subset DEF OpenFor
<1>3. /\ OpenFor(l) = IF WebFor[k] = l /\ webPay[k] \in Open THEN rest \cup {k} ELSE rest
      /\ OpenFor(l)' = IF WebFor[k] = l /\ v \in Open THEN rest \cup {k} ELSE rest
  BY <1>1 DEF OpenFor
<1>4. Cardinality(rest) \in Nat /\ Cardinality(rest \cup {k}) = Cardinality(rest) + 1
  BY <1>2, FS_CardinalityType, FS_AddElement
<1> HIDE DEF rest
<1>5. Cardinality(OpenFor(l)) = Cardinality(rest) + One(WebFor[k] = l /\ webPay[k] \in Open)
  BY <1>3, <1>4 DEF One
<1>6. Cardinality(OpenFor(l)') = Cardinality(rest) + One(WebFor[k] = l /\ v \in Open)
  BY <1>3, <1>4 DEF One
<1>7. One(WebFor[k] = l /\ webPay[k] \in Open) \in Nat /\ One(WebFor[k] = l /\ v \in Open) \in Nat
  BY DEF One
<1> QED BY <1>4, <1>5, <1>6, <1>7

\* The handlers that keep a use of a link when one of them changes.
LEMMA TakenByChange ==
  ASSUME Typed, NEW s \in Servers, NEW h, serving' = [serving EXCEPT ![s] = h], NEW l \in Links
  PROVE  /\ Cardinality(TakenBy(l)) \in Nat /\ Cardinality(TakenBy(l)') \in Nat
         /\ Cardinality(TakenBy(l)')
              = Cardinality(TakenBy(l)) - One(Takes(serving[s], l)) + One(Takes(h, l))
<1>1. IsFiniteSet(Servers) /\ DOMAIN serving = Servers
  BY CommerceAssumption DEF Typed, CommerceTypeOK
<1> DEFINE rest == TakenBy(l) \ {s}
<1>2. IsFiniteSet(TakenBy(l)) /\ IsFiniteSet(rest) /\ s \notin rest
  BY <1>1, FS_Subset DEF TakenBy
<1>3. /\ TakenBy(l) = IF Takes(serving[s], l) THEN rest \cup {s} ELSE rest
      /\ TakenBy(l)' = IF Takes(h, l) THEN rest \cup {s} ELSE rest
  BY <1>1 DEF TakenBy, Takes
<1>4. Cardinality(rest) \in Nat /\ Cardinality(rest \cup {s}) = Cardinality(rest) + 1
  BY <1>2, FS_CardinalityType, FS_AddElement
<1> HIDE DEF rest
<1>5. Cardinality(TakenBy(l)) = Cardinality(rest) + One(Takes(serving[s], l))
  BY <1>3, <1>4 DEF One
<1>6. Cardinality(TakenBy(l)') = Cardinality(rest) + One(Takes(h, l))
  BY <1>3, <1>4 DEF One
<1>7. One(Takes(serving[s], l)) \in Nat /\ One(Takes(h, l)) \in Nat
  BY DEF One
<1> QED BY <1>4, <1>5, <1>6, <1>7

\* A handler's step that changes no checkout keeps a link's uses, if it takes and
\* gives what it should.
LEMMA LinksFitCall ==
  ASSUME Typed, LinksFit, NEW s \in Servers, NEW h, serving' = [serving EXCEPT ![s] = h],
         webPay' = webPay, unrecorded \subseteq unrecorded', CommerceTypeOK',
         \A l \in Links \ unrecorded' :
           /\ (applied'[l] - applied[l]) + One(Takes(h, l)) - One(Takes(serving[s], l))
                <= link'[l].uses - link[l].uses
           /\ link'[l].uses <= MaxUses[l]
  PROVE  LinksFit'
<1> SUFFICES ASSUME NEW l \in Links, l \notin unrecorded'
             PROVE  /\ applied'[l] + Cardinality(OpenFor(l)') + Cardinality(TakenBy(l)') <= link'[l].uses
                    /\ link'[l].uses <= MaxUses[l]
  BY DEF LinksFit
<1>1. OpenFor(l)' = OpenFor(l) /\ Cardinality(OpenFor(l)) \in Nat
  <2>1. IsFiniteSet(OpenFor(l))
    BY CommerceAssumption, FS_Subset DEF OpenFor
  <2> QED BY <2>1, FS_CardinalityType DEF OpenFor
<1>2. /\ Cardinality(TakenBy(l)) \in Nat /\ Cardinality(TakenBy(l)') \in Nat
      /\ Cardinality(TakenBy(l)')
           = Cardinality(TakenBy(l)) - One(Takes(serving[s], l)) + One(Takes(h, l))
  BY TakenByChange
<1>3. /\ applied[l] \in Nat /\ applied'[l] \in Nat /\ link[l].uses \in Int
         /\ link'[l].uses \in Int
      /\ One(Takes(h, l)) \in {0, 1} /\ One(Takes(serving[s], l)) \in {0, 1} /\ MaxUses[l] \in Nat
  BY CommerceAssumption DEF Typed, CommerceTypeOK, One
<1>4. applied[l] + Cardinality(OpenFor(l)) + Cardinality(TakenBy(l)) <= link[l].uses
  BY DEF LinksFit
<1> QED BY <1>1, <1>2, <1>3, <1>4

\* The same of a step that changes a checkout as well.
LEMMA LinksFitCheckout ==
  ASSUME Typed, LinksFit, NEW s \in Servers, NEW h, serving' = [serving EXCEPT ![s] = h],
         NEW k \in Checkouts, NEW v, webPay' = [webPay EXCEPT ![k] = v],
         unrecorded \subseteq unrecorded', CommerceTypeOK', applied' = applied,
         \A l \in Links \ unrecorded' :
           /\ One(Takes(h, l)) - One(Takes(serving[s], l))
                + One(WebFor[k] = l /\ v \in Open) - One(WebFor[k] = l /\ webPay[k] \in Open)
                <= link'[l].uses - link[l].uses
           /\ link'[l].uses <= MaxUses[l]
  PROVE  LinksFit'
<1> SUFFICES ASSUME NEW l \in Links, l \notin unrecorded'
             PROVE  /\ applied'[l] + Cardinality(OpenFor(l)') + Cardinality(TakenBy(l)') <= link'[l].uses
                    /\ link'[l].uses <= MaxUses[l]
  BY DEF LinksFit
<1>1. /\ Cardinality(OpenFor(l)) \in Nat /\ Cardinality(OpenFor(l)') \in Nat
      /\ Cardinality(OpenFor(l)')
           = Cardinality(OpenFor(l)) - One(WebFor[k] = l /\ webPay[k] \in Open)
               + One(WebFor[k] = l /\ v \in Open)
  BY OpenForChange
<1>2. /\ Cardinality(TakenBy(l)) \in Nat /\ Cardinality(TakenBy(l)') \in Nat
      /\ Cardinality(TakenBy(l)')
           = Cardinality(TakenBy(l)) - One(Takes(serving[s], l)) + One(Takes(h, l))
  BY TakenByChange
<1>3. /\ applied[l] \in Nat /\ link[l].uses \in Int /\ link'[l].uses \in Int
      /\ One(Takes(h, l)) \in {0, 1} /\ One(Takes(serving[s], l)) \in {0, 1} /\ MaxUses[l] \in Nat
      /\ One(WebFor[k] = l /\ webPay[k] \in Open) \in {0, 1}
         /\ One(WebFor[k] = l /\ v \in Open) \in {0, 1}
  BY CommerceAssumption DEF Typed, CommerceTypeOK, One
<1>4. applied[l] + Cardinality(OpenFor(l)) + Cardinality(TakenBy(l)) <= link[l].uses
  BY DEF LinksFit
<1> QED BY <1>1, <1>2, <1>3, <1>4

\* No step that lets go of no collected money leaves any unaccounted for.
LEMMA MoneyFitsKept ==
  ASSUME Typed, MoneyFits, unrecorded \subseteq unrecorded', CommerceTypeOK',
         \A x \in Invoices \cup Links : Loose(x)' \subseteq Loose(x) /\ applied[x] <= applied'[x]
  PROVE  MoneyFits'
<1> SUFFICES ASSUME NEW x \in Invoices \cup Links, x \notin unrecorded'
             PROVE  Cardinality(Loose(x)') <= applied'[x]
  BY DEF MoneyFits
<1>1. IsFiniteSet(Loose(x))
  BY CommerceAssumption, FS_Subset DEF Loose
<1>2. Cardinality(Loose(x)') \in Nat /\ Cardinality(Loose(x)) \in Nat
      /\ Cardinality(Loose(x)') <= Cardinality(Loose(x))
  BY <1>1, FS_Subset, FS_CardinalityType
<1>3. applied[x] \in Nat /\ applied'[x] \in Nat /\ Cardinality(Loose(x)) <= applied[x]
  BY DEF Typed, CommerceTypeOK, MoneyFits
<1> QED BY <1>2, <1>3

\* A handler that neither holds nor takes anything.
LEMMA QuietCall ==
  ASSUME CommerceIInv, NEW s \in Servers, NEW h \in Services,
         serving' = [serving EXCEPT ![s] = h],
         h.op \in {"idle", "pay", "reconcile"},
         serving[s].op \in {"idle", "pay", "transferred", "reconcile"},
         UNCHANGED <<invoice, hold, link, webPay, late, provider, applied, exceptions, unrecorded>>
  PROVE  CommerceIInv'
<1>1. Typed'
  BY DEF CommerceIInv, Typed, CommerceTypeOK
<1>2. serving'[s] = h /\ \A t \in Servers \ {s} : serving'[t] = serving[t]
  BY DEF CommerceIInv, Typed
<1>3. InvoicesFit'
  BY <1>2 DEF CommerceIInv, InvoicesFit, Claimed
<1>4. StartsFit'
  BY <1>2 DEF CommerceIInv, StartsFit, Starting
<1>5. LinksFit'
  <2>1. \A l \in Links : ~Takes(h, l) /\ ~Takes(serving[s], l)
    BY DEF Takes
  <2>2. \A l \in Links \ unrecorded' :
           /\ (applied'[l] - applied[l]) + One(Takes(h, l)) - One(Takes(serving[s], l))
                <= link'[l].uses - link[l].uses
           /\ link'[l].uses <= MaxUses[l]
    BY <2>1 DEF One, CommerceIInv, LinksFit, Typed, CommerceTypeOK
  <2> QED BY <1>1, <2>2, LinksFitCall DEF CommerceIInv, Typed
<1>6. MoneyFits'
  <2>1. \A k \in Checkouts : InHand(k)' <=> InHand(k)
    BY <1>2 DEF InHand
  <2>2. \A x \in Invoices \cup Links : Loose(x)' \subseteq Loose(x) /\ applied[x] <= applied'[x]
    BY <2>1 DEF Loose, CommerceIInv, Typed, CommerceTypeOK
  <2> QED BY <1>1, <2>2, MoneyFitsKept DEF CommerceIInv, Typed
<1> QED BY <1>1, <1>3, <1>4, <1>5, <1>6 DEF CommerceIInv

\* A handler of a payment in the app goes on.
LEMMA PayOnTo ==
  ASSUME Typed, NEW s \in Servers, NEW from, NEW to, OnTo(s, from, to),
         from \in {"pay", "claimed"}, to \in {"claimed", "transferred"}
  PROVE  /\ serving[s].id \in Invoices \cup Links
         /\ \E h \in Services : /\ serving' = [serving EXCEPT ![s] = h]
                                /\ h.op = to /\ h.id = serving[s].id
<1>1. serving[s] \in Services /\ serving[s].op = from
  BY DEF Typed, OnTo
<1>2. PICK g : g = serving[s]
  OBVIOUS
<1>3. serving' = [serving EXCEPT ![s] = [g EXCEPT !.op = to]]
  BY <1>2 DEF OnTo
<1>4. CASE g \in [op : {"pay", "claimed", "transferred"}, id : Invoices, was : PAYABLE]
  <2>1. PICK h : h = [op |-> to, id |-> g.id, was |-> g.was]
    OBVIOUS
  <2>2. [g EXCEPT !.op = to] = h
        /\ h \in [op : {"pay", "claimed", "transferred"}, id : Invoices, was : PAYABLE]
    BY <1>4, <2>1
  <2>3. h \in Services /\ h.op = to /\ h.id = serving[s].id /\ g.id \in Invoices
    BY <1>2, <1>4, <2>1, <2>2 DEF Services
  <2> QED BY <1>2, <1>3, <2>2, <2>3
<1>5. CASE g \in [op : {"pay", "claimed", "transferred"}, id : Links]
  <2>1. PICK h : h = [op |-> to, id |-> g.id]
    OBVIOUS
  <2>2. [g EXCEPT !.op = to] = h /\ h \in [op : {"pay", "claimed", "transferred"}, id : Links]
    BY <1>5, <2>1
  <2>3. h \in Services /\ h.op = to /\ h.id = serving[s].id /\ g.id \in Links
    BY <1>2, <1>5, <2>1, <2>2 DEF Services
  <2> QED BY <1>2, <1>3, <2>2, <2>3
<1> QED BY <1>1, <1>2, <1>4, <1>5 DEF Services, AtRest

\* What is collected and not accounted for grows only when a handler lets go of it.
LEMMA LooseKept ==
  ASSUME Typed, NEW s \in Servers, NEW h, serving' = [serving EXCEPT ![s] = h],
         serving[s].op # "settle", exceptions \subseteq exceptions', unrecorded \subseteq unrecorded',
         \A k \in Checkouts : webPay'[k] = "completed" =>
                                webPay[k] = "completed" \/ (h.op = "settle" /\ h.id = k)
  PROVE  \A x \in Invoices \cup Links : Loose(x)' \subseteq Loose(x)
<1>1. serving'[s] = h /\ \A t \in Servers \ {s} : serving'[t] = serving[t]
  BY DEF Typed
<1>2. \A k \in Checkouts : /\ InHand(k) => InHand(k)'
                           /\ h.op = "settle" /\ h.id = k => InHand(k)'
  BY <1>1 DEF InHand
<1> QED BY <1>2 DEF Loose

\* release() gives one use of a link back, or the hold on an invoice.
LEMMA ReleaseRows ==
  ASSUME CommerceTypeOK, NEW k \in Checkouts, Release(k)
  PROVE  /\ link' \in [Links -> [open : BOOLEAN, uses : Int]]
         /\ hold' \in [Invoices -> Checkouts \cup {NoHold}]
         /\ \A l \in Links : link'[l].uses = IF WebFor[k] = l /\ link[l].uses > 0
                                               THEN link[l].uses - 1 ELSE link[l].uses
<1>1. PICK x \in Invoices \cup Links : x = WebFor[k]
  BY CommerceAssumption
<1>2. link \in [Links -> [open : BOOLEAN, uses : Int]] /\ hold \in [Invoices -> Checkouts \cup {NoHold}]
  BY DEF CommerceTypeOK
<1>3. CASE x \in Invoices
  <2>1. link' = link /\ hold' = IF hold[x] = k THEN [hold EXCEPT ![x] = NoHold] ELSE hold
    BY <1>1, <1>3 DEF Release
  <2> QED BY <1>1, <1>2, <1>3, <2>1, CommerceAssumption
<1>4. CASE x \notin Invoices
  <2>1. hold' = hold /\ link' = [link EXCEPT ![x].uses = IF @ > 0 THEN @ - 1 ELSE @]
    BY <1>1, <1>4 DEF Release
  <2> QED BY <1>1, <1>2, <1>4, <2>1
<1> QED BY <1>3, <1>4

\* The steps of the merchant, the providers and the clock.
LEMMA NoHandler ==
  ASSUME CommerceIInv, UNCHANGED <<applied, exceptions, unrecorded, serving, hold>>,
         CommerceTypeOK', webPay' = webPay,
         \A i \in Invoices : invoice[i] = "paid" => invoice'[i] = "paid",
         \A l \in Links : link'[l].uses = link[l].uses
  PROVE  CommerceIInv'
<1>1. Typed'
  BY DEF CommerceIInv, Typed
<1>2. InvoicesFit'
  BY DEF CommerceIInv, InvoicesFit, Claimed
<1>3. StartsFit'
  BY DEF CommerceIInv, StartsFit, Starting
<1>4. LinksFit'
  BY DEF CommerceIInv, LinksFit, OpenFor, TakenBy, Takes
<1>5. MoneyFits'
  BY DEF CommerceIInv, MoneyFits, Loose, InHand
<1> QED BY <1>1, <1>2, <1>3, <1>4, <1>5 DEF CommerceIInv

\* sendInvoice, cancelInvoice, setLinkActive, the providers and the clock undo no
\* payment.
LEMMA MerchantStep ==
  ASSUME CommerceIInv,
         \/ \E i \in Invoices : SendInvoice(i) \/ ViewInvoice(i) \/ MarkOverdue(i) \/ CancelInvoice(i)
         \/ \E l \in Links : SetLinkActive(l)
         \/ \E k \in Checkouts : TimePasses(k) \/ \E answer \in Arrived \cup {"failed"} : ProviderDecides(k, answer)
  PROVE  CommerceIInv'
<1>t. CommerceTypeOK
  BY DEF CommerceIInv, Typed
<1>1. ASSUME NEW i \in Invoices, NEW from, NEW to, InvoiceMoves(i, from, to),
             "paid" \notin from, to \in PAYABLE \cup {"draft", "paid", "cancelled"}
      PROVE  CommerceIInv'
  <2>1. CommerceTypeOK'
    BY <1>1, <1>t DEF InvoiceMoves, CommerceTypeOK
  <2>2. \A x \in Invoices : invoice[x] = "paid" => invoice'[x] = "paid"
    BY <1>1, <1>t DEF InvoiceMoves, CommerceTypeOK
  <2> QED BY <1>1, <2>1, <2>2, NoHandler DEF InvoiceMoves
<1>2. CASE \E i \in Invoices : SendInvoice(i) \/ ViewInvoice(i) \/ MarkOverdue(i) \/ CancelInvoice(i)
  BY <1>1, <1>2 DEF SendInvoice, ViewInvoice, MarkOverdue, CancelInvoice, PAYABLE
<1>3. ASSUME NEW l \in Links, SetLinkActive(l) PROVE CommerceIInv'
  <2>1. /\ link' \in [Links -> [open : BOOLEAN, uses : Int]]
        /\ \A x \in Links : link'[x].uses = link[x].uses
    BY <1>3, <1>t DEF SetLinkActive, CommerceTypeOK
  <2>2. CommerceTypeOK'
    BY <1>3, <1>t, <2>1 DEF SetLinkActive, CommerceTypeOK
  <2> QED BY <1>3, <2>1, <2>2, NoHandler DEF SetLinkActive
<1>4. ASSUME NEW k \in Checkouts, TimePasses(k) PROVE CommerceIInv'
  <2>1. CommerceTypeOK'
    BY <1>4, <1>t DEF TimePasses, CommerceTypeOK
  <2> QED BY <1>4, <2>1, NoHandler DEF TimePasses
<1>5. ASSUME NEW k \in Checkouts, NEW answer \in Arrived \cup {"failed"},
             ProviderDecides(k, answer)
      PROVE  CommerceIInv'
  <2>1. CommerceTypeOK'
    BY <1>5, <1>t DEF ProviderDecides, CommerceTypeOK
  <2> QED BY <1>5, <2>1, NoHandler DEF ProviderDecides
<1> QED BY <1>2, <1>3, <1>4, <1>5

\* Reading before a claim, a lost claim, and the end of a recorded payment.
LEMMA QuietStep ==
  ASSUME CommerceIInv, NEW s \in Servers,
         \/ \E i \in Invoices : BeginPayInvoice(s, i)
         \/ \E l \in Links : BeginPayLink(s, l)
         \/ \E k \in Checkouts : BeginReconcile(s, k)
         \/ ClaimItemLost(s) \/ RecordPayment(s) \/ ClaimCheckoutLost(s)
  PROVE  CommerceIInv'
<1>t. CommerceTypeOK /\ AtRest \in Services /\ AtRest.op = "idle"
  BY DEF CommerceIInv, Typed, Services, AtRest
<1>1. ASSUME NEW i \in Invoices, BeginPayInvoice(s, i) PROVE CommerceIInv'
  <2>1. PICK h : h = [op |-> "pay", id |-> i, was |-> invoice[i]]
    OBVIOUS
  <2>2. h \in [op : {"pay", "claimed", "transferred"}, id : Invoices, was : PAYABLE]
        /\ h.op = "pay"
    BY <1>1, <2>1 DEF BeginPayInvoice
  <2>3. h \in Services
    BY <2>2 DEF Services
  <2> QED BY <1>1, <1>t, <2>1, <2>2, <2>3, QuietCall DEF BeginPayInvoice, Serve
<1>2. ASSUME NEW l \in Links, BeginPayLink(s, l) PROVE CommerceIInv'
  <2>1. PICK h : h = [op |-> "pay", id |-> l]
    OBVIOUS
  <2>2. h \in [op : {"pay", "claimed", "transferred"}, id : Links] /\ h.op = "pay"
    BY <1>2, <2>1
  <2>3. h \in Services
    BY <2>2 DEF Services
  <2> QED BY <1>2, <1>t, <2>1, <2>2, <2>3, QuietCall DEF BeginPayLink, Serve
<1>3. ASSUME NEW k \in Checkouts, BeginReconcile(s, k) PROVE CommerceIInv'
  <2>1. PICK h : h = [op |-> "reconcile", id |-> k, was |-> webPay[k], saw |-> provider[k]]
    OBVIOUS
  <2>2. h \in [op : {"reconcile", "settle", "release"}, id : Checkouts, was : LookedUp,
               saw : Arrived \cup {"pending", "failed"}] /\ h.op = "reconcile"
    BY <1>3, <1>t, <2>1 DEF BeginReconcile, CommerceTypeOK
  <2>3. h \in Services
    BY <2>2 DEF Services
  <2> QED BY <1>3, <1>t, <2>1, <2>2, <2>3, QuietCall DEF BeginReconcile, Serve
<1>4. CASE ClaimItemLost(s) \/ RecordPayment(s) \/ ClaimCheckoutLost(s)
  BY <1>4, <1>t, QuietCall DEF ClaimItemLost, RecordPayment, ClaimCheckoutLost, Served
<1> QED BY <1>1, <1>2, <1>3, <1>4

\* A claim finds an invoice nobody else has claimed or paid, or a use that is
\* left.
LEMMA ClaimStep ==
  ASSUME CommerceIInv, NEW s \in Servers, ClaimItem(s)
  PROVE  CommerceIInv'
<1>t. Typed /\ CommerceTypeOK
  BY DEF CommerceIInv, Typed
<1>1. PICK x : x = serving[s].id
  OBVIOUS
<1>2. OnTo(s, "pay", "claimed")
  BY DEF ClaimItem
<1>3. x \in Invoices \cup Links
  BY <1>t, <1>1, <1>2, PayOnTo
<1>4. PICK h \in Services : serving' = [serving EXCEPT ![s] = h] /\ h.op = "claimed" /\ h.id = x
  BY <1>t, <1>1, <1>2, PayOnTo
<1>5. /\ Reservable(x) /\ serving[s].op = "pay"
      /\ UNCHANGED <<hold, webPay, late, provider, applied, exceptions, unrecorded>>
      /\ x \in Invoices => invoice' = [invoice EXCEPT ![x] = "paid"] /\ UNCHANGED link
      /\ x \notin Invoices => link' = [link EXCEPT ![x].uses = @ + 1] /\ UNCHANGED invoice
  BY <1>1 DEF ClaimItem, OnTo
<1>6. /\ serving'[s] = h /\ \A t \in Servers \ {s} : serving'[t] = serving[t]
  BY <1>t, <1>4 DEF Typed
<1>7. CommerceTypeOK' /\ Typed'
  <2>1. /\ invoice' \in [Invoices -> PAYABLE \cup {"draft", "paid", "cancelled"}]
        /\ link' \in [Links -> [open : BOOLEAN, uses : Int]]
    <3>1. CASE x \in Invoices
      BY <1>t, <1>5, <3>1 DEF CommerceTypeOK
    <3>2. CASE x \notin Invoices
      <4>1. invoice' = invoice /\ link' = [link EXCEPT ![x].uses = @ + 1] /\ x \in Links
        BY <1>3, <1>5, <3>2
      <4>2. link \in [Links -> [open : BOOLEAN, uses : Int]]
        BY <1>t DEF CommerceTypeOK
      <4>3. link' \in [Links -> [open : BOOLEAN, uses : Int]]
        BY <4>1, <4>2
      <4> QED BY <1>t, <4>1, <4>3 DEF CommerceTypeOK
    <3> QED BY <3>1, <3>2
  <2>2. serving' \in [Servers -> Services] /\ DOMAIN serving' = Servers
    BY <1>t, <1>4 DEF Typed
  <2> QED BY <1>t, <1>5, <2>1, <2>2 DEF CommerceTypeOK, Typed
<1>8. InvoicesFit'
  <2>1. CASE x \in Invoices
    <3>1. invoice[x] \in PAYABLE
      BY <1>5, <2>1 DEF Reservable
    <3>2. \A i \in Invoices : invoice'[i] = IF i = x THEN "paid" ELSE invoice[i]
      BY <1>t, <1>5, <2>1 DEF CommerceTypeOK
    <3>3. x \notin unrecorded => applied[x] = 0 /\ \A t \in Servers : ~Claimed(t, x)
      BY <1>t, <2>1, <3>1 DEF CommerceIInv, InvoicesFit, PAYABLE, CommerceTypeOK
    <3> QED BY <1>4, <1>5, <1>6, <3>2, <3>3 DEF CommerceIInv, InvoicesFit, Claimed
  <2>2. CASE x \notin Invoices
    BY <1>4, <1>5, <1>6, <2>2 DEF CommerceIInv, InvoicesFit, Claimed
  <2> QED BY <2>1, <2>2
<1>9. StartsFit'
  BY <1>4, <1>5, <1>6 DEF CommerceIInv, StartsFit, Starting
<1>10. LinksFit'
  <2>1. ASSUME NEW l \in Links, l \notin unrecorded'
        PROVE  /\ (applied'[l] - applied[l]) + One(Takes(h, l)) - One(Takes(serving[s], l))
                    <= link'[l].uses - link[l].uses
               /\ link'[l].uses <= MaxUses[l]
    <3>1. ~Takes(serving[s], l) /\ (Takes(h, l) <=> x = l)
      BY <1>4, <1>5 DEF Takes
    <3>2. link[l].uses <= MaxUses[l] /\ link[l].uses \in Int /\ MaxUses[l] \in Nat
          /\ applied[l] \in Nat
      BY <1>t, <1>5, <2>1, CommerceAssumption DEF CommerceIInv, LinksFit, CommerceTypeOK
    <3>3. CASE x = l
      <4>1. x \notin Invoices
        BY <2>1, <3>3, CommerceAssumption
      <4>2. link'[l].uses = link[l].uses + 1
        BY <1>t, <1>5, <3>3, <4>1 DEF CommerceTypeOK
      <4>3. link[l].uses < MaxUses[l]
        BY <1>5, <3>3, <4>1 DEF Reservable, Usable
      <4> QED BY <1>5, <3>1, <3>2, <3>3, <4>2, <4>3 DEF One
    <3>4. CASE x # l
      <4>1. link'[l].uses = link[l].uses
        BY <1>t, <1>5, <3>4 DEF CommerceTypeOK
      <4> QED BY <1>5, <3>1, <3>2, <3>4, <4>1 DEF One
    <3> QED BY <3>3, <3>4
  <2> QED BY <1>t, <1>4, <1>5, <1>7, <2>1, LinksFitCall DEF CommerceIInv
<1>11. MoneyFits'
  <2>1. \A y \in Invoices \cup Links : Loose(y)' \subseteq Loose(y)
    BY <1>t, <1>4, <1>5, LooseKept
  <2>2. \A y \in Invoices \cup Links : applied[y] <= applied'[y]
    BY <1>t, <1>5 DEF CommerceTypeOK
  <2> QED BY <1>t, <1>5, <1>7, <2>1, <2>2, MoneyFitsKept DEF CommerceIInv
<1> QED BY <1>7, <1>8, <1>9, <1>10, <1>11 DEF CommerceIInv

\* The transfer for what was claimed: a use held by a handler becomes a payment.
LEMMA TransferStep ==
  ASSUME CommerceIInv, NEW s \in Servers, TransferForItem(s)
  PROVE  CommerceIInv'
<1>t. Typed /\ CommerceTypeOK
  BY DEF CommerceIInv, Typed
<1>1. PICK x : x = serving[s].id
  OBVIOUS
<1>2. OnTo(s, "claimed", "transferred")
  BY DEF TransferForItem
<1>3. x \in Invoices \cup Links
  BY <1>t, <1>1, <1>2, PayOnTo
<1>4. PICK h \in Services : serving' = [serving EXCEPT ![s] = h] /\ h.op = "transferred"
           /\ h.id = x
  BY <1>t, <1>1, <1>2, PayOnTo
<1>5. /\ serving[s].op = "claimed" /\ Claimed(s, x)
      /\ UNCHANGED <<invoice, hold, link, webPay, late, provider, exceptions, unrecorded>>
      /\ applied' = [applied EXCEPT ![x] = @ + 1]
  BY <1>1 DEF TransferForItem, OnTo, Apply, Claimed
<1>6. /\ serving'[s] = h /\ \A t \in Servers \ {s} : serving'[t] = serving[t]
      /\ \A y \in Invoices \cup Links : applied'[y] = IF y = x THEN applied[y] + 1 ELSE applied[y]
  BY <1>t, <1>4, <1>5 DEF Typed, CommerceTypeOK
<1>7. CommerceTypeOK' /\ Typed'
  BY <1>t, <1>3, <1>4, <1>5 DEF CommerceTypeOK, Typed
<1>8. InvoicesFit'
  BY <1>t, <1>4, <1>5, <1>6 DEF CommerceIInv, InvoicesFit, Claimed, CommerceTypeOK
<1>9. StartsFit'
  BY <1>4, <1>5, <1>6 DEF CommerceIInv, StartsFit, Starting
<1>10. LinksFit'
  <2>1. ASSUME NEW l \in Links, l \notin unrecorded'
        PROVE  /\ (applied'[l] - applied[l]) + One(Takes(h, l)) - One(Takes(serving[s], l))
                    <= link'[l].uses - link[l].uses
               /\ link'[l].uses <= MaxUses[l]
    <3>1. ~Takes(h, l) /\ (Takes(serving[s], l) <=> x = l)
      BY <1>1, <1>4, <1>5 DEF Takes
    <3>2. link[l].uses <= MaxUses[l] /\ link[l].uses \in Int /\ applied[l] \in Nat
      BY <1>t, <1>5, <2>1 DEF CommerceIInv, LinksFit, CommerceTypeOK
    <3> QED BY <1>5, <1>6, <3>1, <3>2 DEF One
  <2> QED BY <1>t, <1>4, <1>5, <1>7, <2>1, LinksFitCall DEF CommerceIInv
<1>11. MoneyFits'
  <2>1. \A y \in Invoices \cup Links : Loose(y)' \subseteq Loose(y)
    BY <1>t, <1>4, <1>5, LooseKept
  <2>2. \A y \in Invoices \cup Links : applied[y] <= applied'[y]
    BY <1>t, <1>6 DEF CommerceTypeOK
  <2> QED BY <1>t, <1>5, <1>7, <2>1, <2>2, MoneyFitsKept DEF CommerceIInv
<1> QED BY <1>7, <1>8, <1>9, <1>10, <1>11 DEF CommerceIInv

\* The catch after a claim.
LEMMA GiveUpStep ==
  ASSUME CommerceIInv, NEW s \in Servers, TransferRefused(s) \/ RecordPaymentFails(s)
  PROVE  CommerceIInv'
<1>t. Typed /\ CommerceTypeOK
  BY DEF CommerceIInv, Typed
<1>1. PICK x : x = serving[s].id
  OBVIOUS
<1>2. /\ serving[s].op \in {"claimed", "transferred"} /\ serving[s] \in Services
      /\ serving' = [serving EXCEPT ![s] = AtRest] /\ AtRest \in Services
      /\ UNCHANGED <<hold, webPay, late, provider, applied, exceptions>>
      /\ unrecorded \subseteq unrecorded' /\ unrecorded' \subseteq unrecorded \cup {x}
      /\ serving[s].op = "transferred" => x \in unrecorded'
  BY <1>t, <1>1 DEF TransferRefused, RecordPaymentFails, Served, Typed, Services
<1>3. /\ x \in Invoices \cup Links
      /\ x \in Invoices => serving[s].was \in PAYABLE
  BY <1>1, <1>2, CommerceAssumption DEF Services, AtRest
<1>4. /\ x \in Invoices => invoice' = [invoice EXCEPT ![x] = serving[s].was] /\ UNCHANGED link
      /\ x \notin Invoices => link' = [link EXCEPT ![x].uses = @ - 1] /\ UNCHANGED invoice
  BY <1>1 DEF TransferRefused, RecordPaymentFails, GiveUpClaim
<1>6. /\ serving'[s] = AtRest /\ \A t \in Servers \ {s} : serving'[t] = serving[t]
  BY <1>t, <1>2 DEF Typed
<1>7. CommerceTypeOK' /\ Typed'
  <2>1. serving' \in [Servers -> Services] /\ DOMAIN serving' = Servers
    BY <1>t, <1>2 DEF Typed
  <2>2. CASE x \in Invoices
    <3>1. invoice' = [invoice EXCEPT ![x] = serving[s].was] /\ UNCHANGED link
      BY <1>4, <2>2
    <3>2. \A i \in Invoices : invoice'[i] = invoice[i] \/ invoice'[i] \in PAYABLE
      BY <1>t, <1>3, <2>2, <3>1 DEF CommerceTypeOK
    <3> QED BY <1>t, <1>2, <1>3, <2>1, <2>2, <3>1, <3>2 DEF CommerceTypeOK, Typed, PAYABLE
  <2>3. CASE x \notin Invoices
    <3>1. link' = [link EXCEPT ![x].uses = @ - 1] /\ UNCHANGED invoice
      BY <1>4, <2>3
    <3>2. link' \in [Links -> [open : BOOLEAN, uses : Int]]
      <4>1. x \in Links /\ link \in [Links -> [open : BOOLEAN, uses : Int]]
        BY <1>t, <1>3, <2>3 DEF CommerceTypeOK
      <4>2. PICK r \in [open : BOOLEAN, uses : Int] : r = link[x]
        BY <4>1
      <4>3. PICK n \in Int : n = r.uses - 1
        OBVIOUS
      <4>4. [r EXCEPT !.uses = n] \in [open : BOOLEAN, uses : Int]
        OBVIOUS
      <4>5. link' = [link EXCEPT ![x] = [r EXCEPT !.uses = n]]
        BY <3>1, <4>1, <4>2, <4>3
      <4> QED BY <4>1, <4>4, <4>5
    <3> QED BY <1>t, <1>2, <1>3, <2>1, <3>1, <3>2 DEF CommerceTypeOK, Typed
  <2> QED BY <2>2, <2>3
<1>8. InvoicesFit'
  <2>1. ASSUME NEW i \in Invoices, i \notin unrecorded'
        PROVE  /\ applied[i] <= 1 /\ (applied[i] = 1 => invoice'[i] = "paid")
               /\ \A t \in Servers : Claimed(t, i)' => invoice'[i] = "paid" /\ applied[i] = 0
               /\ \A t, u \in Servers : Claimed(t, i)' /\ Claimed(u, i)' => t = u
    <3>1. /\ applied[i] <= 1 /\ (applied[i] = 1 => invoice[i] = "paid")
          /\ \A t \in Servers : Claimed(t, i) => invoice[i] = "paid" /\ applied[i] = 0
          /\ \A t, u \in Servers : Claimed(t, i) /\ Claimed(u, i) => t = u
      BY <1>2, <2>1 DEF CommerceIInv, InvoicesFit
    <3>2. \A t \in Servers : Claimed(t, i)' => t # s /\ Claimed(t, i)
      BY <1>6 DEF Claimed, AtRest
    <3>3. CASE i = x
      <4>1. Claimed(s, i)
        BY <1>1, <1>2, <2>1, <3>3 DEF Claimed
      <4> QED BY <3>1, <3>2, <4>1
    <3>4. CASE i # x
      <4>1. invoice'[i] = invoice[i]
        BY <1>t, <1>4, <3>4 DEF CommerceTypeOK
      <4> QED BY <3>1, <3>2, <4>1
    <3> QED BY <3>3, <3>4
  <2> QED BY <1>2, <2>1 DEF InvoicesFit
<1>9. StartsFit'
  BY <1>2, <1>6 DEF CommerceIInv, StartsFit, Starting, AtRest
<1>10. LinksFit'
  <2>1. ASSUME NEW l \in Links, l \notin unrecorded'
        PROVE  /\ (applied'[l] - applied[l]) + One(Takes(AtRest, l)) - One(Takes(serving[s], l))
                    <= link'[l].uses - link[l].uses
               /\ link'[l].uses <= MaxUses[l]
    <3>1. ~Takes(AtRest, l) /\ (x = l => Takes(serving[s], l)) /\ (x # l => ~Takes(serving[s], l))
      BY <1>1, <1>2, <2>1 DEF Takes, AtRest
    <3>2. link[l].uses <= MaxUses[l] /\ link[l].uses \in Int /\ applied[l] \in Nat
          /\ MaxUses[l] \in Int
      BY <1>t, <1>2, <2>1, CommerceAssumption DEF CommerceIInv, LinksFit, CommerceTypeOK
    <3>3. CASE x = l
      <4>1. link'[l].uses = link[l].uses - 1
        BY <1>t, <1>4, <2>1, <3>3, CommerceAssumption DEF CommerceTypeOK
      <4> QED BY <1>2, <3>1, <3>2, <3>3, <4>1 DEF One
    <3>4. CASE x # l
      <4>1. link'[l].uses = link[l].uses
        BY <1>t, <1>4, <3>4 DEF CommerceTypeOK
      <4> QED BY <1>2, <3>1, <3>2, <3>4, <4>1 DEF One
    <3> QED BY <3>3, <3>4
  <2> QED BY <1>t, <1>2, <1>7, <2>1, LinksFitCall DEF CommerceIInv
<1>11. MoneyFits'
  <2>1. \A y \in Invoices \cup Links : Loose(y)' \subseteq Loose(y)
    BY <1>t, <1>2, LooseKept
  <2>2. \A y \in Invoices \cup Links : applied[y] <= applied'[y]
    BY <1>t, <1>2 DEF CommerceTypeOK
  <2> QED BY <1>t, <1>2, <1>7, <2>1, <2>2, MoneyFitsKept DEF CommerceIInv
<1> QED BY <1>7, <1>8, <1>9, <1>10, <1>11 DEF CommerceIInv

\* A web checkout holds its invoice, or takes a use that is left.
LEMMA StartWebStep ==
  ASSUME CommerceIInv, NEW s \in Servers, NEW k \in Checkouts, StartWeb(s, k)
  PROVE  CommerceIInv'
<1>t. Typed /\ CommerceTypeOK
  BY DEF CommerceIInv, Typed
<1>1. PICK x \in Invoices \cup Links : x = WebFor[k]
  BY CommerceAssumption
<1>2. PICK h \in [op : {"start"}, id : Checkouts] : h = [op |-> "start", id |-> k]
  OBVIOUS
<1>3. /\ h \in Services /\ h.op = "start" /\ h.id = k
      /\ webPay[k] = "none" /\ Reservable(x) /\ serving[s] = AtRest
      /\ serving' = [serving EXCEPT ![s] = h]
      /\ webPay' = [webPay EXCEPT ![k] = "reserved"]
      /\ x \in Invoices => hold' = [hold EXCEPT ![x] = k] /\ UNCHANGED link
      /\ x \notin Invoices => link' = [link EXCEPT ![x].uses = @ + 1] /\ UNCHANGED hold
      /\ UNCHANGED <<invoice, late, provider, applied, exceptions, unrecorded>>
  BY <1>1, <1>2 DEF StartWeb, Serve, Services
<1>6. /\ serving'[s] = h /\ \A t \in Servers \ {s} : serving'[t] = serving[t]
      /\ \A j \in Checkouts : webPay'[j] = IF j = k THEN "reserved" ELSE webPay[j]
  BY <1>t, <1>3 DEF Typed, CommerceTypeOK
<1>7. CommerceTypeOK' /\ Typed'
  BY SMTT(30), <1>t, <1>3 DEF CommerceTypeOK, Typed
<1>8. InvoicesFit'
  BY <1>3, <1>6 DEF CommerceIInv, InvoicesFit, Claimed
<1>9. StartsFit'
  <2>1. \A t \in Servers : ~Starting(t, k)
    BY <1>3 DEF CommerceIInv, StartsFit
  <2> QED BY <1>3, <1>6, <2>1 DEF CommerceIInv, StartsFit, Starting
<1>10. LinksFit'
  <2>1. ASSUME NEW l \in Links, l \notin unrecorded'
        PROVE  /\ One(Takes(h, l)) - One(Takes(serving[s], l))
                    + One(WebFor[k] = l /\ "reserved" \in Open) - One(WebFor[k] = l /\ webPay[k] \in Open)
                    <= link'[l].uses - link[l].uses
               /\ link'[l].uses <= MaxUses[l]
    <3>1. /\ ~Takes(serving[s], l) /\ ~Takes(h, l)
          /\ webPay[k] \notin Open /\ "reserved" \in Open
      BY <1>3 DEF Takes, Open, AtRest
    <3>2. link[l].uses <= MaxUses[l] /\ link[l].uses \in Int /\ MaxUses[l] \in Nat
      BY <1>t, <1>3, <2>1, CommerceAssumption DEF CommerceIInv, LinksFit, CommerceTypeOK
    <3>3. CASE x = l
      <4>1. x \notin Invoices
        BY <2>1, <3>3, CommerceAssumption
      <4>2. link'[l].uses = link[l].uses + 1 /\ link[l].uses < MaxUses[l]
        BY <1>t, <1>3, <3>3, <4>1 DEF CommerceTypeOK, Reservable, Usable
      <4> QED BY <1>1, <3>1, <3>2, <3>3, <4>2 DEF One
    <3>4. CASE x # l
      <4>1. link'[l].uses = link[l].uses
        BY <1>t, <1>3, <3>4 DEF CommerceTypeOK
      <4> QED BY <1>1, <3>1, <3>2, <3>4, <4>1 DEF One
    <3> QED BY <3>3, <3>4
  <2>2. PICK v : v = "reserved"
    OBVIOUS
  <2>3. /\ webPay' = [webPay EXCEPT ![k] = v] /\ serving' = [serving EXCEPT ![s] = h]
        /\ unrecorded \subseteq unrecorded' /\ applied' = applied /\ LinksFit
    BY <1>3, <2>2 DEF CommerceIInv
  <2>4. \A l \in Links \ unrecorded' :
          /\ One(Takes(h, l)) - One(Takes(serving[s], l))
               + One(WebFor[k] = l /\ v \in Open) - One(WebFor[k] = l /\ webPay[k] \in Open)
               <= link'[l].uses - link[l].uses
          /\ link'[l].uses <= MaxUses[l]
    BY <2>1, <2>2
  <2> QED BY <1>t, <1>7, <2>3, <2>4, LinksFitCheckout
<1>11. MoneyFits'
  <2>1. \A y \in Invoices \cup Links : Loose(y)' \subseteq Loose(y)
    <3>1. \A j \in Checkouts : webPay'[j] = "completed" => webPay[j] = "completed"
      BY <1>6
    <3>2. /\ serving' = [serving EXCEPT ![s] = h] /\ serving[s].op # "settle"
          /\ exceptions \subseteq exceptions' /\ unrecorded \subseteq unrecorded'
      BY <1>3 DEF AtRest
    <3> QED BY <1>t, <3>1, <3>2, LooseKept
  <2>2. \A y \in Invoices \cup Links : applied[y] <= applied'[y]
    BY <1>t, <1>3 DEF CommerceTypeOK
  <2> QED BY <1>t, <1>3, <1>7, <2>1, <2>2, MoneyFitsKept DEF CommerceIInv
<1> QED BY <1>7, <1>8, <1>9, <1>10, <1>11 DEF CommerceIInv

\* The checkout is open, or could not be opened: then its use is given back.
LEMMA OpenWebStep ==
  ASSUME CommerceIInv, NEW s \in Servers, OpenWeb(s) \/ OpenWebFails(s)
  PROVE  CommerceIInv'
<1>t. Typed /\ CommerceTypeOK
  BY DEF CommerceIInv, Typed
<1>1. PICK k : k = serving[s].id
  OBVIOUS
<1>2. /\ k \in Checkouts /\ serving[s].op = "start"
  BY <1>t, <1>1 DEF OpenWeb, OpenWebFails, Served, Typed, Services, AtRest
<1>a. PICK x \in Invoices \cup Links : x = WebFor[k]
  BY <1>2, CommerceAssumption
<1>3. PICK v \in {"pending", "none"} :
           /\ webPay' = [webPay EXCEPT ![k] = v]
           /\ v = "pending" => UNCHANGED <<hold, link>>
           /\ v = "none" => Release(k)
  BY <1>1 DEF OpenWeb, OpenWebFails
<1>4. /\ webPay[k] = "reserved" /\ Starting(s, k)
      /\ serving' = [serving EXCEPT ![s] = AtRest] /\ AtRest \in Services
      /\ UNCHANGED <<invoice, late, provider, applied, exceptions, unrecorded>>
  <2>1. Starting(s, k)
    BY <1>1, <1>2 DEF Starting
  <2>2. webPay[k] = "reserved"
    BY <1>2, <2>1 DEF CommerceIInv, StartsFit
  <2> QED BY <2>1, <2>2 DEF OpenWeb, OpenWebFails, Served, Services
<1>5. /\ link' \in [Links -> [open : BOOLEAN, uses : Int]]
      /\ hold' \in [Invoices -> Checkouts \cup {NoHold}]
      /\ \A l \in Links : link'[l].uses = IF v = "none" /\ x = l /\ link[l].uses > 0
                                            THEN link[l].uses - 1 ELSE link[l].uses
  <2>1. CASE v = "pending"
    BY <1>t, <1>3, <2>1 DEF CommerceTypeOK
  <2>2. CASE v = "none"
    BY <1>t, <1>2, <1>a, <1>3, <2>2, ReleaseRows
  <2> QED BY <2>1, <2>2
<1>6. /\ serving'[s] = AtRest /\ \A t \in Servers \ {s} : serving'[t] = serving[t]
      /\ \A j \in Checkouts : webPay'[j] = IF j = k THEN v ELSE webPay[j]
  BY <1>t, <1>3, <1>4 DEF Typed, CommerceTypeOK
<1>7. CommerceTypeOK' /\ Typed'
  BY <1>t, <1>3, <1>4, <1>5 DEF CommerceTypeOK, Typed
<1>8. InvoicesFit'
  BY <1>4, <1>6 DEF CommerceIInv, InvoicesFit, Claimed, AtRest
<1>9. StartsFit'
  <2>1. \A t \in Servers : Starting(t, k) => t = s
    BY <1>2, <1>4 DEF CommerceIInv, StartsFit
  <2> QED BY <1>4, <1>6, <2>1 DEF CommerceIInv, StartsFit, Starting, AtRest
<1>10. LinksFit'
  <2>1. ASSUME NEW l \in Links, l \notin unrecorded'
        PROVE  /\ One(Takes(AtRest, l)) - One(Takes(serving[s], l))
                    + One(WebFor[k] = l /\ v \in Open) - One(WebFor[k] = l /\ webPay[k] \in Open)
                    <= link'[l].uses - link[l].uses
               /\ link'[l].uses <= MaxUses[l]
    <3>1. /\ ~Takes(serving[s], l) /\ ~Takes(AtRest, l)
          /\ webPay[k] \in Open /\ (v \in Open <=> v = "pending")
      BY <1>2, <1>3, <1>4 DEF Takes, Open, AtRest
    <3>2. link[l].uses <= MaxUses[l] /\ link[l].uses \in Int /\ MaxUses[l] \in Nat
      BY <1>t, <1>4, <2>1, CommerceAssumption DEF CommerceIInv, LinksFit, CommerceTypeOK
    <3> QED BY <1>a, <1>3, <1>5, <3>1, <3>2 DEF One
  <2> QED BY <1>t, <1>2, <1>3, <1>4, <1>7, <2>1, LinksFitCheckout DEF CommerceIInv
<1>11. MoneyFits'
  <2>1. \A y \in Invoices \cup Links : Loose(y)' \subseteq Loose(y)
    <3>1. \A j \in Checkouts : webPay'[j] = "completed" => webPay[j] = "completed"
      BY <1>3, <1>6
    <3>2. /\ serving' = [serving EXCEPT ![s] = AtRest] /\ serving[s].op # "settle"
          /\ exceptions \subseteq exceptions' /\ unrecorded \subseteq unrecorded'
      BY <1>2, <1>4
    <3> QED BY <1>t, <3>1, <3>2, LooseKept
  <2>2. \A y \in Invoices \cup Links : applied[y] <= applied'[y]
    BY <1>t, <1>4 DEF CommerceTypeOK
  <2> QED BY <1>t, <1>4, <1>7, <2>1, <2>2, MoneyFitsKept DEF CommerceIInv
<1> QED BY <1>7, <1>8, <1>9, <1>10, <1>11 DEF CommerceIInv

\* A checkout that a handler claims keeps its use until the handler is done.
LEMMA ClaimCheckoutStep ==
  ASSUME CommerceIInv, NEW s \in Servers, ClaimCheckout(s)
  PROVE  CommerceIInv'
<1>t. Typed /\ CommerceTypeOK
  BY DEF CommerceIInv, Typed
<1> DEFINE Looks == [op : {"reconcile", "settle", "release"}, id : Checkouts, was : LookedUp,
                     saw : Arrived \cup {"pending", "failed"}]
<1>1. PICK g : g = serving[s]
  OBVIOUS
<1>2. PICK to : to = IF g.saw \in Arrived THEN "settle" ELSE "release"
  OBVIOUS
<1>3. /\ g.op = "reconcile" /\ webPay[g.id] = g.was
      /\ serving' = [serving EXCEPT ![s] = [g EXCEPT !.op = to]]
      /\ webPay' = [webPay EXCEPT ![g.id] = Verdict(g.saw)]
      /\ UNCHANGED <<invoice, hold, link, late, provider, applied, exceptions, unrecorded>>
  BY <1>1, <1>2 DEF ClaimCheckout, OnTo
<1>4. g \in Looks
  BY <1>t, <1>1, <1>3 DEF Typed, Services, AtRest
<1>5. PICK h : h = [op |-> to, id |-> g.id, was |-> g.was, saw |-> g.saw]
  OBVIOUS
<1>6. /\ h \in Looks /\ [g EXCEPT !.op = to] = h /\ h.id = g.id /\ h.was = g.was /\ h.op = to
      /\ to \in {"settle", "release"}
  BY <1>2, <1>4, <1>5
<1>7. PICK k \in Checkouts : k = g.id
  BY <1>4
<1>8. PICK v \in {"failed", "expired", "completed"} : v = Verdict(g.saw)
  BY <1>4 DEF Verdict, Arrived
<1>9. /\ h \in Services /\ h.id = k /\ h.was = webPay[k] /\ webPay[k] \in LookedUp
      /\ v = "completed" => h.op = "settle"
      /\ h.op \in {"settle", "release"} /\ serving[s].op = "reconcile"
      /\ serving' = [serving EXCEPT ![s] = h] /\ webPay' = [webPay EXCEPT ![k] = v]
  <2>1. v = "completed" => g.saw \in Arrived
    BY <1>4, <1>8 DEF Verdict, Arrived
  <2>2. h \in Services /\ h.id = k
    BY <1>6, <1>7 DEF Services
  <2> QED BY <1>1, <1>2, <1>3, <1>4, <1>6, <1>7, <1>8, <2>1, <2>2
<1>10. /\ serving'[s] = h /\ \A t \in Servers \ {s} : serving'[t] = serving[t]
       /\ \A j \in Checkouts : webPay'[j] = IF j = k THEN v ELSE webPay[j]
  BY <1>t, <1>9 DEF Typed, CommerceTypeOK
<1>11. CommerceTypeOK' /\ Typed'
  <2>1. webPay' \in [Checkouts -> {"none", "reserved", "pending", "expired", "failed", "completed"}]
    BY <1>t, <1>9 DEF CommerceTypeOK
  <2>2. serving' \in [Servers -> Services] /\ DOMAIN serving' = Servers
    BY <1>t, <1>9 DEF Typed
  <2>3. UNCHANGED <<invoice, hold, link, late, provider, applied, exceptions, unrecorded>>
    BY <1>3
  <2> QED BY <1>t, <2>1, <2>2, <2>3 DEF CommerceTypeOK, Typed
<1>12. InvoicesFit'
  <2>1. \A t \in Servers, i \in Invoices : Claimed(t, i)' <=> Claimed(t, i)
    BY <1>9, <1>10 DEF Claimed
  <2>2. invoice' = invoice /\ applied' = applied /\ unrecorded' = unrecorded
    BY <1>3
  <2> QED BY <2>1, <2>2 DEF CommerceIInv, InvoicesFit
<1>13. StartsFit'
  <2>1. \A t \in Servers : ~Starting(t, k)
    BY <1>9 DEF CommerceIInv, StartsFit, LookedUp
  <2> QED BY <1>9, <1>10, <2>1 DEF CommerceIInv, StartsFit, Starting
<1>14. LinksFit'
  <2>1. ASSUME NEW l \in Links, l \notin unrecorded'
        PROVE  /\ One(Takes(h, l)) - One(Takes(serving[s], l))
                    + One(WebFor[k] = l /\ v \in Open) - One(WebFor[k] = l /\ webPay[k] \in Open)
                    <= link'[l].uses - link[l].uses
               /\ link'[l].uses <= MaxUses[l]
    <3>1. /\ ~Takes(serving[s], l) /\ v \notin Open
          /\ Takes(h, l) <=> (WebFor[k] = l /\ webPay[k] \in Open)
      BY <1>8, <1>9 DEF Takes, Open, LookedUp
    <3>2. link[l].uses <= MaxUses[l] /\ link[l].uses \in Int /\ MaxUses[l] \in Nat /\ link' = link
      BY <1>t, <1>3, <2>1, CommerceAssumption DEF CommerceIInv, LinksFit, CommerceTypeOK
    <3> QED BY <3>1, <3>2 DEF One
  <2>2. /\ webPay' = [webPay EXCEPT ![k] = v] /\ serving' = [serving EXCEPT ![s] = h]
        /\ unrecorded \subseteq unrecorded' /\ applied' = applied /\ LinksFit
    BY <1>3, <1>9 DEF CommerceIInv
  <2>3. \A l \in Links \ unrecorded' :
          /\ One(Takes(h, l)) - One(Takes(serving[s], l))
               + One(WebFor[k] = l /\ v \in Open) - One(WebFor[k] = l /\ webPay[k] \in Open)
               <= link'[l].uses - link[l].uses
          /\ link'[l].uses <= MaxUses[l]
    BY <2>1
  <2> QED BY <1>t, <1>11, <2>2, <2>3, LinksFitCheckout
<1>15. MoneyFits'
  <2>1. \A y \in Invoices \cup Links : Loose(y)' \subseteq Loose(y)
    <3>1. \A j \in Checkouts : webPay'[j] = "completed" =>
                                 webPay[j] = "completed" \/ (h.op = "settle" /\ h.id = j)
      BY <1>9, <1>10
    <3>2. /\ serving' = [serving EXCEPT ![s] = h] /\ serving[s].op # "settle"
          /\ exceptions \subseteq exceptions' /\ unrecorded \subseteq unrecorded'
      BY <1>3, <1>9
    <3> QED BY <1>t, <3>1, <3>2, LooseKept
  <2>2. \A y \in Invoices \cup Links : applied[y] <= applied'[y]
    BY <1>t, <1>3 DEF CommerceTypeOK
  <2> QED BY <1>t, <1>3, <1>11, <2>1, <2>2, MoneyFitsKept DEF CommerceIInv
<1> QED BY <1>11, <1>12, <1>13, <1>14, <1>15 DEF CommerceIInv

\* A use is given back by the one handler that has it.
LEMMA ReleaseStep ==
  ASSUME CommerceIInv, NEW s \in Servers, ReleaseCheckout(s)
  PROVE  CommerceIInv'
<1>t. Typed /\ CommerceTypeOK
  BY DEF CommerceIInv, Typed
<1>1. PICK k : k = serving[s].id
  OBVIOUS
<1>2. /\ k \in Checkouts /\ serving[s].op = "release"
  BY <1>t, <1>1 DEF ReleaseCheckout, Served, Typed, Services, AtRest
<1>a. PICK x \in Invoices \cup Links : x = WebFor[k]
  BY <1>2, CommerceAssumption
<1>4. /\ serving' = [serving EXCEPT ![s] = AtRest] /\ AtRest \in Services
      /\ UNCHANGED <<invoice, webPay, late, provider, applied, exceptions, unrecorded>>
      /\ IF StillReserved(s) THEN Release(k) ELSE UNCHANGED <<hold, link>>
  BY <1>1 DEF ReleaseCheckout, Served, Services
<1>5. /\ link' \in [Links -> [open : BOOLEAN, uses : Int]]
      /\ hold' \in [Invoices -> Checkouts \cup {NoHold}]
      /\ \A l \in Links : link'[l].uses = IF StillReserved(s) /\ x = l /\ link[l].uses > 0
                                            THEN link[l].uses - 1 ELSE link[l].uses
  <2>1. CASE ~StillReserved(s)
    BY <1>t, <1>4, <2>1 DEF CommerceTypeOK
  <2>2. CASE StillReserved(s)
    <3>1. Release(k)
      BY <1>4, <2>2
    <3> QED BY <1>t, <1>2, <1>a, <2>2, <3>1, ReleaseRows
  <2> QED BY <2>1, <2>2
<1>6. serving'[s] = AtRest /\ \A t \in Servers \ {s} : serving'[t] = serving[t]
  BY <1>t, <1>4 DEF Typed
<1>7. CommerceTypeOK' /\ Typed'
  BY <1>t, <1>4, <1>5 DEF CommerceTypeOK, Typed
<1>8. InvoicesFit'
  BY <1>4, <1>6 DEF CommerceIInv, InvoicesFit, Claimed, AtRest
<1>9. StartsFit'
  BY <1>4, <1>6 DEF CommerceIInv, StartsFit, Starting, AtRest
<1>10. LinksFit'
  <2>1. ASSUME NEW l \in Links, l \notin unrecorded'
        PROVE  /\ (applied'[l] - applied[l]) + One(Takes(AtRest, l)) - One(Takes(serving[s], l))
                    <= link'[l].uses - link[l].uses
               /\ link'[l].uses <= MaxUses[l]
    <3>1. /\ ~Takes(AtRest, l)
          /\ Takes(serving[s], l) <=> (StillReserved(s) /\ x = l)
      BY <1>1, <1>2, <1>a DEF Takes, AtRest, StillReserved
    <3>2. link[l].uses <= MaxUses[l] /\ link[l].uses \in Int /\ MaxUses[l] \in Nat
          /\ applied[l] \in Nat /\ applied' = applied
      BY <1>t, <1>4, <2>1, CommerceAssumption DEF CommerceIInv, LinksFit, CommerceTypeOK
    <3> QED BY <1>5, <3>1, <3>2 DEF One
  <2> QED BY <1>t, <1>4, <1>7, <2>1, LinksFitCall DEF CommerceIInv
<1>11. MoneyFits'
  <2>1. \A y \in Invoices \cup Links : Loose(y)' \subseteq Loose(y)
    BY <1>t, <1>2, <1>4, LooseKept
  <2>2. \A y \in Invoices \cup Links : applied[y] <= applied'[y]
    BY <1>t, <1>4 DEF CommerceTypeOK
  <2> QED BY <1>t, <1>4, <1>7, <2>1, <2>2, MoneyFitsKept DEF CommerceIInv
<1> QED BY <1>7, <1>8, <1>9, <1>10, <1>11 DEF CommerceIInv

\* Collected money is applied to its invoice or link, or recorded as an exception.
LEMMA SettleStep ==
  ASSUME CommerceIInv, NEW s \in Servers, SettleCheckout(s)
  PROVE  CommerceIInv'
<1>t. Typed /\ CommerceTypeOK
  BY DEF CommerceIInv, Typed
<1>1. PICK k : k = serving[s].id
  OBVIOUS
<1>2. k \in Checkouts /\ serving[s].op = "settle"
  BY <1>t, <1>1 DEF SettleCheckout, Served, Typed, Services, AtRest
<1>3. PICK x \in Invoices \cup Links : x = WebFor[k]
  BY <1>2, CommerceAssumption
<1>4. /\ serving' = [serving EXCEPT ![s] = AtRest] /\ AtRest \in Services
      /\ UNCHANGED <<webPay, late, provider, unrecorded>>
  BY DEF SettleCheckout, Served, Services
<1>5. CASE CanSettle(s, k)
  <2>1. /\ applied' = [applied EXCEPT ![x] = @ + 1] /\ UNCHANGED exceptions
        /\ x \in Invoices => /\ invoice[x] \in PAYABLE /\ UNCHANGED link
                             /\ invoice' = [invoice EXCEPT ![x] = "paid"]
                             /\ hold' = [hold EXCEPT ![x] = NoHold]
        /\ x \notin Invoices =>
             /\ StillReserved(s) \/ link[x].uses < MaxUses[x]
             /\ link' = [link EXCEPT ![x].uses = IF StillReserved(s) THEN @ ELSE @ + 1]
             /\ UNCHANGED <<invoice, hold>>
    BY <1>1, <1>3, <1>5 DEF SettleCheckout, CanSettle, Apply
  <2>2. /\ serving'[s] = AtRest /\ \A t \in Servers \ {s} : serving'[t] = serving[t]
        /\ \A y \in Invoices \cup Links : applied'[y] = IF y = x THEN applied[y] + 1 ELSE applied[y]
    BY <1>t, <1>4, <2>1 DEF Typed, CommerceTypeOK
  <2>3. CommerceTypeOK' /\ Typed'
    <3>1. invoice' \in [Invoices -> PAYABLE \cup {"draft", "paid", "cancelled"}]
          /\ hold' \in [Invoices -> Checkouts \cup {NoHold}]
      BY <1>t, <1>3, <2>1 DEF CommerceTypeOK
    <3>2. link' \in [Links -> [open : BOOLEAN, uses : Int]]
          /\ applied' \in [Invoices \cup Links -> Nat]
      BY <1>t, <1>3, <2>1 DEF CommerceTypeOK
    <3> QED BY <1>t, <1>4, <2>1, <3>1, <3>2 DEF CommerceTypeOK, Typed
  <2>4. InvoicesFit'
    <3>1. ASSUME NEW i \in Invoices, i \notin unrecorded'
          PROVE  /\ applied'[i] <= 1 /\ (applied'[i] = 1 => invoice'[i] = "paid")
                 /\ \A t \in Servers : Claimed(t, i)' => invoice'[i] = "paid" /\ applied'[i] = 0
                 /\ \A t, u \in Servers : Claimed(t, i)' /\ Claimed(u, i)' => t = u
      <4>1. /\ applied[i] <= 1 /\ (applied[i] = 1 => invoice[i] = "paid") /\ applied[i] \in Nat
            /\ \A t \in Servers : Claimed(t, i) => invoice[i] = "paid" /\ applied[i] = 0
            /\ \A t, u \in Servers : Claimed(t, i) /\ Claimed(u, i) => t = u
        BY <1>t, <1>4, <3>1 DEF CommerceIInv, InvoicesFit, CommerceTypeOK
      <4>2. \A t \in Servers : Claimed(t, i)' => Claimed(t, i)
        BY <2>2 DEF Claimed, AtRest
      <4>3. CASE i = x
        <5>1. invoice[i] # "paid" /\ applied[i] = 0
          BY <2>1, <4>1, <4>3 DEF PAYABLE
        <5>2. applied'[i] = 1 /\ invoice'[i] = "paid"
          BY <1>t, <2>1, <2>2, <4>3, <5>1 DEF CommerceTypeOK
        <5> QED BY <4>1, <4>2, <5>1, <5>2
      <4>4. CASE i # x
        <5>1. invoice'[i] = invoice[i] /\ applied'[i] = applied[i]
          BY <1>t, <2>1, <2>2, <4>4 DEF CommerceTypeOK
        <5> QED BY <4>1, <4>2, <5>1
      <4> QED BY <4>3, <4>4
    <3> QED BY <3>1 DEF InvoicesFit
  <2>5. StartsFit'
    BY <1>4, <2>2 DEF CommerceIInv, StartsFit, Starting, AtRest
  <2>6. LinksFit'
    <3>1. ASSUME NEW l \in Links, l \notin unrecorded'
          PROVE  /\ (applied'[l] - applied[l]) + One(Takes(AtRest, l)) - One(Takes(serving[s], l))
                      <= link'[l].uses - link[l].uses
                 /\ link'[l].uses <= MaxUses[l]
      <4>1. /\ ~Takes(AtRest, l)
            /\ Takes(serving[s], l) <=> (StillReserved(s) /\ x = l)
        BY <1>1, <1>2, <1>3 DEF Takes, AtRest, StillReserved
      <4>2. link[l].uses <= MaxUses[l] /\ link[l].uses \in Int /\ MaxUses[l] \in Nat
            /\ applied[l] \in Nat
        BY <1>t, <1>4, <3>1, CommerceAssumption DEF CommerceIInv, LinksFit, CommerceTypeOK
      <4>3. CASE x = l
        <5>1. x \notin Invoices
          BY <3>1, <4>3, CommerceAssumption
        <5>2. link'[l].uses = IF StillReserved(s) THEN link[l].uses ELSE link[l].uses + 1
          BY <1>t, <2>1, <4>3, <5>1 DEF CommerceTypeOK
        <5> QED BY <2>1, <2>2, <4>1, <4>2, <4>3, <5>1, <5>2 DEF One
      <4>4. CASE x # l
        <5>1. link'[l].uses = link[l].uses
          BY <1>t, <2>1, <4>4 DEF CommerceTypeOK
        <5> QED BY <2>2, <4>1, <4>2, <4>4, <5>1 DEF One
      <4> QED BY <4>3, <4>4
    <3> QED BY <1>t, <1>4, <2>3, <3>1, LinksFitCall DEF CommerceIInv
  <2>7. MoneyFits'
    <3>1. \A j \in Checkouts : j # k /\ InHand(j) => InHand(j)'
      BY <1>1, <2>2 DEF InHand
    <3>2. \A y \in Invoices \cup Links :
            Loose(y)' \subseteq (IF y = x THEN Loose(y) \cup {k} ELSE Loose(y))
      BY <1>3, <1>4, <2>1, <3>1 DEF Loose
    <3>3. ASSUME NEW y \in Invoices \cup Links, y \notin unrecorded'
          PROVE  Cardinality(Loose(y)') <= applied'[y]
      <4>1. IsFiniteSet(Loose(y)) /\ IsFiniteSet(Loose(y) \cup {k})
        <5>1. IsFiniteSet(Loose(y))
          BY CommerceAssumption, FS_Subset DEF Loose
        <5> QED BY <5>1, FS_AddElement
      <4>2. /\ Cardinality(Loose(y)) \in Nat /\ Cardinality(Loose(y) \cup {k}) \in Nat
            /\ Cardinality(Loose(y) \cup {k}) <= Cardinality(Loose(y)) + 1
        BY <4>1, FS_AddElement, FS_CardinalityType
      <4>3. Cardinality(Loose(y)) <= applied[y] /\ applied[y] \in Nat
        BY <1>t, <1>4, <3>3 DEF CommerceIInv, MoneyFits, CommerceTypeOK
      <4>4. CASE y = x
        <5>1. Cardinality(Loose(y)') \in Nat
              /\ Cardinality(Loose(y)') <= Cardinality(Loose(y) \cup {k})
          BY <3>2, <4>1, <4>4, FS_Subset, FS_CardinalityType
        <5> QED BY <2>2, <4>2, <4>3, <4>4, <5>1
      <4>5. CASE y # x
        <5>1. Cardinality(Loose(y)') \in Nat /\ Cardinality(Loose(y)') <= Cardinality(Loose(y))
          BY <3>2, <4>1, <4>5, FS_Subset, FS_CardinalityType
        <5> QED BY <2>2, <4>2, <4>3, <4>5, <5>1
      <4> QED BY <4>4, <4>5
    <3> QED BY <3>3 DEF MoneyFits
  <2> QED BY <2>3, <2>4, <2>5, <2>6, <2>7 DEF CommerceIInv
<1>6. CASE ~CanSettle(s, k)
  <2>1. exceptions' = exceptions \cup {k} /\ UNCHANGED <<invoice, hold, link, applied>>
    BY <1>1, <1>6 DEF SettleCheckout, RecordException
  <2>2. serving'[s] = AtRest /\ \A t \in Servers \ {s} : serving'[t] = serving[t]
    BY <1>t, <1>4 DEF Typed
  <2>3. CommerceTypeOK' /\ Typed'
    BY <1>t, <1>2, <1>4, <2>1 DEF CommerceTypeOK, Typed
  <2>4. InvoicesFit'
    BY <1>4, <2>1, <2>2 DEF CommerceIInv, InvoicesFit, Claimed, AtRest
  <2>5. StartsFit'
    BY <1>4, <2>2 DEF CommerceIInv, StartsFit, Starting, AtRest
  <2>6. LinksFit'
    <3>1. ASSUME NEW l \in Links, l \notin unrecorded'
          PROVE  /\ (applied'[l] - applied[l]) + One(Takes(AtRest, l)) - One(Takes(serving[s], l))
                      <= link'[l].uses - link[l].uses
                 /\ link'[l].uses <= MaxUses[l]
      <4>1. ~Takes(AtRest, l)
        BY DEF Takes, AtRest
      <4>2. link[l].uses <= MaxUses[l] /\ link[l].uses \in Int /\ MaxUses[l] \in Nat
            /\ applied[l] \in Nat
        BY <1>t, <1>4, <3>1, CommerceAssumption DEF CommerceIInv, LinksFit, CommerceTypeOK
      <4> QED BY <2>1, <4>1, <4>2 DEF One
    <3> QED BY <1>t, <1>4, <2>3, <3>1, LinksFitCall DEF CommerceIInv
  <2>7. MoneyFits'
    <3>1. \A j \in Checkouts : j # k /\ InHand(j) => InHand(j)'
      BY <1>1, <2>2 DEF InHand
    <3>2. \A y \in Invoices \cup Links : Loose(y)' \subseteq Loose(y) /\ applied[y] <= applied'[y]
      BY <1>t, <1>4, <2>1, <3>1 DEF Loose, CommerceTypeOK
    <3> QED BY <1>t, <1>4, <2>3, <3>2, MoneyFitsKept DEF CommerceIInv
  <2> QED BY <2>3, <2>4, <2>5, <2>6, <2>7 DEF CommerceIInv
<1> QED BY <1>5, <1>6

\* What a handler that fails leaves: a use stays taken, and a payment it had to
\* settle is known to be unrecorded.
LEMMA ReconcileFailsStep ==
  ASSUME CommerceIInv, NEW s \in Servers, ReconcileFails(s)
  PROVE  CommerceIInv'
<1>t. Typed /\ CommerceTypeOK
  BY DEF CommerceIInv, Typed
<1>1. /\ serving' = [serving EXCEPT ![s] = AtRest] /\ AtRest \in Services
      /\ serving[s].op \in {"settle", "release"} /\ serving[s].id \in Checkouts
      /\ UNCHANGED <<invoice, hold, link, webPay, late, provider, applied, exceptions>>
  BY <1>t DEF ReconcileFails, Typed, Services, AtRest
<1>2. /\ unrecorded \subseteq unrecorded' /\ unrecorded' \subseteq unrecorded \cup {serving[s].id}
      /\ serving[s].op = "settle" => serving[s].id \in unrecorded'
  BY DEF ReconcileFails
<1>3. serving'[s] = AtRest /\ \A t \in Servers \ {s} : serving'[t] = serving[t]
  BY <1>t, <1>1 DEF Typed
<1>4. CommerceTypeOK' /\ Typed'
  BY <1>t, <1>1, <1>2 DEF CommerceTypeOK, Typed
<1>5. InvoicesFit'
  BY <1>1, <1>2, <1>3 DEF CommerceIInv, InvoicesFit, Claimed, AtRest
<1>6. StartsFit'
  BY <1>1, <1>3 DEF CommerceIInv, StartsFit, Starting, AtRest
<1>7. LinksFit'
  <2>1. ASSUME NEW l \in Links, l \notin unrecorded'
        PROVE  /\ (applied'[l] - applied[l]) + One(Takes(AtRest, l)) - One(Takes(serving[s], l))
                    <= link'[l].uses - link[l].uses
               /\ link'[l].uses <= MaxUses[l]
    <3>1. ~Takes(AtRest, l)
      BY DEF Takes, AtRest
    <3>2. link[l].uses <= MaxUses[l] /\ link[l].uses \in Int /\ MaxUses[l] \in Nat
          /\ applied[l] \in Nat
      BY <1>t, <1>2, <2>1, CommerceAssumption DEF CommerceIInv, LinksFit, CommerceTypeOK
    <3> QED BY <1>1, <3>1, <3>2 DEF One
  <2> QED BY <1>t, <1>1, <1>2, <1>4, <2>1, LinksFitCall DEF CommerceIInv
<1>8. MoneyFits'
  <2>1. \A k \in Checkouts : InHand(k) => InHand(k)' \/ k \in unrecorded'
    BY <1>2, <1>3 DEF InHand
  <2>2. \A y \in Invoices \cup Links : Loose(y)' \subseteq Loose(y) /\ applied[y] <= applied'[y]
    BY <1>t, <1>1, <1>2, <2>1 DEF Loose, CommerceTypeOK
  <2> QED BY <1>t, <1>2, <1>4, <2>2, MoneyFitsKept DEF CommerceIInv
<1> QED BY <1>4, <1>5, <1>6, <1>7, <1>8 DEF CommerceIInv

\* A restart keeps what is claimed: uses stay taken, and what was in hand is known
\* to be unrecorded.
LEMMA RestartStep ==
  ASSUME CommerceIInv, CommerceRestart
  PROVE  CommerceIInv'
<1>t. Typed /\ CommerceTypeOK
  BY DEF CommerceIInv, Typed
<1>1. /\ serving' = [s \in Servers |-> AtRest]
      /\ unrecorded' = unrecorded \cup {serving[s].id : s \in
            {t \in Servers : serving[t].op \in {"claimed", "settle", "transferred"}}}
      /\ UNCHANGED <<invoice, hold, link, webPay, late, provider, applied, exceptions>>
  BY DEF CommerceRestart
<1>2. CommerceTypeOK' /\ Typed'
  <2>1. \A t \in Servers : serving[t].op \in {"claimed", "settle", "transferred"}
                             => serving[t].id \in Invoices \cup Links \cup Checkouts
    BY <1>t DEF Typed, Services, AtRest
  <2>2. unrecorded' \subseteq Invoices \cup Links \cup Checkouts
    BY <1>t, <1>1, <2>1 DEF CommerceTypeOK
  <2>3. AtRest \in Services
    BY DEF Services
  <2> QED BY <1>t, <1>1, <2>2, <2>3 DEF CommerceTypeOK, Typed
<1>3. InvoicesFit'
  <2>1. \A t \in Servers, i \in Invoices : ~Claimed(t, i)'
    BY <1>1 DEF Claimed, AtRest
  <2> QED BY <1>1, <2>1 DEF CommerceIInv, InvoicesFit
<1>4. StartsFit'
  BY <1>1 DEF StartsFit, Starting, AtRest
<1>5. LinksFit'
  <2>1. ASSUME NEW l \in Links, l \notin unrecorded'
        PROVE  /\ applied'[l] + Cardinality(OpenFor(l)') + Cardinality(TakenBy(l)') <= link'[l].uses
               /\ link'[l].uses <= MaxUses[l]
    <3>1. TakenBy(l)' = {} /\ OpenFor(l)' = OpenFor(l)
      BY <1>1 DEF TakenBy, Takes, AtRest, OpenFor
    <3>2. Cardinality(OpenFor(l)) \in Nat /\ Cardinality(TakenBy(l)) \in Nat
          /\ Cardinality(TakenBy(l)') = 0
      <4>1. IsFiniteSet(OpenFor(l)) /\ IsFiniteSet(TakenBy(l))
        BY CommerceAssumption, FS_Subset DEF OpenFor, TakenBy
      <4> QED BY <3>1, <4>1, FS_CardinalityType, FS_EmptySet
    <3>3. /\ applied[l] + Cardinality(OpenFor(l)) + Cardinality(TakenBy(l)) <= link[l].uses
          /\ link[l].uses <= MaxUses[l]
      BY <1>1, <2>1 DEF CommerceIInv, LinksFit
    <3>4. applied[l] \in Nat /\ link[l].uses \in Int
      BY <1>t, <2>1 DEF CommerceTypeOK
    <3> QED BY <1>1, <3>1, <3>2, <3>3, <3>4
  <2> QED BY <2>1 DEF LinksFit
<1>6. MoneyFits'
  <2>1. \A k \in Checkouts : InHand(k) => k \in unrecorded'
    BY <1>1 DEF InHand
  <2>2. \A y \in Invoices \cup Links : Loose(y)' \subseteq Loose(y) /\ applied[y] <= applied'[y]
    BY <1>t, <1>1, <2>1 DEF Loose, CommerceTypeOK
  <2> QED BY <1>t, <1>1, <1>2, <2>2, MoneyFitsKept DEF CommerceIInv
<1> QED BY <1>2, <1>3, <1>4, <1>5, <1>6 DEF CommerceIInv

\* Every step of payers, merchants, providers, the job and a restart.
LEMMA CommerceInductive == CommerceIInv /\ [NextCommerce]_shopVars => CommerceIInv'
<1> SUFFICES ASSUME CommerceIInv, [NextCommerce]_shopVars PROVE CommerceIInv'
  OBVIOUS
<1>1. CASE UNCHANGED shopVars
  <2>1. CommerceTypeOK'
    BY <1>1 DEF shopVars, CommerceIInv, Typed, CommerceTypeOK
  <2> QED BY <1>1, <2>1, NoHandler DEF shopVars
<1>2. CASE \/ \E i \in Invoices : SendInvoice(i) \/ ViewInvoice(i) \/ MarkOverdue(i) \/ CancelInvoice(i)
           \/ \E l \in Links : SetLinkActive(l)
           \/ \E k \in Checkouts : TimePasses(k) \/ \E answer \in Arrived \cup {"failed"} : ProviderDecides(k, answer)
  BY <1>2, MerchantStep
<1>3. ASSUME NEW s \in Servers,
             \/ \E i \in Invoices : BeginPayInvoice(s, i)
             \/ \E l \in Links : BeginPayLink(s, l)
             \/ \E k \in Checkouts : StartWeb(s, k) \/ BeginReconcile(s, k)
             \/ ClaimItem(s) \/ ClaimItemLost(s) \/ TransferForItem(s) \/ TransferRefused(s)
             \/ RecordPayment(s) \/ RecordPaymentFails(s)
             \/ OpenWeb(s) \/ OpenWebFails(s)
             \/ ClaimCheckout(s) \/ ClaimCheckoutLost(s) \/ ReleaseCheckout(s) \/ SettleCheckout(s)
             \/ ReconcileFails(s)
      PROVE  CommerceIInv'
  BY <1>3, QuietStep, ClaimStep, TransferStep, GiveUpStep, StartWebStep, OpenWebStep,
     ClaimCheckoutStep, ReleaseStep, SettleStep, ReconcileFailsStep
<1> QED BY <1>1, <1>2, <1>3, RestartStep DEF NextCommerce

\* A checkout is closed as failed, or about to be, only after a failure was reported
\* for it; the payment may still have come after that.
FailureSeen ==
  /\ \A k \in Checkouts : webPay[k] = "failed" => provider[k] \in {"failed", "revived"}
  /\ \A s \in Servers : serving[s].op = "reconcile" /\ serving[s].saw = "failed"
                         => provider[serving[s].id] \in {"failed", "revived"}

\* The provider's answer changes from pending, or from failed to paid, and reconcile
\* writes what it was told.
LEMMA FailureSeenKept ==
  CommerceIInv /\ FailureSeen /\ [NextCommerce]_shopVars => FailureSeen'
<1> SUFFICES ASSUME CommerceIInv, FailureSeen, [NextCommerce]_shopVars PROVE FailureSeen'
  OBVIOUS
<1>t. Typed /\ CommerceTypeOK
  BY DEF CommerceIInv, Typed
<1>1. ASSUME \A k \in Checkouts : /\ webPay'[k] = "failed" => webPay[k] = "failed"
                                  /\ provider[k] \in {"failed", "revived"}
                                       => provider'[k] \in {"failed", "revived"},
             \A s \in Servers : serving'[s].op = "reconcile" => serving'[s] = serving[s]
      PROVE  FailureSeen'
  <2>1. \A s \in Servers : serving[s].op = "reconcile" => serving[s].id \in Checkouts
    BY <1>t DEF Typed, Services, AtRest
  <2> QED BY <1>1, <2>1 DEF FailureSeen
<1>2. CASE UNCHANGED shopVars
  BY <1>1, <1>2 DEF shopVars
<1>3. ASSUME NEW k \in Checkouts, NEW answer \in Arrived \cup {"failed"}, ProviderDecides(k, answer)
      PROVE  FailureSeen'
  <2>1. \A j \in Checkouts : provider[j] \in {"failed", "revived"}
                                => provider'[j] \in {"failed", "revived"}
    BY <1>3, <1>t DEF ProviderDecides, CommerceTypeOK, Arrived
  <2> QED BY <1>1, <1>3, <2>1 DEF ProviderDecides
<1>4. ASSUME NEW s \in Servers, NEW k \in Checkouts, BeginReconcile(s, k)
      PROVE  FailureSeen'
  <2>1. PICK h : h = [op |-> "reconcile", id |-> k, was |-> webPay[k], saw |-> provider[k]]
    OBVIOUS
  <2>2. /\ serving'[s] = h /\ \A t \in Servers \ {s} : serving'[t] = serving[t]
        /\ h.id = k /\ h.saw = provider[k] /\ webPay' = webPay /\ provider' = provider
    BY <1>4, <1>t, <2>1 DEF BeginReconcile, Serve, Typed
  <2> QED BY <2>2 DEF FailureSeen
<1>5. ASSUME NEW s \in Servers, ClaimCheckout(s) PROVE FailureSeen'
  <2>1. /\ serving[s].op = "reconcile" /\ provider' = provider
        /\ \A t \in Servers : serving'[t].op = "reconcile" => serving'[t] = serving[t]
    BY <1>5, <1>t DEF ClaimCheckout, OnTo, Typed
  <2>2. serving[s].id \in Checkouts /\ serving[s].saw \in Arrived \cup {"pending", "failed"}
    BY <1>t, <2>1 DEF Typed, Services, AtRest
  <2>3. \A k \in Checkouts : webPay'[k] = "failed" =>
          webPay[k] = "failed" \/ (k = serving[s].id /\ serving[s].saw = "failed")
    BY <1>5, <1>t, <2>2 DEF ClaimCheckout, Verdict, CommerceTypeOK
  <2>4. \A t \in Servers : serving[t].op = "reconcile" => serving[t].id \in Checkouts
    BY <1>t DEF Typed, Services, AtRest
  <2> QED BY <2>1, <2>3, <2>4 DEF FailureSeen
<1>6. ASSUME NEW s \in Servers, NEW k \in Checkouts, StartWeb(s, k) PROVE FailureSeen'
  <2>1. /\ provider' = provider /\ \A j \in Checkouts : webPay'[j] = "failed" => webPay[j] = "failed"
        /\ \A t \in Servers : serving'[t].op = "reconcile" => serving'[t] = serving[t]
    BY <1>6, <1>t DEF StartWeb, Serve, Typed, CommerceTypeOK
  <2> QED BY <1>1, <2>1
<1>7. ASSUME NEW s \in Servers, OpenWeb(s) \/ OpenWebFails(s) PROVE FailureSeen'
  <2>1. /\ provider' = provider /\ \A j \in Checkouts : webPay'[j] = "failed" => webPay[j] = "failed"
        /\ \A t \in Servers : serving'[t].op = "reconcile" => serving'[t] = serving[t]
    BY <1>7, <1>t DEF OpenWeb, OpenWebFails, Served, Typed, CommerceTypeOK, AtRest
  <2> QED BY <1>1, <2>1
<1>8. CASE CommerceRestart
  BY <1>1, <1>8 DEF CommerceRestart, AtRest
<1>9. CASE \/ \E i \in Invoices : SendInvoice(i) \/ ViewInvoice(i) \/ MarkOverdue(i) \/ CancelInvoice(i)
           \/ \E l \in Links : SetLinkActive(l)
           \/ \E k \in Checkouts : TimePasses(k)
  BY <1>1, <1>9 DEF SendInvoice, ViewInvoice, MarkOverdue, CancelInvoice, InvoiceMoves,
     SetLinkActive, TimePasses
<1>10. ASSUME NEW s \in Servers,
              \/ \E i \in Invoices : BeginPayInvoice(s, i)
              \/ \E l \in Links : BeginPayLink(s, l)
              \/ ClaimItem(s) \/ ClaimItemLost(s) \/ TransferForItem(s) \/ TransferRefused(s)
              \/ RecordPayment(s) \/ RecordPaymentFails(s)
              \/ ClaimCheckoutLost(s) \/ ReleaseCheckout(s) \/ SettleCheckout(s)
              \/ ReconcileFails(s)
       PROVE  FailureSeen'
  <2>1. provider' = provider /\ webPay' = webPay
    BY <1>10 DEF BeginPayInvoice, BeginPayLink, ClaimItem, ClaimItemLost, TransferForItem,
       TransferRefused, RecordPayment, RecordPaymentFails, ClaimCheckoutLost, ReleaseCheckout,
       SettleCheckout, ReconcileFails
  <2>2. \A t \in Servers \ {s} : serving'[t] = serving[t]
    BY <1>10, <1>t DEF BeginPayInvoice, BeginPayLink, ClaimItem, ClaimItemLost, TransferForItem,
       TransferRefused, RecordPayment, RecordPaymentFails, ClaimCheckoutLost, ReleaseCheckout,
       SettleCheckout, ReconcileFails, Serve, OnTo, Served, Typed
  <2>3. serving'[s].op # "reconcile"
    <3>1. CASE (\E i \in Invoices : BeginPayInvoice(s, i)) \/ \E l \in Links : BeginPayLink(s, l)
      BY <1>t, <3>1 DEF BeginPayInvoice, BeginPayLink, Serve, Typed
    <3>2. CASE ClaimItem(s) \/ TransferForItem(s)
      <4>1. PICK h \in Services : serving' = [serving EXCEPT ![s] = h]
                                  /\ h.op \in {"claimed", "transferred"}
        BY <1>t, <3>2, PayOnTo DEF ClaimItem, TransferForItem
      <4> QED BY <1>t, <4>1 DEF Typed
    <3>3. CASE \/ ClaimItemLost(s) \/ TransferRefused(s) \/ RecordPayment(s)
               \/ RecordPaymentFails(s) \/ ClaimCheckoutLost(s) \/ ReleaseCheckout(s)
               \/ SettleCheckout(s) \/ ReconcileFails(s)
      <4>1. serving'[s] = AtRest
        BY <1>t, <3>3 DEF ClaimItemLost, TransferRefused, RecordPayment, RecordPaymentFails,
           ClaimCheckoutLost, ReleaseCheckout, SettleCheckout, ReconcileFails, Served, Typed
      <4> QED BY <4>1 DEF AtRest
    <3> QED BY <1>10, <3>1, <3>2, <3>3
  <2> QED BY <1>1, <2>1, <2>2, <2>3
<1> QED BY <1>2, <1>3, <1>4, <1>5, <1>6, <1>7, <1>8, <1>9, <1>10 DEF NextCommerce

\* An invoice is paid once, a link never more often than max_uses, and money
\* collected on the web is applied or kept as an exception, except where a write
\* after the payment failed or was never reached, and where the payment came after a
\* failure for which the checkout was closed.
THEOREM SoldWithinLimits == CommerceSpec => []CommerceInv
<1>1. InitCommerce => CommerceIInv /\ FailureSeen
  <2> SUFFICES ASSUME InitCommerce PROVE CommerceIInv /\ FailureSeen
    OBVIOUS
  <2>1. Typed
    BY DEF InitCommerce, Typed, CommerceTypeOK, Services, PAYABLE
  <2>5. FailureSeen
    BY DEF InitCommerce, FailureSeen, AtRest
  <2>2. InvoicesFit /\ StartsFit
    BY DEF InitCommerce, InvoicesFit, StartsFit, Claimed, Starting, AtRest
  <2>3. LinksFit
    <3>1. ASSUME NEW l \in Links
          PROVE  OpenFor(l) = {} /\ TakenBy(l) = {} /\ applied[l] = 0 /\ link[l].uses = 0
                 /\ MaxUses[l] \in Nat
      BY CommerceAssumption DEF InitCommerce, OpenFor, Open, TakenBy, Takes, AtRest
    <3>2. Cardinality({}) = 0
      BY FS_EmptySet
    <3>3. ASSUME NEW l \in Links
          PROVE  /\ applied[l] + Cardinality(OpenFor(l)) + Cardinality(TakenBy(l)) <= link[l].uses
                 /\ link[l].uses <= MaxUses[l]
      <4>1. Cardinality(OpenFor(l)) = 0 /\ Cardinality(TakenBy(l)) = 0
        BY <3>1, <3>2
      <4> QED BY <3>1, <4>1
    <3> QED BY <3>3 DEF LinksFit
  <2>4. MoneyFits
    <3>1. ASSUME NEW x \in Invoices \cup Links PROVE Loose(x) = {} /\ applied[x] = 0
      BY DEF InitCommerce, Loose
    <3> QED BY <3>1, FS_EmptySet DEF MoneyFits
  <2> QED BY <2>1, <2>2, <2>3, <2>4, <2>5 DEF CommerceIInv
<1>2. CommerceIInv /\ FailureSeen => CommerceInv
  <2> SUFFICES ASSUME CommerceIInv, FailureSeen PROVE CommerceInv
    OBVIOUS
  <2>1. CommerceTypeOK /\ InvoicePaidOnce
    BY DEF CommerceIInv, Typed, InvoicesFit, InvoicePaidOnce
  <2>2. LinkUsesCounted
    <3>1. ASSUME NEW l \in Links \ unrecorded
          PROVE  /\ applied[l] + Cardinality({k \in Checkouts : WebFor[k] = l /\ webPay[k] = "pending"})
                      <= link[l].uses
                 /\ link[l].uses <= MaxUses[l]
      <4>1. PICK part : part = {k \in Checkouts : WebFor[k] = l /\ webPay[k] = "pending"}
        OBVIOUS
      <4>2. IsFiniteSet(OpenFor(l)) /\ IsFiniteSet(TakenBy(l)) /\ part \subseteq OpenFor(l)
        BY <4>1, CommerceAssumption, FS_Subset DEF OpenFor, TakenBy, Open
      <4>3. /\ Cardinality(part) \in Nat /\ Cardinality(OpenFor(l)) \in Nat
               /\ Cardinality(TakenBy(l)) \in Nat
            /\ Cardinality(part) <= Cardinality(OpenFor(l))
        BY <4>2, FS_Subset, FS_CardinalityType
      <4>4. /\ applied[l] + Cardinality(OpenFor(l)) + Cardinality(TakenBy(l)) <= link[l].uses
            /\ link[l].uses <= MaxUses[l] /\ applied[l] \in Nat /\ link[l].uses \in Int
        BY DEF CommerceIInv, LinksFit, Typed, CommerceTypeOK
      <4> QED BY <4>1, <4>3, <4>4
    <3> QED BY <3>1 DEF LinkUsesCounted
  <2>3. WebMoneyAccounted
    <3>1. \A x : Loose(x) = {k \in {j \in Checkouts : WebFor[j] = x /\ webPay[j] = "completed"} :
                               ~InHand(k) /\ k \notin exceptions \cup unrecorded}
      BY DEF Loose
    <3>2. \A k \in Checkouts : webPay[k] = "failed" => provider[k] # "completed"
      BY DEF FailureSeen
    <3> QED BY <3>1, <3>2 DEF CommerceIInv, MoneyFits, WebMoneyAccounted
  <2> QED BY <2>1, <2>2, <2>3 DEF CommerceInv
<1> QED BY <1>1, <1>2, CommerceInductive, FailureSeenKept, PTL DEF CommerceSpec

----------------------------------------------------------------------------
(* Payouts by API key.                                                     *)

ApiPayoutsSpec == InitApiPayouts /\ [][NextApiPayouts]_payoutVars

\* The call whose claim on a key stands.
KeyHeld(c, k) == payoutCall[c].op \in {"claimed", "created"} /\ payoutCall[c].id = k

ApiPayoutsIInv ==
  /\ ApiPayoutsTypeOK
  /\ \A c, d \in Clients, k \in Keys : KeyHeld(c, k) /\ KeyHeld(d, k) => c = d
  /\ \A c \in Clients, k \in Keys : KeyHeld(c, k) => payout[k] = "processing"
  /\ \A k \in Keys \ unwritten :
       /\ \A c \in Clients :
            KeyHeld(c, k) => withdrawn[k] = IF payoutCall[c].op = "created" THEN 1 ELSE 0
       /\ payout[k] \in {"none", "failed"} => withdrawn[k] = 0
  /\ PayoutOncePerKey

\* Claim, creation of the withdrawal and the record of it keep one holder per
\* key.
LEMMA ApiPayoutsInductive == ApiPayoutsIInv /\ [NextApiPayouts]_payoutVars => ApiPayoutsIInv'
<1> SUFFICES ASSUME ApiPayoutsIInv, [NextApiPayouts]_payoutVars PROVE ApiPayoutsIInv'
  OBVIOUS
<1> USE DEF ApiPayoutsIInv, ApiPayoutsTypeOK, KeyHeld, PayoutOncePerKey, NoCall, CallTo,
    CallEnds
<1>1. ASSUME NEW c \in Clients, NEW k \in Keys, Ask(c, k) PROVE ApiPayoutsIInv'
  BY <1>1 DEF Ask
<1>2. ASSUME NEW c \in Clients, ClaimKey(c) \/ ClaimKeyLost(c) PROVE ApiPayoutsIInv'
  BY <1>2 DEF ClaimKey, ClaimKeyLost, Retryable
<1>3. ASSUME NEW c \in Clients, CreatePayout(c) PROVE ApiPayoutsIInv'
  BY <1>3 DEF CreatePayout
<1>4. ASSUME NEW c \in Clients, CreatePayoutRefused(c) PROVE ApiPayoutsIInv'
  BY <1>4 DEF CreatePayoutRefused
<1>5. ASSUME NEW c \in Clients, WriteOutcome(c) \/ WriteOutcomeFails(c) PROVE ApiPayoutsIInv'
  BY <1>5 DEF WriteOutcome, WriteOutcomeFails
<1>6. CASE PayoutRestart
  BY <1>6 DEF PayoutRestart
<1>7. CASE UNCHANGED payoutVars
  BY <1>7 DEF payoutVars
<1> QED BY <1>1, <1>2, <1>3, <1>4, <1>5, <1>6, <1>7 DEF NextApiPayouts

\* An idempotency key creates at most one withdrawal, unless the row was not
\* written after it.
THEOREM OnePayoutPerKey == ApiPayoutsSpec => []ApiPayoutsInv
<1>1. InitApiPayouts => ApiPayoutsIInv
  BY DEF InitApiPayouts, ApiPayoutsIInv, ApiPayoutsTypeOK, KeyHeld, PayoutOncePerKey, NoCall
<1>2. ApiPayoutsIInv => ApiPayoutsInv
  BY DEF ApiPayoutsIInv, ApiPayoutsInv
<1> QED BY <1>1, <1>2, ApiPayoutsInductive, PTL DEF ApiPayoutsSpec

----------------------------------------------------------------------------
(* Deliveries of webhooks to businesses.                                   *)

HookDeliveriesSpec == InitHookDeliveries /\ [][NextHookDeliveries]_deliveryVars

\* A poster at work on a delivery.
Posting == [op : {"post", "ok", "refused"}, id : Deliveries, attempts : Nat \ {0}]

\* An attempt is recorded only after its post, and a delivery not given up has
\* attempts left.
DeliveriesIInv ==
  /\ HookDeliveriesTypeOK
  /\ posting \in [Posters -> {Off} \cup Posting]
  /\ \A d \in Deliveries \ manual :
       /\ delivery[d].attempts <= tried[d] /\ tried[d] <= MAX_ATTEMPTS
       /\ delivery[d].status \in Undelivered => delivery[d].attempts < MAX_ATTEMPTS
       /\ delivery[d].status = "failed" => tried[d] >= MAX_ATTEMPTS
       /\ \A p \in Posters :
            posting[p] # Off /\ posting[p].id = d =>
              /\ posting[p].attempts <= MAX_ATTEMPTS
              /\ posting[p].attempts <= tried[d] + (IF posting[p].op = "post" THEN 1 ELSE 0)

\* Claims, posts, their records and the resets by hand keep the count.
LEMMA DeliveriesInductive == DeliveriesIInv
/\ [NextHookDeliveries]_deliveryVars => DeliveriesIInv'
<1> SUFFICES ASSUME DeliveriesIInv, [NextHookDeliveries]_deliveryVars PROVE DeliveriesIInv'
  OBVIOUS
<1> USE HookDeliveriesAssumption DEF DeliveriesIInv, HookDeliveriesTypeOK, Posting, Off,
    Attempt, Undelivered
<1>1. ASSUME NEW p \in Posters, NEW d \in Deliveries, Enqueue(p, d) PROVE DeliveriesIInv'
  BY <1>1 DEF Enqueue
<1>2. ASSUME NEW p \in Posters, NEW d \in Deliveries, RetryDue(p, d) PROVE DeliveriesIInv'
  BY <1>2 DEF RetryDue, IsDue
<1>3. ASSUME NEW p \in Posters, NEW d \in Deliveries, RetryNow(p, d) PROVE DeliveriesIInv'
  <2>0. delivery[d] \in [status : {"none", "pending", "retrying", "succeeded", "failed"},
                         attempts : Nat, due : BOOLEAN]
    OBVIOUS
  <2>1. /\ delivery' \in [Deliveries -> [status : {"none", "pending", "retrying", "succeeded", "failed"},
                                         attempts : Nat, due : BOOLEAN]]
        /\ \A x \in Deliveries \ {d} : delivery'[x] = delivery[x]
    BY <1>3, <2>0 DEF RetryNow
  <2>2. /\ posting' \in [Posters -> {Off} \cup Posting]
        /\ \A q \in Posters \ {p} : posting'[q] = posting[q]
        /\ posting'[p].id = d
    BY <1>3 DEF RetryNow
  <2>3. manual' = manual \cup {d} /\ tried' = tried
    BY <1>3 DEF RetryNow
  <2>4. HookDeliveriesTypeOK' /\ (posting \in [Posters -> {Off} \cup Posting])'
    BY <2>1, <2>2, <2>3
  <2>5. ASSUME NEW x \in Deliveries \ manual', NEW q \in Posters, posting'[q] # Off,
               posting'[q].id = x
        PROVE  q # p /\ x # d
    BY <2>2, <2>3, <2>5
  <2> QED BY <2>1, <2>2, <2>3, <2>4, <2>5
<1>4. ASSUME NEW p \in Posters, NEW ok \in BOOLEAN, Post(p, ok) PROVE DeliveriesIInv'
  BY <1>4 DEF Post
<1>5. ASSUME NEW p \in Posters, WriteAttempt(p) PROVE DeliveriesIInv'
  BY <1>5 DEF WriteAttempt, LastAttempt
<1>6. ASSUME NEW d \in Deliveries, ComesDue(d) PROVE DeliveriesIInv'
  <2>1. /\ delivery' \in [Deliveries -> [status : {"none", "pending", "retrying", "succeeded", "failed"},
                                         attempts : Nat, due : BOOLEAN]]
        /\ \A x \in Deliveries : /\ delivery'[x].status = delivery[x].status
                                 /\ delivery'[x].attempts = delivery[x].attempts
    BY ZenonT(30), <1>6 DEF ComesDue
  <2>2. UNCHANGED <<posting, tried, manual>>
    BY <1>6 DEF ComesDue
  <2> QED BY <2>1, <2>2
<1>7. CASE PosterRestart
  BY <1>7 DEF PosterRestart
<1>8. CASE UNCHANGED deliveryVars
  BY <1>8 DEF deliveryVars
<1> QED BY <1>1, <1>2, <1>3, <1>4, <1>5, <1>6, <1>7, <1>8 DEF NextHookDeliveries, PosterStep

\* A delivery is given up only after MAX_ATTEMPTS posts, however posters crash or
\* overlap, but for those retried by hand.
THEOREM AllAttemptsMade == HookDeliveriesSpec => []DeliveriesInv
<1>1. InitHookDeliveries => DeliveriesIInv
  BY HookDeliveriesAssumption DEF InitHookDeliveries, DeliveriesIInv, HookDeliveriesTypeOK,
       Undelivered
<1>2. DeliveriesIInv => DeliveriesInv
  BY HookDeliveriesAssumption DEF DeliveriesIInv, DeliveriesInv, FailedAfterAllAttempts,
       HookDeliveriesTypeOK
<1> QED BY <1>1, <1>2, DeliveriesInductive, PTL DEF HookDeliveriesSpec

----------------------------------------------------------------------------
(* Tokens.                                                                 *)

TokensSpec == InitTokens /\ [][NextTokens]_tokenVars

\* Handlers that have created an asset and not written it down.
Recorders == {c \in Clerks : clerk[c].op = "record"}
Minters == {c \in Clerks : clerk[c].op \in {"create", "record"}}

TokensIInv ==
  /\ TokensTypeOK
  /\ unkept + Cardinality(Recorders) <= assets
  /\ token = "created" => allotted
  /\ ~overlap /\ ~denied =>
       /\ allotted => token = "created"
       /\ \A c, d \in Minters : c = d
       /\ Minters # {} => token = "creating"
       /\ assets = unkept + IF allotted \/ Recorders # {} THEN 1 ELSE 0

\* Every asset created is written down, kept by a handler about to write it, or
\* was lost.
LEMMA TokensInductive == TokensIInv /\ [NextTokens]_tokenVars => TokensIInv'
<1> SUFFICES ASSUME TokensIInv, [NextTokens]_tokenVars PROVE TokensIInv'
  OBVIOUS
<1> USE TokensAssumption DEF ClerkGoes, NoWork
<1>0. Cardinality(Recorders) \in Nat /\ IsFiniteSet(Recorders) /\ Recorders \subseteq Minters
  BY FS_Subset, FS_CardinalityType DEF Recorders, Minters
<1>1. CASE RejectToken
  <2>1. Recorders' = Recorders /\ Minters' = Minters
    BY <1>1 DEF RejectToken, Recorders, Minters
  <2>2. TokensTypeOK'
    BY <1>1 DEF RejectToken, TokensIInv, TokensTypeOK
  <2> QED BY <1>1, <2>1, <2>2 DEF RejectToken, TokensIInv
<1>2. ASSUME NEW c \in Clerks, ReadToken(c) PROVE TokensIInv'
  <2>1. Recorders' = Recorders
    BY <1>2 DEF ReadToken, Recorders, TokensIInv, TokensTypeOK
  <2>2. Minters' = Minters
    BY <1>2 DEF ReadToken, Minters, TokensIInv, TokensTypeOK
  <2>3. TokensTypeOK'
    BY <1>2 DEF ReadToken, TokensIInv, TokensTypeOK
  <2> QED BY <1>0, <1>2, <2>1, <2>2, <2>3 DEF ReadToken, TokensIInv
<1>3. ASSUME NEW c \in Clerks, WriteToken(c) PROVE TokensIInv'
  <2>1. Recorders' = Recorders
    BY <1>3 DEF WriteToken, Recorders, TokensIInv, TokensTypeOK
  <2>2. Minters' = Minters
    BY <1>3 DEF WriteToken, Minters, TokensIInv, TokensTypeOK
  <2>3. TokensTypeOK'
    BY <1>3 DEF WriteToken, TokensIInv, TokensTypeOK
  <2>4. clerk[c].seen \in {"none", "rejected"}
    BY <1>3 DEF WriteToken, TokensIInv, TokensTypeOK
  <2>5. ~overlap' => ~overlap
        /\ (token' = token \/ (token \in {"none", "rejected"} /\ token' = "requested"))
    BY <1>3, <2>4 DEF WriteToken
  <2>6. UNCHANGED <<assets, unkept, allotted, denied>> /\ (token' = "created" => token = "created")
    BY <1>3 DEF WriteToken
  <2> QED BY <1>0, <2>1, <2>2, <2>3, <2>5, <2>6 DEF TokensIInv
<1>4. ASSUME NEW c \in Clerks, Approve(c) PROVE TokensIInv'
  <2>1. Recorders' = Recorders
    BY <1>4 DEF Approve, Recorders, TokensIInv, TokensTypeOK
  <2>2. Minters' = Minters \cup {c}
    BY <1>4 DEF Approve, Minters, TokensIInv, TokensTypeOK
  <2>3. TokensTypeOK'
    BY <1>4 DEF Approve, TokensIInv, TokensTypeOK
  <2> QED BY <1>0, <1>4, <2>1, <2>2, <2>3 DEF Approve, Approvable, TokensIInv
<1>5. ASSUME NEW c \in Clerks, NotCreated(c) PROVE TokensIInv'
  <2>1. Recorders' = Recorders
    BY <1>5 DEF NotCreated, Recorders, TokensIInv, TokensTypeOK
  <2>2. Minters' = Minters \ {c} /\ c \in Minters
    BY <1>5 DEF NotCreated, Minters, TokensIInv, TokensTypeOK
  <2>3. TokensTypeOK'
    BY <1>5 DEF NotCreated, TokensIInv, TokensTypeOK
  <2> QED BY <1>0, <1>5, <2>1, <2>2, <2>3 DEF NotCreated, TokensIInv
<1>6. ASSUME NEW c \in Clerks, CreateAsset(c) PROVE TokensIInv'
  <2>0. c \in Minters /\ c \notin Recorders /\ assets < MaxAssets /\ assets' = assets + 1
    BY <1>6 DEF CreateAsset, Recorders, Minters
  <2>1. CASE clerk' = [clerk EXCEPT ![c] = [op |-> "record"]] /\ UNCHANGED <<token, unkept>>
    <3>1. Recorders' = Recorders \cup {c}
      BY <1>6, <2>1 DEF CreateAsset, Recorders, TokensIInv, TokensTypeOK
    <3>2. Minters' = Minters
      BY <1>6, <2>1 DEF CreateAsset, Minters, TokensIInv, TokensTypeOK
    <3>3. Cardinality(Recorders') = Cardinality(Recorders) + 1
      BY <3>1, <2>0, <1>0, FS_AddElement
    <3>4. TokensTypeOK'
      BY <1>6, <2>1 DEF CreateAsset, TokensIInv, TokensTypeOK
    <3> QED BY <1>0, <1>6, <2>0, <2>1, <3>1, <3>2, <3>3, <3>4 DEF CreateAsset, TokensIInv,
        TokensTypeOK
  <2>2. CASE clerk' = [clerk EXCEPT ![c] = NoWork] /\ token' = "failed" /\ unkept' = unkept + 1
    <3>1. Recorders' = Recorders
      BY <1>6, <2>2 DEF CreateAsset, Recorders, TokensIInv, TokensTypeOK
    <3>2. Minters' = Minters \ {c}
      BY <1>6, <2>2 DEF CreateAsset, Minters, TokensIInv, TokensTypeOK
    <3>4. TokensTypeOK'
      BY <1>0, <1>6, <2>2 DEF CreateAsset, TokensIInv, TokensTypeOK
    <3> QED BY <1>0, <1>6, <2>0, <2>2, <3>1, <3>2, <3>4 DEF CreateAsset, TokensIInv,
        TokensTypeOK
  <2> QED BY <1>6, <2>1, <2>2 DEF CreateAsset
<1>7. ASSUME NEW c \in Clerks, RecordAsset(c) PROVE TokensIInv'
  <2>1. Recorders' = Recorders \ {c} /\ c \in Recorders
    BY <1>7 DEF RecordAsset, Recorders, TokensIInv, TokensTypeOK
  <2>2. Minters' = Minters \ {c}
    BY <1>7 DEF RecordAsset, Minters, TokensIInv, TokensTypeOK
  <2>3. Cardinality(Recorders') = Cardinality(Recorders) - 1
    BY <2>1, <1>0, FS_RemoveElement
  <2>4. Cardinality(Recorders') \in Nat
    BY <2>1, <1>0, FS_RemoveElement, FS_CardinalityType
  <2>5. TokensTypeOK'
    BY <1>0, <1>7, <2>3, <2>4 DEF RecordAsset, TokensIInv, TokensTypeOK
  <2> QED BY <1>0, <1>7, <2>1, <2>2, <2>3, <2>5 DEF RecordAsset, TokensIInv, TokensTypeOK
<1>8. ASSUME NEW c \in Clerks, AssetNotRecorded(c) PROVE TokensIInv'
  <2>1. Recorders' = Recorders \ {c} /\ c \in Recorders
    BY <1>8 DEF AssetNotRecorded, Recorders, TokensIInv, TokensTypeOK
  <2>2. Minters' = Minters \ {c}
    BY <1>8 DEF AssetNotRecorded, Minters, TokensIInv, TokensTypeOK
  <2>3. Cardinality(Recorders') = Cardinality(Recorders) - 1
    BY <2>1, <1>0, FS_RemoveElement
  <2>4. Cardinality(Recorders') \in Nat
    BY <2>1, <1>0, FS_RemoveElement, FS_CardinalityType
  <2>5. TokensTypeOK'
    BY <1>0, <1>8, <2>3, <2>4 DEF AssetNotRecorded, TokensIInv, TokensTypeOK
  <2> QED BY <1>0, <1>8, <2>1, <2>2, <2>3, <2>5 DEF AssetNotRecorded, TokensIInv, TokensTypeOK
<1>9. ASSUME NEW c \in Clerks, ClerkStops(c) PROVE TokensIInv'
  <2>1. Recorders' = Recorders \ {c}
    BY <1>9 DEF ClerkStops, Recorders, TokensIInv, TokensTypeOK
  <2>2. Minters' = Minters \ {c}
    BY <1>9 DEF ClerkStops, Minters, TokensIInv, TokensTypeOK
  <2>5. clerk[c].op = "record" <=> c \in Recorders
    BY DEF Recorders
  <2>3. unkept' + Cardinality(Recorders') = unkept + Cardinality(Recorders)
        /\ Cardinality(Recorders') \in Nat
    <3>2. CASE c \in Recorders
      <4>1. Cardinality(Recorders') = Cardinality(Recorders) - 1
            /\ Cardinality(Recorders') \in Nat
        BY <3>2, <1>0, <2>1, FS_RemoveElement, FS_CardinalityType
      <4> QED BY <1>0, <1>9, <2>5, <3>2, <4>1 DEF ClerkStops, TokensIInv, TokensTypeOK
    <3>3. CASE c \notin Recorders
      BY <2>5, <3>3, <1>9, <1>0, <2>1 DEF ClerkStops
    <3> QED BY <3>2, <3>3
  <2>4. TokensTypeOK'
    BY <1>0, <1>9, <2>3 DEF ClerkStops, TokensIInv, TokensTypeOK
  <2> QED BY <1>0, <1>9, <2>1, <2>2, <2>3, <2>4, <2>5 DEF ClerkStops, TokensIInv, TokensTypeOK
<1>11. ASSUME NEW c \in Clerks, AnswerToken(c) \/ AnswerFails(c) PROVE TokensIInv'
  <2>1. Recorders' = Recorders
    BY <1>11 DEF AnswerToken, AnswerFails, Recorders, TokensIInv, TokensTypeOK
  <2>2. Minters' = Minters
    BY <1>11 DEF AnswerToken, AnswerFails, Minters, TokensIInv, TokensTypeOK
  <2>3. TokensTypeOK'
    BY <1>11 DEF AnswerToken, AnswerFails, TokensIInv, TokensTypeOK
  <2>4. CASE AnswerToken(c)
    BY <1>0, <2>1, <2>2, <2>3, <2>4 DEF AnswerToken, TokensIInv
  <2>5. CASE AnswerFails(c)
    BY <1>0, <2>1, <2>2, <2>3, <2>5 DEF AnswerFails, TokensIInv
  <2> QED BY <1>11, <2>4, <2>5
<1>10. CASE UNCHANGED tokenVars
  BY <1>10 DEF tokenVars, Recorders, Minters, TokensIInv, TokensTypeOK
<1> QED BY <1>1, <1>2, <1>3, <1>4, <1>5, <1>6, <1>7, <1>8, <1>9, <1>10, <1>11
   DEF NextTokens

\* Unless two handlers overlapped or a creation was called failed after it was written
\* down, a project has one asset besides those never written down, and allocations are what the row that names it stands for.
THEOREM OneAsset == TokensSpec => []TokensInv
<1>1. InitTokens => TokensIInv
  <2> SUFFICES ASSUME InitTokens PROVE TokensIInv
    OBVIOUS
  <2>1. Recorders = {} /\ Minters = {}
    BY DEF InitTokens, Recorders, Minters, NoWork
  <2>2. Cardinality(Recorders) = 0
    BY <2>1, FS_EmptySet
  <2>3. allotted \in BOOLEAN /\ overlap \in BOOLEAN /\ denied \in BOOLEAN
    BY Zenon DEF InitTokens
  <2>4. TokensTypeOK
    BY <2>3, TokensAssumption DEF InitTokens, TokensTypeOK, NoWork
  <2> QED BY <2>1, <2>2, <2>4 DEF InitTokens, TokensIInv
<1>2. TokensIInv => TokensInv
  BY DEF TokensIInv, TokensInv, MintedOnce, AllottedIsCreated, TokensTypeOK
<1> QED BY <1>1, <1>2, TokensInductive, PTL DEF TokensSpec

----------------------------------------------------------------------------
(* Projects and their funding rounds.                                      *)

RoundEnded == {"funded", "closed", "cancelled"}

\* What a handler remembers is still so.
ProjCallKnows(c) ==
  LET call == projCall[c]
  IN  /\ call.op = "plan" => call.plan \in Plans
      /\ call.op = "invest" => call.id \in Stakes
      /\ call.op = "review" => /\ call.action \in DOMAIN Transitions
                               /\ call.was \in Transitions[call.action].from
      /\ call.op = "closing" => project.status = "closed"
      /\ call.op \in {"cancelling", "refunding"} => project.status = "cancelled"
      /\ call.op = "refunding" =>
           /\ DOMAIN call = {"op", "raised", "held", "reserve", "todo"}
           /\ call.raised = project.raised
           /\ call.held \in Nat /\ call.held <= project.raised - project.fee
           /\ call.reserve \in Nat /\ call.reserve <= project.fee
           /\ call.todo \subseteq Stakes \X {"committed", "active"}
           /\ \A row \in call.todo : stake[row[1]] # "none"
      /\ call.op = "loss" =>
           /\ project.settled /\ project.raised > 0
           /\ DOMAIN call.part \subseteq Stakes
           /\ \A i \in DOMAIN call.part : call.part[i] \in Nat
           /\ \A i \in DOMAIN call.part : call.part[i] * project.raised <= Put[i] * project.fee
      /\ call.op = "revenue" => call.amount \in Nat
      /\ call.op = "release" =>
           /\ project.settled /\ call.raised = project.raised
           /\ call.id \in DOMAIN stones /\ AllReleasedBefore(call.id)
           /\ call.amount \in Nat /\ call.released \in Nat
           /\ call.last \in BOOLEAN /\ (call.last <=> call.id = Len(stones))
           /\ call.last => \/ stones[call.id].status = "released"
                           \/ call.released = project.released

\* The investments a refund has still to give back, and what of the project's
\* holding each is due.
DueIds(c) == {i \in Stakes : <<i, stake[i]>> \in projCall[c].todo}

HeldShares(call) ==
  [i \in Stakes |->
     IF call.raised > 0 THEN (Put[i] * Smaller(call.held, call.raised)) \div call.raised ELSE Put[i]]

\* What is still to be given back of what is held is there.
RefundFits(c) ==
  projCall[c].op = "refunding" =>
    hasty \/ SumOver(HeldShares(projCall[c]), DueIds(c)) <= Custody

\* A project is cancelled once, and one handler refunds it.
OneRefund ==
  \A c, d \in Calls :
    /\ projCall[c].op \in {"cancelling", "refunding"}
    /\ projCall[d].op \in {"cancelling", "refunding"}
    => c = d

\* A round is not settled before it has ended, and nothing is released or given of
\* the reserve before it is settled.
RoundFits ==
  /\ project.fee <= project.raised
  /\ project.released <= project.raised - project.fee
  /\ project.settled => project.status \in RoundEnded
  /\ ~project.settled =>
       /\ project.fee = 0 /\ project.refunded = 0 /\ project.revenue = 0 /\ project.released = 0
       /\ \A i \in Stakes : got[i].reserve = 0
       /\ \A m \in DOMAIN stones : stones[m].status # "released"

\* What an investment was given back of either kind is in proportion to it.
GivenFits ==
  \A i \in Stakes :
    /\ stake[i] \in {"none", "committed", "active"} => got[i].held = 0
    /\ got[i].held * project.raised <= Put[i] * (project.raised - project.fee)
    /\ got[i].again \/ got[i].reserve * project.raised <= Put[i] * project.fee
    /\ project.raised = 0 => got[i].held = 0 /\ got[i].reserve = 0

\* Nothing is given back of what a project holds before it is cancelled.
KeptUntilCancelled ==
  (\/ project.status # "cancelled"
   \/ \E c \in Calls : projCall[c].op = "cancelling")
    => \A i \in Stakes : got[i].held = 0

\* Whoever refunds a cancelled project has every investment on his list.
RefundKnowsAll ==
  \/ hasty \/ cut \/ project.status # "cancelled"
  \/ \E c \in Calls : projCall[c].op = "cancelling"
  \/ \E c \in Calls : projCall[c].op = "refunding"
     /\ \A i \in Stakes : Holding(i) => i \in DueIds(c)
  \/ \A i \in Stakes : ~Holding(i)

ProjectsRows ==
  /\ ProjectsInv /\ wallet \in [Users -> Row]
  /\ RoundFits /\ GivenFits

ProjectsIInv ==
  /\ ProjectsRows /\ KeptUntilCancelled /\ RefundKnowsAll /\ OneRefund
  /\ \A c \in Calls : ProjCallKnows(c) /\ RefundFits(c)

\* The behaviours of a project, from a draft.
ProjectsSpec ==
  InitWallets /\ InitProjects /\ [][NextProjects]_<<wallet, projVars>>

\* A percentage of an amount is a part of it.
LEMMA PercentFits ==
  ASSUME NEW r \in Nat, NEW q \in 0 .. 100
  PROVE  (r * q) \div 100 \in Nat /\ (r * q) \div 100 <= r
<1>1. r * q \in Nat /\ r * q <= r * 100
  OBVIOUS
<1>2. \A n \in Nat : n <= r * 100 => n \div 100 \in Nat /\ n \div 100 <= r
  OBVIOUS
<1> QED BY <1>1, <1>2

\* A share, rounded down, is in proportion.
LEMMA ShareFits ==
  ASSUME NEW p \in Nat, NEW h \in Nat, NEW r \in Nat \ {0}
  PROVE  (p * h) \div r \in Nat /\ ((p * h) \div r) * r <= p * h
<1>1. p * h \in Nat
  OBVIOUS
<1>2. \A n \in Nat : n \div r \in Nat /\ (n \div r) * r <= n
  OBVIOUS
<1> QED BY <1>1, <1>2

\* Two shares of one amount are together no more than the amount.
LEMMA PartsFit ==
  ASSUME NEW p \in Nat, NEW r \in Nat \ {0}, NEW f \in 0 .. r, NEW h \in Nat, NEW s \in Nat,
         h * r <= p * (r - f), s * r <= p * f
  PROVE  h + s <= p
<1>1. p * (r - f) = p * r - p * f /\ p * r \in Nat /\ p * f \in Nat /\ h * r \in Nat
      /\ s * r \in Nat
  OBVIOUS
<1>2. (h + s) * r = h * r + s * r
  OBVIOUS
<1>3. (h + s) * r <= p * r
  BY <1>1, <1>2
<1>4. \A n, m \in Nat : n * r <= m * r => n <= m
  <2> SUFFICES ASSUME NEW n \in Nat, NEW m \in Nat, n * r <= m * r, n >= m + 1
               PROVE  FALSE
    OBVIOUS
  <2>1. n * r >= (m + 1) * r
    OBVIOUS
  <2>2. (m + 1) * r = m * r + r /\ m * r \in Nat /\ n * r \in Nat
    OBVIOUS
  <2> QED BY <2>1, <2>2
<1> QED BY <1>3, <1>4

Stone == [amount : Nat, status : {"planned", "requested", "returned", "released"}]

\* Milestones keep their number and amounts when the status of one changes.
LEMMA StoneStep ==
  ASSUME NEW s \in Seq(Stone), NEW m \in DOMAIN s,
         NEW v \in {"planned", "requested", "returned", "released"},
         NEW t, t = [s EXCEPT ![m].status = v]
  PROVE  /\ t \in Seq(Stone) /\ Len(t) = Len(s) /\ Len(s) \in Nat
         /\ DOMAIN s = 1 .. Len(s) /\ DOMAIN t = 1 .. Len(s)
         /\ t[m].status = v
         /\ \A k \in DOMAIN s \ {m} : t[k] = s[k]
<1>1. Len(s) \in Nat /\ s \in [1 .. Len(s) -> Stone] /\ DOMAIN s = 1 .. Len(s)
  BY LenProperties
<1> DEFINE e == [s[m] EXCEPT !.status = v]
<1>2. e \in Stone /\ e.status = v
  BY <1>1 DEF Stone
<1> HIDE DEF e
<1>3. /\ [s EXCEPT ![m] = e] \in Seq(Stone) /\ Len([s EXCEPT ![m] = e]) = Len(s)
      /\ \A j \in 1 .. Len(s) : [s EXCEPT ![m] = e][j] = IF j = m THEN e ELSE s[j]
  BY <1>1, <1>2, ExceptSeq
<1>4. [s EXCEPT ![m].status = v] = [s EXCEPT ![m] = e]
  BY <1>1 DEF e
<1>5. DOMAIN [s EXCEPT ![m] = e] = 1 .. Len(s)
  BY <1>1
<1> QED BY <1>1, <1>2, <1>3, <1>4, <1>5

\* Where the review takes a project from, and where to.
LEMMA TransitionFacts ==
  ASSUME NEW a \in DOMAIN Transitions, NEW s \in Transitions[a].from
  PROVE  /\ s \in {"submitted", "more_info_required", "approved", "listed", "funded"}
         /\ Transitions[a].to \in {"submitted", "more_info_required", "approved", "rejected",
                                   "listed", "closed", "cancelled"}
         /\ s = "funded" => Transitions[a].to \in {"closed", "cancelled"}
         /\ Transitions[a].to = "closed" <=> a = "close"
         /\ Transitions[a].to = "cancelled" <=> a = "cancel"
BY DEF Transitions

ProjectRow ==
  [status : EDITABLE \cup RELEASABLE \cup {"submitted", "approved", "rejected", "listed", "cancelled"},
   raised : Nat, released : Nat, settled : BOOLEAN, fee : Nat, refunded : Nat, revenue : Nat]

\* What taking the fee of a round does to the project.
LEMMA SettleFacts ==
  ASSUME NEW p \in ProjectRow
  PROVE  /\ Settle(p) \in ProjectRow /\ Settle(p).settled
         /\ Settle(p).status = p.status /\ Settle(p).raised = p.raised
         /\ Settle(p).released = p.released /\ Settle(p).refunded = p.refunded
         /\ Settle(p).revenue = p.revenue
         /\ p.settled => Settle(p) = p /\ Charged(p) = 0
         /\ ~p.settled => Settle(p).fee <= p.raised /\ Charged(p) = Settle(p).fee
<1> DEFINE fee == (p.raised * RESERVE_PERCENT) \div 100
<1>1. fee \in Nat /\ fee <= p.raised
  BY PercentFits, ProjectsAssumption DEF ProjectRow
<1> HIDE DEF fee
<1>2. Settle(p) = IF p.settled THEN p ELSE [p EXCEPT !.settled = TRUE, !.fee = fee]
  BY DEF Settle, fee
<1> QED BY <1>1, <1>2 DEF Charged, ProjectRow

\* What the invariant says of rows and totals, unfolded once.
LEMMA RowsKnown ==
  ASSUME ProjectsRows
  PROVE  /\ project \in ProjectRow /\ stones \in Seq(Stone) /\ Len(stones) \in Nat
         /\ DOMAIN stones = 1 .. Len(stones) /\ (\A m \in DOMAIN stones : stones[m] \in Stone)
         /\ stake \in [Stakes -> {"none", "committed", "active", "refunded", "partially_refunded"}]
         /\ got \in [Stakes -> [held : Nat, reserve : Nat, again : BOOLEAN]]
         /\ hasty \in BOOLEAN /\ cut \in BOOLEAN /\ DOMAIN projCall = Calls
         /\ wallet \in [Users -> Row] /\ Total(wallet) \in Int
         /\ SumOver([i \in Stakes |-> got[i].held], Stakes) \in Nat
         /\ SumOver([i \in Stakes |-> got[i].reserve], Stakes) \in Nat
         /\ Custody \in Int /\ SumOver(InitialBalance, Users) \in Int
         /\ \A i \in Stakes : stake[i] # "none" => Put[i] <= project.raised /\ project.raised > 0
<1>1. /\ project \in ProjectRow /\ stones \in Seq(Stone)
      /\ stake \in [Stakes -> {"none", "committed", "active", "refunded", "partially_refunded"}]
      /\ got \in [Stakes -> [held : Nat, reserve : Nat, again : BOOLEAN]]
      /\ hasty \in BOOLEAN /\ cut \in BOOLEAN /\ DOMAIN projCall = Calls
      /\ wallet \in [Users -> Row]
  BY DEF ProjectsRows, ProjectsInv, ProjectsTypeOK, ProjectRow, Stone
<1>2. /\ Len(stones) \in Nat /\ DOMAIN stones = 1 .. Len(stones)
      /\ \A m \in DOMAIN stones : stones[m] \in Stone
  BY <1>1, LenProperties
<1>3. IsFiniteSet(Stakes) /\ IsFiniteSet(Users) /\ Put \in [Stakes -> Int]
      /\ InitialBalance \in [Users -> Int]
      /\ \A i \in Stakes : Put[i] > 0
  BY ProjectsAssumption, SharedAssumption
<1>4. Total(wallet) \in Int
  <2> DEFINE f == [u \in Users |-> wallet[u].balance]
  <2>1. f \in [Users -> Int] /\ Total(wallet) = SumOver(f, Users)
    BY <1>1 DEF Total, Row
  <2> HIDE DEF f
  <2> QED BY <1>3, <2>1, SumOverBound
<1>5. SumOver([i \in Stakes |-> got[i].held], Stakes) \in Nat
  <2> DEFINE f == [i \in Stakes |-> got[i].held]
  <2>1. f \in [Stakes -> Int] /\ \A i \in Stakes : f[i] >= 0
    BY <1>1
  <2> HIDE DEF f
  <2>2. SumOver(f, Stakes) \in Int /\ SumOver(f, Stakes) >= 0
    BY <1>3, <2>1, SumOverBound
  <2> QED BY <2>2 DEF f
<1>6. SumOver([i \in Stakes |-> got[i].reserve], Stakes) \in Nat
  <2> DEFINE f == [i \in Stakes |-> got[i].reserve]
  <2>1. f \in [Stakes -> Int] /\ \A i \in Stakes : f[i] >= 0
    BY <1>1
  <2> HIDE DEF f
  <2>2. SumOver(f, Stakes) \in Int /\ SumOver(f, Stakes) >= 0
    BY <1>3, <2>1, SumOverBound
  <2> QED BY <2>2 DEF f
<1>7. Custody \in Int
  BY <1>1, <1>5 DEF Custody, ProjectRow
<1>8. SumOver(InitialBalance, Users) \in Int
  BY <1>3, SumOverBound
<1>9. ASSUME NEW i \in Stakes, stake[i] # "none"
      PROVE  Put[i] <= project.raised /\ project.raised > 0
  <2> DEFINE T == {j \in Stakes : stake[j] # "none"}
             f == [x \in T |-> Put[x]]
  <2>1. T \in SUBSET Stakes /\ i \in T /\ project.raised = SumOver(Put, T)
    BY <1>9 DEF ProjectsRows, ProjectsInv, RaisedIsInvested
  <2> HIDE DEF T
  <2>2. IsFiniteSet(T) /\ f \in [T -> Int] /\ (\A x \in T : Put[x] = f[x])
        /\ \A x \in T : f[x] >= 0
    BY <1>3, <2>1, FS_Subset
  <2>3. f[i] = Put[i]
    BY <2>1
  <2> HIDE DEF f
  <2>4. SumOver(Put, T) = SumOver(f, T)
    BY <2>2, SumOverSame
  <2>5. f[i] <= SumOver(f, T) /\ SumOver(f, T) \in Int
    BY <2>1, <2>2, SumOverBound
  <2>6. Put[i] > 0 /\ Put[i] \in Int
    BY <1>3
  <2> QED BY <2>1, <2>3, <2>4, <2>5, <2>6
<1> QED BY <1>1, <1>2, <1>4, <1>5, <1>6, <1>7, <1>8, <1>9

\* What no step does to a project, whatever some handler remembers of it.
Follows ==
  /\ project.settled =>
       /\ project'.settled /\ DOMAIN stones' = DOMAIN stones /\ Len(stones') = Len(stones)
       /\ \A m \in DOMAIN stones : stones[m].status = "released" => stones'[m].status = "released"
       /\ \A m \in DOMAIN stones :
            m = Len(stones) /\ AllReleasedBefore(m)
              => stones[m].status = "released" \/ stones'[m].status = "released"
                 \/ project'.released = project.released
  /\ project.settled \/ project.status = "cancelled" =>
       project'.raised = project.raised /\ project'.fee = project.fee
  /\ project.status \in {"closed", "cancelled"} => project'.status = project.status
  /\ \A i \in Stakes : stake[i] # "none" => stake'[i] # "none"

\* What a handler remembers stays so while others are at work.
LEMMA CallKept ==
  ASSUME Follows, NEW c \in Calls, ProjCallKnows(c), projCall'[c] = projCall[c],
         Len(stones) \in Nat, DOMAIN stones = 1 .. Len(stones)
  PROVE  ProjCallKnows(c)'
<1> DEFINE call == projCall[c]
<1>1. call.op = "release" =>
        /\ project'.settled /\ call.raised = project'.raised
        /\ call.id \in DOMAIN stones'
           /\ \A k \in 1 .. call.id - 1 : stones'[k].status = "released"
        /\ call.amount \in Nat /\ call.released \in Nat
        /\ call.last \in BOOLEAN /\ (call.last <=> call.id = Len(stones'))
        /\ call.last => \/ stones'[call.id].status = "released"
                        \/ call.released = project'.released
  <2> SUFFICES ASSUME call.op = "release" PROVE
        /\ project'.settled /\ call.raised = project'.raised
        /\ call.id \in DOMAIN stones'
           /\ \A k \in 1 .. call.id - 1 : stones'[k].status = "released"
        /\ call.amount \in Nat /\ call.released \in Nat
        /\ call.last \in BOOLEAN /\ (call.last <=> call.id = Len(stones'))
        /\ call.last => \/ stones'[call.id].status = "released"
                        \/ call.released = project'.released
    OBVIOUS
  <2>1. /\ project.settled /\ call.raised = project.raised
        /\ call.id \in DOMAIN stones /\ AllReleasedBefore(call.id)
        /\ call.amount \in Nat /\ call.released \in Nat
        /\ call.last \in BOOLEAN /\ (call.last <=> call.id = Len(stones))
        /\ call.last => \/ stones[call.id].status = "released"
                        \/ call.released = project.released
    BY DEF ProjCallKnows
  <2>2. /\ project'.settled /\ project'.raised = project.raised
        /\ DOMAIN stones' = DOMAIN stones /\ Len(stones') = Len(stones)
        /\ \A m \in DOMAIN stones : stones[m].status = "released" => stones'[m].status = "released"
    BY <2>1 DEF Follows
  <2>3. \A k \in 1 .. call.id - 1 : stones'[k].status = "released"
    <3>1. \A k \in 1 .. call.id - 1 : k \in DOMAIN stones /\ stones[k].status = "released"
      BY <2>1 DEF AllReleasedBefore
    <3> QED BY <2>2, <3>1
  <2>4. call.last => \/ stones'[call.id].status = "released"
                     \/ call.released = project'.released
    BY <2>1, <2>2 DEF Follows
  <2> QED BY <2>1, <2>2, <2>3, <2>4
<1>2. call.op = "refunding" =>
           /\ DOMAIN call = {"op", "raised", "held", "reserve", "todo"}
           /\ call.raised = project'.raised
           /\ call.held \in Nat /\ call.held <= project'.raised - project'.fee
           /\ call.reserve \in Nat /\ call.reserve <= project'.fee
           /\ call.todo \subseteq Stakes \X {"committed", "active"}
           /\ \A row \in call.todo : stake'[row[1]] # "none"
  BY DEF ProjCallKnows, Follows
<1>3. call.op = "loss" =>
           /\ project'.settled /\ project'.raised > 0
           /\ DOMAIN call.part \subseteq Stakes
           /\ \A i \in DOMAIN call.part : call.part[i] \in Nat
           /\ \A i \in DOMAIN call.part : call.part[i] * project'.raised <= Put[i] * project'.fee
  BY DEF ProjCallKnows, Follows
<1>4. /\ call.op = "plan" => call.plan \in Plans
      /\ call.op = "invest" => call.id \in Stakes
      /\ call.op = "review" => /\ call.action \in DOMAIN Transitions
                               /\ call.was \in Transitions[call.action].from
      /\ call.op = "closing" => project'.status = "closed"
      /\ call.op \in {"cancelling", "refunding"} => project'.status = "cancelled"
      /\ call.op = "revenue" => call.amount \in Nat
  BY DEF ProjCallKnows, Follows
<1>5. projCall'[c] = call
  OBVIOUS
<1> HIDE DEF call
<1> QED BY <1>1, <1>2, <1>3, <1>4, <1>5 DEF ProjCallKnows, AllReleasedBefore

\* Steps of handlers other than those that cancel or refund.
LEMMA Aside ==
  ASSUME ProjectsIInv, ProjectsRows', Follows,
         \A d \in Calls : \/ projCall'[d] = projCall[d]
                          \/ /\ projCall[d].op \notin {"cancelling", "refunding"}
                             /\ projCall'[d].op \notin {"cancelling", "refunding"}
                             /\ ProjCallKnows(d)',
         \A i \in Stakes : got'[i].held = got[i].held,
         hasty => hasty', cut' = cut,
         project'.status = "cancelled" => project.status = "cancelled",
         project.status = "cancelled" => hasty' \/ (stake' = stake /\ Custody' = Custody)
  PROVE  ProjectsIInv'
<1>1. /\ ProjectsRows /\ KeptUntilCancelled /\ RefundKnowsAll /\ OneRefund
      /\ \A c \in Calls : ProjCallKnows(c) /\ RefundFits(c)
      /\ Len(stones) \in Nat /\ DOMAIN stones = 1 .. Len(stones)
  BY RowsKnown DEF ProjectsIInv
<1>2. \A d \in Calls : projCall'[d].op \in {"cancelling", "refunding"} => projCall'[d] = projCall[d]
  OBVIOUS
<1>2a. \A d \in Calls : projCall[d].op \in {"cancelling", "refunding"} => projCall'[d] = projCall[d]
  OBVIOUS
<1>3. ASSUME NEW d \in Calls PROVE ProjCallKnows(d)'
  BY <1>1, CallKept
<1>4. ASSUME NEW d \in Calls PROVE RefundFits(d)'
  <2> SUFFICES ASSUME projCall'[d].op = "refunding"
               PROVE  hasty' \/ SumOver(HeldShares(projCall'[d]), DueIds(d)') <= Custody'
    BY DEF RefundFits
  <2>1. projCall'[d] = projCall[d] /\ projCall[d].op = "refunding"
    BY <1>2
  <2>2. project.status = "cancelled"
    BY <1>1, <2>1 DEF ProjCallKnows
  <2>3. CASE hasty'
    BY <2>3
  <2>4. CASE ~hasty'
    <3>1. stake' = stake /\ Custody' = Custody /\ ~hasty
      BY <2>2, <2>4
    <3>2. DueIds(d)' = DueIds(d)
      BY <2>1, <3>1 DEF DueIds
    <3>3. SumOver(HeldShares(projCall[d]), DueIds(d)) <= Custody
      BY <1>1, <2>1, <3>1 DEF RefundFits
    <3> QED BY <2>1, <3>1, <3>2, <3>3
  <2> QED BY <2>3, <2>4
<1>5. KeptUntilCancelled'
  <2> SUFFICES ASSUME \/ project'.status # "cancelled"
                      \/ \E c \in Calls : projCall'[c].op = "cancelling"
               PROVE  \A i \in Stakes : got[i].held = 0
    BY DEF KeptUntilCancelled
  <2>1. \/ project.status # "cancelled"
        \/ \E c \in Calls : projCall[c].op = "cancelling"
    BY <1>2 DEF Follows
  <2> QED BY <1>1, <2>1 DEF KeptUntilCancelled
<1>6. OneRefund'
  BY <1>1, <1>2 DEF OneRefund
<1>7. RefundKnowsAll'
  <2> SUFFICES ASSUME ~hasty', ~cut', project'.status = "cancelled"
               PROVE  \/ \E c \in Calls : projCall'[c].op = "cancelling"
                      \/ \E c \in Calls : projCall'[c].op = "refunding"
                                          /\ \A i \in Stakes : Holding(i)' => i \in DueIds(c)'
                      \/ \A i \in Stakes : ~Holding(i)'
    BY DEF RefundKnowsAll
  <2>1. project.status = "cancelled" /\ ~hasty /\ ~cut /\ stake' = stake
    OBVIOUS
  <2>2. \A i \in Stakes : Holding(i)' = Holding(i)
    BY <2>1 DEF Holding
  <2>3. CASE \E c \in Calls : projCall[c].op = "cancelling"
    BY <1>2a, <2>3
  <2>4. CASE \E c \in Calls : projCall[c].op = "refunding"
                              /\ \A i \in Stakes : Holding(i) => i \in DueIds(c)
    <3>1. PICK c \in Calls : projCall[c].op = "refunding"
               /\ \A i \in Stakes : Holding(i) => i \in DueIds(c)
      BY <2>4
    <3>2. projCall'[c] = projCall[c]
      BY <3>1, <1>2a
    <3>3. DueIds(c)' = DueIds(c)
      BY <2>1, <3>2 DEF DueIds
    <3> QED BY <2>2, <3>1, <3>2, <3>3
  <2>5. CASE \A i \in Stakes : ~Holding(i)
    BY <2>2, <2>5
  <2> QED BY <1>1, <2>1, <2>3, <2>4, <2>5 DEF RefundKnowsAll
<1> QED BY <1>3, <1>4, <1>5, <1>6, <1>7 DEF ProjectsIInv

\* A step that touches no row leaves everything about the rows as it was.
LEMMA RowsStay ==
  ASSUME ProjectsRows, UNCHANGED <<project, stones, stake, got, hasty, wallet>>,
         cut' \in BOOLEAN, DOMAIN projCall' = Calls
  PROVE  ProjectsRows' /\ Follows /\ Custody' = Custody
<1>1. Custody' = Custody
  BY DEF Custody
<1>2. ProjectsTypeOK'
  BY DEF ProjectsRows, ProjectsInv, ProjectsTypeOK
<1>3. RaisedIsInvested' /\ HeldCoversPayments'
  BY <1>1 DEF ProjectsRows, ProjectsInv, RaisedIsInvested, HeldCoversPayments, Holds
<1>4. RefundWithinStake' /\ ReserveSpentOnce' /\ ReleasedInFull'
  BY DEF ProjectsRows, ProjectsInv, RefundWithinStake, ReserveSpentOnce, ReleasedInFull
<1>5. RoundFits' /\ GivenFits' /\ StonesInOrder' /\ (wallet \in [Users -> Row])'
  BY DEF ProjectsRows, ProjectsInv, RoundFits, GivenFits, StonesInOrder, AllReleasedBefore
<1>6. Follows
  BY DEF Follows, ProjectsRows, RoundFits
<1> QED BY <1>1, <1>2, <1>3, <1>4, <1>5, <1>6 DEF ProjectsRows, ProjectsInv

\* A handler that reads, or that ends without a write.
LEMMA ReadOnly ==
  ASSUME ProjectsIInv, NEW c \in Calls, NEW k,
         projCall[c].op \notin {"cancelling", "refunding"}, k.op \notin {"cancelling", "refunding"},
         projCall' = [projCall EXCEPT ![c] = k],
         UNCHANGED <<project, stones, stake, got, hasty, cut, wallet>>,
         projCall'[c] = k => ProjCallKnows(c)'
  PROVE  ProjectsIInv'
<1>1. ProjectsRows /\ DOMAIN projCall = Calls /\ cut \in BOOLEAN
  BY RowsKnown DEF ProjectsIInv
<1>2. DOMAIN projCall' = Calls /\ projCall'[c] = k
      /\ \A d \in Calls \ {c} : projCall'[d] = projCall[d]
  BY <1>1
<1>3. ProjectsRows' /\ Follows /\ Custody' = Custody
  BY <1>1, <1>2, RowsStay
<1>4. \A d \in Calls : \/ projCall'[d] = projCall[d]
                       \/ /\ projCall[d].op \notin {"cancelling", "refunding"}
                          /\ projCall'[d].op \notin {"cancelling", "refunding"}
                          /\ ProjCallKnows(d)'
  BY <1>2
<1> QED BY <1>3, <1>4, Aside

\* Handlers that read the project and go on later.
LEMMA BeginsRead ==
  ASSUME ProjectsIInv, NEW c \in Calls,
         \/ \E plan \in Plans : BeginPlan(c, plan)
         \/ \E i \in Stakes : BeginInvest(c, i)
         \/ \E action \in DOMAIN Transitions : BeginTransition(c, action)
         \/ BeginSubmit(c) \/ BeginLoss(c) \/ BeginRevenue(c)
         \/ InvestRefused(c) \/ TransitionLost(c)
  PROVE  ProjectsIInv'
<1>k. ProjectsRows /\ project \in ProjectRow
  BY RowsKnown DEF ProjectsIInv
<1>1. ASSUME NEW plan \in Plans, BeginPlan(c, plan) PROVE ProjectsIInv'
  <2> DEFINE k == [op |-> "plan", plan |-> plan]
  <2>1. k.op = "plan" /\ k.plan = plan
    OBVIOUS
  <2> HIDE DEF k
  <2>2. projCall'[c] = k => ProjCallKnows(c)'
    BY <2>1 DEF ProjCallKnows
  <2>3. projCall[c].op = "idle" /\ projCall' = [projCall EXCEPT ![c] = k]
        /\ UNCHANGED <<project, stones, stake, got, hasty, cut, wallet>>
    BY <1>1 DEF BeginPlan, ProjBegin, Idle, k
  <2> QED BY <2>1, <2>2, <2>3, ReadOnly
<1>2. ASSUME NEW i \in Stakes, BeginInvest(c, i) PROVE ProjectsIInv'
  <2> DEFINE k == [op |-> "invest", id |-> i]
  <2>1. k.op = "invest" /\ k.id = i
    OBVIOUS
  <2> HIDE DEF k
  <2>2. projCall'[c] = k => ProjCallKnows(c)'
    BY <2>1 DEF ProjCallKnows
  <2>3. projCall[c].op = "idle" /\ projCall' = [projCall EXCEPT ![c] = k]
        /\ UNCHANGED <<project, stones, stake, got, hasty, cut, wallet>>
    BY <1>2 DEF BeginInvest, ProjBegin, Idle, k
  <2> QED BY <2>1, <2>2, <2>3, ReadOnly
<1>3. ASSUME NEW action \in DOMAIN Transitions, BeginTransition(c, action) PROVE ProjectsIInv'
  <2> DEFINE k == [op |-> "review", action |-> action, was |-> project.status]
  <2>1. k.op = "review" /\ k.action = action /\ k.was = project.status
    OBVIOUS
  <2>3. projCall[c].op = "idle" /\ projCall' = [projCall EXCEPT ![c] = k]
        /\ project.status \in Transitions[action].from
        /\ UNCHANGED <<project, stones, stake, got, hasty, cut, wallet>>
    BY <1>3 DEF BeginTransition, ProjBegin, Idle
  <2> HIDE DEF k
  <2>2. projCall'[c] = k => ProjCallKnows(c)'
    BY <2>1, <2>3 DEF ProjCallKnows
  <2> QED BY <2>1, <2>2, <2>3, ReadOnly
<1>4. ASSUME BeginSubmit(c) PROVE ProjectsIInv'
  <2> DEFINE k == [op |-> "submit"]
  <2>1. k.op = "submit"
    OBVIOUS
  <2> HIDE DEF k
  <2>2. projCall'[c] = k => ProjCallKnows(c)'
    BY <2>1 DEF ProjCallKnows
  <2>3. projCall[c].op = "idle" /\ projCall' = [projCall EXCEPT ![c] = k]
        /\ UNCHANGED <<project, stones, stake, got, hasty, cut, wallet>>
    BY <1>4 DEF BeginSubmit, ProjBegin, Idle, k
  <2> QED BY <2>1, <2>2, <2>3, ReadOnly
<1>5. ASSUME BeginLoss(c) PROVE ProjectsIInv'
  <2> DEFINE D == {j \in Stakes : stake[j] \in {"committed", "active", "partially_refunded"}}
             part == [i \in D |-> (Put[i] * ReserveLeft(project)) \div project.raised]
             k == [op |-> "loss", part |-> part]
  <2>3. projCall[c].op = "idle" /\ projCall' = [projCall EXCEPT ![c] = k]
        /\ project.settled /\ project.raised > 0 /\ project.revenue = 0 /\ project.refunded = 0
        /\ UNCHANGED <<project, stones, stake, got, hasty, cut, wallet>>
    BY <1>5 DEF BeginLoss, ProjBegin, Idle
  <2>4. ReserveLeft(project) = project.fee /\ project.fee \in Nat /\ project.raised \in Nat \ {0}
    BY <1>k, <2>3 DEF ReserveLeft, AtLeast0, ProjectRow
  <2>5. \A i \in D : part[i] \in Nat /\ part[i] * project.raised <= Put[i] * project.fee
    <3>1. ASSUME NEW i \in D
          PROVE part[i] \in Nat /\ part[i] * project.raised <= Put[i] * project.fee
      <4>1. Put[i] \in Nat /\ part[i] = (Put[i] * project.fee) \div project.raised
        BY <2>4, ProjectsAssumption
      <4> QED BY <2>4, <4>1, ShareFits
    <3> QED BY <3>1
  <2>6. D \subseteq Stakes /\ DOMAIN part = D
    OBVIOUS
  <2>1. k.op = "loss" /\ k.part = part
    OBVIOUS
  <2> HIDE DEF k, part, D
  <2>2. projCall'[c] = k => ProjCallKnows(c)'
    BY <2>1, <2>3, <2>5, <2>6 DEF ProjCallKnows
  <2> QED BY <2>1, <2>2, <2>3, ReadOnly
<1>6. ASSUME BeginRevenue(c) PROVE ProjectsIInv'
  <2> DEFINE k == [op |-> "revenue", amount |-> ReserveLeft(project)]
  <2>1. k.op = "revenue" /\ k.amount = ReserveLeft(project) /\ k.amount \in Nat
    BY <1>k DEF ReserveLeft, AtLeast0, ProjectRow
  <2> HIDE DEF k
  <2>2. projCall'[c] = k => ProjCallKnows(c)'
    BY <2>1 DEF ProjCallKnows
  <2>3. projCall[c].op = "idle" /\ projCall' = [projCall EXCEPT ![c] = k]
        /\ UNCHANGED <<project, stones, stake, got, hasty, cut, wallet>>
    BY <1>6 DEF BeginRevenue, ProjBegin, Idle, k
  <2> QED BY <2>1, <2>2, <2>3, ReadOnly
<1>7. ASSUME InvestRefused(c) \/ TransitionLost(c) PROVE ProjectsIInv'
  <2> DEFINE k == Idle
  <2>1. k.op = "idle"
    BY DEF Idle
  <2> HIDE DEF k
  <2>2. projCall'[c] = k => ProjCallKnows(c)'
    BY <2>1 DEF ProjCallKnows
  <2>3. projCall[c].op \in {"invest", "review"} /\ projCall' = [projCall EXCEPT ![c] = k]
        /\ UNCHANGED <<project, stones, stake, got, hasty, cut, wallet>>
    BY <1>7 DEF InvestRefused, TransitionLost, ProjEnds, ProjGoes, k
  <2> QED BY <2>1, <2>2, <2>3, ReadOnly
<1> QED BY <1>1, <1>2, <1>3, <1>4, <1>5, <1>6, <1>7

\* Shares in proportion give nobody more than he invested.
LEMMA ProportionIsEnough ==
  ASSUME project' \in ProjectRow,
         got' \in [Stakes -> [held : Nat, reserve : Nat, again : BOOLEAN]],
         project'.fee <= project'.raised, GivenFits'
  PROVE  RefundWithinStake'
<1> SUFFICES ASSUME NEW i \in Stakes, ~got'[i].again
             PROVE  got'[i].held + got'[i].reserve <= Put[i]
  BY DEF RefundWithinStake
<1>1. /\ got'[i].held \in Nat /\ got'[i].reserve \in Nat /\ Put[i] \in Nat
      /\ project'.raised \in Nat /\ project'.fee \in 0 .. project'.raised
  BY ProjectsAssumption DEF ProjectRow
<1>2. /\ got'[i].held * project'.raised <= Put[i] * (project'.raised - project'.fee)
      /\ got'[i].reserve * project'.raised <= Put[i] * project'.fee
      /\ project'.raised = 0 => got'[i].held = 0 /\ got'[i].reserve = 0
  BY DEF GivenFits
<1>3. CASE project'.raised = 0
  BY <1>1, <1>2, <1>3
<1>4. CASE project'.raised # 0
  <2>1. project'.raised \in Nat \ {0}
    BY <1>1, <1>4
  <2> QED BY <1>1, <1>2, <2>1, PartsFit
<1> QED BY <1>3, <1>4

\* Milestones that change their status before they are released move nothing.
LEMMA StonesOnly ==
  ASSUME ProjectsRows, UNCHANGED <<project, stake, got, hasty, wallet>>,
         cut' \in BOOLEAN, DOMAIN projCall' = Calls, stones' \in Seq(Stone),
         \E m \in DOMAIN stones' : stones'[m].status # "released",
         project.settled \/ \A m \in DOMAIN stones' : stones'[m].status # "released",
         StonesInOrder'
  PROVE  ProjectsRows' /\ Custody' = Custody
<1>1. Custody' = Custody
  BY DEF Custody
<1>2. ProjectsTypeOK'
  BY DEF ProjectsRows, ProjectsInv, ProjectsTypeOK, Stone
<1>3. RaisedIsInvested' /\ HeldCoversPayments'
  BY <1>1 DEF ProjectsRows, ProjectsInv, RaisedIsInvested, HeldCoversPayments, Holds
<1>4. RefundWithinStake' /\ ReserveSpentOnce'
  BY DEF ProjectsRows, ProjectsInv, RefundWithinStake, ReserveSpentOnce
<1>5. ReleasedInFull'
  BY DEF ReleasedInFull
<1>6. RoundFits' /\ GivenFits' /\ (wallet \in [Users -> Row])'
  BY DEF ProjectsRows, RoundFits, GivenFits
<1> QED BY <1>1, <1>2, <1>3, <1>4, <1>5, <1>6 DEF ProjectsRows, ProjectsInv

\* A plan replaces the plan of a project that has not been approved.
LEMMA PlanStep ==
  ASSUME ProjectsIInv, NEW c \in Calls, CommitPlan(c)
  PROVE  ProjectsIInv'
<1>k. ProjectsRows /\ project \in ProjectRow /\ DOMAIN projCall = Calls /\ cut \in BOOLEAN
  BY RowsKnown DEF ProjectsIInv
<1>1. /\ projCall[c].op = "plan" /\ projCall' = [projCall EXCEPT ![c] = Idle]
      /\ project.status \in {"draft", "more_info_required", "submitted"}
      /\ UNCHANGED <<project, stake, got, hasty, cut, wallet>>
  BY DEF CommitPlan, ProjEnds, ProjGoes, EDITABLE
<1>2. PICK plan \in Plans : stones' = [m \in DOMAIN plan |-> [amount |-> plan[m], status |-> "planned"]]
  BY <1>1 DEF CommitPlan, ProjectsIInv, ProjCallKnows
<1>3. plan \in Seq(Nat) /\ plan # <<>>
  <2>1. plan \in Seq(Nat \ {0}) /\ plan # <<>>
    BY ProjectsAssumption
  <2> QED BY <2>1, SeqMonotonic
<1>4. Len(plan) \in Nat \ {0} /\ plan \in [1 .. Len(plan) -> Nat] /\ DOMAIN plan = 1 .. Len(plan)
  BY <1>3, LenProperties, EmptySeq
<1>5. stones' \in [1 .. Len(plan) -> Stone]
      /\ \A m \in DOMAIN stones' : stones'[m].status = "planned"
  BY <1>2, <1>4 DEF Stone
<1>6. stones' \in Seq(Stone)
  BY <1>4, <1>5, SeqDef
<1>7. 1 \in DOMAIN stones'
  BY <1>4, <1>5
<1>8. StonesInOrder'
  BY <1>5 DEF StonesInOrder
<1>9. /\ DOMAIN projCall' = Calls /\ projCall'[c] = Idle
      /\ \A d \in Calls \ {c} : projCall'[d] = projCall[d]
  BY <1>1, <1>k
<1>10. ProjectsRows' /\ Custody' = Custody
  BY <1>k, <1>1, <1>5, <1>6, <1>7, <1>8, <1>9, StonesOnly
<1>11. Follows
  BY <1>k, <1>1 DEF Follows, ProjectsRows, RoundFits, RoundEnded
<1>12. ProjCallKnows(c)'
  BY <1>9 DEF ProjCallKnows, Idle
<1>13. Idle.op = "idle"
  BY DEF Idle
<1> QED BY <1>1, <1>9, <1>10, <1>11, <1>12, <1>13, Aside

\* Asking for a milestone, and returning it.
LEMMA AskStep ==
  ASSUME ProjectsIInv, NEW m \in DOMAIN stones, RequestMilestone(m) \/ ReturnMilestone(m)
  PROVE  ProjectsIInv'
<1>k. /\ ProjectsRows /\ DOMAIN projCall = Calls /\ cut \in BOOLEAN /\ stones \in Seq(Stone)
      /\ StonesInOrder
  BY RowsKnown DEF ProjectsIInv, ProjectsRows, ProjectsInv
<1>1. PICK v \in {"requested", "returned"} : stones' = [stones EXCEPT ![m].status = v]
  BY DEF RequestMilestone, ReturnMilestone
<1>2. /\ stones[m].status # "released"
      /\ UNCHANGED <<project, stake, got, hasty, cut, projCall, wallet>>
  BY DEF RequestMilestone, ReturnMilestone
<1>3. /\ stones' \in Seq(Stone) /\ Len(stones') = Len(stones) /\ Len(stones) \in Nat
      /\ DOMAIN stones = 1 .. Len(stones) /\ DOMAIN stones' = 1 .. Len(stones)
      /\ stones'[m].status = v /\ \A k \in DOMAIN stones \ {m} : stones'[k] = stones[k]
  <2>1. v \in {"planned", "requested", "returned", "released"}
    OBVIOUS
  <2> QED BY <1>k, <1>1, <2>1, StoneStep
<1>4. \A k \in DOMAIN stones : (stones'[k].status = "released" <=> stones[k].status = "released")
  BY <1>2, <1>3
<1>5. StonesInOrder'
  <2> SUFFICES ASSUME NEW n \in DOMAIN stones', stones'[n].status = "released",
                      NEW k \in 1 .. n - 1
               PROVE  stones'[k].status = "released"
    BY DEF StonesInOrder, AllReleasedBefore
  <2>1. n \in DOMAIN stones /\ k \in DOMAIN stones /\ stones[n].status = "released"
    BY <1>3, <1>4
  <2>2. stones[k].status = "released"
    BY <1>k, <2>1 DEF StonesInOrder, AllReleasedBefore
  <2> QED BY <1>4, <2>1, <2>2
<1>6. ProjectsRows' /\ Custody' = Custody
  <2>1. project.settled \/ \A k \in DOMAIN stones' : stones'[k].status # "released"
    BY <1>k, <1>3, <1>4 DEF ProjectsRows, RoundFits
  <2>2. m \in DOMAIN stones' /\ stones'[m].status # "released"
    BY <1>3
  <2> QED BY <1>k, <1>2, <1>3, <1>5, <2>1, <2>2, StonesOnly
<1>7. Follows
  BY <1>2, <1>3, <1>4 DEF Follows
<1> QED BY <1>2, <1>6, <1>7, Aside

\* A decision about a project changes its status and nothing else.
LEMMA StatusOnly ==
  ASSUME ProjectsRows, UNCHANGED <<stones, stake, got, hasty, wallet>>,
         cut' \in BOOLEAN, DOMAIN projCall' = Calls,
         NEW s \in EDITABLE \cup RELEASABLE \cup {"submitted", "approved", "rejected", "listed", "cancelled"},
         project' = [project EXCEPT !.status = s], project.settled => s \in RoundEnded
  PROVE  /\ ProjectsRows' /\ Custody' = Custody /\ project'.status = s
         /\ project'.raised = project.raised /\ project'.fee = project.fee
         /\ project'.settled = project.settled /\ project'.released = project.released
<1>k. project \in ProjectRow
  BY RowsKnown
<1>0. /\ project' \in ProjectRow /\ project'.status = s
      /\ project'.raised = project.raised /\ project'.fee = project.fee
      /\ project'.settled = project.settled /\ project'.released = project.released
      /\ project'.refunded = project.refunded /\ project'.revenue = project.revenue
  BY <1>k DEF ProjectRow
<1>1. Custody' = Custody
  BY <1>0 DEF Custody
<1>2. ProjectsTypeOK'
  BY <1>0 DEF ProjectsRows, ProjectsInv, ProjectsTypeOK, ProjectRow
<1>3. RaisedIsInvested' /\ HeldCoversPayments'
  BY <1>0, <1>1 DEF ProjectsRows, ProjectsInv, RaisedIsInvested, HeldCoversPayments, Holds
<1>4. RefundWithinStake' /\ ReserveSpentOnce'
  BY <1>0 DEF ProjectsRows, ProjectsInv, RefundWithinStake, ReserveSpentOnce
<1>5. ReleasedInFull'
  BY <1>0 DEF ProjectsRows, ProjectsInv, ReleasedInFull, Held
<1>6. RoundFits' /\ GivenFits' /\ StonesInOrder' /\ (wallet \in [Users -> Row])'
  BY <1>0 DEF ProjectsRows, ProjectsInv, RoundFits, GivenFits, StonesInOrder, AllReleasedBefore
<1> QED BY <1>0, <1>1, <1>2, <1>3, <1>4, <1>5, <1>6 DEF ProjectsRows, ProjectsInv

\* The fee of a round goes to the platform, out of what the project holds.
LEMMA SettleRows ==
  ASSUME ProjectsRows, UNCHANGED <<stones, stake, got, hasty>>,
         cut' \in BOOLEAN, DOMAIN projCall' = Calls,
         project.status \in {"funded", "closed"}, \A i \in Stakes : got[i].held = 0,
         project' = Settle(project), wallet' = Credit(wallet, Platform, Charged(project))
  PROVE  /\ ProjectsRows' /\ Follows /\ project'.settled /\ project'.status = project.status
         /\ project'.raised = project.raised /\ project'.released = project.released
<1>k. /\ project \in ProjectRow /\ Total(wallet) \in Int /\ Custody \in Int
      /\ wallet \in [Users -> Row] /\ SumOver(InitialBalance, Users) \in Int
      /\ SumOver([i \in Stakes |-> got[i].held], Stakes) \in Nat
      /\ got \in [Stakes -> [held : Nat, reserve : Nat, again : BOOLEAN]]
      /\ Platform \in Users /\ IsFiniteSet(Users)
  BY RowsKnown, SharedAssumption
<1>0. /\ project' \in ProjectRow /\ project'.settled
      /\ project'.status = project.status /\ project'.raised = project.raised
      /\ project'.released = project.released /\ project'.refunded = project.refunded
      /\ project'.revenue = project.revenue
      /\ project.settled => project' = project /\ Charged(project) = 0
      /\ ~project.settled => project'.fee <= project.raised /\ Charged(project) = project'.fee
  BY <1>k, SettleFacts
<1>r. /\ ~project.settled =>
           /\ project.fee = 0 /\ project.refunded = 0 /\ project.revenue = 0
              /\ project.released = 0
           /\ \A i \in Stakes : got[i].reserve = 0
           /\ \A m \in DOMAIN stones : stones[m].status # "released"
      /\ RoundFits /\ GivenFits /\ StonesInOrder
      /\ RaisedIsInvested /\ HeldCoversPayments /\ ReserveSpentOnce /\ ReleasedInFull
      /\ RefundWithinStake /\ ProjectsTypeOK
  BY DEF ProjectsRows, ProjectsInv, RoundFits
<1>1. Charged(project) = project'.fee - project.fee /\ Charged(project) \in Int
  BY <1>k, <1>0, <1>r DEF ProjectRow
<1>2. wallet' \in [Users -> Row] /\ Total(wallet') = Total(wallet) + Charged(project)
  <2> DEFINE x == Charged(project)
  <2>1. x \in Int /\ wallet' = Credit(wallet, Platform, x)
    BY <1>1
  <2> HIDE DEF x
  <2>2. Credit(wallet, Platform, x) \in [Users -> Row]
    BY <1>k, <2>1, Increments
  <2>3. Total(Credit(wallet, Platform, x)) = Total(wallet) + x
    BY <1>k, <2>1, IncrementTotals
  <2> QED BY <2>1, <2>2, <2>3 DEF x
<1>3. Custody' = Custody - Charged(project)
  BY <1>k, <1>0, <1>1 DEF Custody, ProjectRow
<1>4. Custody' >= 0 \/ hasty
  <2>1. SumOver([i \in Stakes |-> got[i].held], Stakes) = 0
    BY ProjectsAssumption, SumOverZero
  <2>2. project.settled => Custody' = Custody
    BY <1>k, <1>0, <1>1, <1>3 DEF ProjectRow
  <2>3. ~project.settled => Custody' >= 0
    BY <1>k, <1>0, <1>r, <2>1 DEF Custody, ProjectRow
  <2> QED BY <1>r, <2>2, <2>3 DEF HeldCoversPayments
<1>5. ProjectsTypeOK'
  BY <1>0, <1>r DEF ProjectsTypeOK, ProjectRow
<1>6. RaisedIsInvested' /\ HeldCoversPayments'
  <2>1. (-Custody)' = -Custody + Charged(project) /\ Holds(-Custody)
    BY <1>k, <1>1, <1>3, <1>r DEF RaisedIsInvested
  <2>2. Total(wallet') = SumOver(InitialBalance, Users) + (-Custody)'
    BY <1>k, <1>1, <1>2, <2>1 DEF Holds
  <2>3. Holds(-Custody)'
    BY <2>2 DEF Holds
  <2> QED BY <1>0, <1>4, <1>r, <2>3 DEF RaisedIsInvested, HeldCoversPayments
<1>7. RefundWithinStake'
  BY <1>r DEF RefundWithinStake
<1>8. ReserveSpentOnce'
  BY <1>k, <1>0, <1>r DEF ReserveSpentOnce, ProjectRow
<1>9. ReleasedInFull'
  <2>1. CASE project.settled
    BY <1>0, <1>r, <2>1 DEF ReleasedInFull
  <2>2. CASE ~project.settled
    <3>1. stones = <<>> \/ \E m \in DOMAIN stones : TRUE
      <4>1. stones \in Seq(Stone) /\ Len(stones) \in Nat /\ DOMAIN stones = 1 .. Len(stones)
        BY RowsKnown
      <4>2. stones # <<>> => Len(stones) # 0
        BY <4>1, EmptySeq
      <4>3. stones # <<>> => 1 \in DOMAIN stones
        BY <4>1, <4>2
      <4> QED BY <4>3
    <3> QED BY <1>r, <2>2, <3>1 DEF ReleasedInFull
  <2> QED BY <2>1, <2>2
<1>10. RoundFits'
  BY <1>k, <1>0, <1>r DEF RoundFits, RoundEnded, ProjectRow
<1>11. GivenFits'
  <2>1. CASE project.settled
    BY <1>0, <1>r, <2>1 DEF GivenFits
  <2>2. CASE ~project.settled
    <3> SUFFICES ASSUME NEW i \in Stakes
                 PROVE  /\ got[i].held = 0 /\ got[i].reserve = 0
                        /\ got[i].held * project'.raised <= Put[i] * (project'.raised - project'.fee)
                        /\ got[i].reserve * project'.raised <= Put[i] * project'.fee
      BY DEF GivenFits
    <3>1. got[i].held = 0 /\ got[i].reserve = 0
      BY <1>r, <2>2
    <3>2. Put[i] \in Nat /\ project'.raised \in Nat /\ project'.fee \in 0 .. project'.raised
      BY <1>0, <2>2, ProjectsAssumption DEF ProjectRow
    <3>3. \A p, q, r \in Nat : 0 * q <= p * r
      OBVIOUS
    <3>4. project'.raised - project'.fee \in Nat /\ project'.fee \in Nat
      BY <3>2
    <3> QED BY <3>1, <3>2, <3>3, <3>4
  <2> QED BY <2>1, <2>2
<1>12. StonesInOrder'
  BY <1>r DEF StonesInOrder, AllReleasedBefore
<1>13. Follows
  BY <1>0 DEF Follows
<1> QED BY <1>0, <1>2, <1>5, <1>6, <1>7, <1>8, <1>9, <1>10, <1>11, <1>12,
    <1>13 DEF ProjectsRows, ProjectsInv

\* A submission takes an editable project into review.
LEMMA SubmitStep ==
  ASSUME ProjectsIInv, NEW c \in Calls, CommitSubmit(c)
  PROVE  ProjectsIInv'
<1>k. ProjectsRows /\ project \in ProjectRow /\ DOMAIN projCall = Calls /\ cut \in BOOLEAN
  BY RowsKnown DEF ProjectsIInv
<1>1. /\ projCall[c].op = "submit" /\ projCall' = [projCall EXCEPT ![c] = Idle]
      /\ UNCHANGED <<stones, stake, got, hasty, cut, wallet>>
      /\ project' = IF project.status \in EDITABLE
                    THEN [project EXCEPT !.status = "submitted"] ELSE project
  BY DEF CommitSubmit, ProjEnds, ProjGoes
<1>2. Idle.op = "idle"
  BY DEF Idle
<1>3. CASE project.status \notin EDITABLE
  <2>1. projCall'[c] = Idle => ProjCallKnows(c)'
    BY <1>2 DEF ProjCallKnows
  <2> QED BY <1>1, <1>2, <1>3, <2>1, ReadOnly
<1>4. CASE project.status \in EDITABLE
  <2>1. ~project.settled /\ project' = [project EXCEPT !.status = "submitted"]
    BY <1>k, <1>1, <1>4 DEF ProjectsRows, RoundFits, RoundEnded, EDITABLE
  <2>2. DOMAIN projCall' = Calls /\ projCall'[c] = Idle
        /\ \A d \in Calls \ {c} : projCall'[d] = projCall[d]
    BY <1>1, <1>k
  <2>3. /\ ProjectsRows' /\ Custody' = Custody /\ project'.status = "submitted"
        /\ project'.raised = project.raised /\ project'.fee = project.fee
    BY <1>k, <1>1, <2>1, <2>2, StatusOnly
  <2>4. Follows
    BY <1>1, <1>4, <2>1, <2>3 DEF Follows, EDITABLE
  <2>5. ProjCallKnows(c)'
    BY <1>2, <2>2 DEF ProjCallKnows
  <2> QED BY <1>1, <1>2, <2>2, <2>3, <2>4, <2>5, Aside
<1> QED BY <1>3, <1>4

\* Closing a round takes its fee.
LEMMA CloseStep ==
  ASSUME ProjectsIInv, NEW c \in Calls, CloseRound(c)
  PROVE  ProjectsIInv'
<1>k. ProjectsRows /\ project \in ProjectRow /\ DOMAIN projCall = Calls /\ cut \in BOOLEAN
  BY RowsKnown DEF ProjectsIInv
<1>1. /\ projCall[c].op = "closing" /\ projCall' = [projCall EXCEPT ![c] = Idle]
      /\ UNCHANGED <<stones, stake, got, hasty, cut>>
      /\ project' = Settle(project) /\ wallet' = Credit(wallet, Platform, Charged(project))
  BY DEF CloseRound, ChargeNow, ProjEnds, ProjGoes
<1>2. Idle.op = "idle"
  BY DEF Idle
<1>3. project.status = "closed"
  BY <1>1 DEF ProjectsIInv, ProjCallKnows
<1>4. \A i \in Stakes : got[i].held = 0
  BY <1>3 DEF ProjectsIInv, KeptUntilCancelled
<1>5. DOMAIN projCall' = Calls /\ projCall'[c] = Idle
      /\ \A d \in Calls \ {c} : projCall'[d] = projCall[d]
  BY <1>1, <1>k
<1>6. ProjectsRows' /\ Follows /\ project'.status = project.status
  BY <1>k, <1>1, <1>3, <1>4, <1>5, SettleRows
<1>7. ProjCallKnows(c)'
  BY <1>2, <1>5 DEF ProjCallKnows
<1> QED BY <1>1, <1>2, <1>3, <1>5, <1>6, <1>7, Aside

\* Releasing a milestone begins with the fee, if it was not taken.
LEMMA BeginReleaseStep ==
  ASSUME ProjectsIInv, NEW c \in Calls, NEW m \in DOMAIN stones, BeginRelease(c, m)
  PROVE  ProjectsIInv'
<1>k. /\ ProjectsRows /\ project \in ProjectRow /\ DOMAIN projCall = Calls /\ cut \in BOOLEAN
      /\ stones[m] \in Stone
  BY RowsKnown DEF ProjectsIInv
<1> DEFINE k == [op |-> "release", id |-> m, last |-> m = Len(stones),
                 amount |-> stones[m].amount,
                 raised |-> project.raised, released |-> project.released]
<1>1. /\ projCall[c].op = "idle" /\ projCall' = [projCall EXCEPT ![c] = k]
      /\ UNCHANGED <<stones, stake, got, hasty, cut>>
      /\ project' = Settle(project) /\ wallet' = Credit(wallet, Platform, Charged(project))
      /\ AllReleasedBefore(m) /\ project.status \in {"funded", "closed"}
  BY DEF BeginRelease, ProjBegin, Idle, RELEASABLE
<1>2. /\ k.op = "release" /\ k.id = m /\ k.last = (m = Len(stones)) /\ k.amount \in Nat
      /\ k.raised = project.raised /\ k.released = project.released /\ k.released \in Nat
  BY <1>k DEF ProjectRow, Stone
<1> HIDE DEF k
<1>4. \A i \in Stakes : got[i].held = 0
  BY <1>1 DEF ProjectsIInv, KeptUntilCancelled
<1>5. DOMAIN projCall' = Calls /\ projCall'[c] = k
      /\ \A d \in Calls \ {c} : projCall'[d] = projCall[d]
  BY <1>1, <1>k
<1>6. /\ ProjectsRows' /\ Follows /\ project'.settled /\ project'.status = project.status
      /\ project'.raised = project.raised /\ project'.released = project.released
  BY <1>k, <1>1, <1>4, <1>5, SettleRows
<1>7. ProjCallKnows(c)'
  BY <1>1, <1>2, <1>5, <1>6 DEF ProjCallKnows, AllReleasedBefore
<1> QED BY <1>1, <1>2, <1>5, <1>6, <1>7, Aside

\* What is left of the reserve stays with the platform.
LEMMA RevenueStep ==
  ASSUME ProjectsIInv, NEW c \in Calls, CommitRevenue(c)
  PROVE  ProjectsIInv'
<1>k. ProjectsRows /\ project \in ProjectRow /\ DOMAIN projCall = Calls /\ cut \in BOOLEAN
  BY RowsKnown DEF ProjectsIInv
<1>1. PICK amount : /\ amount = projCall[c].amount /\ projCall[c].op = "revenue"
                    /\ projCall' = [projCall EXCEPT ![c] = Idle]
                    /\ project' = IF CanPayFromReserve(project, amount)
                                  THEN [project EXCEPT !.revenue = @ + amount] ELSE project
                    /\ UNCHANGED <<stones, stake, got, hasty, cut, wallet>>
  BY DEF CommitRevenue, ProjEnds, ProjGoes
<1>2. Idle.op = "idle"
  BY DEF Idle
<1>a. amount \in Nat
  BY <1>1 DEF ProjectsIInv, ProjCallKnows
<1>3. CASE ~CanPayFromReserve(project, amount)
  <2>1. projCall'[c] = Idle => ProjCallKnows(c)'
    BY <1>2 DEF ProjCallKnows
  <2> QED BY <1>1, <1>2, <1>3, <2>1, ReadOnly
<1>4. CASE CanPayFromReserve(project, amount)
  <2>0. /\ project' \in ProjectRow /\ project'.revenue = project.revenue + amount
        /\ project'.status = project.status
        /\ project'.raised = project.raised /\ project'.fee = project.fee
        /\ project'.settled = project.settled /\ project'.released = project.released
        /\ project'.refunded = project.refunded
        /\ project'.refunded + project'.revenue <= project'.fee
    BY <1>k, <1>1, <1>4, <1>a DEF ProjectRow, CanPayFromReserve
  <2>1. Custody' = Custody
    BY <1>1, <2>0 DEF Custody
  <2>2. DOMAIN projCall' = Calls /\ projCall'[c] = Idle
        /\ \A d \in Calls \ {c} : projCall'[d] = projCall[d]
    BY <1>1, <1>k
  <2>3. ProjectsTypeOK'
    BY <1>1, <1>k, <2>0, <2>2 DEF ProjectsRows, ProjectsInv, ProjectsTypeOK, ProjectRow
  <2>4. RaisedIsInvested' /\ HeldCoversPayments'
    BY <1>1, <1>k, <2>0, <2>1 DEF ProjectsRows, ProjectsInv, RaisedIsInvested,
         HeldCoversPayments, Holds
  <2>5. RefundWithinStake' /\ ReserveSpentOnce'
    BY <1>1, <1>k, <2>0 DEF ProjectsRows, ProjectsInv, RefundWithinStake, ReserveSpentOnce
  <2>6. ReleasedInFull'
    BY <1>1, <1>k, <2>0 DEF ProjectsRows, ProjectsInv, ReleasedInFull, Held
  <2>7. GivenFits' /\ StonesInOrder' /\ (wallet \in [Users -> Row])'
    BY <1>1, <1>k, <2>0 DEF ProjectsRows, ProjectsInv, GivenFits, StonesInOrder, AllReleasedBefore
  <2>8. RoundFits'
    BY <1>1, <1>k, <2>0 DEF ProjectsRows, RoundFits, ProjectRow
  <2>9. ProjectsRows'
    BY <2>3, <2>4, <2>5, <2>6, <2>7, <2>8 DEF ProjectsRows, ProjectsInv
  <2>10. Follows
    BY <1>1, <2>0 DEF Follows
  <2>11. ProjCallKnows(c)'
    BY <1>2, <2>2 DEF ProjCallKnows
  <2> QED BY <1>1, <1>2, <2>0, <2>1, <2>2, <2>9, <2>10, <2>11, Aside
<1> QED BY <1>3, <1>4

\* A decision is written if the project is still as it was read; cancelling it
\* makes its handler the one who refunds.
LEMMA TransitionStep ==
  ASSUME ProjectsIInv, NEW c \in Calls, CommitTransition(c)
  PROVE  ProjectsIInv'
<1>k. /\ ProjectsRows /\ project \in ProjectRow /\ DOMAIN projCall = Calls /\ cut \in BOOLEAN
      /\ Len(stones) \in Nat /\ DOMAIN stones = 1 .. Len(stones)
      /\ \A d \in Calls : ProjCallKnows(d)
  BY RowsKnown DEF ProjectsIInv
<1>1. PICK a, k : /\ a = projCall[c].action /\ projCall[c].op = "review"
                  /\ k = CASE a = "close" -> [op |-> "closing"]
                           [] a = "cancel" -> [op |-> "cancelling"]
                           [] OTHER -> Idle
                  /\ projCall' = [projCall EXCEPT ![c] = k]
                  /\ project.status = projCall[c].was
                  /\ project' = [project EXCEPT !.status = Transitions[a].to]
                  /\ UNCHANGED <<stones, stake, got, hasty, cut, wallet>>
  BY DEF CommitTransition, ProjGoes
<1>2. a \in DOMAIN Transitions /\ project.status \in Transitions[a].from
  BY <1>1, <1>k DEF ProjCallKnows
<1>3. /\ project.status \in {"submitted", "more_info_required", "approved", "listed", "funded"}
      /\ Transitions[a].to \in {"submitted", "more_info_required", "approved", "rejected",
                                "listed", "closed", "cancelled"}
      /\ project.status = "funded" => Transitions[a].to \in {"closed", "cancelled"}
      /\ Transitions[a].to = "closed" <=> a = "close"
      /\ Transitions[a].to = "cancelled" <=> a = "cancel"
  BY <1>2, TransitionFacts
<1>4. DOMAIN projCall' = Calls /\ projCall'[c] = k
      /\ \A d \in Calls \ {c} : projCall'[d] = projCall[d]
  BY <1>1, <1>k
<1>5. /\ ProjectsRows' /\ Custody' = Custody /\ project'.status = Transitions[a].to
      /\ project'.raised = project.raised /\ project'.fee = project.fee
      /\ project'.settled = project.settled /\ project'.released = project.released
  <2>1. project.settled => Transitions[a].to \in RoundEnded
    BY <1>k, <1>3 DEF ProjectsRows, RoundFits, RoundEnded
  <2>2. Transitions[a].to \in EDITABLE \cup RELEASABLE \cup
                              {"submitted", "approved", "rejected", "listed", "cancelled"}
    BY <1>3 DEF EDITABLE, RELEASABLE
  <2> QED BY <1>k, <1>1, <1>4, <2>1, <2>2, StatusOnly
<1>6. Follows
  BY <1>1, <1>3, <1>5 DEF Follows
<1>7. CASE a # "cancel"
  <2>1. k.op \in {"closing", "idle"} /\ (k.op = "closing" => a = "close")
    BY <1>1, <1>7 DEF Idle
  <2>2. ProjCallKnows(c)'
    BY <1>3, <1>4, <1>5, <2>1 DEF ProjCallKnows
  <2>3. project'.status # "cancelled" /\ project.status # "cancelled"
    BY <1>3, <1>5, <1>7
  <2> QED BY <1>1, <1>4, <1>5, <1>6, <2>1, <2>2, <2>3, Aside
<1>8. CASE a = "cancel"
  <2>1. k.op = "cancelling" /\ project'.status = "cancelled" /\ project.status # "cancelled"
    BY <1>1, <1>3, <1>5, <1>8
  <2>2. ProjCallKnows(c)'
    BY <1>4, <2>1 DEF ProjCallKnows
  <2>3. \A d \in Calls : ProjCallKnows(d)'
    BY <1>k, <1>4, <1>6, <2>2, CallKept
  <2>4. \A d \in Calls : projCall[d].op \notin {"cancelling", "refunding"}
    BY <1>k, <2>1 DEF ProjCallKnows
  <2>5. \A d \in Calls \ {c} : projCall'[d].op \notin {"cancelling", "refunding"}
    BY <1>4, <2>4
  <2>6. (\A d \in Calls : RefundFits(d)') /\ OneRefund'
    BY <1>4, <2>1, <2>5 DEF RefundFits, OneRefund
  <2>7. KeptUntilCancelled'
    BY <1>1, <2>1 DEF ProjectsIInv, KeptUntilCancelled
  <2>8. RefundKnowsAll'
    BY <1>4, <2>1 DEF RefundKnowsAll
  <2> QED BY <1>5, <2>3, <2>6, <2>7, <2>8 DEF ProjectsIInv
<1> QED BY <1>7, <1>8

\* An investment is added to what the project raised; the one that reaches the
\* target settles the round.
LEMMA InvestStep ==
  ASSUME ProjectsIInv, NEW c \in Calls, CommitInvest(c)
  PROVE  ProjectsIInv'
<1>k. /\ ProjectsRows /\ project \in ProjectRow /\ DOMAIN projCall = Calls /\ cut \in BOOLEAN
      /\ stones \in Seq(Stone) /\ Len(stones) \in Nat /\ DOMAIN stones = 1 .. Len(stones)
      /\ stake \in [Stakes -> {"none", "committed", "active", "refunded", "partially_refunded"}]
      /\ got \in [Stakes -> [held : Nat, reserve : Nat, again : BOOLEAN]]
      /\ wallet \in [Users -> Row] /\ Total(wallet) \in Int /\ Custody \in Int
      /\ SumOver(InitialBalance, Users) \in Int
  BY RowsKnown DEF ProjectsIInv
<1>a. /\ Platform \in Users /\ IsFiniteSet(Users) /\ IsFiniteSet(Stakes)
         /\ Backer \in [Stakes -> Users]
      /\ Put \in [Stakes -> Nat] /\ INVESTMENT_FEE \in Nat /\ Target \in Nat
  BY SharedAssumption, ProjectsAssumption
<1> DEFINE more(i) == [project EXCEPT !.raised = @ + Put[i]]
           paid(i) == Credit(Debit(wallet, Backer[i], Put[i] + INVESTMENT_FEE), Platform, INVESTMENT_FEE)
<1>1. PICK i : /\ i = projCall[c].id /\ projCall[c].op = "invest"
               /\ projCall' = [projCall EXCEPT ![c] = Idle]
               /\ stake[i] = "none" /\ project.status = "listed"
                  /\ project.raised + Put[i] <= Target
               /\ stake' = [stake EXCEPT ![i] = "committed"]
               /\ project' = IF more(i).raised >= Target
                             THEN Settle([more(i) EXCEPT !.status = "funded"]) ELSE more(i)
               /\ wallet' = IF more(i).raised >= Target
                            THEN Credit(paid(i), Platform, Charged(more(i))) ELSE paid(i)
               /\ UNCHANGED <<stones, got, hasty, cut>>
  BY DEF CommitInvest, Invests, Room, ProjEnds, ProjGoes
<1>2. i \in Stakes
  BY <1>1 DEF ProjectsIInv, ProjCallKnows
<1>3. Idle.op = "idle"
  BY DEF Idle
<1>4. DOMAIN projCall' = Calls /\ projCall'[c] = Idle
      /\ \A d \in Calls \ {c} : projCall'[d] = projCall[d]
  BY <1>1, <1>k
<1>5. /\ ~project.settled /\ project.fee = 0 /\ project.refunded = 0 /\ project.revenue = 0
      /\ project.released = 0
      /\ \A j \in Stakes : got[j].reserve = 0 /\ got[j].held = 0
      /\ \A m \in DOMAIN stones : stones[m].status # "released"
  <2>1. ~project.settled /\ \A j \in Stakes : got[j].held = 0
    BY <1>1, <1>k DEF ProjectsIInv, KeptUntilCancelled, ProjectsRows, RoundFits, RoundEnded
  <2> QED BY <1>k, <2>1 DEF ProjectsRows, RoundFits
<1>5a. /\ project \in ProjectRow /\ ~project.settled /\ project.fee = 0 /\ project.refunded = 0
       /\ project.revenue = 0 /\ project.released = 0 /\ project.raised \in Nat /\ Put[i] \in Nat
       /\ project.status = "listed"
  <2>1. project.raised \in Nat
    BY <1>k DEF ProjectRow
  <2> QED BY <1>k, <1>a, <1>1, <1>2, <1>5, <2>1
<1>6. PICK charge : charge = IF more(i).raised >= Target THEN Charged(more(i)) ELSE 0
  OBVIOUS
<1>7. /\ project' \in ProjectRow /\ project'.raised = project.raised + Put[i]
      /\ project'.released = 0 /\ project'.refunded = 0 /\ project'.revenue = 0
      /\ project'.fee = charge /\ charge \in Nat /\ charge <= project'.raised
      /\ project'.status \in {"listed", "funded"}
      /\ project'.settled => project'.status = "funded"
      /\ ~project'.settled => project'.fee = 0
  <2> DEFINE m == more(i)
             f == [m EXCEPT !.status = "funded"]
  <2>1. /\ m \in ProjectRow /\ m.raised = project.raised + Put[i] /\ ~m.settled /\ m.fee = 0
        /\ m.released = 0 /\ m.refunded = 0 /\ m.revenue = 0 /\ m.status = "listed"
    BY <1>5a DEF ProjectRow
  <2> HIDE DEF m
  <2>2. /\ f \in ProjectRow /\ f.raised = m.raised /\ ~f.settled /\ f.fee = 0
        /\ f.released = 0 /\ f.refunded = 0 /\ f.revenue = 0 /\ f.status = "funded"
    BY <2>1 DEF ProjectRow, RELEASABLE
  <2>3. Settle(f).fee = Settle(m).fee
    BY <2>1, <2>2 DEF Settle, ProjectRow
  <2>4. Charged(m) = Settle(m).fee
    BY <2>1 DEF Charged
  <2> HIDE DEF f
  <2>5. /\ Settle(f) \in ProjectRow /\ Settle(f).settled
        /\ Settle(f).status = "funded" /\ Settle(f).raised = m.raised
        /\ Settle(f).released = 0 /\ Settle(f).refunded = 0
        /\ Settle(f).revenue = 0
        /\ Settle(f).fee <= m.raised /\ Settle(f).fee \in Nat
    BY <2>2, SettleFacts DEF ProjectRow
  <2>6. /\ project' = IF m.raised >= Target THEN Settle(f) ELSE m
        /\ charge = IF m.raised >= Target THEN Charged(m) ELSE 0
    BY <1>1, <1>6 DEF m, f
  <2>7. CASE m.raised >= Target
    BY <2>1, <2>3, <2>4, <2>5, <2>6, <2>7
  <2>8. CASE ~(m.raised >= Target)
    BY <2>1, <2>6, <2>8 DEF ProjectRow
  <2> QED BY <2>7, <2>8
<1>8. wallet' \in [Users -> Row] /\ Total(wallet') = Total(wallet) - Put[i] + charge
  <2>1. PICK x, b : x = Put[i] + INVESTMENT_FEE /\ b = Backer[i]
    OBVIOUS
  <2>2. x \in Int /\ INVESTMENT_FEE \in Int /\ b \in Users /\ Put[i] \in Int /\ charge \in Int
    BY <1>a, <1>2, <1>7, <2>1
  <2>3. PICK w : w = Credit(Debit(wallet, b, x), Platform, INVESTMENT_FEE)
    OBVIOUS
  <2>4. w \in [Users -> Row]
    BY <1>k, <1>a, <2>2, <2>3, MoveTotals
  <2>5. Total(w) = Total(wallet) - x + INVESTMENT_FEE
    BY <1>k, <1>a, <2>2, <2>3, MoveTotals
  <2>6. Credit(w, Platform, charge) \in [Users -> Row]
    BY <1>a, <2>2, <2>4, Increments
  <2>7. Total(w) \in Int /\ Total(Credit(w, Platform, charge)) = Total(w) + charge
    BY <1>a, <2>2, <2>4, IncrementTotals
  <2>8. wallet' = IF more(i).raised >= Target THEN Credit(w, Platform, charge) ELSE w
    BY <1>1, <1>6, <2>1, <2>3
  <2>9. ~(more(i).raised >= Target) => charge = 0
    BY <1>6
  <2> HIDE DEF more, paid
  <2>10. wallet' \in [Users -> Row] /\ Total(wallet') = Total(w) + charge
    BY <2>2, <2>4, <2>6, <2>7, <2>8, <2>9
  <2>11. Total(w) = Total(wallet) - Put[i]
    BY SMTT(30), <1>k, <1>a, <2>1, <2>2, <2>5
  <2> QED BY <2>10, <2>11
<1> HIDE DEF more, paid
<1>9. Custody' = Custody + Put[i] - charge
  <2>1. SumOver([j \in Stakes |-> got[j].held], Stakes) \in Nat
    BY <1>k, RowsKnown
  <2>2. PICK h : h \in Int /\ h = SumOver([j \in Stakes |-> got[j].held], Stakes)
    BY <2>1
  <2>3. got' = got
    BY <1>1
  <2>4. Custody = project.raised - h
    BY <1>5a, <2>2 DEF Custody
  <2>5. Custody' = project.raised + Put[i] - charge - h
    BY <1>5a, <1>7, <2>2, <2>3 DEF Custody
  <2> QED BY <1>5a, <1>7, <2>2, <2>4, <2>5
<1>10. Custody' >= 0
  <2>1. SumOver([j \in Stakes |-> got[j].held], Stakes) = 0
    BY <1>a, <1>5, SumOverZero
  <2> QED BY <1>1, <1>7, <2>1 DEF Custody, ProjectRow
<1>11. ProjectsTypeOK'
  <2>1. stake' \in [Stakes -> {"none", "committed", "active", "refunded", "partially_refunded"}]
    BY <1>1, <1>k
  <2> QED BY <1>1, <1>4, <1>7, <1>k, <2>1 DEF ProjectsRows, ProjectsInv, ProjectsTypeOK,
      ProjectRow
<1>12. RaisedIsInvested'
  <2> DEFINE T == {j \in Stakes : stake[j] # "none"}
  <2>1. /\ {j \in Stakes : stake'[j] # "none"} = T \cup {i}
        /\ T \in SUBSET Stakes /\ i \in Stakes \ T
    BY <1>1, <1>2, <1>k
  <2>2. project.raised = SumOver(Put, T) /\ Holds(-Custody)
    BY <1>k DEF ProjectsRows, ProjectsInv, RaisedIsInvested
  <2> HIDE DEF T
  <2>3. SumOver(Put, T \cup {i}) = SumOver(Put, T) + Put[i]
    <3>1. Put \in [Stakes -> Int]
      BY <1>a
    <3> QED BY <1>a, <2>1, <3>1, SumOverPart
  <2>4. project'.raised = SumOver(Put, {j \in Stakes : stake'[j] # "none"})
    BY <1>7, <2>1, <2>2, <2>3
  <2>5. (-Custody)' = -Custody - Put[i] + charge /\ Put[i] \in Int
    BY <1>k, <1>a, <1>2, <1>7, <1>9
  <2>6. Total(wallet') = SumOver(InitialBalance, Users) + (-Custody)'
    BY <1>k, <1>7, <1>8, <2>2, <2>5 DEF Holds
  <2>7. Holds(-Custody)'
    BY <2>6 DEF Holds
  <2> QED BY <1>1, <1>7, <2>4, <2>7 DEF RaisedIsInvested
<1>13. HeldCoversPayments'
  BY <1>10 DEF HeldCoversPayments
<1>14. RefundWithinStake'
  BY <1>1, <1>k DEF ProjectsRows, ProjectsInv, RefundWithinStake
<1>15. ReserveSpentOnce'
  BY <1>1, <1>5, <1>7, <1>k DEF ProjectsRows, ProjectsInv, ReserveSpentOnce
<1>16. ReleasedInFull'
  <2>1. stones # <<>> => 1 \in DOMAIN stones
    <3>1. stones # <<>> => Len(stones) # 0
      BY <1>k, EmptySeq
    <3> QED BY <1>k, <3>1
  <2> QED BY <1>1, <1>5, <2>1 DEF ReleasedInFull
<1>17. RoundFits' /\ StonesInOrder'
  BY <1>1, <1>5, <1>7 DEF RoundFits, StonesInOrder, RoundEnded, ProjectRow
<1>18. GivenFits'
  <2> SUFFICES ASSUME NEW j \in Stakes
               PROVE  /\ got[j].held = 0 /\ got[j].reserve = 0
                      /\ got[j].held * project'.raised <= Put[j] * (project'.raised - project'.fee)
                      /\ got[j].reserve * project'.raised <= Put[j] * project'.fee
    BY <1>1 DEF GivenFits
  <2>1. \A p, q, r \in Nat : 0 * q <= p * r
    OBVIOUS
  <2>2. /\ Put[j] \in Nat /\ project'.raised \in Nat /\ project'.fee \in Nat
        /\ project'.raised - project'.fee \in Nat
    BY <1>7, <1>a DEF ProjectRow
  <2> QED BY <1>5, <2>1, <2>2
<1>19. ProjectsRows'
  BY <1>8, <1>11, <1>12, <1>13, <1>14, <1>15, <1>16, <1>17, <1>18 DEF ProjectsRows, ProjectsInv
<1>20. Follows
  BY <1>1, <1>5, <1>2, <1>k DEF Follows
<1>21. ProjCallKnows(c)'
  BY <1>3, <1>4 DEF ProjCallKnows
<1>22. project.status # "cancelled" /\ project'.status # "cancelled"
  BY <1>1, <1>7
<1> QED BY <1>1, <1>3, <1>4, <1>19, <1>20, <1>21, <1>22, Aside

\* What a loss gives back to the investors is what it takes from the platform.
LEMMA LossMoves ==
  ASSUME wallet \in [Users -> Row], NEW part, DOMAIN part \subseteq Stakes,
         \A i \in DOMAIN part : part[i] \in Nat,
         NEW total, total = SumOver(part, DOMAIN part),
         NEW w, w = Debit([u \in Users |->
                      [wallet[u] EXCEPT !.balance = @ + SumOver(part, {i \in DOMAIN part : Backer[i] = u})]],
                      Platform, total)
  PROVE  total \in Nat /\ w \in [Users -> Row] /\ Total(w) = Total(wallet)
<1>a. /\ Platform \in Users /\ IsFiniteSet(Users) /\ IsFiniteSet(Stakes)
      /\ Backer \in [Stakes -> Users]
  BY SharedAssumption, ProjectsAssumption
<1>1. PICK D, q, B : D = DOMAIN part /\ q = [i \in D |-> part[i]] /\ B = [i \in D |-> Backer[i]]
  OBVIOUS
<1>2. /\ IsFiniteSet(D) /\ D \subseteq Stakes /\ q \in [D -> Int] /\ B \in [D -> Users]
      /\ (\A i \in D : part[i] = q[i]) /\ (\A i \in D : q[i] >= 0)
         /\ \A i \in D : B[i] = Backer[i]
  <2>1. D \subseteq Stakes /\ IsFiniteSet(D)
    BY <1>a, <1>1, FS_Subset
  <2> QED BY <1>a, <1>1, <2>1
<1>3. total = SumOver(q, D) /\ total \in Nat
  <2>1. SumOver(part, D) = SumOver(q, D)
    BY <1>2, SumOverSame
  <2>2. SumOver(q, D) \in Int /\ SumOver(q, D) >= 0
    BY <1>2, SumOverBound
  <2> QED BY <1>1, <2>1, <2>2
<1>4. PICK b : b = [u \in Users |-> SumOver(q, {i \in D : B[i] = u})]
  OBVIOUS
<1>5. b \in [Users -> Int]
  BY <1>a, <1>2, <1>4, SumOverOwners
<1>6. SumOver(b, Users) = total
  BY <1>a, <1>2, <1>3, <1>4, SumOverOwners
<1>7. ASSUME NEW u \in Users
      PROVE  SumOver(part, {i \in DOMAIN part : Backer[i] = u}) = b[u]
  <2>1. PICK T : T = {i \in D : B[i] = u}
    OBVIOUS
  <2>2. T \subseteq D /\ T = {i \in DOMAIN part : Backer[i] = u} /\ IsFiniteSet(T)
    BY <1>1, <1>2, <2>1, FS_Subset
  <2>3. PICK r : r = [i \in T |-> q[i]]
    OBVIOUS
  <2>4. r \in [T -> Int] /\ (\A i \in T : part[i] = r[i]) /\ \A i \in T : q[i] = r[i]
    BY <1>2, <2>2, <2>3
  <2>5. SumOver(part, T) = SumOver(r, T) /\ SumOver(q, T) = SumOver(r, T)
    BY <2>2, <2>4, SumOverSame
  <2> QED BY <1>4, <2>1, <2>2, <2>5
<1>8. PICK v : v = [u \in Users |-> [wallet[u] EXCEPT !.balance = @ + b[u]]]
  OBVIOUS
<1>9. w = Debit(v, Platform, total)
  <2>1. [u \in Users |->
           [wallet[u] EXCEPT !.balance = @ + SumOver(part, {i \in DOMAIN part : Backer[i] = u})]] = v
    BY <1>7, <1>8
  <2> QED BY <2>1
<1>10. v \in [Users -> Row] /\ \A u \in Users : v[u].balance = wallet[u].balance + b[u]
  BY <1>5, <1>8 DEF Row
<1>11. Total(v) = Total(wallet) + total
  <2>1. PICK f, g : /\ f = [u \in Users |-> wallet[u].balance]
                    /\ g = [u \in Users |-> v[u].balance]
    OBVIOUS
  <2>2. f \in [Users -> Int] /\ g \in [Users -> Int] /\ \A u \in Users : g[u] = f[u] + b[u]
    BY <1>10, <2>1 DEF Row
  <2>3. SumOver(g, Users) = SumOver(f, Users) + SumOver(b, Users)
    BY <1>a, <1>5, <2>2, SumOverPlus
  <2>4. Total(wallet) = SumOver(f, Users) /\ Total(v) = SumOver(g, Users)
    <3>1. DOMAIN wallet = Users /\ DOMAIN v = Users
      BY <1>10
    <3> QED BY <2>1, <3>1 DEF Total
  <2> QED BY <1>6, <2>3, <2>4
<1>12. Debit(v, Platform, total) \in [Users -> Row]
  <2>1. total \in Int
    BY <1>3
  <2> QED BY <1>a, <1>10, <2>1, Increments
<1>13. Total(Debit(v, Platform, total)) = Total(v) - total /\ Total(v) \in Int
  <2>1. total \in Int
    BY <1>3
  <2> QED BY <1>a, <1>10, <2>1, IncrementTotals
<1>14. Total(wallet) \in Int
  BY <1>a, <1>3, IncrementTotals
<1>15. Total(w) = Total(Debit(v, Platform, total)) /\ w \in [Users -> Row]
  BY <1>9, <1>12
<1>16. Total(Debit(v, Platform, total)) = Total(wallet)
  BY <1>3, <1>11, <1>13, <1>14
<1> QED BY <1>3, <1>15, <1>16

\* What giving something back does to the record of an investment.
LEMMA GivenFacts ==
  ASSUME NEW g \in [held : Nat, reserve : Nat, again : BOOLEAN], NEW h \in Nat, NEW r \in Nat
  PROVE  /\ Given(g, h, r) \in [held : Nat, reserve : Nat, again : BOOLEAN]
         /\ Given(g, h, r).held = g.held + h /\ Given(g, h, r).reserve = g.reserve + r
         /\ ~Given(g, h, r).again => ~g.again /\ (g.reserve = 0 \/ r = 0)
<1>1. /\ g.held + h \in Nat /\ g.reserve + r \in Nat /\ g.reserve \in Nat
      /\ (g.again \/ (g.reserve > 0 /\ r > 0)) \in BOOLEAN
  OBVIOUS
<1>2. Given(g, h, r) \in [held : Nat, reserve : Nat, again : BOOLEAN]
  BY <1>1 DEF Given
<1>3. /\ Given(g, h, r).held = g.held + h /\ Given(g, h, r).reserve = g.reserve + r
      /\ Given(g, h, r).again = (g.again \/ (g.reserve > 0 /\ r > 0))
  BY DEF Given
<1>4. ~Given(g, h, r).again => ~g.again /\ ~(g.reserve > 0 /\ r > 0)
  BY <1>3, Zenon
<1>5. ~(g.reserve > 0 /\ r > 0) => g.reserve = 0 \/ r = 0
  BY <1>1
<1> QED BY <1>2, <1>3, <1>4, <1>5

\* What a loss adds to the investments is what the project counts as refunded.
LEMMA LossCounts ==
  ASSUME got \in [Stakes -> [held : Nat, reserve : Nat, again : BOOLEAN]],
         NEW part, DOMAIN part \subseteq Stakes, \A i \in DOMAIN part : part[i] \in Nat,
         NEW g \in [Stakes -> [held : Nat, reserve : Nat, again : BOOLEAN]],
         \A i \in Stakes \ DOMAIN part : g[i] = got[i],
         \A i \in DOMAIN part : g[i].reserve = got[i].reserve + part[i]
  PROVE  SumOver([i \in Stakes |-> g[i].reserve], Stakes)
           = SumOver([i \in Stakes |-> got[i].reserve], Stakes) + SumOver(part, DOMAIN part)
<1>a. IsFiniteSet(Stakes) /\ IsFiniteSet(DOMAIN part)
  BY ProjectsAssumption, FS_Subset
<1>3. PICK f, k, e : /\ f = [i \in Stakes |-> got[i].reserve]
                     /\ k = [i \in Stakes |-> g[i].reserve]
                     /\ e = [i \in Stakes |-> IF i \in DOMAIN part THEN part[i] ELSE 0]
  OBVIOUS
<1>4. f \in [Stakes -> Int] /\ k \in [Stakes -> Int] /\ e \in [Stakes -> Int]
  BY <1>3
<1>5. \A i \in Stakes : k[i] = f[i] + e[i]
  <2> SUFFICES ASSUME NEW i \in Stakes PROVE k[i] = f[i] + e[i]
    OBVIOUS
  <2>1. k[i] = g[i].reserve /\ f[i] = got[i].reserve /\ f[i] \in Int
    BY <1>3, <1>4
  <2>2. CASE i \in DOMAIN part
    BY <1>3, <2>1, <2>2
  <2>3. CASE i \notin DOMAIN part
    <3>1. e[i] = 0 /\ k[i] = f[i]
      BY <1>3, <2>1, <2>3
    <3> QED BY <2>1, <3>1
  <2> QED BY <2>2, <2>3
<1>6. SumOver(k, Stakes) = SumOver(f, Stakes) + SumOver(e, Stakes)
  BY <1>a, <1>4, <1>5, SumOverPlus
<1>7. SumOver(e, Stakes) = SumOver(e, DOMAIN part)
  <2>1. \A i \in Stakes \ DOMAIN part : e[i] = 0
    BY <1>3
  <2> QED BY <1>a, <1>4, <2>1, SumOverRest
<1>8. SumOver(e, DOMAIN part) = SumOver(part, DOMAIN part)
  <2>1. PICK q : q = [i \in DOMAIN part |-> part[i]]
    OBVIOUS
  <2>2. q \in [DOMAIN part -> Int] /\ (\A i \in DOMAIN part : part[i] = q[i])
        /\ \A i \in DOMAIN part : e[i] = q[i]
    BY <1>3, <2>1
  <2> QED BY SMTT(30), <1>a, <2>2, SumOverSame
<1> QED BY <1>3, <1>6, <1>7, <1>8

\* A loss gives of the reserve what is in proportion, to those who were given none.
LEMMA LossStep ==
  ASSUME ProjectsIInv, NEW c \in Calls, CommitLoss(c)
  PROVE  ProjectsIInv'
<1>k. /\ ProjectsRows /\ project \in ProjectRow /\ DOMAIN projCall = Calls /\ cut \in BOOLEAN
      /\ wallet \in [Users -> Row]
         /\ got \in [Stakes -> [held : Nat, reserve : Nat, again : BOOLEAN]]
  BY RowsKnown DEF ProjectsIInv
<1>1. PICK part, total :
        /\ part = projCall[c].part /\ total = SumOver(part, DOMAIN part)
        /\ projCall[c].op = "loss" /\ projCall' = [projCall EXCEPT ![c] = Idle]
        /\ IF CanPayFromReserve(project, total)
           THEN /\ project' = [project EXCEPT !.refunded = @ + total]
                /\ got' = [i \in Stakes |-> IF i \in DOMAIN part
                             THEN Given(got[i], 0, part[i]) ELSE got[i]]
                /\ wallet' = Debit([u \in Users |->
                     [wallet[u] EXCEPT !.balance = @ + SumOver(part, {i \in DOMAIN part : Backer[i] = u})]],
                     Platform, total)
           ELSE UNCHANGED <<project, got, wallet>>
        /\ UNCHANGED <<stones, stake, hasty, cut>>
  BY DEF CommitLoss, ProjEnds, ProjGoes
<1>2. Idle.op = "idle"
  BY DEF Idle
<1>3. /\ project.settled /\ project.raised > 0 /\ DOMAIN part \subseteq Stakes
      /\ \A i \in DOMAIN part : part[i] \in Nat
      /\ \A i \in DOMAIN part : part[i] * project.raised <= Put[i] * project.fee
  BY <1>1 DEF ProjectsIInv, ProjCallKnows
<1>4. CASE ~CanPayFromReserve(project, total)
  <2>1. projCall'[c] = Idle => ProjCallKnows(c)'
    BY <1>2 DEF ProjCallKnows
  <2> QED BY <1>1, <1>2, <1>4, <2>1, ReadOnly
<1>5. CASE CanPayFromReserve(project, total)
  <2>1. /\ project' = [project EXCEPT !.refunded = @ + total]
        /\ got' = [i \in Stakes |-> IF i \in DOMAIN part THEN Given(got[i], 0, part[i]) ELSE got[i]]
    BY <1>1, <1>5
  <2>2. total \in Nat /\ wallet' \in [Users -> Row] /\ Total(wallet') = Total(wallet)
    <3>1. /\ wallet' = Debit([u \in Users |->
               [wallet[u] EXCEPT !.balance = @ + SumOver(part, {i \in DOMAIN part : Backer[i] = u})]],
               Platform, total)
          /\ wallet \in [Users -> Row] /\ DOMAIN part \subseteq Stakes
          /\ (\A i \in DOMAIN part : part[i] \in Nat) /\ total = SumOver(part, DOMAIN part)
      BY <1>k, <1>1, <1>3, <1>5
    <3>2. PICK w : w = wallet'
      OBVIOUS
    <3>3. total \in Nat
      BY <3>1, LossMoves
    <3>4. w \in [Users -> Row]
      BY <3>1, <3>2, LossMoves
    <3>5. Total(w) = Total(wallet)
      BY <3>1, <3>2, LossMoves
    <3> QED BY <3>2, <3>3, <3>4, <3>5
  <2>3. /\ got' \in [Stakes -> [held : Nat, reserve : Nat, again : BOOLEAN]]
        /\ \A i \in Stakes : got'[i].held = got[i].held
        /\ \A i \in Stakes : i \notin DOMAIN part => got'[i] = got[i]
        /\ \A i \in DOMAIN part :
             /\ got'[i].reserve = got[i].reserve + part[i]
             /\ ~got'[i].again => ~got[i].again /\ (got[i].reserve = 0 \/ part[i] = 0)
        /\ SumOver([i \in Stakes |-> got'[i].reserve], Stakes)
             = SumOver([i \in Stakes |-> got[i].reserve], Stakes) + total
    <3>1. ASSUME NEW i \in Stakes
          PROVE  /\ got'[i] \in [held : Nat, reserve : Nat, again : BOOLEAN]
                 /\ got'[i].held = got[i].held
                 /\ i \notin DOMAIN part => got'[i] = got[i]
                 /\ i \in DOMAIN part =>
                      /\ got'[i].reserve = got[i].reserve + part[i]
                      /\ ~got'[i].again => ~got[i].again /\ (got[i].reserve = 0 \/ part[i] = 0)
      <4>1. got[i] \in [held : Nat, reserve : Nat, again : BOOLEAN]
            /\ got[i].held + 0 = got[i].held
        BY <1>k
      <4>2. CASE i \in DOMAIN part
        <5>1. got'[i] = Given(got[i], 0, part[i]) /\ part[i] \in Nat /\ 0 \in Nat
          BY <1>3, <2>1, <4>2
        <5>2. PICK x, g : x = got[i] /\ g = Given(x, 0, part[i])
          OBVIOUS
        <5>3. /\ g \in [held : Nat, reserve : Nat, again : BOOLEAN]
              /\ g.held = x.held + 0 /\ g.reserve = x.reserve + part[i]
              /\ ~g.again => ~x.again /\ (x.reserve = 0 \/ part[i] = 0)
          BY <4>1, <5>1, <5>2, GivenFacts
        <5> QED BY <4>1, <4>2, <5>1, <5>2, <5>3
      <4>3. CASE i \notin DOMAIN part
        BY <2>1, <4>1, <4>3
      <4> QED BY <4>2, <4>3
    <3>2. got' \in [Stakes -> [held : Nat, reserve : Nat, again : BOOLEAN]]
      BY <2>1, <3>1
    <3>3. /\ \A i \in Stakes \ DOMAIN part : got'[i] = got[i]
          /\ \A i \in DOMAIN part : got'[i].reserve = got[i].reserve + part[i]
      BY <1>3, <3>1
    <3>4. SumOver([i \in Stakes |-> got'[i].reserve], Stakes)
            = SumOver([i \in Stakes |-> got[i].reserve], Stakes) + SumOver(part, DOMAIN part)
      BY <1>k, <1>3, <3>2, <3>3, LossCounts
    <3> QED BY <1>1, <1>3, <3>1, <3>2, <3>4
  <2>4. /\ project' \in ProjectRow /\ project'.refunded = project.refunded + total
        /\ project'.revenue = project.revenue /\ project'.status = project.status
        /\ project'.raised = project.raised /\ project'.fee = project.fee
        /\ project'.settled = project.settled /\ project'.released = project.released
        /\ project'.refunded + project'.revenue <= project'.fee
    BY <1>k, <1>5, <2>1, <2>2 DEF ProjectRow, CanPayFromReserve
  <2>5. DOMAIN projCall' = Calls /\ projCall'[c] = Idle
        /\ \A d \in Calls \ {c} : projCall'[d] = projCall[d]
    BY <1>1, <1>k
  <2>6. Custody' = Custody
    <3>1. [i \in Stakes |-> got'[i].held] = [i \in Stakes |-> got[i].held]
      BY <2>3
    <3> QED BY <2>4, <3>1 DEF Custody
  <2>7. ProjectsTypeOK'
    BY <1>1, <1>k, <2>3, <2>4, <2>5 DEF ProjectsRows, ProjectsInv, ProjectsTypeOK, ProjectRow
  <2>8. RaisedIsInvested' /\ HeldCoversPayments'
    BY <1>1, <1>k, <2>2, <2>4, <2>6 DEF ProjectsRows, ProjectsInv, RaisedIsInvested,
         HeldCoversPayments, Holds
  <2>9. GivenFits'
    <3> SUFFICES ASSUME NEW i \in Stakes
                 PROVE  /\ stake[i] \in {"none", "committed", "active"} => got'[i].held = 0
                        /\ got'[i].held * project'.raised <= Put[i] * (project'.raised - project'.fee)
                        /\ got'[i].again \/ got'[i].reserve * project'.raised <= Put[i] * project'.fee
                        /\ project'.raised # 0
      BY <1>1 DEF GivenFits
    <3>1. /\ stake[i] \in {"none", "committed", "active"} => got[i].held = 0
          /\ got[i].held * project.raised <= Put[i] * (project.raised - project.fee)
          /\ got[i].again \/ got[i].reserve * project.raised <= Put[i] * project.fee
      BY <1>k DEF ProjectsRows, GivenFits
    <3>2. got'[i].again \/ got'[i].reserve * project.raised <= Put[i] * project.fee
      <4>1. CASE i \notin DOMAIN part
        BY <2>3, <3>1, <4>1
      <4>2. CASE i \in DOMAIN part /\ ~got'[i].again
        <5>1. /\ got'[i].reserve = got[i].reserve + part[i] /\ part[i] \in Nat
                 /\ got[i].reserve \in Nat
              /\ got[i].reserve = 0 \/ part[i] = 0
              /\ got[i].reserve * project.raised <= Put[i] * project.fee
              /\ part[i] * project.raised <= Put[i] * project.fee
          BY <1>k, <1>3, <2>3, <3>1, <4>2
        <5>2. got'[i].reserve = got[i].reserve \/ got'[i].reserve = part[i]
          BY <5>1
        <5> QED BY <5>1, <5>2
      <4> QED BY <4>1, <4>2
    <3>3. project'.raised # 0
      BY <1>3, <1>k, <2>4 DEF ProjectRow
    <3> QED BY <2>3, <2>4, <3>1, <3>2, <3>3
  <2>10. RoundFits'
    BY <1>1, <1>3, <1>k, <2>4 DEF ProjectsRows, RoundFits
  <2>11. RefundWithinStake'
    <3>1. project'.fee <= project'.raised
      BY <2>10 DEF RoundFits
    <3> QED BY <2>3, <2>4, <2>9, <3>1, ProportionIsEnough
  <2>12. ReserveSpentOnce'
    <3>1. project.refunded = SumOver([i \in Stakes |-> got[i].reserve], Stakes)
      BY <1>k DEF ProjectsRows, ProjectsInv, ReserveSpentOnce
    <3> QED BY <2>3, <2>4, <3>1 DEF ReserveSpentOnce
  <2>13. ReleasedInFull' /\ StonesInOrder'
    BY <1>1, <1>k, <2>4 DEF ProjectsRows, ProjectsInv, ReleasedInFull, Held, StonesInOrder,
         AllReleasedBefore
  <2>14. ProjectsRows'
    BY <2>2, <2>7, <2>8, <2>9, <2>10, <2>11, <2>12, <2>13 DEF ProjectsRows, ProjectsInv
  <2>15. Follows
    BY <1>1, <2>4 DEF Follows
  <2>16. ProjCallKnows(c)'
    BY <1>2, <2>5 DEF ProjCallKnows
  <2> QED BY <1>1, <1>2, <2>3, <2>4, <2>5, <2>6, <2>14, <2>15, <2>16, Aside
<1> QED BY <1>4, <1>5

\* A release pays a share of what is held, or all of it with the last milestone.
LEMMA PayoutFacts ==
  ASSUME NEW call, project \in ProjectRow, project.fee <= project.raised,
         call.raised = project.raised, call.released \in Nat, call.amount \in Nat, call.last \in BOOLEAN
  PROVE  /\ Payout(call) \in Nat
         /\ call.last /\ call.released = project.released => Payout(call) = Held(project)
<1>a. Target \in Nat \ {0}
  BY ProjectsAssumption
<1>1. PICK p : p = [project EXCEPT !.raised = call.raised, !.released = call.released]
  OBVIOUS
<1>2. /\ p.raised = project.raised /\ p.fee = project.fee /\ p.released = call.released
      /\ project.raised \in Nat /\ project.fee \in Nat /\ project.released \in Nat
  BY <1>1 DEF ProjectRow
<1>3. Held(p) \in Nat
  BY <1>2 DEF Held, AtLeast0
<1>4. call.released = project.released => Held(p) = Held(project)
  BY <1>2 DEF Held
<1>5. PICK s : s = (call.amount * (call.raised - project.fee)) \div Target
  OBVIOUS
<1>6. s \in Nat
  <2>1. call.raised - project.fee \in Nat
    BY <1>2
  <2>2. call.amount * (call.raised - project.fee) \in Nat
    BY <2>1
  <2>3. \A n \in Nat : n \div Target \in Nat
    BY <1>a
  <2> QED BY <1>5, <2>2, <2>3
<1>7. Payout(call) = IF call.last THEN Held(p) ELSE Smaller(s, Held(p))
  BY <1>1, <1>5 DEF Payout
<1>8. Smaller(s, Held(p)) \in Nat
  BY <1>3, <1>6 DEF Smaller
<1> QED BY <1>3, <1>4, <1>7, <1>8

\* A milestone that is paid is the first that was not, and the last one takes what
\* is left.
LEMMA PaidStepRows ==
  ASSUME ProjectsIInv, NEW c \in Calls, NEW pay, pay = Payout(projCall[c]),
         NEW id, id = projCall[c].id, projCall[c].op = "release",
         pay > 0, stones[id].status = "requested", WithinHeld(pay),
         stones' = [stones EXCEPT ![id].status = "released"],
         project' = [project EXCEPT !.released = @ + pay],
         wallet' = Credit(wallet, BusinessOwner, pay),
         stake' = [i \in Stakes |-> IF stake[i] = "committed" THEN "active" ELSE stake[i]],
         hasty' = (hasty \/ project.status = "cancelled"),
         UNCHANGED <<got, cut>>, DOMAIN projCall' = Calls
  PROVE  ProjectsRows' /\ Follows /\ project'.status = project.status
<1>k. /\ ProjectsRows /\ project \in ProjectRow /\ cut \in BOOLEAN /\ hasty \in BOOLEAN
      /\ stones \in Seq(Stone) /\ Len(stones) \in Nat /\ DOMAIN stones = 1 .. Len(stones)
      /\ stake \in [Stakes -> {"none", "committed", "active", "refunded", "partially_refunded"}]
      /\ got \in [Stakes -> [held : Nat, reserve : Nat, again : BOOLEAN]]
      /\ wallet \in [Users -> Row] /\ Total(wallet) \in Int /\ Custody \in Int
      /\ SumOver(InitialBalance, Users) \in Int
  BY RowsKnown DEF ProjectsIInv
<1>h. SumOver([i \in Stakes |-> got[i].held], Stakes) \in Nat
  BY <1>k, RowsKnown
<1>r. /\ project.fee <= project.raised /\ project.released <= project.raised - project.fee
      /\ StonesInOrder /\ RoundFits
  BY <1>k DEF ProjectsRows, ProjectsInv, RoundFits
<1>1. /\ project.settled /\ projCall[c].raised = project.raised
      /\ id \in DOMAIN stones /\ AllReleasedBefore(id)
      /\ projCall[c].amount \in Nat /\ projCall[c].released \in Nat
         /\ projCall[c].last \in BOOLEAN
      /\ (projCall[c].last <=> id = Len(stones))
      /\ projCall[c].last => projCall[c].released = project.released
  BY DEF ProjectsIInv, ProjCallKnows
<1>2. /\ pay \in Nat
      /\ id = Len(stones) => pay = Held(project)
  BY <1>k, <1>r, <1>1, PayoutFacts
<1>3. /\ project' \in ProjectRow /\ project'.released = project.released + pay
      /\ project'.raised = project.raised /\ project'.fee = project.fee
      /\ project'.settled /\ project'.status = project.status
      /\ project'.refunded = project.refunded /\ project'.revenue = project.revenue
      /\ project'.released <= project'.raised - project'.fee
  <2>1. project \in ProjectRow /\ project.settled /\ pay \in Nat
    BY <1>k, <1>1, <1>2
  <2>2. project.released \in Nat /\ project.released + pay \in Nat
    BY <2>1 DEF ProjectRow
  <2>3. project.released + pay <= project.raised - project.fee
    BY DEF WithinHeld
  <2>4. PICK n : n \in Nat /\ n = project.released + pay
    BY <2>2
  <2>5. project' = [project EXCEPT !.released = n]
    BY <2>4
  <2>6. /\ project' \in ProjectRow /\ project'.released = n
        /\ project'.raised = project.raised /\ project'.fee = project.fee
        /\ project'.settled = project.settled /\ project'.status = project.status
        /\ project'.refunded = project.refunded /\ project'.revenue = project.revenue
    BY <2>1, <2>4, <2>5 DEF ProjectRow
  <2> QED BY <2>1, <2>3, <2>4, <2>6
<1>4. wallet' \in [Users -> Row] /\ Total(wallet') = Total(wallet) + pay
  <2>1. BusinessOwner \in Users /\ IsFiniteSet(Users) /\ pay \in Int
    BY <1>2, ProjectsAssumption, SharedAssumption
  <2>2. wallet \in [Users -> Row]
    BY <1>k
  <2>3. PICK w : w = Credit(wallet, BusinessOwner, pay)
    OBVIOUS
  <2>4. w \in [Users -> Row]
    BY <2>1, <2>2, <2>3, Increments
  <2>5. Total(w) = Total(wallet) + pay
    BY <2>1, <2>2, <2>3, IncrementTotals
  <2> QED BY <2>3, <2>4, <2>5
<1>5. /\ stones' \in Seq(Stone) /\ Len(stones') = Len(stones) /\ DOMAIN stones' = 1 .. Len(stones)
      /\ stones'[id].status = "released" /\ \A k \in DOMAIN stones \ {id} : stones'[k] = stones[k]
  <2>1. PICK v \in {"planned", "requested", "returned", "released"} : v = "released"
    OBVIOUS
  <2>2. PICK t : t = [stones EXCEPT ![id].status = v]
    OBVIOUS
  <2>3. /\ t \in Seq(Stone) /\ Len(t) = Len(stones) /\ DOMAIN t = 1 .. Len(stones)
        /\ t[id].status = v /\ \A k \in DOMAIN stones \ {id} : t[k] = stones[k]
    <3>1. stones \in Seq(Stone) /\ id \in DOMAIN stones
      BY <1>k, <1>1
    <3> QED BY SMTT(30), <2>2, <3>1, StoneStep
  <2> QED BY <2>1, <2>2, <2>3
<1>6. /\ stake' \in [Stakes -> {"none", "committed", "active", "refunded", "partially_refunded"}]
      /\ \A i \in Stakes : stake'[i] = "none" <=> stake[i] = "none"
      /\ \A i \in Stakes : stake'[i] \in {"none", "committed", "active"}
                             => stake[i] \in {"none", "committed", "active"}
  BY <1>k
<1>7. Custody' = Custody - pay
  <2>1. PICK h : h \in Int /\ h = SumOver([i \in Stakes |-> got[i].held], Stakes)
    BY <1>h
  <2>2. Custody = project.raised - project.fee - project.released - h
    BY <2>1 DEF Custody
  <2>3. Custody' = project.raised - project.fee - (project.released + pay) - h
    BY <1>3, <2>1 DEF Custody
  <2>4. project.raised \in Int /\ project.fee \in Int /\ project.released \in Int
    BY <1>k DEF ProjectRow
  <2> QED BY <1>2, <2>1, <2>2, <2>3, <2>4
<1>8. hasty' \/ Custody' >= 0
  <2> SUFFICES ASSUME project.status # "cancelled" PROVE Custody' >= 0
    OBVIOUS
  <2>1. \A i \in Stakes : got[i].held = 0
    BY DEF ProjectsIInv, KeptUntilCancelled
  <2>2. SumOver([i \in Stakes |-> got[i].held], Stakes) = 0
    BY <2>1, ProjectsAssumption, SumOverZero
  <2>3. got' = got
    OBVIOUS
  <2>4. Custody' = project'.raised - project'.fee - project'.released - 0
    BY <2>2, <2>3 DEF Custody
  <2> QED BY <1>3, <2>4 DEF ProjectRow
<1>9. ProjectsTypeOK'
  BY <1>k, <1>3, <1>5, <1>6 DEF ProjectsRows, ProjectsInv, ProjectsTypeOK, ProjectRow, Stone
<1>10. RaisedIsInvested' /\ HeldCoversPayments'
  <2>1. /\ project.raised <= Target /\ Holds(-Custody)
        /\ project.raised = SumOver(Put, {i \in Stakes : stake[i] # "none"})
    BY <1>k DEF ProjectsRows, ProjectsInv, RaisedIsInvested
  <2>2. {i \in Stakes : stake'[i] # "none"} = {i \in Stakes : stake[i] # "none"}
    BY <1>6
  <2>3. project'.raised = SumOver(Put, {i \in Stakes : stake'[i] # "none"})
        /\ project'.raised <= Target
    BY <1>3, <2>1, <2>2
  <2>4. (-Custody)' = -Custody + pay
    BY <1>k, <1>2, <1>7
  <2>5. Total(wallet') = SumOver(InitialBalance, Users) + (-Custody)'
    BY <1>k, <1>2, <1>4, <2>1, <2>4 DEF Holds
  <2>6. Holds(-Custody)'
    BY <2>5 DEF Holds
  <2> QED BY <1>8, <2>3, <2>6 DEF RaisedIsInvested, HeldCoversPayments
<1>11. RefundWithinStake' /\ ReserveSpentOnce'
  BY <1>k, <1>3 DEF ProjectsRows, ProjectsInv, RefundWithinStake, ReserveSpentOnce
<1>12. ASSUME stones # <<>>, \A m \in DOMAIN stones' : stones'[m].status = "released"
       PROVE  id = Len(stones)
  <2> SUFFICES ASSUME id # Len(stones) PROVE FALSE
    OBVIOUS
  <2>1. Len(stones) \in DOMAIN stones /\ id \in 1 .. Len(stones) - 1
    BY <1>k, <1>1
  <2>2. stones[Len(stones)].status = "released"
    BY <1>12, <1>5, <1>k, <2>1
  <2>3. AllReleasedBefore(Len(stones))
    BY <1>r, <2>1, <2>2 DEF StonesInOrder
  <2> QED BY <2>1, <2>3 DEF AllReleasedBefore
<1>13. ReleasedInFull'
  <2> SUFFICES ASSUME stones # <<>>, \A m \in DOMAIN stones' : stones'[m].status = "released"
               PROVE  Held(project') = 0
    <3>1. stones' # <<>> => Len(stones') # 0
      BY <1>5, EmptySeq
    <3>2. stones = <<>> => Len(stones) = 0
      BY <1>k, EmptySeq
    <3> QED BY <1>5, <3>1, <3>2 DEF ReleasedInFull
  <2>1. pay = Held(project)
    BY <1>2, <1>12
  <2>2. /\ project.raised \in Int /\ project.fee \in Int /\ project.released \in Int
        /\ project.raised - project.fee - project.released >= 0
    BY <1>k, <1>r DEF ProjectRow
  <2>3. pay = project.raised - project.fee - project.released
    BY <2>1, <2>2 DEF Held, AtLeast0
  <2>4. project'.raised - project'.fee - project'.released = 0
    BY <1>3, <2>2, <2>3
  <2> QED BY <2>4 DEF Held, AtLeast0
<1>14. RoundFits'
  BY <1>3, <1>r DEF RoundFits
<1>15. GivenFits'
  BY <1>k, <1>3, <1>6 DEF ProjectsRows, GivenFits
<1>16. \A k \in DOMAIN stones : stones[k].status = "released" => stones'[k].status = "released"
  BY <1>5
<1>17. StonesInOrder'
  <2> SUFFICES ASSUME NEW m \in DOMAIN stones', stones'[m].status = "released",
                      NEW k \in 1 .. m - 1
               PROVE  stones'[k].status = "released"
    BY DEF StonesInOrder, AllReleasedBefore
  <2>1. AllReleasedBefore(m) /\ m \in DOMAIN stones
    BY <1>1, <1>5, <1>k, <1>r DEF StonesInOrder
  <2>2. k \in DOMAIN stones
    BY <1>k, <2>1
  <2> QED BY <1>16, <2>1, <2>2 DEF AllReleasedBefore
<1>18. ProjectsRows'
  BY <1>4, <1>9, <1>10, <1>11, <1>13, <1>14, <1>15, <1>17 DEF ProjectsRows, ProjectsInv
<1>19. ASSUME NEW m \in DOMAIN stones, m = Len(stones), AllReleasedBefore(m)
       PROVE  stones'[m].status = "released"
  <2> SUFFICES ASSUME id # m PROVE FALSE
    BY <1>5
  <2>1. id \in 1 .. m - 1
    BY <1>k, <1>1, <1>19
  <2> QED BY <1>19, <2>1 DEF AllReleasedBefore
<1>20. Follows
  BY <1>3, <1>5, <1>k, <1>6, <1>16, <1>19 DEF Follows
<1> QED BY <1>3, <1>18, <1>20

\* A release pays within what is held or changes nothing.
LEMMA CommitReleaseStep ==
  ASSUME ProjectsIInv, NEW c \in Calls, CommitRelease(c)
  PROVE  ProjectsIInv'
<1>k. ProjectsRows /\ project \in ProjectRow /\ DOMAIN projCall = Calls /\ cut \in BOOLEAN
  BY RowsKnown DEF ProjectsIInv
<1>1. PICK pay, id :
        /\ pay = Payout(projCall[c]) /\ id = projCall[c].id
        /\ projCall[c].op = "release" /\ projCall' = [projCall EXCEPT ![c] = Idle]
        /\ IF pay > 0 /\ stones[id].status = "requested" /\ WithinHeld(pay)
           THEN /\ stones' = [stones EXCEPT ![id].status = "released"]
                /\ project' = [project EXCEPT !.released = @ + pay]
                /\ wallet' = Credit(wallet, BusinessOwner, pay)
                /\ stake' = [i \in Stakes |-> IF stake[i] = "committed" THEN "active" ELSE stake[i]]
                /\ hasty' = (hasty \/ project.status = "cancelled")
           ELSE UNCHANGED <<project, stones, stake, hasty, wallet>>
        /\ UNCHANGED <<got, cut>>
  BY DEF CommitRelease, ProjEnds, ProjGoes
<1>2. Idle.op = "idle"
  BY DEF Idle
<1>3. CASE ~(pay > 0 /\ stones[id].status = "requested" /\ WithinHeld(pay))
  <2>1. projCall'[c] = Idle => ProjCallKnows(c)'
    BY <1>2 DEF ProjCallKnows
  <2> QED BY <1>1, <1>2, <1>3, <2>1, ReadOnly
<1>4. CASE pay > 0 /\ stones[id].status = "requested" /\ WithinHeld(pay)
  <2>1. /\ stones' = [stones EXCEPT ![id].status = "released"]
        /\ project' = [project EXCEPT !.released = @ + pay]
        /\ wallet' = Credit(wallet, BusinessOwner, pay)
        /\ stake' = [i \in Stakes |-> IF stake[i] = "committed" THEN "active" ELSE stake[i]]
        /\ hasty' = (hasty \/ project.status = "cancelled")
    BY <1>1, <1>4
  <2>2. DOMAIN projCall' = Calls /\ projCall'[c] = Idle
        /\ \A d \in Calls \ {c} : projCall'[d] = projCall[d]
    BY <1>1, <1>k
  <2>3. ProjectsRows' /\ Follows /\ project'.status = project.status
    BY <1>1, <1>4, <2>1, <2>2, PaidStepRows
  <2>4. ProjCallKnows(c)'
    BY <1>2, <2>2 DEF ProjCallKnows
  <2> QED BY <1>1, <1>2, <2>1, <2>2, <2>3, <2>4, Aside
<1> QED BY <1>3, <1>4

\* The one handler that refunds a cancelled project takes a step.
LEMMA RefundCall ==
  ASSUME ProjectsIInv, NEW c \in Calls, projCall[c].op \in {"cancelling", "refunding"},
         NEW k, projCall' = [projCall EXCEPT ![c] = k], k.op # "cancelling",
         ProjectsRows', Follows, ProjCallKnows(c)', RefundFits(c)', RefundKnowsAll'
  PROVE  ProjectsIInv'
<1>1. /\ ProjectsRows /\ OneRefund /\ DOMAIN projCall = Calls
      /\ (\A d \in Calls : ProjCallKnows(d)) /\ Len(stones) \in Nat
         /\ DOMAIN stones = 1 .. Len(stones)
  BY RowsKnown DEF ProjectsIInv
<1>2. DOMAIN projCall' = Calls /\ projCall'[c] = k
      /\ \A d \in Calls \ {c} : projCall'[d] = projCall[d]
  BY <1>1
<1>3. project.status = "cancelled" /\ project'.status = "cancelled"
  BY <1>1 DEF ProjCallKnows, Follows
<1>4. \A d \in Calls \ {c} : projCall'[d].op \notin {"cancelling", "refunding"}
  BY <1>1, <1>2 DEF OneRefund
<1>5. \A d \in Calls : ProjCallKnows(d)'
  BY <1>1, <1>2, CallKept
<1>6. \A d \in Calls : RefundFits(d)'
  BY <1>4 DEF RefundFits
<1>7. OneRefund'
  BY <1>4 DEF OneRefund
<1>8. KeptUntilCancelled'
  BY <1>2, <1>3, <1>4 DEF KeptUntilCancelled
<1> QED BY <1>5, <1>6, <1>7, <1>8 DEF ProjectsIInv

\* What a project that nobody has refunded holds covers the shares of everybody who
\* invested in it.
LEMMA SharesCovered ==
  ASSUME ProjectsRows, \A i \in Stakes : got[i].held = 0,
         NEW call, call.raised = project.raised, call.held = Held(project)
  PROVE  SumOver(HeldShares(call), {i \in Stakes : Holding(i)}) <= Custody
<1>k. /\ project \in ProjectRow /\ Custody \in Int
      /\ \A i \in Stakes : stake[i] # "none" => Put[i] <= project.raised /\ project.raised > 0
  BY RowsKnown
<1>a. IsFiniteSet(Stakes) /\ Put \in [Stakes -> Nat] /\ Put \in [Stakes -> Int]
  BY ProjectsAssumption
<1>1. PICK r, h : r = project.raised /\ h = Held(project)
  OBVIOUS
<1>2. r \in Nat /\ h \in Nat /\ h <= r /\ Custody = h
  <2>1. SumOver([i \in Stakes |-> got[i].held], Stakes) = 0
    BY <1>a, SumOverZero
  <2>2. project.fee <= project.raised /\ project.released <= project.raised - project.fee
    BY DEF ProjectsRows, RoundFits
  <2>3. project.raised \in Nat /\ project.fee \in Nat /\ project.released \in Nat
    BY <1>k DEF ProjectRow
  <2>4. Custody = project.raised - project.fee - project.released
    BY <2>1, <2>3 DEF Custody
  <2>5. Held(project) = project.raised - project.fee - project.released
    BY <2>2, <2>3 DEF Held, AtLeast0
  <2> QED BY <1>1, <2>2, <2>3, <2>4, <2>5
<1>3. PICK T, U : T = {i \in Stakes : Holding(i)} /\ U = {i \in Stakes : stake[i] # "none"}
  OBVIOUS
<1>4. T \subseteq U /\ U \subseteq Stakes /\ T \subseteq Stakes /\ r = SumOver(Put, U)
  BY <1>1, <1>3 DEF Holding, ProjectsRows, ProjectsInv, RaisedIsInvested
<1>5. PICK g : g = HeldShares(call)
  OBVIOUS
<1>6. CASE r = 0
  <2>1. T = {}
    BY <1>1, <1>3, <1>6, <1>k DEF Holding
  <2>2. SumOver(g, T) = 0
    <3>1. IsFiniteSet(T) /\ \A x \in T : g[x] = 0
      BY <2>1, FS_EmptySet
    <3> QED BY <3>1, SumOverZero
  <2> QED BY <1>2, <1>3, <1>5, <2>2
<1>7. CASE r # 0
  <2>1. r \in Nat \ {0} /\ Smaller(h, r) = h
    BY <1>2, <1>7 DEF Smaller
  <2>2. \A i \in Stakes : g[i] = (Put[i] * h) \div r
    BY <1>1, <1>2, <1>5, <2>1 DEF HeldShares
  <2>3. \A i \in Stakes : g[i] \in Nat /\ g[i] * r <= Put[i] * h
    BY <1>2, <1>a, <2>1, <2>2, ShareFits
  <2>4. g \in [Stakes -> Nat]
    BY <1>5, <2>3 DEF HeldShares
  <2>5. SumOver(Put, T) <= r
    BY <1>4, <1>a, SumOverMonotone
  <2>6. SumOver(g, T) <= h
    BY <1>2, <1>4, <1>a, <2>1, <2>3, <2>4, <2>5, SharesFit
  <2> QED BY <1>2, <1>3, <1>5, <2>6
<1> QED BY <1>6, <1>7

\* The shares and the rows of a cancelled project are read.
LEMMA BeginRefundStep ==
  ASSUME ProjectsIInv, NEW c \in Calls, BeginRefundAll(c)
  PROVE  ProjectsIInv'
<1>k. ProjectsRows /\ project \in ProjectRow /\ DOMAIN projCall = Calls /\ cut \in BOOLEAN
  BY RowsKnown DEF ProjectsIInv
<1> DEFINE T == {i \in Stakes : Holding(i)}
           k == [op |-> "refunding", raised |-> project.raised, held |-> Held(project),
                 reserve |-> ReserveLeft(project), todo |-> {<<i, stake[i]>> : i \in T}]
<1>1. /\ projCall[c].op = "cancelling" /\ projCall' = [projCall EXCEPT ![c] = k]
      /\ UNCHANGED <<project, stones, stake, got, hasty, cut, wallet>>
  BY DEF BeginRefundAll, ProjGoes
<1>2. /\ k.op = "refunding" /\ k.raised = project.raised /\ k.held = Held(project)
      /\ k.reserve = ReserveLeft(project) /\ k.todo = {<<i, stake[i]>> : i \in T}
      /\ DOMAIN k = {"op", "raised", "held", "reserve", "todo"}
  OBVIOUS
<1> HIDE DEF k
<1>3. DOMAIN projCall' = Calls /\ projCall'[c] = k
  BY <1>1, <1>k
<1>4. ProjectsRows' /\ Follows /\ Custody' = Custody
  BY <1>k, <1>1, <1>3, RowsStay
<1>5. project.status = "cancelled" /\ \A i \in Stakes : got[i].held = 0
  BY <1>1 DEF ProjectsIInv, ProjCallKnows, KeptUntilCancelled
<1>6. ProjCallKnows(c)'
  <2>1. /\ project.fee <= project.raised /\ project.released <= project.raised - project.fee
        /\ project.raised \in Nat /\ project.fee \in Nat /\ project.released \in Nat
        /\ project.refunded \in Nat /\ project.revenue \in Nat
    BY <1>k DEF ProjectsRows, RoundFits, ProjectRow
  <2>2. k.held \in Nat /\ k.held <= project.raised - project.fee
    BY <1>2, <2>1 DEF Held, AtLeast0
  <2>3. k.reserve \in Nat /\ k.reserve <= project.fee
    BY <1>2, <2>1 DEF ReserveLeft, AtLeast0
  <2>4. k.todo \subseteq Stakes \X {"committed", "active"}
    BY <1>2 DEF Holding
  <2>5. \A row \in k.todo : stake[row[1]] # "none"
    BY <1>2 DEF Holding
  <2> QED BY <1>1, <1>2, <1>3, <1>5, <2>2, <2>3, <2>4, <2>5 DEF ProjCallKnows
<1>7. DueIds(c)' = T
  <2>1. DueIds(c)' = {i \in Stakes : <<i, stake[i]>> \in k.todo}
    BY <1>1, <1>3 DEF DueIds
  <2>2. \A i \in Stakes : <<i, stake[i]>> \in k.todo <=> i \in T
    BY <1>2
  <2> QED BY <2>1, <2>2
<1>8. RefundFits(c)'
  <2>1. SumOver(HeldShares(k), T) <= Custody
    BY <1>k, <1>2, <1>5, SharesCovered
  <2> QED BY <1>3, <1>4, <1>7, <2>1 DEF RefundFits
<1>9. RefundKnowsAll'
  <2>1. \A i \in Stakes : Holding(i)' => i \in DueIds(c)'
    BY <1>1, <1>7 DEF Holding
  <2> QED BY <1>2, <1>3, <2>1 DEF RefundKnowsAll
<1>10. projCall[c].op \in {"cancelling", "refunding"} /\ k.op # "cancelling"
  BY <1>1, <1>2
<1> QED BY <1>1, <1>4, <1>6, <1>8, <1>9, <1>10, RefundCall

\* A refund ends, in the middle or with everybody given back.
LEMMA RefundEndStep ==
  ASSUME ProjectsIInv, NEW c \in Calls, RefundAborts(c) \/ RefundAllEnds(c)
  PROVE  ProjectsIInv'
<1>k. ProjectsRows /\ DOMAIN projCall = Calls /\ cut \in BOOLEAN
  BY RowsKnown DEF ProjectsIInv
<1>1. /\ projCall[c].op = "refunding" /\ projCall' = [projCall EXCEPT ![c] = Idle]
      /\ UNCHANGED <<project, stones, stake, got, hasty, wallet>>
      /\ cut' = TRUE \/ (cut' = cut /\ projCall[c].todo = {})
  BY DEF RefundAborts, RefundAllEnds, ProjEnds, ProjGoes
<1>2. Idle.op = "idle"
  BY DEF Idle
<1>3. DOMAIN projCall' = Calls /\ projCall'[c] = Idle /\ cut' \in BOOLEAN
  BY <1>1, <1>k
<1>4. ProjectsRows' /\ Follows
  BY <1>k, <1>1, <1>3, RowsStay
<1>5. ProjCallKnows(c)' /\ RefundFits(c)'
  BY <1>2, <1>3 DEF ProjCallKnows, RefundFits
<1>6. RefundKnowsAll'
  <2>1. CASE cut'
    BY <2>1 DEF RefundKnowsAll
  <2>2. CASE cut' = cut /\ projCall[c].todo = {}
    <3>1. \A d \in Calls : projCall[d].op \in {"cancelling", "refunding"} => d = c
      BY <1>1 DEF ProjectsIInv, OneRefund
    <3>2. DueIds(c) = {}
      BY <2>2 DEF DueIds
    <3>3. hasty \/ cut \/ project.status # "cancelled" \/ \A i \in Stakes : ~Holding(i)
      BY <1>1, <3>1, <3>2 DEF ProjectsIInv, RefundKnowsAll
    <3> QED BY <1>1, <2>2, <3>3 DEF RefundKnowsAll, Holding
  <2> QED BY <1>1, <2>1, <2>2
<1>7. projCall[c].op \in {"cancelling", "refunding"} /\ Idle.op # "cancelling"
  BY <1>1, <1>2
<1> QED BY <1>1, <1>4, <1>5, <1>6, <1>7, RefundCall

\* The process restarts: what handlers remember is lost.
LEMMA ProjectsRestartStep ==
  ASSUME ProjectsIInv, ProjectsRestart
  PROVE  ProjectsIInv'
<1>k. ProjectsRows /\ DOMAIN projCall = Calls /\ cut \in BOOLEAN
  BY RowsKnown DEF ProjectsIInv
<1>1. /\ projCall' = Idles /\ UNCHANGED <<project, stones, stake, got, hasty, wallet>>
      /\ cut' = (cut \/ \E c \in Calls : projCall[c].op \in {"cancelling", "refunding"})
  BY DEF ProjectsRestart
<1>2. DOMAIN projCall' = Calls /\ (\A d \in Calls : projCall'[d].op = "idle") /\ cut' \in BOOLEAN
  BY <1>1, <1>k DEF Idles, Idle
<1>3. ProjectsRows'
  BY <1>k, <1>1, <1>2, RowsStay
<1>4. \A d \in Calls : ProjCallKnows(d)' /\ RefundFits(d)'
  BY <1>2 DEF ProjCallKnows, RefundFits
<1>5. OneRefund' /\ KeptUntilCancelled'
  BY <1>1, <1>2 DEF ProjectsIInv, OneRefund, KeptUntilCancelled
<1>6. RefundKnowsAll'
  <2>1. CASE \E c \in Calls : projCall[c].op \in {"cancelling", "refunding"}
    BY <1>1, <2>1 DEF RefundKnowsAll
  <2>2. CASE \A c \in Calls : projCall[c].op \notin {"cancelling", "refunding"}
    <3>1. hasty \/ cut \/ project.status # "cancelled" \/ \A i \in Stakes : ~Holding(i)
      BY <2>2 DEF ProjectsIInv, RefundKnowsAll
    <3> QED BY <1>1, <3>1 DEF RefundKnowsAll, Holding
  <2> QED BY <2>1, <2>2
<1> QED BY <1>3, <1>4, <1>5, <1>6 DEF ProjectsIInv

\* What an investment is due, of what is held and of the reserve, is in proportion.
LEMMA DueFacts ==
  ASSUME ProjectsIInv, NEW c \in Calls, projCall[c].op = "refunding",
         NEW i \in Stakes, stake[i] # "none",
         NEW held, held = HeldShares(projCall[c])[i],
         NEW reserve, reserve = (Put[i] * projCall[c].reserve) \div projCall[c].raised
  PROVE  /\ project.raised > 0 /\ projCall[c].raised = project.raised
         /\ held \in Nat /\ held * project.raised <= Put[i] * (project.raised - project.fee)
         /\ reserve \in Nat /\ reserve * project.raised <= Put[i] * project.fee
         /\ HeldShares(projCall[c]) \in [Stakes -> Nat]
<1>k. ProjectsRows /\ project \in ProjectRow /\ project.raised > 0
  BY RowsKnown DEF ProjectsIInv
<1>1. PICK r, f, h, s : /\ r = project.raised /\ f = project.fee
                        /\ h = projCall[c].held /\ s = projCall[c].reserve
  OBVIOUS
<1>2. /\ r \in Nat \ {0} /\ f \in Nat /\ f <= r /\ projCall[c].raised = r
      /\ h \in Nat /\ h <= r - f /\ s \in Nat /\ s <= f
  <2>1. /\ projCall[c].raised = project.raised
        /\ projCall[c].held \in Nat /\ projCall[c].held <= project.raised - project.fee
        /\ projCall[c].reserve \in Nat /\ projCall[c].reserve <= project.fee
    BY DEF ProjectsIInv, ProjCallKnows
  <2>2. project.raised \in Nat /\ project.fee \in Nat /\ project.fee <= project.raised
    BY <1>k DEF ProjectsRows, RoundFits, ProjectRow
  <2> QED BY <1>k, <1>1, <2>1, <2>2
<1>3. Put \in [Stakes -> Nat] /\ Put[i] \in Nat
  BY ProjectsAssumption
<1>4. Smaller(h, r) = h
  BY <1>2 DEF Smaller
<1>5. \A j \in Stakes : HeldShares(projCall[c])[j] = (Put[j] * h) \div r
  BY <1>1, <1>2, <1>4 DEF HeldShares
<1>6. \A j \in Stakes : HeldShares(projCall[c])[j] \in Nat
  <2> SUFFICES ASSUME NEW j \in Stakes PROVE HeldShares(projCall[c])[j] \in Nat
    OBVIOUS
  <2>1. Put[j] \in Nat /\ HeldShares(projCall[c])[j] = (Put[j] * h) \div r
    BY <1>3, <1>5
  <2> QED BY <1>2, <2>1, ShareFits
<1>7. HeldShares(projCall[c]) \in [Stakes -> Nat]
  BY <1>6 DEF HeldShares
<1>8. held \in Nat /\ held * r <= Put[i] * h
  <2>1. held = (Put[i] * h) \div r
    BY <1>5
  <2> QED BY <1>2, <1>3, <2>1, ShareFits
<1>9. reserve \in Nat /\ reserve * r <= Put[i] * s
  BY <1>1, <1>2, <1>3, ShareFits
<1>10. \A p, m, n \in Nat : m <= n => p * m <= p * n
  OBVIOUS
<1>11. r - f \in Nat /\ Put[i] * h <= Put[i] * (r - f) /\ Put[i] * s <= Put[i] * f
  BY <1>2, <1>3, <1>10
<1>12. /\ held * r \in Nat /\ reserve * r \in Nat /\ Put[i] * h \in Nat /\ Put[i] * s \in Nat
       /\ Put[i] * (r - f) \in Nat /\ Put[i] * f \in Nat
  BY <1>2, <1>3, <1>8, <1>9, <1>11
<1>13. held * r <= Put[i] * (r - f) /\ reserve * r <= Put[i] * f
  BY <1>8, <1>9, <1>11, <1>12
<1> QED BY <1>1, <1>2, <1>7, <1>8, <1>9, <1>13

\* An investment is given back its share of what is held and of the reserve.
LEMMA GiveBackRows ==
  ASSUME ProjectsIInv, NEW c \in Calls, projCall[c].op = "refunding",
         NEW i \in Stakes, stake[i] \in {"committed", "active"}, i \in DueIds(c),
         NEW held, held = HeldShares(projCall[c])[i],
         NEW reserve, reserve = (Put[i] * projCall[c].reserve) \div projCall[c].raised,
         CanPayFromReserve(project, reserve),
         NEW s \in {"refunded", "partially_refunded"}, stake' = [stake EXCEPT ![i] = s],
         GiveBack(i, held, reserve), UNCHANGED <<stones, hasty, cut>>, DOMAIN projCall' = Calls,
         hasty \/ held <= Custody
  PROVE  /\ ProjectsRows' /\ Follows /\ Custody' = Custody - held
         /\ project'.status = project.status /\ held \in Nat
<1>k. /\ ProjectsRows /\ project \in ProjectRow /\ cut \in BOOLEAN /\ hasty \in BOOLEAN
      /\ stake \in [Stakes -> {"none", "committed", "active", "refunded", "partially_refunded"}]
      /\ got \in [Stakes -> [held : Nat, reserve : Nat, again : BOOLEAN]]
      /\ wallet \in [Users -> Row] /\ Total(wallet) \in Int /\ Custody \in Int
      /\ SumOver(InitialBalance, Users) \in Int
  BY RowsKnown DEF ProjectsIInv
<1>d. /\ project.raised > 0 /\ held \in Nat /\ reserve \in Nat
      /\ held * project.raised <= Put[i] * (project.raised - project.fee)
      /\ reserve * project.raised <= Put[i] * project.fee
  BY DueFacts
<1>a. /\ Platform \in Users /\ IsFiniteSet(Users) /\ IsFiniteSet(Stakes) /\ Backer[i] \in Users
  BY SharedAssumption, ProjectsAssumption
<1>1. /\ got' = [got EXCEPT ![i] = Given(got[i], held, reserve)]
      /\ wallet' = Debit(Credit(wallet, Backer[i], held + reserve), Platform, reserve)
      /\ project' = [project EXCEPT !.refunded = @ + reserve]
  BY <1>k DEF GiveBack
<1>2. PICK x, g : x = got[i] /\ g = Given(x, held, reserve)
  OBVIOUS
<1>3. /\ x \in [held : Nat, reserve : Nat, again : BOOLEAN]
      /\ g \in [held : Nat, reserve : Nat, again : BOOLEAN]
      /\ g.held = x.held + held /\ g.reserve = x.reserve + reserve
      /\ ~g.again => ~x.again /\ (x.reserve = 0 \/ reserve = 0)
  <2>1. x \in [held : Nat, reserve : Nat, again : BOOLEAN]
    BY <1>k, <1>2
  <2>2. PICK m, n : m = held /\ n = reserve /\ m \in Nat /\ n \in Nat
    BY <1>d
  <2>3. g = Given(x, m, n)
    BY <1>2, <2>2
  <2>4. /\ g \in [held : Nat, reserve : Nat, again : BOOLEAN]
        /\ g.held = x.held + m /\ g.reserve = x.reserve + n
        /\ ~g.again => ~x.again /\ (x.reserve = 0 \/ n = 0)
    <3>1. /\ Given(x, m, n) \in [held : Nat, reserve : Nat, again : BOOLEAN]
          /\ Given(x, m, n).held = x.held + m /\ Given(x, m, n).reserve = x.reserve + n
          /\ ~Given(x, m, n).again => ~x.again /\ (x.reserve = 0 \/ n = 0)
      <4>1. m \in Nat /\ n \in Nat
        BY <2>2
      <4> QED BY <2>1, <4>1, GivenFacts, Zenon
    <3> QED BY <2>3, <3>1
  <2> QED BY <2>1, <2>2, <2>4
<1>4. /\ got' \in [Stakes -> [held : Nat, reserve : Nat, again : BOOLEAN]] /\ got'[i] = g
      /\ \A j \in Stakes \ {i} : got'[j] = got[j]
  BY <1>k, <1>1, <1>2, <1>3
<1>5. x.held = 0 /\ g.held = held
  <2>1. x.held = 0
    BY <1>2, <1>k DEF ProjectsRows, GivenFits
  <2> QED BY <1>3, <1>d, <2>1
<1>6. SumOver([j \in Stakes |-> got'[j].held], Stakes) = SumOver([j \in Stakes |-> got[j].held], Stakes) + held
  <2>1. PICK p, q : p = [j \in Stakes |-> got[j].held] /\ q = [j \in Stakes |-> got'[j].held]
    OBVIOUS
  <2>2. /\ p \in [Stakes -> Int] /\ q \in [Stakes -> Int] /\ (\A j \in Stakes \ {i} : q[j] = p[j])
        /\ p[i] = 0 /\ q[i] = held
    BY <1>k, <1>2, <1>4, <1>5, <2>1
  <2>3. SumOver(q, Stakes) = SumOver(p, Stakes) + (q[i] - p[i])
    BY <1>a, <2>2, SumOverUpdate
  <2> QED BY <1>d, <2>1, <2>2, <2>3
<1>7. SumOver([j \in Stakes |-> got'[j].reserve], Stakes)
        = SumOver([j \in Stakes |-> got[j].reserve], Stakes) + reserve
  <2>1. PICK p, q : p = [j \in Stakes |-> got[j].reserve]
             /\ q = [j \in Stakes |-> got'[j].reserve]
    OBVIOUS
  <2>2. /\ p \in [Stakes -> Int] /\ q \in [Stakes -> Int] /\ (\A j \in Stakes \ {i} : q[j] = p[j])
        /\ p[i] = x.reserve /\ q[i] = x.reserve + reserve /\ x.reserve \in Int
    <3>1. /\ p \in [Stakes -> Int] /\ q \in [Stakes -> Int]
          /\ \A j \in Stakes \ {i} : q[j] = p[j]
      <4>1. \A j \in Stakes : got[j].reserve \in Int /\ got'[j].reserve \in Int
        BY <1>k, <1>4
      <4> QED BY <1>4, <2>1, <4>1
    <3>2. p[i] = x.reserve /\ q[i] = g.reserve
      BY <1>k, <1>2, <1>4, <2>1
    <3> QED BY <1>3, <3>1, <3>2
  <2>3. SumOver(q, Stakes) = SumOver(p, Stakes) + (q[i] - p[i]) /\ SumOver(p, Stakes) \in Int
    BY <1>a, <2>2, SumOverUpdate, SumOverBound
  <2> QED BY <1>d, <2>1, <2>2, <2>3
<1>8. /\ project' \in ProjectRow /\ project'.refunded = project.refunded + reserve
      /\ project'.revenue = project.revenue /\ project'.status = project.status
      /\ project'.raised = project.raised /\ project'.fee = project.fee
      /\ project'.settled = project.settled /\ project'.released = project.released
      /\ project'.refunded + project'.revenue <= project'.fee
  <2>1. project.refunded \in Nat /\ project.refunded + reserve \in Nat /\ project.revenue \in Nat
    BY <1>k, <1>d DEF ProjectRow
  <2>2. PICK n : n \in Nat /\ n = project.refunded + reserve
    BY <2>1
  <2>3. project' = [project EXCEPT !.refunded = n]
    BY <1>1, <2>2
  <2>4. /\ project' \in ProjectRow /\ project'.refunded = n
        /\ project'.revenue = project.revenue /\ project'.status = project.status
        /\ project'.raised = project.raised /\ project'.fee = project.fee
        /\ project'.settled = project.settled /\ project'.released = project.released
    BY <1>k, <2>2, <2>3 DEF ProjectRow
  <2>5. n + project.revenue <= project.fee
    BY <1>d, <2>1, <2>2 DEF CanPayFromReserve, ProjectRow
  <2> QED BY <2>2, <2>4, <2>5
<1>9. wallet' \in [Users -> Row] /\ Total(wallet') = Total(wallet) + held
  <2>1. PICK b, y : b = Backer[i] /\ y = held + reserve
    OBVIOUS
  <2>2. b \in Users /\ y \in Int /\ reserve \in Int /\ held \in Int
    BY <1>a, <1>d, <2>1
  <2>3. PICK w, v : w = Credit(wallet, b, y) /\ v = Debit(w, Platform, reserve)
    OBVIOUS
  <2>4. w \in [Users -> Row]
    BY <1>k, <2>2, <2>3, Increments
  <2>5. Total(w) = Total(wallet) + y
    BY SMTT(30), <1>k, <1>a, <2>2, <2>3, IncrementTotals
  <2>6. v \in [Users -> Row]
    BY <1>a, <2>2, <2>3, <2>4, Increments
  <2>7. Total(v) = Total(w) - reserve
    BY <1>a, <2>2, <2>3, <2>4, IncrementTotals
  <2>8. wallet' = v
    BY <1>1, <2>1, <2>3
  <2>9. Total(v) = Total(wallet) + held
    BY <1>k, <2>1, <2>2, <2>5, <2>7
  <2> QED BY <2>6, <2>8, <2>9
<1>10. Custody' = Custody - held
  <2>1. PICK h : h \in Int /\ h = SumOver([j \in Stakes |-> got[j].held], Stakes)
    BY <1>k, RowsKnown
  <2>2. Custody = project.raised - project.fee - project.released - h
    BY <2>1 DEF Custody
  <2>3. Custody' = project.raised - project.fee - project.released - (h + held)
    BY <1>6, <1>8, <2>1 DEF Custody
  <2>4. project.raised \in Int /\ project.fee \in Int /\ project.released \in Int
    BY <1>k DEF ProjectRow
  <2> QED BY <1>d, <2>1, <2>2, <2>3, <2>4
<1>11. /\ stake' \in [Stakes -> {"none", "committed", "active", "refunded", "partially_refunded"}]
       /\ stake'[i] = s /\ (\A j \in Stakes \ {i} : stake'[j] = stake[j])
       /\ \A j \in Stakes : stake'[j] = "none" <=> stake[j] = "none"
  BY <1>k
<1>12. ProjectsTypeOK'
  BY <1>k, <1>4, <1>8, <1>11 DEF ProjectsRows, ProjectsInv, ProjectsTypeOK, ProjectRow
<1>13. RaisedIsInvested'
  <2>1. /\ project.raised <= Target /\ Holds(-Custody)
        /\ project.raised = SumOver(Put, {j \in Stakes : stake[j] # "none"})
    BY <1>k DEF ProjectsRows, ProjectsInv, RaisedIsInvested
  <2>2. {j \in Stakes : stake'[j] # "none"} = {j \in Stakes : stake[j] # "none"}
    BY <1>11
  <2>3. project'.raised = SumOver(Put, {j \in Stakes : stake'[j] # "none"})
        /\ project'.raised <= Target
    BY <1>8, <2>1, <2>2
  <2>4. (-Custody)' = -Custody + held
    BY <1>k, <1>d, <1>10
  <2>5. Total(wallet') = SumOver(InitialBalance, Users) + (-Custody)'
    BY <1>k, <1>d, <1>9, <2>1, <2>4 DEF Holds
  <2>6. Holds(-Custody)'
    BY <2>5 DEF Holds
  <2> QED BY <2>3, <2>6 DEF RaisedIsInvested
<1>14. HeldCoversPayments'
  <2>1. hasty' \/ Custody' >= 0
    BY <1>k, <1>d, <1>10
  <2> QED BY <2>1 DEF HeldCoversPayments
<1>15. RoundFits'
  <2>1. RoundFits
    BY <1>k DEF ProjectsRows
  <2>2. ~project.settled => reserve = 0 /\ \A j \in Stakes : got'[j].reserve = 0
    <3> SUFFICES ASSUME ~project.settled
                 PROVE reserve = 0 /\ \A j \in Stakes : got'[j].reserve = 0
      OBVIOUS
    <3>1. /\ project.fee = 0 /\ project.refunded = 0 /\ project.revenue = 0
          /\ \A j \in Stakes : got[j].reserve = 0
      BY <2>1 DEF RoundFits
    <3>2. reserve = 0
      BY <1>d, <3>1 DEF CanPayFromReserve
    <3>3. got'[i].reserve = 0
      BY <1>2, <1>3, <1>4, <3>1, <3>2
    <3> QED BY <1>4, <3>1, <3>2, <3>3
  <2> QED BY <1>8, <2>1, <2>2 DEF RoundFits
<1>16. GivenFits'
  <2>1. ASSUME NEW j \in Stakes, j # i
        PROVE  /\ stake'[j] \in {"none", "committed", "active"} => got'[j].held = 0
               /\ got'[j].held * project'.raised <= Put[j] * (project'.raised - project'.fee)
               /\ got'[j].again \/ got'[j].reserve * project'.raised <= Put[j] * project'.fee
               /\ project'.raised = 0 => got'[j].held = 0 /\ got'[j].reserve = 0
    <3>1. got'[j] = got[j] /\ stake'[j] = stake[j]
      BY <1>4, <1>11, <2>1
    <3> QED BY <1>k, <1>8, <3>1 DEF ProjectsRows, GivenFits
  <2>2. /\ stake'[i] \notin {"none", "committed", "active"} /\ project'.raised # 0
        /\ got'[i].held * project'.raised <= Put[i] * (project'.raised - project'.fee)
    <3>1. project.raised # 0
      BY <1>d, <1>k DEF ProjectRow
    <3> QED BY <1>d, <1>4, <1>5, <1>8, <1>11, <3>1
  <2>3. got'[i].again \/ got'[i].reserve * project'.raised <= Put[i] * project'.fee
    <3> SUFFICES ASSUME ~g.again PROVE g.reserve * project.raised <= Put[i] * project.fee
      BY <1>4, <1>8
    <3>1. x.again \/ x.reserve * project.raised <= Put[i] * project.fee
      BY <1>2, <1>k DEF ProjectsRows, GivenFits
    <3>2. ~x.again /\ (x.reserve = 0 \/ reserve = 0)
      BY <1>3
    <3>3. g.reserve = x.reserve \/ g.reserve = reserve
      BY <1>3, <1>d, <3>2
    <3> QED BY <1>d, <3>1, <3>2, <3>3
  <2> QED BY <2>1, <2>2, <2>3 DEF GivenFits
<1>17. RefundWithinStake'
  <2>1. project'.fee <= project'.raised
    BY <1>15 DEF RoundFits
  <2> QED BY <1>4, <1>8, <1>16, <2>1, ProportionIsEnough
<1>18. ReserveSpentOnce'
  <2>1. project.refunded = SumOver([j \in Stakes |-> got[j].reserve], Stakes)
    BY <1>k DEF ProjectsRows, ProjectsInv, ReserveSpentOnce
  <2> QED BY <1>7, <1>8, <2>1 DEF ReserveSpentOnce
<1>19. ReleasedInFull' /\ StonesInOrder'
  BY <1>k, <1>8 DEF ProjectsRows, ProjectsInv, ReleasedInFull, Held, StonesInOrder,
       AllReleasedBefore
<1>20. ProjectsRows'
  BY <1>9, <1>12, <1>13, <1>14, <1>15, <1>16, <1>17, <1>18, <1>19 DEF ProjectsRows, ProjectsInv
<1>21. Follows
  BY <1>8, <1>11 DEF Follows
<1> QED BY <1>d, <1>8, <1>10, <1>20, <1>21

\* A row of the list is skipped if its investment has changed, or given back.
LEMMA RefundStakeStep ==
  ASSUME ProjectsIInv, NEW c \in Calls, RefundStake(c)
  PROVE  ProjectsIInv'
<1>k. /\ ProjectsRows /\ DOMAIN projCall = Calls /\ cut \in BOOLEAN /\ Custody \in Int
      /\ stake \in [Stakes -> {"none", "committed", "active", "refunded", "partially_refunded"}]
  BY RowsKnown DEF ProjectsIInv
<1>f. IsFiniteSet(Stakes)
  BY ProjectsAssumption
<1>0. projCall[c].op = "refunding"
  BY DEF RefundStake
<1>1. PICK row, i, held, reserve :
        /\ row \in projCall[c].todo /\ i = row[1]
        /\ held = IF projCall[c].raised > 0
                  THEN (Put[i] * Smaller(projCall[c].held, projCall[c].raised)) \div projCall[c].raised
                  ELSE Put[i]
        /\ reserve = IF projCall[c].raised > 0
                     THEN (Put[i] * projCall[c].reserve) \div projCall[c].raised ELSE 0
        /\ projCall' = [projCall EXCEPT ![c].todo = @ \ {row}]
        /\ IF stake[i] # row[2]
           THEN UNCHANGED <<project, stake, got, wallet>>
           ELSE /\ CanPayFromReserve(project, reserve)
                /\ stake' = [stake EXCEPT ![i] =
                     IF projCall[c].held + projCall[c].reserve >= projCall[c].raised
                     THEN "refunded" ELSE "partially_refunded"]
                /\ GiveBack(i, held, reserve)
        /\ UNCHANGED <<stones, hasty, cut>>
  BY DEF RefundStake
<1>2. /\ projCall[c].raised = project.raised /\ project.status = "cancelled"
      /\ projCall[c].held \in Nat /\ projCall[c].held <= project.raised - project.fee
      /\ projCall[c].reserve \in Nat /\ projCall[c].reserve <= project.fee
      /\ projCall[c].todo \subseteq Stakes \X {"committed", "active"}
      /\ DOMAIN projCall[c] = {"op", "raised", "held", "reserve", "todo"}
      /\ \A r \in projCall[c].todo : stake[r[1]] # "none"
  BY <1>0 DEF ProjectsIInv, ProjCallKnows
<1>3. /\ i \in Stakes /\ row[2] \in {"committed", "active"} /\ row = <<i, row[2]>>
      /\ stake[i] # "none"
  BY <1>1, <1>2
<1>4. PICK k : k = [projCall[c] EXCEPT !.todo = @ \ {row}]
  OBVIOUS
<1>5. /\ projCall' = [projCall EXCEPT ![c] = k] /\ DOMAIN projCall' = Calls /\ projCall'[c] = k
  BY <1>1, <1>4, <1>k
<1>6. /\ k.op = "refunding" /\ k.raised = projCall[c].raised /\ k.held = projCall[c].held
      /\ k.reserve = projCall[c].reserve
      /\ DOMAIN k = {"op", "raised", "held", "reserve", "todo"}
      /\ k.todo \subseteq projCall[c].todo /\ row \notin k.todo
      /\ \A r \in projCall[c].todo : r # row => r \in k.todo
  <2>1. "todo" \in DOMAIN projCall[c] /\ "op" \in DOMAIN projCall[c]
        /\ DOMAIN k = DOMAIN projCall[c]
    BY <1>2, <1>4
  <2> QED BY <1>0, <1>2, <1>4, <2>1
<1>7. HeldShares(k) = HeldShares(projCall[c])
  BY <1>6 DEF HeldShares
<1>s. \A d \in Calls : projCall[d].op \in {"cancelling", "refunding"} => d = c
  BY <1>0 DEF ProjectsIInv, OneRefund
<1>e. /\ hasty \/ SumOver(HeldShares(projCall[c]), DueIds(c)) <= Custody
      /\ \/ hasty \/ cut
         \/ \A j \in Stakes : Holding(j) => j \in DueIds(c)
  <2>1. RefundFits(c) /\ RefundKnowsAll
    BY DEF ProjectsIInv
  <2>2. hasty \/ SumOver(HeldShares(projCall[c]), DueIds(c)) <= Custody
    BY <1>0, <2>1 DEF RefundFits
  <2>3. \/ hasty \/ cut
        \/ \A j \in Stakes : Holding(j) => j \in DueIds(c)
    BY <1>0, <1>2, <1>s, <2>1 DEF RefundKnowsAll
  <2> QED BY <2>2, <2>3
<1>8. Follows => ProjCallKnows(c)'
  BY <1>2, <1>5, <1>6 DEF ProjCallKnows, Follows
<1>10. projCall[c].op \in {"cancelling", "refunding"} /\ k.op # "cancelling"
  BY <1>0, <1>6
<1>9. CASE stake[i] # row[2]
  <2>1. UNCHANGED <<project, stones, stake, got, hasty, cut, wallet>>
    BY <1>1, <1>9
  <2>2. ProjectsRows' /\ Follows /\ Custody' = Custody
    BY <1>k, <1>5, <2>1, RowsStay
  <2>3. DueIds(c)' = DueIds(c)
    <3>1. \A j \in Stakes : <<j, stake[j]>> # row
      BY <1>3, <1>9
    <3>2. DueIds(c)' = {j \in Stakes : <<j, stake[j]>> \in k.todo}
      BY <1>5, <2>1 DEF DueIds
    <3>3. \A j \in Stakes : <<j, stake[j]>> \in k.todo <=> <<j, stake[j]>> \in projCall[c].todo
      BY <1>6, <3>1
    <3> QED BY <3>2, <3>3 DEF DueIds
  <2>4. RefundFits(c)'
    BY <1>5, <1>7, <1>e, <2>1, <2>2, <2>3 DEF RefundFits
  <2>5. RefundKnowsAll'
    <3>1. (\A j \in Stakes : Holding(j) => j \in DueIds(c)) => \A j \in Stakes : Holding(j)' => j \in DueIds(c)'
      BY <2>1, <2>3 DEF Holding
    <3> QED BY <1>5, <1>6, <1>e, <2>1, <3>1 DEF RefundKnowsAll
  <2> QED BY <1>5, <1>8, <1>10, <2>2, <2>4, <2>5, RefundCall
<1>11. CASE stake[i] = row[2]
  <2>1. PICK s \in {"refunded", "partially_refunded"} : stake' = [stake EXCEPT ![i] = s]
    BY <1>1, <1>11
  <2>2. /\ stake[i] \in {"committed", "active"} /\ i \in DueIds(c)
        /\ projCall[c].raised > 0
    <3>1. stake[i] \in {"committed", "active"} /\ i \in DueIds(c)
      BY <1>1, <1>3, <1>11 DEF DueIds
    <3>2. project.raised > 0
      BY <1>k, <1>3, RowsKnown
    <3> QED BY <1>2, <3>1, <3>2
  <2>3. held = HeldShares(projCall[c])[i]
    BY <1>1, <1>3 DEF HeldShares
  <2>4. reserve = (Put[i] * projCall[c].reserve) \div projCall[c].raised
    BY <1>1, <2>2
  <2>5. CanPayFromReserve(project, reserve) /\ GiveBack(i, held, reserve)
        /\ UNCHANGED <<stones, hasty, cut>>
    BY <1>1, <1>11
  <2>6. held \in Nat /\ HeldShares(projCall[c]) \in [Stakes -> Nat]
    BY <1>0, <1>3, <2>3, <2>4, DueFacts
  <2>7. PICK g, D : g = HeldShares(projCall[c]) /\ D = DueIds(c)
    OBVIOUS
  <2>8. g \in [Stakes -> Int] /\ D \subseteq Stakes /\ i \in D /\ g[i] = held
        /\ \A j \in Stakes : g[j] >= 0
    BY <2>2, <2>3, <2>6, <2>7 DEF DueIds
  <2>9. SumOver(g, D \ {i}) = SumOver(g, D) - held /\ SumOver(g, D) \in Int
    BY <1>f, <2>8, SumOverPart
  <2>10. SumOver(g, D \ {i}) >= 0
    <3>1. D \ {i} \subseteq D /\ D \in SUBSET Stakes
      BY <2>8
    <3> QED BY <1>f, <2>8, <3>1, SumOverMonotone
  <2>11. hasty \/ held <= Custody
    BY <1>k, <1>e, <2>6, <2>7, <2>9, <2>10
  <2>12. /\ ProjectsRows' /\ Follows /\ Custody' = Custody - held
    BY <1>0, <1>3, <1>5, <2>1, <2>2, <2>3, <2>4, <2>5, <2>11, GiveBackRows
  <2>13. DueIds(c)' = D \ {i}
    <3>1. stake'[i] = s /\ \A j \in Stakes \ {i} : stake'[j] = stake[j]
      BY <1>k, <1>3, <2>1
    <3>2. DueIds(c)' = {j \in Stakes : <<j, stake'[j]>> \in k.todo}
      BY <1>5 DEF DueIds
    <3>3. ASSUME NEW j \in Stakes
          PROVE  <<j, stake'[j]>> \in k.todo <=> j # i /\ <<j, stake[j]>> \in projCall[c].todo
      <4>1. CASE j = i
        <5>1. <<i, s>> \notin Stakes \X {"committed", "active"}
          OBVIOUS
        <5> QED BY <1>2, <1>6, <3>1, <4>1, <5>1
      <4>2. CASE j # i
        <5>1. stake'[j] = stake[j] /\ <<j, stake[j]>> # row
          BY <1>3, <3>1, <4>2
        <5> QED BY <1>6, <4>2, <5>1
      <4> QED BY <4>1, <4>2
    <3> QED BY <2>7, <3>2, <3>3 DEF DueIds
  <2>14. RefundFits(c)'
    <3>1. hasty' \/ SumOver(g, D \ {i}) <= Custody'
      BY <1>k, <1>e, <2>5, <2>6, <2>7, <2>9, <2>12
    <3>2. HeldShares(projCall'[c]) = g
      BY <1>5, <1>7, <2>7
    <3> QED BY <2>13, <3>1, <3>2 DEF RefundFits
  <2>15. RefundKnowsAll'
    <3>1. stake'[i] = s /\ \A j \in Stakes \ {i} : stake'[j] = stake[j]
      BY <1>k, <1>3, <2>1
    <3>2. (\A j \in Stakes : Holding(j) => j \in D) => \A j \in Stakes : Holding(j)' => j \in D \ {i}
      BY <3>1 DEF Holding
    <3> QED BY <1>5, <1>6, <1>e, <2>5, <2>7, <2>13, <3>2 DEF RefundKnowsAll
  <2> QED BY <1>5, <1>8, <1>10, <2>12, <2>14, <2>15, RefundCall
<1> QED BY <1>9, <1>11

\* The first project is a draft, and nobody has invested in it.
LEMMA InitProjectsSound ==
  InitWallets /\ InitProjects => ProjectsIInv
<1> SUFFICES ASSUME InitWallets, InitProjects PROVE ProjectsIInv
  OBVIOUS
<1>a. /\ IsFiniteSet(Stakes) /\ IsFiniteSet(Users) /\ InitialBalance \in [Users -> Nat]
      /\ Put \in [Stakes -> Nat] /\ Target \in Nat
  BY ProjectsAssumption, SharedAssumption
<1>1. /\ project \in ProjectRow /\ project.status = "draft" /\ project.raised = 0
         /\ project.released = 0
      /\ ~project.settled /\ project.fee = 0 /\ project.refunded = 0 /\ project.revenue = 0
      /\ stones = <<>> /\ hasty = FALSE /\ cut = FALSE
  BY DEF InitProjects, ProjectRow, EDITABLE
<1>2. /\ stake \in [Stakes -> {"none", "committed", "active", "refunded", "partially_refunded"}]
      /\ got \in [Stakes -> [held : Nat, reserve : Nat, again : BOOLEAN]]
      /\ \A i \in Stakes : stake[i] = "none" /\ got[i].held = 0 /\ got[i].reserve = 0
  BY DEF InitProjects
<1>3. DOMAIN projCall = Calls /\ \A d \in Calls : projCall[d].op = "idle"
  BY DEF InitProjects, Idles, Idle
<1>4. stones \in Seq(Stone) /\ DOMAIN stones = {}
  BY <1>1
<1>5. ProjectsTypeOK
  BY <1>1, <1>2, <1>3, <1>4 DEF ProjectsTypeOK, ProjectRow, Stone
<1>6. SumOver([i \in Stakes |-> got[i].held], Stakes) = 0
      /\ SumOver([i \in Stakes |-> got[i].reserve], Stakes) = 0
  BY <1>2, <1>a, SumOverZero
<1>7. Custody = 0
  BY <1>1, <1>6 DEF Custody
<1>8. wallet \in [Users -> Row] /\ Total(wallet) = SumOver(InitialBalance, Users)
  <2>1. wallet \in [Users -> Row] /\ DOMAIN wallet = Users
    BY <1>a DEF InitWallets, Row
  <2>2. InitialBalance \in [Users -> Int]
        /\ \A u \in Users : [w \in Users |-> wallet[w].balance][u] = InitialBalance[u]
    BY <1>a DEF InitWallets
  <2>3. SumOver([w \in Users |-> wallet[w].balance], Users) = SumOver(InitialBalance, Users)
    BY <1>a, <2>2, SumOverSame
  <2> QED BY <2>1, <2>3 DEF Total
<1>9. RaisedIsInvested
  <2>1. {i \in Stakes : stake[i] # "none"} = {}
    BY <1>2
  <2>2. SumOver(Put, {}) = 0
    BY FS_EmptySet, SumOverZero
  <2>3. SumOver(InitialBalance, Users) \in Int
    <3>1. InitialBalance \in [Users -> Int]
      BY <1>a
    <3> QED BY <1>a, <3>1, SumOverBound
  <2>4. Holds(-Custody)
    BY <1>7, <1>8, <2>3 DEF Holds
  <2>5. project.raised = SumOver(Put, {i \in Stakes : stake[i] # "none"})
        /\ project.raised <= Target
    <3>1. project.raised = 0 /\ Target \in Nat
      BY <1>1, <1>a
    <3>2. SumOver(Put, {i \in Stakes : stake[i] # "none"}) = 0
      BY <2>1, <2>2
    <3> QED BY <3>1, <3>2
  <2> QED BY <2>4, <2>5 DEF RaisedIsInvested
<1>10. HeldCoversPayments /\ ReserveSpentOnce
  BY <1>1, <1>6, <1>7 DEF HeldCoversPayments, ReserveSpentOnce
<1>11. RefundWithinStake
  <2> SUFFICES ASSUME NEW i \in Stakes PROVE got[i].held + got[i].reserve <= Put[i]
    BY DEF RefundWithinStake
  <2>1. Put[i] \in Nat
    BY <1>a
  <2> QED BY <1>2, <2>1
<1>12. ReleasedInFull /\ StonesInOrder
  BY <1>1, <1>4 DEF ReleasedInFull, StonesInOrder
<1>13. RoundFits
  BY <1>1, <1>2, <1>4 DEF RoundFits
<1>14. GivenFits
  <2> SUFFICES ASSUME NEW i \in Stakes
               PROVE  /\ got[i].held * project.raised <= Put[i] * (project.raised - project.fee)
                      /\ got[i].reserve * project.raised <= Put[i] * project.fee
    BY <1>2 DEF GivenFits
  <2>1. Put[i] \in Nat
    BY <1>a
  <2>2. \A p \in Nat : 0 * 0 <= p * (0 - 0) /\ 0 * 0 <= p * 0
    OBVIOUS
  <2> QED BY <1>1, <1>2, <2>1, <2>2
<1>15. ProjectsRows
  BY <1>5, <1>8, <1>9, <1>10, <1>11, <1>12, <1>13, <1>14 DEF ProjectsRows, ProjectsInv
<1>16. KeptUntilCancelled /\ RefundKnowsAll /\ OneRefund
  BY <1>1, <1>2, <1>3 DEF KeptUntilCancelled, RefundKnowsAll, OneRefund
<1>17. \A c \in Calls : ProjCallKnows(c) /\ RefundFits(c)
  BY <1>3 DEF ProjCallKnows, RefundFits
<1> QED BY <1>15, <1>16, <1>17 DEF ProjectsIInv

\* Every step of the business, the investors and the administrators keeps it.
LEMMA ProjectsInductive ==
  ProjectsIInv /\ [NextProjects]_<<wallet, projVars>> => ProjectsIInv'
<1> SUFFICES ASSUME ProjectsIInv, [NextProjects]_<<wallet, projVars>> PROVE ProjectsIInv'
  OBVIOUS
<1>1. ASSUME NEW c \in Calls,
             \/ \E plan \in Plans : BeginPlan(c, plan)
             \/ \E i \in Stakes : BeginInvest(c, i)
             \/ \E action \in DOMAIN Transitions : BeginTransition(c, action)
             \/ BeginSubmit(c) \/ BeginLoss(c) \/ BeginRevenue(c)
             \/ InvestRefused(c) \/ TransitionLost(c)
      PROVE  ProjectsIInv'
  BY <1>1, BeginsRead
<1>2. ASSUME NEW c \in Calls, NEW m \in DOMAIN stones, BeginRelease(c, m) PROVE ProjectsIInv'
  BY <1>2, BeginReleaseStep
<1>3. ASSUME NEW c \in Calls, CommitPlan(c) \/ CommitSubmit(c) \/ CommitInvest(c)
      PROVE ProjectsIInv'
  BY <1>3, PlanStep, SubmitStep, InvestStep
<1>4. ASSUME NEW c \in Calls, CommitTransition(c) \/ CloseRound(c) PROVE ProjectsIInv'
  BY <1>4, TransitionStep, CloseStep
<1>5. ASSUME NEW c \in Calls,
             BeginRefundAll(c) \/ RefundStake(c) \/ RefundAborts(c) \/ RefundAllEnds(c)
      PROVE  ProjectsIInv'
  BY <1>5, BeginRefundStep, RefundStakeStep, RefundEndStep
<1>6. ASSUME NEW c \in Calls, CommitLoss(c) \/ CommitRevenue(c) \/ CommitRelease(c)
      PROVE ProjectsIInv'
  BY <1>6, LossStep, RevenueStep, CommitReleaseStep
<1>7. ASSUME NEW m \in DOMAIN stones, RequestMilestone(m) \/ ReturnMilestone(m)
      PROVE ProjectsIInv'
  BY <1>7, AskStep
<1>8. CASE ProjectsRestart
  BY <1>8, ProjectsRestartStep
<1>9. CASE UNCHANGED <<wallet, projVars>>
  <2>1. UNCHANGED <<project, stones, stake, got, hasty, cut, wallet>> /\ projCall' = projCall
    BY <1>9 DEF projVars
  <2>2. ProjectsRows /\ DOMAIN projCall = Calls /\ cut \in BOOLEAN
    BY RowsKnown DEF ProjectsIInv
  <2>3. ProjectsRows' /\ Follows /\ Custody' = Custody
    BY <2>1, <2>2, RowsStay
  <2> QED BY <2>1, <2>3, Aside
<1> QED BY <1>1, <1>2, <1>3, <1>4, <1>5, <1>6, <1>7, <1>8, <1>9 DEF NextProjects

\* The inductive invariant holds throughout.
LEMMA ProjectsSound == ProjectsSpec => []ProjectsIInv
BY InitProjectsSound, ProjectsInductive, PTL DEF ProjectsSpec

\* A project raises exactly what was invested and never more than its target
\* (updateMany where raised_amount leaves room, in invest), pays its business and
\* its investors together no more than it holds unless a milestone is released
\* while it is being cancelled, spends its reserve once, and gives nobody more
\* than he put in unless he is given of the reserve twice.
THEOREM RoundAddsUp == ProjectsSpec => []ProjectsInv
<1>1. ProjectsIInv => ProjectsInv
  BY DEF ProjectsIInv, ProjectsRows
<1> QED BY <1>1, ProjectsSound, PTL

\* Cancelling a project (refundAll, a transaction for each investor) leaves no
\* investment behind, not even one that was being made when it was cancelled,
\* unless a milestone is released at the same time or the refund is interrupted.
THEOREM CancelledRefunded == ProjectsSpec => []CancelledIsRefunded
<1>1. ProjectsIInv => CancelledIsRefunded
  <2> SUFFICES ASSUME ProjectsIInv PROVE CancelledIsRefunded
    OBVIOUS
  <2>1. \/ hasty \/ cut \/ project.status # "cancelled"
        \/ \E c \in Calls : projCall[c].op \in {"cancelling", "refunding"}
        \/ \A i \in Stakes : ~Holding(i)
    BY DEF ProjectsIInv, RefundKnowsAll
  <2> QED BY <2>1 DEF CancelledIsRefunded, EachInvestorRefunded
<1> QED BY <1>1, ProjectsSound, PTL

=============================================================================
