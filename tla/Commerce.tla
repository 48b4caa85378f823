------------------------------ MODULE Commerce -------------------------------
(***************************************************************************)
(* Invoices and payment links of a business.  They are paid in the app, by *)
(* a transfer between wallets, or on the web, through a checkout of a      *)
(* payment provider that a job looks up every five minutes.  A web         *)
(* checkout reserves what it pays: it holds the invoice, or takes a use of *)
(* the link, until its time is over.                                       *)
(***************************************************************************)
EXTENDS Integers, FiniteSets

CONSTANTS
  Invoices, Links, MaxUses,
  Checkouts, WebFor,   \* web checkouts, each for an invoice or a link
  Servers              \* handlers in flight

NoHold == "free"

ASSUME CommerceAssumption ==
  /\ Invoices \cap Links = {} /\ NoHold \notin Checkouts
  /\ MaxUses \in [Links -> Nat \ {0}]
  /\ WebFor \in [Checkouts -> Invoices \cup Links]
  /\ IsFiniteSet(Checkouts) /\ IsFiniteSet(Servers)

VARIABLES
  invoice,   \* status
  hold,      \* payment_hold_ref
  link,      \* is_active and use_count
  webPay,  \* status of the business_web_checkouts row
  late,      \* checkouts past expires_at, and holds past payment_hold_until
  provider,  \* status of the checkout's transaction; "revived" is completed, after a
             \* failure had been reported
  applied,   \* payments taken for an invoice or a link
  exceptions,  \* web payments recorded for refund or review
  unrecorded,  \* where a write after a payment failed, or was not reached; of a
             \* checkout, those that settle it or record the exception
  serving

shopVars == <<invoice, hold, link, webPay, late, provider, applied,
              exceptions, unrecorded, serving>>

AtRest == [op |-> "idle"]

PAYABLE == {"sent", "pending", "overdue"}

\* A transaction that is completed.
Arrived == {"completed", "revived"}

CommerceTypeOK ==
  /\ invoice \in [Invoices -> PAYABLE \cup {"draft", "paid", "cancelled"}]
  /\ hold \in [Invoices -> Checkouts \cup {NoHold}]
  /\ link \in [Links -> [open : BOOLEAN, uses : Int]]
  /\ webPay \in [Checkouts -> {"none", "reserved", "pending", "expired", "failed", "completed"}]
  /\ late \subseteq Checkouts /\ exceptions \subseteq Checkouts
  /\ provider \in [Checkouts -> Arrived \cup {"pending", "failed"}]
  /\ applied \in [Invoices \cup Links -> Nat]
  /\ unrecorded \subseteq Invoices \cup Links \cup Checkouts
  /\ DOMAIN serving = Servers

InitCommerce ==
  /\ invoice = [i \in Invoices |-> "draft"]
  /\ hold = [i \in Invoices |-> NoHold]
  /\ link = [l \in Links |-> [open |-> TRUE, uses |-> 0]]
  /\ webPay = [k \in Checkouts |-> "none"]
  /\ late = {} /\ exceptions = {} /\ unrecorded = {}
  /\ provider = [k \in Checkouts |-> "pending"]
  /\ applied = [x \in Invoices \cup Links |-> 0]
  /\ serving = [s \in Servers |-> AtRest]

Serve(s, call) == serving[s] = AtRest /\ serving' = [serving EXCEPT ![s] = call]

OnTo(s, from, to) ==
  /\ serving[s].op = from
  /\ serving' = [serving EXCEPT ![s].op = to]

Served(s, op) ==
  /\ serving[s].op = op
  /\ serving' = [serving EXCEPT ![s] = AtRest]

Apply(x) == applied' = [applied EXCEPT ![x] = @ + 1]

----------------------------------------------------------------------------
(* The merchant.                                                           *)

\* sendInvoice, the payer's look at it, markOverdue, cancelInvoice.
InvoiceMoves(i, from, to) ==
  /\ invoice[i] \in from
  /\ invoice' = [invoice EXCEPT ![i] = to]
  /\ UNCHANGED <<hold, link, webPay, late, provider, applied, exceptions, unrecorded, serving>>

SendInvoice(i) == InvoiceMoves(i, {"draft"}, "sent")
ViewInvoice(i) == InvoiceMoves(i, {"sent"}, "pending")
MarkOverdue(i) == InvoiceMoves(i, {"sent", "pending"}, "overdue")
CancelInvoice(i) == InvoiceMoves(i, {"draft"} \cup PAYABLE, "cancelled")

SetLinkActive(l) ==
  /\ link' = [link EXCEPT ![l].open = ~@]
  /\ UNCHANGED <<invoice, hold, webPay, late, provider, applied, exceptions, unrecorded, serving>>

----------------------------------------------------------------------------
(* Paying in the app.                                                      *)

Usable(l) == link[l].open /\ link[l].uses < MaxUses[l]

BeginPayInvoice(s, i) ==
  /\ invoice[i] \in PAYABLE
  /\ Serve(s, [op |-> "pay", id |-> i, was |-> invoice[i]])
  /\ UNCHANGED <<invoice, hold, link, webPay, late, provider, applied, exceptions, unrecorded>>

BeginPayLink(s, l) ==
  /\ Usable(l)
  /\ Serve(s, [op |-> "pay", id |-> l])
  /\ UNCHANGED <<invoice, hold, link, webPay, late, provider, applied, exceptions, unrecorded>>

\* "A web checkout in progress holds the invoice until it expires."
NotHeld(i) == hold[i] = NoHold \/ hold[i] \in late

Reservable(x) == IF x \in Invoices THEN invoice[x] \in PAYABLE /\ NotHeld(x) ELSE Usable(x)

\* "Claim the invoice before moving money so it cannot be paid twice."
\* "Reserve a use first so max_uses cannot be exceeded by concurrent payers."
ClaimItem(s) ==
  LET x == serving[s].id
  IN  /\ OnTo(s, "pay", "claimed") /\ Reservable(x)
      /\ IF x \in Invoices
         THEN invoice' = [invoice EXCEPT ![x] = "paid"] /\ UNCHANGED link
         ELSE link' = [link EXCEPT ![x].uses = @ + 1] /\ UNCHANGED invoice
      /\ UNCHANGED <<hold, webPay, late, provider, applied, exceptions, unrecorded>>

ClaimItemLost(s) ==
  /\ Served(s, "pay") /\ ~Reservable(serving[s].id)
  /\ UNCHANGED <<invoice, hold, link, webPay, late, provider, applied, exceptions, unrecorded>>

TransferForItem(s) ==
  /\ OnTo(s, "claimed", "transferred")
  /\ Apply(serving[s].id)
  /\ UNCHANGED <<invoice, hold, link, webPay, late, provider, exceptions, unrecorded>>

\* The catch: the invoice has the status that was read, the link its use.
GiveUpClaim(s) ==
  LET x == serving[s].id
  IN  IF x \in Invoices
      THEN invoice' = [invoice EXCEPT ![x] = serving[s].was] /\ UNCHANGED link
      ELSE link' = [link EXCEPT ![x].uses = @ - 1] /\ UNCHANGED invoice

TransferRefused(s) ==
  /\ Served(s, "claimed")
  /\ GiveUpClaim(s)
  /\ UNCHANGED <<hold, webPay, late, provider, applied, exceptions, unrecorded>>

RecordPayment(s) ==
  /\ Served(s, "transferred")
  /\ UNCHANGED <<invoice, hold, link, webPay, late, provider, applied, exceptions, unrecorded>>

\* The business_payments row, or the reference, cannot be written: the catch of a
\* refused transfer runs, after the transfer.  Once for an item: a bound.
RecordPaymentFails(s) ==
  /\ Served(s, "transferred") /\ serving[s].id \notin unrecorded
  /\ GiveUpClaim(s)
  /\ unrecorded' = unrecorded \cup {serving[s].id}
  /\ UNCHANGED <<hold, webPay, late, provider, applied, exceptions>>

----------------------------------------------------------------------------
(* Paying on the web.                                                      *)

\* start: reserve(), before the payer is sent to the provider.
StartWeb(s, k) ==
  LET x == WebFor[k]
  IN  /\ webPay[k] = "none" /\ Reservable(x)
      /\ Serve(s, [op |-> "start", id |-> k])
      /\ webPay' = [webPay EXCEPT ![k] = "reserved"]
      /\ IF x \in Invoices
         THEN hold' = [hold EXCEPT ![x] = k] /\ UNCHANGED link
         ELSE link' = [link EXCEPT ![x].uses = @ + 1] /\ UNCHANGED hold
      /\ UNCHANGED <<invoice, late, provider, applied, exceptions, unrecorded>>

OpenWeb(s) ==
  /\ Served(s, "start")
  /\ webPay' = [webPay EXCEPT ![serving[s].id] = "pending"]
  /\ UNCHANGED <<invoice, hold, link, late, provider, applied, exceptions, unrecorded>>

\* release(): a use is given back, a hold only by who has it.
Release(k) ==
  LET x == WebFor[k]
  IN  IF x \in Invoices
      THEN /\ hold' = IF hold[x] = k THEN [hold EXCEPT ![x] = NoHold] ELSE hold
           /\ UNCHANGED link
      ELSE link' = [link EXCEPT ![x].uses = IF @ > 0 THEN @ - 1 ELSE @] /\ UNCHANGED hold

OpenWebFails(s) ==
  /\ Served(s, "start")
  /\ webPay' = [webPay EXCEPT ![serving[s].id] = "none"]
  /\ Release(serving[s].id)
  /\ UNCHANGED <<invoice, late, provider, applied, exceptions, unrecorded>>

\* A failed or abandoned attempt can still be paid: complete() takes a transaction
\* that is pending or failed.
ProviderDecides(k, status) ==
  /\ webPay[k] \notin {"none", "reserved"}
  /\ provider[k] = IF status = "revived" THEN "failed" ELSE "pending"
  /\ provider' = [provider EXCEPT ![k] = status]
  /\ UNCHANGED <<invoice, hold, link, webPay, late, applied, exceptions, unrecorded, serving>>

TimePasses(k) ==
  /\ webPay[k] \in {"reserved", "pending"} /\ k \notin late
  /\ late' = late \cup {k}
  /\ UNCHANGED <<invoice, hold, link, webPay, provider, applied, exceptions, unrecorded, serving>>

\* Faulty: a checkout that has expired is not looked up any more.
LookedUpWhilePending == {"pending"}

\* A payer may pay after the checkout expired.
LookedUp == {"pending", "expired"}

\* reconcile, of the job or the payer's page: the row and the provider are read.
BeginReconcile(s, k) ==
  /\ webPay[k] \in LookedUp
  /\ provider[k] # "pending" \/ (webPay[k] = "pending" /\ k \in late)
  /\ Serve(s, [op |-> "reconcile", id |-> k, was |-> webPay[k], saw |-> provider[k]])
  /\ UNCHANGED <<invoice, hold, link, webPay, late, provider, applied, exceptions, unrecorded>>

Verdict(saw) ==
  CASE saw = "failed" -> "failed" [] saw = "pending" -> "expired" [] OTHER -> "completed"

\* updateMany where { status: c.status }
ClaimCheckout(s) ==
  LET k == serving[s].id
      saw == serving[s].saw
  IN  /\ OnTo(s, "reconcile", IF saw \in Arrived THEN "settle" ELSE "release")
      /\ webPay[k] = serving[s].was
      /\ webPay' = [webPay EXCEPT ![k] = Verdict(saw)]
      /\ UNCHANGED <<invoice, hold, link, late, provider, applied, exceptions, unrecorded>>

ClaimCheckoutLost(s) ==
  /\ Served(s, "reconcile") /\ webPay[serving[s].id] # serving[s].was
  /\ UNCHANGED <<invoice, hold, link, webPay, late, provider, applied, exceptions, unrecorded>>

\* Faulty: what was given back when the checkout expired is given back again.
StillReservedAlways(s) == TRUE

StillReserved(s) == serving[s].was = "pending"

ReleaseCheckout(s) ==
  /\ Served(s, "release")
  /\ IF StillReserved(s) THEN Release(serving[s].id) ELSE UNCHANGED <<hold, link>>
  /\ UNCHANGED <<invoice, webPay, late, provider, applied, exceptions, unrecorded>>

CanSettle(s, k) ==
  IF WebFor[k] \in Invoices
  THEN LET i == WebFor[k] IN invoice[i] \in PAYABLE /\ (hold[i] = k \/ NotHeld(i))
  ELSE StillReserved(s) \/ link[WebFor[k]].uses < MaxUses[WebFor[k]]

RecordException(k) == exceptions' = exceptions \cup {k}

\* "Money has already arrived."
SettleCheckout(s) ==
  LET k == serving[s].id
      x == WebFor[k]
  IN  /\ Served(s, "settle")
      /\ IF CanSettle(s, k)
         THEN /\ Apply(x) /\ UNCHANGED exceptions
              /\ IF x \in Invoices
                 THEN /\ invoice' = [invoice EXCEPT ![x] = "paid"]
                      /\ hold' = [hold EXCEPT ![x] = NoHold]
                      /\ UNCHANGED link
                 ELSE /\ link' = [link EXCEPT ![x].uses = IF StillReserved(s) THEN @ ELSE @ + 1]
                      /\ UNCHANGED <<invoice, hold>>
         ELSE RecordException(k) /\ UNCHANGED <<invoice, hold, link, applied>>
      /\ UNCHANGED <<webPay, late, provider, unrecorded>>

\* A write after the claim fails, that of the payment, of the link or the invoice, or
\* of the exception (whose failure is swallowed): the checkout stays completed, or
\* closed with its reservation.
ReconcileFails(s) ==
  LET k == serving[s].id
  IN  /\ serving[s].op \in {"settle", "release"}
      /\ serving' = [serving EXCEPT ![s] = AtRest]
      /\ unrecorded' = IF serving[s].op = "settle" THEN unrecorded \cup {k} ELSE unrecorded
      /\ UNCHANGED <<invoice, hold, link, webPay, late, provider, applied, exceptions>>

\* The process stops: what was claimed stays claimed.
CommerceRestart ==
  /\ \E s \in Servers : serving[s] # AtRest
  /\ unrecorded' = unrecorded \cup
       {serving[s].id : s \in {t \in Servers : serving[t].op \in {"claimed", "settle", "transferred"}}}
  /\ serving' = [s \in Servers |-> AtRest]
  /\ UNCHANGED <<invoice, hold, link, webPay, late, provider, applied, exceptions>>

NextCommerce ==
  \/ \E i \in Invoices : SendInvoice(i) \/ ViewInvoice(i) \/ MarkOverdue(i) \/ CancelInvoice(i)
  \/ \E l \in Links : SetLinkActive(l)
  \/ \E k \in Checkouts :
       TimePasses(k) \/ \E status \in Arrived \cup {"failed"} : ProviderDecides(k, status)
  \/ \E s \in Servers :
       \/ \E i \in Invoices : BeginPayInvoice(s, i)
       \/ \E l \in Links : BeginPayLink(s, l)
       \/ \E k \in Checkouts : StartWeb(s, k) \/ BeginReconcile(s, k)
       \/ ClaimItem(s) \/ ClaimItemLost(s) \/ TransferForItem(s) \/ TransferRefused(s)
       \/ RecordPayment(s) \/ RecordPaymentFails(s)
       \/ OpenWeb(s) \/ OpenWebFails(s)
       \/ ClaimCheckout(s) \/ ClaimCheckoutLost(s) \/ ReleaseCheckout(s) \/ SettleCheckout(s)
       \/ ReconcileFails(s)
  \/ CommerceRestart

\* Handlers run to their end, and the job looks every open checkout up again and
\* again; it gets to a checkout however often others are in its way.
FairCommerce ==
  /\ WF_shopVars(\E s \in Servers : \/ ClaimItem(s) \/ ClaimItemLost(s)
                                     \/ TransferForItem(s) \/ TransferRefused(s)
                                     \/ RecordPayment(s) \/ RecordPaymentFails(s)
                                     \/ OpenWeb(s) \/ OpenWebFails(s)
                                     \/ ClaimCheckoutLost(s)
                                     \/ ReleaseCheckout(s) \/ SettleCheckout(s))
  /\ \A k \in Checkouts :
       /\ SF_shopVars(\E s \in Servers : BeginReconcile(s, k) /\ provider[k] # "pending")
       /\ SF_shopVars(\E s \in Servers : ClaimCheckout(s) /\ serving[s].id = k)

----------------------------------------------------------------------------
(* Properties.                                                             *)

\* An invoice is paid once, in the app or on the web, and what has been paid for
\* is shown as paid; not so after the write that follows the payment failed.
InvoicePaidOnce ==
  \A i \in Invoices \ unrecorded :
    applied[i] <= 1 /\ (applied[i] = 1 => invoice[i] = "paid")

\* A link's uses are its payments and the checkouts that may still be paid: never
\* more than max_uses, and none of them is given back twice.
LinkUsesCounted ==
  \A l \in Links \ unrecorded :
    /\ applied[l] + Cardinality({k \in Checkouts : WebFor[k] = l /\ webPay[k] = "pending"})
         <= link[l].uses
    /\ link[l].uses <= MaxUses[l]

InHand(k) == \E s \in Servers : serving[s].op = "settle" /\ serving[s].id = k

\* Money that arrived on the web is on the invoice or the link, or recorded for
\* refund or review.  It is lost where a write after the claim failed, and where it
\* came after a failure for which the checkout was closed (reconcile never looks at
\* a failed row again).
WebMoneyAccounted ==
  /\ \A k \in Checkouts : webPay[k] = "failed" => provider[k] # "completed"
  /\ \A x \in (Invoices \cup Links) \ unrecorded :
       LET arrived == {k \in Checkouts : WebFor[k] = x /\ webPay[k] = "completed"}
       IN  Cardinality({k \in arrived : ~InHand(k) /\ k \notin exceptions \cup unrecorded})
             <= applied[x]

\* A payment that arrived, late or not, is dealt with, by the job if nobody asks: its
\* checkout is completed, unless it was closed for a failure reported before.
ArrivedIsSettled ==
  \A k \in Checkouts :
    provider[k] \in Arrived ~>
      webPay[k] = "completed" \/ (provider[k] = "revived" /\ webPay[k] = "failed")

\* Invoices, payment links and web checkouts under concurrent payers: nothing is sold
\* twice or past its limit, and money collected on the web is settled or held as an
\* exception, but for the two ways to lose it that WebMoneyAccounted names.
CommerceInv ==
  /\ CommerceTypeOK
  /\ InvoicePaidOnce /\ LinkUsesCounted /\ WebMoneyAccounted

=============================================================================
