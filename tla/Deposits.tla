------------------------------ MODULE Deposits ------------------------------
(***************************************************************************)
(* Deposits through a checkout: Paystack for cards, banks and mobile money,*)
(* NOWPayments for crypto.  A deposit is two rows, its own and the one of  *)
(* its transaction.  Webhooks, the fixStuckDeposits job and the endpoints  *)
(* the client polls all settle it, each from the rows it read earlier, and *)
(* the job deletes what has failed.                                        *)
(*                                                                         *)
(* A deposit may be a guest's payment of a merchant's QR code: a sale,     *)
(* linked to the checkout after it is made.  DepositService knows of sales *)
(* and takes a fee; WebhookService, whose job credits too, does not.       *)
(*                                                                         *)
(* The provider is outside.  A customer pays only a checkout he was given, *)
(* and may still pay a Paystack one that was reported failed or abandoned. *)
(***************************************************************************)
EXTENDS Naturals, FiniteSets

CONSTANTS
  Deposits,     \* one element per checkout, named by its reference
  Crypto,       \* those of NOWPayments; the others are Paystack's
  Calls,        \* handlers that can be in flight at once
  MaxCuts       \* bound: handlers cut short by an error or a restart

ASSUME DepositAssumption ==
  /\ IsFiniteSet(Deposits)
  /\ Crypto \subseteq Deposits
  /\ MaxCuts \in Nat

VARIABLES
  deposit,    \* status of the deposit row, "none" when there is no row
  txn,        \* status of the transaction row, likewise
  credits,    \* ledger entries of the deposit, one for each wallet credit
  charge,     \* the provider's side of the checkout
  reported,   \* deposits a failure was read or received for
  sale,       \* the qr_payments row of a guest's payment, "due" until linked
  feeTaken,   \* the sales the platform took its fee of
  call,       \* the handler in each slot, with the rows it has read
  cuts

vars == <<deposit, txn, credits, charge, reported, sale, feeTaken, call, cuts>>
sales == <<sale, feeTaken>>
rows == <<deposit, txn, credits>>

Idle == [at |-> "idle"]
DepositStatuses == {"none", "PENDING", "SUCCESS", "FAILED"}
TxStatuses == {"none", "pending", "completed", "failed"}

TypeOK ==
  /\ deposit \in [Deposits -> DepositStatuses]
  /\ txn \in [Deposits -> TxStatuses]
  /\ credits \in [Deposits -> Nat]
  /\ charge \in [Deposits -> {"none", "open", "refused", "paid"}]
  /\ reported \subseteq Deposits
  /\ sale \in [Deposits -> {"none", "due", "pending", "completed", "failed"}]
  /\ feeTaken \subseteq Deposits
  /\ call \in [Calls -> {Idle} \cup
                 [at : {"read", "act"}, job : {"finalize", "sweep", "fail"}, ref : Deposits,
                  deposit : DepositStatuses, tx : TxStatuses, guest : BOOLEAN]]
  /\ cuts \in 0 .. MaxCuts

Init ==
  /\ deposit = [d \in Deposits |-> "none"]
  /\ txn = [d \in Deposits |-> "none"]
  /\ credits = [d \in Deposits |-> 0]
  /\ charge = [d \in Deposits |-> "none"]
  /\ reported = {}
  /\ sale = [d \in Deposits |-> "none"]
  /\ feeTaken = {}
  /\ call = [c \in Calls |-> Idle]
  /\ cuts = 0

----------------------------------------------------------------------------
(* Starting a deposit.                                                     *)

Unused(d) == <<deposit[d], txn[d], charge[d]>> = <<"none", "none", "none">>

Write(d, depositStatus, txStatus) ==
  /\ deposit' = [deposit EXCEPT ![d] = depositStatus]
  /\ txn' = [txn EXCEPT ![d] = txStatus]

\* A user fills his own wallet, or a guest pays the merchant whose code he read.
ForWhom(d) == \E s \in {"none", "due"} : sale' = [sale EXCEPT ![d] = s]

\* PaymentsService writes the transaction first; a Paystack checkout and a
\* NOWPayments invoice differ in what is asked of the provider before.
InitiateDeposit(d) ==
  /\ Unused(d) /\ d \notin Crypto
  /\ Write(d, "none", "pending")
  /\ ForWhom(d)
  /\ UNCHANGED <<credits, charge, reported, feeTaken, call, cuts>>

InitiateInvoice(d) ==
  /\ Unused(d) /\ d \in Crypto
  /\ Write(d, "none", "pending")
  /\ ForWhom(d)
  /\ UNCHANGED <<credits, charge, reported, feeTaken, call, cuts>>

\* Then its deposit, and the customer gets his checkout.  A request that stops
\* before leaves nothing to pay.
HandOut(d) ==
  /\ <<deposit[d], txn[d], charge[d]>> = <<"none", "pending", "none">>
  /\ Write(d, "PENDING", "pending")
  /\ charge' = [charge EXCEPT ![d] = "open"]
  /\ UNCHANGED <<credits, reported, sales, call, cuts>>

\* DepositService writes the deposit first.
CreateDeposit(d) ==
  /\ Unused(d) /\ d \notin Crypto
  /\ Write(d, "PENDING", "none")
  /\ UNCHANGED <<credits, charge, reported, sales, call, cuts>>

\* Then its transaction.
AddTransaction(d) ==
  /\ <<deposit[d], txn[d], charge[d]>> = <<"PENDING", "none", "none">>
  /\ Write(d, "PENDING", "pending")
  /\ UNCHANGED <<credits, charge, reported, sales, call, cuts>>

\* A crypto deposit has both rows at once.
CreateCrypto(d) ==
  /\ Unused(d) /\ d \in Crypto
  /\ Write(d, "PENDING", "pending")
  /\ UNCHANGED <<credits, charge, reported, sales, call, cuts>>

\* createPayment of a merchant's checkout marks the transaction as a guest's and
\* adds the row of the sale, when the payment can already be under way.
Link(d) ==
  /\ sale[d] = "due" /\ charge[d] # "none" /\ txn[d] # "none"
  /\ sale' = [sale EXCEPT ![d] = "pending"]
  /\ UNCHANGED <<rows, charge, reported, feeTaken, call, cuts>>

Linked(d) == sale[d] \notin {"none", "due"}

\* Either way the provider is asked for the payment when the rows exist.
AskProvider(d) ==
  /\ <<deposit[d], txn[d], charge[d]>> = <<"PENDING", "pending", "none">>
  /\ charge' = [charge EXCEPT ![d] = "open"]
  /\ UNCHANGED <<rows, reported, sales, call, cuts>>

\* createDeposit: a checkout at Paystack; a request that fails leaves the rows.
Open(d) == d \notin Crypto /\ AskProvider(d)

\* createNowpaymentsCryptoDeposit: a payment at NOWPayments,
OpenCrypto(d) == d \in Crypto /\ AskProvider(d)

\* or the catch block fails both rows.
OpenFails(d) ==
  /\ d \in Crypto
  /\ charge[d] = "none" /\ deposit[d] = "PENDING"
  /\ Write(d, "FAILED", "failed")
  /\ UNCHANGED <<credits, charge, reported, sales, call, cuts>>

\* External: the customer pays, or an attempt fails or is given up.  A guest is
\* given the invoice of a crypto payment when it has been linked.
ProviderMoves(d) ==
  /\ charge[d] = "open" \/ charge[d] = "refused"
  /\ \E next \in {"refused", "paid"} :
       /\ next = "paid" => ~(d \in Crypto /\ sale[d] = "due")
       /\ charge[d] = "refused" => d \notin Crypto /\ next = "paid"
       /\ charge' = [charge EXCEPT ![d] = next]
  /\ UNCHANGED <<rows, reported, sales, call, cuts>>

\* A failure webhook of Paystack, or a lookup of the job that says so.
Report(d) ==
  /\ charge[d] = "refused" /\ d \notin Crypto \cup reported
  /\ reported' = reported \cup {d}
  /\ UNCHANGED <<rows, charge, sales, call, cuts>>

----------------------------------------------------------------------------
(* Settling: finalizeSuccessfulDeposit, finalizeDeposit and failDeposit.   *)

\* A handler starts by reading the deposit row.
Begin(c, job, d) ==
  /\ call[c] = Idle
  /\ call' = [call EXCEPT ![c] = [at |-> "read", job |-> job, ref |-> d,
                                  deposit |-> deposit[d], tx |-> "none", guest |-> FALSE]]
  /\ UNCHANGED <<rows, charge, reported, sales, cuts>>

\* A webhook or a poll; the client may ask at any time.
BeginFinalize(c, d) ==
  /\ deposit[d] # "none" \/ txn[d] # "none"
  /\ Begin(c, "finalize", d)

\* fixStuckDeposits runs every minute, and looks up what is pending with Paystack.
Stuck(d) == d \notin Crypto /\ txn[d] = "pending" /\ charge[d] = "paid"

\* What was paid is handed to the finalizer of WebhookService.
Sweep(c, d) == Stuck(d) /\ Begin(c, "sweep", d)

BeginFail(c, d) ==
  /\ d \in reported
  /\ Begin(c, "fail", d)

\* Then the transaction row.  Without one there is nothing to finalize.
ReadTransaction(c) ==
  LET d == call[c].ref
  IN  /\ call[c].at = "read"
      /\ call' = [call EXCEPT ![c] =
                    IF txn[d] = "none" /\ (@.job # "fail" \/ @.deposit = "none")
                    THEN Idle
                    ELSE [@ EXCEPT !.at = "act", !.tx = txn[d], !.guest = Linked(d)]]
      /\ UNCHANGED <<rows, charge, reported, sales, cuts>>

Acting(c, jobs) == call[c].at = "act" /\ call[c].job \in jobs

Finalizers == {"finalize", "sweep"}

\* A missing deposit is put back, PENDING, unless another handler was faster.
Reconstruct(c) ==
  LET d == call[c].ref
  IN  /\ Acting(c, Finalizers)
      /\ charge[d] = "paid" /\ call[c].deposit = "none"
      /\ IF deposit[d] = "none"
         THEN /\ deposit' = [deposit EXCEPT ![d] = "PENDING"]
              /\ call' = [call EXCEPT ![c].deposit = "PENDING"]
         ELSE UNCHANGED deposit /\ call' = [call EXCEPT ![c] = Idle]
      /\ UNCHANGED <<txn, credits, charge, reported, sales, cuts>>

\* Faulty: whoever read both rows as pending credits.
ClaimedAsRead(c) == call[c].deposit = "PENDING"

\* The row a credit claims: the deposit the handler read as PENDING, or else the
\* transaction.
Claimed(c) ==
  LET d == call[c].ref
  IN  IF call[c].deposit = "PENDING" THEN deposit[d] = "PENDING" ELSE txn[d] = "pending"

\* The credit of deposit d, its rows and its ledger entry, in one transaction.
CreditIf(claimed, c) ==
  LET d == call[c].ref
  IN  IF call[c].tx = "pending" /\ claimed
      THEN /\ credits' = [credits EXCEPT ![d] = IF call[c].deposit = "SUCCESS" THEN @ ELSE @ + 1]
           /\ deposit' = [deposit EXCEPT ![d] = IF call[c].deposit = "PENDING" THEN "SUCCESS" ELSE @]
           /\ txn' = [txn EXCEPT ![d] = "completed"]
      ELSE UNCHANGED rows

End(c) == call' = [call EXCEPT ![c] = Idle]

\* A guest's payment takes the platform's fee and completes the sale with the
\* credit.  Only a deposit read as PENDING is credited, and a transaction that was
\* completed without the fee does not stop it.
SettleSale(c) ==
  LET d == call[c].ref
  IN  IF /\ charge[d] = "paid" /\ call[c].tx \in {"pending", "completed"}
         /\ call[c].tx = "completed" => d \notin feeTaken
         /\ call[c].deposit = "PENDING" /\ deposit[d] = "PENDING"
      THEN /\ Write(d, "SUCCESS", "completed")
           /\ credits' = [credits EXCEPT ![d] = @ + 1]
           /\ sale' = [sale EXCEPT ![d] = "completed"]
           /\ feeTaken' = feeTaken \cup {d}
      ELSE UNCHANGED <<rows, sales>>

\* The provider confirms the payment, the statuses read decide, and the claim
\* must still find its row.  A payment stays paid: asking the provider here is
\* asking it any time before.
Finalize(c) ==
  /\ Acting(c, Finalizers)
  /\ ~(call[c].deposit = "none" /\ charge[call[c].ref] = "paid")
  /\ IF call[c].guest /\ call[c].job = "finalize"
     THEN SettleSale(c)
     ELSE CreditIf(charge[call[c].ref] = "paid" /\ Claimed(c), c) /\ UNCHANGED sales
  /\ End(c)
  /\ UNCHANGED <<charge, reported, cuts>>

\* failDeposit: what was read decides, and the writes are unconditional.
Fail(c) ==
  LET d == call[c].ref
  IN  /\ Acting(c, {"fail"})
      /\ deposit' = [deposit EXCEPT ![d] = IF call[c].deposit = "PENDING" THEN "FAILED" ELSE @]
      /\ txn' = [txn EXCEPT ![d] = IF call[c].tx = "pending" THEN "failed" ELSE @]
      /\ End(c)
      /\ UNCHANGED <<credits, charge, reported, sales, cuts>>

\* A failure NOWPayments reports changes only what is still pending.
FailPending(d) ==
  /\ deposit' = [deposit EXCEPT ![d] = IF @ = "PENDING" THEN "FAILED" ELSE @]
  /\ txn' = [txn EXCEPT ![d] = IF @ = "pending" THEN "failed" ELSE @]
  /\ sale' = [sale EXCEPT ![d] = IF @ = "pending" THEN "failed" ELSE @]

\* What the provider answers about a payment decides what is done.
Answer(c, d) ==
  \/ charge[d] = "paid" /\ Begin(c, "finalize", d)
  \/ /\ charge[d] = "refused" /\ FailPending(d)
     /\ UNCHANGED <<credits, charge, reported, feeTaken, call, cuts>>

\* It is asked when its webhook or a poll of the client names a transaction.
AskCrypto(c, d) ==
  /\ d \in Crypto /\ txn[d] # "none"
  /\ Answer(c, d)

\* Faulty: the job deletes deposits that are merely old.
CleanupOld(d) ==
  /\ d \notin {call[c].ref : c \in {x \in Calls : call[x] # Idle}}
  /\ deposit[d] \in {"PENDING", "FAILED"}
  /\ txn' = [txn EXCEPT ![d] = IF deposit[d] = "PENDING" THEN "none" ELSE @]
  /\ deposit' = [deposit EXCEPT ![d] = "none"]
  /\ UNCHANGED <<credits, charge, reported, sales, call, cuts>>

\* cleanupStaleFailedDeposits, ten minutes later: no handler is still at it.  A
\* transaction that has a sale cannot be deleted, and its deposit stays with it.
Cleanup(d) ==
  /\ d \notin {call[c].ref : c \in {x \in Calls : call[x] # Idle}}
  /\ \/ deposit[d] = "PENDING" /\ txn[d] = "failed" /\ ~Linked(d) /\ txn' = [txn EXCEPT ![d] = "none"]
     \/ deposit[d] = "FAILED" /\ UNCHANGED txn
  /\ deposit' = [deposit EXCEPT ![d] = "none"]
  /\ UNCHANGED <<credits, charge, reported, sales, call, cuts>>

\* The guest asks for the status of his payment, which completes a sale that was
\* credited without it.
PollSale(d) ==
  /\ Linked(d) /\ sale[d] # "completed" /\ txn[d] = "completed"
  /\ sale' = [sale EXCEPT ![d] = "completed"]
  /\ UNCHANGED <<rows, charge, reported, feeTaken, call, cuts>>

\* A handler ends early: a lookup or a write fails, or the process restarts.
Cut(c) ==
  /\ call[c] # Idle /\ cuts < MaxCuts
  /\ End(c)
  /\ cuts' = cuts + 1
  /\ UNCHANGED <<rows, charge, reported, sales>>

Step(c) == ReadTransaction(c) \/ Reconstruct(c) \/ Finalize(c) \/ Fail(c)

Next ==
  \/ \E d \in Deposits :
       \/ InitiateDeposit(d) \/ InitiateInvoice(d) \/ HandOut(d)
       \/ CreateDeposit(d) \/ AddTransaction(d) \/ CreateCrypto(d)
       \/ Open(d) \/ OpenCrypto(d) \/ OpenFails(d) \/ ProviderMoves(d) \/ Report(d)
       \/ Link(d) \/ PollSale(d) \/ Cleanup(d)
       \/ \E c \in Calls : BeginFinalize(c, d) \/ Sweep(c, d) \/ BeginFail(c, d) \/ AskCrypto(c, d)
  \/ \E c \in Calls : Step(c) \/ Cut(c)

Spec == Init /\ [][Next]_vars

Fairness ==
  /\ \A c \in Calls : WF_vars(Step(c))
  /\ \A d \in Deposits : SF_vars(\E c \in Calls : Sweep(c, d))

FairSpec == Spec /\ Fairness

----------------------------------------------------------------------------
(* Properties.                                                             *)

\* "Same reference processed twice -> NO double credit".
CreditedOnce == \A d \in Deposits : credits[d] <= 1

\* A user's deposit keeps that promise whatever handlers race, fail the deposit in
\* between, delete its row or put it back.  A merchant's sale is credited once with
\* the fee and at most once without it.
CreditedOncePerWay ==
  \A d \in Deposits :
    /\ credits[d] <= 2
    /\ credits[d] = 2 => sale[d] # "none" /\ d \in feeTaken

\* Nothing is credited that the provider did not collect.
CreditedIsPaid == \A d \in Deposits : credits[d] > 0 => charge[d] = "paid"

\* A deposit that reads SUCCESS, or a transaction that reads completed, has its
\* money in the wallet.
SuccessIsCredited ==
  \A d \in Deposits : deposit[d] = "SUCCESS" \/ txn[d] = "completed" => credits[d] > 0

\* "Transactions: pending -> completed", "Deposits: PENDING -> SUCCESS": and from
\* there nowhere.  What was credited keeps saying so.
CreditedStaysSuccess ==
  \A d \in Deposits : credits[d] > 0 => deposit[d] = "SUCCESS" /\ txn[d] = "completed"

\* A payment Paystack collects reaches the wallet, if the webhook is lost and if
\* handlers die, unless a failed attempt before it was already reported.
PaidIsCredited ==
  \A d \in Deposits \ Crypto :
    (charge[d] = "paid" /\ d \notin reported) ~> credits[d] > 0

\* A merchant's sale reads completed only with the payment in his wallet, and the
\* platform takes its fee with that credit or not at all.
SaleIsCredited ==
  \A d \in Deposits :
    /\ sale[d] = "completed" => credits[d] > 0
    /\ d \in feeTaken => sale[d] = "completed"

\* "Merchant QR sale received after 1% platform fee": not if the job, or a handler
\* that read the transaction before it was linked, was the one to credit it.
GuestFeeTaken == \A d \in Deposits : Linked(d) /\ credits[d] > 0 => d \in feeTaken

\* Whatever webhooks, polls, the job and its deletions interleave, a payment is
\* credited once (a sale once in each way), never unpaid, and rows and sales that
\* say so have their money.
DepositsInv ==
  TypeOK /\ CreditedOncePerWay /\ CreditedIsPaid /\ SuccessIsCredited /\ SaleIsCredited

=============================================================================
