---------------------------- MODULE Withdrawals -----------------------------
(***************************************************************************)
(* Withdrawals of a user's balance through a payout provider: Paystack for *)
(* bank and mobile money, NOWPayments for crypto.  Creating one reserves   *)
(* its amount; a background handler submits the payout; the provider's     *)
(* final word reaches the service by webhooks, by the status endpoint and  *)
(* by the reconciliation jobs, late, repeatedly or never; and what arrives *)
(* first debits the reserved balance or gives it back.                     *)
(*                                                                         *)
(* The providers are outside: a payout they accepted ends paid or failed,  *)
(* and a Paystack transfer that was paid can still be reversed.            *)
(***************************************************************************)
EXTENDS Wallets

CONSTANTS
  Users, Platform, InitialBalance,
  Withdrawals,      \* one element per request, named by its reference
  Owner, Amount, Fee,
  Crypto,           \* those paid through NOWPayments; the others use Paystack
  Legacy,           \* those the retired IvoryPay integration left processing
  ByHand,           \* those an administrator may close without asking a provider
  Calls             \* handlers that can be in flight at once

ASSUME WithdrawalAssumption ==
  /\ IsFiniteSet(Users) /\ IsFiniteSet(Withdrawals)
  /\ Platform \in Users
  /\ InitialBalance \in [Users -> Nat]
  /\ Owner \in [Withdrawals -> Users]
  /\ Amount \in [Withdrawals -> Nat \ {0}]
  /\ Fee \in [Withdrawals -> Nat]
  /\ \A w \in Withdrawals : Fee[w] <= Amount[w]
  /\ Crypto \subseteq Withdrawals
  /\ Legacy \subseteq Withdrawals \ Crypto
  /\ ByHand \subseteq Withdrawals
  \* What is left processing was reserved out of a balance that covered it.
  /\ \A u \in Users :
       SumOver([w \in Withdrawals |-> IF Owner[w] = u /\ w \in Legacy THEN Amount[w] ELSE 0],
               Withdrawals) <= InitialBalance[u]

VARIABLES
  wallet,
  row,        \* withdrawal rows, with what their transaction adds: its own
              \* status tx, payout_approval_status, whether the payout id is known
  payout,     \* the provider's side of each reference
  submitted,  \* payouts the provider was asked for and accepted, by reference
  queue,      \* processWithdrawal calls that setImmediate still has to run
  call,       \* the submission, or the late report, that each slot handles
  reports     \* final outcomes some part of the service has read and may act on

vars == <<wallet, row, payout, submitted, queue, call, reports>>

Open == {"PENDING", "PROCESSING"}
Statuses == {"NONE", "COMPLETED", "FAILED"} \cup Open
Final == {"paid", "failed", "reversed"}

Idle == [at |-> "idle"]

TypeOK ==
  /\ wallet \in [Users -> Row]
  /\ row \in [Withdrawals ->
                [status : Statuses, tx : {"open", "completed", "failed"},
                 approval : {"pending", "approved"}, known : BOOLEAN]]
  /\ payout \in [Withdrawals -> {"none", "pending"} \cup Final]
  /\ submitted \in [Withdrawals -> Nat]
  /\ queue \subseteq Withdrawals \ Crypto
  /\ call \in [Calls -> {Idle} \cup
                 [at : {"claim", "initiate", "note", "refund", "unknown"},
                  ref : Withdrawals, known : BOOLEAN]
              \cup [at : {"late"}, ref : Legacy]
              \cup [at : {"release"}, ref : Legacy, unlock : Int]]
  /\ reports \subseteq Withdrawals \X Final

\* What u has reserved for the open withdrawals of rows.
Reserved(rows, u) ==
  SumOver([w \in Withdrawals |->
             IF Owner[w] = u /\ rows[w].status \in Open THEN Amount[w] ELSE 0],
          Withdrawals)

\* A withdrawal that was rejected before is over; a legacy one is not, but for that.
InitAfter(rejected) ==
  /\ row = [w \in Withdrawals |->
              [status |-> IF w \in rejected THEN "FAILED"
                          ELSE IF w \in Legacy THEN "PROCESSING" ELSE "NONE",
               tx |-> IF w \in rejected THEN "failed" ELSE "open",
               approval |-> "pending", known |-> FALSE]]
  /\ wallet = [u \in Users |->
                 [balance |-> InitialBalance[u], locked |-> Reserved(row, u)]]
  /\ payout = [w \in Withdrawals |->
                 CASE w \notin Legacy -> "none"
                   [] w \in rejected -> "failed"
                   [] OTHER -> "pending"]
  /\ submitted = [w \in Withdrawals |-> 0]
  /\ queue = {}
  /\ call = [c \in Calls |-> Idle]
  /\ reports = {}

Init == InitAfter({})

service == <<wallet, row, queue, call, reports>>
provider == <<payout, submitted>>

----------------------------------------------------------------------------
(* Reserving, debiting and giving back.                                    *)

\* locked_balance is reduced to zero at the least.
Unlock(rows, u, amount) ==
  Free(rows, u, IF rows[u].locked < amount THEN rows[u].locked ELSE amount)

\* Faulty: what other withdrawals have reserved is forgotten.
ReserveUnchecked(w) ==
  /\ row[w].status = "NONE"
  /\ wallet[Owner[w]].balance >= Amount[w]
  /\ wallet' = Hold(wallet, Owner[w], Amount[w])
  /\ row' = [row EXCEPT ![w].status = "PENDING"]

\* lockFundsInTx checks and reserves with one UPDATE, in the transaction that
\* writes the rows.
Reserve(w) ==
  /\ row[w].status = "NONE"
  /\ Available(wallet[Owner[w]]) >= Amount[w]
  /\ wallet' = Hold(wallet, Owner[w], Amount[w])
  /\ row' = [row EXCEPT ![w].status = "PENDING"]

\* createWithdrawal leaves the rest to a setImmediate,
CreateWithdrawal(w) ==
  /\ w \notin Crypto /\ Reserve(w)
  /\ queue' = queue \cup {w}
  /\ UNCHANGED <<provider, call, reports>>

\* and a crypto withdrawal waits to be approved.
CreateCryptoWithdrawal(w) ==
  /\ w \in Crypto /\ Reserve(w)
  /\ UNCHANGED <<provider, queue, call, reports>>

\* creditPlatformFeeInTx.
CreditPlatformFee(rows, w) == Credit(rows, Platform, Fee[w])

\* The writes of a completion.
Complete(w) ==
  /\ row' = [row EXCEPT ![w].status = "COMPLETED", ![w].tx = "completed"]
  /\ wallet' = CreditPlatformFee(
                 Unlock(Debit(wallet, Owner[w], Amount[w]), Owner[w], Amount[w]), w)

\* markAsSuccess: the claim, the guarded debit and the fee, in one transaction.
MarkAsSuccess(w) ==
  /\ row[w].status \in Open
  /\ wallet[Owner[w]].balance >= Amount[w]
  /\ Complete(w)

\* rejectWithdrawal: the claim and the release of the reservation.
Reject(w) ==
  /\ row[w].status \in Open
  /\ row' = [row EXCEPT ![w].status = "FAILED", ![w].tx = "failed"]
  /\ wallet' = Unlock(wallet, Owner[w], Amount[w])

----------------------------------------------------------------------------
(* Submitting the payout: processWithdrawal and submitNowpaymentsPayout.   *)

\* Run by setImmediate; a crypto withdrawal that was never approved is also
\* found by the reconciler and by an administrator.
BeginSubmit(c, w) ==
  /\ call[c] = Idle
  /\ row[w].status = "PENDING"
  /\ IF w \in Crypto THEN row[w].approval = "pending" /\ ~row[w].known ELSE w \in queue
  /\ call' = [call EXCEPT ![c] = [at |-> "claim", ref |-> w, known |-> row[w].known]]
  /\ queue' = queue \ {w}
  /\ UNCHANGED <<wallet, row, provider, reports>>

Go(c, from, to) == call[c].at = from /\ call' = [call EXCEPT ![c].at = to]
End(c, from) == call[c].at = from /\ call' = [call EXCEPT ![c] = Idle]

\* Faulty: the claim does not require the withdrawal to be PENDING.
ClaimUnguarded(c) ==
  LET w == call[c].ref
  IN  /\ Go(c, "claim", "initiate")
      /\ row' = [row EXCEPT ![w].status = "PROCESSING",
                            ![w].approval = IF w \in Crypto THEN "approved" ELSE @]
      /\ UNCHANGED <<wallet, provider, queue, reports>>

\* The withdrawal is moved to PROCESSING, by one handler only.
Claim(c) ==
  LET w == call[c].ref
  IN  /\ Go(c, "claim", "initiate")
      /\ row[w].status = "PENDING"
      /\ row' = [row EXCEPT ![w].status = "PROCESSING",
                            ![w].approval = IF w \in Crypto THEN "approved" ELSE @]
      /\ UNCHANGED <<wallet, provider, queue, reports>>

ClaimLost(c) ==
  /\ End(c, "claim")
  /\ row[call[c].ref].status # "PENDING"
  /\ UNCHANGED <<wallet, row, provider, queue, reports>>

\* The provider opens a payout.  Paystack refuses a reference it has seen.
Accept(w) ==
  /\ w \in Crypto \/ payout[w] = "none"
  /\ payout' = [payout EXCEPT ![w] = "pending"]
  /\ submitted' = [submitted EXCEPT ![w] = @ + 1]

Initiate(c) ==
  /\ Go(c, "initiate", "note")
  /\ Accept(call[c].ref)
  /\ UNCHANGED <<wallet, row, queue, reports>>

\* Paystack or the recipient check refuses: nothing was sent.
InitiateRefused(c) ==
  /\ Go(c, "initiate", "refund")
  /\ call[c].ref \notin Crypto
  /\ UNCHANGED <<wallet, row, provider, queue, reports>>

\* No answer, or a server error: the provider may have accepted or not.  The
\* funds stay reserved; a crypto handler goes on to note it in the metadata.
InitiateUnknown(c) ==
  LET w == call[c].ref
  IN  /\ call[c].at = "initiate"
      /\ IF w \in Crypto
         THEN call' = [call EXCEPT ![c].at = "unknown", ![c].known = row[w].known]
         ELSE End(c, "initiate")
      /\ Accept(w) \/ UNCHANGED provider
      /\ UNCHANGED <<wallet, row, queue, reports>>

\* The catch block writes the metadata it read back, with status unknown.
NoteUnknown(c) ==
  /\ End(c, "unknown")
  /\ row' = [row EXCEPT ![call[c].ref].known = call[c].known]
  /\ UNCHANGED <<wallet, provider, queue, reports>>

\* The answer is written to the metadata; recordPayoutCreated keeps the id.
Note(c) ==
  /\ End(c, "note")
  /\ row' = [row EXCEPT ![call[c].ref].known = call[c].ref \in Crypto]
  /\ UNCHANGED <<wallet, provider, queue, reports>>

\* The catch block of processWithdrawal refunds.
Refund(c) ==
  /\ End(c, "refund")
  /\ IF row[call[c].ref].status \in Open
     THEN Reject(call[c].ref) ELSE UNCHANGED <<wallet, row>>
  /\ UNCHANGED <<provider, queue, reports>>

----------------------------------------------------------------------------
(* Learning the outcome.                                                   *)

\* External: the provider finishes a payout; a paid transfer can be reversed.
ProviderMoves(w) ==
  /\ \/ payout[w] = "pending" /\ \E end \in {"paid", "failed"} : payout' = [payout EXCEPT ![w] = end]
     \/ payout[w] = "paid" /\ w \notin Crypto \cup Legacy
        /\ payout' = [payout EXCEPT ![w] = "reversed"]
  /\ UNCHANGED <<submitted, service>>

\* Faulty: only withdrawals that are still PENDING are looked up.
LookupPending(w) ==
  /\ w \in Crypto /\ row[w].status = "PENDING"
  /\ row[w].approval = "approved" /\ ~row[w].known
  /\ payout[w] # "none"
  /\ row' = [row EXCEPT ![w].known = TRUE]
  /\ UNCHANGED <<wallet, provider, queue, call, reports>>

\* The reconciler, or an administrator's retry, finds an approved payout whose
\* id was never recorded by its external id; it is not submitted again.
Lookup(w) ==
  /\ w \in Crypto /\ row[w].status \in Open
  /\ row[w].approval = "approved" /\ ~row[w].known
  /\ payout[w] # "none"
  /\ row' = [row EXCEPT ![w].known = TRUE]
  /\ UNCHANGED <<wallet, provider, queue, call, reports>>

\* A webhook, the status endpoint or a job reads the outcome.  A crypto payout
\* is matched by the recorded id, a transfer by its reference.  IvoryPay's word
\* that it paid a legacy one is looked for among the deposits, and comes to nothing.
Observe(w) ==
  /\ payout[w] \in Final
  /\ w \in Legacy => payout[w] = "failed"
  /\ w \in Crypto => row[w].known
  /\ <<w, payout[w]>> \notin reports
  /\ reports' = reports \cup {<<w, payout[w]>>}
  /\ UNCHANGED <<wallet, row, provider, queue, call>>

\* Whoever read an outcome acts on it, later and more than once.
Settle(w, outcome) ==
  /\ <<w, outcome>> \in reports
  /\ IF outcome = "paid" THEN MarkAsSuccess(w) ELSE Reject(w)
  /\ UNCHANGED <<provider, queue, call, reports>>

\* A legacy payout is reported failed after an administrator closed it as paid:
\* finalizeWithdrawal goes on to the row of its transaction, which is completed.
LateReport(c, w) ==
  /\ call[c] = Idle
  /\ w \in Legacy /\ <<w, "failed">> \in reports
  /\ row[w].status = "COMPLETED" /\ row[w].tx # "failed"
  /\ call' = [call EXCEPT ![c] = [at |-> "late", ref |-> w]]
  /\ UNCHANGED <<wallet, row, provider, queue, reports>>

\* failTransactionWithdrawal reads the wallet, outside any transaction, to give
\* back what is reserved or what is left of it,
ReadLocked(c) ==
  LET w == call[c].ref
      locked == wallet[Owner[w]].locked
  IN  /\ call[c].at = "late"
      /\ call' = [call EXCEPT ![c] =
                    [at |-> "release", ref |-> w,
                     unlock |-> IF locked < Amount[w] THEN locked ELSE Amount[w]]]
      /\ UNCHANGED <<wallet, row, provider, queue, reports>>

\* and takes that off later, whatever became of the lock and of the transaction.
FailTransaction(c) ==
  LET w == call[c].ref
  IN  /\ End(c, "release")
      /\ wallet' = Free(wallet, Owner[w], call[c].unlock)
      /\ row' = [row EXCEPT ![w].tx = "failed"]
      /\ UNCHANGED <<provider, queue, reports>>

\* adminApproveWithdrawal and adminRejectWithdrawal: whatever the provider does.
CloseByHand(w) ==
  /\ w \in ByHand
  /\ MarkAsSuccess(w) \/ Reject(w)
  /\ UNCHANGED <<provider, queue, call, reports>>

\* The process restarts: everything in memory is gone.
Restart ==
  /\ queue # {} \/ reports # {} \/ \E c \in Calls : call[c] # Idle
  /\ queue' = {} /\ reports' = {}
  /\ call' = [c \in Calls |-> Idle]
  /\ UNCHANGED <<wallet, row, provider>>

Next ==
  \/ \E w \in Withdrawals :
       \/ CreateWithdrawal(w) \/ CreateCryptoWithdrawal(w) \/ ProviderMoves(w)
       \/ Lookup(w) \/ Observe(w) \/ CloseByHand(w)
       \/ \E outcome \in Final : Settle(w, outcome)
  \/ \E c \in Calls :
       \/ \E w \in Withdrawals : BeginSubmit(c, w) \/ LateReport(c, w)
       \/ Claim(c) \/ ClaimLost(c)
       \/ Initiate(c) \/ InitiateRefused(c) \/ InitiateUnknown(c)
       \/ NoteUnknown(c) \/ Note(c) \/ Refund(c)
       \/ ReadLocked(c) \/ FailTransaction(c)
  \/ Restart

Spec == Init /\ [][Next]_vars

\* The reconciliation jobs run every minute and every five; each run looks up and
\* reads what it finds open and acts on it, unless a restart cuts it short.
Fairness ==
  \A w \in Withdrawals :
    /\ SF_vars(Lookup(w)) /\ SF_vars(Observe(w))
    /\ \A outcome \in Final : SF_vars(Settle(w, outcome))

FairSpec == Spec /\ Fairness

\* The write of the metadata that follows an accepted transfer fails: the catch
\* block of processWithdrawal takes it for a failed transfer.
LateFailure(c) ==
  /\ Go(c, "note", "refund")
  /\ call[c].ref \notin Crypto
  /\ UNCHANGED <<wallet, row, provider, queue, reports>>

FaultySpec == Init /\ [][Next \/ \E c \in Calls : LateFailure(c)]_vars

----------------------------------------------------------------------------
(* Properties.                                                             *)

\* A payout of u that an administrator closed as paid was reported failed.
ReleasedLate(u) ==
  \E w \in Legacy : Owner[w] = u /\ row[w].status = "COMPLETED" /\ row[w].tx = "failed"

\* No wallet is overdrawn, and the reservations in one are exactly its open
\* withdrawals, so that the guarded debit of a paid one cannot fail, nor the clamp
\* hide a missing lock.  A late report on a legacy payout breaks it for its owner:
\* what it takes off, computed before, may be the lock of another withdrawal, or
\* no longer there.
ReservationsBacked ==
  \A u \in Users :
    /\ wallet[u].balance >= 0
    /\ ~ReleasedLate(u) =>
         /\ wallet[u].locked = Reserved(row, u)
         /\ wallet[u].locked <= wallet[u].balance

\* Every amount leaves the wallets once, when its withdrawal completes, its fee
\* to the platform; duplicates and late reports move nothing.
Accounted ==
  Total(wallet) + SumOver([w \in Withdrawals |->
                             IF row[w].status = "COMPLETED" THEN Amount[w] - Fee[w] ELSE 0],
                          Withdrawals)
    = SumOver(InitialBalance, Users)

\* Concurrent submissions, retries after an unknown outcome and restarts never
\* make the provider pay a withdrawal twice.
SubmittedOnce == \A w \in Withdrawals : submitted[w] <= 1

\* "Payouts debit the reserved balance only after provider confirmation", unless
\* an administrator takes it on himself.
DebitedIsPaid ==
  \A w \in Withdrawals \ ByHand :
    row[w].status = "COMPLETED" => payout[w] \in {"paid", "reversed"}

\* A withdrawal the provider pays, or may still pay, is not refunded, except by
\* hand.
PaidIsNotRefunded ==
  \A w \in Withdrawals \ ByHand :
    row[w].status = "FAILED" => payout[w] \notin {"pending", "paid"}

\* "A missed IPN can never strand funds": once the provider is done, the
\* withdrawal is closed, even if no webhook arrives and whatever was recorded.
OutcomeReachesUser ==
  \A w \in Withdrawals : payout[w] \in Final ~> row[w].status \notin Open

\* The user's money: reservations and open withdrawals agree, and each ends as one
\* debit or as none, through retries, late outcomes and administrators.
FundsInv == TypeOK /\ ReservationsBacked /\ Accounted

\* The provider's side: a withdrawal is submitted once, debited only when it is paid
\* and given back only when it is not.
PayoutsInv == SubmittedOnce /\ DebitedIsPaid /\ PaidIsNotRefunded

=============================================================================
