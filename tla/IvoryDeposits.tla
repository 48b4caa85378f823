---------------------------- MODULE IvoryDeposits ----------------------------
(***************************************************************************)
(* Deposits collected in crypto by IvoryPay.  Three services settle one,   *)
(* each in its own way: IvorypayDepositService when its webhook is called  *)
(* or the user asks, WebhookService when the general webhook is processed, *)
(* and the fixStuckDeposits job.  They share no lock, only the two rows.   *)
(*                                                                         *)
(* IvoryPay is outside.  It reports what happened to a payment as often    *)
(* and as late as it likes.                                                *)
(***************************************************************************)
EXTENDS Naturals, FiniteSets

CONSTANTS
  Ivories,   \* one element per deposit, named by its reference
  Revived,   \* those whose payment may still arrive after it was given up
  Settlers,  \* handlers that can be in flight at once
  MaxEntries \* bound: credits of one deposit

ASSUME IvoryAssumption ==
  IsFiniteSet(Ivories) /\ Revived \subseteq Ivories /\ MaxEntries \in Nat

VARIABLES
  recorded,  \* the status of the deposit's row and of its transaction's
  payment,   \* the payment at IvoryPay
  told,      \* the outcomes IvoryPay has had to report
  entries,   \* ledger entries of the deposit, one for each wallet credit
  settler    \* the handler in each slot, with the rows it has read

ivoryVars == <<recorded, payment, told, entries, settler>>

Resting == [at |-> "rest"]

\* isIvorypayFailureEvent and isIvorypaySuccessEvent: what an event or an answer
\* can say; anything else is not acted on.
Outcomes == {"failed", "paid"}

IvoryRows ==
  [deposit : {"none", "PENDING", "SUCCESS", "FAILED"},
   txn : {"none", "pending", "completed", "failed"}]

IvoryTypeOK ==
  /\ recorded \in [Ivories -> IvoryRows]
  /\ payment \in [Ivories -> {"none", "open", "failed", "paid"}]
  /\ told \in [Ivories -> SUBSET Outcomes]
  /\ entries \in [Ivories -> 0 .. MaxEntries]
  /\ settler \in [Settlers -> {Resting} \cup
       [at : {"deposit", "txn", "act", "claim", "finish"}, by : {"service", "webhook", "job"},
        outcome : Outcomes, ref : Ivories, seen : IvoryRows]]

InitIvory ==
  /\ recorded = [d \in Ivories |-> [deposit |-> "none", txn |-> "none"]]
  /\ payment = [d \in Ivories |-> "none"]
  /\ told = [d \in Ivories |-> {}]
  /\ entries = [d \in Ivories |-> 0]
  /\ settler = [s \in Settlers |-> Resting]

----------------------------------------------------------------------------
(* The deposit and its payment.                                            *)

\* createDeposit writes the deposit's row before it asks IvoryPay,
AskIvory(d) ==
  /\ recorded[d].deposit = "none" /\ payment[d] = "none"
  /\ recorded' = [recorded EXCEPT ![d].deposit = "PENDING"]
  /\ UNCHANGED <<payment, told, entries, settler>>

\* which may refuse,
IvoryRefuses(d) ==
  /\ recorded[d].deposit = "PENDING" /\ payment[d] = "none"
  /\ recorded' = [recorded EXCEPT ![d].deposit = "FAILED"]
  /\ UNCHANGED <<payment, told, entries, settler>>

\* and the transaction's row before it hands out the link.
IvoryOpens(d) ==
  /\ recorded[d].deposit = "PENDING" /\ payment[d] = "none"
  /\ recorded' = [recorded EXCEPT ![d].txn = "pending"]
  /\ payment' = [payment EXCEPT ![d] = "open"]
  /\ UNCHANGED <<told, entries, settler>>

\* External: the payment arrives or is given up, and IvoryPay says so.
PaymentMoves(d) ==
  /\ \/ payment[d] = "open"
     \/ payment[d] = "failed" /\ d \in Revived
  /\ \E outcome \in Outcomes \ {payment[d]} :
       /\ payment' = [payment EXCEPT ![d] = outcome]
       /\ told' = [told EXCEPT ![d] = @ \cup {outcome}]
  /\ UNCHANGED <<recorded, entries, settler>>

----------------------------------------------------------------------------
(* A handler starts, and reads the two rows, one after the other.         *)

\* The reference, or one of the provider's identifiers, names the deposit.
Start(s, by, outcome, d) ==
  /\ settler[s] = Resting
  /\ settler' = [settler EXCEPT ![s] =
                   [at |-> "deposit", by |-> by, outcome |-> outcome, ref |-> d,
                    seen |-> [deposit |-> "none", txn |-> "none"]]]
  /\ UNCHANGED <<recorded, payment, told, entries>>

\* verifyDeposit: the user asks about a pending deposit, and IvoryPay is asked.
Ask(s, d) ==
  /\ recorded[d].deposit = "PENDING" /\ recorded[d].txn # "none"
  /\ payment[d] \in Outcomes
  /\ Start(s, "service", payment[d], d)

\* The webhook of IvorypayDepositService.
Notice(s, d) ==
  \E outcome \in told[d] : Start(s, "service", outcome, d)

\* The general webhook, one at a time for a reference.
Hook(s, d) ==
  /\ \A x \in Settlers :
       settler[x] # Resting => ~(settler[x].by = "webhook" /\ settler[x].ref = d)
  /\ \E outcome \in told[d] : Start(s, "webhook", outcome, d)

\* fixStuckDeposits asks IvoryPay about a pending transaction.
Fix(s, d) ==
  /\ recorded[d].txn = "pending" /\ payment[d] \in Outcomes
  /\ Start(s, "job", payment[d], d)

SettlerAt(s, place) == settler[s] # Resting /\ settler[s].at = place

ReadDeposit(s) ==
  /\ SettlerAt(s, "deposit")
  /\ settler' = [settler EXCEPT ![s].at = "txn",
                                ![s].seen.deposit = recorded[settler[s].ref].deposit]
  /\ UNCHANGED <<recorded, payment, told, entries>>

ReadTxn(s) ==
  /\ SettlerAt(s, "txn")
  /\ settler' = [settler EXCEPT ![s].at = "act",
                                ![s].seen.txn = recorded[settler[s].ref].txn]
  /\ UNCHANGED <<recorded, payment, told, entries>>

Acts(s, services, outcome) ==
  SettlerAt(s, "act") /\ settler[s].by \in services /\ settler[s].outcome = outcome

Rests(s) == settler' = [settler EXCEPT ![s] = Resting]

Leave(s) == Rests(s) /\ UNCHANGED <<recorded, payment, told, entries>>

\* A wallet credit with its ledger entry and both rows, in one transaction.
Settle(s, d) ==
  /\ entries[d] < MaxEntries
  /\ entries' = [entries EXCEPT ![d] = @ + 1]
  /\ recorded' = [recorded EXCEPT ![d] = [deposit |-> "SUCCESS", txn |-> "completed"]]
  /\ Rests(s) /\ UNCHANGED <<payment, told>>

----------------------------------------------------------------------------
(* IvorypayDepositService.handleWebhook.                                   *)

\* It is over when it read that the deposit was settled, or no rows.
Duplicate(s) ==
  /\ SettlerAt(s, "act") /\ settler[s].by = "service"
  /\ \/ settler[s].seen.deposit \in {"none", "SUCCESS"}
     \/ settler[s].seen.txn \in {"none", "completed"}
  /\ Leave(s)

Fresh(s) ==
  settler[s].seen.deposit \in {"PENDING", "FAILED"} /\ settler[s].seen.txn \in {"pending", "failed"}

\* A failure is written over whatever the row says by now,
FailDeposit(s) ==
  LET d == settler[s].ref
  IN  /\ Acts(s, {"service"}, "failed") /\ Fresh(s) /\ recorded[d].deposit # "none"
      /\ recorded' = [recorded EXCEPT ![d].deposit = "FAILED"]
      /\ settler' = [settler EXCEPT ![s].at = "finish"]
      /\ UNCHANGED <<payment, told, entries>>

\* and then the other row, if the process lives.
FailTxn(s) ==
  LET d == settler[s].ref
  IN  /\ SettlerAt(s, "finish")
      /\ recorded' = [recorded EXCEPT ![d].txn = IF @ = "none" THEN @ ELSE "failed"]
      /\ Rests(s) /\ UNCHANGED <<payment, told, entries>>

\* Faulty: the claim is not looked at.
CreditUnclaimed(s) ==
  LET d == settler[s].ref
  IN  /\ Acts(s, {"service"}, "paid") /\ Fresh(s)
      /\ payment[d] = "paid" /\ recorded[d].txn # "none"
      /\ Settle(s, d)

\* A success IvoryPay confirms is credited, if the deposit is pending still.
CreditClaimed(s) ==
  LET d == settler[s].ref
  IN  /\ Acts(s, {"service"}, "paid") /\ Fresh(s)
      /\ payment[d] = "paid" /\ recorded[d].deposit = "PENDING" /\ recorded[d].txn # "none"
      /\ Settle(s, d)

----------------------------------------------------------------------------
(* WebhookService: finalizeDeposit for a success, failDeposit for a        *)
(* failure.  The first is called even when IvoryPay does not answer.       *)

\* A payment IvoryPay confirms has its identifiers saved and its amount compared
\* before.
Finalizing(s) == Acts(s, {"webhook", "job"}, "paid")

Saw(s, deposit, txn) ==
  settler[s].seen.deposit = deposit /\ settler[s].seen.txn = txn

\* A missing deposit is put back before the transaction's status is looked at.
PutBack(s) ==
  LET d == settler[s].ref
  IN  /\ Finalizing(s) /\ settler[s].seen.deposit = "none" /\ settler[s].seen.txn # "none"
      /\ recorded[d].deposit = "none"
      /\ recorded' = [recorded EXCEPT ![d].deposit = "PENDING"]
      /\ settler' = [settler EXCEPT ![s].seen.deposit = "PENDING"]
      /\ UNCHANGED <<payment, told, entries>>

\* finalizePendingDepositWithTransaction: both were pending; one handler claims.
\* (completePendingTransaction is for a deposit that was credited while its
\* transaction stayed pending: a credit writes both, so there is none.)
CreditBoth(s) ==
  LET d == settler[s].ref
  IN  /\ Finalizing(s) /\ Saw(s, "PENDING", "pending")
      /\ recorded[d].deposit = "PENDING" /\ recorded[d].txn # "none"
      /\ Settle(s, d)

\* creditPendingTransactionDeposit reads the transaction again,
ReadAgain(s) ==
  /\ Finalizing(s) /\ Saw(s, "FAILED", "pending") /\ recorded[settler[s].ref].txn = "pending"
  /\ settler' = [settler EXCEPT ![s].at = "claim"]
  /\ UNCHANGED <<recorded, payment, told, entries>>

\* and claims it unless it has been completed since.
CreditTransaction(s) ==
  LET d == settler[s].ref
  IN  /\ SettlerAt(s, "claim") /\ recorded[d].txn \notin {"none", "completed"}
      /\ entries[d] < MaxEntries
      /\ entries' = [entries EXCEPT ![d] = @ + 1]
      /\ recorded' = [recorded EXCEPT ![d].txn = "completed"]
      /\ Rests(s) /\ UNCHANGED <<payment, told>>

\* failDeposit: what was read decides, and both rows are written at once.
FailBoth(s) ==
  LET d == settler[s].ref
  IN  /\ Acts(s, {"webhook", "job"}, "failed")
      /\ recorded' = [recorded EXCEPT
                    ![d].deposit = IF settler[s].seen.deposit = "PENDING" THEN "FAILED" ELSE @,
                    ![d].txn = IF settler[s].seen.txn = "pending" THEN "failed" ELSE @]
      /\ Rests(s) /\ UNCHANGED <<payment, told, entries>>

\* Nothing to do, a claim that is lost, a write that fails or a restart: the
\* handler ends where it is.
GiveUp(s) == settler[s] # Resting /\ Leave(s)

\* cleanupStaleFailedDeposits, ten minutes later: no handler is still at it.
CleanUp(d) ==
  /\ \A s \in Settlers : settler[s] # Resting => settler[s].ref # d
  /\ \/ recorded[d].deposit = "PENDING" /\ recorded[d].txn = "failed"
        /\ recorded' = [recorded EXCEPT ![d] = [deposit |-> "none", txn |-> "none"]]
     \/ recorded[d].deposit = "FAILED" /\ recorded' = [recorded EXCEPT ![d].deposit = "none"]
  /\ UNCHANGED <<payment, told, entries, settler>>

NextIvory ==
  \/ \E d \in Ivories :
       \/ AskIvory(d) \/ IvoryRefuses(d) \/ IvoryOpens(d) \/ PaymentMoves(d) \/ CleanUp(d)
       \/ \E s \in Settlers : Ask(s, d) \/ Notice(s, d) \/ Hook(s, d) \/ Fix(s, d)
  \/ \E s \in Settlers :
       \/ ReadDeposit(s) \/ ReadTxn(s) \/ Duplicate(s)
       \/ FailDeposit(s) \/ FailTxn(s) \/ CreditClaimed(s)
       \/ PutBack(s) \/ CreditBoth(s)
       \/ ReadAgain(s) \/ CreditTransaction(s)
       \/ FailBoth(s) \/ GiveUp(s)

----------------------------------------------------------------------------
(* Properties.                                                             *)

\* However the three services interleave, a payment enters the ledger once.  That
\* is not so when IvoryPay reports a failure first and the money arrives later.
EnteredOnce == \A d \in Ivories : told[d] # Outcomes => entries[d] <= 1

\* Nothing is credited that IvoryPay has not collected, also by the webhook that
\* credits without its confirmation.
EnteredIsPaid == \A d \in Ivories : entries[d] > 0 => payment[d] = "paid"

\* A row that says the money arrived is right.
SettledIsEntered ==
  \A d \in Ivories :
    recorded[d].deposit = "SUCCESS" \/ recorded[d].txn = "completed" => entries[d] > 0

\* Three services settle a crypto deposit, a job deletes what failed and another
\* puts it back: no payment is credited twice, credited without having arrived or
\* reported as settled without being credited.
IvoryDepositsInv == IvoryTypeOK /\ EnteredOnce /\ EnteredIsPaid /\ SettledIsEntered

=============================================================================
