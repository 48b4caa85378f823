------------------------------- MODULE Escrow -------------------------------
(***************************************************************************)
(* Escrow contracts between users, the wallets that fund them, and every   *)
(* actor that can move a contract: the buyer's and seller's requests, the  *)
(* auto-release job and the administrator who resolves disputes.           *)
(*                                                                         *)
(* A request handler reads the contract, awaits something slow (the PIN    *)
(* check, an attachment upload) and then runs one database transaction, so *)
(* a handler is two actions: Begin, which checks what it read, and Commit, *)
(* the transaction, which can only trust what it claims again.  Any number *)
(* of handlers, one per element of Calls, are in flight at the same time.  *)
(***************************************************************************)
EXTENDS Wallets

CONSTANTS
  Users,            \* owners of wallets
  Platform,         \* the super-admin user whose wallet collects the fees
  Escrows,          \* one element per funding request
  Buyer, Seller,    \* the parties each request names
  Amount,           \* the principal each request asks for
  MaxAmount,
  CreationFee,      \* fee charged on top of a principal when it is locked
  ReleaseFee,       \* fee taken out of an amount paid to the seller
  InitialBalance,
  Calls             \* request handlers that can be in flight at once

ASSUME EscrowAssumption ==
  /\ IsFiniteSet(Users) /\ IsFiniteSet(Escrows)
  /\ Platform \in Users
  /\ Buyer \in [Escrows -> Users] /\ Seller \in [Escrows -> Users]
  /\ \A e \in Escrows : Buyer[e] # Seller[e]
  /\ MaxAmount \in Nat
  /\ Amount \in [Escrows -> 1 .. MaxAmount]
  /\ InitialBalance \in [Users -> Nat]

\* A percentage fee is never more than the amount it is taken from.
ASSUME FeeAssumption ==
  /\ CreationFee \in [0 .. MaxAmount -> 0 .. MaxAmount]
  /\ ReleaseFee \in [0 .. MaxAmount -> 0 .. MaxAmount]
  /\ \A a \in 0 .. MaxAmount : ReleaseFee[a] <= a

VARIABLES
  wallet,     \* wallets rows by owner
  escrow,     \* escrow_contracts rows: status, released_amount, deadline passed
  ledger,     \* transactions rows of an escrow, summed by transaction_type
  call,       \* the handler in each slot, after its first read
  sweep       \* contracts the running auto-release job still has to release

vars == <<wallet, escrow, ledger, call, sweep>>

Statuses == {"none", "active", "disputed", "completed", "refunded"}
Terminal == {"completed", "refunded"}
Funded == {"active", "disputed"}

Contract == [status : Statuses, released : Nat, due : BOOLEAN]
Entries == [locked : Nat, released : Nat, refunded : Nat]

Idle == [op |-> "idle"]
Request(op, e, part) == [op |-> op, escrow |-> e, part |-> part]
Ops == {"create", "release", "partial", "dispute", "award", "refund"}

TypeOK ==
  /\ wallet \in [Users -> Row]
  /\ escrow \in [Escrows -> Contract]
  /\ ledger \in [Escrows -> Entries]
  /\ call \in [Calls -> {Idle} \cup
                        [op : Ops, escrow : Escrows, part : 0 .. MaxAmount]]
  /\ sweep \subseteq Escrows

Init ==
  /\ wallet = [u \in Users |-> [balance |-> InitialBalance[u], locked |-> 0]]
  /\ escrow = [e \in Escrows |->
                 [status |-> "none", released |-> 0, due |-> FALSE]]
  /\ ledger = [e \in Escrows |-> [locked |-> 0, released |-> 0, refunded |-> 0]]
  /\ call = [c \in Calls |-> Idle]
  /\ sweep = {}

----------------------------------------------------------------------------
(* Pieces the handlers share.                                              *)

\* Principal not yet paid out by milestone releases.
Remaining(e) == Amount[e] - escrow[e].released

Required(e) == Amount[e] + CreationFee[Amount[e]]

CanFund(e) == Available(wallet[Buyer[e]]) >= Required(e)

Start(c, op, e, part) ==
  /\ call[c] = Idle
  /\ call' = [call EXCEPT ![c] = Request(op, e, part)]
  /\ UNCHANGED <<wallet, escrow, ledger, sweep>>

Finish(c, op, e, part) ==
  /\ call[c] = Request(op, e, part)
  /\ call' = [call EXCEPT ![c] = Idle]
  /\ UNCHANGED sweep

\* Faulty: the seller is credited the whole amount, the platform the fee as well.
PaySellerWithoutFee(e, amount) ==
  wallet' = Credit(
              Credit(
                Debit(Free(wallet, Buyer[e], amount), Buyer[e], amount),
                Seller[e], amount),
              Platform, ReleaseFee[amount])

\* Locked principal leaves the buyer's wallet, less the fee to the seller's.
PaySeller(e, amount) ==
  wallet' = Credit(
              Credit(
                Debit(Free(wallet, Buyer[e], amount), Buyer[e], amount),
                Seller[e], amount - ReleaseFee[amount]),
              Platform, ReleaseFee[amount])

\* Faulty: the claim accepts any open contract, whatever status the caller saw.
ExecuteReleaseUnclaimed(e, from) ==
  /\ escrow[e].status \in Funded
  /\ escrow' = [escrow EXCEPT ![e].status = "completed"]
  /\ ledger' = [ledger EXCEPT ![e].released = @ + Remaining(e)]
  /\ PaySeller(e, Remaining(e))

\* The whole remaining principal goes to the seller.  Only a contract still in
\* status `from` is claimed; the claim locks the row until the commit.
ExecuteRelease(e, from) ==
  /\ escrow[e].status = from
  /\ escrow' = [escrow EXCEPT ![e].status = "completed"]
  /\ ledger' = [ledger EXCEPT ![e].released = @ + Remaining(e)]
  /\ PaySeller(e, Remaining(e))

\* Faulty: the whole principal is unlocked although milestones were paid from it.
ExecuteRefundWhole(e) ==
  /\ escrow[e].status = "disputed"
  /\ escrow' = [escrow EXCEPT ![e].status = "refunded"]
  /\ ledger' = [ledger EXCEPT ![e].refunded = @ + Remaining(e)]
  /\ wallet' = Free(wallet, Buyer[e], Amount[e])

\* Faulty: the refund is entered with the sign of a debit.
ExecuteRefundSigned(e) ==
  /\ escrow[e].status = "disputed"
  /\ escrow' = [escrow EXCEPT ![e].status = "refunded"]
  /\ ledger' = [ledger EXCEPT ![e].refunded = @ - Remaining(e)]
  /\ wallet' = Free(wallet, Buyer[e], Remaining(e))

\* The remaining principal is unlocked for the buyer; the creation fee is kept.
ExecuteRefund(e) ==
  /\ escrow[e].status = "disputed"
  /\ escrow' = [escrow EXCEPT ![e].status = "refunded"]
  /\ ledger' = [ledger EXCEPT ![e].refunded = @ + Remaining(e)]
  /\ wallet' = Free(wallet, Buyer[e], Remaining(e))

----------------------------------------------------------------------------
(* Requests of the parties.                                                *)

\* create: the balance check before the transaction.
BeginCreate(c, e) ==
  /\ escrow[e].status = "none"
  /\ CanFund(e)
  /\ Start(c, "create", e, 0)

\* Faulty: the transaction trusts the balance check made before it.
CommitCreateUnchecked(c, e) ==
  /\ escrow[e].status = "none"
  /\ Finish(c, "create", e, 0)
  /\ escrow' = [escrow EXCEPT ![e].status = "active"]
  /\ ledger' = [ledger EXCEPT ![e].locked = Amount[e]]
  /\ wallet' = Credit(
                 Hold(Debit(wallet, Buyer[e], CreationFee[Amount[e]]),
                      Buyer[e], Amount[e]),
                 Platform, CreationFee[Amount[e]])

\* create: the transaction, which reads the wallet again FOR UPDATE.
CommitCreate(c, e) ==
  /\ escrow[e].status = "none"
  /\ CanFund(e)
  /\ Finish(c, "create", e, 0)
  /\ escrow' = [escrow EXCEPT ![e].status = "active"]
  /\ ledger' = [ledger EXCEPT ![e].locked = Amount[e]]
  /\ wallet' = Credit(
                 Hold(Debit(wallet, Buyer[e], CreationFee[Amount[e]]),
                      Buyer[e], Amount[e]),
                 Platform, CreationFee[Amount[e]])

\* release: only an active contract gets as far as the PIN check.
BeginRelease(c, e) ==
  /\ escrow[e].status = "active"
  /\ Start(c, "release", e, 0)

CommitRelease(c, e) ==
  /\ Finish(c, "release", e, 0)
  /\ ExecuteRelease(e, "active")

\* releasePartial: one milestone of an active contract.
BeginPartial(c, e, part) ==
  /\ escrow[e].status = "active"
  /\ Start(c, "partial", e, part)

\* Faulty: the claim checks what has been released but not the status.
CommitPartialAnyStatus(c, e, part) ==
  /\ escrow[e].released + part <= Amount[e]
  /\ Finish(c, "partial", e, part)
  /\ escrow' = [escrow EXCEPT ![e].released = @ + part]
  /\ ledger' = [ledger EXCEPT ![e].released = @ + part]
  /\ PaySeller(e, part)

\* releasePartial: the UPDATE that claims the part, and the payment.
CommitPartial(c, e, part) ==
  /\ escrow[e].status = "active"
  /\ escrow[e].released + part <= Amount[e]
  /\ Finish(c, "partial", e, part)
  /\ escrow' = [escrow EXCEPT
                  ![e].released = @ + part,
                  ![e].status = IF escrow[e].released + part = Amount[e]
                                THEN "completed" ELSE @]
  /\ ledger' = [ledger EXCEPT ![e].released = @ + part]
  /\ PaySeller(e, part)

\* dispute: the attachment is uploaded between the read and the claim.
BeginDispute(c, e) ==
  /\ escrow[e].status = "active"
  /\ Start(c, "dispute", e, 0)

\* Faulty: the status read before the attachment upload is trusted.
CommitDisputeStale(c, e) ==
  /\ Finish(c, "dispute", e, 0)
  /\ escrow' = [escrow EXCEPT ![e].status = "disputed"]
  /\ UNCHANGED <<wallet, ledger>>

CommitDispute(c, e) ==
  /\ escrow[e].status = "active"
  /\ Finish(c, "dispute", e, 0)
  /\ escrow' = [escrow EXCEPT ![e].status = "disputed"]
  /\ UNCHANGED <<wallet, ledger>>

\* resolveDispute: the administrator names a winner of a disputed contract.
BeginResolve(c, e, decision) ==
  /\ escrow[e].status = "disputed"
  /\ Start(c, decision, e, 0)

CommitAward(c, e) ==
  /\ Finish(c, "award", e, 0)
  /\ ExecuteRelease(e, "disputed")

CommitRefund(c, e) ==
  /\ Finish(c, "refund", e, 0)
  /\ ExecuteRefund(e)

\* A request ends without effect: wrong PIN, failed upload, a claim that matched
\* no row, or a transaction that rolled back.
Fail(c) ==
  /\ call[c] # Idle
  /\ call' = [call EXCEPT ![c] = Idle]
  /\ UNCHANGED <<wallet, escrow, ledger, sweep>>

----------------------------------------------------------------------------
(* The auto-release job.                                                   *)

\* auto_release_at passes.
Deadline(e) ==
  /\ escrow[e].status # "none" /\ ~escrow[e].due
  /\ escrow' = [escrow EXCEPT ![e].due = TRUE]
  /\ UNCHANGED <<wallet, ledger, call, sweep>>

\* Faulty: contracts that have paid a milestone are not selected.
StartSweepUntouched ==
  /\ sweep = {}
  /\ sweep' = {e \in Escrows : /\ escrow[e].status = "active" /\ escrow[e].due
                              /\ escrow[e].released = 0}
  /\ sweep' # {}
  /\ UNCHANGED <<wallet, escrow, ledger, call>>

\* findMany: the active contracts whose deadline has passed.
StartSweep ==
  /\ sweep = {}
  /\ sweep' = {e \in Escrows : escrow[e].status = "active" /\ escrow[e].due}
  /\ sweep' # {}
  /\ UNCHANGED <<wallet, escrow, ledger, call>>

SweepRelease(e) ==
  /\ e \in sweep
  /\ sweep' = sweep \ {e}
  /\ ExecuteRelease(e, "active")
  /\ UNCHANGED call

\* The contract moved on since it was read: the error is logged.
SweepSkip(e) ==
  /\ e \in sweep
  /\ escrow[e].status # "active"
  /\ sweep' = sweep \ {e}
  /\ UNCHANGED <<wallet, escrow, ledger, call>>

\* The process restarts: handlers and the job are gone, the database stays.
Restart ==
  /\ sweep # {} \/ \E c \in Calls : call[c] # Idle
  /\ call' = [c \in Calls |-> Idle]
  /\ sweep' = {}
  /\ UNCHANGED <<wallet, escrow, ledger>>

----------------------------------------------------------------------------

Next ==
  \/ \E c \in Calls, e \in Escrows :
       \/ BeginCreate(c, e) \/ CommitCreate(c, e)
       \/ BeginRelease(c, e) \/ CommitRelease(c, e)
       \/ \E part \in 1 .. MaxAmount : BeginPartial(c, e, part) \/ CommitPartial(c, e, part)
       \/ BeginDispute(c, e) \/ CommitDispute(c, e)
       \/ \E decision \in {"award", "refund"} : BeginResolve(c, e, decision)
       \/ CommitAward(c, e) \/ CommitRefund(c, e)
  \/ \E c \in Calls : Fail(c)
  \/ \E e \in Escrows : Deadline(e) \/ SweepRelease(e) \/ SweepSkip(e)
  \/ StartSweep
  \/ Restart

Spec == Init /\ [][Next]_vars

\* The job repeats every 60 s and tries each contract it read.  A restart can
\* cut one run short, so that the job gets to every contract needs strong
\* fairness; requests and administrators need never act.
Fairness ==
  /\ WF_vars(StartSweep)
  /\ \A e \in Escrows : SF_vars(SweepRelease(e)) /\ WF_vars(SweepSkip(e))

FairSpec == Spec /\ Fairness

----------------------------------------------------------------------------
(* Properties.                                                             *)

\* No sequence of escrow operations overdraws a wallet: what is locked is never
\* negative and never more than the balance behind it.
Solvent ==
  \A u \in Users : 0 <= wallet[u].locked /\ wallet[u].locked <= wallet[u].balance

\* What a contract still holds of the buyer's locked balance.
Held(e) == IF escrow[e].status \in Funded THEN Remaining(e) ELSE 0

HeldFor(u) == [e \in Escrows |-> IF Buyer[e] = u THEN Held(e) ELSE 0]

\* Every user's locked balance is exactly what the open contracts they fund
\* still hold: no release, refund or milestone strands or double-frees funds.
LockBacked == \A u \in Users : wallet[u].locked = SumOver(HeldFor(u), Escrows)

\* The transactions written for a contract account for its principal: nothing
\* before funding, the milestones while it is open, all of it, once, at the end.
Settled ==
  \A e \in Escrows :
    LET l == ledger[e]
    IN  /\ escrow[e].status = "none" => l.locked = 0 /\ l.released = 0 /\ l.refunded = 0
        /\ escrow[e].status \in Funded => /\ l.locked = Amount[e]
                                          /\ l.released = escrow[e].released
                                          /\ l.released < Amount[e]
                                          /\ l.refunded = 0
        /\ escrow[e].status \in Terminal => l.released + l.refunded = l.locked
        /\ escrow[e].status = "completed" => l.refunded = 0

\* Escrow moves money between wallets and never creates or destroys it.
Conserved == Total(wallet) = SumOver(InitialBalance, Users)

\* A dispute freezes the contract: a release, milestone or auto-release begun
\* before it was raised changes nothing, only the administrator's decision does.
DisputeFreezes ==
  [][\A e \in Escrows :
       escrow[e].status = "disputed" /\ ledger'[e] # ledger[e]
         => \E c \in Calls, d \in {"award", "refund"} :
              call[c] = Request(d, e, 0) /\ call'[c] = Idle]_vars

\* Seen through their rows, the contracts do only what EscrowContracts promises.
Promised == INSTANCE EscrowContracts WITH
  Contracts <- Escrows,
  Principal <- Amount,
  status <- [e \in Escrows |-> escrow[e].status],
  paid <- [e \in Escrows |-> ledger[e].released],
  refunded <- [e \in Escrows |-> ledger[e].refunded]

ContractsKept == Promised!Spec

\* A contract past its deadline does not stay active for ever.
DueIsSettled ==
  \A e \in Escrows : (escrow[e].status = "active" /\ escrow[e].due)
                       ~> (escrow[e].status # "active")

=============================================================================
