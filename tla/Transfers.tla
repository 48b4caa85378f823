----------------------------- MODULE Transfers ------------------------------
(***************************************************************************)
(* Money sent between users: transfers with an Idempotency-Key, and the    *)
(* transfer and payment requests that a payer accepts.  The two kinds of   *)
(* request have the same life cycle and are one set here.                  *)
(*                                                                         *)
(* A payment runs in one READ COMMITTED transaction that reads wallet and  *)
(* request without locking them and later writes both by id, so a handler  *)
(* is two actions: Begin, with its reads and checks, and Commit.           *)
(***************************************************************************)
EXTENDS Wallets

CONSTANTS
  Users, Platform, InitialBalance,
  Transfers,        \* payments users mean to make once: one key for each
  Requests,         \* rows of transfer_requests and payment_requests
  From, To, Amount, \* of each payment
  Fee,              \* charged to the payer on top
  MerchantFee,      \* of a transfer to a merchant: taken from what is received
  Repeats,          \* bound: a transfer made this often is not retried
  Calls             \* handlers that can be in flight at once

Payments == Transfers \cup Requests

ASSUME TransferAssumption ==
  /\ IsFiniteSet(Users) /\ Platform \in Users
  /\ InitialBalance \in [Users -> Nat]
  /\ IsFiniteSet(Payments) /\ Transfers \cap Requests = {}
  /\ From \in [Payments -> Users] /\ To \in [Payments -> Users]
  /\ \A p \in Payments : From[p] # To[p]
  /\ Amount \in [Payments -> Nat \ {0}]
  /\ Fee \in [Payments -> Nat]
  /\ MerchantFee \in [Transfers -> Nat]
  /\ \A t \in Transfers : MerchantFee[t] <= Amount[t]
  /\ Repeats \in Nat

VARIABLES
  wallet,
  request,      \* status and whether expires_at has passed
  transactions, \* completed transactions of each payment
  recent,       \* transfers made less than a minute ago
  key,          \* idempotency keys held in Redis
  unanswered,   \* transfers whose user has not seen a success
  call,         \* the handler in each slot; open: its client still listens
  sweep         \* requests the expiry job read and has still to mark

vars == <<wallet, request, transactions, recent, key, unanswered, call, sweep>>

Statuses == {"none", "pending", "completed", "rejected", "cancelled", "expired"}

Idle == [op |-> "idle"]
Handler(op, p) == [op |-> op, id |-> p, open |-> TRUE]

TypeOK ==
  /\ wallet \in [Users -> Row]
  /\ request \in [Requests -> [status : Statuses, due : BOOLEAN]]
  /\ transactions \in [Payments -> Nat]
  /\ recent \subseteq Transfers /\ key \subseteq Transfers
  /\ unanswered \subseteq Transfers
  /\ call \in [Calls -> {Idle}
                 \cup [op : {"send"}, id : Transfers, open : BOOLEAN]
                 \cup [op : {"accept", "rejected", "cancelled"},
                       id : Requests, open : {TRUE}]]
  /\ sweep \subseteq Requests

Init ==
  /\ wallet = [u \in Users |-> [balance |-> InitialBalance[u], locked |-> 0]]
  /\ request = [r \in Requests |-> [status |-> "none", due |-> FALSE]]
  /\ transactions = [p \in Payments |-> 0]
  /\ recent = {} /\ key = {} /\ sweep = {}
  /\ unanswered = Transfers
  /\ call = [c \in Calls |-> Idle]

client == <<key, unanswered>>

----------------------------------------------------------------------------
(* Transfers.                                                              *)

CanPay(p) == Available(wallet[From[p]]) >= Amount[p] + Fee[p]

\* "You can only resend the same amount after 1 minute."
CoolingDown(t) ==
  \E s \in recent : From[s] = From[t] /\ Amount[s] = Amount[t]

\* The middleware takes the key; sendFunds verifies the PIN and reads.
BeginSend(c, t) ==
  /\ call[c] = Idle
  /\ t \in unanswered /\ t \notin key
  /\ transactions[t] < Repeats
  /\ CanPay(t) /\ ~CoolingDown(t)
  /\ call' = [call EXCEPT ![c] = Handler("send", t)]
  /\ key' = key \cup {t}
  /\ UNCHANGED <<wallet, request, transactions, recent, unanswered, sweep>>

\* Handler c ends; its key goes with its response, unless that is closed already.
Finish(c) ==
  /\ call' = [call EXCEPT ![c] = Idle]
  /\ key' = IF call[c].open THEN key \ {call[c].id} ELSE key

\* Faulty: the merchant is charged its fee, but nobody receives it.
CommitSendFeeLost(c) ==
  LET t == call[c].id
  IN  /\ call[c].op = "send"
      /\ Finish(c)
      /\ wallet' = Credit(Credit(Debit(wallet, From[t], Amount[t] + Fee[t]),
                                 To[t], Amount[t] - MerchantFee[t]),
                          Platform, Fee[t])
      /\ transactions' = [transactions EXCEPT ![t] = @ + 1]
      /\ recent' = recent \cup {t}
      /\ unanswered' = IF call[c].open THEN unanswered \ {t} ELSE unanswered
      /\ UNCHANGED <<request, sweep>>

\* The increments and decrements apply to whatever the rows hold by now.
CommitSend(c) ==
  LET t == call[c].id
  IN  /\ call[c].op = "send"
      /\ Finish(c)
      /\ wallet' = Credit(Credit(Debit(wallet, From[t], Amount[t] + Fee[t]),
                                 To[t], Amount[t] - MerchantFee[t]),
                          Platform, MerchantFee[t] + Fee[t])
      /\ transactions' = [transactions EXCEPT ![t] = @ + 1]
      /\ recent' = recent \cup {t}
      /\ unanswered' = IF call[c].open THEN unanswered \ {t} ELSE unanswered
      /\ UNCHANGED <<request, sweep>>

\* The client closes the connection: the middleware gives the key up while the
\* handler goes on.
Disconnect(c) ==
  /\ call[c].op = "send" /\ call[c].open
  /\ call' = [call EXCEPT ![c].open = FALSE]
  /\ key' = key \ {call[c].id}
  /\ UNCHANGED <<wallet, request, transactions, recent, unanswered, sweep>>

Minute(t) ==
  /\ t \in recent
  /\ recent' = recent \ {t}
  /\ UNCHANGED <<wallet, request, transactions, client, call, sweep>>

\* The key of a handler that a restart took away expires.
KeyExpires(t) ==
  /\ t \in key
  /\ \A c \in Calls : ~(call[c].op = "send" /\ call[c].id = t /\ call[c].open)
  /\ key' = key \ {t}
  /\ UNCHANGED <<wallet, request, transactions, recent, unanswered, call, sweep>>

----------------------------------------------------------------------------
(* Requests.                                                               *)

\* A row of either table, with five minutes to answer it.
NewRequest == [status |-> "pending", due |-> FALSE]

\* Nothing looks at the wallet of the user who is asked until they accept.
RequestFunds(r) ==
  /\ request[r].status = "none"
  /\ request' = [request EXCEPT ![r] = NewRequest]
  /\ UNCHANGED <<wallet, transactions, recent, client, call, sweep>>

\* Writing "expired" on a late request is rolled back by the error after it.
Payable(r) == request[r].status = "pending" /\ ~request[r].due /\ CanPay(r)

\* The payer's fee is taken; no wallet receives it.
Paid(r) == Credit(Debit(wallet, From[r], Amount[r] + Fee[r]), To[r], Amount[r])

\* acceptAndTransfer.
BeginAccept(c, r) ==
  /\ call[c] = Idle
  /\ Payable(r)
  /\ call' = [call EXCEPT ![c] = Handler("accept", r)]
  /\ UNCHANGED <<wallet, request, transactions, recent, client, sweep>>

\* By now another call may have paid or closed the request.
CommitAccept(c) ==
  LET r == call[c].id
  IN  /\ call[c].op = "accept"
      /\ call' = [call EXCEPT ![c] = Idle]
      /\ wallet' = Paid(r)
      /\ transactions' = [transactions EXCEPT ![r] = @ + 1]
      /\ request' = [request EXCEPT ![r].status = "completed"]
      /\ UNCHANGED <<recent, client, sweep>>

\* rejectRequest and cancelRequest: a read, then an update by id.
BeginClose(c, r, status) ==
  /\ call[c] = Idle
  /\ request[r].status = "pending"
  /\ call' = [call EXCEPT ![c] = Handler(status, r)]
  /\ UNCHANGED <<wallet, request, transactions, recent, client, sweep>>

CommitClose(c) ==
  /\ call[c].op \in {"rejected", "cancelled"}
  /\ call' = [call EXCEPT ![c] = Idle]
  /\ request' = [request EXCEPT ![call[c].id].status = call[c].op]
  /\ UNCHANGED <<wallet, transactions, recent, client, sweep>>

\* A handler ends with an error.
Fail(c) ==
  /\ call[c] # Idle
  /\ IF call[c].op = "send" THEN Finish(c)
     ELSE call' = [call EXCEPT ![c] = Idle] /\ UNCHANGED key
  /\ UNCHANGED <<wallet, request, transactions, recent, unanswered, sweep>>

Deadline(r) ==
  /\ request[r].status # "none" /\ ~request[r].due
  /\ request' = [request EXCEPT ![r].due = TRUE]
  /\ UNCHANGED <<wallet, transactions, recent, client, call, sweep>>

\* getPendingRequests: one conditional update.
ExpireListed(r) ==
  /\ request[r].status = "pending" /\ request[r].due
  /\ request' = [request EXCEPT ![r].status = "expired"]
  /\ UNCHANGED <<wallet, transactions, recent, client, call, sweep>>

\* Faulty: a request is left alone while its payer could not pay it.
StartSweepPayable ==
  /\ sweep = {}
  /\ sweep' = {r \in Requests : request[r].status = "pending" /\ request[r].due /\ CanPay(r)}
  /\ sweep' # {}
  /\ UNCHANGED <<wallet, request, transactions, recent, client, call>>

\* processExpiredRequests: the requests are read, then updated by id one by one.
StartSweep ==
  /\ sweep = {}
  /\ sweep' = {r \in Requests : request[r].status = "pending" /\ request[r].due}
  /\ sweep' # {}
  /\ UNCHANGED <<wallet, request, transactions, recent, client, call>>

Expire(r) ==
  /\ r \in sweep
  /\ sweep' = sweep \ {r}
  /\ request' = [request EXCEPT ![r].status = "expired"]
  /\ UNCHANGED <<wallet, transactions, recent, client, call>>

\* The process restarts; the clients of its handlers see no answer.
Restart ==
  /\ sweep # {} \/ \E c \in Calls : call[c] # Idle
  /\ call' = [c \in Calls |-> Idle]
  /\ sweep' = {}
  /\ UNCHANGED <<wallet, request, transactions, recent, client>>

----------------------------------------------------------------------------

Next ==
  \/ \E c \in Calls :
       \/ \E t \in Transfers : BeginSend(c, t)
       \/ CommitSend(c) \/ Disconnect(c)
       \/ \E r \in Requests :
            \/ BeginAccept(c, r)
            \/ \E status \in {"rejected", "cancelled"} : BeginClose(c, r, status)
       \/ CommitAccept(c) \/ CommitClose(c) \/ Fail(c)
  \/ \E t \in Transfers : Minute(t) \/ KeyExpires(t)
  \/ \E r \in Requests : RequestFunds(r) \/ Deadline(r) \/ ExpireListed(r) \/ Expire(r)
  \/ StartSweep
  \/ Restart

Spec == Init /\ [][Next]_vars

\* The expiry job runs every minute; a restart can cut a run short.
Fairness == WF_vars(StartSweep) /\ \A r \in Requests : SF_vars(Expire(r))

FairSpec == Spec /\ Fairness

----------------------------------------------------------------------------
(* Properties.                                                             *)

\* Whatever interleaves, what one wallet is debited the others are credited,
\* the fees of transfers to the platform.  The fee of an accepted request is
\* the exception: it is debited and credited to nobody.
Conserved ==
  Total(wallet) + SumOver([r \in Requests |-> transactions[r] * Fee[r]], Requests)
    = SumOver(InitialBalance, Users)

\* A request shown as completed has been paid, whoever else answered it.
CompletedIsPaid ==
  \A r \in Requests : request[r].status = "completed" => transactions[r] >= 1

\* "Insufficient balance": nobody pays with money they do not have.
NoOverdraft == \A u \in Users : wallet[u].balance >= 0

\* "Request status is completed": a request is paid once.
RequestPaidOnce == \A r \in Requests : transactions[r] <= 1

\* Nobody waits for ever on a request whose time has passed.
DueIsClosed ==
  \A r \in Requests :
    (request[r].status = "pending" /\ request[r].due) ~> (request[r].status # "pending")

\* Transfers and requests under retries and concurrent answers: money is neither made
\* nor lost, fees included, and what reads completed was paid.
TransfersInv == TypeOK /\ Conserved /\ CompletedIsPaid

=============================================================================
