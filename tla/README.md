# TLA+ specifications of farm-backend

farm-backend is a NestJS service over PostgreSQL (Prisma), Redis and BullMQ. It
keeps wallets in FARM, a unit of account, and moves balances between them: escrow,
transfers, requests for money, deposits, withdrawals, QR and NFC payments, business
commerce, project funding, travel, payments of software agents, and a mirror of all
this on the Algorand chain. Almost every
hazard of the code is a question of *who else touches the same rows between two
statements of a handler*, and that is what these modules are about.

Paths below are relative to `src/src/`. Line-by-line correspondence is in the
`map` of `PROJECT.json`; the map covers about 31 % of the lines of the
implementation.

## 1. Inventory

How parts interact. There are no messages between services: they share rows,
call each other in process and hand work to `setImmediate`, to cron jobs and to Bull queues. A wallet row has `balance` and `locked_balance`; available
is their difference. Handlers run interleaved at every `await`; a database
transaction is atomic but READ COMMITTED (nothing sets an isolation level), so a
statement inside one sees what others committed meanwhile unless the code uses a
conditional update (`updateMany ... where status`), a guarded SQL `UPDATE`, or
`SELECT ... FOR UPDATE`. A restart loses everything in memory.

| Component | State | Operations | What is hard | What makes it correct |
|---|---|---|---|---|
| Wallets, ledger (`wallets`, `transactions`) | `balance`, `locked_balance`, ledger rows | credit, debit, lock, unlock as increments | checks on rows read without a lock | nobody overdraws; locks are backed; money is conserved |
| Escrow (`escrow`) | `escrow_contracts` (status, released amount, expiry), wallets | create, release, partial release, dispute, resolution, auto-release job | PIN checks and uploads between read and write; job, parties and administrators at once | each contract's principal is locked once and paid or refunded once; a dispute freezes it; an overdue one is settled |
| Business escrow (`business-ops/business-escrow`) | `business_escrows` with a JSON list of milestones, mirroring a contract | send, fund, start, ask, release, milestone release, cancel, sync | no transactions: claim, pay and record are separate statements, and JSON is written back whole | one contract per request; what is shown as released was paid |
| Withdrawals (`withdraw`, part of `webhook`) | `withdrawals` and their transactions, wallets, payouts at Paystack and NOWPayments | create, submit, observe, settle, reject, approve, two reconcilers | unknown answers, duplicate, late, reversed and lost outcomes, restarts | reserved once, submitted once, debited or given back once, never both; an outcome reaches the user |
| Transfers (`wallets.sendFunds`, idempotency middleware) | wallets, Redis keys | send | check and decrement apart; keys that end with the connection | conservation; a retry does not pay again |
| Transfer and payment requests | a status, an expiry | create, accept, reject, cancel, expiry job | two answers at once, expiry against an answer | shown as paid only if paid; closed in the end |
| Deposits (`deposit`, `payments`, `webhook`) | `deposits`, `transactions`, `pending_transactions`, Redis locks | initialise, poll, webhook, stuck-deposit job, fail; a guest's payment of a merchant's sale | several finalizers and a failure path racing for one deposit | credited exactly once iff the provider collected it |
| IvoryPay (`ivorypay`, parts of `deposit` and `webhook`) | the same two rows | start, its own webhook and poll, the general webhook, the job | three services settle one deposit and share no lock | the same |
| Webhook intake (`webhook`) | rows of a payment, Redis lock and replay memory, Bull queue, a fallback list | receive, process, queue, call back, retry | redelivery, lock contention, a queue that is away, restarts | an event remembered as processed has reached the rows or was tried to the end |
| QR payments and merchants (`qr-payments`, `qr`, `merchants`) | `merchants`, `transactions`, `qr_payments` | apply, review, initialise, verify, complete, fail, pay from a wallet | webhook, poll and failure settle one sale | one settlement, one fee; never taken back |
| NFC payments (`nfc-pay`) | `nfc_payment_requests` | create, tap, transfer, release, record | two payers, a failure after the claim | single-use sessions |
| Business commerce (`business-commerce`, `business-web-checkout`) | invoices, payment links, checkouts with their reservations | pay, open, expire, complete, reconcile, cancel | status claim apart from the transfer it covers; late payments | paid once, within the limit; late money is recorded |
| Business payouts (`business-api`) | payouts by idempotency key | request, retry | outcome not written | one withdrawal per key |
| Business webhooks out (`business-webhooks`) | deliveries with attempts | deliver, retry, job | attempts at once read one row | ends, and not before all attempts |
| Business accounts (`business`, `didit` KYB) | an application, its submissions, the provider's check | edit, submit, decide, withdraw, check | updates by id after a read | one undecided submission; the verdict on record |
| Project marketplace (`project-marketplace`) | a project, milestones, investments, the consolidation reserve | draft, review, invest, release, cancel, refund, reserve | guarded claims on one counter by many actors | raised = invested; reserve refunded or kept once; every investor refunded |
| Tokenization (`tokenization`) | one row per project, assets on chain | request, reject, approve and mint, allocate | two administrators; an asset that is not written down | one asset per project |
| Travel (`travel`) | bookings, money in no wallet | hold, order, confirm, refund, review, cancel | provider outcome unknown | refunded iff not booked |
| Agent payments (`agent-payments`) | intents, refunds, authorizations, requests | create, pay, refund, ask, confirm, reject, expire | caps checked apart from the claim, partial refunds at once | paid once, refunded at most the amount, within the caps |
| x402 (`x402`) | payments unique per transaction id | verify, gateway, settle | upstream answers before settlement, unknown broadcast | one authorisation buys one answer |
| AI assistant (`ai-assistant`) | proposed actions, a cap | propose, confirm, reject, expire | confirming twice, a write that fails after the transfer | executed once, shown truly |
| Chain outbox (`chain-wallet/chain-sync`) | rows per ledger transaction, transfers on chain | enqueue, claim, send, ask the chain | lost answers, expiry of a transfer, two senders | moved once |
| Chain accounts (`chain-wallet`) | accounts, cursors, chain deposits | provision, poll two feeds, credit | an indexer behind the node, two polls at once | a payment is credited once and not passed over |
| Authentication (`auth`) | pending logins, sessions with refresh tokens, e-mail links | two-step login, refresh, logout, revoke, confirm, delete the account | one token presented twice, requests in the middle of a revocation | one session per token; one live session of a line |
| Identity checks (`didit`, `kyc`) | `kyc_status`, documents, events | session, event, submit, review | events in any order, a reviewer at the same time | verified for a reason; approval outlasts older events |
| Fees (`fees`) | `fee_configurations`, a cache | lookup | flat and minimum fees on small amounts | 0 <= fee <= amount for a percentage schedule |
| Administration (`admin`) | all of the above | resolve, approve, reject, suspend | acts on rows others are acting on | goes through the same claims |

The developer API, users, support, settings, analytics, uploads, notifications,
websocket and receipts are single-row CRUD, reports or output no balance depends
on; Redis, BullMQ and PostgreSQL clients are infrastructure whose guarantees are
assumed where a module uses them. Every component is listed, with its status, in
`PROJECT.json`.

## 2. Modules

| Module | Role |
|---|---|
| `Wallets` | a row, the four increments, sums over rows |
| `Shared` | the wallets and the two-fee sale that the payment products have in common |
| `EscrowContracts` | abstract: what an escrow contract promises, without wallets, handlers or jobs |
| `Escrow` | the escrow service; implements `EscrowContracts` |
| `BusinessEscrow` | the layer above it, composed with `EscrowContracts` (`Deal == INSTANCE`) |
| `Withdrawals` | withdrawals and the payout providers, those of the legacy provider included |
| `Transfers` | `sendFunds`, the idempotency middleware, requests and their expiry job |
| `Deposits` | deposits, their finalizers, the checkout providers, guests' payments of a sale |
| `IvoryDeposits` | deposits collected by IvoryPay, settled by three services |
| `WebhookIntake` | how an event of a provider reaches the rows |
| `QrSales`, `NfcTaps` | sales of merchants; tap-to-pay |
| `Commerce`, `ApiPayouts`, `HookDeliveries`, `Applications` | a business: invoices and links, payouts by key, webhooks out, its application |
| `Projects`, `Tokens` | a project's round, milestones and reserve; its token |
| `Bookings`, `AgentPayments`, `X402`, `AiActions` | orders that spend a user's FARM |
| `ChainTransfers`, `ChainDeposits` | the outbox to the chain; accounts, polls and credits |
| `Sessions`, `Verifications` | signing in, refreshing and leaving; whether a user's identity is verified |
| `WalletSums` | lemmas about sums |
| `EscrowProofs`, `RequestProofs`, `WithdrawalProofs`, `TransferProofs`, `DepositProofs`, `CollectionProofs`, `OrderProofs` | the proofs (section 4) |
| `MCEscrow`, `MCBusinessEscrow`, `MCWithdrawals`, `MCTransfers`, `MCDeposits`, `MCCollections`, `MCOrders`, `MCBusiness` | instances for TLC |

The modules of components that share no row are checked side by side: each behaviour
of `MCBusinessEscrow`, `MCDeposits`, `MCCollections`, `MCOrders` and `MCBusiness` is one of one component, chosen in `Init`,
so the state space is the sum of theirs and not the product. Names differ between
modules (`qrVars`, `tapVars`, ...) so that they can be extended together.

### How code becomes actions

* A handler that reads, awaits and then writes is `Begin...` (its checks on what
  it read) and `Commit...` (its transaction, with the claims it repeats). In
  between it sits in a slot of `Calls` and remembers only what the code remembers.
  Two slots give every pairwise race; the slots are interchangeable, hence the
  symmetry of the runs without liveness.
* A job that reads a list and treats its rows one by one is `StartSweep`, which
  fills `sweep`, and an action per row.
* A claim (`updateMany` with a status, `FOR UPDATE`, a guarded `UPDATE`) is a
  guard of the same action that writes, because the database makes it atomic.
  An increment applies to whatever the row holds at commit.
* `Fail`, `Lost`, `...Fails` are the error paths, `Restart` empties whatever
  lives in memory: slots, sweeps, `setImmediate` queues, outcomes read.
* Where a property has to except what a failed write or a race leaves behind, the
  exception is a history variable named for it (`unrecorded`, `unlinked`, `reopened`, `denied`, `hasty`, `misled`,
  `overlap`, `crossed`, `takenBack`, `late`, `cut`, `again`), set by the very step that makes it true.
* Providers are outside the repository: `payout`, `ProviderMoves`, `Accept`, `charge`,
  `checkout`, `order`, `ledger`, `onChain`
  model them from how the services use them.

**Escrow** (`escrow/escrow.service.ts`, `admin.service.ts` `resolveDispute`).
`wallet`, `escrow` and `ledger` are rows; `call` and `sweep` are memory. `create`
checks the balance and later reserves it with a guarded update; `executeRelease`
and `executeRefund` claim the status they expect; `releasePartial` claims
its part with a guarded `UPDATE`; `dispute` writes its status with a claim, after its upload. `cancel`
is absent: it accepts only contracts that are `pending`, and no contract is
committed in that status.

**BusinessEscrow** (`business-ops/business-escrow.service.ts`). No operation runs
in a transaction, so each awaited statement is a step. The linked contract is
one of `EscrowContracts`, moved by this service (`CreateContract`,
`PayMilestone`) or behind its back (`Elsewhere`: the escrow endpoints, the job,
an administrator). Every read goes through `Synced`, the composition of the lazy
expiry and of the mirror in `sync`. `CommitSync` writes what `BeginSync` read. Every statement
after the claim can fail: `FundFails` is the contract that is not created, `LinkFails` the failing write of its
link, after which the same catch block (`PutBack`) offers a request again that has a contract;
`MilestoneFails` restores the milestones as they were read, also when the payment was made. A restart between
`CreateContract` and `LinkContract` leaves a contract nobody names. `unlinked` and `reopened` keep the requests
these two things happened to.

**Withdrawals** (`withdraw/withdraw.service.ts`, webhooks in
`webhook/webhook.service.ts`). `row` is the withdrawal with what its transaction
adds; `payout` and `submitted` are the provider's side; `reports` are outcomes
that some webhook, poll or job has read and may still act on, repeatedly.
Paystack refuses a reference it has seen; NOWPayments does not, and gives an id
that the service must keep or look up. `ByHand` holds the withdrawals an
administrator may close without asking a provider; a late outcome of one of those is
settled by the status of its transaction. `Legacy` are payouts IvoryPay was given
before it was replaced. A failure reported of one that an administrator has closed as paid goes on to the branch of
`finalizeWithdrawal` that knows only the transaction: it looks at the transaction's status (`LateReport`), reads the wallet and computes what to
unlock (`ReadLocked`), and takes that off whatever the wallet holds when its transaction
commits (`FailTransaction`), whether or not another report did so before.

**Transfers** (`wallets/wallets.service.ts` `sendFunds`,
`common/middleware/idempotency.middleware.ts`, `transfer-requests`,
`payment-requests`). The two request services have the same life cycle and share
one set. `key` is Redis; `unanswered` is the client, who retries until it has
seen a success. The lifetime of a key is assumed longer than a handler.

**Deposits** (`deposit/deposit.service.ts`, `payments/payments.service.ts`
`initiateDeposit`, `webhook/webhook.service.ts` `finalizeDeposit`, `fixStuckDeposits`,
`cleanupStaleFailedDeposits`, `qr/merchant-checkout.controller.ts`). `deposit` and `txn` are the two rows of a reference,
`credits` its ledger entries, each written with a wallet credit. `Open`, `OpenCrypto`,
`InitiateInvoice` and `HandOut` are the ways to start one: they differ in which row is
written first and in whether the customer has his checkout before both are. The two versions of the
finalizer, in the deposit and in the webhook service, dispatch and claim alike and are
one here; they and `failDeposit` read one row, then the other (`BeginFinalize`,
`BeginFail`, `ReadTransaction`), and act on what they read. `Reconstruct` is the
deposit row a finalizer puts back before it looks at the transaction's status.
A guest pays a merchant's sale by a deposit: `Link` marks the transaction, `ForWhom`
is what a finalizer made of the mark when it read it, `SettleSale` and `PollSale` are
the credit with the fee and the merchant's poll; `sale` and `feeTaken` keep what became of it.
Asking the provider is part of `Finalize`: a payment stays paid, so asking
earlier, as the code does, can only lose. `Cleanup` waits for handlers of the
deposit, because the rows it deletes have not been touched for ten minutes. The
provider lets a customer pay after a failed or abandoned attempt at the same
checkout, and pay only a checkout he was given. The Redis lock per reference is
in `WebhookIntake`: it excludes webhooks from each other only, for a minute, and not at all
when Redis is away. Of the four dispatch cases, a credit by the transaction alone
and the completion of a lone transaction are in `Claimed` and `CreditIf` but no
reachable pair of rows selects them; in `IvoryDeposits`, whose handlers read in
another order, the first is reached (`CreditTransaction`) and the second is not.

**IvoryDeposits** (`ivorypay/ivorypay-deposit.service.ts`, the IvoryPay parts of
`webhook.service.ts` and `deposit.service.ts`). `recorded` is the pair of rows, `entries` the credits,
`payment` and `told` the provider, who reports what happened as often and as late as it likes. A
settler in `settler` is at one of the statements of its service with the rows it read.

**WebhookIntake** (`webhook/webhook.service.ts`, `webhook.processor.ts`). `marked` is
the replay memory, `lock` the lock per reference, `queue`, `background` and
`stranded` the three places an event can go when it was not dealt with at once,
`misses` the attempts that failed. What dealing with it does is in
`Deposits` and `QrSales`; here a payment has the status their rules leave.

**QrSales** (`qr-payments`, `merchants`, `qr`): `shop` and `sold` are the `merchants` row,
`sale` the two rows of a public sale, `checkout` the provider's view, `bought` the
purchases from a wallet. **NfcTaps** (`nfc-pay`): `tap` and `payer` are the row, `tapPaid` counts
transfers.

**Commerce** (`business-commerce.service.ts`, `business-web-checkout.service.ts`).
`invoice`, `hold`, `link` and `webPay` are the rows, `late` their deadlines, `applied` the
payments taken, `exceptions` the late ones kept for refund or review. A payment after a failed or abandoned attempt is
`revived`; `ReconcileFails` is each write after the claim of a checkout that can fail, that of the exception included. **ApiPayouts**: `payout` is
the row of a key, `withdrawn` the withdrawals made under it. **HookDeliveries**: `delivery` is
the row, `tried` the attempts made, one that fails before it sends anything among them. **Applications**: `application`, `details`,
`submissions` and `kyb` are the rows; `issued` and `told` are Didit.

**Projects** (`project-marketplace`). `project` is the row with its counters
(raised, fee, released, refunded, revenue), `stones` and `stake` the milestones and
investments, `got` what an investor has back. **Tokens**: `token` is the row, `assets` what was minted. The answer is read after the transaction and within the same
`try`: `AnswerFails` writes `failed` over a created token, and `denied` keeps that it did.

**Bookings** (`travel`): `booking` and `refunded` are rows, `order` the provider's. **AgentPayments**:
`intent`, `ask`, `mandate` are rows, `intentPaid` and `returned` the transfers. **X402**:
`settling` is the row, `ledger` the chain, `served` and `delivered` the two sides of the
gateway. **AiActions**: `action`, `enabled` and `lapsed` are rows, `done` how often an action took money; `aiIntent` are the intents
actions can name, `aiPaid` how often the user paid one. `payIntent` is in its steps, from the claim to the record, and answers "paid" for an
intent that another action or the app (`inApp`) has paid (`IntentPaid`).
**ChainTransfers**: `enqueued` and `outbox` are rows, `onChain` every transfer built for one.
**ChainDeposits**: `account`, `cursor`, `deposited` are rows, `head` and `indexed` the rounds of the node
and of the indexer. **Sessions**: `login`, `sessions` (with what each was opened
for) and `links` are rows, `profile` and `purse` the user and the wallet. A link is sent in three steps, because the limits
are checked before the transaction (`BeginSend`) and two transactions do not see each other (`FindOlder`, `SendLink`). The purse is filled by
deposits and by all that comes unannounced (`MoneyIn`: transfers, releases, refunds), and spent by `MoneyOut`. **Verifications**:
`standing`, `paper`, `noted` are rows, `passed` whom a reviewer passed.

## 3. What is checked

In every run the contracts, withdrawals, orders or requests it was given are
closed at last; with nothing left to do the system stops, so the runs do not report
deadlock (`CHECK_DEADLOCK FALSE`). Stuck states are the business of the liveness
properties. A property named `...Inv` is a conjunction of a type invariant and of
named parts, each with its own comment; TLC checks the conjunction, and a
violation is traced to a part by putting the parts in the cfg instead.

| Run | Properties | What it shows |
|---|---|---|
| `escrow` | `TypeOK`, `Solvent`, `LockBacked`, `Settled`, `Conserved`, `DueIsSettled`, `DisputeFreezes`, `ContractsKept` | No interleaving of requests, job, administrators, failures and restarts overdraws a wallet, leaves a lock without a contract or a contract without its lock, pays a principal twice, loses money or pays out of a disputed contract other than by decision; the service refines `EscrowContracts`; the job takes every overdue active contract out of that status |
| `business_escrow` | `RequestsInv`, `ReleasesInv`, `ApplicationsInv`, `VerificationsInv` | Although nothing is transactional and each statement can fail: a request is funded in one contract and names it, except where the write of the link fails or is never reached; what it shows as released was paid; an application for a business account is decided once, on one submission; a user is verified for a reason on record, which later events of the provider do not take away |
| `withdrawals` | `FundsInv`, `PayoutsInv` | Unknown submissions, duplicate and late outcomes, reversals, administrators, the legacy provider and restarts: every amount is reserved, paid out and debited or given back at most once, and a lock is what its owner's open withdrawals reserve, until a legacy payout is reported failed after it was closed as paid |
| `withdrawals_liveness` | `OutcomeReachesUser` | A finished payout closes its withdrawal without any webhook, even when the payout's id was never recorded |
| `transfers` | `TransfersInv`, `DueIsClosed` | Concurrent payments move what they should between wallets, a request shown as completed was paid, and the job closes every overdue one |
| `deposits` | `DepositsInv`, `IvoryDepositsInv`, `PaidIsCredited` | Webhooks, polls and the job, failures, deletions and reconstructed rows: a user's deposit is credited once, only if collected, and reads as done only if credited; a merchant's sale is credited at most once with its fee and once without; so it is for the three services that settle an IvoryPay deposit; the job credits a Paystack payment nobody reports, unless a failed attempt was reported before it |
| `collections` | `QrSalesInv`, `NfcTapsInv`, `WebhookIntakeInv`, `SettledStays`, `RememberedIsReflected` | A sale settled by webhook, poll and a late failure is credited once and never taken back; a tap leads to one transfer; an event remembered as processed reached the rows or was tried to the end |
| `orders` | `BookingsInv`, `AgentPaymentsInv`, `X402Inv`, `AiActionsInv`, `ChainTransfersInv`, `ChainDepositsInv`, `SessionsInv` | Orders that spend a user's FARM, the chain's outbox and inbox, and sessions: claims, retries, refunds, lost answers and restarts neither pay twice nor show what did not happen; an intent that two actions and the app pay takes the money once; a deleted account is empty unless money came after the check |
| `business` | `CommerceInv`, `ApiPayoutsInv`, `DeliveriesInv`, `ProjectsInv`, `TokensInv`, `CancelledIsRefunded` | Invoices, links, payouts by key, deliveries, project rounds and tokens: money is accounted for through claims, expiries, late payments, refunds, failing writes and restarts, but for the web payments that a failed write or an earlier failure loses; milestones are paid in their order |
| `business_liveness` | `ArrivedIsSettled`, `DeliveryEnds` | The checkout of a web payment that arrived is completed, unless a failure reported before had closed it, and a delivery is delivered or given up, without any client |

Two runs end in a counterexample, because the code does not do what one of its
refusals or a document says (details under `findings`):

| Run | Property | What happens |
|---|---|---|
| `overdraft` | `NoOverdraft` | Two payments of one user both pass the balance check, which locks nothing; both decrements apply. |
| `guest_credited_twice` | `CreditedOnce` | A guest's payment follows an attempt that was reported failed. The job credits it in full, as a user's deposit. `failDeposit`, which had read the rows before, marks the deposit failed; the job deletes it, the merchant's poll puts it back, and the branch for a completed transaction without a fee credits it again. |

### Other disagreements

Each of these is a property defined in its module that TLC refutes when it takes the place of
the `INVARIANTS` of the run's cfg (with another `SPECIFICATION` where said so: one
statement more that fails; the ordinary specification of `Withdrawals` leaves it out, so that its
run says what holds without it).

| Property, run | What the source says | What happens |
|---|---|---|
| `MilestonePaidOnce`, `business_escrow` | a released milestone cannot be released | a handler writes back the milestones it remembers, or the catch block does after the payment, and turns a paid one into a payable one |
| `PaidIsNotRefunded`, `withdrawals`, `FaultySpec` | the catch block refunds a failed transfer | the metadata write after an accepted Paystack transfer fails, and the amount is given back |
| `RequestPaidOnce`, `transfers` | "already responded" | two acceptances both read `pending`; the final update is by id |
| `CreditedStaysSuccess`, `deposits` | `DEPOSIT_STATE_MACHINE.md`: `PENDING` to `SUCCESS` | the credit commits between the read and the write of `failDeposit`: the wallet has the money, the rows say `FAILED` |
| `GuestFeeTaken`, `deposits` | "Merchant QR sale received after 1% platform fee" (`deposit.service.ts:1049`) | the job, or a handler that read the transaction before it was linked, credits the sale in full |
| `TransferSentOnce`, `orders` | "so a transfer is never sent twice" (`chain-sync.service.ts:24`) | the confirmation of a transfer whose answer was lost is not found, and another is built; or a sender acts on a row it read before another one did |
| `RefundIsIdempotent`, `orders` | "Full refund ... Idempotent" (`travel.service.ts:520`) | an administrator refunds a booking while its handler is still waiting for the provider; the handler then writes `needs_review` over it, and it is refunded again |
| `WithinAiCap`, `orders` | "pending counts so caps cannot be bypassed by queuing" (`ai-assistant.service.ts:452`) | an action that is being executed (`processing`) is not counted, and the sum is read before a proposal is written |
| `FailedMovedNothing`, `business` | "failed before any money moved: allow a retry" (`api-payouts.service.ts:127`) | the write after the withdrawal fails in the same `try` |
| `NeverAboveHeld`, `business` | "never above what is still held" (`project-review.service.ts:418`) | a milestone is released by a handler that read the project before it was cancelled |
| `EachInvestorRefunded`, `business` | "each investor gets back their pro-rata share" (`project-review.service.ts:158`) | the same release makes committed investments active, and the refund that listed them as committed skips them |
| `NobodyGains`, `business` | "One time per project, all-or-nothing" (`project-review.service.ts:217`) | a declared loss and a cancellation both divide the reserve: what rounding left of it is divided once more, and an investor is given more than he invested |
| `PassedStaysVerified`, `business_escrow` | "so a manual approval is never overwritten" (`didit.service.ts:176`) | document and user are two writes: a handler stops between them, or a submission or a second verdict under way is written over a pass |
| `ApprovedAsSubmitted`, `business_escrow` | "Approved business details can no longer be edited here" (`business.service.ts:138`) | an edit that read the row before the submission is written after the verdict |

Met on the way, and excepted or modelled rather than made a run: the expiry job of requests
updates by id and can overwrite an answer given since it read the row
(`payment-requests.service.ts:164-177`); an idempotency key is given up when the
connection closes and no result is kept, so a retry can pay again
(`idempotency.middleware.ts:54`, modelled by `Disconnect`); the fee of an accepted
request is debited and credited to nobody, unlike `docs/FEES.md:20` says
(`Conserved` in `Transfers` accounts for it; with the default 0 % schedule it is
nothing); a business escrow can be started while it is `funded` but has no contract
yet (`business-escrow.service.ts:276`); when its link cannot be written, the catch block opens it
again although it has a contract, and it can be funded in a second one (`:304-308`, excepted in `FundedOnce` by `reopened`), and after a
restart before that write nothing leads to the contract (`unlinked`); an administrator's approval debits
without provider confirmation, unlike `docs/NOWPAYMENTS.md:60-63` says (modelled by
`CloseByHand`, and excepted in `DebitedIsPaid`); a legacy payout that is reported failed after that takes what
it computed from an earlier read off the lock, twice if it is reported twice, and below zero or into what others have reserved
(`webhook.service.ts:2638-2667`, excepted in `ReservationsBacked` by `ReleasedLate`); a payment collected after its deposit
was marked failed is never credited (`deposit.service.ts:880`), which no document
speaks of and `PaidIsCredited` excepts; through IvoryPay such a payment can be credited twice
(excepted in `EnteredOnce`); `deleteAccount` looks at the balance before the
pending deposits, and money can come at any time after (`auth.service.ts:1338-1369`, excepted in `DeletedIsEmpty` by
`late`); two requests for a link that overlap leave two links that work (`auth.service.ts:1145-1187`; `OlderLinksStop` speaks of those
sent before the new one was asked for); a payment after a failure for which the web checkout was closed is not looked up
again (`business-web-checkout.service.ts:370`), and one whose `business_payments` row or exception cannot be
written is neither (`:272-303`), both excepted in `WebMoneyAccounted`; when the answer to `approveAndMint` cannot be read, a created token is called
failed and another asset can be minted (`tokenization.service.ts:228-241`, excepted in `MintedOnce` and `AllottedIsCreated` by `denied`); an edit of a business that read it as rejected takes a new submission
back out of review (`takenBack`), and an event of the provider's check that is being processed can
land on the session that replaced its own, against the comment of `didit.service.ts:544` (`crossed`); a `success` webhook
for a payout of the retired provider is turned away before the code that completes it
(`webhook.service.ts:3447-3457`), so that code is not modelled.

### Bounds

* `MCEscrow`: two contracts of one buyer that compete for one balance, and the
  platform is the seller of one (its wallet then takes principal and fee in one
  transaction); amounts 1 and 2, so that one contract has a proper milestone and a
  nonzero fee (`a \div 2`) and the other neither; two handlers. The job and the
  deadlines come on top. 10,257 states. Larger instances are the business of the proofs.
* `MCBusinessEscrow`: one request (requests share nothing), two milestones of
  unequal amounts, two handlers, two contracts (`Attempts = 2`), the second being the one that a
  failed link leads to and `FundedOnce` excludes otherwise; an application submitted twice (`MaxSubmissions`), edited once besides
  (`MaxEdits`), with two sessions and two events of the provider (`MaxEvents`); a user with two documents and two events.
  About 1,320,000 states.
* `MCWithdrawals`: two bank withdrawals, one of them in `ByHand`, a crypto one and
  a legacy one of one owner who cannot afford all of them; two submission
  handlers. In each behaviour either the second bank withdrawal or the legacy one was rejected
  before: they would meet only in the wallet, where each meets the other two. About 231,000 states.
* `MCTransfers`: two transfers in opposite directions and one request, balances
  such that the payer can afford either but not both, and the request twice;
  `Repeats = 2` bounds how often one transfer is made, since a client may retry
  for ever.
* `MCDeposits`: a Paystack and a NOWPayments deposit (deposits share nothing), of which
  one may be a guest's payment, apart from the other (`Apart`); two
  handlers, and at most `MaxCuts = 2` handlers that end early: without the bound
  every handler could. One IvoryPay deposit that may be given up and revive, with at most two
  credits (`MaxEntries`; one more than is allowed). About 138,000 states.
* `MCCollections`: one online and one wallet sale of two shops; two taps, one of a
  merchant and one of a person; three payments, each with the events of its provider, a
  redelivery of the one that reports success (`Sends`) and one restart (`MaxRestarts`). Each behaviour has the
  events of one payment: locks and memory are per reference.
* `MCOrders`: seven components, about 1,050,000 states together: a flight and a room; two intents
  and two requests under a cap that holds either (`DayCap = 2`); two signed transfers,
  one settled by the facilitator; a transfer and a room, or two actions for
  one intent, under a cap that holds the transfer or the two (`OneKind`: the two kinds meet in the cap and the wallet only); one outbox
  row with two transfers (`Attempts`: the second is the one that must not be), three senders; two
  payments into one account over four rounds (`LastRound`); one login, three sessions, two links (`MaxSessions`,
  `MaxLinks`: a refresh of a refreshed session is the longest line).
* `MCBusiness`: an invoice with two checkouts and a link of one use with two; two keys and three
  clients; two deliveries, three attempts (`MAX_ATTEMPTS`) and one by hand (`ByHand`); a project of one or two
  milestones, of which one plan does not add up, with four investments of two people that together exceed its target of 4, where half
  of each goes into the reserve, so that shares of it are rounded; of the two checkouts of a row, one whose payment may fail (`Failing`);
  up to three assets of one token (`MaxAssets`). About 741,000 states, 86,050 of them of the project. `MCBusinessLiveness` keeps links and
  deliveries, and one delivery.
* Amounts are small integers. Rows are decimals of fixed scale that are added and
  subtracted exactly, so nothing depends on their size; rounding happens only
  when a fee is computed.
* Handlers that are alike, and rows that do not exist yet, are declared symmetric in the
  runs that check invariants only; runs with temporal properties use no symmetry.

### Fairness

No fairness condition asks a user, an administrator or a provider to act.

* Escrow and requests: the auto-release and expiry jobs are one repeatable Bull job
  (`common/tasks/expiry-tasks.processor.ts`, every 60 s), so starting a run is weakly fair.
  Treating one row is strongly fair: a restart can empty the list before the row's
  turn, again and again, and the assumption is that it does not do so in every
  run.
* `Withdrawals`: the reconcilers are cron jobs (every minute and every five); the same holds of looking up, reading and applying
  an outcome.
* `Deposits`: a handler that has started goes on (weak fairness,
  `MaxCuts` bounds those that do not) and the job, which runs every minute, gets to
  a pending deposit although other handlers keep the slots busy (strong fairness). The job
  looks back 48 hours; that a payment arrives within them is assumed.
* `WebhookIntake`: Bull and Node start the jobs and callbacks they hold, and a worker
  that has started goes on (weak fairness; restarts are bounded).
* `Commerce`: a handler goes on, and `reconcilePending`, every five minutes for three days, gets to
  a checkout however often others are in its way (strong fairness). It
  takes a hundred checkouts at a time, in no order: that each gets its turn within the three days is assumed.
* `HookDeliveries`: a delivery comes due, and the job that runs each minute, its post and
  its write get to it (strong fairness: attempts at once and by hand can be in the way).

### Mutants

Operators marked *Faulty* (`ReserveUnchecked`, `ClaimUnguarded`,
`CreditUnclaimed`, `RefundUnclaimed`, ...) are variants of the operator
that follows them, each with a bug this code could have: a claim that does not look
at the status, a balance check that forgets reservations, an unknown outcome taken
for a failure, a key forgotten too early. They are used by no specification. `PROJECT.json` (`mutants`) pairs
every property with the variant it catches.

## 4. What is proved

Every safety property that the passing runs of section 3 check is a theorem: it holds for every set of users, rows
and handlers, every amount and every schedule that satisfies the assumptions, where a run shows
it on one small instance. The proofs are in the modules `...Proofs`, one for the components
that a run checks together. (`theorems` in `PROJECT.json` is the same list with a
sentence for each.)

| Module | Theorems, and the property each states |
|---|---|
| `EscrowProofs` | `TypeCorrect` (`TypeOK`), `Solvency` (`Solvent`), `Backing` (`LockBacked`), `Settlement` (`Settled`), `Conservation` (`Conserved`), `DisputesFreeze` (the action property `DisputeFreezes`), `Refinement` (`ContractsKept`, that is `Promised!Spec`) |
| `RequestProofs` | `FundedInOneContract` (`RequestsInv`), `ReleasedWasPaid` (`ReleasesInv`), `OneVerdict` (`ApplicationsInv`), `VerifiedForAReason` (`VerificationsInv`) |
| `WithdrawalProofs` | `FundsBacked` (`FundsInv`), `PaidOnce` (`PayoutsInv`) |
| `TransferProofs` | `NothingLost` (`TransfersInv`) |
| `DepositProofs` | `DepositsCredited` (`DepositsInv`), `IvoryCreditsOnce` (`IvoryDepositsInv`) |
| `CollectionProofs` | `SalesCreditedOnce` (`QrSalesInv`), `SettledIsFinal` (the action property `SettledStays`), `TapsPayOnce` (`NfcTapsInv`), `RetriedBeforeWrittenOff` (`WebhookIntakeInv`), `SoldWithinLimits` (`CommerceInv`), `OnePayoutPerKey` (`ApiPayoutsInv`), `AllAttemptsMade` (`DeliveriesInv`), `OneAsset` (`TokensInv`), `RoundAddsUp` (`ProjectsInv`), `CancelledRefunded` (`CancelledIsRefunded`) |
| `OrderProofs` | `BookingsSettled` (`BookingsInv`), `IntentsPaidOnce` (`AgentPaymentsInv`), `OneDelivery` (`X402Inv`), `ActionsRunOnce` (`AiActionsInv`), `SentOnce` (`ChainTransfersInv`), `ChainDepositsComplete` (`ChainDepositsInv`), `OneSessionPerLine` (`SessionsInv`) |

A component that is checked next to others has no `Spec` of its own; its behaviours (`BookingsSpec`,
`ProjectsSpec`, ...) are then defined in the proof module, from the same `Init...` and `Next...` that the runs use.

### Assumptions

Each component's `...Assumption`, which TLC evaluates in the runs: finite sets, amounts that are positive,
a fee or share at most what it is taken from. Some say more than that:

* `FeeAssumption` (`Escrow`): a release fee is at most the amount it is taken from, which a percentage schedule
  gives and a flat or minimum fee in `fee_configurations` could break.
* `Withdrawals`: what the legacy payouts had reserved before their provider was replaced, the owners'
  balances cover.
* `Commerce`, `WebhookIntake`, `Tokens`: finitely many handlers at a time. The invariants count them.
* `QrSales`: no sale is both a public one and a purchase from a wallet. They are rows of two tables.
* `Sessions`: what opened a session is a login or the number of a session, and the two are told apart. `ChainDeposits`: there is a first round.

### Arguments

**Escrow.** The inductive invariant is

    IInv == TypeOK /\ Fresh /\ Settled /\ Solvent /\ LockBacked /\ Conserved

None of its parts is inductive alone. That an unlock cannot go below zero
(`Solvent`) needs `LockBacked`: what is unlocked is one summand of the lock
(`HeldBounds`, `HeldIsLocked`). `LockBacked` survives a payment only if what the
contract holds is its principal less the recorded releases, which is `Settled`.
`Fresh` (a contract that was never created has released nothing) makes creation
add exactly the principal. `BackingStep` reduces a step of one contract to the
change of one summand, `MoneyStep` shows that a transaction of balanced increments
conserves the total, `QuietStep` disposes of the actions that touch no row;
`ReleaseStep`, `RefundStep`, `PartialStep` and `CreateStep` do the four transactions,
with `PaySellerRows` and `CreateRows` for the case that buyer, seller and
platform coincide. `Inductive` splits `Next`, and `Invariance` concludes.

**Who holds a claim.** Elsewhere a handler's later steps are right because of what it, and no other
handler, was allowed to do before. So most inductive invariants (`...IInv`) have three parts: of two handlers
past the claim of one row one is the other; the row that is claimed has the status the claim
wrote, and what the handler has moved by then is what its place in the code says; and a row nobody holds
agrees with the money by its status alone. `PayoutsIInv` (withdrawals), `NfcTapsIInv`, `ApiPayoutsIInv`, `X402IInv`, `AiActionsIInv` (for an intent: of its actions and the app, one is past the claim), `BookingsIInv`,
`ChainTransfersIInv` and `AgentPaymentsIInv` are of this form; outside the histories of section 2
(`unwritten`, `unrecorded`, `misled`, `hasty`, ...), which is where the code leaves the form. `FundsIInv` adds that a late report is of a
legacy payout that is closed as paid, whose owner the lock is then excepted for.

**What a stale reader may still believe.** A handler that claims nothing acts on rows it read. `DepositsIInv` and
`IvoryIInv` say for each place of a handler what is still true of those rows whoever moved them meanwhile
(`CallKnows`, `SettlerKnows`: a status seen as final still is, one seen as open may have moved on); `IInv` of `RequestProofs` does so for a request, its milestones
and its contract (`Knows`, `RowSound`), `VerificationsIInv` for a document and its reviewers, `ChainDepositsIInv` for a
poll and the cursor it started from (nothing below a cursor is unseen).

**Counting.** `WebhookIntakeIInv` relates an event's misses to the attempts it still has in the queue, in the background, at a worker and in
the fallback list, by cardinalities (`TriedEnough`). `CommerceIInv` says that what a link has sold,
its open checkouts and the handlers that have taken a use together stay within its uses (`LinksFit`), and that each payment is in one of applied, excepted and lost to a failed write (`MoneyFits`).
`QrSalesIInv` and `CapFits` are sums over the part of the rows that is settled or charged, which grows by one row at a time.
`SessionsIInv` follows the line of refreshes as a sequence: a session has at most one heir, and a session with one is over.

**Projects.** `ProjectsIInv` is the largest. Besides `ProjectsInv`, which has that milestones are released in their order (`StonesInOrder`), it says that the counters of the row fit its status (`RoundFits`),
that what an investment was given back of
what was held, and of the reserve, is each at most in proportion to it (`GivenFits`), that nothing held is given
back before the cancellation (`KeptUntilCancelled`), that one handler refunds (`OneRefund`), that it
has every investment on its list (`RefundKnowsAll`), what each handler may still believe (`ProjCallKnows`), and that what the
project holds covers the shares still due (`RefundFits`), because rounded shares of a sum never exceed
it (`SharesFit`).
The proof found `RefundWithinStake` to be false as it was first stated, without `again`. Of investments of 2, 1 and 1 with a
reserve of 2, the shares of the reserve are 1 and, rounded down, twice 0: a cancellation gives the first investor his
share, and a loss declared meanwhile gives it once more, for what rounding left lets it pass the guard of
`payFromReserveInTx`. `MCBusiness` has an instance where this happens (`NobodyGains` in section 3).

**Sums.** `WalletSums` has what this needs of `SumOver`, which is defined by a recursive
function on subsets: `SumOverIsAdditive` is derived by a least counterexample
(`MinimalSubset`, over finite cardinality), then the change of one summand (`SumOverUpdate`), bounds (`SumOverBound`,
`SumOverMonotone`), parts of a set (`SumOverPart`, `SumOverPartUpdate`, `SumOverRest`), linearity (`SumOverPlus`, `SumOverTimes`),
sums by owner (`SumOverOwners`), and rounded shares (`SharesFit`). For wallet rows, `Increments` and `IncrementTotals` say what one
transaction of increments does, and `CollectTotals`, `MoveTotals` and `PaymentTotals` do so for a credit, a transfer and a payment with a fee.

### Only model-checked

Liveness, which the prover cannot reason about: `DueIsSettled`, `DueIsClosed`, `OutcomeReachesUser`, `PaidIsCredited`, `RememberedIsReflected`, `ArrivedIsSettled`
and `DeliveryEnds`. The disagreements of section 3, which are counterexamples. What `SumOver` and the other recursive functions
compute on concrete data is evaluated in the runs; the proofs use the facts about them above.

## 5. Not modelled, and why

* Limits per day and per payment outside the assistant's and the agents' caps, quotes, destinations, PIN checks and permissions
  are environment: a handler that fails them changes nothing and is one that was
  not made. One-time codes, PIN attempts and their lock-out are counters of one row.
* Ledger rows other than the totals of an escrow, receipts, notifications,
  websocket events, metadata no decision reads. Of the metadata that decisions do read, the
  NOWPayments webhook's whole-object rewrite, which can undo the flag `Link` sets, and the provider identifiers of
  IvoryPay are left out.
* `reconcileCompletedPlatformFees`, which nothing calls; the STK client, which no service uses;
  code after the guard that turns away IvoryPay's withdrawal successes.
* Payouts of merchants (`merchants.service.ts`): they check the balance, reserve nothing and are
  settled by hand outside the code; there is no second step to interleave with.
* Crediting the platform when no super administrator exists (the code logs and
  skips the fee); `Platform` is always a wallet here.
* The fee schedule itself: fees are constants with the bounds a percentage schedule
  gives, and flat or minimum fees larger than an amount would break `FeeAssumption`
  (see the hazards).
* Matching a webhook to its row by reference and amount, fraud scores, exchange rates and quotes: which row is
  meant is part of the event here.
* `reconcile` of chain balances, which an administrator runs while the outbox is empty and which
  moves no FARM of the ledger (a payment made while it runs can be topped up and then sent as
  well, which its own next run reports as `chain_above_ledger`); `readiness`, a report; provider events about a business as an entity besides its check.
* Members and roles of a business, API keys (rotated twice at once they leave two
  keys), merchants' catalogues, statements, analytics, support, settings, uploads: CRUD on single rows.
* HTTP, signatures, encryption, prompts, voice, provider formats.

## 6. Plan

The model covers what moves money or decides who may, and its safety properties are proved. What is
worth adding, in this order:

1. `Fees`: the schedule as a function with its rounding, its percentage, flat and minimum parts, and the theorem that gives
   `FeeAssumption` for the default schedule.
2. An abstract `Credits` (what was collected is credited once, and never taken back) that `QrSales`, `ChainDeposits` and
   `IvoryDeposits` refine, outside their exceptions; the invariants above are what the proofs of it need.
3. What a step may never do, as action properties, where so far only the states are described: a closed withdrawal does not reopen, a
   refreshed session does not come back.
