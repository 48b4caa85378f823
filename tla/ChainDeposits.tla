---------------------------- MODULE ChainDeposits ----------------------------
(***************************************************************************)
(* Custodial Algorand accounts: an account is funded and opted in to two   *)
(* assets before it is ready, a poll finds what was paid to the accounts   *)
(* since the round it stored last, and what was found is credited in FARM  *)
(* when there is a rate.  The chain is known from a node, which gives the  *)
(* current round, and from an indexer, which may be behind.                *)
(***************************************************************************)
EXTENDS Shared

CONSTANTS
  Holders,          \* users with an account
  Payments, Payee,
  Native,           \* payments in ALGO; the others are in USDC or FARM
  LastRound         \* bound on the rounds of the chain

ASSUME ChainDepositsAssumption ==
  /\ Holders \subseteq Users /\ IsFiniteSet(Payments) /\ Native \subseteq Payments
  /\ Payee \in [Payments -> Holders] /\ LastRound \in Nat \ {0}

VARIABLES
  account,   \* status of the user_chain_wallets row
  head,      \* round of the node
  indexed,   \* round of the indexer
  paidIn,    \* round of a payment, 0 before it is made
  cursor,    \* last_round of the chain_sync_state rows, 0 before there is one
  deposited, \* status of the chain_deposits row
  credits,   \* how often it was credited to its payee's wallet
  skipped,   \* payments the cursor could not see when it passed them
  chainCall

depositVars ==
  <<account, head, indexed, paidIn, cursor, deposited, credits, skipped, chainCall>>

Feeds == {"assets", "algo"}

ChainDepositsTypeOK ==
  /\ account \in [Holders -> {"none", "created", "provisioning", "ready", "failed"}]
  /\ head \in 1 .. LastRound /\ indexed \in 1 .. head
  /\ paidIn \in [Payments -> 0 .. LastRound]
  /\ cursor \in [Feeds -> 0 .. LastRound]
  /\ deposited \in [Payments -> {"none", "detected", "pending_rate", "credited"}]
  /\ credits \in [Payments -> Nat]
  /\ skipped \subseteq Payments
  /\ DOMAIN chainCall = Calls

InitChainDeposits ==
  /\ account = [u \in Holders |-> "none"]
  /\ head = 1 /\ indexed = 1
  /\ paidIn = [p \in Payments |-> 0]
  /\ cursor = [f \in Feeds |-> 0]
  /\ deposited = [p \in Payments |-> "none"]
  /\ credits = [p \in Payments |-> 0]
  /\ skipped = {}
  /\ chainCall = Idles

ChainGoes(c, from, call) ==
  chainCall[c].op = from /\ chainCall' = [chainCall EXCEPT ![c] = call]

----------------------------------------------------------------------------
(* Accounts.                                                               *)

\* mine: the unique index leaves one account.
CreateAccount(u) ==
  /\ account[u] = "none"
  /\ account' = [account EXCEPT ![u] = "created"]
  /\ UNCHANGED <<head, indexed, paidIn, cursor, deposited, skipped, chainCall, credits>>

Provision(c, u) ==
  /\ account[u] \in {"created", "failed"}
  /\ ChainGoes(c, "idle", [op |-> "provision", id |-> u])
  /\ account' = [account EXCEPT ![u] = "provisioning"]
  /\ UNCHANGED <<head, indexed, paidIn, cursor, deposited, skipped, credits>>

Provisioned(c, status) ==
  /\ ChainGoes(c, "provision", Idle)
  /\ account' = [account EXCEPT ![chainCall[c].id] = status]
  /\ UNCHANGED <<head, indexed, paidIn, cursor, deposited, skipped, credits>>

----------------------------------------------------------------------------
(* The chain.                                                              *)

\* ALGO can be paid to any account, an asset to one that is opted in.
PayIn(p) ==
  /\ paidIn[p] = 0
  /\ account[Payee[p]] \in IF p \in Native THEN {"created", "provisioning", "failed", "ready"}
                           ELSE {"ready"}
  /\ head < LastRound
  /\ head' = head + 1 /\ paidIn' = [paidIn EXCEPT ![p] = head + 1]
  /\ UNCHANGED <<account, indexed, cursor, deposited, skipped, chainCall, credits>>

IndexerFollows ==
  /\ indexed < head /\ indexed' = indexed + 1
  /\ UNCHANGED <<account, head, paidIn, cursor, deposited, skipped, chainCall, credits>>

----------------------------------------------------------------------------
(* The poll: of the job of each server, or of an administrator.            *)

Feed(p) == IF p \in Native THEN "algo" ELSE "assets"

\* "nothing before go-live is backfilled"
StartFeed(f) ==
  /\ cursor[f] = 0
  /\ cursor' = [cursor EXCEPT ![f] = head]
  /\ skipped' = skipped \cup {p \in Payments : Feed(p) = f /\ paidIn[p] \in 1 .. head - 1}
  /\ UNCHANGED <<account, head, indexed, paidIn, deposited, chainCall, credits>>

\* The cursor, and for ALGO the current round and the accounts that are ready.
ReadCursor(c, f) ==
  /\ cursor[f] > 0
  /\ ChainGoes(c, "idle", [op |-> "poll", feed |-> f, since |-> cursor[f], upTo |-> head,
       watched |-> {u \in Holders : f = "assets" \/ account[u] = "ready"}])
  /\ UNCHANGED <<account, head, indexed, paidIn, cursor, deposited, skipped, credits>>

Found(call) ==
  {p \in Payments : /\ paidIn[p] # 0 /\ Feed(p) = call.feed /\ Payee[p] \in call.watched
                    /\ paidIn[p] >= call.since /\ paidIn[p] <= indexed}

\* Faulty: what was found before is recorded again.
RecordAgain(p) == "detected"

\* createMany with skipDuplicates: (network, tx_id, asset_id) is unique.
Recorded(p) == IF deposited[p] = "none" THEN "detected" ELSE deposited[p]

RecordFound(c) ==
  LET call == chainCall[c]
      rounds == {paidIn[p] : p \in {q \in Payments : Feed(q) = "assets" /\ paidIn[q] <= indexed}}
      latest == CHOOSE r \in rounds \cup {call.since} : \A x \in rounds \cup {call.since} : x <= r
  IN  /\ call.op = "poll"
      /\ deposited' = [p \in Payments |-> IF p \in Found(call) THEN Recorded(p) ELSE deposited[p]]
      /\ ChainGoes(c, "poll", [op |-> "store", feed |-> call.feed, since |-> call.since,
           round |-> IF call.feed = "algo" THEN call.upTo ELSE latest,
           missed |-> IF call.feed = "algo"
                      THEN {p \in Native : paidIn[p] > indexed \/ Payee[p] \notin call.watched}
                      ELSE {}])
      /\ UNCHANGED <<account, head, indexed, paidIn, cursor, skipped, credits>>

\* "Rounds up to `head` were covered for every address": not if the indexer is
\* behind the node, or an account was not ready.
StoreCursor(c) ==
  LET call == chainCall[c]
  IN  /\ ChainGoes(c, "store", Idle)
      /\ cursor' = IF call.round > call.since
                   THEN [cursor EXCEPT ![call.feed] = call.round] ELSE cursor
      /\ skipped' = skipped \cup {p \in call.missed : paidIn[p] < call.round}
      /\ UNCHANGED <<account, head, indexed, paidIn, deposited, credits>>

----------------------------------------------------------------------------
(* Credits.                                                                *)

Uncredited(p) == deposited[p] \in {"detected", "pending_rate"}

ReadDeposit(c, p) ==
  /\ Uncredited(p)
  /\ ChainGoes(c, "idle", [op |-> "credit", id |-> p])
  /\ UNCHANGED <<account, head, indexed, paidIn, cursor, deposited, skipped, credits>>

\* "No live rate: hold, never guess."
NoRate(c) ==
  LET p == chainCall[c].id
  IN  /\ ChainGoes(c, "credit", Idle)
      /\ deposited' = IF deposited[p] = "detected"
                      THEN [deposited EXCEPT ![p] = "pending_rate"] ELSE deposited
      /\ UNCHANGED <<account, head, indexed, paidIn, cursor, skipped, credits>>

\* credit, after claiming the row.
CreditPayment(c) ==
  LET p == chainCall[c].id
  IN  /\ ChainGoes(c, "credit", Idle)
      /\ IF Uncredited(p)
         THEN /\ deposited' = [deposited EXCEPT ![p] = "credited"]
              /\ credits' = [credits EXCEPT ![p] = @ + 1]
         ELSE UNCHANGED <<deposited, credits>>
      /\ UNCHANGED <<account, head, indexed, paidIn, cursor, skipped>>

\* An account that was being provisioned stays so.
ChainRestart ==
  /\ chainCall # Idles /\ chainCall' = Idles
  /\ UNCHANGED <<account, head, indexed, paidIn, cursor, deposited, skipped, credits>>

NextChainDeposits ==
  \/ \E u \in Holders : CreateAccount(u) \/ \E c \in Calls : Provision(c, u)
  \/ \E p \in Payments : PayIn(p) \/ \E c \in Calls : ReadDeposit(c, p)
  \/ IndexerFollows
  \/ \E f \in Feeds : StartFeed(f) \/ \E c \in Calls : ReadCursor(c, f)
  \/ \E c \in Calls :
       \/ \E status \in {"ready", "failed"} : Provisioned(c, status)
       \/ RecordFound(c) \/ StoreCursor(c) \/ NoRate(c) \/ CreditPayment(c)
  \/ ChainRestart

----------------------------------------------------------------------------
(* Properties.                                                             *)

\* Each payment is credited once, whoever polls and credits at the same time.
PaymentCreditedOnce ==
  \A p \in Payments :
    /\ credits[p] <= 1
    /\ deposited[p] = "credited" <=> credits[p] = 1
    /\ credits[p] = 1 => paidIn[p] > 0

\* A payment that the poll goes past is recorded: of assets all since the first
\* poll, of ALGO those the indexer and the accounts were ready for.
NothingPassedOver ==
  \A p \in Payments \ skipped :
    paidIn[p] > 0 /\ paidIn[p] < cursor[Feed(p)] => deposited[p] # "none"

\* The polls of the two feeds and the checks of administrators: a payment on chain is
\* credited once, and none is passed over but those the code skips.
ChainDepositsInv == ChainDepositsTypeOK /\ PaymentCreditedOnce /\ NothingPassedOver

=============================================================================
