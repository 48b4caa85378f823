--------------------------- MODULE BusinessEscrow ---------------------------
(***************************************************************************)
(* Business escrow requests: a business asks a buyer to fund an escrow,    *)
(* optionally split into milestones, and the buyer funds it and releases   *)
(* the milestones through EscrowService.  The contracts are those that     *)
(* EscrowContracts promises; this layer keeps its own row per request and  *)
(* copies the state of the linked contract into it (sync).                 *)
(*                                                                         *)
(* No handler here runs in a database transaction: each awaited statement  *)
(* is a step, and a handler in a slot of Calls remembers what it read.     *)
(***************************************************************************)
EXTENDS Integers, Sequences, FiniteSets

CONSTANTS
  Requests,       \* business_escrows rows
  Milestones,     \* their milestone amounts: a sequence for each request
  Total,          \* the amount of each request
  Attempts,       \* contracts that can be created for one request
  NoContract,
  Calls           \* handlers that can be in flight at once

ASSUME RequestAssumption ==
  /\ Milestones \in [Requests -> Seq(Nat \ {0})]
  /\ Total \in [Requests -> Nat \ {0}]
  /\ Attempts \in Nat
  /\ NoContract \notin Requests \X (1 .. Attempts)

Contracts == Requests \X (1 .. Attempts)
Principal == [k \in Contracts |-> Total[k[1]]]

VARIABLES
  status, paid, refunded,   \* the contracts
  request,    \* rows: status, escrow_contract_id, expires_at passed, milestones
  payments,   \* transactions that paid each milestone
  unlinked,   \* requests with a contract whose escrow_contract_id was not written,
  reopened,   \* and those of them that the catch block put back
  call        \* the handler in each slot: its next statement and what it read

Deal == INSTANCE EscrowContracts

contracts == <<status, paid, refunded>>
missing == <<unlinked, reopened>>
vars == <<status, paid, refunded, request, payments, unlinked, reopened, call>>

OPEN == {"created", "awaiting_payment"}
MILESTONE_OPEN == {"funded", "in_progress", "release_requested"}
Statuses == OPEN \cup MILESTONE_OPEN \cup {"released", "expired", "disputed"}
MilestoneStatuses == {"pending", "release_requested", "releasing", "released"}

Idle == [at |-> "idle"]

Points(r) == DOMAIN Milestones[r]
Plans(r) == [Points(r) -> MilestoneStatuses]

\* `at` is the statement a handler awaits next.
Handlers == UNION {
  [at : {"claim", "create", "link"}, req : {r}, contract : Contracts \cup {NoContract}]
  \cup [at : {"ask", "release", "pay", "record", "close"},
        req : {r}, index : Points(r), read : Plans(r)]
  \cup [at : {"sync"}, req : {r}, next : Statuses] : r \in Requests}

TypeOK ==
  /\ status \in [Contracts -> {"none", "active", "disputed", "completed", "refunded"}]
  /\ paid \in [Contracts -> Nat] /\ refunded \in [Contracts -> Nat]
  /\ DOMAIN request = Requests /\ DOMAIN payments = Requests
  /\ \A r \in Requests :
       /\ request[r] \in [status : Statuses, link : Contracts \cup {NoContract},
                          due : BOOLEAN, ms : Plans(r)]
       /\ payments[r] \in [Points(r) -> Nat]
  /\ reopened \subseteq unlinked /\ unlinked \subseteq Requests
  /\ call \in [Calls -> {Idle} \cup Handlers]

Init ==
  /\ Deal!Init
  /\ request = [r \in Requests |->
       [status |-> "created", link |-> NoContract, due |-> FALSE,
        ms |-> [i \in Points(r) |-> "pending"]]]
  /\ payments = [r \in Requests |-> [i \in Points(r) |-> 0]]
  /\ unlinked = {} /\ reopened = {}
  /\ call = [c \in Calls |-> Idle]

----------------------------------------------------------------------------
(* sync: expire unfunded requests, then mirror the linked contract.        *)

Expired(row) == IF row.status \in OPEN /\ row.due
                THEN [row EXCEPT !.status = "expired"] ELSE row

\* The status a row should show, given its contract; its own when nothing changes.
Mirrored(row) ==
  IF row.link = NoContract \/ row.status \in {"released", "expired"}
  THEN row.status
  ELSE CASE status[row.link] = "completed" -> "released"
         [] status[row.link] = "disputed"  -> "disputed"
         [] status[row.link] = "refunded"  -> "expired"
         [] OTHER -> row.status

Synced(row) == LET now == Expired(row) IN [now EXCEPT !.status = Mirrored(now)]

Row(r) == Synced(request[r])

\* A handler that ends by reading the request back syncs it once more.
Save(r, row) == request' = [request EXCEPT ![r] = Synced(row)]

Begin(c, handler) == call[c] = Idle /\ call' = [call EXCEPT ![c] = handler]
Go(c, from, to) == call[c].at = from /\ call' = [call EXCEPT ![c].at = to]
End(c, from) == call[c].at \in from /\ call' = [call EXCEPT ![c] = Idle]

\* list, get and incoming: the contract is read, and the row written later.
BeginSync(c, r) ==
  LET row == Expired(request[r])
      next == Mirrored(row)
  IN  /\ IF next = row.status
         THEN row # request[r] /\ UNCHANGED call
         ELSE Begin(c, [at |-> "sync", req |-> r, next |-> next])
      /\ request' = [request EXCEPT ![r] = row]
      /\ UNCHANGED <<contracts, missing, payments>>

CommitSync(c) ==
  /\ End(c, {"sync"})
  /\ request' = [request EXCEPT ![call[c].req].status = call[c].next]
  /\ UNCHANGED <<contracts, missing, payments>>

----------------------------------------------------------------------------
(* The business: conditional updates of the row.                           *)

Update(r, from, to) ==
  /\ Row(r).status \in from
  /\ Save(r, [Row(r) EXCEPT !.status = to])
  /\ UNCHANGED <<contracts, missing, payments, call>>

Send(r) == request[r].status = "created" /\ Update(r, {"created"}, "awaiting_payment")

Start(r) == Update(r, {"funded"}, "in_progress")

RequestRelease(r) == Update(r, {"funded", "in_progress"}, "release_requested")

\* cancel does not sync first.
Cancel(r) ==
  /\ request[r].status \in OPEN
  /\ request' = [request EXCEPT ![r].status = "expired"]
  /\ UNCHANGED <<contracts, missing, payments, call>>

\* requestMilestone: the row is read, then written if its milestones are unchanged.
BeginAsk(c, r, i) ==
  /\ Row(r).status \in MILESTONE_OPEN
  /\ Row(r).ms[i] = "pending"
  /\ Begin(c, [at |-> "ask", req |-> r, index |-> i, read |-> Row(r).ms])
  /\ request' = [request EXCEPT ![r] = Row(r)]
  /\ UNCHANGED <<contracts, missing, payments>>

CommitAsk(c) ==
  LET h == call[c]
  IN  /\ End(c, {"ask"})
      /\ request[h.req].ms = h.read
      /\ Save(h.req, [request[h.req] EXCEPT !.ms[h.index] = "release_requested"])
      /\ UNCHANGED <<contracts, missing, payments>>

----------------------------------------------------------------------------
(* The buyer funds a request.                                              *)

BeginFund(c, r) ==
  /\ Row(r).status = "awaiting_payment"
  /\ Begin(c, [at |-> "claim", req |-> r, contract |-> NoContract])
  /\ request' = [request EXCEPT ![r] = Row(r)]
  /\ UNCHANGED <<contracts, missing, payments>>

\* Faulty: the status was checked when the row was read, and is not checked again.
ClaimFundBlind(c) ==
  /\ Go(c, "claim", "create")
  /\ request' = [request EXCEPT ![call[c].req].status = "funded"]
  /\ UNCHANGED <<contracts, missing, payments>>

\* "Claim first so the same request cannot be funded twice."
ClaimFund(c) ==
  /\ Go(c, "claim", "create")
  /\ request[call[c].req].status = "awaiting_payment"
  /\ request' = [request EXCEPT ![call[c].req].status = "funded"]
  /\ UNCHANGED <<contracts, missing, payments>>

\* EscrowService.create commits a contract of the buyer and the owner, the next of
\* the request's.
CreateContract(c, k) ==
  /\ call[c].at = "create" /\ k[1] = call[c].req
  /\ \A n \in 1 .. k[2] - 1 : status[<<k[1], n>>] # "none"
  /\ call' = [call EXCEPT ![c].at = "link", ![c].contract = k]
  /\ Deal!Fund(k)
  /\ UNCHANGED <<request, payments, missing>>

LinkContract(c) ==
  /\ End(c, {"link"})
  /\ request' = [request EXCEPT ![call[c].req].link = call[c].contract]
  /\ UNCHANGED <<contracts, missing, payments>>

\* The catch block puts the request back, whatever its row says by now.
PutBack(c) == request' = [request EXCEPT ![call[c].req].status = "awaiting_payment"]

FundFails(c) ==
  /\ End(c, {"create"}) /\ PutBack(c)
  /\ UNCHANGED <<contracts, missing, payments>>

\* Linking the contract that was created fails, and the same catch block runs.
LinkFails(c) ==
  /\ End(c, {"link"}) /\ PutBack(c)
  /\ unlinked' = unlinked \cup {call[c].req}
  /\ reopened' = reopened \cup {call[c].req}
  /\ UNCHANGED <<contracts, payments>>

----------------------------------------------------------------------------
(* The buyer releases a milestone.                                         *)

BeginMilestone(c, r, i) ==
  /\ Row(r).link # NoContract /\ Row(r).status \in MILESTONE_OPEN
  /\ Row(r).ms[i] \in {"pending", "release_requested"}
  /\ Begin(c, [at |-> "release", req |-> r, index |-> i, read |-> Row(r).ms])
  /\ request' = [request EXCEPT ![r] = Row(r)]
  /\ UNCHANGED <<contracts, missing, payments>>

Claim(c, mark) ==
  LET h == call[c]
  IN  /\ Go(c, "release", "pay")
      /\ request[h.req].ms = h.read
      /\ request' = [request EXCEPT ![h.req].ms[h.index] = mark]
      /\ UNCHANGED <<contracts, missing, payments>>

\* Faulty: the milestone is marked released before EscrowService has paid it.
ClaimMilestoneEarly(c) == Claim(c, "released")

\* "Claim the milestone first (optimistic lock on the JSON)."
ClaimMilestone(c) == Claim(c, "releasing")

\* EscrowService.releasePartial commits, and tells whether the contract is empty.
PayMilestone(c) ==
  LET h == call[c]
      k == request[h.req].link
  IN  /\ h.at = "pay"
      /\ Deal!Pay(k, Milestones[h.req][h.index])
      /\ Go(c, "pay", IF status'[k] = "completed" THEN "close" ELSE "record")
      /\ payments' = [payments EXCEPT ![h.req][h.index] = @ + 1]
      /\ UNCHANGED <<request, missing>>

\* The milestones as they were when claimed are written back, this one released;
\* the payment that emptied the contract closes the request as well.
RecordMilestone(c) ==
  LET h == call[c]
  IN  /\ End(c, {"record", "close"})
      /\ request' = [request EXCEPT
                       ![h.req].ms = [h.read EXCEPT ![h.index] = "released"],
                       ![h.req].status = IF h.at = "close" THEN "released" ELSE @]
      /\ UNCHANGED <<contracts, missing, payments>>

\* The catch block restores the milestones as they were read, before the payment or
\* after it.
MilestoneFails(c) ==
  /\ End(c, {"pay", "record", "close"})
  /\ request' = [request EXCEPT ![call[c].req].ms = call[c].read]
  /\ UNCHANGED <<contracts, missing, payments>>

----------------------------------------------------------------------------
(* Everything else.                                                        *)

\* The parties, the auto-release job and the administrator act on the contract.
Elsewhere(k) ==
  /\ \/ Deal!Pay(k, Principal[k] - paid[k]) \/ Deal!Dispute(k)
     \/ Deal!Award(k) \/ Deal!Refund(k)
  /\ UNCHANGED <<request, payments, missing, call>>

\* expires_at passes.
Deadline(r) ==
  /\ ~request[r].due
  /\ request' = [request EXCEPT ![r].due = TRUE]
  /\ UNCHANGED <<contracts, missing, payments, call>>

\* A claim that matched no row ends the handler.
Lost(c) ==
  /\ End(c, {"claim", "release", "ask"})
  /\ IF call[c].at = "claim" THEN request[call[c].req].status # "awaiting_payment"
                             ELSE request[call[c].req].ms # call[c].read
  /\ UNCHANGED <<contracts, missing, request, payments>>

\* The process restarts between two statements of its handlers.
Restart ==
  /\ \E c \in Calls : call[c] # Idle
  /\ call' = [c \in Calls |-> Idle]
  /\ unlinked' = unlinked \cup {call[c].req : c \in {d \in Calls : call[d].at = "link"}}
  /\ UNCHANGED <<contracts, request, payments, reopened>>

Next ==
  \/ \E r \in Requests :
       Send(r) \/ Start(r) \/ RequestRelease(r) \/ Cancel(r) \/ Deadline(r)
  \/ \E c \in Calls :
       \/ \E r \in Requests :
            \/ BeginSync(c, r) \/ BeginFund(c, r)
            \/ \E i \in Points(r) : BeginAsk(c, r, i) \/ BeginMilestone(c, r, i)
       \/ CommitSync(c) \/ CommitAsk(c) \/ Lost(c)
       \/ ClaimFund(c) \/ LinkContract(c) \/ FundFails(c) \/ LinkFails(c)
       \/ \E k \in Contracts : CreateContract(c, k)
       \/ ClaimMilestone(c) \/ PayMilestone(c) \/ RecordMilestone(c)
       \/ MilestoneFails(c)
  \/ \E k \in Contracts : Elsewhere(k)
  \/ Restart

Spec == Init /\ [][Next]_vars

----------------------------------------------------------------------------
(* Properties.                                                             *)

ContractsOf(r) == {k \in Contracts : k[1] = r /\ status[k] # "none"}

\* A request is never paid into two contracts: concurrent attempts to fund it, failed
\* ones and restarts between their statements included.  Only the catch block opens
\* one again that has a contract, when linking it fails.
FundedOnce == \A r \in Requests \ reopened : Cardinality(ContractsOf(r)) <= 1

\* A contract made for a request is the one it names, as soon as the handler that
\* made it has written so, and from then on; unless that write failed or was never
\* reached.
NamesItsContract ==
  \A r \in Requests :
    /\ request[r].link # NoContract => request[r].link \in ContractsOf(r)
    /\ r \notin unlinked =>
         \A k \in ContractsOf(r) :
           request[r].link = k \/ \E c \in Calls : call[c].at = "link" /\ call[c].contract = k

\* Once a request is withdrawn or has expired, no contract made for it still holds
\* the buyer's money, or it was opened again after it had one.
ExpiredHoldsNothing ==
  \A r \in Requests \ reopened : request[r].status = "expired"
    => \A k \in ContractsOf(r) : status[k] \notin {"active", "disputed"}

\* A request shown as released has a contract that was paid out in full.
ReleasedIsPaid ==
  \A r \in Requests : request[r].status = "released"
    => \E k \in ContractsOf(r) : status[k] = "completed" /\ paid[k] = Principal[k]

\* A milestone shown as released has been paid, although every write of the
\* milestones writes what the handler knew of the others.
ReleasedMilestoneIsPaid ==
  \A r \in Requests : \A i \in Points(r) :
    request[r].ms[i] = "released" => payments[r][i] >= 1

\* "... so it cannot be released twice."
MilestonePaidOnce == \A r \in Requests : \A i \in Points(r) : payments[r][i] <= 1

\* Requests whose rows are updated apart from the contracts: one is funded in one
\* contract, names it, and holds nothing when it expires, but for the two ways of
\* losing the link that `unlinked` and `reopened` keep.
RequestsInv == TypeOK /\ FundedOnce /\ NamesItsContract /\ ExpiredHoldsNothing

\* What a request or one of its milestones shows as released was paid to the seller.
ReleasesInv == ReleasedIsPaid /\ ReleasedMilestoneIsPaid

=============================================================================
