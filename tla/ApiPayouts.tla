----------------------------- MODULE ApiPayouts ------------------------------
(***************************************************************************)
(* Payouts that a business asks for through the API or the dashboard.  The *)
(* row of the Idempotency-Key is claimed, a withdrawal is created, and the *)
(* outcome is written; clients repeat calls that were not answered.        *)
(***************************************************************************)
EXTENDS Integers, FiniteSets

CONSTANTS Keys, Clients   \* Idempotency-Keys, calls in flight

VARIABLES
  payout,    \* status of the business_api_payouts row
  withdrawn, \* withdrawals created under the key
  unwritten, \* keys whose outcome could not be written
  payoutCall

payoutVars == <<payout, withdrawn, unwritten, payoutCall>>

NoCall == [op |-> "idle"]

ApiPayoutsTypeOK ==
  /\ payout \in [Keys -> {"none", "processing", "submitted", "failed"}]
  /\ withdrawn \in [Keys -> Nat] /\ unwritten \subseteq Keys
  /\ payoutCall \in [Clients -> {NoCall} \cup [op : {"asked", "claimed", "created"}, id : Keys]]

InitApiPayouts ==
  /\ payout = [k \in Keys |-> "none"]
  /\ withdrawn = [k \in Keys |-> 0] /\ unwritten = {}
  /\ payoutCall = [c \in Clients |-> NoCall]

CallTo(c, from, to) ==
  /\ payoutCall[c].op = from
  /\ payoutCall' = [payoutCall EXCEPT ![c].op = to]

CallEnds(c, op) ==
  /\ payoutCall[c].op = op
  /\ payoutCall' = [payoutCall EXCEPT ![c] = NoCall]

Ask(c, k) ==
  /\ payoutCall[c] = NoCall
  /\ payoutCall' = [payoutCall EXCEPT ![c] = [op |-> "asked", id |-> k]]
  /\ UNCHANGED <<payout, withdrawn, unwritten>>

\* Faulty: a key whose call is not answered yet is taken over.
RetryableWhenOpen(k) == payout[k] # "submitted"

\* The unique index, or updateMany where { status: 'failed' }: "allow a retry,
\* but only one at a time".
Retryable(k) == payout[k] \in {"none", "failed"}

ClaimKey(c) ==
  LET k == payoutCall[c].id
  IN  /\ CallTo(c, "asked", "claimed") /\ Retryable(k)
      /\ payout' = [payout EXCEPT ![k] = "processing"]
      /\ UNCHANGED <<withdrawn, unwritten>>

\* The first answer again, or "still being processed".
ClaimKeyLost(c) ==
  /\ CallEnds(c, "asked") /\ ~Retryable(payoutCall[c].id)
  /\ UNCHANGED <<payout, withdrawn, unwritten>>

CreatePayout(c) ==
  /\ CallTo(c, "claimed", "created")
  /\ withdrawn' = [withdrawn EXCEPT ![payoutCall[c].id] = @ + 1]
  /\ UNCHANGED <<payout, unwritten>>

CreatePayoutRefused(c) ==
  /\ CallEnds(c, "claimed")
  /\ payout' = [payout EXCEPT ![payoutCall[c].id] = "failed"]
  /\ UNCHANGED <<withdrawn, unwritten>>

WriteOutcome(c) ==
  /\ CallEnds(c, "created")
  /\ payout' = [payout EXCEPT ![payoutCall[c].id] = "submitted"]
  /\ UNCHANGED <<withdrawn, unwritten>>

\* The catch of a refused withdrawal takes the failed write for one.  Once for a key:
\* a bound.
WriteOutcomeFails(c) ==
  /\ CallEnds(c, "created") /\ payoutCall[c].id \notin unwritten
  /\ payout' = [payout EXCEPT ![payoutCall[c].id] = "failed"]
  /\ unwritten' = unwritten \cup {payoutCall[c].id}
  /\ UNCHANGED withdrawn

PayoutRestart ==
  /\ \E c \in Clients : payoutCall[c] # NoCall
  /\ payoutCall' = [c \in Clients |-> NoCall]
  /\ UNCHANGED <<payout, withdrawn, unwritten>>

NextApiPayouts ==
  \/ \E c \in Clients :
       \/ \E k \in Keys : Ask(c, k)
       \/ ClaimKey(c) \/ ClaimKeyLost(c) \/ CreatePayout(c) \/ CreatePayoutRefused(c)
       \/ WriteOutcome(c) \/ WriteOutcomeFails(c)
  \/ PayoutRestart

\* A key makes one withdrawal, however often its call is repeated, at once or
\* after a restart, and one that is shown as submitted made it.
PayoutOncePerKey ==
  \A k \in Keys \ unwritten :
    withdrawn[k] <= 1 /\ (payout[k] = "submitted" => withdrawn[k] = 1)

\* "failed before any money moved: allow a retry"
FailedMovedNothing == \A k \in Keys : payout[k] = "failed" => withdrawn[k] = 0

\* Requests repeated with one idempotency key, together or after a failure, pay out
\* once.
ApiPayoutsInv == ApiPayoutsTypeOK /\ PayoutOncePerKey

=============================================================================
