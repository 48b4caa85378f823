---------------------------- MODULE AgentPayments ----------------------------
(***************************************************************************)
(* Payment intents of a business, which payers pay with their PIN, their   *)
(* refunds, and the requests of a business's agent: the agent asks a user  *)
(* to pay an intent under an authorization whose caps the user has set.    *)
(*                                                                         *)
(* One business, one authorization, one day: the caps of a month and of a  *)
(* payment are weaker forms of the day's.                                  *)
(***************************************************************************)
EXTENDS Shared

CONSTANTS
  Intents, Asked,      \* Asked[i]: the amount of the intent
  Seller, Grantor,     \* owner of the business, and who authorized its agent
  Requests, DayCap,    \* agent_payment_requests, daily_cap
  Portions             \* amounts a refund may be for

Nobody == "nobody"
NoIntent == "no intent"

ASSUME AgentPaymentsAssumption ==
  /\ IsFiniteSet(Intents) /\ IsFiniteSet(Requests)
  /\ Asked \in [Intents -> Nat \ {0}]
  /\ {Seller, Grantor} \subseteq Users \ {Nobody} /\ Seller # Grantor
  /\ NoIntent \notin Intents
  /\ DayCap \in Nat /\ Portions \subseteq Nat \ {0}

VARIABLES
  intent,    \* the payment_intents rows
  intentPaid,  \* transfers made for the intent
  returned,  \* FARM that went back to its payer
  ask,       \* the agent_payment_requests rows
  mandate,   \* status of the agent_authorizations row
  agentCall

agentVars == <<intent, intentPaid, returned, ask, mandate, agentCall>>

IntentStatuses ==
  {"requires_payment", "processing", "succeeded", "partially_refunded",
   "refunded", "canceled", "expired"}

RequestStatuses ==
  {"none", "pending", "processing", "confirmed", "rejected", "failed", "canceled", "expired"}

AgentPaymentsTypeOK ==
  /\ wallet \in [Users -> Row]
  /\ intent \in [Intents -> [status : IntentStatuses, payer : Users \cup {Nobody}, refunded : Nat]]
  /\ intentPaid \in [Intents -> Nat] /\ returned \in [Intents -> Nat]
  /\ ask \in [Requests -> [status : RequestStatuses, intent : Intents \cup {NoIntent}]]
  /\ mandate \in {"none", "active", "revoked"}
  /\ DOMAIN agentCall = Calls

InitAgentPayments ==
  /\ intent = [i \in Intents |-> [status |-> "requires_payment", payer |-> Nobody, refunded |-> 0]]
  /\ intentPaid = [i \in Intents |-> 0] /\ returned = [i \in Intents |-> 0]
  /\ ask = [r \in Requests |-> [status |-> "none", intent |-> NoIntent]]
  /\ mandate = "none"
  /\ agentCall = Idles

Become(c, op) == agentCall' = [agentCall EXCEPT ![c].op = op]
Leave(c) == agentCall' = [agentCall EXCEPT ![c] = Idle]
SetAsk(r, status) == ask' = [ask EXCEPT ![r].status = status]

\* A handler started by a confirmed request has it in "ask", others have {}.
Answers(c, status) ==
  ask' = [r \in Requests |->
            IF r \in agentCall[c].ask THEN [ask[r] EXCEPT !.status = status] ELSE ask[r]]

----------------------------------------------------------------------------
(* Intents.                                                                *)

\* expireIntents, before every read.
ExpireIntent(i) ==
  /\ intent[i].status = "requires_payment"
  /\ intent' = [intent EXCEPT ![i].status = "expired"]
  /\ UNCHANGED <<wallet, intentPaid, returned, ask, mandate, agentCall>>

CancelIntent(i) ==
  /\ intent[i].status = "requires_payment"
  /\ intent' = [intent EXCEPT ![i].status = "canceled"]
  /\ ask' = [r \in Requests |->
               IF ask[r].intent = i /\ ask[r].status = "pending"
               THEN [ask[r] EXCEPT !.status = "canceled"] ELSE ask[r]]
  /\ UNCHANGED <<wallet, intentPaid, returned, mandate, agentCall>>

\* payIntent reads the intent.
PayerCall(op, i, u, asks) == [op |-> op, id |-> i, by |-> u, ask |-> asks]

BeginPay(c, i, u) ==
  /\ agentCall[c] = Idle
  /\ intent[i].status = "requires_payment" /\ u # Seller
  /\ agentCall' = [agentCall EXCEPT ![c] = PayerCall("claim", i, u, {})]
  /\ UNCHANGED <<wallet, intent, intentPaid, returned, ask, mandate>>

\* status === 'succeeded' && payer_user_id === payerId
PaidBy(i, u) == intent[i].status = "succeeded" /\ intent[i].payer = u

\* where: { status: 'requires_payment', expires_at: { gt: new Date() } }
Payable(i) == intent[i].status = "requires_payment"

ClaimIntent(c) ==
  LET i == agentCall[c].id
  IN  /\ agentCall[c].op = "claim" /\ Payable(i)
      /\ intent' = [intent EXCEPT ![i].status = "processing", ![i].payer = agentCall[c].by]
      /\ Become(c, "claimed")
      /\ UNCHANGED <<wallet, intentPaid, returned, ask, mandate>>

\* "This payment is no longer payable": Gone, which fails a request for good.
ClaimIntentLost(c) ==
  /\ agentCall[c].op = "claim" /\ ~Payable(agentCall[c].id)
  /\ Answers(c, "failed")
  /\ Leave(c)
  /\ UNCHANGED <<wallet, intent, intentPaid, returned, mandate>>

SendIntent(c) ==
  LET i == agentCall[c].id
  IN  /\ agentCall[c].op = "claimed"
      /\ CanSpend(agentCall[c].by, Asked[i])
      /\ wallet' = Sell(agentCall[c].by, Seller, Asked[i], 0, 0)
      /\ intentPaid' = [intentPaid EXCEPT ![i] = @ + 1]
      /\ Become(c, "sent")
      /\ UNCHANGED <<intent, returned, ask, mandate>>

\* sendFunds refuses: the claim is given up, and the request can be tried again,
\* unless the account may not send (Forbidden, other than a wrong PIN).
SendIntentFails(c) ==
  LET i == agentCall[c].id
  IN  /\ agentCall[c].op = "claimed"
      /\ intent' = [intent EXCEPT ![i] =
                      IF @.status = "processing"
                      THEN [@ EXCEPT !.status = "requires_payment", !.payer = Nobody] ELSE @]
      /\ Answers(c, "pending") \/ Answers(c, "failed")
      /\ Leave(c)
      /\ UNCHANGED <<wallet, intentPaid, returned, mandate>>

RecordIntent(c) ==
  LET i == agentCall[c].id
  IN  /\ agentCall[c].op = "sent"
      /\ intent' = [intent EXCEPT ![i].status = "succeeded"]
      /\ IF agentCall[c].ask = {} THEN Leave(c) ELSE Become(c, "recorded")
      /\ UNCHANGED <<wallet, intentPaid, returned, ask, mandate>>

\* A write after the transfer fails: the request is offered again.
RecordIntentFails(c) ==
  /\ agentCall[c].op \in {"sent", "recorded"}
  /\ Answers(c, "pending")
  /\ Leave(c)
  /\ UNCHANGED <<wallet, intent, intentPaid, returned, mandate>>

----------------------------------------------------------------------------
(* Refunds.                                                                *)

BeginRefund(c, i, amount) ==
  /\ agentCall[c] = Idle
  /\ intent[i].status \in {"succeeded", "partially_refunded"}
  /\ amount <= Asked[i] - intent[i].refunded
  /\ agentCall' = [agentCall EXCEPT ![c] =
                     [op |-> "refund", id |-> i, amount |-> amount, seen |-> intent[i], ask |-> {}]]
  /\ UNCHANGED <<wallet, intent, intentPaid, returned, ask, mandate>>

\* Faulty: the row is written by id.
UnchangedSinceAnyway(c) == TRUE

\* "Optimistic lock on amount_refunded prevents concurrent over-refunds."
UnchangedSince(c) ==
  LET now == intent[agentCall[c].id]
  IN  now.refunded = agentCall[c].seen.refunded /\ now.status = agentCall[c].seen.status

Refundable(c) == UnchangedSince(c) /\ wallet[Seller].balance >= agentCall[c].amount

CommitIntentRefund(c) ==
  LET i == agentCall[c].id
      sum == agentCall[c].seen.refunded + agentCall[c].amount
  IN  /\ agentCall[c].op = "refund" /\ Refundable(c)
      /\ wallet' = Sell(Seller, intent[i].payer, agentCall[c].amount, 0, 0)
      /\ returned' = [returned EXCEPT ![i] = @ + agentCall[c].amount]
      /\ intent' = [intent EXCEPT ![i].refunded = sum,
                      ![i].status = IF sum = Asked[i] THEN "refunded" ELSE "partially_refunded"]
      /\ Leave(c)
      /\ UNCHANGED <<intentPaid, ask, mandate>>

IntentRefundLost(c) ==
  /\ agentCall[c].op = "refund" /\ ~Refundable(c)
  /\ Leave(c)
  /\ UNCHANGED <<wallet, intent, intentPaid, returned, ask, mandate>>

----------------------------------------------------------------------------
(* The agent's requests.                                                   *)

ACTIVE_REQ == {"pending", "processing", "confirmed"}

AskedFor == [r \in Requests |-> IF ask[r].intent = NoIntent THEN 0 ELSE Asked[ask[r].intent]]

\* What the other requests use of the cap.
Usage(except) ==
  SumOver(AskedFor, {r \in Requests \ except : ask[r].status \in ACTIVE_REQ})

WithinCaps(amount, except) == mandate = "active" /\ Usage(except) + amount <= DayCap

\* createAgentRequest checks the caps and looks for an open request ...
BeginAskAgent(c, i) ==
  /\ agentCall[c] = Idle
  /\ intent[i].status = "requires_payment"
  /\ WithinCaps(Asked[i], {})
  /\ ~\E r \in Requests : ask[r].intent = i /\ ask[r].status \in {"pending", "processing"}
  /\ agentCall' = [agentCall EXCEPT ![c] = [op |-> "ask", id |-> i, ask |-> {}]]
  /\ UNCHANGED <<wallet, intent, intentPaid, returned, ask, mandate>>

\* ... and creates one.
CommitAskAgent(c, r) ==
  /\ agentCall[c].op = "ask" /\ ask[r].status = "none"
  /\ ask' = [ask EXCEPT ![r] = [status |-> "pending", intent |-> agentCall[c].id]]
  /\ Leave(c)
  /\ UNCHANGED <<wallet, intent, intentPaid, returned, mandate>>

\* rejectRequest, or myRequests after the request's time.
CloseRequest(r, status) ==
  /\ ask[r].status = "pending"
  /\ SetAsk(r, status)
  /\ UNCHANGED <<wallet, intent, intentPaid, returned, mandate, agentCall>>

\* createMandate; the grantor is not the owner of the business.
CreateMandate ==
  /\ mandate = "none"
  /\ mandate' = "active"
  /\ UNCHANGED <<wallet, intent, intentPaid, returned, ask, agentCall>>

RevokeMandate ==
  /\ mandate = "active"
  /\ mandate' = "revoked"
  /\ ask' = [r \in Requests |->
               IF ask[r].status = "pending" THEN [ask[r] EXCEPT !.status = "canceled"] ELSE ask[r]]
  /\ UNCHANGED <<wallet, intent, intentPaid, returned, agentCall>>

ClaimRequest(c, r) ==
  /\ agentCall[c] = Idle
  /\ ask[r].status = "pending"
  /\ SetAsk(r, "processing")
  /\ agentCall' = [agentCall EXCEPT ![c] = PayerCall("caps", ask[r].intent, Grantor, {r})]
  /\ UNCHANGED <<wallet, intent, intentPaid, returned, mandate>>

\* "Caps are re-checked at this moment"; then payIntent reads the intent.
CheckCaps(c) ==
  LET call == agentCall[c]
  IN  /\ call.op = "caps"
      /\ WithinCaps(Asked[call.id], call.ask)
      /\ CASE intent[call.id].status = "requires_payment" -> Become(c, "claim") /\ UNCHANGED ask
           [] PaidBy(call.id, Grantor) -> Become(c, "recorded") /\ UNCHANGED ask
           [] OTHER -> Leave(c) /\ Answers(c, "failed")
      /\ UNCHANGED <<wallet, intent, intentPaid, returned, mandate>>

CapsRefuse(c) ==
  /\ agentCall[c].op = "caps"
  /\ ~WithinCaps(Asked[agentCall[c].id], agentCall[c].ask)
  /\ Answers(c, "failed")
  /\ Leave(c)
  /\ UNCHANGED <<wallet, intent, intentPaid, returned, mandate>>

ConfirmRequest(c) ==
  /\ agentCall[c].op = "recorded"
  /\ Answers(c, "confirmed")
  /\ Leave(c)
  /\ UNCHANGED <<wallet, intent, intentPaid, returned, mandate>>

AgentRestart ==
  /\ \E c \in Calls : agentCall[c] # Idle
  /\ agentCall' = Idles
  /\ UNCHANGED <<wallet, intent, intentPaid, returned, ask, mandate>>

NextAgentPayments ==
  \/ \E i \in Intents : ExpireIntent(i) \/ CancelIntent(i)
  \/ \E r \in Requests, status \in {"rejected", "expired"} : CloseRequest(r, status)
  \/ \E c \in Calls :
       \/ \E i \in Intents, u \in Users : BeginPay(c, i, u)
       \/ ClaimIntent(c) \/ ClaimIntentLost(c) \/ SendIntent(c) \/ SendIntentFails(c)
       \/ RecordIntent(c) \/ RecordIntentFails(c)
       \/ \E i \in Intents, amount \in Portions : BeginRefund(c, i, amount)
       \/ CommitIntentRefund(c) \/ IntentRefundLost(c)
       \/ \E i \in Intents : BeginAskAgent(c, i)
       \/ \E r \in Requests : CommitAskAgent(c, r) \/ ClaimRequest(c, r)
       \/ CheckCaps(c) \/ CapsRefuse(c) \/ ConfirmRequest(c)
  \/ CreateMandate \/ RevokeMandate \/ AgentRestart

----------------------------------------------------------------------------
(* Properties.                                                             *)

\* payIntent's claim: one transfer for an intent, whoever pays, retries or is
\* interrupted; none for an intent that is payable, canceled or expired, and one
\* for an intent that is shown as paid.
IntentPaidOnce ==
  \A i \in Intents :
    LET status == intent[i].status
    IN  CASE status \in {"requires_payment", "canceled", "expired"} -> intentPaid[i] = 0
          [] status = "processing" -> intentPaid[i] <= 1
          [] OTHER -> intentPaid[i] = 1

\* "Business wallet -> payer wallet, atomically, never more than was paid."
RefundedWithinPaid ==
  \A i \in Intents :
    /\ returned[i] <= intentPaid[i] * Asked[i]
    /\ returned[i] = intent[i].refunded

\* A confirmed request was paid, and by the user who gave the authorization.
ConfirmedIsPaid ==
  \A r \in Requests :
    ask[r].status = "confirmed" =>
      /\ intentPaid[ask[r].intent] = 1
      /\ intent[ask[r].intent].payer = Grantor

\* What is confirmed stays within the daily cap, however many requests were made
\* or are confirmed at once.
WithinDailyCap ==
  SumOver(AskedFor, {r \in Requests : ask[r].status = "confirmed"}) <= DayCap

\* What a user grants an agent: confirmations, rejections, refunds and expiry race,
\* and still an intent is paid once, refunded at most what was paid, and no more asked
\* of the user in a day than the cap.
AgentPaymentsInv ==
  /\ AgentPaymentsTypeOK
  /\ IntentPaidOnce /\ RefundedWithinPaid /\ ConfirmedIsPaid /\ WithinDailyCap

=============================================================================
