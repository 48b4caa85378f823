----------------------------- MODULE AiActions ------------------------------
(***************************************************************************)
(* What the assistant proposes and its user confirms with the PIN: sending *)
(* FARM, paying an intent, booking a room.  A proposal and its             *)
(* confirmation are held against a daily cap of the user.                  *)
(*                                                                         *)
(* An intent can be named by several proposals, and the user can also pay  *)
(* it in the app; whoever finds it paid takes it as paid.                  *)
(*                                                                         *)
(* All of it on one day; flights are confirmed in Bookings.                *)
(***************************************************************************)
EXTENDS Shared

CONSTANTS
  Actions, Cost,
  Repeatable,     \* those that send FARM
  AiIntents, Due, \* payment intents of businesses, and what they ask for
  IntentOf,       \* of the actions that pay an intent; the others book a room
  Master, Others, \* the user, and who is paid
  AiCap           \* daily_cap

ASSUME AiActionsAssumption ==
  /\ IsFiniteSet(Actions) /\ Repeatable \subseteq Actions
  /\ Cost \in [Actions -> Nat \ {0}]
  /\ Due \in [AiIntents -> Nat \ {0}]
  /\ DOMAIN IntentOf \subseteq Actions \ Repeatable
  /\ IntentOf \in [DOMAIN IntentOf -> AiIntents]
  /\ \A a \in DOMAIN IntentOf : Cost[a] = Due[IntentOf[a]]
  /\ {Master, Others} \subseteq Users /\ AiCap \in Nat

VARIABLES
  action,      \* status of the ai_action_requests row
  lapsed,      \* rows past expires_at
  enabled,     \* the permission
  done,        \* how often the action took money
  unrecorded,  \* actions whose outcome could not be written
  aiIntent,    \* the payment_intents rows, as this user sees them
  aiPaid,      \* how often the user's money was taken for an intent
  inApp,       \* intents the user is paying in the app
  aiCall

actionVars == <<action, lapsed, enabled, done, unrecorded>>
intentVars == <<aiIntent, aiPaid, inApp>>
aiVars == <<actionVars, intentVars, aiCall>>

AiActionsTypeOK ==
  /\ wallet \in [Users -> Row]
  /\ action \in [Actions -> {"none", "pending", "processing", "executed", "failed",
                             "rejected", "expired", "cancelled"}]
  /\ lapsed \subseteq Actions /\ unrecorded \subseteq Actions
  /\ enabled \in BOOLEAN
  /\ done \in [Actions -> Nat]
  /\ aiIntent \in [AiIntents -> {"requires_payment", "processing", "succeeded", "gone"}]
  /\ aiPaid \in [AiIntents -> Nat]
  /\ inApp \subseteq AiIntents
  /\ aiCall \in [Calls -> {Idle} \cup
                   [op : {"propose", "checked", "expire", "run", "claimed", "sent", "ran",
                          "refused"}, id : Actions]]

InitAiActions ==
  /\ action = [a \in Actions |-> "none"]
  /\ lapsed = {} /\ unrecorded = {} /\ enabled = TRUE
  /\ done = [a \in Actions |-> 0]
  /\ aiIntent = [i \in AiIntents |-> "requires_payment"]
  /\ aiPaid = [i \in AiIntents |-> 0]
  /\ inApp = {}
  /\ aiCall = Idles

AiStart(c, op, a) ==
  /\ aiCall[c] = Idle
  /\ aiCall' = [aiCall EXCEPT ![c] = [op |-> op, id |-> a]]

AiStep(c, from, to) ==
  /\ aiCall[c].op = from
  /\ aiCall' = [aiCall EXCEPT ![c].op = to]

AiEnd(c, op) ==
  /\ aiCall[c].op = op
  /\ aiCall' = [aiCall EXCEPT ![c] = Idle]

SetAction(a, status) == action' = [action EXCEPT ![a] = status]

----------------------------------------------------------------------------
(* Caps and proposals.                                                     *)

\* "Sum of today's executed + still-pending AI payments"
CommittedToday ==
  SumOver(Cost, {a \in Actions : \/ action[a] = "executed"
                                 \/ action[a] = "pending" /\ a \notin lapsed})

\* The action that is confirmed was counted among the pending ones.
AiCapsAllow(a, counted) ==
  /\ enabled
  /\ CommittedToday - (IF counted THEN Cost[a] ELSE 0) + Cost[a] <= AiCap

BeginPropose(c, a) ==
  /\ action[a] = "none" /\ AiCapsAllow(a, FALSE)
  /\ a \in DOMAIN IntentOf => aiIntent[IntentOf[a]] = "requires_payment"
  /\ AiStart(c, "propose", a)
  /\ UNCHANGED <<wallet, actionVars, intentVars>>

CommitPropose(c) ==
  LET a == aiCall[c].id
  IN  /\ AiEnd(c, "propose")
      /\ SetAction(a, IF action[a] = "none" THEN "pending" ELSE action[a])
      /\ UNCHANGED <<wallet, lapsed, enabled, done, unrecorded, intentVars>>

ActionLapses(a) ==
  /\ action[a] \in {"pending", "processing"} /\ a \notin lapsed
  /\ lapsed' = lapsed \cup {a}
  /\ UNCHANGED <<wallet, action, enabled, done, unrecorded, intentVars, aiCall>>

\* listActions
ExpireActions ==
  /\ action' = [a \in Actions |->
                  IF action[a] = "pending" /\ a \in lapsed THEN "expired" ELSE action[a]]
  /\ UNCHANGED <<wallet, lapsed, enabled, done, unrecorded, intentVars, aiCall>>

\* Faulty: an action that is being executed can be rejected.
RejectUnderWay(a) ==
  /\ action[a] \in {"pending", "processing"}
  /\ SetAction(a, "rejected")
  /\ UNCHANGED <<wallet, lapsed, enabled, done, unrecorded, intentVars, aiCall>>

RejectAction(a) ==
  /\ action[a] = "pending"
  /\ SetAction(a, "rejected")
  /\ UNCHANGED <<wallet, lapsed, enabled, done, unrecorded, intentVars, aiCall>>

RevokePermissions ==
  /\ enabled
  /\ enabled' = FALSE
  /\ action' = [a \in Actions |-> IF action[a] = "pending" THEN "cancelled" ELSE action[a]]
  /\ UNCHANGED <<wallet, lapsed, done, unrecorded, intentVars, aiCall>>

UpdatePermissions ==
  /\ ~enabled
  /\ enabled' = TRUE
  /\ UNCHANGED <<wallet, action, lapsed, done, unrecorded, intentVars, aiCall>>

----------------------------------------------------------------------------
(* confirmAction.                                                          *)

BeginConfirm(c, a) ==
  /\ action[a] = "pending" /\ a \notin lapsed
  /\ AiCapsAllow(a, TRUE)
  /\ AiStart(c, "checked", a)
  /\ UNCHANGED <<wallet, actionVars, intentVars>>

\* "Request expired", which is written by id.
BeginExpire(c, a) ==
  /\ action[a] = "pending" /\ a \in lapsed
  /\ AiStart(c, "expire", a)
  /\ UNCHANGED <<wallet, actionVars, intentVars>>

CommitExpire(c) ==
  /\ AiEnd(c, "expire")
  /\ SetAction(aiCall[c].id, "expired")
  /\ UNCHANGED <<wallet, lapsed, enabled, done, unrecorded, intentVars>>

\* "Claim atomically so a double tap cannot execute twice."
ClaimableAction(a) == action[a] = "pending"

ClaimAction(c) ==
  LET a == aiCall[c].id
  IN  /\ AiStep(c, "checked", "run") /\ ClaimableAction(a)
      /\ SetAction(a, "processing")
      /\ UNCHANGED <<wallet, lapsed, enabled, done, unrecorded, intentVars>>

ClaimActionLost(c) ==
  /\ AiEnd(c, "checked") /\ ~ClaimableAction(aiCall[c].id)
  /\ UNCHANGED <<wallet, actionVars, intentVars>>

\* The key `ai-${id}` has its booking.
BookedBefore(a) == a \notin Repeatable /\ done[a] > 0

\* sendFunds, or holding the fare of a room.
RunAction(c) ==
  LET a == aiCall[c].id
  IN  /\ AiStep(c, "run", "ran") /\ a \notin DOMAIN IntentOf
      /\ IF BookedBefore(a) THEN UNCHANGED <<wallet, done>>
         ELSE /\ CanSpend(Master, Cost[a])
              /\ wallet' = Sell(Master, Others, Cost[a], 0, 0)
              /\ done' = [done EXCEPT ![a] = @ + 1]
      /\ UNCHANGED <<action, lapsed, enabled, unrecorded, intentVars>>

\* Wrong PIN, no balance, an intent that another is paying: "return to pending".
RunFails(c) ==
  /\ aiCall[c].op \in {"run", "refused"}
  /\ aiCall' = [aiCall EXCEPT ![c] = Idle]
  /\ SetAction(aiCall[c].id, "pending")
  /\ UNCHANGED <<wallet, lapsed, enabled, done, unrecorded, intentVars>>

\* "The provider refused and FARM was returned", now or since an earlier try.
RoomRefused(c) ==
  LET a == aiCall[c].id
  IN  /\ AiEnd(c, "run") /\ a \notin Repeatable \cup DOMAIN IntentOf
      /\ SetAction(a, "failed")
      /\ UNCHANGED <<wallet, lapsed, enabled, done, unrecorded, intentVars>>

RecordAction(c) ==
  /\ AiEnd(c, "ran")
  /\ SetAction(aiCall[c].id, "executed")
  /\ UNCHANGED <<wallet, lapsed, enabled, done, unrecorded, intentVars>>

\* That write, or the audit row after it, fails: the catch returns it to pending.
RecordActionFails(c) ==
  LET a == aiCall[c].id
  IN  /\ AiEnd(c, "ran")
      /\ SetAction(a, "pending")
      /\ unrecorded' = unrecorded \cup {a}
      /\ UNCHANGED <<wallet, lapsed, enabled, done, intentVars>>

----------------------------------------------------------------------------
(* payIntent.                                                              *)

SetIntent(i, status) == aiIntent' = [aiIntent EXCEPT ![i] = status]

\* An intent this user has paid, for another action or in the app, is answered
\* as paid.
IntentPaid(c) ==
  LET a == aiCall[c].id
  IN  /\ AiStep(c, "run", "ran")
      /\ a \in DOMAIN IntentOf /\ aiIntent[IntentOf[a]] = "succeeded"
      /\ UNCHANGED <<wallet, actionVars, intentVars>>

Claimable(i) == aiIntent[i] = "requires_payment"

ClaimAiIntent(c) ==
  LET a == aiCall[c].id
  IN  /\ AiStep(c, "run", "claimed")
      /\ a \in DOMAIN IntentOf /\ Claimable(IntentOf[a])
      /\ SetIntent(IntentOf[a], "processing")
      /\ UNCHANGED <<wallet, actionVars, aiPaid, inApp>>

\* sendFunds from the user to the business.
TakeForIntent(i) ==
  /\ CanSpend(Master, Due[i])
  /\ wallet' = Sell(Master, Others, Due[i], 0, 0)
  /\ aiPaid' = [aiPaid EXCEPT ![i] = @ + 1]

SendAiIntent(c) ==
  LET a == aiCall[c].id
  IN  /\ AiStep(c, "claimed", "sent")
      /\ TakeForIntent(IntentOf[a])
      /\ done' = [done EXCEPT ![a] = @ + 1]
      /\ UNCHANGED <<action, lapsed, enabled, unrecorded, aiIntent, inApp>>

\* The catch block gives the claim up.
SendAiIntentFails(c) ==
  /\ AiStep(c, "claimed", "refused")
  /\ SetIntent(IntentOf[aiCall[c].id], "requires_payment")
  /\ UNCHANGED <<wallet, actionVars, aiPaid, inApp>>

RecordAiIntent(c) ==
  /\ AiStep(c, "sent", "ran")
  /\ SetIntent(IntentOf[aiCall[c].id], "succeeded")
  /\ UNCHANGED <<wallet, actionVars, aiPaid, inApp>>

\* That write, or the payment row after it, fails: the intent may stay as it is.
RecordAiIntentFails(c) ==
  LET a == aiCall[c].id
  IN  /\ AiStep(c, "sent", "refused")
      /\ \E status \in {"processing", "succeeded"} : SetIntent(IntentOf[a], status)
      /\ unrecorded' = unrecorded \cup {a}
      /\ UNCHANGED <<wallet, action, lapsed, enabled, done, aiPaid, inApp>>

\* The same calls, made from the app.
BeginInApp(i) ==
  /\ Claimable(i)
  /\ SetIntent(i, "processing") /\ inApp' = inApp \cup {i}
  /\ UNCHANGED <<wallet, actionVars, aiPaid, aiCall>>

PayInApp(i) ==
  /\ i \in inApp /\ inApp' = inApp \ {i}
  /\ TakeForIntent(i)
  /\ \E status \in {"processing", "succeeded"} : SetIntent(i, status)
  /\ UNCHANGED <<actionVars, aiCall>>

PayInAppFails(i) ==
  /\ i \in inApp /\ inApp' = inApp \ {i}
  /\ SetIntent(i, "requires_payment")
  /\ UNCHANGED <<wallet, actionVars, aiPaid, aiCall>>

\* It expires, the business cancels it, or another user pays it.
IntentGone(i) ==
  /\ Claimable(i)
  /\ SetIntent(i, "gone")
  /\ UNCHANGED <<wallet, actionVars, aiPaid, inApp, aiCall>>

AiRestart ==
  /\ inApp # {} \/ \E c \in Calls : aiCall[c] # Idle
  /\ aiCall' = Idles /\ inApp' = {}
  /\ UNCHANGED <<wallet, actionVars, aiIntent, aiPaid>>

NextAiActions ==
  \/ \E c \in Calls :
       \/ \E a \in Actions : BeginPropose(c, a) \/ BeginConfirm(c, a) \/ BeginExpire(c, a)
       \/ CommitPropose(c) \/ CommitExpire(c) \/ ClaimAction(c) \/ ClaimActionLost(c)
       \/ RunAction(c) \/ RunFails(c) \/ RoomRefused(c)
       \/ IntentPaid(c) \/ ClaimAiIntent(c) \/ SendAiIntent(c) \/ SendAiIntentFails(c)
       \/ RecordAiIntent(c) \/ RecordAiIntentFails(c)
       \/ RecordAction(c) \/ RecordActionFails(c)
  \/ \E a \in Actions : ActionLapses(a) \/ RejectAction(a)
  \/ \E i \in AiIntents :
       BeginInApp(i) \/ PayInApp(i) \/ PayInAppFails(i) \/ IntentGone(i)
  \/ ExpireActions \/ RevokePermissions \/ UpdatePermissions \/ AiRestart

----------------------------------------------------------------------------
(* Properties.                                                             *)

\* Confirming twice, retrying and losing a claim execute an action once; only a
\* transfer whose outcome could not be written is offered, and made, again.
ActionExecutedOnce ==
  \A a \in Actions : done[a] <= 1 \/ a \in Repeatable \cap unrecorded

\* An intent takes the user's money once, whichever of the actions that name it
\* and of the app's payments come to pay it, and says so.
IntentTakenOnce ==
  \A i \in AiIntents :
    /\ aiPaid[i] <= 1
    /\ aiIntent[i] = "succeeded" => aiPaid[i] = 1
    /\ aiIntent[i] \in {"requires_payment", "gone"} => aiPaid[i] = 0

\* An action shown as rejected, failed or cancelled took no money, and one shown
\* as executed did, or found its intent paid.  (Not so "expired", which is written
\* over any status.)
ActionShownIsTrue ==
  \A a \in Actions \ unrecorded :
    /\ action[a] \in {"rejected", "failed", "cancelled"} => done[a] = 0
    /\ action[a] = "executed" =>
         done[a] = 1 \/ (a \in DOMAIN IntentOf /\ aiIntent[IntentOf[a]] = "succeeded")

\* "Pending counts so caps cannot be bypassed by queuing": what the assistant's
\* actions took today is within the cap.
WithinAiCap ==
  SumOver(Cost, {a \in Actions : done[a] > 0}) <= AiCap

\* An action the assistant proposed, confirmed twice, written off while it runs, or
\* for an intent that is paid elsewhere, moves money at most once, as does the
\* intent, and is shown as done only if it was (confirmAction, payIntent).
AiActionsInv ==
  AiActionsTypeOK /\ ActionExecutedOnce /\ IntentTakenOnce /\ ActionShownIsTrue

=============================================================================
