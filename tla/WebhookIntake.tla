---------------------------- MODULE WebhookIntake ---------------------------
(***************************************************************************)
(* How an event a payment provider delivers reaches the rows it is about.  *)
(* The HTTP handler tries to process it at once.  When that does not close *)
(* the payment the event is put on a Bull queue and also handed to a       *)
(* setImmediate of this process; either way it is remembered in Redis and  *)
(* a delivery of the same event is turned away from then on.  Processing   *)
(* takes a lock for each reference and gives up silently when it is held.  *)
(*                                                                         *)
(* The handler answers 200 whatever happens, so a provider resends only    *)
(* what it did not see answered.  What processing does to a deposit or a   *)
(* sale is the subject of Deposits and QrSales; here a payment has only    *)
(* the status those rules leave it with.  NOWPayments has a handler of its *)
(* own that neither locks nor queues nor remembers.                        *)
(***************************************************************************)
EXTENDS Integers, FiniteSets

CONSTANTS
  Payments,      \* references
  Ivory, Now,    \* those of IvoryPay and NOWPayments; the others are Paystack's
  QrPayments,    \* public QR sales, the only ones that reopen after a failure
  Events, EventOf,
  Successes,     \* events that report a payment; the others report a failure
  Mismatched,    \* successes whose amount is not the expected one
  Sends,         \* how often the provider sends each event
  Workers,       \* handlers, jobs and callbacks that run at once
  MaxRestarts

ASSUME WebhookIntakeAssumption ==
  /\ IsFiniteSet(Events) /\ IsFiniteSet(Payments) /\ IsFiniteSet(Workers)
  /\ Ivory \subseteq Payments /\ Now \subseteq Payments \ Ivory
  /\ QrPayments \subseteq Payments
  /\ EventOf \in [Events -> Payments]
  /\ Mismatched \subseteq Successes /\ Successes \subseteq Events
  /\ Sends \in [Events -> Nat] /\ MaxRestarts \in Nat

VARIABLES
  status,      \* of the payment's rows
  lock,        \* references locked in Redis
  sent,        \* deliveries of each event so far
  marked,      \* events remembered as processed
  queue,       \* jobs for each event on the Bull queue
  background,  \* setImmediate callbacks for each event
  stranded,    \* events on the fallback list, which nothing reads
  worker,
  handled,     \* events processing has dealt with
  misses,      \* attempts of each event that were turned away or failed
  restarts

hookVars == <<status, lock, sent, marked, queue, background, stranded, worker,
              handled, misses, restarts>>

Resting == [op |-> "rest"]

WebhookIntakeTypeOK ==
  /\ status \in [Payments -> {"pending", "completed", "failed"}]
  /\ lock \subseteq Payments
  /\ sent \in [Events -> Nat] /\ queue \in [Events -> Nat]
  /\ background \in [Events -> Nat] /\ misses \in [Events -> Nat]
  /\ marked \subseteq Events /\ stranded \subseteq Events /\ handled \subseteq Events
  /\ worker \in [Workers -> {Resting}
                   \cup [op : {"http", "direct", "job", "callback", "ipn"}, event : Events,
                         at : {"start", "locked", "ended"}]]
  /\ restarts \in Nat

InitWebhookIntake ==
  /\ status = [p \in Payments |-> "pending"]
  /\ lock = {} /\ marked = {} /\ stranded = {} /\ handled = {}
  /\ sent = [e \in Events |-> 0] /\ misses = [e \in Events |-> 0]
  /\ queue = [e \in Events |-> 0] /\ background = [e \in Events |-> 0]
  /\ worker = [w \in Workers |-> Resting]
  /\ restarts = 0

Begin(w, op, e) ==
  /\ worker[w] = Resting
  /\ worker' = [worker EXCEPT ![w] = [op |-> op, event |-> e, at |-> "start"]]

At(w, place) == worker[w] # Resting /\ worker[w].at = place

\* The HTTP handler goes on after its attempt; the others are done.
Ended(w) ==
  worker' = [worker EXCEPT ![w] = IF @.op = "http" THEN [@ EXCEPT !.at = "ended"]
                                                   ELSE Resting]

\* isReplay
Remembered(e) == e \in marked

\* markProcessed: SET NX, which a second call leaves alone.
Remember(e) == marked' = marked \cup {e}

Miss(w) == misses' = [misses EXCEPT ![worker[w].event] = @ + 1]

----------------------------------------------------------------------------
(* Delivery.                                                               *)

\* Signature, payload and fraud checks hold for what a provider sends.
DeliverPaystack(w, e) ==
  /\ EventOf[e] \notin Ivory \cup Now
  /\ sent[e] < Sends[e] /\ ~Remembered(e)
  /\ sent' = [sent EXCEPT ![e] = @ + 1]
  /\ Begin(w, "http", e)
  /\ UNCHANGED <<status, lock, marked, queue, background, stranded, handled, misses,
                 restarts>>

\* "Amount mismatch": rejected, and not remembered.
RejectMismatch(e) ==
  /\ e \in Mismatched
  /\ EventOf[e] \in Ivory \/ EventOf[e] \in QrPayments
  /\ sent[e] < Sends[e] /\ ~Remembered(e)
  /\ sent' = [sent EXCEPT ![e] = @ + 1]
  /\ handled' = handled \cup {e}
  /\ UNCHANGED <<status, lock, marked, queue, background, stranded, worker, misses,
                 restarts>>

DeliverIvorypay(w, e) ==
  /\ EventOf[e] \in Ivory /\ e \notin Mismatched
  /\ sent[e] < Sends[e] /\ ~Remembered(e)
  /\ sent' = [sent EXCEPT ![e] = @ + 1]
  /\ Begin(w, "http", e)
  /\ UNCHANGED <<status, lock, marked, queue, background, stranded, handled, misses,
                 restarts>>

DeliverIpn(w, e) ==
  /\ EventOf[e] \in Now
  /\ sent[e] < Sends[e]
  /\ sent' = [sent EXCEPT ![e] = @ + 1]
  /\ Begin(w, "ipn", e)
  /\ UNCHANGED <<status, lock, marked, queue, background, stranded, handled, misses,
                 restarts>>

----------------------------------------------------------------------------
(* Processing.                                                             *)

AcquireLock(w) ==
  LET p == EventOf[worker[w].event]
  IN  /\ At(w, "start") /\ worker[w].op # "ipn" /\ p \notin lock
      /\ lock' = lock \cup {p}
      /\ worker' = [worker EXCEPT ![w].at = "locked"]
      /\ UNCHANGED <<status, sent, marked, queue, background, stranded, handled,
                     misses, restarts>>

\* "skipped due to existing lock": no error, so a job counts as done.
TurnedAway(w) ==
  /\ At(w, "start") /\ worker[w].op # "ipn" /\ EventOf[worker[w].event] \in lock
  /\ Ended(w) /\ Miss(w)
  /\ UNCHANGED <<status, lock, sent, marked, queue, background, stranded, handled,
                 restarts>>

\* del: whoever holds the lock by now.
ReleaseLock(w) == lock' = lock \ {EventOf[worker[w].event]}

\* finalizeSuccessfulDeposit, failDeposit, complete and markFailed, by the
\* rows they claim; a mismatched success is refused.
Outcome(p, e) ==
  IF e \in Mismatched THEN status[p]
  ELSE IF e \in Successes
       THEN IF status[p] = "failed" /\ p \notin QrPayments THEN "failed"
                                                           ELSE "completed"
       ELSE IF status[p] = "pending" THEN "failed" ELSE status[p]

\* Every branch of the processing ends in releaseLock.
ProcessPaystack(w) ==
  LET e == worker[w].event
      p == EventOf[e]
  IN  /\ At(w, "locked") /\ p \notin Ivory
      /\ status' = [status EXCEPT ![p] = Outcome(p, e)]
      /\ handled' = handled \cup {e}
      /\ ReleaseLock(w) /\ Ended(w)
      /\ UNCHANGED <<sent, marked, queue, background, stranded, misses, restarts>>

\* IvoryPay is asked to confirm a success first, but a deposit is credited on
\* its event also when IvoryPay cannot.
ProcessIvorypay(w) ==
  LET e == worker[w].event
      p == EventOf[e]
  IN  /\ At(w, "locked") /\ p \in Ivory
      /\ status' = [status EXCEPT ![p] = Outcome(p, e)]
      /\ handled' = handled \cup {e}
      /\ ReleaseLock(w) /\ Ended(w)
      /\ UNCHANGED <<sent, marked, queue, background, stranded, misses, restarts>>

\* The event is verified with getPayment, then closes the rows it finds open.
ProcessIpn(w) ==
  LET e == worker[w].event
  IN  /\ At(w, "start") /\ worker[w].op = "ipn"
      /\ status' = [status EXCEPT ![EventOf[e]] = Outcome(EventOf[e], e)]
      /\ handled' = handled \cup {e}
      /\ Ended(w)
      /\ UNCHANGED <<lock, sent, marked, queue, background, stranded, misses, restarts>>

IpnFails(w) ==
  /\ At(w, "start") /\ worker[w].op = "ipn"
  /\ Ended(w) /\ Miss(w)
  /\ UNCHANGED <<status, lock, sent, marked, queue, background, stranded, handled,
                 restarts>>

\* An error, or a success of a QR sale that IvoryPay does not confirm.
ProcessFails(w) ==
  /\ At(w, "locked")
  /\ ReleaseLock(w) /\ Ended(w) /\ Miss(w)
  /\ UNCHANGED <<status, sent, marked, queue, background, stranded, handled, restarts>>

\* IvoryPay: an error before the try block that releases the lock.
ProcessFailsEarly(w) ==
  /\ At(w, "locked") /\ EventOf[worker[w].event] \in Ivory
  /\ Ended(w) /\ Miss(w)
  /\ UNCHANGED <<status, lock, sent, marked, queue, background, stranded, handled,
                 restarts>>

\* WEBHOOK_LOCK_TTL_MS passes, whether the holder still runs or not.
LockExpires(p) ==
  /\ p \in lock
  /\ lock' = lock \ {p}
  /\ UNCHANGED <<status, sent, marked, queue, background, stranded, worker, handled,
                 misses, restarts>>

----------------------------------------------------------------------------
(* The rest of the HTTP handler.                                           *)

\* What tryProcessWebhookSynchronously reads after its attempt.
Final(e) ==
  status[EventOf[e]] = IF e \in Successes THEN "completed" ELSE "failed"

Answered(w) == worker' = [worker EXCEPT ![w] = Resting]

AnswerProcessed(w) ==
  LET e == worker[w].event
  IN  /\ At(w, "ended") /\ Final(e)
      /\ Remember(e)
      /\ Answered(w)
      /\ UNCHANGED <<status, lock, sent, queue, background, stranded, handled, misses,
                     restarts>>

\* Faulty: the queue alone is relied on.
AnswerQueuedOnly(w) ==
  LET e == worker[w].event
  IN  /\ At(w, "ended") /\ ~Final(e)
      /\ queue' = [queue EXCEPT ![e] = @ + 1]
      /\ Remember(e)
      /\ Answered(w)
      /\ UNCHANGED <<status, lock, sent, background, stranded, handled, misses,
                     restarts>>

\* Faulty: an event that nothing took is remembered all the same.
AnswerForgotten(w) ==
  LET e == worker[w].event
  IN  /\ At(w, "ended") /\ ~Final(e)
      /\ Remember(e)
      /\ Answered(w)
      /\ UNCHANGED <<status, lock, sent, queue, background, stranded, handled, misses,
                     restarts>>

\* Bull takes the event, or else the list that no worker reads.
AnswerQueued(w) ==
  LET e == worker[w].event
  IN  /\ At(w, "ended") /\ ~Final(e)
      /\ \/ queue' = [queue EXCEPT ![e] = @ + 1] /\ UNCHANGED stranded
         \/ stranded' = stranded \cup {e} /\ UNCHANGED queue
      /\ background' = [background EXCEPT ![e] = @ + 1]
      /\ Remember(e)
      /\ Answered(w)
      /\ UNCHANGED <<status, lock, sent, handled, misses, restarts>>

\* Redis takes neither: the event is processed once more, and not remembered.
AnswerDirect(w) ==
  /\ At(w, "ended") /\ ~Final(worker[w].event)
  /\ worker' = [worker EXCEPT ![w].op = "direct", ![w].at = "start"]
  /\ UNCHANGED <<status, lock, sent, marked, queue, background, stranded, handled,
                 misses, restarts>>

StartJob(w, e) ==
  /\ queue[e] > 0
  /\ Begin(w, "job", e)
  /\ queue' = [queue EXCEPT ![e] = @ - 1]
  /\ UNCHANGED <<status, lock, sent, marked, background, stranded, handled, misses,
                 restarts>>

\* setImmediate
StartCallback(w, e) ==
  /\ background[e] > 0
  /\ Begin(w, "callback", e)
  /\ background' = [background EXCEPT ![e] = @ - 1]
  /\ UNCHANGED <<status, lock, sent, marked, queue, stranded, handled, misses,
                 restarts>>

\* The process restarts.  Callbacks are gone; Bull hands a stalled job out again.
HookRestart ==
  /\ restarts < MaxRestarts
  /\ restarts' = restarts + 1
  /\ \E w \in Workers : worker[w] # Resting
  /\ worker' = [w \in Workers |-> Resting]
  /\ background' = [e \in Events |-> 0]
  /\ misses' = [e \in Events |-> misses[e] + background[e]
                 + Cardinality({w \in Workers : worker[w] # Resting /\ worker[w].event = e
                                                /\ worker[w].op # "job"})]
  /\ queue' = [e \in Events |-> queue[e]
                + Cardinality({w \in Workers : worker[w] # Resting /\ worker[w].event = e
                                               /\ worker[w].op = "job"})]
  /\ UNCHANGED <<status, lock, sent, marked, stranded, handled>>

----------------------------------------------------------------------------

Work(w) ==
  \/ AcquireLock(w) \/ TurnedAway(w) \/ ProcessIpn(w) \/ IpnFails(w)
  \/ ProcessPaystack(w) \/ ProcessIvorypay(w) \/ ProcessFails(w) \/ ProcessFailsEarly(w)
  \/ AnswerProcessed(w) \/ AnswerQueued(w) \/ AnswerDirect(w)

NextWebhookIntake ==
  \/ \E w \in Workers :
       \/ Work(w)
       \/ \E e \in Events : \/ DeliverPaystack(w, e) \/ DeliverIvorypay(w, e)
                            \/ DeliverIpn(w, e)
                            \/ StartJob(w, e) \/ StartCallback(w, e)
  \/ \E e \in Events : RejectMismatch(e)
  \/ \E p \in Payments : LockExpires(p)
  \/ HookRestart

----------------------------------------------------------------------------
(* Properties.                                                             *)

\* The rows show what the event says, or something that replaced it.
Reflected(e) ==
  \/ e \in handled
  \/ IF e \in Successes THEN status[EventOf[e]] = "completed"
                        ELSE status[EventOf[e]] # "pending"

Underway(e) ==
  \/ queue[e] + background[e] > 0
  \/ \E w \in Workers : worker[w] # Resting /\ worker[w].event = e

\* An event whose redelivery is turned away and which nothing will try again has
\* been tried three times, or twice when the queue could not take it.
WrittenOffAfterRetries ==
  \A e \in marked :
    Reflected(e) \/ Underway(e) \/ misses[e] >= IF e \in stranded THEN 2 ELSE 3

\* In whatever order the events of a QR sale are processed, a payment wins over
\* the failures its provider reported before and after.
PaymentWins ==
  \A e \in handled \cap (Successes \ Mismatched) :
    EventOf[e] \in QrPayments => status[EventOf[e]] = "completed"

\* What the provider was told not to send again reaches the rows, unless every
\* attempt of it fails.
RememberedIsReflected ==
  \A e \in Events : e \in marked ~> (Reflected(e) \/ misses[e] >= 2)

\* The queue in front of the handlers: with locks, duplicates, failures and restarts,
\* an event is written off only after its retries, and a payment outlasts a failure
\* that comes late.
WebhookIntakeInv == WebhookIntakeTypeOK /\ WrittenOffAfterRetries /\ PaymentWins

=============================================================================
