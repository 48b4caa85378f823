--------------------------- MODULE HookDeliveries ----------------------------
(***************************************************************************)
(* Webhooks to a business's endpoint.  A delivery is attempted when it is  *)
(* made, then by a job every minute once its next attempt is due, and by   *)
(* hand; an attempt reads the row, posts unless the endpoint is disabled   *)
(* or its URL or secret is refused, and writes the row in either case.     *)
(***************************************************************************)
EXTENDS Integers, FiniteSets

CONSTANTS
  Deliveries, Posters,  \* attempts in flight
  MAX_ATTEMPTS,
  ByHand                \* bound on retries by hand

ASSUME HookDeliveriesAssumption == MAX_ATTEMPTS \in Nat \ {0} /\ ByHand \in Nat

VARIABLES
  delivery,  \* status, attempts, and whether the next attempt is due
  tried,    \* attempts made, counted up to MAX_ATTEMPTS
  manual,    \* deliveries retried by hand
  posting

deliveryVars == <<delivery, tried, manual, posting>>

Off == [op |-> "idle"]

HookDeliveriesTypeOK ==
  /\ delivery \in [Deliveries ->
       [status : {"none", "pending", "retrying", "succeeded", "failed"},
        attempts : Nat, due : BOOLEAN]]
  /\ tried \in [Deliveries -> Nat]
  /\ manual \subseteq Deliveries
  /\ DOMAIN posting = Posters

InitHookDeliveries ==
  /\ delivery = [d \in Deliveries |-> [status |-> "none", attempts |-> 0, due |-> FALSE]]
  /\ tried = [d \in Deliveries |-> 0]
  /\ manual = {}
  /\ posting = [p \in Posters |-> Off]

Undelivered == {"pending", "retrying"}

Attempt(p, d, row) ==
  /\ posting[p] = Off
  /\ posting' = [posting EXCEPT ![p] = [op |-> "post", id |-> d, attempts |-> row.attempts + 1]]

\* enqueue, with next_attempt_at now: the job may attempt it, too.
Enqueue(p, d) ==
  LET row == [status |-> "pending", attempts |-> 0, due |-> TRUE]
  IN  /\ delivery[d].status = "none"
      /\ delivery' = [delivery EXCEPT ![d] = row]
      /\ Attempt(p, d, row)
      /\ UNCHANGED <<tried, manual>>

ComesDue(d) ==
  /\ delivery[d].status = "retrying" /\ ~delivery[d].due
  /\ delivery' = [delivery EXCEPT ![d].due = TRUE]
  /\ UNCHANGED <<tried, manual, posting>>

\* Faulty: a delivery whose first attempt was lost is not due.
DueIfRetrying(d) == delivery[d].status = "retrying" /\ delivery[d].due

IsDue(d) == delivery[d].status \in Undelivered /\ delivery[d].due

\* retryDue, by the job, whether or not an earlier attempt is under way.
RetryDue(p, d) ==
  /\ IsDue(d)
  /\ Attempt(p, d, delivery[d])
  /\ UNCHANGED <<delivery, tried, manual>>

\* "one more attempt even after final failure"
RetryNow(p, d) ==
  /\ delivery[d].status # "none" /\ Cardinality(manual) < ByHand /\ d \notin manual
  /\ delivery' = [delivery EXCEPT ![d].status = "retrying", ![d].due = TRUE]
  /\ manual' = manual \cup {d}
  /\ Attempt(p, d, delivery[d])
  /\ UNCHANGED tried

\* What is thrown before the post counts as one that was refused.
Post(p, ok) ==
  LET d == posting[p].id
  IN  /\ posting[p].op = "post"
      /\ posting' = [posting EXCEPT ![p].op = IF ok THEN "ok" ELSE "refused"]
      /\ tried' = [tried EXCEPT ![d] = IF @ < MAX_ATTEMPTS THEN @ + 1 ELSE @]
      /\ UNCHANGED <<delivery, manual>>

\* Faulty: the last retry is not made.
LastAttemptEarly(n) == n + 1 >= MAX_ATTEMPTS

\* finalFail
LastAttempt(n) == n >= MAX_ATTEMPTS

\* The row is written by id, with the attempts that were read and one more.
WriteAttempt(p) ==
  LET d == posting[p].id
      n == posting[p].attempts
  IN  /\ posting[p].op \in {"ok", "refused"}
      /\ posting' = [posting EXCEPT ![p] = Off]
      /\ delivery' = [delivery EXCEPT ![d] =
           [status |-> CASE posting[p].op = "ok" -> "succeeded"
                         [] LastAttempt(n) -> "failed"
                         [] OTHER -> "retrying",
            attempts |-> n, due |-> FALSE]]
      /\ UNCHANGED <<tried, manual>>

PosterRestart ==
  /\ \E p \in Posters : posting[p] # Off
  /\ posting' = [p \in Posters |-> Off]
  /\ UNCHANGED <<delivery, tried, manual>>

PosterStep(p) == (\E ok \in BOOLEAN : Post(p, ok)) \/ WriteAttempt(p)

NextHookDeliveries ==
  \/ \E p \in Posters :
       \/ \E d \in Deliveries : Enqueue(p, d) \/ RetryDue(p, d) \/ RetryNow(p, d)
       \/ PosterStep(p)
  \/ \E d \in Deliveries : ComesDue(d)
  \/ PosterRestart

\* An attempt comes to its end unless the process stops, which it does
\* not do each time, and the job gets to every delivery that is due.
FairDeliveries ==
  /\ WF_deliveryVars(\E d \in Deliveries : ComesDue(d))
  /\ \A d \in Deliveries :
       /\ SF_deliveryVars(\E p \in Posters : RetryDue(p, d))
       /\ SF_deliveryVars(\E p \in Posters, ok \in BOOLEAN : Post(p, ok) /\ posting[p].id = d)
       /\ SF_deliveryVars(\E p \in Posters : WriteAttempt(p) /\ posting[p].id = d)

----------------------------------------------------------------------------
(* Properties.                                                             *)

\* "After the last one the delivery is marked failed": not before it was tried
\* as often as it may be, although attempts at once count as one.  (A try need not
\* have reached the endpoint.)
FailedAfterAllAttempts ==
  \A d \in Deliveries \ manual :
    /\ delivery[d].status = "failed" => tried[d] >= MAX_ATTEMPTS
    /\ delivery[d].attempts <= MAX_ATTEMPTS

\* A delivery does not wait for ever: the job goes on with it after a restart.
DeliveryEnds ==
  \A d \in Deliveries : delivery[d].status \in Undelivered ~> delivery[d].status \notin Undelivered

\* An endpoint is given up only after every attempt was made.
DeliveriesInv == HookDeliveriesTypeOK /\ FailedAfterAllAttempts

=============================================================================
