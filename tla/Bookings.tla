------------------------------ MODULE Bookings ------------------------------
(***************************************************************************)
(* Flights and hotel rooms paid in FARM: the price is taken out of the     *)
(* wallet first, the provider is asked for an order, and the booking is    *)
(* confirmed, refunded, or left for an administrator when the provider's   *)
(* answer is not known.  Hotel bookings can be cancelled.                  *)
(*                                                                         *)
(* The money of a held or confirmed booking is in no wallet.               *)
(***************************************************************************)
EXTENDS Shared

CONSTANTS
  Bookings,   \* idempotency keys, one booking for each
  Hotels,     \* those of rooms; the others are flights
  Guest, Fare,
  GivenBack   \* FARM for what the hotel refunds on a cancellation

ASSUME BookingsAssumption ==
  /\ IsFiniteSet(Bookings) /\ Hotels \subseteq Bookings
  /\ Guest \in [Bookings -> Users]
  /\ Fare \in [Bookings -> Nat \ {0}]
  /\ GivenBack \in [Hotels -> Nat]
  /\ \A b \in Hotels : GivenBack[b] <= Fare[b]

VARIABLES
  booking,   \* status of the travel_bookings row
  order,     \* the order at the provider
  refunded,  \* FARM returned to the guest
  hasty,     \* bookings an administrator decided while their handler was waiting
  bookCall   \* the handlers and how far they are

bookVars == <<booking, order, refunded, hasty, bookCall>>

BookingStatuses ==
  {"none", "payment_held", "needs_review", "confirmed", "failed_refunded",
   "cancelling", "cancelled"}

BookingsTypeOK ==
  /\ wallet \in [Users -> Row]
  /\ booking \in [Bookings -> BookingStatuses]
  /\ order \in [Bookings -> {"none", "made", "cancelled"}]
  /\ refunded \in [Bookings -> Nat]
  /\ hasty \subseteq Bookings
  /\ bookCall \in [Calls -> {Idle} \cup
                     [op : {"hold", "ordering", "made", "rejected", "unknown",
                            "decided", "cancelling", "cancelled"}, id : Bookings]]

InitBookings ==
  /\ booking = [b \in Bookings |-> "none"]
  /\ order = [b \in Bookings |-> "none"]
  /\ refunded = [b \in Bookings |-> 0]
  /\ hasty = {}
  /\ bookCall = Idles

BookStep(c, from, to) ==
  /\ bookCall[c].op = from
  /\ bookCall' = [bookCall EXCEPT ![c].op = to]

BookEnd(c, op) ==
  /\ bookCall[c].op = op
  /\ bookCall' = [bookCall EXCEPT ![c] = Idle]

SetBooking(b, status) == booking' = [booking EXCEPT ![b] = status]

----------------------------------------------------------------------------
(* Booking.                                                                *)

\* book: PIN, offer and price are checked, and holdAndCreate reads the wallet.
BeginHold(c, b) ==
  /\ bookCall[c] = Idle
  /\ booking[b] = "none"
  /\ CanSpend(Guest[b], Fare[b])
  /\ bookCall' = [bookCall EXCEPT ![c] = [op |-> "hold", id |-> b]]
  /\ UNCHANGED <<wallet, booking, order, refunded, hasty>>

\* where: { balance: { gte: total } }
Covered(b) == wallet[Guest[b]].balance >= Fare[b]

CommitHold(c) ==
  LET b == bookCall[c].id
  IN  /\ BookStep(c, "hold", "ordering")
      /\ Covered(b) /\ booking[b] = "none"
      /\ wallet' = Debit(wallet, Guest[b], Fare[b])
      /\ SetBooking(b, "payment_held")
      /\ UNCHANGED <<order, refunded, hasty>>

\* "Insufficient balance", or a second call with the key, which shows the first.
HoldLost(c) ==
  LET b == bookCall[c].id
  IN  /\ BookEnd(c, "hold")
      /\ ~Covered(b) \/ booking[b] # "none"
      /\ UNCHANGED <<wallet, booking, order, refunded, hasty>>

\* createOrder and book of the provider.
OrderAnswered(c, answer) ==
  LET b == bookCall[c].id
  IN  /\ BookStep(c, "ordering", answer)
      /\ \/ answer \in {"made", "unknown"} /\ order' = [order EXCEPT ![b] = "made"]
         \/ answer \in {"rejected", "unknown"} /\ UNCHANGED order
      /\ UNCHANGED <<wallet, booking, refunded, hasty>>

\* One transaction, by id.  It marks the proposal of the assistant behind a flight
\* as executed, which is not modelled.
Confirm(c) ==
  /\ BookEnd(c, "made")
  /\ SetBooking(bookCall[c].id, "confirmed")
  /\ UNCHANGED <<wallet, order, refunded, hasty>>

\* It fails: an error like any other, so the booking is refunded.
ConfirmFails(c) ==
  /\ BookStep(c, "made", "rejected")
  /\ UNCHANGED <<wallet, booking, order, refunded, hasty>>

\* "Outcome unknown: keep funds held, flag for review."  An update by id.
FlagForReview(c) ==
  /\ BookEnd(c, "unknown")
  /\ SetBooking(bookCall[c].id, "needs_review")
  /\ UNCHANGED <<wallet, order, refunded, hasty>>

\* Faulty: the booking is not claimed first.
RefundUnclaimed(b, from, status, amount) ==
  /\ SetBooking(b, status)
  /\ wallet' = Credit(wallet, Guest[b], amount)
  /\ refunded' = [refunded EXCEPT ![b] = @ + amount]

\* refundTx claims the booking from the statuses it may be in, or does nothing.
Refund(b, from, status, amount) ==
  IF booking[b] \in from
  THEN /\ SetBooking(b, status)
       /\ wallet' = Credit(wallet, Guest[b], amount)
       /\ refunded' = [refunded EXCEPT ![b] = @ + amount]
  ELSE UNCHANGED <<wallet, booking, refunded>>

Undecided == {"payment_held", "needs_review"}

RefundRejected(c) ==
  LET b == bookCall[c].id
  IN  /\ BookEnd(c, "rejected")
      /\ Refund(b, Undecided, "failed_refunded", Fare[b])
      /\ UNCHANGED <<order, hasty>>

----------------------------------------------------------------------------
(* The administrator, who looks the order up at the provider.              *)

InFlight(b) ==
  \E c \in Calls : bookCall[c].op \notin {"idle", "decided"} /\ bookCall[c].id = b

NoteHaste(b) == hasty' = IF InFlight(b) THEN hasty \cup {b} ELSE hasty

AdminConfirm(b) ==
  /\ booking[b] \in Undecided /\ order[b] = "made"
  /\ SetBooking(b, "confirmed")
  /\ NoteHaste(b)
  /\ UNCHANGED <<wallet, order, refunded, bookCall>>

BeginAdminRefund(c, b) ==
  /\ bookCall[c] = Idle
  /\ booking[b] \in Undecided /\ order[b] # "made"
  /\ bookCall' = [bookCall EXCEPT ![c] = [op |-> "decided", id |-> b]]
  /\ UNCHANGED <<wallet, booking, order, refunded, hasty>>

AdminRefund(c) ==
  LET b == bookCall[c].id
  IN  /\ BookEnd(c, "decided")
      /\ Refund(b, Undecided, "failed_refunded", Fare[b])
      /\ NoteHaste(b)
      /\ UNCHANGED order

----------------------------------------------------------------------------
(* Cancelling a room.                                                      *)

BeginCancelRoom(c, b) ==
  /\ bookCall[c] = Idle
  /\ b \in Hotels /\ booking[b] = "confirmed"
  /\ SetBooking(b, "cancelling")
  /\ bookCall' = [bookCall EXCEPT ![c] = [op |-> "cancelling", id |-> b]]
  /\ UNCHANGED <<wallet, order, refunded, hasty>>

RoomCancelled(c) ==
  /\ BookStep(c, "cancelling", "cancelled")
  /\ order' = [order EXCEPT ![bookCall[c].id] = "cancelled"]
  /\ UNCHANGED <<wallet, booking, refunded, hasty>>

RefundRoom(c) ==
  LET b == bookCall[c].id
  IN  /\ BookEnd(c, "cancelled")
      /\ Refund(b, {"cancelling"}, "cancelled", GivenBack[b])
      /\ UNCHANGED <<order, hasty>>

\* "The hotel did not accept the cancellation"
CancelRefused(c) ==
  /\ BookEnd(c, "cancelling")
  /\ SetBooking(bookCall[c].id, "confirmed")
  /\ UNCHANGED <<wallet, order, refunded, hasty>>

\* The answer is not known, or is not that the room is cancelled.
CancelUnknown(c) ==
  LET b == bookCall[c].id
  IN  /\ BookEnd(c, "cancelling")
      /\ SetBooking(b, "needs_review")
      /\ \E after \in {"made", "cancelled"} : order' = [order EXCEPT ![b] = after]
      /\ UNCHANGED <<wallet, refunded, hasty>>

\* The process restarts, between any two steps of its handlers.
BookRestart ==
  /\ \E c \in Calls : bookCall[c] # Idle
  /\ bookCall' = Idles
  /\ UNCHANGED <<wallet, booking, order, refunded, hasty>>

NextBookings ==
  \/ \E c \in Calls :
       \/ \E b \in Bookings :
            BeginHold(c, b) \/ BeginCancelRoom(c, b) \/ BeginAdminRefund(c, b)
       \/ \E answer \in {"made", "rejected", "unknown"} : OrderAnswered(c, answer)
       \/ CommitHold(c) \/ HoldLost(c) \/ Confirm(c) \/ ConfirmFails(c)
       \/ FlagForReview(c) \/ RefundRejected(c) \/ AdminRefund(c)
       \/ RoomCancelled(c) \/ RefundRoom(c) \/ CancelRefused(c) \/ CancelUnknown(c)
  \/ \E b \in Bookings : AdminConfirm(b)
  \/ BookRestart

----------------------------------------------------------------------------
(* Properties.                                                             *)

Paid == {b \in Bookings : booking[b] # "none"}

\* Concurrent bookings never take more than the wallet holds, and what is in no
\* wallet is what was paid for bookings and not returned.
BookingsPaidFromBalance ==
  /\ \A u \in Users : wallet[u].balance >= 0
  /\ Holds(SumOver(refunded, Paid) - SumOver(Fare, Paid))

\* Unless an administrator decides a booking that its own handler still works
\* on, what the guest has back is what the status says: nothing, all, or what
\* the hotel confirmed.
RefundFitsStatus ==
  \A b \in Bookings \ hasty :
    refunded[b] = CASE booking[b] = "failed_refunded" -> Fare[b]
                    [] booking[b] = "cancelled" -> GivenBack[b]
                    [] OTHER -> 0

\* A booking is shown as confirmed only while the provider has the order.
ConfirmedIsOrdered ==
  \A b \in Bookings \ hasty : booking[b] = "confirmed" => order[b] = "made"

\* "Full refund to the wallet for a booking whose payment is held.  Idempotent."
RefundIsIdempotent == \A b \in Bookings : refunded[b] <= Fare[b]

\* Bookings under handlers, administrators and the job: each is paid from what the
\* guest had, refunded only when it ends unbooked, and confirmed only with an order.
BookingsInv ==
  /\ BookingsTypeOK
  /\ BookingsPaidFromBalance /\ RefundFitsStatus /\ ConfirmedIsOrdered

=============================================================================
