---------------------------- MODULE OrderProofs -----------------------------
(***************************************************************************)
(* What is claimed, done elsewhere and then written down happens once, for *)
(* every set of rows and handlers: bookings, agent payments, x402          *)
(* deliveries, actions of the assistant, transfers and deposits on the     *)
(* chain, and sessions.                                                    *)
(*                                                                         *)
(* The inductive invariants share their shape. A conditional update lets   *)
(* one handler claim a row; from then until its last write the handler is  *)
(* the only one in that part of its program for that row, and the row's    *)
(* status, the money moved and the handler's place agree. The exceptions   *)
(* the code leaves open, an order made in haste, an action whose record    *)
(* was lost, a row the indexer misled the sender about, are variables of   *)
(* the models, and the invariants are stated outside them.                 *)
(***************************************************************************)
EXTENDS Bookings, AgentPayments, X402, AiActions, ChainTransfers, ChainDeposits, Sessions,
        WalletSums, SequenceTheorems, WellFoundedInduction

----------------------------------------------------------------------------
(* Bookings.                                                               *)

BookingsSpec == InitWallets /\ InitBookings /\ [][NextBookings]_<<wallet, bookVars>>

\* The places of a call that has claimed a booking to order it, and to cancel it.
Ordering == {"ordering", "made", "rejected", "unknown"}
Cancelling == {"cancelling", "cancelled"}

\* A handler between its claim of a booking and its last write.
Working(c, b) == bookCall[c].op \in Ordering \cup Cancelling /\ bookCall[c].id = b

\* A booking nobody hurried has at most one call at work, and its row says so.
BookCallsFit ==
  /\ \A c, d \in Calls : \A b \in Bookings \ hasty : Working(c, b) /\ Working(d, b) => c = d
  /\ \A c \in Calls : \A b \in Bookings \ hasty :
       Working(c, b) =>
         /\ booking[b] = IF bookCall[c].op \in Ordering THEN "payment_held" ELSE "cancelling"
         /\ bookCall[c].op \in {"made", "cancelling"} => order[b] = "made"
  /\ \A c \in Calls : bookCall[c].op \notin {"idle", "hold"} => booking[bookCall[c].id] # "none"
  /\ \A c \in Calls : bookCall[c].op \in Cancelling => bookCall[c].id \in Hotels
  /\ \A b \in Bookings : booking[b] = "none" => refunded[b] = 0 /\ b \notin hasty

\* What the wallets lack is what was paid for bookings and not refunded.
BookMoneyFits ==
  /\ \A u \in Users : wallet[u].balance >= 0
  /\ Total(wallet) = SumOver(InitialBalance, Users) + (SumOver(refunded, Paid) - SumOver(Fare, Paid))

\* A call's place, the row, the order and the refunds agree.
BookStateFits == BookCallsFit /\ RefundFitsStatus /\ ConfirmedIsOrdered

BookingsIInv == BookingsTypeOK /\ BookMoneyFits /\ BookStateFits

\* A step that pays and refunds nothing, and begins no booking.
LEMMA BookMoneyKept ==
  ASSUME BookingsTypeOK, BookMoneyFits, UNCHANGED <<wallet, refunded>>,
         booking' \in [Bookings -> BookingStatuses],
         \A b \in Bookings : (booking'[b] = "none") <=> (booking[b] = "none")
  PROVE  BookMoneyFits'
<1>1. Paid' = Paid
  BY DEF Paid
<1> QED BY <1>1 DEF BookMoneyFits

\* A refund credits the guest and is counted on the booking.
LEMMA BookMoneyRefunded ==
  ASSUME BookingsTypeOK, BookMoneyFits, NEW b \in Bookings, NEW amount \in Nat,
         wallet' = Credit(wallet, Guest[b], amount), refunded' = [refunded EXCEPT ![b] = @ + amount],
         booking[b] # "none", NEW status \in BookingStatuses, status # "none",
         booking' = [booking EXCEPT ![b] = status]
  PROVE  BookMoneyFits' /\ wallet' \in [Users -> Row]
<1>1. Guest[b] \in Users /\ IsFiniteSet(Users) /\ IsFiniteSet(Bookings) /\ amount \in Int
  BY BookingsAssumption, SharedAssumption
<1>2. wallet \in [Users -> Row] /\ refunded \in [Bookings -> Int]
      /\ refunded' \in [Bookings -> Int]
      /\ refunded'[b] = refunded[b] + amount
         /\ \A x \in Bookings \ {b} : refunded'[x] = refunded[x]
  BY DEF BookingsTypeOK
<1>3. wallet' \in [Users -> Row] /\ Total(wallet') = Total(wallet) + amount
  <2>1. Credit(wallet, Guest[b], amount) \in [Users -> Row]
    BY <1>1, <1>2, Increments
  <2>2. Total(Credit(wallet, Guest[b], amount)) = Total(wallet) + amount
    BY <1>1, <1>2, IncrementTotals
  <2> QED BY <2>1, <2>2
<1>4. \A u \in Users : wallet'[u].balance >= 0
  <2>1. \A u \in Users : wallet'[u].balance = wallet[u].balance + (IF u = Guest[b] THEN amount ELSE 0)
    BY <1>1, <1>2 DEF Credit, Row
  <2> QED BY <1>2, <2>1 DEF BookMoneyFits, Row
<1>5. Paid' = Paid /\ Paid \in SUBSET Bookings /\ b \in Paid
  BY DEF Paid, BookingsTypeOK
<1>8. SumOver(refunded', Paid) = SumOver(refunded, Paid) + amount
  <2>1. PICK g : g = refunded'
    OBVIOUS
  <2>a. /\ IsFiniteSet(Bookings) /\ refunded \in [Bookings -> Int] /\ g \in [Bookings -> Int]
        /\ Paid \in SUBSET Bookings /\ b \in Paid /\ \A x \in Bookings \ {b} : g[x] = refunded[x]
    BY <1>1, <1>2, <1>5, <2>1
  <2>2. SumOver(g, Paid) = SumOver(refunded, Paid) + (g[b] - refunded[b])
    BY ONLY <2>a, SumOverPartUpdate
  <2>3. g[b] - refunded[b] = amount
    BY <1>1, <1>2, <2>1
  <2> QED BY <2>1, <2>2, <2>3
<1>10. SumOver(refunded, Paid) \in Int /\ SumOver(Fare, Paid) \in Int
       /\ SumOver(InitialBalance, Users) \in Int
       /\ Total(wallet) \in Int
  <2>1. Fare \in [Bookings -> Int] /\ InitialBalance \in [Users -> Int]
    BY BookingsAssumption, SharedAssumption
  <2> QED BY <1>1, <1>2, <1>5, <2>1, SumOverBound, SumOverPart, IncrementTotals
<1>11. Total(wallet') = SumOver(InitialBalance, Users) + (SumOver(refunded', Paid') - SumOver(Fare, Paid'))
  BY <1>1, <1>3, <1>5, <1>8, <1>10 DEF BookMoneyFits
<1> QED BY <1>3, <1>4, <1>11 DEF BookMoneyFits

\* holdPayment debits the guest and begins the booking.
LEMMA BookMoneyTaken ==
  ASSUME BookingsTypeOK, BookMoneyFits, NEW b \in Bookings,
         wallet' = Debit(wallet, Guest[b], Fare[b]), Covered(b), UNCHANGED refunded,
         booking[b] = "none", refunded[b] = 0, booking' = [booking EXCEPT ![b] = "payment_held"]
  PROVE  BookMoneyFits' /\ wallet' \in [Users -> Row]
<1>1. Guest[b] \in Users /\ IsFiniteSet(Users) /\ IsFiniteSet(Bookings) /\ Fare[b] \in Int
  BY BookingsAssumption, SharedAssumption
<1>2. wallet \in [Users -> Row] /\ refunded \in [Bookings -> Int]
  BY DEF BookingsTypeOK
<1>3. wallet' \in [Users -> Row] /\ Total(wallet') = Total(wallet) - Fare[b]
  <2>1. Debit(wallet, Guest[b], Fare[b]) \in [Users -> Row]
    BY <1>1, <1>2, Increments
  <2>2. Total(Debit(wallet, Guest[b], Fare[b])) = Total(wallet) - Fare[b]
    BY <1>1, <1>2, IncrementTotals
  <2> QED BY <2>1, <2>2
<1>4. \A u \in Users : wallet'[u].balance >= 0
  <2>1. \A u \in Users : wallet'[u].balance = wallet[u].balance - (IF u = Guest[b] THEN Fare[b] ELSE 0)
    BY <1>1, <1>2 DEF Debit, Row
  <2> QED BY <1>1, <1>2, <2>1 DEF BookMoneyFits, Row, Covered
<1>5. Paid' = Paid \cup {b} /\ Paid \in SUBSET Bookings /\ b \in Bookings \ Paid
  BY DEF Paid, BookingsTypeOK
<1>6. Fare \in [Bookings -> Int] /\ InitialBalance \in [Users -> Int]
  BY BookingsAssumption, SharedAssumption
<1>7. SumOver(Fare, Paid') = SumOver(Fare, Paid) + Fare[b] /\ SumOver(Fare, Paid) \in Int
  BY <1>1, <1>5, <1>6, SumOverPart
<1>8. SumOver(refunded, Paid') = SumOver(refunded, Paid) + refunded[b]
      /\ SumOver(refunded, Paid) \in Int
  BY <1>1, <1>2, <1>5, SumOverPart
<1>9. SumOver(InitialBalance, Users) \in Int /\ Total(wallet) \in Int
  BY <1>1, <1>2, <1>6, SumOverBound, IncrementTotals
<1>10. SumOver(refunded', Paid') = SumOver(refunded, Paid)
  BY <1>8
<1>11. Total(wallet') = SumOver(InitialBalance, Users) + (SumOver(refunded', Paid') - SumOver(Fare, Paid'))
  BY <1>1, <1>3, <1>7, <1>8, <1>9, <1>10 DEF BookMoneyFits
<1> QED BY <1>3, <1>4, <1>11 DEF BookMoneyFits

\* The hold, the order with the airline or hotel, the cancellation and the
\* administrator's refund each keep the three parts.
LEMMA BookingsInductive == BookingsIInv /\ [NextBookings]_<<wallet, bookVars>> => BookingsIInv'
<1> SUFFICES ASSUME BookingsIInv, [NextBookings]_<<wallet, bookVars>> PROVE BookingsIInv'
  OBVIOUS
<1>t. BookingsTypeOK /\ BookMoneyFits /\ BookStateFits
  BY DEF BookingsIInv
<1>a. \A b \in Bookings : Fare[b] \in Nat
  BY BookingsAssumption
<1>k. BookingsTypeOK' /\ BookMoneyFits' /\ BookStateFits' => BookingsIInv'
  BY DEF BookingsIInv
<1> USE DEF BookStep, BookEnd, SetBooking, Idle, Working, Ordering, Cancelling, BookingStatuses
<1>1. ASSUME NEW c \in Calls, NEW b \in Bookings, BeginHold(c, b) \/ BeginAdminRefund(c, b)
      PROVE BookingsIInv'
  <2>1. /\ UNCHANGED <<wallet, booking, order, refunded, hasty>> /\ bookCall[c] = Idle
        /\ \E op \in {"hold", "decided"} :
             /\ bookCall' = [bookCall EXCEPT ![c] = [op |-> op, id |-> b]]
             /\ op = "decided" => booking[b] # "none"
    BY <1>t, <1>1 DEF BookingsTypeOK, BeginHold, BeginAdminRefund, Undecided
  <2>2. BookingsTypeOK'
    BY <1>t, <2>1 DEF BookingsTypeOK
  <2>3. BookMoneyFits'
    BY <1>t, <2>1, <2>2, BookMoneyKept DEF BookingsTypeOK, BookStateFits, BookCallsFit,
         RefundFitsStatus, ConfirmedIsOrdered
  <2>4. BookStateFits'
    BY <1>t, <1>a, <2>1 DEF BookingsTypeOK, BookStateFits, BookCallsFit, RefundFitsStatus,
         ConfirmedIsOrdered
  <2> QED BY <1>k, <2>2, <2>3, <2>4
<1>2. ASSUME NEW c \in Calls, HoldLost(c) PROVE BookingsIInv'
  <2>1. UNCHANGED <<wallet, booking, order, refunded, hasty>>
        /\ bookCall' = [bookCall EXCEPT ![c] = Idle]
    BY <1>t, <1>2 DEF BookingsTypeOK, HoldLost
  <2>2. BookingsTypeOK'
    BY <1>t, <2>1 DEF BookingsTypeOK
  <2>3. BookMoneyFits'
    BY <1>t, <2>1, <2>2, BookMoneyKept DEF BookingsTypeOK, BookStateFits, BookCallsFit,
         RefundFitsStatus, ConfirmedIsOrdered
  <2>4. BookStateFits'
    BY <1>t, <1>a, <2>1 DEF BookingsTypeOK, BookStateFits, BookCallsFit, RefundFitsStatus,
         ConfirmedIsOrdered
  <2> QED BY <1>k, <2>2, <2>3, <2>4
<1>3. ASSUME NEW c \in Calls, NEW answer \in {"made", "rejected", "unknown"},
             OrderAnswered(c, answer)
      PROVE BookingsIInv'
  <2>0. PICK b \in Bookings : b = bookCall[c].id
    BY <1>t, <1>3 DEF BookingsTypeOK, OrderAnswered
  <2>1. /\ bookCall[c].op = "ordering" /\ bookCall' = [bookCall EXCEPT ![c].op = answer]
        /\ UNCHANGED <<wallet, booking, refunded, hasty>>
        /\ \/ answer \in {"made", "unknown"} /\ order' = [order EXCEPT ![b] = "made"]
           \/ answer \in {"rejected", "unknown"} /\ UNCHANGED order
    BY <1>3, <2>0 DEF OrderAnswered
  <2>2. BookingsTypeOK'
    BY <1>t, <2>0, <2>1 DEF BookingsTypeOK
  <2>3. BookMoneyFits'
    BY <1>t, <2>0, <2>1, <2>2, BookMoneyKept DEF BookingsTypeOK, BookStateFits,
         BookCallsFit, RefundFitsStatus, ConfirmedIsOrdered
  <2>4. BookStateFits'
    BY <1>t, <1>a, <2>0, <2>1 DEF BookingsTypeOK, BookStateFits, BookCallsFit,
         RefundFitsStatus, ConfirmedIsOrdered
  <2> QED BY <1>k, <2>2, <2>3, <2>4
<1>4. ASSUME NEW c \in Calls, Confirm(c) PROVE BookingsIInv'
  <2>0. PICK b \in Bookings : b = bookCall[c].id
    BY <1>t, <1>4 DEF BookingsTypeOK, Confirm
  <2>1. /\ bookCall[c].op = "made" /\ bookCall' = [bookCall EXCEPT ![c] = Idle]
        /\ UNCHANGED <<wallet, order, refunded, hasty>>
        /\ booking' = [booking EXCEPT ![b] = "confirmed"]
    BY <1>4, <2>0 DEF Confirm
  <2>2. BookingsTypeOK'
    BY <1>t, <2>0, <2>1 DEF BookingsTypeOK
  <2>3. BookMoneyFits'
    BY <1>t, <2>0, <2>1, <2>2, BookMoneyKept DEF BookingsTypeOK, BookStateFits,
         BookCallsFit, RefundFitsStatus, ConfirmedIsOrdered
  <2>4. BookStateFits'
    BY <1>t, <1>a, <2>0, <2>1 DEF BookingsTypeOK, BookStateFits, BookCallsFit,
         RefundFitsStatus, ConfirmedIsOrdered
  <2> QED BY <1>k, <2>2, <2>3, <2>4
<1>5. ASSUME NEW c \in Calls, ConfirmFails(c) PROVE BookingsIInv'
  <2>0. PICK b \in Bookings : b = bookCall[c].id
    BY <1>t, <1>5 DEF BookingsTypeOK, ConfirmFails
  <2>1. /\ bookCall[c].op = "made" /\ bookCall' = [bookCall EXCEPT ![c].op = "rejected"]
        /\ UNCHANGED <<wallet, booking, order, refunded, hasty>>
    BY <1>5, <2>0 DEF ConfirmFails
  <2>2. BookingsTypeOK'
    BY <1>t, <2>0, <2>1 DEF BookingsTypeOK
  <2>3. BookMoneyFits'
    BY <1>t, <2>0, <2>1, <2>2, BookMoneyKept DEF BookingsTypeOK, BookStateFits,
         BookCallsFit, RefundFitsStatus, ConfirmedIsOrdered
  <2>4. BookStateFits'
    BY <1>t, <1>a, <2>0, <2>1 DEF BookingsTypeOK, BookStateFits, BookCallsFit,
         RefundFitsStatus, ConfirmedIsOrdered
  <2> QED BY <1>k, <2>2, <2>3, <2>4
<1>6. ASSUME NEW c \in Calls, FlagForReview(c) PROVE BookingsIInv'
  <2>0. PICK b \in Bookings : b = bookCall[c].id
    BY <1>t, <1>6 DEF BookingsTypeOK, FlagForReview
  <2>1. /\ bookCall[c].op = "unknown" /\ bookCall' = [bookCall EXCEPT ![c] = Idle]
        /\ UNCHANGED <<wallet, order, refunded, hasty>>
        /\ booking' = [booking EXCEPT ![b] = "needs_review"]
    BY <1>6, <2>0 DEF FlagForReview
  <2>2. BookingsTypeOK'
    BY <1>t, <2>0, <2>1 DEF BookingsTypeOK
  <2>3. BookMoneyFits'
    BY <1>t, <2>0, <2>1, <2>2, BookMoneyKept DEF BookingsTypeOK, BookStateFits,
         BookCallsFit, RefundFitsStatus, ConfirmedIsOrdered
  <2>4. BookStateFits'
    BY <1>t, <1>a, <2>0, <2>1 DEF BookingsTypeOK, BookStateFits, BookCallsFit,
         RefundFitsStatus, ConfirmedIsOrdered
  <2> QED BY <1>k, <2>2, <2>3, <2>4
<1>7. ASSUME NEW b \in Bookings, AdminConfirm(b) PROVE BookingsIInv'
  <2>1. /\ booking[b] \in {"payment_held", "needs_review"} /\ order[b] = "made"
        /\ booking' = [booking EXCEPT ![b] = "confirmed"]
        /\ hasty' = hasty \cup {b} \/ (hasty' = hasty /\ ~\E c \in Calls : Working(c, b))
        /\ UNCHANGED <<wallet, order, refunded, bookCall>>
    BY <1>t, <1>7 DEF BookingsTypeOK, AdminConfirm, Undecided, NoteHaste, InFlight
  <2>2. BookingsTypeOK'
    BY <1>t, <2>1 DEF BookingsTypeOK
  <2>3. BookMoneyFits'
    BY <1>t, <2>1, <2>2, BookMoneyKept DEF BookingsTypeOK, BookStateFits, BookCallsFit,
         RefundFitsStatus, ConfirmedIsOrdered
  <2>4. BookStateFits'
    BY <1>t, <1>a, <2>1 DEF BookingsTypeOK, BookStateFits, BookCallsFit, RefundFitsStatus,
         ConfirmedIsOrdered
  <2> QED BY <1>k, <2>2, <2>3, <2>4
<1>8. ASSUME NEW c \in Calls, NEW b \in Bookings, BeginCancelRoom(c, b) PROVE BookingsIInv'
  <2>1. /\ bookCall[c] = Idle /\ booking[b] = "confirmed" /\ b \in Hotels
        /\ booking' = [booking EXCEPT ![b] = "cancelling"]
        /\ bookCall' = [bookCall EXCEPT ![c] = [op |-> "cancelling", id |-> b]]
        /\ UNCHANGED <<wallet, order, refunded, hasty>>
    BY <1>t, <1>8 DEF BookingsTypeOK, BeginCancelRoom
  <2>2. BookingsTypeOK'
    BY <1>t, <2>1 DEF BookingsTypeOK
  <2>3. BookMoneyFits'
    BY <1>t, <2>1, <2>2, BookMoneyKept DEF BookingsTypeOK, BookStateFits, BookCallsFit,
         RefundFitsStatus, ConfirmedIsOrdered
  <2>4. BookStateFits'
    BY <1>t, <1>a, <2>1 DEF BookingsTypeOK, BookStateFits, BookCallsFit, RefundFitsStatus,
         ConfirmedIsOrdered
  <2> QED BY <1>k, <2>2, <2>3, <2>4
<1>9. ASSUME NEW c \in Calls, RoomCancelled(c) PROVE BookingsIInv'
  <2>0. PICK b \in Bookings : b = bookCall[c].id
    BY <1>t, <1>9 DEF BookingsTypeOK, RoomCancelled
  <2>1. /\ bookCall[c].op = "cancelling" /\ bookCall' = [bookCall EXCEPT ![c].op = "cancelled"]
        /\ UNCHANGED <<wallet, booking, refunded, hasty>>
        /\ order' = [order EXCEPT ![b] = "cancelled"]
    BY <1>9, <2>0 DEF RoomCancelled
  <2>2. BookingsTypeOK'
    BY <1>t, <2>0, <2>1 DEF BookingsTypeOK
  <2>3. BookMoneyFits'
    BY <1>t, <2>0, <2>1, <2>2, BookMoneyKept DEF BookingsTypeOK, BookStateFits,
         BookCallsFit, RefundFitsStatus, ConfirmedIsOrdered
  <2>4. BookStateFits'
    BY <1>t, <1>a, <2>0, <2>1 DEF BookingsTypeOK, BookStateFits, BookCallsFit,
         RefundFitsStatus, ConfirmedIsOrdered
  <2> QED BY <1>k, <2>2, <2>3, <2>4
<1>10. ASSUME NEW c \in Calls, CancelRefused(c) PROVE BookingsIInv'
  <2>0. PICK b \in Bookings : b = bookCall[c].id
    BY <1>t, <1>10 DEF BookingsTypeOK, CancelRefused
  <2>1. /\ bookCall[c].op = "cancelling" /\ bookCall' = [bookCall EXCEPT ![c] = Idle]
        /\ UNCHANGED <<wallet, order, refunded, hasty>>
        /\ booking' = [booking EXCEPT ![b] = "confirmed"]
    BY <1>10, <2>0 DEF CancelRefused
  <2>2. BookingsTypeOK'
    BY <1>t, <2>0, <2>1 DEF BookingsTypeOK
  <2>3. BookMoneyFits'
    BY <1>t, <2>0, <2>1, <2>2, BookMoneyKept DEF BookingsTypeOK, BookStateFits,
         BookCallsFit, RefundFitsStatus, ConfirmedIsOrdered
  <2>4. BookStateFits'
    BY <1>t, <1>a, <2>0, <2>1 DEF BookingsTypeOK, BookStateFits, BookCallsFit,
         RefundFitsStatus, ConfirmedIsOrdered
  <2> QED BY <1>k, <2>2, <2>3, <2>4
<1>11. ASSUME NEW c \in Calls, CancelUnknown(c) PROVE BookingsIInv'
  <2>0. PICK b \in Bookings : b = bookCall[c].id
    BY <1>t, <1>11 DEF BookingsTypeOK, CancelUnknown
  <2>1. /\ bookCall[c].op = "cancelling" /\ bookCall' = [bookCall EXCEPT ![c] = Idle]
        /\ UNCHANGED <<wallet, refunded, hasty>>
        /\ booking' = [booking EXCEPT ![b] = "needs_review"]
        /\ \E after \in {"made", "cancelled"} : order' = [order EXCEPT ![b] = after]
    BY <1>11, <2>0 DEF CancelUnknown
  <2>2. BookingsTypeOK'
    BY <1>t, <2>0, <2>1 DEF BookingsTypeOK
  <2>3. BookMoneyFits'
    BY <1>t, <2>0, <2>1, <2>2, BookMoneyKept DEF BookingsTypeOK, BookStateFits,
         BookCallsFit, RefundFitsStatus, ConfirmedIsOrdered
  <2>4. BookStateFits'
    BY <1>t, <1>a, <2>0, <2>1 DEF BookingsTypeOK, BookStateFits, BookCallsFit,
         RefundFitsStatus, ConfirmedIsOrdered
  <2> QED BY <1>k, <2>2, <2>3, <2>4
<1>12. CASE BookRestart
  <2>1. UNCHANGED <<wallet, booking, order, refunded, hasty>> /\ bookCall' = Idles
    BY <1>12 DEF BookRestart
  <2>2. BookingsTypeOK'
    BY <1>t, <2>1 DEF BookingsTypeOK, Idles
  <2>3. BookMoneyFits'
    BY <1>t, <2>1, <2>2, BookMoneyKept DEF BookingsTypeOK
  <2>4. BookStateFits'
    BY <1>t, <2>1 DEF BookingsTypeOK, BookStateFits, BookCallsFit, RefundFitsStatus,
         ConfirmedIsOrdered, Idles
  <2> QED BY <1>k, <2>2, <2>3, <2>4
<1>13. CASE UNCHANGED <<wallet, bookVars>>
  <2>1. UNCHANGED <<wallet, booking, order, refunded, hasty, bookCall>>
    BY <1>13 DEF bookVars
  <2>2. BookingsTypeOK'
    BY <1>t, <2>1 DEF BookingsTypeOK
  <2>3. BookMoneyFits'
    BY <1>t, <2>1, <2>2, BookMoneyKept DEF BookingsTypeOK
  <2>4. BookStateFits'
    BY <1>t, <2>1 DEF BookingsTypeOK, BookStateFits, BookCallsFit, RefundFitsStatus,
         ConfirmedIsOrdered
  <2> QED BY <1>k, <2>2, <2>3, <2>4
<1>14. ASSUME NEW c \in Calls, CommitHold(c) PROVE BookingsIInv'
  <2>1. PICK b \in Bookings : b = bookCall[c].id
    BY <1>t, <1>14 DEF BookingsTypeOK, CommitHold
  <2>2. /\ bookCall[c].op = "hold" /\ bookCall' = [bookCall EXCEPT ![c].op = "ordering"]
        /\ Covered(b) /\ booking[b] = "none" /\ refunded[b] = 0 /\ b \notin hasty
        /\ wallet' = Debit(wallet, Guest[b], Fare[b])
        /\ booking' = [booking EXCEPT ![b] = "payment_held"]
        /\ UNCHANGED <<order, refunded, hasty>>
    BY <1>t, <1>14, <2>1 DEF CommitHold, BookStateFits, BookCallsFit
  <2>3. BookMoneyFits' /\ wallet' \in [Users -> Row]
    BY <1>t, <2>2, BookMoneyTaken
  <2>4. BookingsTypeOK'
    BY <1>t, <2>1, <2>2, <2>3 DEF BookingsTypeOK
  <2>5. BookStateFits'
    BY <1>t, <1>a, <2>1, <2>2 DEF BookingsTypeOK, BookStateFits, BookCallsFit,
         RefundFitsStatus, ConfirmedIsOrdered
  <2> QED BY <1>k, <2>3, <2>4, <2>5
<1>15. ASSUME NEW c \in Calls, RefundRejected(c) PROVE BookingsIInv'
  <2>1. PICK b \in Bookings : b = bookCall[c].id
    BY <1>t, <1>15 DEF BookingsTypeOK, RefundRejected
  <2>2. /\ bookCall[c].op = "rejected" /\ bookCall' = [bookCall EXCEPT ![c] = Idle]
        /\ UNCHANGED order
        /\ UNCHANGED hasty
        /\ Refund(b, {"payment_held", "needs_review"}, "failed_refunded", Fare[b])
    BY <1>15, <2>1 DEF RefundRejected, Undecided
  <2>3. CASE booking[b] \in {"payment_held", "needs_review"}
    <3>1. /\ booking' = [booking EXCEPT ![b] = "failed_refunded"]
          /\ wallet' = Credit(wallet, Guest[b], Fare[b])
             /\ refunded' = [refunded EXCEPT ![b] = @ + Fare[b]]
      BY <2>2, <2>3 DEF Refund
    <3>a. Fare[b] \in Nat
      BY <1>a
    <3>2. BookMoneyFits' /\ wallet' \in [Users -> Row]
      BY <1>t, <2>3, <3>1, <3>a, BookMoneyRefunded
    <3>3. BookingsTypeOK'
      BY <1>t, <2>1, <2>2, <3>1, <3>a, <3>2 DEF BookingsTypeOK
    <3>4. BookStateFits'
      BY <1>t, <1>a, <2>1, <2>2, <2>3, <3>1, <3>a DEF BookingsTypeOK, BookStateFits,
           BookCallsFit, RefundFitsStatus, ConfirmedIsOrdered
    <3> QED BY <1>k, <3>2, <3>3, <3>4
  <2>4. CASE booking[b] \notin {"payment_held", "needs_review"}
    <3>1. UNCHANGED <<wallet, booking, refunded>>
      BY <2>2, <2>4 DEF Refund
    <3>2. BookingsTypeOK'
      BY <1>t, <2>1, <2>2, <3>1 DEF BookingsTypeOK
    <3>3. BookMoneyFits'
      BY <1>t, <3>1, <3>2, BookMoneyKept DEF BookingsTypeOK
    <3>4. BookStateFits'
      BY <1>t, <1>a, <2>1, <2>2, <2>4, <3>1 DEF BookingsTypeOK, BookStateFits, BookCallsFit,
           RefundFitsStatus, ConfirmedIsOrdered
    <3> QED BY <1>k, <3>2, <3>3, <3>4
  <2> QED BY <2>3, <2>4
<1>16. ASSUME NEW c \in Calls, AdminRefund(c) PROVE BookingsIInv'
  <2>1. PICK b \in Bookings : b = bookCall[c].id
    BY <1>t, <1>16 DEF BookingsTypeOK, AdminRefund
  <2>2. /\ bookCall[c].op = "decided" /\ bookCall' = [bookCall EXCEPT ![c] = Idle]
        /\ UNCHANGED order
        /\ (hasty' = hasty \cup {b} \/ (hasty' = hasty /\ ~\E d \in Calls : Working(d, b)))
        /\ Refund(b, {"payment_held", "needs_review"}, "failed_refunded", Fare[b])
    BY <1>16, <2>1 DEF AdminRefund, Undecided, NoteHaste, InFlight
  <2>3. CASE booking[b] \in {"payment_held", "needs_review"}
    <3>1. /\ booking' = [booking EXCEPT ![b] = "failed_refunded"]
          /\ wallet' = Credit(wallet, Guest[b], Fare[b])
             /\ refunded' = [refunded EXCEPT ![b] = @ + Fare[b]]
      BY <2>2, <2>3 DEF Refund
    <3>a. Fare[b] \in Nat
      BY <1>a
    <3>2. BookMoneyFits' /\ wallet' \in [Users -> Row]
      BY <1>t, <2>3, <3>1, <3>a, BookMoneyRefunded
    <3>3. BookingsTypeOK'
      BY <1>t, <2>1, <2>2, <3>1, <3>a, <3>2 DEF BookingsTypeOK
    <3>4. BookStateFits'
      BY <1>t, <1>a, <2>1, <2>2, <2>3, <3>1, <3>a DEF BookingsTypeOK, BookStateFits,
           BookCallsFit, RefundFitsStatus, ConfirmedIsOrdered
    <3> QED BY <1>k, <3>2, <3>3, <3>4
  <2>4. CASE booking[b] \notin {"payment_held", "needs_review"}
    <3>1. UNCHANGED <<wallet, booking, refunded>>
      BY <2>2, <2>4 DEF Refund
    <3>2. BookingsTypeOK'
      BY <1>t, <2>1, <2>2, <3>1 DEF BookingsTypeOK
    <3>3. BookMoneyFits'
      BY <1>t, <3>1, <3>2, BookMoneyKept DEF BookingsTypeOK
    <3>4. BookStateFits'
      BY <1>t, <1>a, <2>1, <2>2, <2>4, <3>1 DEF BookingsTypeOK, BookStateFits, BookCallsFit,
           RefundFitsStatus, ConfirmedIsOrdered
    <3> QED BY <1>k, <3>2, <3>3, <3>4
  <2> QED BY <2>3, <2>4
<1>17. ASSUME NEW c \in Calls, RefundRoom(c) PROVE BookingsIInv'
  <2>1. PICK b \in Bookings : b = bookCall[c].id
    BY <1>t, <1>17 DEF BookingsTypeOK, RefundRoom
  <2>2. /\ bookCall[c].op = "cancelled" /\ bookCall' = [bookCall EXCEPT ![c] = Idle]
        /\ UNCHANGED order
        /\ UNCHANGED hasty
        /\ Refund(b, {"cancelling"}, "cancelled", GivenBack[b])
    BY <1>17, <2>1 DEF RefundRoom, Undecided
  <2>3. CASE booking[b] \in {"cancelling"}
    <3>1. /\ booking' = [booking EXCEPT ![b] = "cancelled"]
          /\ wallet' = Credit(wallet, Guest[b], GivenBack[b])
             /\ refunded' = [refunded EXCEPT ![b] = @ + GivenBack[b]]
      BY <2>2, <2>3 DEF Refund
    <3>a. GivenBack[b] \in Nat
      BY <1>t, <2>1, <2>2, BookingsAssumption DEF BookingsTypeOK, BookStateFits, BookCallsFit
    <3>2. BookMoneyFits' /\ wallet' \in [Users -> Row]
      BY <1>t, <2>3, <3>1, <3>a, BookMoneyRefunded
    <3>3. BookingsTypeOK'
      BY <1>t, <2>1, <2>2, <3>1, <3>a, <3>2 DEF BookingsTypeOK
    <3>4. BookStateFits'
      BY <1>t, <1>a, <2>1, <2>2, <2>3, <3>1, <3>a DEF BookingsTypeOK, BookStateFits,
           BookCallsFit, RefundFitsStatus, ConfirmedIsOrdered
    <3> QED BY <1>k, <3>2, <3>3, <3>4
  <2>4. CASE booking[b] \notin {"cancelling"}
    <3>1. UNCHANGED <<wallet, booking, refunded>>
      BY <2>2, <2>4 DEF Refund
    <3>2. BookingsTypeOK'
      BY <1>t, <2>1, <2>2, <3>1 DEF BookingsTypeOK
    <3>3. BookMoneyFits'
      BY <1>t, <3>1, <3>2, BookMoneyKept DEF BookingsTypeOK
    <3>4. BookStateFits'
      BY <1>t, <1>a, <2>1, <2>2, <2>4, <3>1 DEF BookingsTypeOK, BookStateFits, BookCallsFit,
           RefundFitsStatus, ConfirmedIsOrdered
    <3> QED BY <1>k, <3>2, <3>3, <3>4
  <2> QED BY <2>3, <2>4
<1> QED BY <1>1, <1>2, <1>3, <1>4, <1>5, <1>6, <1>7, <1>8, <1>9, <1>10, <1>11, <1>12, <1>13,
    <1>14, <1>15, <1>16,
           <1>17 DEF NextBookings

\* Guests pay for bookings from what they have; a booking has back nothing, all
\* or what the hotel confirmed, as its status says; and a confirmed one was
\* ordered: the last two unless an administrator decides on a booking still being
\* ordered.
THEOREM BookingsSettled == BookingsSpec => []BookingsInv
<1>1. InitWallets /\ InitBookings => BookingsIInv
  <2> SUFFICES ASSUME InitWallets, InitBookings PROVE BookingsIInv
    OBVIOUS
  <2>1. BookingsTypeOK /\ BookStateFits
    BY SharedAssumption DEF InitWallets, InitBookings, BookingsTypeOK, BookStateFits,
         BookCallsFit, RefundFitsStatus,
       ConfirmedIsOrdered, Idles, Idle, Row, BookingStatuses, Working, Ordering, Cancelling
  <2>2. BookMoneyFits
    <3>1. Paid = {} /\ \A u \in Users : wallet[u].balance = InitialBalance[u]
          /\ InitialBalance[u] >= 0
      BY SharedAssumption DEF InitWallets, InitBookings, Paid
    <3>2. DOMAIN wallet = Users /\ [u \in Users |-> wallet[u].balance] = InitialBalance
      BY SharedAssumption DEF InitWallets
    <3>3. Total(wallet) = SumOver(InitialBalance, Users)
      BY <3>2 DEF Total
    <3>4. SumOver(refunded, {}) = 0 /\ SumOver(Fare, {}) = 0
      <4>1. IsFiniteSet({})
        BY FS_EmptySet
      <4> QED BY <4>1, SumOverZero
    <3>5. SumOver(InitialBalance, Users) \in Int
      <4>1. IsFiniteSet(Users) /\ InitialBalance \in [Users -> Int]
        BY SharedAssumption
      <4> QED BY <4>1, SumOverBound
    <3> QED BY <3>1, <3>3, <3>4, <3>5 DEF BookMoneyFits
  <2> QED BY <2>1, <2>2 DEF BookingsIInv
<1>2. BookingsIInv => BookingsInv
  BY DEF BookingsIInv, BookMoneyFits, BookStateFits, BookingsInv, BookingsPaidFromBalance, Holds
<1> QED BY <1>1, <1>2, BookingsInductive, PTL DEF BookingsSpec

----------------------------------------------------------------------------
(* Agent payments.                                                         *)

AgentPaymentsSpec == InitWallets /\ InitAgentPayments
/\ [][NextAgentPayments]_<<wallet, agentVars>>

\* Calls of pay, of refund and of an agent's request, by their place.
PayCalls ==
  [op : {"claim", "claimed", "sent", "recorded", "caps"}, id : Intents, by : Users, ask : SUBSET Requests]
IntentRefunds ==
  [op : {"refund"}, id : Intents, amount : Portions,
   seen : [status : IntentStatuses, payer : Users \cup {Nobody}, refunded : Nat], ask : {{}}]
AgentAsks == [op : {"ask"}, id : Intents, ask : {{}}]

AgentCallShape == agentCall \in [Calls -> {Idle} \cup PayCalls \cup IntentRefunds \cup AgentAsks]

UnpaidStatuses == {"requires_payment", "canceled", "expired"}
PaidStatuses == {"succeeded", "partially_refunded", "refunded"}

Paying(c) == agentCall[c].op \in {"claim", "claimed", "sent", "recorded", "caps"}
Claiming(c) == agentCall[c].op \in {"claimed", "sent"}

\* An intent's status, what was paid for it and what was returned agree.
IntentFits(i) ==
  /\ intent[i].status \in UnpaidStatuses => intentPaid[i] = 0
  /\ intent[i].status \in PaidStatuses => intentPaid[i] = 1
  /\ intentPaid[i] <= 1 /\ returned[i] = intent[i].refunded
  /\ returned[i] <= Asked[i] /\ (intentPaid[i] = 0 => returned[i] = 0)
  /\ intent[i].status \notin UnpaidStatuses => intent[i].payer \in Users

\* What a call knows of the intent it works on.
AgentCallFits(c) ==
  /\ Claiming(c) => /\ intent[agentCall[c].id].status = "processing"
                    /\ intent[agentCall[c].id].payer = agentCall[c].by
  /\ agentCall[c].op = "claimed" => intentPaid[agentCall[c].id] = 0
  /\ agentCall[c].op = "sent" => intentPaid[agentCall[c].id] = 1
  /\ agentCall[c].op = "recorded" =>
       intent[agentCall[c].id].status \in PaidStatuses
       /\ intent[agentCall[c].id].payer = agentCall[c].by
  /\ Paying(c) /\ agentCall[c].ask # {} => agentCall[c].by = Grantor
  /\ agentCall[c].op = "caps" => agentCall[c].ask # {}
  /\ agentCall[c].op = "refund" =>
       /\ agentCall[c].seen.status \in {"succeeded", "partially_refunded"}
       /\ agentCall[c].seen.refunded + agentCall[c].amount <= Asked[agentCall[c].id]

\* Intents, and at most one call that has claimed each.
IntentsFit ==
  /\ \A i \in Intents : IntentFits(i)
  /\ \A c \in Calls : AgentCallFits(c)
  /\ \A c, d \in Calls : Claiming(c) /\ Claiming(d) /\ agentCall[c].id = agentCall[d].id => c = d

\* A request for confirmation that was confirmed names a paid intent.
AskFits(r) ==
  /\ ask[r].status # "none" => ask[r].intent \in Intents
  /\ ask[r].status = "confirmed" => /\ intent[ask[r].intent].status \in PaidStatuses
                                    /\ intent[ask[r].intent].payer = Grantor

\* A request in processing belongs to one call, and to the intent that call pays.
AsksFit ==
  /\ \A r \in Requests : AskFits(r)
  /\ \A c \in Calls : Paying(c) => \A r \in agentCall[c].ask :
       /\ ask[r].status = "processing" /\ ask[r].intent = agentCall[c].id
       /\ agentCall[c].ask = {r}
  /\ \A c, d \in Calls : Paying(c)
     /\ Paying(d) => \A r \in agentCall[c].ask : r \in agentCall[d].ask => c = d

\* The requests that count against the cap, also those a call is about to
\* confirm.
Charged ==
  {r \in Requests : \/ ask[r].status = "confirmed"
                    \/ \E c \in Calls : Paying(c) /\ agentCall[c].op # "caps"
                       /\ r \in agentCall[c].ask}

\* What they come to is within the day's cap.
CapFits == SumOver(AskedFor, Charged) <= DayCap

AgentPaymentsIInv == AgentPaymentsTypeOK /\ AgentCallShape /\ IntentsFit /\ AsksFit /\ CapFits

\* A step that charges no further request keeps the cap.
LEMMA CapKept ==
  ASSUME AgentPaymentsTypeOK, AgentPaymentsTypeOK', CapFits,
         Charged' \in SUBSET Charged, \A r \in Charged' : ask'[r].intent = ask[r].intent
  PROVE  CapFits'
<1>1. IsFiniteSet(Requests) /\ Asked \in [Intents -> Nat] /\ NoIntent \notin Intents
      /\ DayCap \in Nat
  BY AgentPaymentsAssumption
<1>2. AskedFor \in [Requests -> Int] /\ (\A r \in Requests : AskedFor[r] >= 0)
      /\ AskedFor' \in [Requests -> Int]
  BY <1>1 DEF AskedFor, AgentPaymentsTypeOK
<1>3. Charged \in SUBSET Requests /\ Charged' \in SUBSET Requests
  BY DEF Charged
<1>4. PICK T : T = Charged'
  OBVIOUS
<1>5. PICK g : g = AskedFor'
  OBVIOUS
<1> DEFINE k == [r \in T |-> AskedFor[r]]
<1>6. /\ IsFiniteSet(T) /\ k \in [T -> Int] /\ T \in SUBSET Charged /\ T \in SUBSET Requests
      /\ (\A r \in T : AskedFor[r] = k[r]) /\ \A r \in T : g[r] = k[r]
  <2>1. IsFiniteSet(T)
    BY <1>1, <1>3, <1>4, FS_Subset
  <2> QED BY <2>1, <1>2, <1>3, <1>4, <1>5 DEF AskedFor
<1> HIDE DEF k
<1>7. SumOver(AskedFor, T) = SumOver(k, T)
  BY ONLY <1>6, SumOverSame
<1>8. SumOver(g, T) = SumOver(k, T)
  BY ONLY <1>6, SumOverSame
<1>9. SumOver(AskedFor, T) <= SumOver(AskedFor, Charged)
  BY ONLY <1>1, <1>2, <1>3, <1>6, SumOverMonotone
<1>10. SumOver(AskedFor, Charged) \in Int /\ SumOver(AskedFor, T) \in Int
  BY <1>1, <1>2, <1>3, <1>6, SumOverPart
<1>11. SumOver(g, T) <= DayCap
  BY <1>1, <1>7, <1>8, <1>9, <1>10 DEF CapFits
<1> QED BY <1>4, <1>5, <1>11 DEF CapFits

\* A call that pays has an intent, a payer and perhaps a request.
LEMMA PayingCalls ==
  ASSUME AgentCallShape
  PROVE  \A c \in Calls : Paying(c) => /\ agentCall[c] \in PayCalls /\ agentCall[c].id \in Intents
                                       /\ agentCall[c].by \in Users
                                          /\ agentCall[c].ask \in SUBSET Requests
<1> SUFFICES ASSUME NEW c \in Calls, Paying(c) PROVE agentCall[c] \in PayCalls
  BY DEF PayCalls
<1> QED BY DEF AgentCallShape, Paying, Idle, IntentRefunds, AgentAsks

\* A step on one intent, by the one call that may be working on it.
LEMMA OtherIntentsKept ==
  ASSUME IntentsFit, AgentCallShape, NEW i \in Intents, IntentFits(i)',
         \A j \in Intents \ {i} : /\ intent'[j] = intent[j] /\ intentPaid'[j] = intentPaid[j]
                                  /\ returned'[j] = returned[j],
         NEW c \in Calls, AgentCallFits(c)', \A d \in Calls \ {c} : agentCall'[d] = agentCall[d],
         \A d \in Calls \ {c} : Claiming(d) => agentCall[d].id # i,
         Claiming(c)' => agentCall'[c].id = i,
         intent[i].status \in PaidStatuses => intent'[i].status \in PaidStatuses
         /\ intent'[i].payer = intent[i].payer
  PROVE  IntentsFit'
<1>0. \A d \in Calls : Paying(d) => agentCall[d].id \in Intents
  BY PayingCalls
<1>1. ASSUME NEW j \in Intents PROVE IntentFits(j)'
  BY DEF IntentsFit, IntentFits
<1>2. ASSUME NEW d \in Calls PROVE AgentCallFits(d)'
  <2>1. CASE d # c
    <3>1. AgentCallFits(d) /\ agentCall'[d] = agentCall[d]
      BY <2>1 DEF IntentsFit
    <3>2. Paying(d) => agentCall[d].id \in Intents
      BY <1>0
    <3>3. CASE Claiming(d)
      <4>1. agentCall[d].id \in Intents \ {i}
        BY <2>1, <3>2, <3>3 DEF Claiming, Paying
      <4> QED BY <3>1, <3>3, <4>1 DEF AgentCallFits, Claiming, Paying
    <3>4. CASE agentCall[d].op = "recorded"
      <4>1. CASE agentCall[d].id = i
        BY <3>1, <3>4, <4>1 DEF AgentCallFits, Claiming, Paying
      <4>2. CASE agentCall[d].id # i
        <5>1. agentCall[d].id \in Intents \ {i}
          BY <3>2, <3>4, <4>2 DEF Paying
        <5> QED BY <3>1, <3>4, <5>1 DEF AgentCallFits, Claiming, Paying
      <4> QED BY <4>1, <4>2
    <3>5. CASE ~Claiming(d) /\ agentCall[d].op # "recorded"
      BY <3>1, <3>5 DEF AgentCallFits, Claiming, Paying
    <3> QED BY <3>3, <3>4, <3>5
  <2> QED BY <2>1
<1>3. ASSUME NEW d \in Calls, NEW e \in Calls, Claiming(d)', Claiming(e)',
             agentCall'[d].id = agentCall'[e].id
      PROVE d = e
  BY <1>3 DEF IntentsFit, Claiming
<1> QED BY <1>1, <1>2, <1>3 DEF IntentsFit

\* A step that changes no intent and claims none.
LEMMA IntentsKept ==
  ASSUME IntentsFit, UNCHANGED <<intent, intentPaid, returned>>,
         \A d \in Calls : \/ agentCall'[d] = agentCall[d]
                          \/ ~Claiming(d)' /\ AgentCallFits(d)'
  PROVE  IntentsFit'
<1>1. ASSUME NEW j \in Intents PROVE IntentFits(j)'
  BY DEF IntentsFit, IntentFits
<1>2. ASSUME NEW d \in Calls PROVE AgentCallFits(d)'
  <2>1. CASE agentCall'[d] = agentCall[d]
    BY <2>1 DEF IntentsFit, AgentCallFits, Claiming, Paying
  <2> QED BY <2>1
<1>3. ASSUME NEW d \in Calls, NEW e \in Calls, Claiming(d)', Claiming(e)',
             agentCall'[d].id = agentCall'[e].id
      PROVE d = e
  BY <1>3 DEF IntentsFit, Claiming
<1> QED BY <1>1, <1>2, <1>3 DEF IntentsFit

\* An intent once paid stays paid, by the same user.
PaidStays ==
  \A i \in Intents : intent[i].status \in PaidStatuses =>
                       intent'[i].status \in PaidStatuses /\ intent'[i].payer = intent[i].payer

\* A step that takes up and confirms no request.
LEMMA AsksKept ==
  ASSUME AsksFit, AgentCallShape, PaidStays,
         \A c \in Calls : \/ agentCall'[c].ask = {} \/ ~Paying(c)'
                          \/ /\ Paying(c) /\ agentCall'[c].ask = agentCall[c].ask
                             /\ agentCall'[c].id = agentCall[c].id,
         \A r \in Requests :
           /\ ask'[r].intent = ask[r].intent
           /\ \/ ask'[r].status = ask[r].status
              \/ /\ ask[r].status # "none" /\ ask'[r].status # "confirmed"
                 /\ \A c \in Calls : Paying(c)' => r \notin agentCall'[c].ask
  PROVE  AsksFit'
<1>1. ASSUME NEW r \in Requests PROVE AskFits(r)'
  BY DEF AsksFit, AskFits, PaidStays
<1>2. ASSUME NEW c \in Calls, Paying(c)', NEW r \in agentCall'[c].ask
      PROVE  /\ ask'[r].status = "processing" /\ ask'[r].intent = agentCall'[c].id
             /\ agentCall'[c].ask = {r}
  <2>1. Paying(c) /\ agentCall'[c].ask = agentCall[c].ask /\ agentCall'[c].id = agentCall[c].id
    BY <1>2
  <2>2. r \in Requests
    BY <1>2, <2>1, PayingCalls
  <2> QED BY <1>2, <2>1, <2>2 DEF AsksFit
<1>3. ASSUME NEW c \in Calls, NEW d \in Calls, Paying(c)', Paying(d)',
             NEW r \in agentCall'[c].ask,
             r \in agentCall'[d].ask
      PROVE  c = d
  BY <1>3 DEF AsksFit
<1> QED BY <1>1, <1>2, <1>3 DEF AsksFit

\* Each step of pay, refund, cancel and the requests to confirm keeps the parts.
LEMMA AgentPaymentsInductive ==
  AgentPaymentsIInv /\ [NextAgentPayments]_<<wallet, agentVars>> => AgentPaymentsIInv'
<1> SUFFICES ASSUME AgentPaymentsIInv, [NextAgentPayments]_<<wallet, agentVars>>
             PROVE AgentPaymentsIInv'
  OBVIOUS
<1>t. AgentPaymentsTypeOK /\ AgentCallShape /\ IntentsFit /\ AsksFit /\ CapFits
  BY DEF AgentPaymentsIInv
<1>a. /\ Asked \in [Intents -> Nat \ {0}] /\ NoIntent \notin Intents
         /\ Portions \in SUBSET (Nat \ {0})
      /\ Seller \in Users /\ Grantor \in Users /\ DayCap \in Nat
  BY AgentPaymentsAssumption
<1>k. AgentPaymentsTypeOK' /\ AgentCallShape' /\ IntentsFit' /\ AsksFit'
      /\ CapFits' => AgentPaymentsIInv'
  BY DEF AgentPaymentsIInv
<1>b. ASSUME NEW c \in Calls, Paying(c),
             NEW op \in {"claim", "claimed", "sent", "recorded", "caps"}, Become(c, op)
      PROVE  /\ AgentCallShape' /\ DOMAIN agentCall' = Calls
             /\ agentCall'[c].op = op /\ agentCall'[c].id = agentCall[c].id
             /\ agentCall'[c].by = agentCall[c].by /\ agentCall'[c].ask = agentCall[c].ask
             /\ \A d \in Calls \ {c} : agentCall'[d] = agentCall[d]
  <2>1. agentCall[c] \in PayCalls
    BY <1>t, <1>b DEF AgentCallShape, Paying, Idle, IntentRefunds, AgentAsks
  <2>2. PICK h \in PayCalls : /\ h = [agentCall[c] EXCEPT !.op = op] /\ h.op = op /\ h.id = agentCall[c].id
                              /\ h.by = agentCall[c].by /\ h.ask = agentCall[c].ask
    <3>1. \A h \in PayCalls : LET g == [h EXCEPT !.op = op]
                             IN  g \in PayCalls /\ g.op = op /\ g.id = h.id /\ g.by = h.by
                                 /\ g.ask = h.ask
      BY <1>b DEF PayCalls
    <3> QED BY <2>1, <3>1
  <2>3. agentCall' = [agentCall EXCEPT ![c] = h]
        /\ agentCall \in [Calls -> {Idle} \cup PayCalls \cup IntentRefunds \cup AgentAsks]
    BY <1>t, <1>b, <2>2 DEF Become, AgentCallShape
  <2> HIDE DEF PayCalls
  <2>4. AgentCallShape' /\ DOMAIN agentCall' = Calls /\ agentCall'[c] = h
        /\ \A d \in Calls \ {c} : agentCall'[d] = agentCall[d]
    BY <2>2, <2>3 DEF AgentCallShape
  <2> QED BY <2>2, <2>4
<1>l. ASSUME NEW c \in Calls, Leave(c)
      PROVE  /\ AgentCallShape' /\ DOMAIN agentCall' = Calls /\ agentCall'[c].op = "idle"
             /\ \A d \in Calls \ {c} : agentCall'[d] = agentCall[d]
  BY <1>t, <1>l DEF Leave, AgentCallShape, Idle
<1>w. ASSUME NEW c \in Calls, Paying(c), NEW status \in RequestStatuses, Answers(c, status)
      PROVE  /\ ask' \in [Requests -> [status : RequestStatuses, intent : Intents \cup {NoIntent}]]
             /\ \A r \in Requests : /\ ask'[r].intent = ask[r].intent
                                    /\ ask'[r].status = IF r \in agentCall[c].ask THEN status ELSE ask[r].status
  BY <1>t, <1>w DEF Answers, AgentPaymentsTypeOK
<1>p. \A c \in Calls : Paying(c) => /\ agentCall[c].id \in Intents /\ agentCall[c].by \in Users
                                    /\ agentCall[c].ask \in SUBSET Requests
  <2> SUFFICES ASSUME NEW c \in Calls, Paying(c) PROVE agentCall[c] \in PayCalls
    BY DEF PayCalls
  <2> QED BY <1>t DEF AgentCallShape, Paying, Idle, IntentRefunds, AgentAsks
<1>s. ASSUME NEW u \in Users, NEW v \in Users, NEW amount \in Nat
      PROVE  Sell(u, v, amount, 0, 0) \in [Users -> Row]
  <2>1. Platform \in Users /\ IsFiniteSet(Users) /\ wallet \in [Users -> Row]
    BY <1>t, SharedAssumption DEF AgentPaymentsTypeOK
  <2>2. amount + 0 \in Int /\ amount - 0 \in Int /\ 0 + 0 \in Int
    OBVIOUS
  <2> QED BY <2>1, <2>2, PaymentTotals DEF Sell
<1>1. ASSUME NEW i \in Intents, ExpireIntent(i) PROVE AgentPaymentsIInv'
  <2>1. /\ intent[i].status = "requires_payment"
           /\ intent' = [intent EXCEPT ![i].status = "expired"]
        /\ UNCHANGED <<wallet, intentPaid, returned, ask, mandate, agentCall>>
    BY <1>1 DEF ExpireIntent
  <2>s. AgentCallShape'
    BY <1>t, <2>1 DEF AgentCallShape
  <2>2. AgentPaymentsTypeOK'
    BY <1>t, <1>a, <1>p, <2>1 DEF AgentPaymentsTypeOK, IntentStatuses, RequestStatuses, Paying
  <2>3. IntentsFit'
    BY <1>t, <1>a, <1>p, <2>1 DEF IntentsFit, IntentFits, AgentCallFits, Claiming, Paying,
         UnpaidStatuses, PaidStatuses, AgentPaymentsTypeOK
  <2>4. AsksFit'
    <3>1. PaidStays
      BY <1>t, <2>1 DEF PaidStays, PaidStatuses, IntentsFit, AgentCallFits, Claiming,
           AgentPaymentsTypeOK
    <3>2. \A d \in Calls : \/ agentCall'[d].ask = {} \/ ~Paying(d)'
                           \/ /\ Paying(d) /\ agentCall'[d].ask = agentCall[d].ask
                              /\ agentCall'[d].id = agentCall[d].id
      BY <2>1 DEF Paying
    <3>3. \A r \in Requests :
           /\ ask'[r].intent = ask[r].intent
           /\ \/ ask'[r].status = ask[r].status
              \/ /\ ask[r].status # "none" /\ ask'[r].status # "confirmed"
                 /\ \A d \in Calls : Paying(d)' => r \notin agentCall'[d].ask
      BY <1>t, <2>1 DEF Paying, AsksFit, AgentPaymentsTypeOK
    <3> QED BY <1>t, <3>1, <3>2, <3>3, AsksKept
  <2>5. CapFits'
    <3>1. Charged' \in SUBSET Charged /\ \A r \in Charged' : ask'[r].intent = ask[r].intent
      BY <1>t, <1>p, <2>1 DEF Charged, Paying, AsksFit, AgentPaymentsTypeOK
    <3> QED BY <1>t, <2>2, <3>1, CapKept
  <2> QED BY <1>k, <2>s, <2>2, <2>3, <2>4, <2>5
<1>2. ASSUME NEW i \in Intents, CancelIntent(i) PROVE AgentPaymentsIInv'
  <2>1. /\ intent[i].status = "requires_payment"
           /\ intent' = [intent EXCEPT ![i].status = "canceled"]
        /\ ask' \in [Requests -> [status : RequestStatuses, intent : Intents \cup {NoIntent}]]
        /\ \A r \in Requests : /\ ask'[r].intent = ask[r].intent
                               /\ ask'[r].status = ask[r].status \/ (ask[r].status = "pending" /\ ask'[r].status = "canceled")
        /\ UNCHANGED <<wallet, intentPaid, returned, mandate, agentCall>>
    BY <1>t, <1>2 DEF CancelIntent, AgentPaymentsTypeOK, RequestStatuses
  <2>e. intent' \in [Intents -> [status : IntentStatuses, payer : Users \cup {Nobody}, refunded : Nat]]
    BY <1>t, <2>1 DEF AgentPaymentsTypeOK, IntentStatuses
  <2>s. AgentCallShape'
    BY <1>t, <2>1 DEF AgentCallShape
  <2>2. AgentPaymentsTypeOK'
    BY <1>t, <1>a, <1>p, <2>1, <2>e DEF AgentPaymentsTypeOK, IntentStatuses,
         RequestStatuses, Paying
  <2>3. IntentsFit'
    BY <1>t, <1>a, <1>p, <2>1, <2>e DEF IntentsFit, IntentFits, AgentCallFits, Claiming,
         Paying, UnpaidStatuses, PaidStatuses, AgentPaymentsTypeOK
  <2>4. AsksFit'
    <3>1. PaidStays
      BY <1>t, <2>1, <2>e DEF PaidStays, PaidStatuses, IntentsFit, AgentCallFits, Claiming,
           AgentPaymentsTypeOK
    <3>2. \A d \in Calls : \/ agentCall'[d].ask = {} \/ ~Paying(d)'
                           \/ /\ Paying(d) /\ agentCall'[d].ask = agentCall[d].ask
                              /\ agentCall'[d].id = agentCall[d].id
      BY <2>1, <2>e DEF Paying
    <3>3. \A r \in Requests :
           /\ ask'[r].intent = ask[r].intent
           /\ \/ ask'[r].status = ask[r].status
              \/ /\ ask[r].status # "none" /\ ask'[r].status # "confirmed"
                 /\ \A d \in Calls : Paying(d)' => r \notin agentCall'[d].ask
      BY <1>t, <2>1, <2>e DEF Paying, AsksFit, AgentPaymentsTypeOK
    <3> QED BY <1>t, <3>1, <3>2, <3>3, AsksKept
  <2>5. CapFits'
    <3>1. Charged' \in SUBSET Charged /\ \A r \in Charged' : ask'[r].intent = ask[r].intent
      BY <1>t, <1>p, <2>1, <2>e DEF Charged, Paying, AsksFit, AgentPaymentsTypeOK
    <3> QED BY <1>t, <2>2, <3>1, CapKept
  <2> QED BY <1>k, <2>s, <2>2, <2>3, <2>4, <2>5
<1>3. ASSUME NEW r \in Requests, NEW status \in {"rejected", "expired"}, CloseRequest(r, status)
      PROVE AgentPaymentsIInv'
  <2>1. /\ ask[r].status = "pending" /\ ask' = [ask EXCEPT ![r].status = status]
        /\ UNCHANGED <<wallet, intent, intentPaid, returned, mandate, agentCall>>
    BY <1>3 DEF CloseRequest, SetAsk
  <2>s. AgentCallShape'
    BY <1>t, <2>1 DEF AgentCallShape
  <2>2. AgentPaymentsTypeOK'
    BY <1>t, <1>a, <1>p, <2>1 DEF AgentPaymentsTypeOK, IntentStatuses, RequestStatuses, Paying
  <2>3. IntentsFit'
    BY <1>t, <1>a, <1>p, <2>1 DEF IntentsFit, IntentFits, AgentCallFits, Claiming, Paying,
         UnpaidStatuses, PaidStatuses, AgentPaymentsTypeOK
  <2>4. AsksFit'
    <3>1. PaidStays
      BY <1>t, <2>1 DEF PaidStays, PaidStatuses, IntentsFit, AgentCallFits, Claiming,
           AgentPaymentsTypeOK
    <3>2. \A d \in Calls : \/ agentCall'[d].ask = {} \/ ~Paying(d)'
                           \/ /\ Paying(d) /\ agentCall'[d].ask = agentCall[d].ask
                              /\ agentCall'[d].id = agentCall[d].id
      BY <2>1 DEF Paying
    <3>3. \A q \in Requests :
           /\ ask'[q].intent = ask[q].intent
           /\ \/ ask'[q].status = ask[q].status
              \/ /\ ask[q].status # "none" /\ ask'[q].status # "confirmed"
                 /\ \A d \in Calls : Paying(d)' => q \notin agentCall'[d].ask
      BY <1>t, <2>1 DEF Paying, AsksFit, AgentPaymentsTypeOK
    <3> QED BY <1>t, <3>1, <3>2, <3>3, AsksKept
  <2>5. CapFits'
    <3>1. Charged' \in SUBSET Charged /\ \A q \in Charged' : ask'[q].intent = ask[q].intent
      BY <1>t, <1>p, <2>1 DEF Charged, Paying, AsksFit, AgentPaymentsTypeOK
    <3> QED BY <1>t, <2>2, <3>1, CapKept
  <2> QED BY <1>k, <2>s, <2>2, <2>3, <2>4, <2>5
<1>4. ASSUME NEW c \in Calls, NEW i \in Intents, NEW u \in Users, BeginPay(c, i, u)
      PROVE AgentPaymentsIInv'
  <2>0. PICK h \in PayCalls : /\ h = PayerCall("claim", i, u, {}) /\ h.op = "claim" /\ h.id = i /\ h.by = u /\ h.ask = {}
    <3>1. PayerCall("claim", i, u, {}) \in PayCalls
      BY DEF PayCalls, PayerCall
    <3> QED BY <3>1 DEF PayerCall
  <2>a. agentCall' = [agentCall EXCEPT ![c] = h]
        /\ UNCHANGED <<wallet, intent, intentPaid, returned, ask, mandate>>
    BY <1>4, <2>0 DEF BeginPay
  <2>1. /\ agentCall'[c].op = "claim" /\ agentCall'[c].id = i /\ agentCall'[c].by = u
           /\ agentCall'[c].ask = {}
        /\ DOMAIN agentCall' = Calls /\ (\A d \in Calls \ {c} : agentCall'[d] = agentCall[d])
        /\ UNCHANGED <<wallet, intent, intentPaid, returned, ask, mandate>>
    BY <1>t, <2>0, <2>a DEF AgentCallShape
  <2>s. AgentCallShape'
    BY <1>t, <2>0, <2>a DEF AgentCallShape
  <2>2. AgentPaymentsTypeOK'
    BY <1>t, <1>a, <1>p, <2>1 DEF AgentPaymentsTypeOK, IntentStatuses, RequestStatuses, Paying
  <2>3. IntentsFit'
    <3>1. \A d \in Calls : agentCall'[d] = agentCall[d] \/ (~Claiming(d)' /\ AgentCallFits(d)')
      BY <1>t, <1>a, <2>1 DEF AgentCallFits, Claiming, Paying, AgentPaymentsTypeOK,
           PaidStatuses, IntentsFit
    <3> QED BY <1>t, <3>1, <2>1, IntentsKept
  <2>4. AsksFit'
    <3>1. PaidStays
      BY <1>t, <2>1 DEF PaidStays, PaidStatuses, IntentsFit, AgentCallFits, Claiming,
           AgentPaymentsTypeOK
    <3>2. \A d \in Calls : \/ agentCall'[d].ask = {} \/ ~Paying(d)'
                           \/ /\ Paying(d) /\ agentCall'[d].ask = agentCall[d].ask
                              /\ agentCall'[d].id = agentCall[d].id
      BY <2>1 DEF Paying
    <3>3. \A r \in Requests :
           /\ ask'[r].intent = ask[r].intent
           /\ \/ ask'[r].status = ask[r].status
              \/ /\ ask[r].status # "none" /\ ask'[r].status # "confirmed"
                 /\ \A d \in Calls : Paying(d)' => r \notin agentCall'[d].ask
      BY <1>t, <2>1 DEF Paying, AsksFit, AgentPaymentsTypeOK
    <3> QED BY <1>t, <3>1, <3>2, <3>3, AsksKept
  <2>5. CapFits'
    <3>1. Charged' \in SUBSET Charged /\ \A r \in Charged' : ask'[r].intent = ask[r].intent
      BY <1>t, <1>p, <2>1 DEF Charged, Paying, AsksFit, AgentPaymentsTypeOK
    <3> QED BY <1>t, <2>2, <3>1, CapKept
  <2> QED BY <1>k, <2>s, <2>2, <2>3, <2>4, <2>5
<1>5. ASSUME NEW c \in Calls, ClaimIntent(c) PROVE AgentPaymentsIInv'
  <2>1. PICK i \in Intents :
          /\ i = agentCall[c].id /\ agentCall[c].op = "claim"
             /\ intent[i].status = "requires_payment"
          /\ intent' = [intent EXCEPT ![i].status = "processing", ![i].payer = agentCall[c].by]
          /\ Become(c, "claimed") /\ UNCHANGED <<wallet, intentPaid, returned, ask, mandate>>
    BY <1>p, <1>5 DEF ClaimIntent, Payable, Paying
  <2>e. /\ intent' \in [Intents -> [status : IntentStatuses, payer : Users \cup {Nobody}, refunded : Nat]]
        /\ intent'[i].status = "processing" /\ intent'[i].payer = agentCall[c].by
           /\ intent'[i].refunded = intent[i].refunded
        /\ \A j \in Intents \ {i} : intent'[j] = intent[j]
    BY <1>t, <1>p, <2>1 DEF AgentPaymentsTypeOK, IntentStatuses, Paying
  <2>s. /\ AgentCallShape' /\ DOMAIN agentCall' = Calls
        /\ agentCall'[c].op = "claimed" /\ agentCall'[c].id = agentCall[c].id
        /\ agentCall'[c].by = agentCall[c].by /\ agentCall'[c].ask = agentCall[c].ask
        /\ \A d \in Calls \ {c} : agentCall'[d] = agentCall[d]
    BY <1>b, <2>1 DEF Paying
  <2>2. AgentPaymentsTypeOK'
    BY <1>t, <1>a, <1>p, <2>1, <2>e, <2>s DEF AgentPaymentsTypeOK, IntentStatuses,
         RequestStatuses, Paying
  <2>3. IntentsFit'
    <3>0. IntentFits(i) /\ AgentCallFits(c)
      BY <1>t DEF IntentsFit
    <3>1. IntentFits(i)'
      BY <1>t, <1>a, <1>p, <2>1, <2>e, <2>s, <3>0 DEF IntentFits, AgentCallFits, Claiming,
           Paying, UnpaidStatuses, PaidStatuses, AgentPaymentsTypeOK
    <3>2. AgentCallFits(c)'
      BY <1>t, <1>a, <1>p, <2>1, <2>e, <2>s, <3>0 DEF AgentCallFits, IntentFits, Claiming,
           Paying, UnpaidStatuses, PaidStatuses, AgentPaymentsTypeOK
    <3>3. \A d \in Calls \ {c} : Claiming(d) => agentCall[d].id # i
      BY <1>t, <2>1, <2>e, <2>s DEF IntentsFit, AgentCallFits, Claiming
    <3>4. intent[i].status \in PaidStatuses => intent'[i].status \in PaidStatuses
          /\ intent'[i].payer = intent[i].payer
      BY <1>t, <2>1, <2>e, <2>s, <3>0 DEF AgentCallFits, Claiming, PaidStatuses
    <3>5. Claiming(c)' => agentCall'[c].id = i
      BY <2>1, <2>e, <2>s DEF Claiming
    <3>6. \A j \in Intents \ {i} : /\ intent'[j] = intent[j] /\ intentPaid'[j] = intentPaid[j]
                                     /\ returned'[j] = returned[j]
      BY <1>t, <2>1, <2>e, <2>s DEF AgentPaymentsTypeOK
    <3>7. \A d \in Calls \ {c} : agentCall'[d] = agentCall[d]
      BY <2>1, <2>e, <2>s
    <3> QED BY <1>t, <3>1, <3>2, <3>3, <3>4, <3>5, <3>6, <3>7, OtherIntentsKept
  <2>4. AsksFit'
    <3>1. PaidStays
      BY <1>t, <2>1, <2>e, <2>s DEF PaidStays, PaidStatuses, IntentsFit, AgentCallFits,
           Claiming, AgentPaymentsTypeOK
    <3>2. \A d \in Calls : \/ agentCall'[d].ask = {} \/ ~Paying(d)'
                           \/ /\ Paying(d) /\ agentCall'[d].ask = agentCall[d].ask
                              /\ agentCall'[d].id = agentCall[d].id
      BY <2>1, <2>e, <2>s DEF Paying
    <3>3. \A r \in Requests :
           /\ ask'[r].intent = ask[r].intent
           /\ \/ ask'[r].status = ask[r].status
              \/ /\ ask[r].status # "none" /\ ask'[r].status # "confirmed"
                 /\ \A d \in Calls : Paying(d)' => r \notin agentCall'[d].ask
      BY <1>t, <2>1, <2>e, <2>s DEF Paying, AsksFit, AgentPaymentsTypeOK
    <3> QED BY <1>t, <3>1, <3>2, <3>3, AsksKept
  <2>5. CapFits'
    <3>1. Charged' \in SUBSET Charged /\ \A r \in Charged' : ask'[r].intent = ask[r].intent
      BY <1>t, <1>p, <2>1, <2>e, <2>s DEF Charged, Paying, AsksFit, AgentPaymentsTypeOK
    <3> QED BY <1>t, <2>2, <3>1, CapKept
  <2> QED BY <1>k, <2>s, <2>2, <2>3, <2>4, <2>5
<1>6. ASSUME NEW c \in Calls, ClaimIntentLost(c) PROVE AgentPaymentsIInv'
  <2>1. /\ agentCall[c].op = "claim" /\ Answers(c, "failed") /\ Leave(c)
        /\ UNCHANGED <<wallet, intent, intentPaid, returned, mandate>>
    BY <1>6 DEF ClaimIntentLost
  <2>s. /\ AgentCallShape' /\ DOMAIN agentCall' = Calls /\ agentCall'[c].op = "idle"
        /\ \A d \in Calls \ {c} : agentCall'[d] = agentCall[d]
    BY <1>l, <2>1
  <2>w. /\ ask' \in [Requests -> [status : RequestStatuses, intent : Intents \cup {NoIntent}]]
        /\ \A r \in Requests : /\ ask'[r].intent = ask[r].intent
                               /\ ask'[r].status = IF r \in agentCall[c].ask THEN "failed" ELSE ask[r].status
    BY <1>w, <2>1 DEF Paying, RequestStatuses
  <2>2. AgentPaymentsTypeOK'
    BY <1>t, <1>a, <1>p, <2>1, <2>s, <2>w DEF AgentPaymentsTypeOK, IntentStatuses,
         RequestStatuses, Paying
  <2>3. IntentsFit'
    <3>1. \A d \in Calls : agentCall'[d] = agentCall[d] \/ (~Claiming(d)' /\ AgentCallFits(d)')
      BY <1>t, <1>a, <2>1, <2>s, <2>w DEF AgentCallFits, Claiming, Paying,
           AgentPaymentsTypeOK, PaidStatuses, IntentsFit
    <3> QED BY <1>t, <3>1, <2>1, <2>s, <2>w, IntentsKept
  <2>4. AsksFit'
    <3>1. PaidStays
      BY <1>t, <2>1, <2>s, <2>w DEF PaidStays, PaidStatuses, IntentsFit, AgentCallFits,
           Claiming, AgentPaymentsTypeOK
    <3>2. \A d \in Calls : \/ agentCall'[d].ask = {} \/ ~Paying(d)'
                           \/ /\ Paying(d) /\ agentCall'[d].ask = agentCall[d].ask
                              /\ agentCall'[d].id = agentCall[d].id
      BY <2>1, <2>s, <2>w DEF Paying
    <3>3. \A r \in Requests :
           /\ ask'[r].intent = ask[r].intent
           /\ \/ ask'[r].status = ask[r].status
              \/ /\ ask[r].status # "none" /\ ask'[r].status # "confirmed"
                 /\ \A d \in Calls : Paying(d)' => r \notin agentCall'[d].ask
      BY <1>t, <2>1, <2>s, <2>w DEF Paying, AsksFit, AgentPaymentsTypeOK
    <3> QED BY <1>t, <3>1, <3>2, <3>3, AsksKept
  <2>5. CapFits'
    <3>1. Charged' \in SUBSET Charged /\ \A r \in Charged' : ask'[r].intent = ask[r].intent
      BY <1>t, <1>p, <2>1, <2>s, <2>w DEF Charged, Paying, AsksFit, AgentPaymentsTypeOK
    <3> QED BY <1>t, <2>2, <3>1, CapKept
  <2> QED BY <1>k, <2>s, <2>2, <2>3, <2>4, <2>5
<1>7. ASSUME NEW c \in Calls, SendIntent(c) PROVE AgentPaymentsIInv'
  <2>0. PICK i \in Intents : i = agentCall[c].id
    BY <1>p, <1>7 DEF SendIntent, Paying
  <2>a. PICK v \in [Users -> Row] : v = Sell(agentCall[c].by, Seller, Asked[i], 0, 0)
    BY <1>a, <1>p, <1>s, <1>7 DEF SendIntent, Paying
  <2>1. /\ agentCall[c].op = "claimed" /\ wallet' = v
        /\ intentPaid' = [intentPaid EXCEPT ![i] = @ + 1]
        /\ Become(c, "sent") /\ UNCHANGED <<intent, returned, ask, mandate>>
    BY <1>7, <2>0, <2>a DEF SendIntent
  <2>e. /\ intentPaid' \in [Intents -> Nat] /\ intentPaid'[i] = intentPaid[i] + 1
        /\ \A j \in Intents \ {i} : intentPaid'[j] = intentPaid[j]
    BY <1>t, <2>1 DEF AgentPaymentsTypeOK
  <2>s. /\ AgentCallShape' /\ DOMAIN agentCall' = Calls
        /\ agentCall'[c].op = "sent" /\ agentCall'[c].id = agentCall[c].id
        /\ agentCall'[c].by = agentCall[c].by /\ agentCall'[c].ask = agentCall[c].ask
        /\ \A d \in Calls \ {c} : agentCall'[d] = agentCall[d]
    BY <1>b, <2>1 DEF Paying
  <2>2. AgentPaymentsTypeOK'
    BY <1>t, <1>a, <1>p, <2>0, <2>1, <2>e, <2>s DEF AgentPaymentsTypeOK, IntentStatuses,
         RequestStatuses, Paying
  <2>3. IntentsFit'
    <3>0. IntentFits(i) /\ AgentCallFits(c)
      BY <1>t DEF IntentsFit
    <3>1. IntentFits(i)'
      BY <1>t, <1>a, <1>p, <2>0, <2>1, <2>e, <2>s, <3>0 DEF IntentFits, AgentCallFits,
           Claiming, Paying, UnpaidStatuses, PaidStatuses, AgentPaymentsTypeOK
    <3>2. AgentCallFits(c)'
      BY <1>t, <1>a, <1>p, <2>0, <2>1, <2>e, <2>s, <3>0 DEF AgentCallFits, IntentFits,
           Claiming, Paying, UnpaidStatuses, PaidStatuses, AgentPaymentsTypeOK
    <3>3. \A d \in Calls \ {c} : Claiming(d) => agentCall[d].id # i
      BY <1>t, <2>0, <2>1, <2>e, <2>s DEF IntentsFit, AgentCallFits, Claiming
    <3>4. intent[i].status \in PaidStatuses => intent'[i].status \in PaidStatuses
          /\ intent'[i].payer = intent[i].payer
      BY <1>t, <2>0, <2>1, <2>e, <2>s, <3>0 DEF AgentCallFits, Claiming, PaidStatuses
    <3>5. Claiming(c)' => agentCall'[c].id = i
      BY <2>0, <2>1, <2>e, <2>s DEF Claiming
    <3>6. \A j \in Intents \ {i} : /\ intent'[j] = intent[j] /\ intentPaid'[j] = intentPaid[j]
                                     /\ returned'[j] = returned[j]
      BY <1>t, <2>0, <2>1, <2>e, <2>s DEF AgentPaymentsTypeOK
    <3>7. \A d \in Calls \ {c} : agentCall'[d] = agentCall[d]
      BY <2>0, <2>1, <2>e, <2>s
    <3> QED BY <1>t, <3>1, <3>2, <3>3, <3>4, <3>5, <3>6, <3>7, OtherIntentsKept
  <2>4. AsksFit'
    <3>1. PaidStays
      BY <1>t, <2>0, <2>1, <2>e, <2>s DEF PaidStays, PaidStatuses, IntentsFit,
           AgentCallFits, Claiming, AgentPaymentsTypeOK
    <3>2. \A d \in Calls : \/ agentCall'[d].ask = {} \/ ~Paying(d)'
                           \/ /\ Paying(d) /\ agentCall'[d].ask = agentCall[d].ask
                              /\ agentCall'[d].id = agentCall[d].id
      BY <2>0, <2>1, <2>e, <2>s DEF Paying
    <3>3. \A r \in Requests :
           /\ ask'[r].intent = ask[r].intent
           /\ \/ ask'[r].status = ask[r].status
              \/ /\ ask[r].status # "none" /\ ask'[r].status # "confirmed"
                 /\ \A d \in Calls : Paying(d)' => r \notin agentCall'[d].ask
      BY <1>t, <2>0, <2>1, <2>e, <2>s DEF Paying, AsksFit, AgentPaymentsTypeOK
    <3> QED BY <1>t, <3>1, <3>2, <3>3, AsksKept
  <2>5. CapFits'
    <3>1. Charged' \in SUBSET Charged /\ \A r \in Charged' : ask'[r].intent = ask[r].intent
      BY <1>t, <1>p, <2>0, <2>1, <2>e, <2>s DEF Charged, Paying, AsksFit, AgentPaymentsTypeOK
    <3> QED BY <1>t, <2>2, <3>1, CapKept
  <2> QED BY <1>k, <2>s, <2>2, <2>3, <2>4, <2>5
<1>8. ASSUME NEW c \in Calls, SendIntentFails(c) PROVE AgentPaymentsIInv'
  <2>0. PICK i \in Intents : i = agentCall[c].id
    BY <1>p, <1>8 DEF SendIntentFails, Paying
  <2>p. Paying(c)
    BY <1>8 DEF SendIntentFails, Paying
  <2>a. PICK answer \in {"pending", "failed"} : Answers(c, answer)
    BY <1>8 DEF SendIntentFails
  <2>b. answer \in RequestStatuses
    BY DEF RequestStatuses
  <2>1. /\ agentCall[c].op = "claimed" /\ Leave(c)
        /\ intent' = [intent EXCEPT ![i] = [@ EXCEPT !.status = "requires_payment", !.payer = Nobody]]
        /\ UNCHANGED <<wallet, intentPaid, returned, mandate>>
    BY <1>t, <1>8, <2>0 DEF SendIntentFails, IntentsFit, AgentCallFits, Claiming
  <2>e. /\ intent' \in [Intents -> [status : IntentStatuses, payer : Users \cup {Nobody}, refunded : Nat]]
        /\ intent'[i].status = "requires_payment" /\ intent'[i].refunded = intent[i].refunded
        /\ \A j \in Intents \ {i} : intent'[j] = intent[j]
    BY <1>t, <2>1 DEF AgentPaymentsTypeOK, IntentStatuses
  <2>s. /\ AgentCallShape' /\ DOMAIN agentCall' = Calls /\ agentCall'[c].op = "idle"
        /\ \A d \in Calls \ {c} : agentCall'[d] = agentCall[d]
    BY <1>l, <2>1
  <2>w. /\ ask' \in [Requests -> [status : RequestStatuses, intent : Intents \cup {NoIntent}]]
        /\ \A r \in Requests : /\ ask'[r].intent = ask[r].intent
                               /\ ask'[r].status = IF r \in agentCall[c].ask THEN answer ELSE ask[r].status
    BY <1>w, <2>a, <2>b, <2>p
  <2>2. AgentPaymentsTypeOK'
    BY <1>t, <1>a, <1>p, <2>0, <2>1, <2>e, <2>s, <2>w DEF AgentPaymentsTypeOK,
         IntentStatuses, RequestStatuses, Paying
  <2>3. IntentsFit'
    <3>0. IntentFits(i) /\ AgentCallFits(c)
      BY <1>t DEF IntentsFit
    <3>1. IntentFits(i)'
      BY <1>t, <1>a, <1>p, <2>0, <2>1, <2>e, <2>s, <2>w, <3>0 DEF IntentFits, AgentCallFits,
           Claiming, Paying, UnpaidStatuses, PaidStatuses, AgentPaymentsTypeOK
    <3>2. AgentCallFits(c)'
      BY <1>t, <1>a, <1>p, <2>0, <2>1, <2>e, <2>s, <2>w, <3>0 DEF AgentCallFits, IntentFits,
           Claiming, Paying, UnpaidStatuses, PaidStatuses, AgentPaymentsTypeOK
    <3>3. \A d \in Calls \ {c} : Claiming(d) => agentCall[d].id # i
      BY <1>t, <2>0, <2>1, <2>e, <2>s, <2>w DEF IntentsFit, AgentCallFits, Claiming
    <3>4. intent[i].status \in PaidStatuses => intent'[i].status \in PaidStatuses
          /\ intent'[i].payer = intent[i].payer
      BY <1>t, <2>0, <2>1, <2>e, <2>s, <2>w, <3>0 DEF AgentCallFits, Claiming, PaidStatuses
    <3>5. Claiming(c)' => agentCall'[c].id = i
      BY <2>0, <2>1, <2>e, <2>s, <2>w DEF Claiming
    <3>6. \A j \in Intents \ {i} : /\ intent'[j] = intent[j] /\ intentPaid'[j] = intentPaid[j]
                                     /\ returned'[j] = returned[j]
      BY <1>t, <2>0, <2>1, <2>e, <2>s, <2>w DEF AgentPaymentsTypeOK
    <3>7. \A d \in Calls \ {c} : agentCall'[d] = agentCall[d]
      BY <2>0, <2>1, <2>e, <2>s, <2>w
    <3> QED BY <1>t, <3>1, <3>2, <3>3, <3>4, <3>5, <3>6, <3>7, OtherIntentsKept
  <2>4. AsksFit'
    <3>1. PaidStays
      BY <1>t, <2>0, <2>1, <2>e, <2>s, <2>w DEF PaidStays, PaidStatuses, IntentsFit,
           AgentCallFits, Claiming, AgentPaymentsTypeOK
    <3>2. \A d \in Calls : \/ agentCall'[d].ask = {} \/ ~Paying(d)'
                           \/ /\ Paying(d) /\ agentCall'[d].ask = agentCall[d].ask
                              /\ agentCall'[d].id = agentCall[d].id
      BY <2>0, <2>1, <2>e, <2>s, <2>w DEF Paying
    <3>3. \A r \in Requests :
           /\ ask'[r].intent = ask[r].intent
           /\ \/ ask'[r].status = ask[r].status
              \/ /\ ask[r].status # "none" /\ ask'[r].status # "confirmed"
                 /\ \A d \in Calls : Paying(d)' => r \notin agentCall'[d].ask
      BY <1>t, <2>a, <2>p, <2>s, <2>w DEF Paying, AsksFit, AgentPaymentsTypeOK
    <3> QED BY <1>t, <3>1, <3>2, <3>3, AsksKept
  <2>5. CapFits'
    <3>1. Charged' \in SUBSET Charged /\ \A r \in Charged' : ask'[r].intent = ask[r].intent
      BY <1>t, <1>p, <2>p, <2>s, <2>w DEF Charged, Paying, AsksFit, AgentPaymentsTypeOK
    <3> QED BY <1>t, <2>2, <3>1, CapKept
  <2> QED BY <1>k, <2>s, <2>2, <2>3, <2>4, <2>5
<1>9. ASSUME NEW c \in Calls, RecordIntent(c) PROVE AgentPaymentsIInv'
  <2>0. PICK i \in Intents : i = agentCall[c].id
    BY <1>p, <1>9 DEF RecordIntent, Paying
  <2>1. /\ agentCall[c].op = "sent" /\ intent' = [intent EXCEPT ![i].status = "succeeded"]
        /\ IF agentCall[c].ask = {} THEN Leave(c) ELSE Become(c, "recorded")
        /\ UNCHANGED <<wallet, intentPaid, returned, ask, mandate>>
    BY <1>9, <2>0 DEF RecordIntent
  <2>e. /\ intent' \in [Intents -> [status : IntentStatuses, payer : Users \cup {Nobody}, refunded : Nat]]
        /\ intent'[i].status = "succeeded" /\ intent'[i].payer = intent[i].payer
           /\ intent'[i].refunded = intent[i].refunded
        /\ \A j \in Intents \ {i} : intent'[j] = intent[j]
    BY <1>t, <2>1 DEF AgentPaymentsTypeOK, IntentStatuses
  <2>s. /\ AgentCallShape' /\ DOMAIN agentCall' = Calls
        /\ \/ agentCall'[c].op = "idle"
           \/ /\ agentCall'[c].op = "recorded" /\ agentCall'[c].id = agentCall[c].id
              /\ agentCall'[c].by = agentCall[c].by /\ agentCall'[c].ask = agentCall[c].ask
        /\ \A d \in Calls \ {c} : agentCall'[d] = agentCall[d]
    BY <1>b, <1>l, <2>1 DEF Paying
  <2>2. AgentPaymentsTypeOK'
    BY <1>t, <1>a, <1>p, <2>0, <2>1, <2>e, <2>s DEF AgentPaymentsTypeOK, IntentStatuses,
         RequestStatuses, Paying
  <2>3. IntentsFit'
    <3>0. IntentFits(i) /\ AgentCallFits(c)
      BY <1>t DEF IntentsFit
    <3>1. IntentFits(i)'
      BY <1>t, <1>a, <1>p, <2>0, <2>1, <2>e, <2>s, <3>0 DEF IntentFits, AgentCallFits,
           Claiming, Paying, UnpaidStatuses, PaidStatuses, AgentPaymentsTypeOK
    <3>2. AgentCallFits(c)'
      BY <1>t, <1>a, <1>p, <2>0, <2>1, <2>e, <2>s, <3>0 DEF AgentCallFits, IntentFits,
           Claiming, Paying, UnpaidStatuses, PaidStatuses, AgentPaymentsTypeOK
    <3>3. \A d \in Calls \ {c} : Claiming(d) => agentCall[d].id # i
      BY <1>t, <2>0, <2>1, <2>e, <2>s DEF IntentsFit, AgentCallFits, Claiming
    <3>4. intent[i].status \in PaidStatuses => intent'[i].status \in PaidStatuses
          /\ intent'[i].payer = intent[i].payer
      BY <1>t, <2>0, <2>1, <2>e, <2>s, <3>0 DEF AgentCallFits, Claiming, PaidStatuses
    <3>5. Claiming(c)' => agentCall'[c].id = i
      BY <2>0, <2>1, <2>e, <2>s DEF Claiming
    <3>6. \A j \in Intents \ {i} : /\ intent'[j] = intent[j] /\ intentPaid'[j] = intentPaid[j]
                                     /\ returned'[j] = returned[j]
      BY <1>t, <2>0, <2>1, <2>e, <2>s DEF AgentPaymentsTypeOK
    <3>7. \A d \in Calls \ {c} : agentCall'[d] = agentCall[d]
      BY <2>0, <2>1, <2>e, <2>s
    <3> QED BY <1>t, <3>1, <3>2, <3>3, <3>4, <3>5, <3>6, <3>7, OtherIntentsKept
  <2>4. AsksFit'
    <3>1. PaidStays
      BY <1>t, <2>0, <2>1, <2>e, <2>s DEF PaidStays, PaidStatuses, IntentsFit,
           AgentCallFits, Claiming, AgentPaymentsTypeOK
    <3>2. \A d \in Calls : \/ agentCall'[d].ask = {} \/ ~Paying(d)'
                           \/ /\ Paying(d) /\ agentCall'[d].ask = agentCall[d].ask
                              /\ agentCall'[d].id = agentCall[d].id
      BY <2>0, <2>1, <2>e, <2>s DEF Paying
    <3>3. \A r \in Requests :
           /\ ask'[r].intent = ask[r].intent
           /\ \/ ask'[r].status = ask[r].status
              \/ /\ ask[r].status # "none" /\ ask'[r].status # "confirmed"
                 /\ \A d \in Calls : Paying(d)' => r \notin agentCall'[d].ask
      BY <1>t, <2>0, <2>1, <2>e, <2>s DEF Paying, AsksFit, AgentPaymentsTypeOK
    <3> QED BY <1>t, <3>1, <3>2, <3>3, AsksKept
  <2>5. CapFits'
    <3>1. Charged' \in SUBSET Charged /\ \A r \in Charged' : ask'[r].intent = ask[r].intent
      BY <1>t, <1>p, <2>0, <2>1, <2>e, <2>s DEF Charged, Paying, AsksFit, AgentPaymentsTypeOK
    <3> QED BY <1>t, <2>2, <3>1, CapKept
  <2> QED BY <1>k, <2>s, <2>2, <2>3, <2>4, <2>5
<1>10. ASSUME NEW c \in Calls, RecordIntentFails(c) PROVE AgentPaymentsIInv'
  <2>1. /\ agentCall[c].op \in {"sent", "recorded"} /\ Answers(c, "pending") /\ Leave(c)
        /\ UNCHANGED <<wallet, intent, intentPaid, returned, mandate>>
    BY <1>10 DEF RecordIntentFails
  <2>s. /\ AgentCallShape' /\ DOMAIN agentCall' = Calls /\ agentCall'[c].op = "idle"
        /\ \A d \in Calls \ {c} : agentCall'[d] = agentCall[d]
    BY <1>l, <2>1
  <2>w. /\ ask' \in [Requests -> [status : RequestStatuses, intent : Intents \cup {NoIntent}]]
        /\ \A r \in Requests : /\ ask'[r].intent = ask[r].intent
                               /\ ask'[r].status = IF r \in agentCall[c].ask THEN "pending" ELSE ask[r].status
    BY <1>w, <2>1 DEF Paying, RequestStatuses
  <2>2. AgentPaymentsTypeOK'
    BY <1>t, <1>a, <1>p, <2>1, <2>s, <2>w DEF AgentPaymentsTypeOK, IntentStatuses,
         RequestStatuses, Paying
  <2>3. IntentsFit'
    <3>1. \A d \in Calls : agentCall'[d] = agentCall[d] \/ (~Claiming(d)' /\ AgentCallFits(d)')
      BY <1>t, <1>a, <2>1, <2>s, <2>w DEF AgentCallFits, Claiming, Paying,
           AgentPaymentsTypeOK, PaidStatuses, IntentsFit
    <3> QED BY <1>t, <3>1, <2>1, <2>s, <2>w, IntentsKept
  <2>4. AsksFit'
    <3>1. PaidStays
      BY <1>t, <2>1, <2>s, <2>w DEF PaidStays, PaidStatuses, IntentsFit, AgentCallFits,
           Claiming, AgentPaymentsTypeOK
    <3>2. \A d \in Calls : \/ agentCall'[d].ask = {} \/ ~Paying(d)'
                           \/ /\ Paying(d) /\ agentCall'[d].ask = agentCall[d].ask
                              /\ agentCall'[d].id = agentCall[d].id
      BY <2>1, <2>s, <2>w DEF Paying
    <3>3. \A r \in Requests :
           /\ ask'[r].intent = ask[r].intent
           /\ \/ ask'[r].status = ask[r].status
              \/ /\ ask[r].status # "none" /\ ask'[r].status # "confirmed"
                 /\ \A d \in Calls : Paying(d)' => r \notin agentCall'[d].ask
      BY <1>t, <2>1, <2>s, <2>w DEF Paying, AsksFit, AgentPaymentsTypeOK
    <3> QED BY <1>t, <3>1, <3>2, <3>3, AsksKept
  <2>5. CapFits'
    <3>1. Charged' \in SUBSET Charged /\ \A r \in Charged' : ask'[r].intent = ask[r].intent
      BY <1>t, <1>p, <2>1, <2>s, <2>w DEF Charged, Paying, AsksFit, AgentPaymentsTypeOK
    <3> QED BY <1>t, <2>2, <3>1, CapKept
  <2> QED BY <1>k, <2>s, <2>2, <2>3, <2>4, <2>5
<1>11. ASSUME NEW c \in Calls, NEW i \in Intents, NEW amount \in Portions,
              BeginRefund(c, i, amount)
       PROVE AgentPaymentsIInv'
  <2>0. PICK h \in IntentRefunds :
          /\ h = [op |-> "refund", id |-> i, amount |-> amount, seen |-> intent[i], ask |-> {}]
          /\ h.op = "refund" /\ h.id = i /\ h.amount = amount /\ h.seen = intent[i]
    <3>1. [op |-> "refund", id |-> i, amount |-> amount, seen |-> intent[i], ask |-> {}] \in IntentRefunds
      BY <1>t DEF IntentRefunds, AgentPaymentsTypeOK
    <3> QED BY <3>1
  <2>a. /\ agentCall' = [agentCall EXCEPT ![c] = h]
           /\ UNCHANGED <<wallet, intent, intentPaid, returned, ask, mandate>>
        /\ intent[i].status \in {"succeeded", "partially_refunded"}
           /\ amount <= Asked[i] - intent[i].refunded
    BY <1>11, <2>0 DEF BeginRefund
  <2>1. /\ agentCall'[c].op = "refund" /\ agentCall'[c].id = i /\ agentCall'[c].amount = amount
        /\ agentCall'[c].seen = intent[i] /\ amount \in Nat
        /\ DOMAIN agentCall' = Calls /\ (\A d \in Calls \ {c} : agentCall'[d] = agentCall[d])
    BY <1>t, <1>a, <2>0, <2>a DEF AgentCallShape
  <2>s. AgentCallShape'
    BY <1>t, <2>0, <2>a DEF AgentCallShape
  <2>2. AgentPaymentsTypeOK'
    BY <1>t, <1>a, <1>p, <2>1, <2>a DEF AgentPaymentsTypeOK, IntentStatuses,
         RequestStatuses, Paying
  <2>3. IntentsFit'
    <3>1. \A d \in Calls : agentCall'[d] = agentCall[d] \/ (~Claiming(d)' /\ AgentCallFits(d)')
      BY <1>t, <1>a, <2>1, <2>a DEF AgentCallFits, Claiming, Paying, AgentPaymentsTypeOK,
           PaidStatuses, IntentsFit
    <3> QED BY <1>t, <3>1, <2>1, <2>a, IntentsKept
  <2>4. AsksFit'
    <3>1. PaidStays
      BY <1>t, <2>1, <2>a DEF PaidStays, PaidStatuses, IntentsFit, AgentCallFits, Claiming,
           AgentPaymentsTypeOK
    <3>2. \A d \in Calls : \/ agentCall'[d].ask = {} \/ ~Paying(d)'
                           \/ /\ Paying(d) /\ agentCall'[d].ask = agentCall[d].ask
                              /\ agentCall'[d].id = agentCall[d].id
      BY <2>1, <2>a DEF Paying
    <3>3. \A r \in Requests :
           /\ ask'[r].intent = ask[r].intent
           /\ \/ ask'[r].status = ask[r].status
              \/ /\ ask[r].status # "none" /\ ask'[r].status # "confirmed"
                 /\ \A d \in Calls : Paying(d)' => r \notin agentCall'[d].ask
      BY <1>t, <2>1, <2>a DEF Paying, AsksFit, AgentPaymentsTypeOK
    <3> QED BY <1>t, <3>1, <3>2, <3>3, AsksKept
  <2>5. CapFits'
    <3>1. Charged' \in SUBSET Charged /\ \A r \in Charged' : ask'[r].intent = ask[r].intent
      BY <1>t, <1>p, <2>1, <2>a DEF Charged, Paying, AsksFit, AgentPaymentsTypeOK
    <3> QED BY <1>t, <2>2, <3>1, CapKept
  <2> QED BY <1>k, <2>s, <2>2, <2>3, <2>4, <2>5
<1>12. ASSUME NEW c \in Calls, CommitIntentRefund(c) PROVE AgentPaymentsIInv'
  <2>h. agentCall[c] \in IntentRefunds
    BY <1>t, <1>12 DEF CommitIntentRefund, AgentCallShape, PayCalls, AgentAsks, Idle
  <2>0. PICK i \in Intents, amount \in Portions : i = agentCall[c].id
             /\ amount = agentCall[c].amount
    BY <2>h DEF IntentRefunds
  <2>b. /\ agentCall[c].op = "refund" /\ agentCall[c].seen.refunded = intent[i].refunded
        /\ agentCall[c].seen.status = intent[i].status
           /\ intent[i].status \in {"succeeded", "partially_refunded"}
        /\ intent[i].refunded + amount <= Asked[i] /\ intent[i].payer \in Users
    BY <1>t, <1>12, <2>0 DEF CommitIntentRefund, Refundable, UnchangedSince, IntentsFit,
         AgentCallFits, IntentFits, UnpaidStatuses
  <2>a. PICK v \in [Users -> Row] : v = Sell(Seller, intent[i].payer, amount, 0, 0)
    BY <1>a, <1>s, <2>b
  <2>c. PICK next \in {"refunded", "partially_refunded"} :
          next = IF intent[i].refunded + amount = Asked[i] THEN "refunded" ELSE "partially_refunded"
    OBVIOUS
  <2>1. /\ wallet' = v /\ returned' = [returned EXCEPT ![i] = @ + amount] /\ amount \in Nat
        /\ intent' = [intent EXCEPT ![i].refunded = intent[i].refunded + amount, ![i].status = next]
        /\ Leave(c) /\ UNCHANGED <<intentPaid, ask, mandate>>
    BY <1>a, <1>12, <2>0, <2>a, <2>b, <2>c DEF CommitIntentRefund
  <2>d. PICK row \in [status : IntentStatuses, payer : Users \cup {Nobody}, refunded : Nat] :
          row = intent[i]
    BY <1>t DEF AgentPaymentsTypeOK
  <2>f. PICK new \in [status : IntentStatuses, payer : Users \cup {Nobody}, refunded : Nat] :
          /\ new = [row EXCEPT !.refunded = row.refunded + amount, !.status = next]
          /\ new.status = next /\ new.payer = row.payer /\ new.refunded = row.refunded + amount
    <3> DEFINE Rows == [status : IntentStatuses, payer : Users \cup {Nobody}, refunded : Nat]
    <3>1. amount \in Nat /\ next \in IntentStatuses
      BY <1>a DEF IntentStatuses
    <3>3. row \in Rows
      OBVIOUS
    <3>5. PICK n \in Nat : n = row.refunded + amount
      BY <3>1
    <3>2. \A x \in Rows : \E y \in Rows : /\ y = [x EXCEPT !.refunded = n, !.status = next]
                                          /\ y.status = next /\ y.payer = x.payer
                                             /\ y.refunded = n
      <4> SUFFICES ASSUME NEW x \in Rows
                   PROVE  \E y \in Rows : /\ y = [x EXCEPT !.refunded = n, !.status = next]
                                          /\ y.status = next /\ y.payer = x.payer
                                             /\ y.refunded = n
        OBVIOUS
      <4> DEFINE z == [x EXCEPT !.refunded = n, !.status = next]
      <4>1. z \in Rows /\ z.status = next /\ z.payer = x.payer /\ z.refunded = n
        BY <3>1
      <4>2. z = [x EXCEPT !.refunded = n, !.status = next]
        OBVIOUS
      <4> HIDE DEF z, Rows
      <4> QED BY <4>1, <4>2
    <3> HIDE DEF Rows
    <3>6. \E y \in Rows : /\ y = [row EXCEPT !.refunded = n, !.status = next]
                           /\ y.status = next /\ y.payer = row.payer /\ y.refunded = n
      BY <3>2, <3>3
    <3>4. \E y \in Rows : /\ y = [row EXCEPT !.refunded = row.refunded + amount, !.status = next]
                           /\ y.status = next /\ y.payer = row.payer
                              /\ y.refunded = row.refunded + amount
      BY <3>5, <3>6
    <3> QED BY <3>4 DEF Rows
  <2>g. intent' = [intent EXCEPT ![i] = new]
    BY <1>t, <2>1, <2>d, <2>f DEF AgentPaymentsTypeOK
  <2>i. /\ intent' \in [Intents -> [status : IntentStatuses, payer : Users \cup {Nobody}, refunded : Nat]]
        /\ intent'[i] = new /\ \A j \in Intents \ {i} : intent'[j] = intent[j]
    BY <1>t, <2>g DEF AgentPaymentsTypeOK
  <2>j. /\ returned' \in [Intents -> Nat] /\ returned'[i] = returned[i] + amount
        /\ \A j \in Intents \ {i} : returned'[j] = returned[j]
    BY <1>t, <1>a, <2>1 DEF AgentPaymentsTypeOK
  <2>e. /\ intent' \in [Intents -> [status : IntentStatuses, payer : Users \cup {Nobody}, refunded : Nat]]
        /\ intent'[i].status = next /\ intent'[i].payer = intent[i].payer
        /\ intent'[i].refunded = intent[i].refunded + amount
        /\ (\A j \in Intents \ {i} : intent'[j] = intent[j])
        /\ returned' \in [Intents -> Nat] /\ returned'[i] = returned[i] + amount
        /\ \A j \in Intents \ {i} : returned'[j] = returned[j]
    BY <2>d, <2>f, <2>i, <2>j
  <2>s. /\ AgentCallShape' /\ DOMAIN agentCall' = Calls /\ agentCall'[c].op = "idle"
        /\ \A d \in Calls \ {c} : agentCall'[d] = agentCall[d]
    BY <1>l, <2>1
  <2>2. AgentPaymentsTypeOK'
    BY <1>t, <1>a, <1>p, <2>1, <2>b, <2>e, <2>s DEF AgentPaymentsTypeOK, IntentStatuses,
         RequestStatuses, Paying
  <2>3. IntentsFit'
    <3>0. IntentFits(i) /\ AgentCallFits(c)
      BY <1>t DEF IntentsFit
    <3>1. IntentFits(i)'
      BY <1>t, <1>a, <1>p, <2>1, <2>b, <2>e, <2>s, <3>0 DEF IntentFits, AgentCallFits,
           Claiming, Paying, UnpaidStatuses, PaidStatuses, AgentPaymentsTypeOK
    <3>2. AgentCallFits(c)'
      BY <1>t, <1>a, <1>p, <2>1, <2>b, <2>e, <2>s, <3>0 DEF AgentCallFits, IntentFits,
           Claiming, Paying, UnpaidStatuses, PaidStatuses, AgentPaymentsTypeOK
    <3>3. \A d \in Calls \ {c} : Claiming(d) => agentCall[d].id # i
      BY <1>t, <2>1, <2>b, <2>e, <2>s DEF IntentsFit, AgentCallFits, Claiming
    <3>4. intent[i].status \in PaidStatuses => intent'[i].status \in PaidStatuses
          /\ intent'[i].payer = intent[i].payer
      BY <1>t, <2>1, <2>b, <2>e, <2>s, <3>0 DEF AgentCallFits, Claiming, PaidStatuses
    <3>5. Claiming(c)' => agentCall'[c].id = i
      BY <2>1, <2>b, <2>e, <2>s DEF Claiming
    <3>6. \A j \in Intents \ {i} : /\ intent'[j] = intent[j] /\ intentPaid'[j] = intentPaid[j]
                                     /\ returned'[j] = returned[j]
      BY <1>t, <2>1, <2>b, <2>e, <2>s DEF AgentPaymentsTypeOK
    <3>7. \A d \in Calls \ {c} : agentCall'[d] = agentCall[d]
      BY <2>1, <2>b, <2>e, <2>s
    <3> QED BY <1>t, <3>1, <3>2, <3>3, <3>4, <3>5, <3>6, <3>7, OtherIntentsKept
  <2>4. AsksFit'
    <3>1. PaidStays
      BY <1>t, <2>1, <2>b, <2>e, <2>s DEF PaidStays, PaidStatuses, IntentsFit,
           AgentCallFits, Claiming, AgentPaymentsTypeOK
    <3>2. \A d \in Calls : \/ agentCall'[d].ask = {} \/ ~Paying(d)'
                           \/ /\ Paying(d) /\ agentCall'[d].ask = agentCall[d].ask
                              /\ agentCall'[d].id = agentCall[d].id
      BY <2>1, <2>b, <2>e, <2>s DEF Paying
    <3>3. \A r \in Requests :
           /\ ask'[r].intent = ask[r].intent
           /\ \/ ask'[r].status = ask[r].status
              \/ /\ ask[r].status # "none" /\ ask'[r].status # "confirmed"
                 /\ \A d \in Calls : Paying(d)' => r \notin agentCall'[d].ask
      BY <1>t, <2>1, <2>b, <2>e, <2>s DEF Paying, AsksFit, AgentPaymentsTypeOK
    <3> QED BY <1>t, <3>1, <3>2, <3>3, AsksKept
  <2>5. CapFits'
    <3>1. Charged' \in SUBSET Charged /\ \A r \in Charged' : ask'[r].intent = ask[r].intent
      BY <1>t, <1>p, <2>1, <2>b, <2>e, <2>s DEF Charged, Paying, AsksFit, AgentPaymentsTypeOK
    <3> QED BY <1>t, <2>2, <3>1, CapKept
  <2> QED BY <1>k, <2>s, <2>2, <2>3, <2>4, <2>5
<1>13. ASSUME NEW c \in Calls, IntentRefundLost(c) PROVE AgentPaymentsIInv'
  <2>1. Leave(c) /\ UNCHANGED <<wallet, intent, intentPaid, returned, ask, mandate>>
    BY <1>13 DEF IntentRefundLost
  <2>s. /\ AgentCallShape' /\ DOMAIN agentCall' = Calls /\ agentCall'[c].op = "idle"
        /\ \A d \in Calls \ {c} : agentCall'[d] = agentCall[d]
    BY <1>l, <2>1
  <2>2. AgentPaymentsTypeOK'
    BY <1>t, <1>a, <1>p, <2>1, <2>s DEF AgentPaymentsTypeOK, IntentStatuses,
         RequestStatuses, Paying
  <2>3. IntentsFit'
    <3>1. \A d \in Calls : agentCall'[d] = agentCall[d] \/ (~Claiming(d)' /\ AgentCallFits(d)')
      BY <1>t, <1>a, <2>1, <2>s DEF AgentCallFits, Claiming, Paying, AgentPaymentsTypeOK,
           PaidStatuses, IntentsFit
    <3> QED BY <1>t, <3>1, <2>1, <2>s, IntentsKept
  <2>4. AsksFit'
    <3>1. PaidStays
      BY <1>t, <2>1, <2>s DEF PaidStays, PaidStatuses, IntentsFit, AgentCallFits, Claiming,
           AgentPaymentsTypeOK
    <3>2. \A d \in Calls : \/ agentCall'[d].ask = {} \/ ~Paying(d)'
                           \/ /\ Paying(d) /\ agentCall'[d].ask = agentCall[d].ask
                              /\ agentCall'[d].id = agentCall[d].id
      BY <2>1, <2>s DEF Paying
    <3>3. \A r \in Requests :
           /\ ask'[r].intent = ask[r].intent
           /\ \/ ask'[r].status = ask[r].status
              \/ /\ ask[r].status # "none" /\ ask'[r].status # "confirmed"
                 /\ \A d \in Calls : Paying(d)' => r \notin agentCall'[d].ask
      BY <1>t, <2>1, <2>s DEF Paying, AsksFit, AgentPaymentsTypeOK
    <3> QED BY <1>t, <3>1, <3>2, <3>3, AsksKept
  <2>5. CapFits'
    <3>1. Charged' \in SUBSET Charged /\ \A r \in Charged' : ask'[r].intent = ask[r].intent
      BY <1>t, <1>p, <2>1, <2>s DEF Charged, Paying, AsksFit, AgentPaymentsTypeOK
    <3> QED BY <1>t, <2>2, <3>1, CapKept
  <2> QED BY <1>k, <2>s, <2>2, <2>3, <2>4, <2>5
<1>14. ASSUME NEW c \in Calls, NEW i \in Intents, BeginAskAgent(c, i) PROVE AgentPaymentsIInv'
  <2>0. PICK h \in AgentAsks : h = [op |-> "ask", id |-> i, ask |-> {}] /\ h.op = "ask"
    <3>1. [op |-> "ask", id |-> i, ask |-> {}] \in AgentAsks
      BY DEF AgentAsks
    <3> QED BY <3>1
  <2>a. /\ agentCall' = [agentCall EXCEPT ![c] = h]
           /\ UNCHANGED <<wallet, intent, intentPaid, returned, ask, mandate>>
    BY <1>14, <2>0 DEF BeginAskAgent
  <2>1. /\ agentCall'[c].op = "ask"
        /\ DOMAIN agentCall' = Calls /\ (\A d \in Calls \ {c} : agentCall'[d] = agentCall[d])
    BY <1>t, <2>0, <2>a DEF AgentCallShape
  <2>s. AgentCallShape'
    BY <1>t, <2>0, <2>a DEF AgentCallShape
  <2>2. AgentPaymentsTypeOK'
    BY <1>t, <1>a, <1>p, <2>1, <2>a DEF AgentPaymentsTypeOK, IntentStatuses,
         RequestStatuses, Paying
  <2>3. IntentsFit'
    <3>1. \A d \in Calls : agentCall'[d] = agentCall[d] \/ (~Claiming(d)' /\ AgentCallFits(d)')
      BY <1>t, <1>a, <2>1, <2>a DEF AgentCallFits, Claiming, Paying, AgentPaymentsTypeOK,
           PaidStatuses, IntentsFit
    <3> QED BY <1>t, <3>1, <2>1, <2>a, IntentsKept
  <2>4. AsksFit'
    <3>1. PaidStays
      BY <1>t, <2>1, <2>a DEF PaidStays, PaidStatuses, IntentsFit, AgentCallFits, Claiming,
           AgentPaymentsTypeOK
    <3>2. \A d \in Calls : \/ agentCall'[d].ask = {} \/ ~Paying(d)'
                           \/ /\ Paying(d) /\ agentCall'[d].ask = agentCall[d].ask
                              /\ agentCall'[d].id = agentCall[d].id
      BY <2>1, <2>a DEF Paying
    <3>3. \A r \in Requests :
           /\ ask'[r].intent = ask[r].intent
           /\ \/ ask'[r].status = ask[r].status
              \/ /\ ask[r].status # "none" /\ ask'[r].status # "confirmed"
                 /\ \A d \in Calls : Paying(d)' => r \notin agentCall'[d].ask
      BY <1>t, <2>1, <2>a DEF Paying, AsksFit, AgentPaymentsTypeOK
    <3> QED BY <1>t, <3>1, <3>2, <3>3, AsksKept
  <2>5. CapFits'
    <3>1. Charged' \in SUBSET Charged /\ \A r \in Charged' : ask'[r].intent = ask[r].intent
      BY <1>t, <1>p, <2>1, <2>a DEF Charged, Paying, AsksFit, AgentPaymentsTypeOK
    <3> QED BY <1>t, <2>2, <3>1, CapKept
  <2> QED BY <1>k, <2>s, <2>2, <2>3, <2>4, <2>5
<1>15. ASSUME NEW c \in Calls, NEW r \in Requests, CommitAskAgent(c, r) PROVE AgentPaymentsIInv'
  <2>h. agentCall[c] \in AgentAsks
    BY <1>t, <1>15 DEF CommitAskAgent, AgentCallShape, PayCalls, IntentRefunds, Idle
  <2>0. PICK i \in Intents : i = agentCall[c].id
    BY <2>h DEF AgentAsks
  <2>1. /\ agentCall[c].op = "ask" /\ ask[r].status = "none" /\ Leave(c)
        /\ ask' = [ask EXCEPT ![r] = [status |-> "pending", intent |-> i]]
        /\ UNCHANGED <<wallet, intent, intentPaid, returned, mandate>>
    BY <1>15, <2>0 DEF CommitAskAgent
  <2>e. /\ ask'[r].status = "pending" /\ ask'[r].intent = i
           /\ \A q \in Requests \ {r} : ask'[q] = ask[q]
    BY <1>t, <2>1 DEF AgentPaymentsTypeOK
  <2>s. /\ AgentCallShape' /\ DOMAIN agentCall' = Calls /\ agentCall'[c].op = "idle"
        /\ \A d \in Calls \ {c} : agentCall'[d] = agentCall[d]
    BY <1>l, <2>1
  <2>2. AgentPaymentsTypeOK'
    BY <1>t, <1>a, <1>p, <2>1, <2>e, <2>s DEF AgentPaymentsTypeOK, IntentStatuses,
         RequestStatuses, Paying
  <2>3. IntentsFit'
    <3>1. \A d \in Calls : agentCall'[d] = agentCall[d] \/ (~Claiming(d)' /\ AgentCallFits(d)')
      BY <1>t, <1>a, <2>1, <2>e, <2>s DEF AgentCallFits, Claiming, Paying,
           AgentPaymentsTypeOK, PaidStatuses, IntentsFit
    <3> QED BY <1>t, <3>1, <2>1, <2>e, <2>s, IntentsKept
  <2>4. AsksFit'
    <3>p. PaidStays
      BY <2>1, <2>e, <2>s DEF PaidStays
    <3>1. ASSUME NEW q \in Requests PROVE AskFits(q)'
      BY <1>t, <3>p, <2>1, <2>e, <2>s DEF AsksFit, AskFits, PaidStays, PaidStatuses,
           AgentPaymentsTypeOK
    <3>2. ASSUME NEW d \in Calls, Paying(d)', NEW q \in agentCall'[d].ask
          PROVE  /\ ask'[q].status = "processing" /\ ask'[q].intent = agentCall'[d].id
                 /\ agentCall'[d].ask = {q}
      <4>1. CASE d = c
        BY <1>t, <2>1, <2>e, <2>s, <3>2, <4>1 DEF AsksFit, Paying, AgentPaymentsTypeOK
      <4>2. CASE d # c
        BY <1>t, <1>p, <2>1, <2>e, <2>s, <3>2, <4>2 DEF AsksFit, Paying, AgentPaymentsTypeOK
      <4> QED BY <4>1, <4>2
    <3>3. ASSUME NEW d \in Calls, NEW e \in Calls, Paying(d)', Paying(e)',
                 NEW q \in agentCall'[d].ask,
                 q \in agentCall'[e].ask
          PROVE  d = e
      BY <1>t, <2>1, <2>e, <2>s, <3>3 DEF AsksFit, Paying
    <3> QED BY <3>1, <3>2, <3>3 DEF AsksFit
  <2>5. CapFits'
    <3>1. \A d \in Calls : Paying(d)' => Paying(d) /\ agentCall'[d] = agentCall[d]
                           /\ r \notin agentCall[d].ask
      BY <1>t, <2>1, <2>s DEF Paying, AsksFit
    <3>2. r \notin Charged'
      BY <2>e, <3>1 DEF Charged
    <3>3. Charged' \in SUBSET Charged
      BY <2>e, <3>1, <3>2 DEF Charged
    <3>4. \A q \in Charged' : ask'[q].intent = ask[q].intent
      BY <2>e, <3>2 DEF Charged
    <3> QED BY <1>t, <2>2, <3>3, <3>4, CapKept
  <2> QED BY <1>k, <2>s, <2>2, <2>3, <2>4, <2>5
<1>16. ASSUME NEW c \in Calls, NEW r \in Requests, ClaimRequest(c, r) PROVE AgentPaymentsIInv'
  <2>i. ask[r].intent \in Intents /\ ask[r].status = "pending"
    BY <1>t, <1>16 DEF ClaimRequest, AsksFit, AskFits
  <2>0. PICK h \in PayCalls : /\ h = PayerCall("caps", ask[r].intent, Grantor, {r}) /\ h.op = "caps"
                              /\ h.id = ask[r].intent /\ h.by = Grantor /\ h.ask = {r}
    <3>1. PayerCall("caps", ask[r].intent, Grantor, {r}) \in PayCalls
      BY <1>a, <2>i DEF PayCalls, PayerCall
    <3> QED BY <3>1 DEF PayerCall
  <2>a. /\ agentCall' = [agentCall EXCEPT ![c] = h]
           /\ UNCHANGED <<wallet, intent, intentPaid, returned, mandate>>
        /\ ask' = [ask EXCEPT ![r].status = "processing"] /\ agentCall[c].op = "idle"
    BY <1>16, <2>0 DEF ClaimRequest, SetAsk, Idle
  <2>e. /\ ask' \in [Requests -> [status : RequestStatuses, intent : Intents \cup {NoIntent}]]
        /\ ask'[r].status = "processing" /\ ask'[r].intent = ask[r].intent
        /\ \A q \in Requests \ {r} : ask'[q] = ask[q]
    BY <1>t, <2>a DEF AgentPaymentsTypeOK, RequestStatuses
  <2>1. /\ agentCall'[c].op = "caps" /\ agentCall'[c].id = ask[r].intent
        /\ agentCall'[c].by = Grantor /\ agentCall'[c].ask = {r}
        /\ DOMAIN agentCall' = Calls /\ (\A d \in Calls \ {c} : agentCall'[d] = agentCall[d])
    BY <1>t, <2>0, <2>a DEF AgentCallShape
  <2>s. AgentCallShape'
    BY <1>t, <2>0, <2>a DEF AgentCallShape
  <2>2. AgentPaymentsTypeOK'
    BY <1>t, <1>a, <1>p, <2>1, <2>a, <2>i, <2>e DEF AgentPaymentsTypeOK, IntentStatuses,
         RequestStatuses, Paying
  <2>3. IntentsFit'
    <3>1. \A d \in Calls : agentCall'[d] = agentCall[d] \/ (~Claiming(d)' /\ AgentCallFits(d)')
      BY <1>t, <1>a, <2>1, <2>a, <2>i, <2>e DEF AgentCallFits, Claiming, Paying,
           AgentPaymentsTypeOK, PaidStatuses, IntentsFit
    <3> QED BY <1>t, <3>1, <2>1, <2>a, <2>i, <2>e, IntentsKept
  <2>4. AsksFit'
    <3>p. PaidStays
      BY <2>1, <2>a, <2>i, <2>e DEF PaidStays
    <3>1. ASSUME NEW q \in Requests PROVE AskFits(q)'
      BY <1>t, <3>p, <2>1, <2>a, <2>i, <2>e DEF AsksFit, AskFits, PaidStays, PaidStatuses,
           AgentPaymentsTypeOK
    <3>2. ASSUME NEW d \in Calls, Paying(d)', NEW q \in agentCall'[d].ask
          PROVE  /\ ask'[q].status = "processing" /\ ask'[q].intent = agentCall'[d].id
                 /\ agentCall'[d].ask = {q}
      <4>1. CASE d = c
        BY <1>t, <2>1, <2>a, <2>i, <2>e, <3>2, <4>1 DEF AsksFit, Paying, AgentPaymentsTypeOK
      <4>2. CASE d # c
        BY <1>t, <1>p, <2>1, <2>a, <2>i, <2>e, <3>2, <4>2 DEF AsksFit, Paying,
             AgentPaymentsTypeOK
      <4> QED BY <4>1, <4>2
    <3>3. ASSUME NEW d \in Calls, NEW e \in Calls, Paying(d)', Paying(e)',
                 NEW q \in agentCall'[d].ask,
                 q \in agentCall'[e].ask
          PROVE  d = e
      BY <1>t, <2>1, <2>a, <2>i, <2>e, <3>3 DEF AsksFit, Paying
    <3> QED BY <3>1, <3>2, <3>3 DEF AsksFit
  <2>5. CapFits'
    <3>1. Charged' \in SUBSET Charged /\ \A q \in Charged' : ask'[q].intent = ask[q].intent
      BY <1>t, <1>p, <2>1, <2>a, <2>i, <2>e DEF Charged, Paying, AsksFit, AgentPaymentsTypeOK
    <3> QED BY <1>t, <2>2, <3>1, CapKept
  <2> QED BY <1>k, <2>s, <2>2, <2>3, <2>4, <2>5
<1>17. ASSUME NEW c \in Calls, CapsRefuse(c) PROVE AgentPaymentsIInv'
  <2>1. /\ agentCall[c].op = "caps" /\ Answers(c, "failed") /\ Leave(c)
        /\ UNCHANGED <<wallet, intent, intentPaid, returned, mandate>>
    BY <1>17 DEF CapsRefuse
  <2>s. /\ AgentCallShape' /\ DOMAIN agentCall' = Calls /\ agentCall'[c].op = "idle"
        /\ \A d \in Calls \ {c} : agentCall'[d] = agentCall[d]
    BY <1>l, <2>1
  <2>w. /\ ask' \in [Requests -> [status : RequestStatuses, intent : Intents \cup {NoIntent}]]
        /\ \A r \in Requests : /\ ask'[r].intent = ask[r].intent
                               /\ ask'[r].status = IF r \in agentCall[c].ask THEN "failed" ELSE ask[r].status
    BY <1>w, <2>1 DEF Paying, RequestStatuses
  <2>2. AgentPaymentsTypeOK'
    BY <1>t, <1>a, <1>p, <2>1, <2>s, <2>w DEF AgentPaymentsTypeOK, IntentStatuses,
         RequestStatuses, Paying
  <2>3. IntentsFit'
    <3>1. \A d \in Calls : agentCall'[d] = agentCall[d] \/ (~Claiming(d)' /\ AgentCallFits(d)')
      BY <1>t, <1>a, <2>1, <2>s, <2>w DEF AgentCallFits, Claiming, Paying,
           AgentPaymentsTypeOK, PaidStatuses, IntentsFit
    <3> QED BY <1>t, <3>1, <2>1, <2>s, <2>w, IntentsKept
  <2>4. AsksFit'
    <3>1. PaidStays
      BY <1>t, <2>1, <2>s, <2>w DEF PaidStays, PaidStatuses, IntentsFit, AgentCallFits,
           Claiming, AgentPaymentsTypeOK
    <3>2. \A d \in Calls : \/ agentCall'[d].ask = {} \/ ~Paying(d)'
                           \/ /\ Paying(d) /\ agentCall'[d].ask = agentCall[d].ask
                              /\ agentCall'[d].id = agentCall[d].id
      BY <2>1, <2>s, <2>w DEF Paying
    <3>3. \A r \in Requests :
           /\ ask'[r].intent = ask[r].intent
           /\ \/ ask'[r].status = ask[r].status
              \/ /\ ask[r].status # "none" /\ ask'[r].status # "confirmed"
                 /\ \A d \in Calls : Paying(d)' => r \notin agentCall'[d].ask
      BY <1>t, <2>1, <2>s, <2>w DEF Paying, AsksFit, AgentPaymentsTypeOK
    <3> QED BY <1>t, <3>1, <3>2, <3>3, AsksKept
  <2>5. CapFits'
    <3>1. Charged' \in SUBSET Charged /\ \A r \in Charged' : ask'[r].intent = ask[r].intent
      BY <1>t, <1>p, <2>1, <2>s, <2>w DEF Charged, Paying, AsksFit, AgentPaymentsTypeOK
    <3> QED BY <1>t, <2>2, <3>1, CapKept
  <2> QED BY <1>k, <2>s, <2>2, <2>3, <2>4, <2>5
<1>18. ASSUME NEW c \in Calls, ConfirmRequest(c) PROVE AgentPaymentsIInv'
  <2>1. /\ agentCall[c].op = "recorded" /\ Answers(c, "confirmed") /\ Leave(c)
        /\ UNCHANGED <<wallet, intent, intentPaid, returned, mandate>>
    BY <1>18 DEF ConfirmRequest
  <2>b. \A r \in agentCall[c].ask :
          /\ ask[r].intent = agentCall[c].id /\ agentCall[c].id \in Intents
          /\ intent[agentCall[c].id].status \in PaidStatuses
             /\ intent[agentCall[c].id].payer = Grantor
    BY <1>t, <1>p, <2>1 DEF IntentsFit, AgentCallFits, AsksFit, Paying
  <2>s. /\ AgentCallShape' /\ DOMAIN agentCall' = Calls /\ agentCall'[c].op = "idle"
        /\ \A d \in Calls \ {c} : agentCall'[d] = agentCall[d]
    BY <1>l, <2>1
  <2>w. /\ ask' \in [Requests -> [status : RequestStatuses, intent : Intents \cup {NoIntent}]]
        /\ \A r \in Requests : /\ ask'[r].intent = ask[r].intent
                               /\ ask'[r].status = IF r \in agentCall[c].ask THEN "confirmed" ELSE ask[r].status
    BY <1>w, <2>1 DEF Paying, RequestStatuses
  <2>2. AgentPaymentsTypeOK'
    BY <1>t, <1>a, <1>p, <2>1, <2>s, <2>w DEF AgentPaymentsTypeOK, IntentStatuses,
         RequestStatuses, Paying
  <2>3. IntentsFit'
    <3>1. \A d \in Calls : agentCall'[d] = agentCall[d] \/ (~Claiming(d)' /\ AgentCallFits(d)')
      BY <1>t, <1>a, <2>1, <2>s, <2>w DEF AgentCallFits, Claiming, Paying,
           AgentPaymentsTypeOK, PaidStatuses, IntentsFit
    <3> QED BY <1>t, <3>1, <2>1, <2>s, <2>w, IntentsKept
  <2>4. AsksFit'
    <3>p. PaidStays
      BY <2>1, <2>s, <2>w DEF PaidStays
    <3>1. ASSUME NEW q \in Requests PROVE AskFits(q)'
      <4>1. CASE q \in agentCall[c].ask
        BY <2>1, <2>w, <2>b, <4>1 DEF AskFits
      <4>2. CASE q \notin agentCall[c].ask
        BY <1>t, <2>1, <2>w, <4>2 DEF AsksFit, AskFits
      <4> QED BY <4>1, <4>2
    <3>2. ASSUME NEW d \in Calls, Paying(d)', NEW q \in agentCall'[d].ask
          PROVE  /\ ask'[q].status = "processing" /\ ask'[q].intent = agentCall'[d].id
                 /\ agentCall'[d].ask = {q}
      <4>1. CASE d = c
        BY <1>t, <2>1, <2>s, <2>w, <3>2, <4>1 DEF AsksFit, Paying, AgentPaymentsTypeOK
      <4>2. CASE d # c
        BY <1>t, <1>p, <2>1, <2>s, <2>w, <3>2, <4>2 DEF AsksFit, Paying, AgentPaymentsTypeOK
      <4> QED BY <4>1, <4>2
    <3>3. ASSUME NEW d \in Calls, NEW e \in Calls, Paying(d)', Paying(e)',
                 NEW q \in agentCall'[d].ask,
                 q \in agentCall'[e].ask
          PROVE  d = e
      BY <1>t, <2>1, <2>s, <2>w, <3>3 DEF AsksFit, Paying
    <3> QED BY <3>1, <3>2, <3>3 DEF AsksFit
  <2>5. CapFits'
    <3>1. Charged' \in SUBSET Charged /\ \A r \in Charged' : ask'[r].intent = ask[r].intent
      BY <1>t, <1>p, <2>1, <2>s, <2>w DEF Charged, Paying, AsksFit, AgentPaymentsTypeOK
    <3> QED BY <1>t, <2>2, <3>1, CapKept
  <2> QED BY <1>k, <2>s, <2>2, <2>3, <2>4, <2>5
<1>19. ASSUME CreateMandate PROVE AgentPaymentsIInv'
  <2>1. mandate' = "active" /\ UNCHANGED <<wallet, intent, intentPaid, returned, ask, agentCall>>
    BY <1>19 DEF CreateMandate
  <2>s. AgentCallShape'
    BY <1>t, <2>1 DEF AgentCallShape
  <2>2. AgentPaymentsTypeOK'
    BY <1>t, <1>a, <1>p, <2>1 DEF AgentPaymentsTypeOK, IntentStatuses, RequestStatuses, Paying
  <2>3. IntentsFit'
    BY <1>t, <1>a, <1>p, <2>1 DEF IntentsFit, IntentFits, AgentCallFits, Claiming, Paying,
         UnpaidStatuses, PaidStatuses, AgentPaymentsTypeOK
  <2>4. AsksFit'
    <3>1. PaidStays
      BY <1>t, <2>1 DEF PaidStays, PaidStatuses, IntentsFit, AgentCallFits, Claiming,
           AgentPaymentsTypeOK
    <3>2. \A d \in Calls : \/ agentCall'[d].ask = {} \/ ~Paying(d)'
                           \/ /\ Paying(d) /\ agentCall'[d].ask = agentCall[d].ask
                              /\ agentCall'[d].id = agentCall[d].id
      BY <2>1 DEF Paying
    <3>3. \A r \in Requests :
           /\ ask'[r].intent = ask[r].intent
           /\ \/ ask'[r].status = ask[r].status
              \/ /\ ask[r].status # "none" /\ ask'[r].status # "confirmed"
                 /\ \A d \in Calls : Paying(d)' => r \notin agentCall'[d].ask
      BY <1>t, <2>1 DEF Paying, AsksFit, AgentPaymentsTypeOK
    <3> QED BY <1>t, <3>1, <3>2, <3>3, AsksKept
  <2>5. CapFits'
    <3>1. Charged' \in SUBSET Charged /\ \A r \in Charged' : ask'[r].intent = ask[r].intent
      BY <1>t, <1>p, <2>1 DEF Charged, Paying, AsksFit, AgentPaymentsTypeOK
    <3> QED BY <1>t, <2>2, <3>1, CapKept
  <2> QED BY <1>k, <2>s, <2>2, <2>3, <2>4, <2>5
<1>20. ASSUME RevokeMandate PROVE AgentPaymentsIInv'
  <2>1. /\ mandate' = "revoked"
        /\ ask' \in [Requests -> [status : RequestStatuses, intent : Intents \cup {NoIntent}]]
        /\ \A r \in Requests : /\ ask'[r].intent = ask[r].intent
                               /\ ask'[r].status = ask[r].status \/ (ask[r].status = "pending" /\ ask'[r].status = "canceled")
        /\ UNCHANGED <<wallet, intent, intentPaid, returned, agentCall>>
    BY <1>t, <1>20 DEF RevokeMandate, AgentPaymentsTypeOK, RequestStatuses
  <2>s. AgentCallShape'
    BY <1>t, <2>1 DEF AgentCallShape
  <2>2. AgentPaymentsTypeOK'
    BY <1>t, <1>a, <1>p, <2>1 DEF AgentPaymentsTypeOK, IntentStatuses, RequestStatuses, Paying
  <2>3. IntentsFit'
    BY <1>t, <1>a, <1>p, <2>1 DEF IntentsFit, IntentFits, AgentCallFits, Claiming, Paying,
         UnpaidStatuses, PaidStatuses, AgentPaymentsTypeOK
  <2>4. AsksFit'
    <3>1. PaidStays
      BY <1>t, <2>1 DEF PaidStays, PaidStatuses, IntentsFit, AgentCallFits, Claiming,
           AgentPaymentsTypeOK
    <3>2. \A d \in Calls : \/ agentCall'[d].ask = {} \/ ~Paying(d)'
                           \/ /\ Paying(d) /\ agentCall'[d].ask = agentCall[d].ask
                              /\ agentCall'[d].id = agentCall[d].id
      BY <2>1 DEF Paying
    <3>3. \A r \in Requests :
           /\ ask'[r].intent = ask[r].intent
           /\ \/ ask'[r].status = ask[r].status
              \/ /\ ask[r].status # "none" /\ ask'[r].status # "confirmed"
                 /\ \A d \in Calls : Paying(d)' => r \notin agentCall'[d].ask
      BY <1>t, <2>1 DEF Paying, AsksFit, AgentPaymentsTypeOK
    <3> QED BY <1>t, <3>1, <3>2, <3>3, AsksKept
  <2>5. CapFits'
    <3>1. Charged' \in SUBSET Charged /\ \A r \in Charged' : ask'[r].intent = ask[r].intent
      BY <1>t, <1>p, <2>1 DEF Charged, Paying, AsksFit, AgentPaymentsTypeOK
    <3> QED BY <1>t, <2>2, <3>1, CapKept
  <2> QED BY <1>k, <2>s, <2>2, <2>3, <2>4, <2>5
<1>21. ASSUME AgentRestart PROVE AgentPaymentsIInv'
  <2>1. agentCall' = Idles /\ UNCHANGED <<wallet, intent, intentPaid, returned, ask, mandate>>
    BY <1>21 DEF AgentRestart
  <2>s. AgentCallShape' /\ DOMAIN agentCall' = Calls /\ \A d \in Calls : agentCall'[d].op = "idle"
    BY <1>t, <2>1 DEF AgentCallShape, Idles, Idle
  <2>2. AgentPaymentsTypeOK'
    BY <1>t, <1>a, <1>p, <2>1, <2>s DEF AgentPaymentsTypeOK, IntentStatuses,
         RequestStatuses, Paying
  <2>3. IntentsFit'
    <3>1. \A d \in Calls : agentCall'[d] = agentCall[d] \/ (~Claiming(d)' /\ AgentCallFits(d)')
      BY <1>t, <1>a, <2>1, <2>s DEF AgentCallFits, Claiming, Paying, AgentPaymentsTypeOK,
           PaidStatuses, IntentsFit
    <3> QED BY <1>t, <3>1, <2>1, <2>s, IntentsKept
  <2>4. AsksFit'
    <3>1. PaidStays
      BY <1>t, <2>1, <2>s DEF PaidStays, PaidStatuses, IntentsFit, AgentCallFits, Claiming,
           AgentPaymentsTypeOK
    <3>2. \A d \in Calls : \/ agentCall'[d].ask = {} \/ ~Paying(d)'
                           \/ /\ Paying(d) /\ agentCall'[d].ask = agentCall[d].ask
                              /\ agentCall'[d].id = agentCall[d].id
      BY <2>1, <2>s DEF Paying
    <3>3. \A r \in Requests :
           /\ ask'[r].intent = ask[r].intent
           /\ \/ ask'[r].status = ask[r].status
              \/ /\ ask[r].status # "none" /\ ask'[r].status # "confirmed"
                 /\ \A d \in Calls : Paying(d)' => r \notin agentCall'[d].ask
      BY <1>t, <2>1, <2>s DEF Paying, AsksFit, AgentPaymentsTypeOK
    <3> QED BY <1>t, <3>1, <3>2, <3>3, AsksKept
  <2>5. CapFits'
    <3>1. Charged' \in SUBSET Charged /\ \A r \in Charged' : ask'[r].intent = ask[r].intent
      BY <1>t, <1>p, <2>1, <2>s DEF Charged, Paying, AsksFit, AgentPaymentsTypeOK
    <3> QED BY <1>t, <2>2, <3>1, CapKept
  <2> QED BY <1>k, <2>s, <2>2, <2>3, <2>4, <2>5
<1>22. ASSUME UNCHANGED <<wallet, agentVars>> PROVE AgentPaymentsIInv'
  <2>1. UNCHANGED <<wallet, intent, intentPaid, returned, ask, mandate, agentCall>>
    BY <1>22 DEF agentVars
  <2>s. AgentCallShape'
    BY <1>t, <2>1 DEF AgentCallShape
  <2>2. AgentPaymentsTypeOK'
    BY <1>t, <1>a, <1>p, <2>1 DEF AgentPaymentsTypeOK, IntentStatuses, RequestStatuses, Paying
  <2>3. IntentsFit'
    BY <1>t, <1>a, <1>p, <2>1 DEF IntentsFit, IntentFits, AgentCallFits, Claiming, Paying,
         UnpaidStatuses, PaidStatuses, AgentPaymentsTypeOK
  <2>4. AsksFit'
    <3>1. PaidStays
      BY <1>t, <2>1 DEF PaidStays, PaidStatuses, IntentsFit, AgentCallFits, Claiming,
           AgentPaymentsTypeOK
    <3>2. \A d \in Calls : \/ agentCall'[d].ask = {} \/ ~Paying(d)'
                           \/ /\ Paying(d) /\ agentCall'[d].ask = agentCall[d].ask
                              /\ agentCall'[d].id = agentCall[d].id
      BY <2>1 DEF Paying
    <3>3. \A r \in Requests :
           /\ ask'[r].intent = ask[r].intent
           /\ \/ ask'[r].status = ask[r].status
              \/ /\ ask[r].status # "none" /\ ask'[r].status # "confirmed"
                 /\ \A d \in Calls : Paying(d)' => r \notin agentCall'[d].ask
      BY <1>t, <2>1 DEF Paying, AsksFit, AgentPaymentsTypeOK
    <3> QED BY <1>t, <3>1, <3>2, <3>3, AsksKept
  <2>5. CapFits'
    <3>1. Charged' \in SUBSET Charged /\ \A r \in Charged' : ask'[r].intent = ask[r].intent
      BY <1>t, <1>p, <2>1 DEF Charged, Paying, AsksFit, AgentPaymentsTypeOK
    <3> QED BY <1>t, <2>2, <3>1, CapKept
  <2> QED BY <1>k, <2>s, <2>2, <2>3, <2>4, <2>5
<1>23. ASSUME NEW c \in Calls, CheckCaps(c) PROVE AgentPaymentsIInv'
  <2>0. /\ agentCall[c].op = "caps" /\ Paying(c) /\ agentCall[c].id \in Intents
           /\ agentCall[c].ask \in SUBSET Requests
        /\ agentCall[c].by = Grantor /\ Usage(agentCall[c].ask) + Asked[agentCall[c].id] <= DayCap
        /\ UNCHANGED <<wallet, intent, intentPaid, returned, mandate>>
    BY <1>t, <1>p, <1>23 DEF CheckCaps, WithinCaps, Paying, IntentsFit, AgentCallFits
  <2>a. CASE UNCHANGED ask /\ \E op \in {"claim", "recorded"} :
               /\ Become(c, op)
               /\ op = "recorded" => PaidBy(agentCall[c].id, Grantor)
    <3>1. PICK op \in {"claim", "recorded"} : Become(c, op)
               /\ (op = "recorded" => PaidBy(agentCall[c].id, Grantor))
      BY <2>a
    <3>2. /\ AgentCallShape' /\ DOMAIN agentCall' = Calls
          /\ agentCall'[c].op = op /\ agentCall'[c].id = agentCall[c].id
          /\ agentCall'[c].by = agentCall[c].by /\ agentCall'[c].ask = agentCall[c].ask
          /\ \A d \in Calls \ {c} : agentCall'[d] = agentCall[d]
      BY <1>b, <2>0, <3>1
    <3>3. AgentPaymentsTypeOK'
      BY <1>t, <2>0, <2>a, <3>2 DEF AgentPaymentsTypeOK
    <3>4. IntentsFit'
      <4>1. AgentCallFits(c)' /\ ~Claiming(c)'
        BY <1>t, <2>0, <3>1, <3>2 DEF AgentCallFits, Claiming, Paying, PaidBy, PaidStatuses
      <4> QED BY <1>t, <2>0, <3>2, <4>1, IntentsKept
    <3>5. AsksFit'
      BY SMTT(30), <1>t, <1>a, <1>p, <2>0, <2>a, <3>2 DEF AsksFit, AskFits, Paying, PaidStatuses,
           RequestStatuses, AgentPaymentsTypeOK
    <3>6. CapFits'
      <4>1. PICK r \in Requests : agentCall[c].ask = {r} /\ ask[r].intent = agentCall[c].id
                 /\ ask[r].status = "processing"
        BY <1>t, <2>0 DEF IntentsFit, AgentCallFits, AsksFit
      <4> DEFINE OtherAsks == {q \in Requests \ {r} : ask[q].status \in ACTIVE_REQ}
      <4>2. Usage({r}) = SumOver(AskedFor, OtherAsks) /\ OtherAsks \in SUBSET Requests
            /\ r \in Requests \ OtherAsks
        BY DEF Usage
      <4>3. AskedFor \in [Requests -> Int] /\ (\A q \in Requests : AskedFor[q] >= 0)
            /\ AskedFor[r] = Asked[agentCall[c].id]
            /\ IsFiniteSet(Requests)
        BY <1>t, <1>a, <2>0, <4>1, AgentPaymentsAssumption DEF AskedFor, AgentPaymentsTypeOK
      <4>4. Charged' \in SUBSET (OtherAsks \cup {r})
        BY <1>t, <1>p, <2>0, <2>a, <3>1, <3>2, <4>1 DEF Charged, Paying, AsksFit,
             AgentPaymentsTypeOK, ACTIVE_REQ
      <4>5. UNCHANGED AskedFor
        BY <2>a DEF AskedFor
      <4>6. PICK T : T = Charged'
        OBVIOUS
      <4> HIDE DEF OtherAsks
      <4>7. SumOver(AskedFor, OtherAsks \cup {r}) = SumOver(AskedFor, OtherAsks) + AskedFor[r]
        BY <4>2, <4>3, SumOverPart
      <4>8. SumOver(AskedFor, T) <= SumOver(AskedFor, OtherAsks \cup {r})
        <5>1. PICK P : P = OtherAsks \cup {r}
          OBVIOUS
        <5>2. P \in SUBSET Requests /\ T \in SUBSET P
          BY <4>2, <4>4, <4>6, <5>1
        <5> QED BY <4>3, <5>1, <5>2, SumOverMonotone
      <4>9. SumOver(AskedFor, T) <= DayCap
        <5>1. SumOver(AskedFor, OtherAsks) + AskedFor[r] <= DayCap
          BY <2>0, <4>1, <4>2, <4>3
        <5>2. /\ SumOver(AskedFor, OtherAsks) \in Int /\ AskedFor[r] \in Int /\ DayCap \in Int
              /\ SumOver(AskedFor, T) \in Int
          <6>1. T \in SUBSET Requests
            BY <4>2, <4>4, <4>6
          <6> QED BY <1>a, <4>2, <4>3, <6>1, SumOverPart
        <5> QED BY <4>7, <4>8, <5>1, <5>2
      <4> QED BY <4>5, <4>6, <4>9 DEF CapFits
    <3> QED BY <1>k, <3>2, <3>3, <3>4, <3>5, <3>6
  <2>b. CASE Leave(c) /\ Answers(c, "failed")
    <3>1. /\ AgentCallShape' /\ DOMAIN agentCall' = Calls /\ agentCall'[c].op = "idle"
          /\ \A d \in Calls \ {c} : agentCall'[d] = agentCall[d]
      BY <1>l, <2>b
    <3>2. /\ ask' \in [Requests -> [status : RequestStatuses, intent : Intents \cup {NoIntent}]]
          /\ \A r \in Requests : /\ ask'[r].intent = ask[r].intent
                                 /\ ask'[r].status = IF r \in agentCall[c].ask THEN "failed" ELSE ask[r].status
      BY <1>w, <2>0, <2>b DEF RequestStatuses
    <3>3. AgentPaymentsTypeOK'
      BY <1>t, <2>0, <3>1, <3>2 DEF AgentPaymentsTypeOK
    <3>4. IntentsFit'
      <4>1. AgentCallFits(c)' /\ ~Claiming(c)'
        BY <3>1 DEF AgentCallFits, Claiming, Paying
      <4> QED BY <1>t, <2>0, <3>1, <4>1, IntentsKept
    <3>5. AsksFit'
      <4>1. PaidStays
        BY <2>0 DEF PaidStays
      <4>2. \A d \in Calls : \/ agentCall'[d].ask = {} \/ ~Paying(d)'
                             \/ /\ Paying(d) /\ agentCall'[d].ask = agentCall[d].ask
                                /\ agentCall'[d].id = agentCall[d].id
        BY <3>1 DEF Paying
      <4>3. \A r \in Requests :
             /\ ask'[r].intent = ask[r].intent
             /\ \/ ask'[r].status = ask[r].status
                \/ /\ ask[r].status # "none" /\ ask'[r].status # "confirmed"
                   /\ \A d \in Calls : Paying(d)' => r \notin agentCall'[d].ask
        BY <1>t, <2>0, <3>1, <3>2 DEF Paying, AsksFit
      <4> QED BY <1>t, <4>1, <4>2, <4>3, AsksKept
    <3>6. CapFits'
      <4>1. Charged' \in SUBSET Charged /\ \A r \in Charged' : ask'[r].intent = ask[r].intent
        BY <1>t, <1>p, <2>0, <3>1, <3>2 DEF Charged, Paying, AsksFit, AgentPaymentsTypeOK
      <4> QED BY <1>t, <3>3, <4>1, CapKept
    <3> QED BY <1>k, <3>1, <3>3, <3>4, <3>5, <3>6
  <2> QED BY <1>23, <2>a, <2>b DEF CheckCaps
<1> QED BY <1>1, <1>2, <1>3, <1>4, <1>5, <1>6, <1>7, <1>8, <1>9, <1>10, <1>11, <1>12, <1>13,
    <1>14, <1>15, <1>16, <1>17, <1>18, <1>19, <1>20, <1>21, <1>22, <1>23
        DEF NextAgentPayments

\* An intent is paid at most once and refunded at most what was paid, a confirmed
\* request paid its intent, and an agent's day stays within its cap, also when
\* requests are confirmed at the same time.
THEOREM IntentsPaidOnce == AgentPaymentsSpec => []AgentPaymentsInv
<1>1. InitWallets /\ InitAgentPayments => AgentPaymentsIInv
  <2> SUFFICES ASSUME InitWallets, InitAgentPayments PROVE AgentPaymentsIInv
    OBVIOUS
  <2>1. AgentPaymentsTypeOK /\ AgentCallShape
    BY SharedAssumption DEF InitWallets, InitAgentPayments, AgentPaymentsTypeOK,
         AgentCallShape, Idles, Row, IntentStatuses,
       RequestStatuses
  <2>2. IntentsFit /\ AsksFit
    BY AgentPaymentsAssumption DEF InitAgentPayments, IntentsFit, IntentFits, AgentCallFits,
         AsksFit, AskFits, Idles, Idle,
       Paying, Claiming, UnpaidStatuses, PaidStatuses
  <2>3. CapFits
    <3>1. Charged = {}
      BY DEF InitAgentPayments, Charged, Idles, Idle, Paying
    <3>2. SumOver(AskedFor, {}) = 0
      <4>1. IsFiniteSet({})
        BY FS_EmptySet
      <4> QED BY <4>1, SumOverZero
    <3> QED BY <3>1, <3>2, AgentPaymentsAssumption DEF CapFits
  <2> QED BY <2>1, <2>2, <2>3 DEF AgentPaymentsIInv
<1>2. AgentPaymentsIInv => AgentPaymentsInv
  <2> SUFFICES ASSUME AgentPaymentsIInv PROVE AgentPaymentsInv
    OBVIOUS
  <2>1. AgentPaymentsTypeOK /\ IntentsFit /\ AsksFit /\ CapFits
    BY DEF AgentPaymentsIInv
  <2>2. IntentPaidOnce
    BY <2>1 DEF IntentPaidOnce, IntentsFit, IntentFits, UnpaidStatuses, PaidStatuses,
         AgentPaymentsTypeOK, IntentStatuses
  <2>3. RefundedWithinPaid
    <3> SUFFICES ASSUME NEW i \in Intents
                 PROVE returned[i] <= intentPaid[i] * Asked[i] /\ returned[i] = intent[i].refunded
      BY DEF RefundedWithinPaid
    <3>1. /\ returned[i] = intent[i].refunded /\ returned[i] <= Asked[i]
             /\ (intentPaid[i] = 0 => returned[i] = 0)
          /\ intentPaid[i] \in {0, 1} /\ Asked[i] \in Nat
      BY <2>1, AgentPaymentsAssumption DEF IntentsFit, IntentFits, AgentPaymentsTypeOK
    <3>2. CASE intentPaid[i] = 0
      BY <3>1, <3>2
    <3>3. CASE intentPaid[i] = 1
      BY <3>1, <3>3
    <3> QED BY <3>1, <3>2, <3>3
  <2>4. ConfirmedIsPaid
    BY <2>1 DEF ConfirmedIsPaid, AsksFit, AskFits, IntentsFit, IntentFits
  <2>5. WithinDailyCap
    <3> DEFINE Confirmations == {r \in Requests : ask[r].status = "confirmed"}
    <3>1. /\ IsFiniteSet(Requests) /\ AskedFor \in [Requests -> Int]
             /\ (\A r \in Requests : AskedFor[r] >= 0)
          /\ DayCap \in Nat
      BY <2>1, AgentPaymentsAssumption DEF AskedFor, AgentPaymentsTypeOK
    <3>2. Confirmations \in SUBSET Charged /\ Charged \in SUBSET Requests
          /\ Confirmations \in SUBSET Requests
      BY DEF Charged
    <3> HIDE DEF Confirmations
    <3>3. SumOver(AskedFor, Confirmations) <= SumOver(AskedFor, Charged)
      BY ONLY <3>1, <3>2, SumOverMonotone
    <3>4. SumOver(AskedFor, Confirmations) \in Int /\ SumOver(AskedFor, Charged) \in Int
      BY <3>1, <3>2, SumOverPart
    <3>5. SumOver(AskedFor, Confirmations) <= DayCap
      BY <2>1, <3>1, <3>3, <3>4 DEF CapFits
    <3> QED BY <3>5 DEF WithinDailyCap, Confirmations
  <2> QED BY <2>1, <2>2, <2>3, <2>4, <2>5 DEF AgentPaymentsInv
<1> QED BY <1>1, <1>2, AgentPaymentsInductive, PTL DEF AgentPaymentsSpec

----------------------------------------------------------------------------
(* x402.                                                                   *)

\* Requests against signed transfers, each request a handler.
X402Spec == InitX402 /\ [][NextX402]_x402Vars

\* The request that has won the row of a transfer and not yet written its end.
Winner(c, t) == x402Call[c].op \in {"claimed", "sent"} /\ x402Call[c].id = t

X402IInv ==
  /\ X402TypeOK
  /\ \A t \in Signed :
       /\ (\E c \in Handlers : Winner(c, t)) => settling[t] = "settling"
       /\ delivered[t] = IF settling[t] = "settled" THEN 1 ELSE 0
       /\ settling[t] = "settled" => ledger[t] = "confirmed"
  /\ \A c, d \in Handlers, t \in Signed : Winner(c, t) /\ Winner(d, t) => c = d
  /\ \A c \in Handlers :
       /\ x402Call[c].op = "sent" => ledger[x402Call[c].id] = "confirmed"
       /\ x402Call[c].op \in {"answered", "claimed", "sent"}
            => x402Call[c].id \in served \cup Facilitated
  /\ ChargedIsServed

\* Verification, the claim of a transfer, its settlement and the delivery keep
\* the row and its winner in agreement.
LEMMA X402Inductive == X402IInv /\ [NextX402]_x402Vars => X402IInv'
<1> SUFFICES ASSUME X402IInv, [NextX402]_x402Vars PROVE X402IInv'
  OBVIOUS
<1> USE X402Assumption DEF X402IInv, X402TypeOK, ChargedIsServed, Winner, Waiting, Advance,
    Answer
<1>1. ASSUME NEW c \in Handlers, NEW t \in Signed, Verify(c, t) PROVE X402IInv'
  BY <1>1 DEF Verify
<1>2. ASSUME NEW c \in Handlers, ServiceAnswers(c) PROVE X402IInv'
  BY <1>2 DEF ServiceAnswers
<1>3. ASSUME NEW c \in Handlers, ServiceFails(c) PROVE X402IInv'
  BY <1>3 DEF ServiceFails
<1>4. ASSUME NEW c \in Handlers, ClaimTransfer(c) PROVE X402IInv'
  BY <1>4 DEF ClaimTransfer, Open
<1>5. ASSUME NEW c \in Handlers, ClaimTransferLost(c) PROVE X402IInv'
  BY <1>5 DEF ClaimTransferLost
<1>6. ASSUME NEW c \in Handlers, Confirmed(c) PROVE X402IInv'
  BY <1>6 DEF Confirmed
<1>7. ASSUME NEW c \in Handlers, NotConfirmed(c) PROVE X402IInv'
  BY <1>7 DEF NotConfirmed
<1>8. ASSUME NEW c \in Handlers, Refused(c) PROVE X402IInv'
  BY <1>8 DEF Refused
<1>9. ASSUME NEW c \in Handlers, RecordSettled(c) PROVE X402IInv'
  BY <1>9 DEF RecordSettled
<1>10. ASSUME NEW c \in Handlers, RecordSettledFails(c) PROVE X402IInv'
  BY <1>10 DEF RecordSettledFails
<1>11. ASSUME NEW t \in Signed, ConfirmedLate(t) PROVE X402IInv'
  BY <1>11 DEF ConfirmedLate
<1>12. CASE X402Restart
  BY <1>12 DEF X402Restart
<1>13. CASE UNCHANGED x402Vars
  BY <1>13 DEF x402Vars
<1> QED BY <1>1, <1>2, <1>3, <1>4, <1>5, <1>6, <1>7, <1>8, <1>9, <1>10, <1>11, <1>12,
    <1>13 DEF NextX402

\* One signed transfer buys at most one delivery, and only once it is confirmed;
\* a transfer the gateway broadcasts itself is made only for a service that
\* answered.
THEOREM OneDelivery == X402Spec => []X402Inv
<1>1. InitX402 => X402IInv
  BY DEF InitX402, X402IInv, X402TypeOK, ChargedIsServed, Winner, Waiting
<1>2. X402IInv => X402Inv
  BY DEF X402IInv, X402Inv, DeliveredOnce
<1> QED BY <1>1, <1>2, X402Inductive, PTL DEF X402Spec

----------------------------------------------------------------------------
(* Actions of the assistant.                                               *)

\* A sale moves money between three rows and neither makes nor loses any.
LEMMA SaleRows ==
  ASSUME wallet \in [Users -> Row], NEW a \in Users, NEW b \in Users,
         NEW price \in Int, NEW taken \in Int, NEW surcharge \in Int
  PROVE  /\ Sell(a, b, price, taken, surcharge) \in [Users -> Row]
         /\ Total(Sell(a, b, price, taken, surcharge)) = Total(wallet)
<1>1. /\ Platform \in Users /\ IsFiniteSet(Users) /\ Total(wallet) \in Int
      /\ price + surcharge \in Int /\ price - taken \in Int /\ taken + surcharge \in Int
  BY SharedAssumption, IncrementTotals
<1>2. /\ Sell(a, b, price, taken, surcharge) \in [Users -> Row]
      /\ Total(Sell(a, b, price, taken, surcharge))
           = Total(wallet) - (price + surcharge) + (price - taken) + (taken + surcharge)
  BY <1>1, PaymentTotals DEF Sell
<1> QED BY <1>1, <1>2

AiActionsSpec == InitWallets /\ InitAiActions /\ [][NextAiActions]_<<wallet, aiVars>>

\* The confirmation whose claim on an action stands.
Executing(c, a) ==
  aiCall[c].op \in {"run", "claimed", "sent", "ran", "refused"} /\ aiCall[c].id = a

\* The confirmation that pays an intent.
PayingFor(c, i) ==
  /\ aiCall[c].op \in {"claimed", "sent"}
  /\ aiCall[c].id \in DOMAIN IntentOf /\ IntentOf[aiCall[c].id] = i

\* An action that pays an intent which is paid.
ForPaid(a) == a \in DOMAIN IntentOf /\ aiIntent[IntentOf[a]] = "succeeded"

\* Of a recorded action that is being executed: what was done for it so far.
DoneSoFar(c, a) ==
  /\ aiCall[c].op \in {"run", "claimed", "refused"} => done[a] = 0
  /\ aiCall[c].op = "sent" => done[a] = 1
  /\ aiCall[c].op = "ran" => done[a] = 1 \/ (done[a] = 0 /\ ForPaid(a))

ActionsIInv ==
  /\ \A c, d \in Calls, a \in Actions : Executing(c, a) /\ Executing(d, a) => c = d
  /\ \A c \in Calls, a \in Actions :
       Executing(c, a) =>
         /\ action[a] \in {"processing", "expired"}
         /\ a \notin unrecorded => DoneSoFar(c, a)
  /\ \A a \in Actions \ unrecorded : action[a] \in {"none", "pending"} => done[a] = 0
  /\ \A a \in Actions : a \notin unrecorded \/ a \notin Repeatable => done[a] <= 1

IntentsIInv ==
  /\ \A c \in Calls, a \in Actions :
       aiCall[c].op \in {"claimed", "sent"} /\ aiCall[c].id = a => a \in DOMAIN IntentOf
  /\ \A c, d \in Calls, i \in AiIntents : PayingFor(c, i) /\ PayingFor(d, i) => c = d
  /\ \A c \in Calls, i \in AiIntents :
       PayingFor(c, i) =>
         /\ aiIntent[i] = "processing" /\ i \notin inApp
         /\ aiPaid[i] = IF aiCall[c].op = "sent" THEN 1 ELSE 0
  /\ \A i \in inApp : aiIntent[i] = "processing" /\ aiPaid[i] = 0
  /\ \A a \in DOMAIN IntentOf : done[a] > 0 => aiPaid[IntentOf[a]] = 1

AiActionsIInv ==
  AiActionsTypeOK /\ ActionsIInv /\ IntentsIInv /\ IntentTakenOnce /\ ActionShownIsTrue

\* Steps of proposals, expiry and permissions leave intents and executions alone.
LEMMA AiProposals ==
  ASSUME AiActionsIInv,
         \/ \E c \in Calls :
              \/ \E a \in Actions : BeginPropose(c, a) \/ BeginConfirm(c, a) \/ BeginExpire(c, a)
              \/ CommitPropose(c) \/ CommitExpire(c) \/ ClaimActionLost(c)
         \/ \E a \in Actions : ActionLapses(a) \/ RejectAction(a)
         \/ ExpireActions \/ RevokePermissions \/ UpdatePermissions \/ AiRestart
  PROVE  AiActionsIInv'
<1> USE DEF AiActionsIInv, ActionsIInv, IntentsIInv, AiActionsTypeOK, Executing, DoneSoFar,
    PayingFor, ForPaid, IntentTakenOnce, ActionShownIsTrue, AiStart, AiStep, AiEnd, SetAction,
    Idle, actionVars, intentVars
<1>1. ASSUME NEW c \in Calls, NEW a \in Actions,
             BeginPropose(c, a) \/ BeginConfirm(c, a) \/ BeginExpire(c, a)
      PROVE  AiActionsIInv'
  <2>1. PICK h : h \in [op : {"propose", "checked", "expire"}, id : {a}]
             /\ aiCall' = [aiCall EXCEPT ![c] = h]
    BY <1>1 DEF BeginPropose, BeginConfirm, BeginExpire
  <2>2. UNCHANGED <<wallet, actionVars, intentVars>>
    BY <1>1 DEF BeginPropose, BeginConfirm, BeginExpire
  <2> QED BY <2>1, <2>2
<1>2. ASSUME NEW c \in Calls, CommitPropose(c) PROVE AiActionsIInv'
  BY <1>2 DEF CommitPropose
<1>3. ASSUME NEW c \in Calls, CommitExpire(c) PROVE AiActionsIInv'
  BY <1>3 DEF CommitExpire
<1>4. ASSUME NEW c \in Calls, ClaimActionLost(c) PROVE AiActionsIInv'
  BY <1>4 DEF ClaimActionLost
<1>5. ASSUME NEW a \in Actions, ActionLapses(a) \/ RejectAction(a) PROVE AiActionsIInv'
  BY <1>5 DEF ActionLapses, RejectAction
<1>6. CASE ExpireActions
  BY <1>6 DEF ExpireActions
<1>7. CASE RevokePermissions
  <2> DEFINE after(a) == IF action[a] = "pending" THEN "cancelled" ELSE action[a]
  <2>1. action' = [a \in Actions |-> after(a)]
    BY <1>7 DEF RevokePermissions
  <2>2. \A a \in Actions :
          after(a) = action[a] \/ (action[a] = "pending" /\ after(a) = "cancelled")
    OBVIOUS
  <2> HIDE DEF after
  <2>3. /\ \A a \in Actions :
             \/ action'[a] = action[a]
             \/ action[a] = "pending" /\ action'[a] = "cancelled"
        /\ action' \in [Actions -> {"none", "pending", "processing", "executed", "failed",
                                    "rejected", "expired", "cancelled"}]
    BY <2>1, <2>2
  <2>4. enabled' \in BOOLEAN
        /\ UNCHANGED <<wallet, lapsed, done, unrecorded, aiIntent, aiPaid, inApp, aiCall>>
    BY <1>7 DEF RevokePermissions
  <2> QED BY <2>3, <2>4
<1>8. CASE UpdatePermissions
  BY <1>8 DEF UpdatePermissions
<1>9. CASE AiRestart
  BY <1>9 DEF AiRestart, Idles
<1> QED BY <1>1, <1>2, <1>3, <1>4, <1>5, <1>6, <1>7, <1>8, <1>9

\* The claim of a proposal and what ends an execution that paid no intent itself.
LEMMA AiExecutions ==
  ASSUME AiActionsIInv, NEW c \in Calls,
         \/ ClaimAction(c) \/ RunAction(c) \/ RunFails(c) \/ RoomRefused(c)
         \/ RecordAction(c) \/ RecordActionFails(c) \/ IntentPaid(c)
  PROVE  AiActionsIInv'
<1> USE DEF AiActionsIInv, ActionsIInv, IntentsIInv, AiActionsTypeOK, Executing, DoneSoFar,
    PayingFor, ForPaid, IntentTakenOnce, ActionShownIsTrue, AiStep, AiEnd, SetAction,
    Idle, actionVars, intentVars
<1>1. CASE ClaimAction(c)
  BY <1>1 DEF ClaimAction, ClaimableAction
<1>2. CASE RunAction(c)
  <2>1. PICK a \in Actions : a = aiCall[c].id /\ a \notin DOMAIN IntentOf
    BY <1>2 DEF RunAction
  <2>2. Cost[a] \in Int /\ Master \in Users /\ Others \in Users
    BY AiActionsAssumption
  <2>3. wallet' \in [Users -> Row]
    <3>1. Sell(Master, Others, Cost[a], 0, 0) \in [Users -> Row]
      BY <2>2, SaleRows
    <3>2. wallet' = wallet \/ wallet' = Sell(Master, Others, Cost[a], 0, 0)
      BY <1>2, <2>1 DEF RunAction
    <3> QED BY <3>1, <3>2
  <2>4. done' = done \/ done' = [done EXCEPT ![a] = @ + 1]
    BY <1>2, <2>1 DEF RunAction
  <2>5. a \in Repeatable \cap unrecorded \/ (done'[a] = 1 /\ done[a] \in {0, 1})
    BY <1>2, <2>1 DEF RunAction, BookedBefore
  <2>6. /\ aiCall[c].op = "run" /\ aiCall' = [aiCall EXCEPT ![c].op = "ran"]
        /\ UNCHANGED <<action, lapsed, enabled, unrecorded, aiIntent, aiPaid, inApp>>
    BY <1>2 DEF RunAction
  <2>7. AiActionsTypeOK'
    <3>1. done' \in [Actions -> Nat]
      BY <2>4
    <3>2. aiCall' \in [Calls -> {Idle} \cup
                   [op : {"propose", "checked", "expire", "run", "claimed", "sent", "ran",
                          "refused"}, id : Actions]]
      BY <2>6
    <3> QED BY <2>3, <2>6, <3>1, <3>2
  <2>8. ActionsIInv'
    BY <2>1, <2>4, <2>5, <2>6
  <2>9. IntentsIInv' /\ IntentTakenOnce'
    <3>1. \A x \in DOMAIN IntentOf : done'[x] = done[x]
      BY <2>1, <2>4, AiActionsAssumption
    <3>2. \A d \in Calls :
            aiCall'[d].op \in {"claimed", "sent"} => d # c /\ aiCall'[d] = aiCall[d]
      BY <2>6
    <3> QED BY <2>6, <3>1, <3>2
  <2>10. ActionShownIsTrue'
    BY <2>1, <2>4, <2>5, <2>6
  <2> QED BY <2>7, <2>8, <2>9, <2>10
<1>3. CASE RunFails(c)
  BY <1>3 DEF RunFails
<1>4. CASE RoomRefused(c)
  BY <1>4 DEF RoomRefused
<1>5. CASE RecordAction(c)
  BY <1>5 DEF RecordAction
<1>6. CASE RecordActionFails(c)
  BY <1>6 DEF RecordActionFails
<1>7. CASE IntentPaid(c)
  BY <1>7 DEF IntentPaid
<1> QED BY <1>1, <1>2, <1>3, <1>4, <1>5, <1>6, <1>7

\* payIntent, for an action or in the app: one payer holds an intent until it is
\* paid or given up.
LEMMA AiIntentSteps ==
  ASSUME AiActionsIInv,
         \/ \E c \in Calls :
              \/ ClaimAiIntent(c) \/ SendAiIntent(c) \/ SendAiIntentFails(c)
              \/ RecordAiIntent(c) \/ RecordAiIntentFails(c)
         \/ \E i \in AiIntents : BeginInApp(i) \/ PayInApp(i) \/ PayInAppFails(i) \/ IntentGone(i)
  PROVE  AiActionsIInv'
<1> USE DEF AiActionsIInv, ActionsIInv, IntentsIInv, AiActionsTypeOK, Executing, DoneSoFar,
    PayingFor, ForPaid, IntentTakenOnce, ActionShownIsTrue, AiStep, SetIntent, Claimable,
    Idle, actionVars, intentVars
<1>0. /\ IntentOf \in [DOMAIN IntentOf -> AiIntents] /\ DOMAIN IntentOf \subseteq Actions
      /\ Master \in Users /\ Others \in Users
      /\ \A i \in AiIntents : Due[i] \in Int
  BY AiActionsAssumption
<1>1. ASSUME NEW i \in AiIntents, TakeForIntent(i)
      PROVE  wallet' \in [Users -> Row] /\ aiPaid' = [aiPaid EXCEPT ![i] = @ + 1]
  <2>1. Sell(Master, Others, Due[i], 0, 0) \in [Users -> Row]
    <3>1. wallet \in [Users -> Row] /\ Due[i] \in Int /\ 0 \in Int
      BY <1>0
    <3> QED BY <1>0, <3>1, SaleRows
  <2> QED BY <1>1, <2>1 DEF TakeForIntent
<1>2. ASSUME NEW c \in Calls, ClaimAiIntent(c) PROVE AiActionsIInv'
  BY <1>0, <1>2 DEF ClaimAiIntent
<1>3. ASSUME NEW c \in Calls, SendAiIntent(c) PROVE AiActionsIInv'
  BY <1>0, <1>1, <1>3 DEF SendAiIntent
<1>4. ASSUME NEW c \in Calls, SendAiIntentFails(c) PROVE AiActionsIInv'
  BY <1>0, <1>4 DEF SendAiIntentFails
<1>5. ASSUME NEW c \in Calls, RecordAiIntent(c) PROVE AiActionsIInv'
  BY <1>0, <1>5 DEF RecordAiIntent
<1>6. ASSUME NEW c \in Calls, RecordAiIntentFails(c) PROVE AiActionsIInv'
  BY <1>0, <1>6 DEF RecordAiIntentFails
<1>7. ASSUME NEW i \in AiIntents, BeginInApp(i) PROVE AiActionsIInv'
  BY <1>0, <1>7 DEF BeginInApp
<1>8. ASSUME NEW i \in AiIntents, PayInApp(i) PROVE AiActionsIInv'
  BY <1>0, <1>1, <1>8 DEF PayInApp
<1>9. ASSUME NEW i \in AiIntents, PayInAppFails(i) PROVE AiActionsIInv'
  BY <1>0, <1>9 DEF PayInAppFails
<1>10. ASSUME NEW i \in AiIntents, IntentGone(i) PROVE AiActionsIInv'
  BY <1>0, <1>10 DEF IntentGone
<1> QED BY <1>2, <1>3, <1>4, <1>5, <1>6, <1>7, <1>8, <1>9, <1>10

\* Confirmations, expiry, the action and the payment of its intent keep at most one
\* execution of an action whose record was not lost, and one payment of an intent.
LEMMA AiActionsInductive == AiActionsIInv /\ [NextAiActions]_<<wallet, aiVars>> => AiActionsIInv'
<1> SUFFICES ASSUME AiActionsIInv, [NextAiActions]_<<wallet, aiVars>> PROVE AiActionsIInv'
  OBVIOUS
<1>1. CASE UNCHANGED <<wallet, aiVars>>
  BY <1>1 DEF aiVars, actionVars, intentVars, AiActionsIInv, ActionsIInv, IntentsIInv,
     AiActionsTypeOK, Executing, DoneSoFar, PayingFor, ForPaid, IntentTakenOnce,
     ActionShownIsTrue
<1> QED BY <1>1, AiProposals, AiExecutions, AiIntentSteps DEF NextAiActions

\* A pending action of the assistant runs once however often it is confirmed, an
\* intent is paid once whichever action or payment in the app comes first, and what
\* an action reports is true, unless its record was lost between the action and the
\* row.
THEOREM ActionsRunOnce == AiActionsSpec => []AiActionsInv
<1>1. InitWallets /\ InitAiActions => AiActionsIInv
  BY SharedAssumption, AiActionsAssumption DEF InitWallets, InitAiActions, Idles, Idle,
       AiActionsIInv, ActionsIInv, IntentsIInv, AiActionsTypeOK, Executing, PayingFor,
       IntentTakenOnce, ActionShownIsTrue, Row
<1>2. AiActionsIInv => AiActionsInv
  BY DEF AiActionsIInv, ActionsIInv, AiActionsInv, ActionExecutedOnce, AiActionsTypeOK
<1> QED BY <1>1, <1>2, AiActionsInductive, PTL DEF AiActionsSpec

----------------------------------------------------------------------------
(* Transfers on the chain.                                                 *)

\* The calls of process and what the chain does to the transfers they built.
ChainTransfersSpec == InitChainTransfers /\ [][NextChainTransfers]_chainVars

\* Calls of process, by their place.
SenderStates ==
  [op : {"claim", "ask", "build"}, id : Legs, row : [status : SENDABLE, tx : 0 .. Attempts]]
  \cup [op : {"send"}, id : Legs, tx : 1 .. Attempts]
  \cup [op : {"written"}, id : Legs, status : {"sent", "failed"}]

\* The call that has a row in hand.
InHand(s, l) == sending[s].op \in {"ask", "build", "send", "written"} /\ sending[s].id = l

\* All transfers of a row but the one it names are over.
OthersOver(l) ==
  \A a \in 1 .. Attempts : a # outbox[l].tx => onChain[l][a] \in {"none", "expired"}

\* What a call knows of the row it has in hand.
HandKnows(s) ==
  LET call == sending[s]
      current == outbox[call.id].tx
  IN  /\ call.op = "ask" => call.row.tx > 0
      /\ call.op \in {"ask", "build", "send", "written"} => outbox[call.id].status = "sending"
      /\ call.op \in {"ask", "build", "send", "written"} /\ call.id \notin misled =>
           /\ call.op = "ask" => call.row.tx = current
           /\ call.op = "build"
              /\ current > 0 => onChain[call.id][current] \in {"none", "expired"}
           /\ call.op = "send" => call.tx = current
           /\ call.op = "written" /\ call.status = "sent" =>
                current > 0 /\ onChain[call.id][current] = "confirmed"

ChainTransfersIInv ==
  /\ ChainTransfersTypeOK
  /\ sending \in [Senders -> {Asleep} \cup SenderStates]
  /\ \A s, x \in Senders, l \in Legs : InHand(s, l) /\ InHand(x, l) => s = x
  /\ \A s \in Senders : HandKnows(s)
  /\ \A l \in Legs \ misled :
       /\ OthersOver(l)
       /\ outbox[l].status = "sent" => outbox[l].tx > 0 /\ onChain[l][outbox[l].tx] = "confirmed"

\* Claim, question to the chain, build, send and write keep at most one live
\* transfer of a row.
LEMMA ChainTransfersInductive ==
  ChainTransfersIInv /\ [NextChainTransfers]_chainVars => ChainTransfersIInv'
<1> SUFFICES ASSUME ChainTransfersIInv, [NextChainTransfers]_chainVars PROVE ChainTransfersIInv'
  OBVIOUS
<1> USE ChainTransfersAssumption
    DEF ChainTransfersIInv, ChainTransfersTypeOK, SenderStates, InHand, HandKnows, OthersOver,
        Asleep, SENDABLE, SenderGoes, Write
<1>h. \A s \in Senders :
        /\ sending[s].op # "idle" => sending[s].id \in Legs
        /\ sending[s].op = "ask" =>
             sending[s] \in [op : {"ask"}, id : Legs, row : [status : SENDABLE, tx : 0 .. Attempts]]
        /\ sending[s].op = "send" => sending[s].tx \in 1 .. Attempts
        /\ sending[s].op = "written" => sending[s].status \in {"sent", "failed"}
  OBVIOUS
\* A call that has a row in hand changes, with the row and its transfers.
<1>r. ASSUME NEW s \in Senders, NEW l \in Legs, ChainTransfersTypeOK',
             sending' \in [Senders -> {Asleep} \cup SenderStates],
             \A x \in Senders \ {s} : sending'[x] = sending[x] /\ ~InHand(x, l),
             \A k \in Legs \ {l} : /\ outbox'[k] = outbox[k] /\ onChain'[k] = onChain[k]
                                    /\ (k \in misled' <=> k \in misled),
             HandKnows(s)', \A k \in Legs : InHand(s, k)' => k = l,
             l \notin misled' =>
               OthersOver(l)'
               /\ (outbox'[l].status = "sent" => outbox'[l].tx > 0 /\ onChain'[l][outbox'[l].tx] = "confirmed")
      PROVE  ChainTransfersIInv'
  <2>1. \A x \in Senders : HandKnows(x)'
    <3>1. ASSUME NEW x \in Senders, x # s PROVE HandKnows(x)'
      <4>1. sending'[x] = sending[x] /\ ~InHand(x, l)
        BY <1>r, <3>1
      <4>2. CASE sending[x].op \in {"ask", "build", "send", "written"}
        <5>1. PICK k \in Legs : k = sending[x].id
          BY <4>2
        <5>2. k # l
          BY <4>1, <4>2, <5>1
        <5> QED BY <1>r, <4>1, <4>2, <5>1, <5>2
      <4>3. CASE sending[x].op \notin {"ask", "build", "send", "written"}
        BY <4>1, <4>3
      <4> QED BY <4>2, <4>3
    <3> QED BY <1>r, <3>1
  <2>2. \A y, x \in Senders, k \in Legs : InHand(y, k)' /\ InHand(x, k)' => y = x
    <3> SUFFICES ASSUME NEW y \in Senders, NEW x \in Senders, NEW k \in Legs, InHand(y, k)',
                        InHand(x, k)'
                 PROVE y = x
      OBVIOUS
    <3>1. CASE y = s \/ x = s
      <4>1. k = l
        BY <1>r, <3>1
      <4> HIDE DEF InHand
      <4>2. \A z \in Senders \ {s} : ~InHand(z, l)'
        BY <1>r DEF InHand
      <4> QED BY <4>1, <4>2
    <3>2. CASE y # s /\ x # s
      <4>1. sending'[y] = sending[y] /\ sending'[x] = sending[x]
        BY <1>r, <3>2
      <4> QED BY <4>1
    <3> QED BY <3>1, <3>2
  <2>3. \A k \in Legs \ misled' :
          OthersOver(k)'
          /\ (outbox'[k].status = "sent" => outbox'[k].tx > 0 /\ onChain'[k][outbox'[k].tx] = "confirmed")
    BY <1>r
  <2> QED BY <1>r, <2>1, <2>2, <2>3
\* The call that has a row in hand writes its status and is done.
<1>w. ASSUME NEW s \in Senders, NEW l \in Legs, InHand(s, l),
             NEW status \in {"sent", "failed", "blocked"},
             sending' = [sending EXCEPT ![s] = Asleep],
             outbox' = [outbox EXCEPT ![l] = [outbox[l] EXCEPT !.status = status]],
             UNCHANGED <<enqueued, onChain, misled>>,
             l \notin misled /\ status = "sent" =>
               outbox[l].tx > 0 /\ onChain[l][outbox[l].tx] = "confirmed"
      PROVE  ChainTransfersIInv'
  <2>1. ChainTransfersTypeOK' /\ sending' \in [Senders -> {Asleep} \cup SenderStates]
        /\ sending'[s] = Asleep
    <3>1. sending' \in [Senders -> {Asleep} \cup SenderStates] /\ sending'[s] = Asleep
      BY <1>w
    <3>2. outbox' \in [Legs -> [status : {"none", "sending", "sent"} \cup SENDABLE, tx : 0 .. Attempts]]
      BY <1>w
    <3> QED BY <1>w, <3>1, <3>2
  <2>2. /\ \A x \in Senders \ {s} : sending'[x] = sending[x] /\ ~InHand(x, l)
        /\ \A k \in Legs \ {l} : /\ outbox'[k] = outbox[k] /\ onChain'[k] = onChain[k]
                                   /\ (k \in misled' <=> k \in misled)
    BY <1>w
  <2>3. outbox'[l].status = status /\ outbox'[l].tx = outbox[l].tx
    BY <1>w
  <2>4. l \notin misled' => OthersOver(l)'
    BY <1>w, <2>3
  <2>5. HandKnows(s)' /\ \A k \in Legs : InHand(s, k)' => k = l
    BY <2>1
  <2> HIDE DEF ChainTransfersIInv, ChainTransfersTypeOK, SenderStates, InHand, HandKnows,
      OthersOver
  <2> QED BY <1>r, <1>w, <2>1, <2>2, <2>3, <2>4, <2>5
<1>1. ASSUME NEW l \in Legs, Enqueue(l) PROVE ChainTransfersIInv'
  <2>1. UNCHANGED <<onChain, misled, sending>> /\ enqueued' \subseteq Legs
    BY <1>1 DEF Enqueue
  <2>2. /\ outbox' \in [Legs -> [status : {"none", "sending", "sent"} \cup SENDABLE, tx : 0 .. Attempts]]
        /\ \A k \in Legs : /\ outbox'[k].tx = outbox[k].tx
                            /\ \/ outbox'[k].status = outbox[k].status
                               \/ outbox[k].status = "none" /\ outbox'[k].status = "pending"
    BY <1>1 DEF Enqueue, EnqueueLeg
  <2>3. \A s \in Senders : HandKnows(s)'
    BY <2>1, <2>2
  <2>4. \A k \in Legs \ misled' :
          OthersOver(k)'
          /\ (outbox'[k].status = "sent" => outbox'[k].tx > 0 /\ onChain'[k][outbox'[k].tx] = "confirmed")
    <3>1. ASSUME NEW k \in Legs \ misled PROVE OthersOver(k)'
      BY <2>1, <2>2
    <3>2. ASSUME NEW k \in Legs \ misled, outbox'[k].status = "sent"
          PROVE  outbox'[k].tx > 0 /\ onChain'[k][outbox'[k].tx] = "confirmed"
      <4>1. outbox[k].status = "sent" /\ outbox'[k].tx = outbox[k].tx
        BY <2>2, <3>2
      <4> QED BY <2>1, <4>1
    <3> QED BY <2>1, <3>1, <3>2
  <2> QED BY <2>1, <2>2, <2>3, <2>4
<1>2. ASSUME NEW l \in Legs, NEW a \in 1 .. Attempts, ChainDecides(l, a) PROVE ChainTransfersIInv'
  BY <1>2 DEF ChainDecides
<1>3. ASSUME NEW s \in Senders, NEW l \in Legs, ReadRow(s, l) PROVE ChainTransfersIInv'
  BY <1>3 DEF ReadRow
<1>4. ASSUME NEW s \in Senders, ClaimRow(s) PROVE ChainTransfersIInv'
  <2>1. PICK call : call = sending[s]
    OBVIOUS
  <2>2. /\ call \in [op : {"claim"}, id : Legs, row : [status : SENDABLE, tx : 0 .. Attempts]]
        /\ outbox[call.id].status = call.row.status
    BY <1>4, <2>1 DEF ClaimRow, ClaimableRow
  <2>3. PICK l \in Legs : l = call.id
    BY <2>2
  <2>4. PICK op \in {"ask", "build"} : op = IF call.row.tx > 0 THEN "ask" ELSE "build"
    OBVIOUS
  <2>5. PICK h : h = [call EXCEPT !.op = op]
    OBVIOUS
  <2>6. h \in SenderStates /\ h.op = op /\ h.id = l /\ h.row = call.row
    BY <2>2, <2>3, <2>5
  <2>7. /\ sending' = [sending EXCEPT ![s] = h]
        /\ outbox' = [outbox EXCEPT ![l] = [outbox[l] EXCEPT !.status = "sending"]]
        /\ misled' = IF outbox[l].tx # call.row.tx THEN misled \cup {l} ELSE misled
        /\ UNCHANGED <<enqueued, onChain>>
    BY <1>4, <2>1, <2>3, <2>4, <2>5 DEF ClaimRow
  <2>8. \A x \in Senders : ~InHand(x, l)
    BY <2>2, <2>3
  <2>9. /\ ChainTransfersTypeOK' /\ sending' \in [Senders -> {Asleep} \cup SenderStates]
    BY <2>6, <2>7
  <2>10. /\ \A x \in Senders \ {s} : sending'[x] = sending[x] /\ ~InHand(x, l)
         /\ \A k \in Legs \ {l} : /\ outbox'[k] = outbox[k] /\ onChain'[k] = onChain[k]
                                    /\ (k \in misled' <=> k \in misled)
    BY <2>7, <2>8
  <2>11. HandKnows(s)'
    BY <2>2, <2>3, <2>4, <2>6, <2>7
  <2>12. \A k \in Legs : InHand(s, k)' => k = l
    BY <2>6, <2>7
  <2>13. l \notin misled' => OthersOver(l)' /\ outbox'[l].status # "sent"
    BY <2>7
  <2> HIDE DEF ChainTransfersIInv, ChainTransfersTypeOK, SenderStates, InHand, HandKnows,
      OthersOver
  <2> QED BY <1>r, <2>9, <2>10, <2>11, <2>12, <2>13
<1>5. ASSUME NEW s \in Senders, ClaimRowLost(s) PROVE ChainTransfersIInv'
  BY <1>5 DEF ClaimRowLost
<1>6. ASSUME NEW s \in Senders, FoundConfirmed(s) PROVE ChainTransfersIInv'
  <2>a. sending[s].op = "ask"
    BY <1>6 DEF FoundConfirmed
  <2>1. PICK l \in Legs : l = sending[s].id /\ InHand(s, l)
    BY <1>h, <2>a
  <2>2. /\ sending' = [sending EXCEPT ![s] = Asleep]
        /\ outbox' = [outbox EXCEPT ![l] = [outbox[l] EXCEPT !.status = "sent"]]
        /\ UNCHANGED <<enqueued, onChain, misled>>
        /\ sending[s].op = "ask" /\ onChain[l][sending[s].row.tx] = "confirmed"
    BY <1>6, <2>1 DEF FoundConfirmed
  <2>3. HandKnows(s)
    OBVIOUS
  <2>4. l \notin misled => outbox[l].tx > 0 /\ onChain[l][outbox[l].tx] = "confirmed"
    BY <2>1, <2>2, <2>3
  <2> HIDE DEF ChainTransfersIInv, ChainTransfersTypeOK, SenderStates, InHand, HandKnows,
      OthersOver
  <2> QED BY <1>w, <2>1, <2>2, <2>4
<1>7. ASSUME NEW s \in Senders, FoundUndecided(s) PROVE ChainTransfersIInv'
  <2>a. sending[s].op = "ask"
    BY <1>7 DEF FoundUndecided
  <2>1. PICK l \in Legs : l = sending[s].id /\ InHand(s, l)
    BY <1>h, <2>a
  <2>2. /\ sending' = [sending EXCEPT ![s] = Asleep]
        /\ outbox' = [outbox EXCEPT ![l] = [outbox[l] EXCEPT !.status = "failed"]]
        /\ UNCHANGED <<enqueued, onChain, misled>>
    BY <1>7, <2>1 DEF FoundUndecided
  <2> HIDE DEF ChainTransfersIInv, ChainTransfersTypeOK, SenderStates, InHand, HandKnows,
      OthersOver
  <2> QED BY <1>w, <2>1, <2>2
<1>8. ASSUME NEW s \in Senders, FoundExpired(s) PROVE ChainTransfersIInv'
  <2>a. sending[s].op = "ask"
    BY <1>8 DEF FoundExpired
  <2>1. PICK l \in Legs : l = sending[s].id /\ InHand(s, l)
    BY <1>h, <2>a
  <2>2. sending[s].op = "ask"
        /\ sending[s] \in [op : {"ask"}, id : Legs, row : [status : SENDABLE, tx : 0 .. Attempts]]
        /\ sending[s].row.tx \in 1 .. Attempts
    <3>1. HandKnows(s)
      OBVIOUS
    <3>2. sending[s].row.tx > 0
      BY <2>a, <3>1
    <3> QED BY <1>h, <2>a, <3>2
  <2>3. PICK h \in SenderStates :
          /\ h = [sending[s] EXCEPT !.op = "build"]
          /\ h.op = "build" /\ h.id = l /\ h.row = sending[s].row
    <3>1. PICK call : call = sending[s]
      OBVIOUS
    <3>2. [call EXCEPT !.op = "build"] \in SenderStates
          /\ [call EXCEPT !.op = "build"].op = "build" /\ [call EXCEPT !.op = "build"].id = l
          /\ [call EXCEPT !.op = "build"].row = call.row
      BY <2>1, <2>2, <3>1
    <3> QED BY <3>1, <3>2
  <2>4. /\ sending' = [sending EXCEPT ![s] = h]
        /\ onChain[l][h.row.tx] \in {"none", "expired"}
        /\ UNCHANGED <<enqueued, outbox, onChain, misled>>
    BY <1>8, <2>1, <2>2, <2>3 DEF FoundExpired, MayStillConfirm
  <2>5. /\ ChainTransfersTypeOK' /\ sending' \in [Senders -> {Asleep} \cup SenderStates]
        /\ sending'[s] = h
    BY <2>3, <2>4
  <2>6. /\ \A x \in Senders \ {s} : sending'[x] = sending[x] /\ ~InHand(x, l)
        /\ \A k \in Legs \ {l} : /\ outbox'[k] = outbox[k] /\ onChain'[k] = onChain[k]
                                   /\ (k \in misled' <=> k \in misled)
    BY <2>1, <2>4
  <2>7. HandKnows(s)
    OBVIOUS
  <2>8. HandKnows(s)' /\ \A k \in Legs : InHand(s, k)' => k = l
    BY <2>1, <2>2, <2>3, <2>4, <2>5, <2>7
  <2>9. l \notin misled' =>
          OthersOver(l)'
          /\ (outbox'[l].status = "sent" => outbox'[l].tx > 0 /\ onChain'[l][outbox'[l].tx] = "confirmed")
    BY <2>4
  <2> HIDE DEF ChainTransfersIInv, ChainTransfersTypeOK, SenderStates, InHand, HandKnows,
      OthersOver
  <2> QED BY <1>r, <2>5, <2>6, <2>8, <2>9
<1>9. ASSUME NEW s \in Senders, FoundUnknown(s) PROVE ChainTransfersIInv'
  BY <1>9 DEF FoundUnknown
<1>10. ASSUME NEW s \in Senders, NEW status \in {"failed", "blocked"}, BuildRefused(s, status)
       PROVE  ChainTransfersIInv'
  <2>a. sending[s].op = "build"
    BY <1>10 DEF BuildRefused
  <2>1. PICK l \in Legs : l = sending[s].id /\ InHand(s, l)
    BY <1>h, <2>a
  <2>2. /\ sending' = [sending EXCEPT ![s] = Asleep]
        /\ outbox' = [outbox EXCEPT ![l] = [outbox[l] EXCEPT !.status = status]]
        /\ UNCHANGED <<enqueued, onChain, misled>>
    BY <1>10, <2>1 DEF BuildRefused
  <2> HIDE DEF ChainTransfersIInv, ChainTransfersTypeOK, SenderStates, InHand, HandKnows,
      OthersOver
  <2> QED BY <1>w, <2>1, <2>2
<1>11. ASSUME NEW s \in Senders, Prepare(s) PROVE ChainTransfersIInv'
  <2>1. PICK l \in Legs : l = sending[s].id
    BY <1>11 DEF Prepare
  <2>2. PICK a \in 1 .. Attempts : a = Cardinality(Built(l)) + 1
    <3>1. IsFiniteSet(1 .. Attempts)
      BY FS_Interval
    <3>2. Built(l) \in SUBSET (1 .. Attempts)
      BY DEF Built
    <3>3. Cardinality(Built(l)) \in Nat
      BY <3>1, <3>2, FS_Subset, FS_CardinalityType
    <3> QED BY <1>11, <2>1, <3>3 DEF Prepare
  <2>3. /\ sending[s].op = "build"
        /\ sending' = [sending EXCEPT ![s] = [op |-> "send", id |-> l, tx |-> a]]
        /\ onChain' = [onChain EXCEPT ![l] = [onChain[l] EXCEPT ![a] = "built"]]
        /\ outbox' = [outbox EXCEPT ![l] = [outbox[l] EXCEPT !.tx = a]]
        /\ UNCHANGED <<enqueued, misled>>
    BY <1>11, <2>1, <2>2 DEF Prepare, StoreTx
  <2>4. PICK h \in SenderStates : h = [op |-> "send", id |-> l, tx |-> a]
    BY ZenonT(30)
  <2>5. /\ ChainTransfersTypeOK' /\ sending' \in [Senders -> {Asleep} \cup SenderStates]
           /\ sending'[s] = h
    BY <2>3, <2>4
  <2>6. InHand(s, l)
    BY <2>1, <2>3
  <2>7. /\ \A x \in Senders \ {s} : sending'[x] = sending[x] /\ ~InHand(x, l)
        /\ \A k \in Legs \ {l} : /\ outbox'[k] = outbox[k] /\ onChain'[k] = onChain[k]
                                   /\ (k \in misled' <=> k \in misled)
    BY <2>3, <2>6
  <2>8. /\ outbox'[l].tx = a /\ outbox'[l].status = "sending" /\ onChain'[l][a] = "built"
        /\ \A b \in 1 .. Attempts : b # a => onChain'[l][b] = onChain[l][b]
    BY <2>1, <2>3
  <2>9. HandKnows(s)'
    BY <2>4, <2>5, <2>8
  <2>10. \A k \in Legs : InHand(s, k)' => k = l
    BY <2>4, <2>5
  <2>11. l \notin misled' => OthersOver(l)'
    <3>1. ASSUME l \notin misled, NEW b \in 1 .. Attempts
          PROVE onChain[l][b] \in {"none", "expired"}
      BY <2>1, <2>3, <3>1
    <3> QED BY <2>3, <2>8, <3>1
  <2> HIDE DEF ChainTransfersIInv, ChainTransfersTypeOK, SenderStates, InHand, HandKnows,
      OthersOver
  <2> QED BY <1>r, <2>5, <2>7, <2>8, <2>9, <2>10, <2>11
<1>12. ASSUME NEW s \in Senders,
              NEW arrives \in {"confirmed", "pending", "built"}, NEW status \in {"sent", "failed"},
              status = "sent" => arrives = "confirmed", SendTransfer(s, arrives, status)
       PROVE  ChainTransfersIInv'
  <2>a. sending[s].op = "send"
    BY <1>12 DEF SendTransfer
  <2>1. PICK l \in Legs : l = sending[s].id /\ InHand(s, l)
    BY <1>h, <2>a
  <2>2. PICK a \in 1 .. Attempts : a = sending[s].tx /\ sending[s].op = "send"
    BY <1>h, <2>a
  <2>3. PICK h \in SenderStates : h = [op |-> "written", id |-> l, status |-> status]
    BY <1>12
  <2>4. /\ sending' = [sending EXCEPT ![s] = h]
        /\ onChain' = [onChain EXCEPT ![l] = [onChain[l] EXCEPT ![a] = arrives]]
        /\ UNCHANGED <<enqueued, outbox, misled>>
    BY <1>12, <2>1, <2>2, <2>3 DEF SendTransfer
  <2>5. /\ ChainTransfersTypeOK' /\ sending' \in [Senders -> {Asleep} \cup SenderStates]
        /\ sending'[s] = h
    BY <2>3, <2>4
  <2>6. /\ \A x \in Senders \ {s} : sending'[x] = sending[x] /\ ~InHand(x, l)
        /\ \A k \in Legs \ {l} : /\ outbox'[k] = outbox[k] /\ onChain'[k] = onChain[k]
                                   /\ (k \in misled' <=> k \in misled)
    BY <2>1, <2>4
  <2>7. HandKnows(s)
    OBVIOUS
  <2>8. outbox[l].status = "sending" /\ (l \notin misled => a = outbox[l].tx)
    BY <2>1, <2>2, <2>7
  <2>9. /\ onChain'[l][a] = arrives
        /\ \A b \in 1 .. Attempts : b # a => onChain'[l][b] = onChain[l][b]
    BY <2>4
  <2>10. HandKnows(s)' /\ \A k \in Legs : InHand(s, k)' => k = l
    BY <1>12, <2>3, <2>4, <2>5, <2>8, <2>9
  <2>11. l \notin misled' => OthersOver(l)'
    BY <2>4, <2>8, <2>9
  <2> HIDE DEF ChainTransfersIInv, ChainTransfersTypeOK, SenderStates, InHand, HandKnows,
      OthersOver
  <2> QED BY <1>r, <2>4, <2>5, <2>6, <2>8, <2>10, <2>11
<1>13. ASSUME NEW s \in Senders, SendTooLate(s) PROVE ChainTransfersIInv'
  BY <1>13 DEF SendTooLate
<1>14. ASSUME NEW s \in Senders, WriteSent(s) PROVE ChainTransfersIInv'
  <2>a. sending[s].op = "written"
    BY <1>14 DEF WriteSent
  <2>1. PICK l \in Legs, status \in {"sent", "failed"} : l = sending[s].id
             /\ status = sending[s].status /\ InHand(s, l)
    BY <1>h, <2>a
  <2>2. /\ sending[s].op = "written" /\ sending' = [sending EXCEPT ![s] = Asleep]
        /\ outbox' = [outbox EXCEPT ![l] = [outbox[l] EXCEPT !.status = status]]
        /\ UNCHANGED <<enqueued, onChain, misled>>
    BY <1>14, <2>1 DEF WriteSent
  <2>3. HandKnows(s)
    OBVIOUS
  <2>4. l \notin misled /\ status = "sent" =>
          outbox[l].tx > 0 /\ onChain[l][outbox[l].tx] = "confirmed"
    BY <2>1, <2>2, <2>3
  <2> HIDE DEF ChainTransfersIInv, ChainTransfersTypeOK, SenderStates, InHand, HandKnows,
      OthersOver
  <2> QED BY <1>w, <2>1, <2>2, <2>4
<1>15. CASE SenderRestart
  BY <1>15 DEF SenderRestart
<1>16. CASE UNCHANGED chainVars
  BY <1>16 DEF chainVars
<1>17. ASSUME NEW s \in Senders,
              \/ SendTransfer(s, "confirmed", "sent") \/ SendTransfer(s, "pending", "failed")
              \/ SendTransfer(s, "built", "failed")
       PROVE  ChainTransfersIInv'
  BY <1>12, <1>17
<1> HIDE DEF ChainTransfersIInv, ChainTransfersTypeOK, SenderStates, InHand, HandKnows,
    OthersOver,
        Asleep, SENDABLE, SenderGoes, Write
<1> QED BY <1>17, <1>1, <1>2, <1>3, <1>4, <1>5, <1>6, <1>7, <1>8, <1>9, <1>10, <1>11, <1>12,
    <1>13, <1>14, <1>15, <1>16
        DEF NextChainTransfers

\* process sends a row's tokens at most once and reports sent what was confirmed,
\* as long as the indexer told it the truth.
THEOREM SentOnce == ChainTransfersSpec => []ChainTransfersInv
<1>1. InitChainTransfers => ChainTransfersIInv
  BY ChainTransfersAssumption DEF InitChainTransfers, ChainTransfersIInv,
       ChainTransfersTypeOK, InHand, HandKnows,
     OthersOver, Asleep, SENDABLE
<1>2. ChainTransfersIInv => ChainTransfersInv
  <2> SUFFICES ASSUME ChainTransfersIInv, NEW l \in Legs \ misled
               PROVE  /\ Cardinality(ConfirmedOf(l)) <= 1
                      /\ outbox[l].status = "sent" => ConfirmedOf(l) # {}
    BY DEF ChainTransfersIInv, ChainTransfersInv, SentIsMoved
  <2>1. ConfirmedOf(l) \in SUBSET {outbox[l].tx}
    BY DEF ChainTransfersIInv, OthersOver, ConfirmedOf
  <2>2. Cardinality(ConfirmedOf(l)) <= 1
    <3>1. IsFiniteSet({outbox[l].tx}) /\ Cardinality({outbox[l].tx}) = 1
      BY FS_Singleton
    <3>2. Cardinality(ConfirmedOf(l)) <= Cardinality({outbox[l].tx})
      BY <2>1, <3>1, FS_Subset
    <3> QED BY <3>1, <3>2
  <2>3. outbox[l].status = "sent" => outbox[l].tx \in ConfirmedOf(l)
    BY ChainTransfersAssumption DEF ChainTransfersIInv, ChainTransfersTypeOK, ConfirmedOf
  <2> QED BY <2>2, <2>3
<1> QED BY <1>1, <1>2, ChainTransfersInductive, PTL DEF ChainTransfersSpec

----------------------------------------------------------------------------
(* Deposits found on the chain.                                            *)

\* The polls, the chain and the credits, without the wallets they reach.
ChainDepositsSpec == InitChainDeposits /\ [][NextChainDeposits]_depositVars

\* Calls of provisioning, polling, storing and crediting.
ChainWork ==
  [op : {"provision"}, id : Holders] \cup [op : {"credit"}, id : Payments]
  \cup [op : {"poll"}, feed : Feeds, since : 0 .. LastRound, upTo : 0 .. LastRound, watched : SUBSET Holders]
  \cup [op : {"store"}, feed : Feeds, since : 0 .. LastRound, round : 0 .. LastRound, missed : SUBSET Payments]

\* Every payment of a feed before a round is recorded, or was skipped.
SeenUpTo(f, round, missed) ==
  \A p \in Payments \ (skipped \cup missed) :
    Feed(p) = f /\ paidIn[p] > 0 /\ paidIn[p] < round => deposited[p] # "none"

\* What a poll relies on, and what it is about to store.
PollKnows(c) ==
  LET call == chainCall[c]
  IN  /\ call.op = "poll" => /\ call.since <= head /\ call.upTo <= head
                             /\ SeenUpTo(call.feed, call.since, {})
                             /\ call.feed = "assets" => call.watched = Holders
      /\ call.op = "store" => call.round <= head /\ SeenUpTo(call.feed, call.round, call.missed)

ChainDepositsIInv ==
  /\ ChainDepositsTypeOK
  /\ chainCall \in [Calls -> {Idle} \cup ChainWork]
  /\ \A f \in Feeds : cursor[f] <= head /\ SeenUpTo(f, cursor[f], {})
  /\ \A p \in Payments : paidIn[p] <= head /\ (deposited[p] # "none" => paidIn[p] > 0)
  /\ \A c \in Calls : PollKnows(c)
  /\ PaymentCreditedOnce

\* A nonempty set of rounds has a largest one: the round a poll stores as its
\* cursor.
LEMMA Largest ==
  ASSUME NEW N \in Nat, NEW S \in SUBSET (0 .. N), S # {}
  PROVE  \E r \in S : \A x \in S : x <= r
<1> DEFINE T == {n \in Nat : N - n \in S}
<1>1. T \subseteq Nat /\ T # {}
  <2>1. PICK x \in S : TRUE
    OBVIOUS
  <2>2. N - x \in Nat /\ N - (N - x) = x
    BY <2>1
  <2> QED BY <2>1, <2>2
<1>2. \E m \in T : \A n \in T : ~(<<n, m>> \in OpToRel(<, Nat))
  BY <1>1, NatLessThanWellFounded, WFMin
<1>3. PICK m \in T : \A n \in T : ~(n < m)
  BY <1>1, <1>2 DEF OpToRel
<1> QED BY <1>3

\* Polls move a cursor only past what they recorded; credits claim the deposit.
LEMMA ChainDepositsInductive ==
  ChainDepositsIInv /\ [NextChainDeposits]_depositVars => ChainDepositsIInv'
<1> SUFFICES ASSUME ChainDepositsIInv, [NextChainDeposits]_depositVars PROVE ChainDepositsIInv'
  OBVIOUS
<1>t. /\ account \in [Holders -> {"none", "created", "provisioning", "ready", "failed"}]
      /\ head \in 1 .. LastRound /\ indexed \in 1 .. head /\ LastRound \in Nat
      /\ paidIn \in [Payments -> 0 .. LastRound]
      /\ cursor \in [Feeds -> 0 .. LastRound]
      /\ deposited \in [Payments -> {"none", "detected", "pending_rate", "credited"}]
      /\ credits \in [Payments -> Nat]
      /\ skipped \subseteq Payments
      /\ chainCall \in [Calls -> {Idle} \cup ChainWork]
  BY ChainDepositsAssumption DEF ChainDepositsIInv, ChainDepositsTypeOK
<1>p. \A p \in Payments : Feed(p) \in Feeds /\ Payee[p] \in Holders
  BY ChainDepositsAssumption DEF Feed, Feeds
<1>f. \A f \in Feeds : cursor[f] <= head /\ SeenUpTo(f, cursor[f], {})
  BY DEF ChainDepositsIInv
<1>q. \A p \in Payments : paidIn[p] <= head /\ (deposited[p] # "none" => paidIn[p] > 0)
  BY DEF ChainDepositsIInv
<1>k. \A c \in Calls : PollKnows(c)
  BY DEF ChainDepositsIInv
<1>o. PaymentCreditedOnce
  BY DEF ChainDepositsIInv
\* Only a call, or what is known of accounts and the indexer, changes.
<1>1. ASSUME NEW c \in Calls, chainCall' \in [Calls -> {Idle} \cup ChainWork],
             \A x \in Calls \ {c} : chainCall'[x] = chainCall[x],
             UNCHANGED <<head, indexed, paidIn, cursor, deposited, credits>>,
             skipped \subseteq skipped', skipped' \subseteq Payments,
             account' \in [Holders -> {"none", "created", "provisioning", "ready", "failed"}],
             PollKnows(c)'
      PROVE  ChainDepositsIInv'
  <2>1. ChainDepositsTypeOK'
    BY <1>t, <1>1 DEF ChainDepositsTypeOK
  <2>2. \A x \in Calls : PollKnows(x)'
    BY <1>k, <1>1 DEF PollKnows, SeenUpTo
  <2>3. \A f \in Feeds : cursor'[f] <= head' /\ SeenUpTo(f, cursor[f], {})'
    BY <1>f, <1>1 DEF SeenUpTo
  <2> QED BY <1>1, <1>q, <1>o, <2>1, <2>2, <2>3 DEF ChainDepositsIInv, PaymentCreditedOnce
\* What is recorded of payments that were made, and of those credited, grows.
<1>2. ASSUME NEW c \in Calls, chainCall' \in [Calls -> {Idle} \cup ChainWork],
             \A x \in Calls \ {c} : chainCall'[x] = chainCall[x],
             UNCHANGED <<account, head, indexed, paidIn, cursor, skipped>>,
             deposited' \in [Payments -> {"none", "detected", "pending_rate", "credited"}],
             credits' \in [Payments -> Nat],
             \A p \in Payments : deposited[p] # "none" => deposited'[p] # "none",
             \A p \in Payments : deposited'[p] # "none" => paidIn[p] > 0,
             PaymentCreditedOnce', PollKnows(c)'
      PROVE  ChainDepositsIInv'
  <2>1. ChainDepositsTypeOK'
    BY <1>t, <1>2 DEF ChainDepositsTypeOK
  <2>2. \A x \in Calls : PollKnows(x)'
    BY <1>k, <1>2 DEF PollKnows, SeenUpTo
  <2>3. \A f \in Feeds : cursor'[f] <= head' /\ SeenUpTo(f, cursor[f], {})'
    BY <1>f, <1>2 DEF SeenUpTo
  <2> QED BY <1>2, <1>q, <2>1, <2>2, <2>3 DEF ChainDepositsIInv
<1>3. ASSUME NEW u \in Holders, CreateAccount(u) PROVE ChainDepositsIInv'
  <2>1. ChainDepositsTypeOK'
    BY <1>t, <1>3 DEF CreateAccount, ChainDepositsTypeOK
  <2> QED BY <1>3, <2>1 DEF CreateAccount, ChainDepositsIInv, PollKnows, SeenUpTo,
      PaymentCreditedOnce
<1>4. ASSUME NEW c \in Calls, NEW u \in Holders, Provision(c, u) PROVE ChainDepositsIInv'
  <2>1. [op |-> "provision", id |-> u] \in ChainWork
    BY DEF ChainWork
  <2>2. chainCall' = [chainCall EXCEPT ![c] = [op |-> "provision", id |-> u]]
        /\ account' \in [Holders -> {"none", "created", "provisioning", "ready", "failed"}]
    BY <1>t, <1>4 DEF Provision, ChainGoes
  <2>3. PollKnows(c)'
    BY <1>t, <2>2 DEF PollKnows
  <2> QED BY <1>1, <1>t, <1>4, <2>1, <2>2, <2>3 DEF Provision
<1>5. ASSUME NEW c \in Calls, NEW status \in {"ready", "failed"}, Provisioned(c, status)
      PROVE  ChainDepositsIInv'
  <2>2. chainCall' = [chainCall EXCEPT ![c] = Idle]
        /\ account' \in [Holders -> {"none", "created", "provisioning", "ready", "failed"}]
    BY <1>t, <1>5 DEF Provisioned, ChainGoes
  <2>3. PollKnows(c)'
    BY <1>t, <2>2 DEF PollKnows, Idle
  <2> QED BY <1>1, <1>t, <1>5, <2>2, <2>3 DEF Provisioned
<1>6. ASSUME NEW p \in Payments, PayIn(p) PROVE ChainDepositsIInv'
  <2>1. /\ paidIn[p] = 0 /\ head < LastRound /\ head' = head + 1
           /\ paidIn' = [paidIn EXCEPT ![p] = head + 1]
        /\ UNCHANGED <<account, indexed, cursor, deposited, skipped, chainCall, credits>>
    BY <1>6 DEF PayIn
  <2>2. ChainDepositsTypeOK'
    BY <1>t, <2>1 DEF ChainDepositsTypeOK
  <2>3. \A q \in Payments : paidIn'[q] = IF q = p THEN head + 1 ELSE paidIn[q]
    BY <1>t, <2>1
  <2>4. ASSUME NEW f, NEW round \in Nat, NEW missed, round <= head, SeenUpTo(f, round, missed)
        PROVE  SeenUpTo(f, round, missed)'
    BY <1>t, <2>1, <2>3, <2>4 DEF SeenUpTo, Feed
  <2>5. \A x \in Calls : PollKnows(x)'
    <3> SUFFICES ASSUME NEW x \in Calls PROVE PollKnows(x)'
      OBVIOUS
    <3>1. PICK call : call = chainCall[x]
      OBVIOUS
    <3>2. CASE call.op = "poll"
      <4>1. call.since \in Nat /\ call.since <= head /\ SeenUpTo(call.feed, call.since, {})
        BY <1>t, <1>k, <3>1, <3>2 DEF PollKnows, ChainWork, Idle
      <4>2. SeenUpTo(call.feed, call.since, {})'
        BY <2>4, <4>1
      <4> QED BY <1>t, <1>k, <2>1, <3>1, <3>2, <4>1, <4>2 DEF PollKnows, ChainWork, Idle
    <3>3. CASE call.op = "store"
      <4>1. call.round \in Nat /\ call.round <= head
            /\ SeenUpTo(call.feed, call.round, call.missed)
        BY <1>t, <1>k, <3>1, <3>3 DEF PollKnows, ChainWork, Idle
      <4>2. SeenUpTo(call.feed, call.round, call.missed)'
        BY <2>4, <4>1
      <4> QED BY <1>t, <1>k, <2>1, <3>1, <3>3, <4>1, <4>2 DEF PollKnows, ChainWork, Idle
    <3> QED BY <2>1, <3>1, <3>2, <3>3 DEF PollKnows
  <2>6. \A f \in Feeds : cursor'[f] <= head' /\ SeenUpTo(f, cursor[f], {})'
    <3> SUFFICES ASSUME NEW f \in Feeds PROVE cursor[f] <= head + 1 /\ SeenUpTo(f, cursor[f], {})'
      BY <2>1
    <3>1. PICK n : n = cursor[f]
      OBVIOUS
    <3>2. n \in Nat /\ n <= head /\ SeenUpTo(f, n, {}) /\ n = cursor'[f]
      BY <1>t, <1>f, <2>1, <3>1
    <3>3. SeenUpTo(f, n, {})'
      BY <2>4, <3>2
    <3> QED BY <1>t, <3>1, <3>2, <3>3
  <2>7. \A q \in Payments : paidIn'[q] <= head' /\ (deposited'[q] # "none" => paidIn'[q] > 0)
    BY <1>t, <1>q, <2>1, <2>3
  <2>8. PaymentCreditedOnce'
    BY <1>t, <1>o, <2>1, <2>3 DEF PaymentCreditedOnce
  <2> QED BY <1>t, <2>1, <2>2, <2>5, <2>6, <2>7, <2>8 DEF ChainDepositsIInv
<1>7. CASE IndexerFollows
  <2>1. ChainDepositsTypeOK'
    BY <1>t, <1>7 DEF IndexerFollows, ChainDepositsTypeOK
  <2> QED BY <1>7, <2>1 DEF IndexerFollows, ChainDepositsIInv, PollKnows, SeenUpTo,
      PaymentCreditedOnce
<1>8. ASSUME NEW f \in Feeds, StartFeed(f) PROVE ChainDepositsIInv'
  <2>1. /\ cursor' = [cursor EXCEPT ![f] = head]
        /\ skipped' = skipped \cup {p \in Payments : Feed(p) = f /\ paidIn[p] \in 1 .. head - 1}
        /\ UNCHANGED <<account, head, indexed, paidIn, deposited, chainCall, credits>>
    BY <1>8 DEF StartFeed
  <2>2. ChainDepositsTypeOK'
    BY <1>t, <2>1 DEF ChainDepositsTypeOK
  <2>3. \A x \in Calls : PollKnows(x)'
    BY <1>k, <2>1 DEF PollKnows, SeenUpTo
  <2>4. \A g \in Feeds : cursor'[g] <= head' /\ SeenUpTo(g, cursor[g], {})'
    <3>1. ASSUME NEW g \in Feeds, g # f PROVE cursor'[g] <= head' /\ SeenUpTo(g, cursor[g], {})'
      BY <1>t, <1>f, <2>1, <3>1 DEF SeenUpTo
    <3>2. cursor'[f] = head /\ head' = head
      BY <1>t, <2>1
    <3>3. SeenUpTo(f, cursor[f], {})'
      BY <1>t, <2>1, <3>2 DEF SeenUpTo
    <3> QED BY <1>t, <3>1, <3>2, <3>3
  <2> QED BY <1>q, <1>o, <1>t, <2>1, <2>2, <2>3, <2>4 DEF ChainDepositsIInv, PaymentCreditedOnce
<1>9. ASSUME NEW c \in Calls, NEW f \in Feeds, ReadCursor(c, f) PROVE ChainDepositsIInv'
  <2>1. PICK h : h = [op |-> "poll", feed |-> f, since |-> cursor[f], upTo |-> head,
       watched |-> {u \in Holders : f = "assets" \/ account[u] = "ready"}]
    OBVIOUS
  <2>2. h \in ChainWork
    BY <1>t, <2>1 DEF ChainWork
  <2>3. chainCall' = [chainCall EXCEPT ![c] = h]
        /\ UNCHANGED <<account, head, indexed, paidIn, cursor, deposited, skipped, credits>>
    BY <1>9, <2>1 DEF ReadCursor, ChainGoes
  <2>4. chainCall'[c] = h
    BY <1>t, <2>3
  <2>5. PollKnows(c)'
    BY <1>t, <1>f, <2>1, <2>3, <2>4 DEF PollKnows, SeenUpTo
  <2> QED BY <1>1, <1>t, <2>2, <2>3, <2>5
<1>10. ASSUME NEW c \in Calls, RecordFound(c) PROVE ChainDepositsIInv'
  <2>1. PICK call : call = chainCall[c]
    OBVIOUS
  <2> DEFINE rounds == {paidIn[p] : p \in {q \in Payments : Feed(q) = "assets" /\ paidIn[q] <= indexed}}
             latest == CHOOSE r \in rounds \cup {call.since} : \A x \in rounds \cup {call.since} : x <= r
  <2>2. /\ call \in [op : {"poll"}, feed : Feeds, since : 0 .. LastRound, upTo : 0 .. LastRound, watched : SUBSET Holders]
        /\ call.since <= head /\ call.upTo <= head /\ SeenUpTo(call.feed, call.since, {})
        /\ call.feed = "assets" => call.watched = Holders
    BY <1>t, <1>k, <1>10, <2>1 DEF RecordFound, PollKnows, ChainWork, Idle
  <2>3. latest \in rounds \cup {call.since}
    <3>1. rounds \cup {call.since} \in SUBSET (0 .. LastRound) /\ rounds \cup {call.since} # {}
      BY <1>t, <2>2
    <3>2. PICK all : all = rounds \cup {call.since}
      OBVIOUS
    <3>3. all \in SUBSET (0 .. LastRound) /\ all # {} /\ LastRound \in Nat
      BY <1>t, <3>1, <3>2
    <3>4. \E r \in all : \A x \in all : x <= r
      BY ONLY <3>3, Largest
    <3> QED BY <3>2, <3>4
  <2>4. latest \in 0 .. LastRound /\ (latest <= indexed \/ latest = call.since)
    <3>1. PICK last : last = latest
      OBVIOUS
    <3> HIDE DEF latest
    <3>2. last = call.since \/ last \in rounds
      BY <2>3, <3>1
    <3>3. ASSUME last \in rounds PROVE last \in 0 .. LastRound /\ last <= indexed
      <4>1. PICK p \in Payments : last = paidIn[p] /\ paidIn[p] <= indexed
        BY <3>3
      <4>2. paidIn[p] \in 0 .. LastRound
        BY <1>t
      <4> QED BY <4>1, <4>2
    <3>4. call.since \in 0 .. LastRound
      BY <2>2
    <3> HIDE DEF rounds
    <3> QED BY <3>1, <3>2, <3>3, <3>4
  <2>5. PICK round : round = IF call.feed = "algo" THEN call.upTo ELSE latest
    OBVIOUS
  <2>6. PICK missed : missed = IF call.feed = "algo"
                               THEN {p \in Native : paidIn[p] > indexed \/ Payee[p] \notin call.watched} ELSE {}
    OBVIOUS
  <2>7. PICK h : h = [op |-> "store", feed |-> call.feed, since |-> call.since, round |-> round, missed |-> missed]
    OBVIOUS
  <2>8. /\ deposited' = [p \in Payments |-> IF p \in Found(call) THEN Recorded(p) ELSE deposited[p]]
        /\ chainCall' = [chainCall EXCEPT ![c] = h]
        /\ UNCHANGED <<account, head, indexed, paidIn, cursor, skipped, credits>>
    BY <1>10, <2>1, <2>5, <2>6, <2>7 DEF RecordFound, ChainGoes
  <2> HIDE DEF latest, rounds
  <2>9. round \in 0 .. LastRound /\ round <= head /\ missed \in SUBSET Payments
    <3>1. Native \subseteq Payments
      BY ChainDepositsAssumption
    <3> QED BY <1>t, <2>2, <2>4, <2>5, <2>6, <3>1
  <2>10. h \in ChainWork
    BY <2>2, <2>7, <2>9 DEF ChainWork
  <2>11. chainCall'[c] = h
    BY <1>t, <2>8
  <2>12. ASSUME NEW p \in Payments
         PROVE  /\ p \in Found(call) => deposited'[p] # "none" /\ paidIn[p] > 0
                /\ \/ deposited'[p] = deposited[p]
                   \/ deposited[p] = "none" /\ deposited'[p] = "detected" /\ p \in Found(call)
    <3>1. deposited'[p] = IF p \in Found(call) THEN Recorded(p) ELSE deposited[p]
      BY <2>8
    <3>2. p \in Found(call) => paidIn[p] > 0
      BY <1>t DEF Found
    <3> QED BY <3>1, <3>2 DEF Recorded
  <2>13. deposited' \in [Payments -> {"none", "detected", "pending_rate", "credited"}]
    BY <1>t, <2>8 DEF Recorded
  <2>14. SeenUpTo(call.feed, round, missed)'
    <3> SUFFICES ASSUME NEW p \in Payments, p \notin skipped, p \notin missed,
                        Feed(p) = call.feed,
                        paidIn[p] > 0, paidIn[p] < round
                 PROVE  deposited'[p] # "none"
      BY <2>8 DEF SeenUpTo, Feed
    <3>1. CASE paidIn[p] < call.since
      <4>1. deposited[p] # "none"
        BY <2>2, <3>1 DEF SeenUpTo
      <4> QED BY <2>12, <4>1
    <3>2. CASE paidIn[p] >= call.since
      <4>1. paidIn[p] <= indexed /\ Payee[p] \in call.watched
        <5>1. CASE call.feed = "algo"
          <6>1. p \in Native
            BY <5>1 DEF Feed
          <6> QED BY <1>t, <2>6, <5>1, <6>1
        <5>2. CASE call.feed # "algo"
          <6>1. call.feed = "assets" /\ round = latest
            BY <2>2, <2>5, <5>2 DEF Feeds
          <6> QED BY <1>t, <1>p, <2>2, <2>4, <3>2, <6>1
        <5> QED BY <5>1, <5>2
      <4>2. p \in Found(call)
        BY <1>t, <3>2, <4>1 DEF Found
      <4> QED BY <2>12, <4>2
    <3>3. paidIn[p] \in Int /\ call.since \in Int
      BY <1>t, <2>2
    <3> QED BY <3>1, <3>2, <3>3
  <2>15. PollKnows(c)'
    BY <2>7, <2>8, <2>9, <2>11, <2>14 DEF PollKnows
  <2>16. PaymentCreditedOnce'
    BY <1>o, <2>8, <2>12 DEF PaymentCreditedOnce
  <2>17. \A p \in Payments : /\ deposited[p] # "none" => deposited'[p] # "none"
                             /\ deposited'[p] # "none" => paidIn[p] > 0
    BY <1>q, <2>12
  <2> QED BY <1>2, <1>t, <2>8, <2>10, <2>13, <2>15, <2>16, <2>17
<1>11. ASSUME NEW c \in Calls, StoreCursor(c) PROVE ChainDepositsIInv'
  <2>1. PICK call : call = chainCall[c]
    OBVIOUS
  <2>2. /\ call \in [op : {"store"}, feed : Feeds, since : 0 .. LastRound, round : 0 .. LastRound, missed : SUBSET Payments]
        /\ call.round <= head /\ SeenUpTo(call.feed, call.round, call.missed)
    BY <1>t, <1>k, <1>11, <2>1 DEF StoreCursor, ChainGoes, PollKnows, ChainWork, Idle
  <2>3. /\ chainCall' = [chainCall EXCEPT ![c] = Idle]
        /\ cursor' = IF call.round > call.since THEN [cursor EXCEPT ![call.feed] = call.round] ELSE cursor
        /\ skipped' = skipped \cup {p \in call.missed : paidIn[p] < call.round}
        /\ UNCHANGED <<account, head, indexed, paidIn, deposited, credits>>
    BY <1>11, <2>1 DEF StoreCursor, ChainGoes
  <2>4. ChainDepositsTypeOK'
    BY <1>t, <2>2, <2>3 DEF ChainDepositsTypeOK
  <2>5. chainCall'[c] = Idle /\ chainCall' \in [Calls -> {Idle} \cup ChainWork]
        /\ \A x \in Calls \ {c} : chainCall'[x] = chainCall[x]
    BY <1>t, <2>3
  <2>6. \A x \in Calls : PollKnows(x)'
    BY <1>k, <2>3, <2>5 DEF PollKnows, SeenUpTo, Idle
  <2>7. \A f \in Feeds : cursor'[f] <= head' /\ SeenUpTo(f, cursor[f], {})'
    <3> SUFFICES ASSUME NEW f \in Feeds PROVE cursor'[f] <= head /\ SeenUpTo(f, cursor[f], {})'
      BY <2>3
    <3>1. CASE cursor'[f] = cursor[f]
      BY <1>f, <2>3, <3>1 DEF SeenUpTo
    <3>2. CASE f = call.feed /\ cursor'[f] = call.round
      BY <2>2, <2>3, <3>2 DEF SeenUpTo
    <3> QED BY <1>t, <2>2, <2>3, <3>1, <3>2
  <2> QED BY <1>q, <1>o, <2>3, <2>4, <2>5, <2>6, <2>7 DEF ChainDepositsIInv, PaymentCreditedOnce
<1>12. ASSUME NEW c \in Calls, NEW p \in Payments, ReadDeposit(c, p) PROVE ChainDepositsIInv'
  <2>1. [op |-> "credit", id |-> p] \in ChainWork
    BY DEF ChainWork
  <2>2. chainCall' = [chainCall EXCEPT ![c] = [op |-> "credit", id |-> p]]
        /\ UNCHANGED <<account, head, indexed, paidIn, cursor, deposited, skipped, credits>>
    BY <1>12 DEF ReadDeposit, ChainGoes
  <2>3. PollKnows(c)'
    BY <1>t, <2>2 DEF PollKnows
  <2> QED BY <1>1, <1>t, <2>1, <2>2, <2>3
<1>13. ASSUME NEW c \in Calls, NoRate(c) \/ CreditPayment(c) PROVE ChainDepositsIInv'
  <2>1. PICK p \in Payments : p = chainCall[c].id
    BY <1>t, <1>13 DEF NoRate, CreditPayment, ChainGoes, ChainWork, Idle
  <2>2. /\ chainCall' = [chainCall EXCEPT ![c] = Idle]
        /\ UNCHANGED <<account, head, indexed, paidIn, cursor, skipped>>
    BY <1>13 DEF NoRate, CreditPayment, ChainGoes
  <2>3. PollKnows(c)'
    BY <1>t, <2>2 DEF PollKnows, Idle
  <2>4. \/ UNCHANGED <<deposited, credits>>
        \/ deposited[p] # "none" /\ deposited[p] # "credited" /\ UNCHANGED credits
           /\ deposited' = [deposited EXCEPT ![p] = "pending_rate"]
        \/ deposited[p] # "none" /\ deposited[p] # "credited"
           /\ deposited' = [deposited EXCEPT ![p] = "credited"]
              /\ credits' = [credits EXCEPT ![p] = credits[p] + 1]
    BY <1>13, <2>1 DEF NoRate, CreditPayment, Uncredited
  <2>5. PaymentCreditedOnce'
    BY <1>t, <1>o, <1>q, <2>2, <2>4 DEF PaymentCreditedOnce
  <2>6. /\ deposited' \in [Payments -> {"none", "detected", "pending_rate", "credited"}]
        /\ credits' \in [Payments -> Nat]
        /\ \A q \in Payments : deposited[q] # "none" <=> deposited'[q] # "none"
    BY <1>t, <2>4
  <2> QED BY <1>2, <1>t, <1>q, <2>2, <2>3, <2>5, <2>6
<1>14. CASE ChainRestart
  <2>1. chainCall' = Idles
        /\ UNCHANGED <<account, head, indexed, paidIn, cursor, deposited, skipped, credits>>
    BY <1>14 DEF ChainRestart
  <2>2. ChainDepositsTypeOK'
    BY <1>t, <2>1 DEF ChainDepositsTypeOK, Idles
  <2>3. \A c \in Calls : PollKnows(c)'
    BY <2>1 DEF PollKnows, Idles, Idle
  <2> QED BY <2>1, <2>2, <2>3 DEF ChainDepositsIInv, SeenUpTo, PaymentCreditedOnce, Idles
<1>15. CASE UNCHANGED depositVars
  BY <1>15 DEF depositVars, ChainDepositsIInv, ChainDepositsTypeOK, PollKnows, SeenUpTo,
       PaymentCreditedOnce
<1> QED BY <1>3, <1>4, <1>5, <1>6, <1>7, <1>8, <1>9, <1>10, <1>11, <1>12, <1>13, <1>14, <1>15
        DEF NextChainDeposits

\* Every payment before a feed's cursor is recorded, but for those the code
\* skips, and each is credited at most once.
THEOREM ChainDepositsComplete == ChainDepositsSpec => []ChainDepositsInv
<1>1. InitChainDeposits => ChainDepositsIInv
  <2> SUFFICES ASSUME InitChainDeposits PROVE ChainDepositsIInv
    OBVIOUS
  <2>1. ChainDepositsTypeOK
    BY ChainDepositsAssumption DEF InitChainDeposits, ChainDepositsTypeOK, Idles, Feeds
  <2> QED BY <2>1 DEF InitChainDeposits, ChainDepositsIInv, ChainDepositsTypeOK, PollKnows,
    SeenUpTo, PaymentCreditedOnce, Idles, Idle
<1>2. ChainDepositsIInv => ChainDepositsInv
  BY ChainDepositsAssumption DEF ChainDepositsIInv, ChainDepositsInv, NothingPassedOver,
       SeenUpTo, Feed, Feeds
<1> QED BY <1>1, <1>2, ChainDepositsInductive, PTL DEF ChainDepositsSpec

----------------------------------------------------------------------------
(* Sessions.                                                               *)

\* Requests to one account, interleaved.
SessionsSpec == InitSessions /\ [][NextSessions]_sessionVars

\* A row of sessions.
SessionRows == [status : {"live", "used", "revoked", "gone"}, of : Logins \cup Nat]

\* A login or a session that nothing more can be opened for.
Spent(origin) ==
  IF origin \in Logins THEN login[origin] = "verified"
  ELSE origin \in DOMAIN sessions /\ ~Live(origin)

\* What a request relies on that will open a session.
Opens(t) ==
  /\ task[t].op = "verify" => task[t].login \in Logins
  /\ task[t].op = "claim" => task[t].session \in DOMAIN sessions
  /\ task[t].op = "open" =>
       /\ Spent(task[t].for)
       /\ \A s \in DOMAIN sessions : sessions[s].of # task[t].for

\* What a session was opened for cannot open another.
AllSpent == \A s \in DOMAIN sessions : Spent(sessions[s].of)

\* The sessions, and the requests that will open one.
LinesInv ==
  /\ login \in [Logins -> {"none", "pending", "verified", "gone"}]
  /\ sessions \in Seq(SessionRows) /\ Len(sessions) <= MaxSessions
  /\ AllSpent /\ OneHeir
  /\ \A t \in Tasks : Opens(t)
  /\ \A t, u \in Tasks :
       task[t].op = "open" /\ task[u].op = "open" /\ task[t].for = task[u].for => t = u

\* A row of links, and a request to send one more.
LinkRows == [status : {"sent", "used"}, after : Nat]

SendKnows(t) ==
  /\ task[t].op \in {"send", "sending"} => task[t].after \in Nat /\ task[t].after <= Len(links)
  /\ task[t].op = "sending" =>
       task[t].older \in Nat /\ task[t].after <= task[t].older /\ task[t].older <= Len(links)

\* The links sent.
LinksInv ==
  /\ links \in Seq(LinkRows) /\ Len(links) <= MaxLinks
  /\ OlderLinksStop
  /\ \A k \in DOMAIN links : links[k].after <= Len(links)
  /\ \A t \in Tasks : task[t].op = "mail" => task[t].link \in DOMAIN links
  /\ \A t \in Tasks : SendKnows(t)

\* The balance, as a deletion under way has seen it.
PurseInv ==
  /\ profile \in [role : {"user", "admin"}, deleted : BOOLEAN, verified : BOOLEAN]
  /\ purse \in {0, 1} /\ late \in BOOLEAN
  /\ incoming \in {"none", "pending", "failed", "credited"}
  /\ \A t \in Tasks :
       task[t].op \in Deleting =>
         /\ task[t] \in [op : Deleting, missed : BOOLEAN]
         /\ ~task[t].missed => purse = 0 /\ (task[t].op = "delete" => incoming # "pending")
  /\ profile.deleted /\ ~late => purse = 0 /\ incoming # "pending"

SessionsIInv == DOMAIN task = Tasks /\ LinesInv /\ LinksInv /\ PurseInv

\* A function over the domain of a sequence is a sequence of the same length.
LEMMA SequenceOver ==
  ASSUME NEW S, NEW q \in Seq(S), NEW T, NEW f \in [DOMAIN q -> T]
  PROVE  f \in Seq(T) /\ Len(f) = Len(q) /\ DOMAIN f = DOMAIN q
<1>1. Len(q) \in Nat /\ DOMAIN q = 1 .. Len(q)
  BY LenProperties
<1>2. f \in Seq(T)
  BY <1>1, SeqDef
<1>3. Len(f) \in Nat /\ DOMAIN f = 1 .. Len(f)
  BY <1>2, LenProperties
<1> QED BY <1>1, <1>2, <1>3

\* A step on neither sessions nor logins that starts no request for one.
LEMMA LinesKept ==
  ASSUME LinesInv, UNCHANGED <<sessions, login>>,
         \A t \in Tasks : task'[t] = task[t] \/ task'[t].op \notin {"verify", "claim", "open"}
  PROVE  LinesInv'
BY DEF LinesInv, AllSpent, Opens, OneHeir, Spent, Live

\* A step that neither makes nor uses a link.
LEMMA LinksKept ==
  ASSUME LinksInv, UNCHANGED links,
         \A t \in Tasks : task'[t] = task[t] \/ task'[t].op \notin {"mail", "send", "sending"}
  PROVE  LinksInv'
BY DEF LinksInv, SendKnows, OlderLinksStop

\* A step that moves no money and begins no deletion.
LEMMA PurseKept ==
  ASSUME PurseInv, UNCHANGED <<profile, money>>,
         \A t \in Tasks : task'[t] = task[t] \/ task'[t].op \notin Deleting
  PROVE  PurseInv'
BY DEF PurseInv, money

\* Money that deletions under way have missed.
LEMMA MissedBy ==
  ASSUME PurseInv, NEW ops \in SUBSET Deleting, task' = Missing(ops)
  PROVE  /\ DOMAIN task' = Tasks
         /\ \A t \in Tasks :
              /\ task[t].op \notin ops => task'[t] = task[t]
              /\ task[t].op \in ops =>
                   /\ task'[t] \in [op : Deleting, missed : BOOLEAN]
                   /\ task'[t].op = task[t].op /\ task'[t].missed
<1>1. task' = [t \in Tasks |-> IF task[t].op \in ops THEN [task[t] EXCEPT !.missed = TRUE]
                               ELSE task[t]]
  BY DEF Missing
<1>2. ASSUME NEW t \in Tasks, task[t].op \in ops
      PROVE  /\ [task[t] EXCEPT !.missed = TRUE] \in [op : Deleting, missed : BOOLEAN]
             /\ [task[t] EXCEPT !.missed = TRUE].op = task[t].op
             /\ [task[t] EXCEPT !.missed = TRUE].missed
  <2>1. task[t] \in [op : Deleting, missed : BOOLEAN]
    BY <1>2 DEF PurseInv
  <2>2. \A r \in [op : Deleting, missed : BOOLEAN] :
          /\ [r EXCEPT !.missed = TRUE] \in [op : Deleting, missed : BOOLEAN]
          /\ [r EXCEPT !.missed = TRUE].op = r.op
          /\ [r EXCEPT !.missed = TRUE].missed
    OBVIOUS
  <2> QED BY <2>1, <2>2
<1> QED BY <1>1, <1>2

\* Sessions that end leave what they were opened for spent.
LEMMA SessionsEnd ==
  ASSUME LinesInv, UNCHANGED login,
         NEW f \in [DOMAIN sessions -> SessionRows], sessions' = f,
         \A s \in DOMAIN sessions : f[s].of = sessions[s].of /\ (f[s].status = "live" => Live(s)),
         \A t \in Tasks :
           \/ task'[t] = task[t]
           \/ task'[t].op \notin {"verify", "claim", "open"}
           \/ /\ task[t].op = "claim" /\ task'[t].op = "open" /\ task'[t].for = task[t].session
              /\ Live(task[t].session) /\ f[task[t].session].status # "live"
              /\ \A u \in Tasks \ {t} : task'[u] = task[u]
  PROVE  LinesInv'
<1>1. f \in Seq(SessionRows) /\ Len(f) = Len(sessions) /\ DOMAIN f = DOMAIN sessions
  BY SequenceOver DEF LinesInv
<1>d. \A s \in DOMAIN sessions : s \in Nat /\ s \notin Logins
  BY LenProperties, SessionsAssumption DEF LinesInv
<1>2. \A o : Spent(o) => Spent(o)'
  BY <1>1 DEF Spent, Live
<1>3. AllSpent'
  <2> SUFFICES ASSUME NEW s \in DOMAIN sessions PROVE Spent(sessions[s].of)'
    BY <1>1 DEF AllSpent
  <2>1. PICK o : o = sessions[s].of
    OBVIOUS
  <2>2. o = sessions'[s].of /\ Spent(o)'
    BY <1>2, <2>1 DEF LinesInv, AllSpent
  <2> QED BY <2>2
<1>4. OneHeir'
  BY <1>1 DEF LinesInv, OneHeir
<1>5. ASSUME NEW t \in Tasks
      PROVE  Opens(t)'
  <2>1. CASE task'[t] = task[t]
    <3>1. Opens(t)
      BY DEF LinesInv
    <3>2. CASE task[t].op = "open"
      <4>1. PICK o : o = task[t].for
        OBVIOUS
      <4>2. o = task'[t].for /\ Spent(o)'
        BY <1>2, <2>1, <3>1, <3>2, <4>1 DEF Opens
      <4> QED BY <1>1, <2>1, <3>1, <3>2, <4>1, <4>2 DEF Opens
    <3>3. CASE task[t].op # "open"
      BY <1>1, <2>1, <3>1, <3>3 DEF Opens
    <3> QED BY <3>2, <3>3
  <2>2. CASE task'[t].op \notin {"verify", "claim", "open"}
    BY <2>2 DEF Opens
  <2>3. CASE /\ task[t].op = "claim" /\ task'[t].op = "open" /\ task'[t].for = task[t].session
             /\ Live(task[t].session) /\ f[task[t].session].status # "live"
    <3>1. PICK r \in DOMAIN sessions : r = task[t].session
      BY <2>3 DEF LinesInv, Opens
    <3>2. Spent(r)' /\ r \notin Logins
      BY <1>1, <1>d, <2>3, <3>1 DEF Spent, Live
    <3>3. \A s \in DOMAIN sessions : sessions[s].of # r
      BY <1>d, <2>3, <3>1 DEF LinesInv, AllSpent, Spent
    <3>4. task'[t].for = r /\ \A s \in DOMAIN sessions' : sessions'[s].of # r
      BY <1>1, <2>3, <3>1, <3>3
    <3> QED BY <2>3, <3>2, <3>4 DEF Opens
  <2> QED BY <2>1, <2>2, <2>3
<1>6. ASSUME NEW t \in Tasks, NEW u \in Tasks, task'[t].op = "open", task'[u].op = "open",
             task'[t].for = task'[u].for, t # u
      PROVE  FALSE
  <2>1. CASE task'[t] = task[t] /\ task'[u] = task[u]
    BY <1>6, <2>1 DEF LinesInv
  <2>2. ASSUME NEW x \in {t, u}, NEW y \in {t, u} \ {x}, task'[x] # task[x]
        PROVE  FALSE
    <3>1. /\ task[x].op = "claim" /\ task'[x].for = task[x].session /\ Live(task[x].session)
          /\ task'[y] = task[y]
      BY <1>6, <2>2
    <3>2. Spent(task[y].for) /\ task[y].for = task[x].session
          /\ task[x].session \in DOMAIN sessions
      BY <1>6, <2>2, <3>1 DEF LinesInv, Opens
    <3> QED BY <1>d, <3>1, <3>2 DEF Spent
  <2> QED BY <1>6, <2>1, <2>2
<1> QED BY <1>1, <1>3, <1>4, <1>5, <1>6 DEF LinesInv

\* createSession for a login just verified, or a session just used.
LEMMA SessionOpened ==
  ASSUME LinesInv, NEW origin \in Logins \cup Nat, OpenSession(origin),
         login' \in [Logins -> {"none", "pending", "verified", "gone"}],
         \A l \in Logins : login[l] = "verified" => login'[l] = "verified",
         IF origin \in Logins THEN login'[origin] = "verified" ELSE Spent(origin),
         \A s \in DOMAIN sessions : sessions[s].of # origin,
         \A t \in Tasks :
           \/ task'[t] = task[t] /\ (task[t].op = "open" => task[t].for # origin)
           \/ task'[t].op \notin {"verify", "claim", "open"}
  PROVE  LinesInv'
<1> DEFINE row == [status |-> "live", of |-> origin]
           n == Len(sessions)
<1>1. row \in SessionRows /\ sessions' = Append(sessions, row) /\ n < MaxSessions
  BY DEF SessionRows, OpenSession
<1>2. n \in Nat /\ DOMAIN sessions = 1 .. n /\ sessions \in Seq(SessionRows)
  BY LenProperties DEF LinesInv
<1> HIDE DEF row, n
<1>3. sessions' \in Seq(SessionRows) /\ Len(sessions') = n + 1
      /\ (\A s \in 1 .. n : sessions'[s] = sessions[s]) /\ sessions'[n + 1] = row
  BY <1>1, <1>2, AppendProperties DEF n
<1>4. DOMAIN sessions' = 1 .. n + 1
  BY <1>3, LenProperties
<1>5. \A o : Spent(o) => Spent(o)'
  BY <1>2, <1>3, <1>4 DEF Spent, Live
<1>6. Spent(origin)' /\ row.of = origin
  BY <1>5 DEF Spent, row
<1>7. n + 1 <= MaxSessions
  BY <1>1, <1>2, SessionsAssumption
<1>8. \A s \in DOMAIN sessions' : s = n + 1 \/ s \in DOMAIN sessions
  BY <1>2, <1>4
<1>9. AllSpent'
  <2> SUFFICES ASSUME NEW s \in DOMAIN sessions' PROVE Spent(sessions[s].of)'
    BY DEF AllSpent
  <2>1. PICK o : o = sessions'[s].of
    OBVIOUS
  <2>2. Spent(o)'
    BY <1>2, <1>3, <1>5, <1>6, <1>8, <2>1 DEF LinesInv, AllSpent
  <2> QED BY <2>1, <2>2
<1>10. OneHeir'
  BY <1>2, <1>3, <1>6, <1>8 DEF LinesInv, OneHeir
<1>11. ASSUME NEW t \in Tasks
       PROVE  Opens(t)'
  <2>1. CASE task'[t].op = "open"
    <3>1. PICK o : o = task[t].for
      OBVIOUS
    <3>2. o = task'[t].for /\ o # origin /\ Spent(o)
          /\ \A s \in DOMAIN sessions : sessions[s].of # o
      BY <2>1, <3>1 DEF LinesInv, Opens
    <3>3. Spent(o)' /\ \A s \in DOMAIN sessions' : sessions'[s].of # o
      BY <1>2, <1>3, <1>5, <1>6, <1>8, <3>2
    <3> QED BY <2>1, <3>2, <3>3 DEF Opens
  <2>2. CASE task'[t].op # "open"
    BY <1>2, <1>4, <2>2 DEF LinesInv, Opens
  <2> QED BY <2>1, <2>2
<1>12. \A t, u \in Tasks :
       task'[t].op = "open" /\ task'[u].op = "open" /\ task'[t].for = task'[u].for => t = u
  BY DEF LinesInv
<1> QED BY <1>3, <1>7, <1>9, <1>10, <1>11, <1>12 DEF LinesInv

\* Logins, refreshes, links and the deletion of the account keep the three parts.
LEMMA SessionsInductive == SessionsIInv /\ [NextSessions]_sessionVars => SessionsIInv'
<1> SUFFICES ASSUME SessionsIInv, [NextSessions]_sessionVars PROVE SessionsIInv'
  OBVIOUS
<1>t. DOMAIN task = Tasks /\ LinesInv /\ LinksInv /\ PurseInv
  BY DEF SessionsIInv
<1>s. sessions \in Seq(SessionRows) /\ sessions \in [DOMAIN sessions -> SessionRows]
      /\ \A s \in DOMAIN sessions : s \in Nat /\ s \notin Logins
  BY <1>t, LenProperties, SessionsAssumption DEF LinesInv
\* A task goes from one place to another.
<1>g. ASSUME NEW t \in Tasks, NEW from, NEW to, TaskGoes(t, from, to)
      PROVE  /\ DOMAIN task' = Tasks /\ task[t].op = from /\ task'[t] = to
             /\ \A u \in Tasks \ {t} : task'[u] = task[u]
  BY <1>t, <1>g DEF TaskGoes
<1>e. ASSUME NEW t \in Tasks, NEW from, TaskEnds(t, from)
      PROVE  /\ DOMAIN task' = Tasks /\ task[t].op = from /\ task'[t].op = "free"
             /\ \A u \in Tasks \ {t} : task'[u] = task[u]
  BY <1>t, <1>e DEF TaskEnds, TaskGoes, Unbusy
<1>1. ASSUME NEW l \in Logins, SignIn(l) PROVE SessionsIInv'
  <2>1. /\ login[l] = "none" /\ login' = [login EXCEPT ![l] = "verified"] /\ OpenSession(l)
        /\ UNCHANGED <<profile, money, links, task>>
    BY <1>1 DEF SignIn
  <2>2. \A s \in DOMAIN sessions : sessions[s].of # l
    BY <1>t, <2>1 DEF LinesInv, AllSpent, Spent
  <2>3. \A t \in Tasks : task[t].op = "open" => task[t].for # l
    BY <1>t, <2>1 DEF LinesInv, Opens, Spent
  <2>4. /\ login' \in [Logins -> {"none", "pending", "verified", "gone"}]
           /\ login'[l] = "verified"
        /\ \A k \in Logins : login[k] = "verified" => login'[k] = "verified"
    BY <1>t, <2>1 DEF LinesInv
  <2>5. LinesInv'
    BY <1>t, <2>1, <2>2, <2>3, <2>4, SessionOpened
  <2> QED BY <1>t, <2>1, <2>5, LinksKept, PurseKept DEF SessionsIInv, Deleting
<1>2. ASSUME NEW l \in Logins, FirstStep(l) \/ ExpireLogin(l) PROVE SessionsIInv'
  <2>1. PICK status \in {"pending", "gone"} : login' = [login EXCEPT ![l] = status]
    BY <1>2 DEF FirstStep, ExpireLogin
  <2>2. login[l] # "verified" /\ UNCHANGED <<profile, money, sessions, links, task>>
    BY <1>2 DEF FirstStep, ExpireLogin
  <2>3. login' \in [Logins -> {"none", "pending", "verified", "gone"}]
        /\ \A o : Spent(o) => Spent(o)'
    BY <1>t, <2>1, <2>2 DEF LinesInv, Spent, Live
  <2>4. AllSpent' /\ \A t \in Tasks : Opens(t)'
    BY <1>t, <2>2, <2>3 DEF LinesInv, AllSpent, Opens
  <2>5. LinesInv'
    BY <1>t, <2>2, <2>3, <2>4 DEF LinesInv, OneHeir
  <2> QED BY <1>t, <2>2, <2>5, LinksKept, PurseKept DEF SessionsIInv, Deleting
<1>3. ASSUME NEW t \in Tasks, NEW l \in Logins, VerifyPhone(t, l) PROVE SessionsIInv'
  <2>1. /\ TaskGoes(t, "free", [op |-> "verify", login |-> l, deleted |-> profile.deleted])
        /\ UNCHANGED <<profile, money, login, sessions, links>>
    BY <1>3 DEF VerifyPhone
  <2>2. /\ DOMAIN task' = Tasks /\ task'[t].op = "verify" /\ task'[t].login = l
        /\ \A u \in Tasks \ {t} : task'[u] = task[u]
    BY <1>g, <2>1
  <2>3. \A u \in Tasks : Opens(u)'
    BY <1>t, <2>1, <2>2 DEF LinesInv, Opens, Spent, Live
  <2>4. LinesInv'
    BY <1>t, <2>1, <2>2, <2>3 DEF LinesInv, AllSpent, OneHeir, Spent, Live
  <2> QED BY <1>t, <2>1, <2>2, <2>4, LinksKept, PurseKept DEF SessionsIInv, Deleting
<1>4. ASSUME NEW t \in Tasks, ClaimLogin(t) PROVE SessionsIInv'
  <2>0. PICK l \in Logins : l = task[t].login
    BY <1>t, <1>4 DEF ClaimLogin, LinesInv, Opens
  <2>1. UNCHANGED <<profile, money, sessions, links>> /\ task[t].op = "verify"
    BY <1>4 DEF ClaimLogin
  <2>2. CASE UNCHANGED login /\ TaskEnds(t, "verify")
    <3>1. DOMAIN task' = Tasks /\ \A u \in Tasks : task'[u] = task[u] \/ task'[u].op = "free"
      BY <1>e, <2>2
    <3> QED BY <1>t, <2>1, <2>2, <3>1, LinesKept, LinksKept, PurseKept DEF SessionsIInv, Deleting
  <2>3. CASE /\ login[l] = "pending" /\ login' = [login EXCEPT ![l] = "verified"]
             /\ TaskGoes(t, "verify", IF task[t].deleted THEN Unbusy ELSE [op |-> "open", for |-> l])
    <3>1. PICK h \in {Unbusy, [op |-> "open", for |-> l]} : TaskGoes(t, "verify", h)
      BY <2>3
    <3>2. DOMAIN task' = Tasks /\ task'[t] = h /\ \A u \in Tasks \ {t} : task'[u] = task[u]
      BY <1>g, <3>1
    <3>3. h.op = "free" \/ (h.op = "open" /\ h.for = l)
      BY <3>1 DEF Unbusy
    <3>4. login' \in [Logins -> {"none", "pending", "verified", "gone"}] /\ login'[l] = "verified"
          /\ (\A o : Spent(o) => Spent(o)') /\ Spent(l)' /\ ~Spent(l)
      BY <1>t, <2>1, <2>3 DEF LinesInv, Spent, Live
    <3>5. AllSpent' /\ \A s \in DOMAIN sessions : sessions[s].of # l
      BY <1>t, <2>1, <3>4 DEF LinesInv, AllSpent
    <3>6. \A u \in Tasks : Opens(u)'
      <4> SUFFICES ASSUME NEW u \in Tasks PROVE Opens(u)'
        OBVIOUS
      <4>1. CASE u = t
        BY <2>1, <3>2, <3>3, <3>4, <3>5, <4>1 DEF Opens
      <4>2. CASE u # t
        BY <1>t, <2>1, <3>2, <3>4, <4>2 DEF LinesInv, Opens
      <4> QED BY <4>1, <4>2
    <3>7. \A u \in Tasks : task[u].op = "open" => task[u].for # l
      BY <1>t, <3>4 DEF LinesInv, Opens
    <3>8. \A x, u \in Tasks : task'[x].op = "open" /\ task'[u].op = "open"
                              /\ task'[x].for = task'[u].for => x = u
      BY <1>t, <3>2, <3>3, <3>7 DEF LinesInv
    <3>9. LinesInv'
      BY <1>t, <2>1, <3>4, <3>5, <3>6, <3>8 DEF LinesInv, OneHeir
    <3>10. \A u \in Tasks : task'[u] = task[u] \/ task'[u].op \in {"free", "open"}
      BY <3>2, <3>3
    <3> QED BY <1>t, <2>1, <3>2, <3>9, <3>10, LinksKept, PurseKept DEF SessionsIInv, Deleting
  <2> QED BY <1>4, <2>0, <2>2, <2>3 DEF ClaimLogin, StillPending
<1>5. ASSUME NEW t \in Tasks, IssueSession(t) PROVE SessionsIInv'
  <2>1. TaskEnds(t, "open") /\ OpenSession(task[t].for)
        /\ UNCHANGED <<profile, money, login, links>>
    BY <1>5 DEF IssueSession
  <2>2. /\ DOMAIN task' = Tasks /\ task[t].op = "open" /\ task'[t].op = "free"
        /\ \A u \in Tasks \ {t} : task'[u] = task[u]
    BY <1>e, <2>1
  <2>3. PICK o : o = task[t].for
    OBVIOUS
  <2>4. Spent(o) /\ (\A s \in DOMAIN sessions : sessions[s].of # o)
        /\ (\A u \in Tasks \ {t} : task[u].op = "open" => task[u].for # o)
    BY <1>t, <2>2, <2>3 DEF LinesInv, Opens
  <2>5. o \in Logins \cup Nat /\ (IF o \in Logins THEN login'[o] = "verified" ELSE Spent(o))
    BY <1>s, <2>1, <2>4 DEF Spent
  <2>6. /\ login' \in [Logins -> {"none", "pending", "verified", "gone"}]
        /\ \A k \in Logins : login[k] = "verified" => login'[k] = "verified"
    BY <1>t, <2>1 DEF LinesInv
  <2>7. \A u \in Tasks : \/ task'[u] = task[u] /\ (task[u].op = "open" => task[u].for # o)
                         \/ task'[u].op \notin {"verify", "claim", "open"}
    BY <2>2, <2>4
  <2>8. OpenSession(o)
    BY <2>1, <2>3
  <2>9. LinesInv'
    BY <1>t, <2>4, <2>5, <2>6, <2>7, <2>8, SessionOpened
  <2>10. \A u \in Tasks : task'[u] = task[u] \/ task'[u].op = "free"
    BY <2>2
  <2> QED BY <1>t, <2>1, <2>2, <2>9, <2>10, LinksKept, PurseKept DEF SessionsIInv, Deleting
<1>6. ASSUME NEW t \in Tasks, NEW s \in DOMAIN sessions, FindSession(t, s) PROVE SessionsIInv'
  <2>1. /\ TaskGoes(t, "free", [op |-> "claim", session |-> s])
        /\ UNCHANGED <<profile, money, login, sessions, links>>
    BY <1>6 DEF FindSession
  <2>2. /\ DOMAIN task' = Tasks /\ task'[t].op = "claim" /\ task'[t].session = s
        /\ \A u \in Tasks \ {t} : task'[u] = task[u]
    BY <1>g, <2>1
  <2>3. \A u \in Tasks : Opens(u)'
    BY <1>t, <2>1, <2>2 DEF LinesInv, Opens, Spent, Live
  <2>4. LinesInv'
    BY <1>t, <2>1, <2>2, <2>3 DEF LinesInv, AllSpent, OneHeir, Spent, Live
  <2> QED BY <1>t, <2>1, <2>2, <2>4, LinksKept, PurseKept DEF SessionsIInv, Deleting
\* The sessions that a step ends.
<1>7. ASSUME NEW f, sessions' = f, f \in [DOMAIN sessions -> SessionRows],
             \A s \in DOMAIN sessions : f[s].of = sessions[s].of
                                        /\ (f[s].status = "live" => Live(s)),
             UNCHANGED <<profile, money, login, links>>, DOMAIN task' = Tasks,
             \A t \in Tasks : task'[t] = task[t] \/ task'[t].op = "free"
      PROVE  SessionsIInv'
  <2>1. LinesInv'
    BY <1>t, <1>7, SessionsEnd
  <2> QED BY <1>t, <1>7, <2>1, LinksKept, PurseKept DEF SessionsIInv, Deleting
<1>r. ASSUME NEW those
      PROVE  /\ Revoked(those) \in [DOMAIN sessions -> SessionRows]
             /\ \A s \in DOMAIN sessions : /\ Revoked(those)[s].of = sessions[s].of
                                           /\ Revoked(those)[s].status = "live" => Live(s)
  BY <1>s DEF Revoked, Live, SessionRows
<1>8. ASSUME NEW t \in Tasks, ClaimSession(t) PROVE SessionsIInv'
  <2>0. PICK s \in DOMAIN sessions : s = task[t].session
    BY <1>t, <1>8 DEF ClaimSession, LinesInv, Opens
  <2>1. /\ Live(s) /\ sessions' = [sessions EXCEPT ![s] = [sessions[s] EXCEPT !.status = "used"]]
        /\ TaskGoes(t, "claim", [op |-> "open", for |-> s])
           /\ UNCHANGED <<profile, money, login, links>>
    BY <1>8, <2>0 DEF ClaimSession, Unused
  <2>2. /\ DOMAIN task' = Tasks /\ task[t].op = "claim" /\ task'[t].op = "open"
           /\ task'[t].for = s
        /\ \A u \in Tasks \ {t} : task'[u] = task[u]
    BY <1>g, <2>1
  <2>3. PICK f : f = [sessions EXCEPT ![s] = [sessions[s] EXCEPT !.status = "used"]]
    OBVIOUS
  <2>4. /\ f \in [DOMAIN sessions -> SessionRows] /\ f[s].status # "live"
        /\ \A r \in DOMAIN sessions : f[r].of = sessions[r].of
           /\ (f[r].status = "live" => Live(r))
    BY <1>s, <2>3 DEF SessionRows, Live
  <2>5. \A u \in Tasks :
           \/ task'[u] = task[u]
           \/ task'[u].op \notin {"verify", "claim", "open"}
           \/ /\ task[u].op = "claim" /\ task'[u].op = "open" /\ task'[u].for = task[u].session
              /\ Live(task[u].session) /\ f[task[u].session].status # "live"
              /\ \A x \in Tasks \ {u} : task'[x] = task[x]
    BY <2>0, <2>1, <2>2, <2>4
  <2>6. LinesInv'
    BY <1>t, <2>1, <2>3, <2>4, <2>5, SessionsEnd
  <2>7. \A u \in Tasks : task'[u] = task[u] \/ task'[u].op = "open"
    BY <2>2
  <2> QED BY <1>t, <2>1, <2>2, <2>6, <2>7, LinksKept, PurseKept DEF SessionsIInv, Deleting
<1>9. ASSUME NEW t \in Tasks, RefreshRace(t) PROVE SessionsIInv'
  <2>1. TaskEnds(t, "claim") /\ UNCHANGED <<profile, money, login, sessions, links>>
    BY <1>9 DEF RefreshRace
  <2>2. DOMAIN task' = Tasks /\ \A u \in Tasks : task'[u] = task[u] \/ task'[u].op = "free"
    BY <1>e, <2>1
  <2> QED BY <1>t, <2>1, <2>2, LinesKept, LinksKept, PurseKept DEF SessionsIInv, Deleting
<1>10. ASSUME NEW t \in Tasks, HandleTokenTheft(t) PROVE SessionsIInv'
  <2>1. /\ TaskEnds(t, "claim") /\ UNCHANGED <<profile, money, login, links>>
        /\ sessions' = Revoked(DOMAIN sessions)
    BY <1>10 DEF HandleTokenTheft
  <2>2. DOMAIN task' = Tasks /\ \A u \in Tasks : task'[u] = task[u] \/ task'[u].op = "free"
    BY <1>e, <2>1
  <2> QED BY <1>7, <1>r, <2>1, <2>2
<1>11. ASSUME NEW s \in DOMAIN sessions, Logout(s) \/ RevokeOthers(s) PROVE SessionsIInv'
  <2>1. PICK those : sessions' = Revoked(those)
    BY <1>11 DEF Logout, RevokeOthers
  <2>2. UNCHANGED <<profile, money, login, links, task>>
    BY <1>11 DEF Logout, RevokeOthers
  <2> QED BY <1>7, <1>r, <1>t, <2>1, <2>2
<1>12. CASE RevokeAll
  BY <1>7, <1>r, <1>t, <1>12 DEF RevokeAll
<1>13. ASSUME NEW s \in DOMAIN sessions, ExpireSession(s) PROVE SessionsIInv'
  <2>1. PICK f : f = [sessions EXCEPT ![s] = [sessions[s] EXCEPT !.status = "gone"]]
    OBVIOUS
  <2>2. /\ f \in [DOMAIN sessions -> SessionRows]
        /\ \A r \in DOMAIN sessions : f[r].of = sessions[r].of
           /\ (f[r].status = "live" => Live(r))
    BY <1>s, <2>1 DEF SessionRows, Live
  <2>3. sessions' = f /\ UNCHANGED <<profile, money, login, links, task>>
    BY <1>13, <2>1 DEF ExpireSession
  <2> QED BY <1>7, <1>t, <2>2, <2>3
<1>14. ASSUME NEW t \in Tasks, SendLink(t) PROVE SessionsIInv'
  <2> DEFINE n == Len(links)
             mark(k) == IF k <= task[t].older THEN [links[k] EXCEPT !.status = "used"] ELSE links[k]
             row == [status |-> "sent", after |-> task[t].after]
  <2>1. TaskEnds(t, "sending") /\ n < MaxLinks /\ UNCHANGED <<profile, money, login, sessions>>
        /\ links' = Append([k \in DOMAIN links |-> mark(k)], row)
    BY <1>14 DEF SendLink
  <2>2. /\ DOMAIN task' = Tasks /\ task[t].op = "sending" /\ task'[t].op = "free"
        /\ \A u \in Tasks \ {t} : task'[u] = task[u]
    BY <1>e, <2>1
  <2>3. /\ task[t].after \in Nat /\ task[t].older \in Nat
        /\ task[t].after <= task[t].older /\ task[t].older <= n
    BY <1>t, <2>2 DEF LinksInv, SendKnows
  <2>4. /\ links \in Seq(LinkRows) /\ n \in Nat /\ DOMAIN links = 1 .. n
        /\ \A k \in DOMAIN links : links[k] \in LinkRows
    BY <1>t, LenProperties DEF LinksInv
  <2>5. \A k \in 1 .. n : /\ mark(k) \in LinkRows /\ mark(k).after = links[k].after
                          /\ mark(k).status = IF k <= task[t].older THEN "used" ELSE links[k].status
    <3>1. \A r \in LinkRows : /\ [r EXCEPT !.status = "used"] \in LinkRows
                              /\ [r EXCEPT !.status = "used"].after = r.after
                              /\ [r EXCEPT !.status = "used"].status = "used"
      BY DEF LinkRows
    <3> QED BY <2>4, <3>1
  <2>6. row \in LinkRows /\ row.after = task[t].after
    BY <2>3 DEF LinkRows
  <2> HIDE DEF mark, row
  <2>7. PICK f : f = [k \in DOMAIN links |-> mark(k)]
    OBVIOUS
  <2>8. /\ f \in [DOMAIN links -> LinkRows]
        /\ \A k \in 1 .. n : f[k] = mark(k)
    BY <2>4, <2>5, <2>7
  <2>9. f \in Seq(LinkRows) /\ Len(f) = n
    BY <2>4, <2>8, SequenceOver
  <2>10. /\ links' \in Seq(LinkRows) /\ Len(links') = n + 1
         /\ \A k \in 1 .. n : links'[k] = mark(k)
         /\ links'[n + 1] = row
    BY <2>1, <2>6, <2>7, <2>8, <2>9, AppendProperties
  <2>11. DOMAIN links' = 1 .. n + 1 /\ n + 1 <= MaxLinks
    BY <2>1, <2>4, <2>10, LenProperties, SessionsAssumption
  <2> HIDE DEF n
  <2>12. \A k, m \in 1 .. n : k <= links[m].after => links[k].status = "used"
    BY <1>t, <2>4 DEF LinksInv, OlderLinksStop
  <2>13. \A m \in 1 .. n : links[m].after \in Nat /\ links[m].after <= n
    BY <1>t, <2>4 DEF LinksInv, LinkRows, n
  <2>14. OlderLinksStop'
    <3> SUFFICES ASSUME NEW k \in 1 .. n + 1, NEW m \in 1 .. n + 1, k <= links'[m].after
                 PROVE  links'[k].status = "used"
      BY <2>11 DEF OlderLinksStop
    <3>1. CASE m = n + 1
      <4>1. k <= task[t].older /\ k \in 1 .. n
        BY <2>3, <2>4, <2>6, <2>10, <3>1
      <4> QED BY <2>5, <2>10, <4>1
    <3>2. CASE m \in 1 .. n
      <4>1. k <= links[m].after /\ k \in 1 .. n
        BY <2>4, <2>5, <2>10, <2>13, <3>2
      <4> QED BY <2>5, <2>10, <2>12, <3>2, <4>1
    <3> QED BY <2>4, <3>1, <3>2
  <2>15. \A k \in DOMAIN links' : links'[k].after <= n + 1
    <3> SUFFICES ASSUME NEW k \in 1 .. n + 1 PROVE links'[k].after <= n + 1
      BY <2>11
    <3>1. CASE k = n + 1
      BY <2>3, <2>4, <2>6, <2>10, <3>1
    <3>2. CASE k \in 1 .. n
      BY <2>4, <2>5, <2>10, <2>13, <3>2
    <3> QED BY <2>4, <3>1, <3>2
  <2>16. \A u \in Tasks : SendKnows(u)'
    <3> SUFFICES ASSUME NEW u \in Tasks PROVE SendKnows(u)'
      OBVIOUS
    <3>1. SendKnows(u) /\ Len(links') = n + 1 /\ n = Len(links)
      BY <1>t, <2>10 DEF LinksInv, n
    <3> QED BY <2>2, <2>4, <3>1 DEF SendKnows
  <2>17. \A u \in Tasks : task'[u].op = "mail" => task'[u].link \in DOMAIN links'
    BY <1>t, <2>2, <2>4, <2>11 DEF LinksInv
  <2>18. LinksInv'
    BY <2>10, <2>11, <2>14, <2>15, <2>16, <2>17 DEF LinksInv
  <2> QED BY <1>t, <2>1, <2>2, <2>18, LinesKept, PurseKept DEF SessionsIInv, Deleting
<1>23. ASSUME NEW t \in Tasks, BeginSend(t) PROVE SessionsIInv'
  <2>1. TaskGoes(t, "free", [op |-> "send", after |-> Len(links)])
        /\ UNCHANGED <<profile, money, login, sessions, links>>
    BY <1>23 DEF BeginSend
  <2>2. /\ DOMAIN task' = Tasks /\ task'[t].op = "send" /\ task'[t].after = Len(links)
        /\ \A u \in Tasks \ {t} : task'[u] = task[u]
    BY <1>g, <2>1
  <2>3. Len(links) \in Nat
    BY <1>t, LenProperties DEF LinksInv
  <2>4. LinksInv'
    BY <1>t, <2>1, <2>2, <2>3 DEF LinksInv, OlderLinksStop, SendKnows
  <2> QED BY <1>t, <2>1, <2>2, <2>4, LinesKept, PurseKept DEF SessionsIInv, Deleting
<1>24. ASSUME NEW t \in Tasks, FindOlder(t) PROVE SessionsIInv'
  <2>1. /\ task[t].op = "send"
        /\ TaskGoes(t, "send", [op |-> "sending", after |-> task[t].after, older |-> Len(links)])
        /\ UNCHANGED <<profile, money, login, sessions, links>>
    BY <1>24 DEF FindOlder
  <2>2. /\ DOMAIN task' = Tasks
        /\ task'[t].op = "sending" /\ task'[t].after = task[t].after
        /\ task'[t].older = Len(links)
        /\ \A u \in Tasks \ {t} : task'[u] = task[u]
    BY <1>g, <2>1
  <2>3. Len(links) \in Nat /\ task[t].after \in Nat /\ task[t].after <= Len(links)
    BY <1>t, <2>1, LenProperties DEF LinksInv, SendKnows
  <2>4. LinksInv'
    BY <1>t, <2>1, <2>2, <2>3 DEF LinksInv, OlderLinksStop, SendKnows
  <2> QED BY <1>t, <2>1, <2>2, <2>4, LinesKept, PurseKept DEF SessionsIInv, Deleting
<1>15. ASSUME NEW t \in Tasks, NEW k \in DOMAIN links, ReadLink(t, k) PROVE SessionsIInv'
  <2>1. TaskGoes(t, "free", [op |-> "mail", link |-> k])
        /\ UNCHANGED <<profile, money, login, sessions, links>>
    BY <1>15 DEF ReadLink
  <2>2. /\ DOMAIN task' = Tasks /\ task'[t].op = "mail" /\ task'[t].link = k
        /\ \A u \in Tasks \ {t} : task'[u] = task[u]
    BY <1>g, <2>1
  <2>3. LinksInv'
    BY <1>t, <2>1, <2>2 DEF LinksInv, OlderLinksStop, SendKnows
  <2> QED BY <1>t, <2>1, <2>2, <2>3, LinesKept, PurseKept DEF SessionsIInv, Deleting
<1>16. ASSUME NEW t \in Tasks, VerifyEmail(t) PROVE SessionsIInv'
  <2>1. TaskEnds(t, "mail") /\ UNCHANGED <<money, login, sessions>>
    BY <1>16 DEF VerifyEmail
  <2>2. DOMAIN task' = Tasks /\ task[t].op = "mail"
        /\ \A u \in Tasks : task'[u] = task[u] \/ task'[u].op = "free"
    BY <1>e, <2>1
  <2>3. CASE UNCHANGED <<links, profile>>
    BY <1>t, <2>1, <2>2, <2>3, LinesKept, LinksKept, PurseKept DEF SessionsIInv, Deleting
  <2>4. CASE /\ links' = [links EXCEPT ![task[t].link].status = "used"]
             /\ profile' = [profile EXCEPT !.verified = TRUE]
    <3>1. PICK k \in DOMAIN links : k = task[t].link
      BY <1>t, <2>2 DEF LinksInv
    <3>a. links \in [DOMAIN links -> LinkRows]
      BY <1>t DEF LinksInv
    <3>b. /\ [links[k] EXCEPT !.status = "used"] \in LinkRows
          /\ [links[k] EXCEPT !.status = "used"].after = links[k].after
          /\ [links[k] EXCEPT !.status = "used"].status = "used"
      BY <3>a DEF LinkRows
    <3>2. PICK row : row = [links[k] EXCEPT !.status = "used"]
      OBVIOUS
    <3>c. PICK f \in [DOMAIN links -> LinkRows] : f = [links EXCEPT ![k] = row]
      BY <3>a, <3>b, <3>2
    <3>3. f \in Seq(LinkRows) /\ Len(f) = Len(links) /\ DOMAIN f = DOMAIN links
      BY <1>t, SequenceOver DEF LinksInv
    <3>4. links' = f
      BY <2>4, <3>1, <3>2, <3>c
    <3>d. \A j \in DOMAIN links : /\ f[j].after = links[j].after
                                  /\ links[j].status = "used" => f[j].status = "used"
      BY <3>b, <3>2, <3>c
    <3>5. LinksInv'
      BY <1>t, <2>2, <3>3, <3>4, <3>d DEF LinksInv, OlderLinksStop, SendKnows
    <3>6. profile' \in [role : {"user", "admin"}, deleted : BOOLEAN, verified : BOOLEAN]
          /\ profile'.deleted = profile.deleted
      <4> DEFINE Accounts == [role : {"user", "admin"}, deleted : BOOLEAN, verified : BOOLEAN]
      <4>1. \A a \in Accounts : [a EXCEPT !.verified = TRUE] \in Accounts
                                /\ [a EXCEPT !.verified = TRUE].deleted = a.deleted
        OBVIOUS
      <4>2. profile \in Accounts
        BY <1>t DEF PurseInv
      <4> HIDE DEF Accounts
      <4>3. profile' \in Accounts /\ profile'.deleted = profile.deleted
        BY <2>4, <4>1, <4>2, Zenon
      <4> QED BY <4>3 DEF Accounts
    <3>7. PurseInv'
      BY <1>t, <2>1, <2>2, <3>6 DEF PurseInv, money, Deleting
    <3> QED BY <1>t, <2>1, <2>2, <3>5, <3>7, LinesKept DEF SessionsIInv
  <2> QED BY <1>16, <2>3, <2>4 DEF VerifyEmail
\* Money that comes or is announced.
<1>m. ASSUME NEW ops \in SUBSET Deleting, task' = Missing(ops),
             UNCHANGED <<profile, login, sessions, links>>,
             PurseInv'
      PROVE  SessionsIInv'
  <2>1. DOMAIN task' = Tasks
        /\ \A t \in Tasks : task'[t] = task[t] \/ task'[t].op \in Deleting
    BY <1>t, <1>m, MissedBy DEF PurseInv
  <2> QED BY <1>t, <1>m, <2>1, LinesKept, LinksKept DEF SessionsIInv, Deleting
<1>17. CASE DepositPending
  <2>1. /\ incoming = "none" /\ incoming' = "pending"
        /\ task' = Missing({"delete"}) /\ late' = (late \/ profile.deleted)
        /\ UNCHANGED <<profile, purse, login, sessions, links>>
    BY <1>17 DEF DepositPending
  <2>2. late' \in BOOLEAN /\ (late' <=> late \/ profile.deleted)
    BY <1>t, <2>1 DEF PurseInv
  <2>3. {"delete"} \in SUBSET Deleting
    BY DEF Deleting
  <2>4. PurseInv'
    BY <1>t, <2>1, <2>2, <2>3, MissedBy DEF PurseInv
  <2> QED BY <1>m, <2>1, <2>3, <2>4
<1>18. CASE DepositCredited
  <2> DEFINE ops == IF incoming = "pending" THEN {"deposits"} ELSE Deleting
  <2>1. /\ incoming \in {"pending", "failed"} /\ incoming' = "credited" /\ purse' = 1
        /\ task' = Missing(ops) /\ late' = (late \/ (profile.deleted /\ incoming = "failed"))
        /\ UNCHANGED <<profile, login, sessions, links>>
    BY <1>18 DEF DepositCredited
  <2>2. late' \in BOOLEAN /\ (late' <=> late \/ (profile.deleted /\ incoming = "failed"))
    BY <1>t, <2>1 DEF PurseInv
  <2>3. ops \in SUBSET Deleting
    BY DEF Deleting
  <2>4. incoming = "pending" =>
          \A t \in Tasks : task[t].op = "delete" => task[t].missed
    BY <1>t DEF PurseInv, Deleting
  <2>5. \A t \in Tasks : task[t].op \in Deleting => task[t].missed \/ task[t].op \in ops
    BY <2>1, <2>4 DEF Deleting
  <2>6. PurseInv'
    <3> HIDE DEF ops
    <3>1. \A t \in Tasks : task'[t].op \in Deleting =>
            task'[t] \in [op : Deleting, missed : BOOLEAN] /\ task'[t].missed
      BY <1>t, <2>1, <2>3, <2>5, MissedBy DEF PurseInv
    <3>2. profile.deleted => late'
      BY <1>t, <2>1, <2>2 DEF PurseInv
    <3> QED BY <1>t, <2>1, <2>2, <3>1, <3>2 DEF PurseInv
  <2> QED BY <1>m, <2>1, <2>3, <2>6
<1>25. CASE DepositFails \/ MoneyOut
  <2>1. /\ UNCHANGED <<profile, late, login, sessions, links, task>>
        /\ incoming' \in {incoming, "failed"} /\ purse' \in {purse, 0}
    BY <1>25 DEF DepositFails, MoneyOut
  <2>2. PurseInv'
    BY <1>t, <2>1 DEF PurseInv
  <2> QED BY <1>t, <2>1, <2>2, LinesKept, LinksKept DEF SessionsIInv
<1>26. CASE MoneyIn
  <2>1. /\ purse' = 1 /\ task' = Missing(Deleting) /\ late' = (late \/ profile.deleted)
        /\ UNCHANGED <<profile, incoming, login, sessions, links>>
    BY <1>26 DEF MoneyIn
  <2>2. late' \in BOOLEAN /\ (late' <=> late \/ profile.deleted)
    BY <1>t, <2>1 DEF PurseInv
  <2>3. PurseInv'
    BY <1>t, <2>1, <2>2, MissedBy DEF PurseInv
  <2> QED BY <1>m, <2>1, <2>3
<1>19. ASSUME NEW t \in Tasks, CheckBalance(t) PROVE SessionsIInv'
  <2> DEFINE seen == [op |-> "deposits", missed |-> FALSE]
  <2>1. /\ ~profile.deleted /\ purse = 0 /\ TaskGoes(t, "free", seen)
        /\ UNCHANGED <<profile, money, login, sessions, links>>
    BY <1>19 DEF CheckBalance
  <2>2. DOMAIN task' = Tasks /\ task'[t] = seen
        /\ \A u \in Tasks \ {t} : task'[u] = task[u]
    BY <1>g, <2>1
  <2>3. task'[t].op = "deposits" /\ task'[t] \in [op : Deleting, missed : BOOLEAN]
    BY <2>2 DEF Deleting
  <2>4. PurseInv'
    BY <1>t, <2>1, <2>2, <2>3 DEF PurseInv, money
  <2> QED BY <1>t, <2>1, <2>2, <2>3, <2>4, LinesKept, LinksKept DEF SessionsIInv
<1>20. ASSUME NEW t \in Tasks, CheckDeposits(t) PROVE SessionsIInv'
  <2>1. task[t].op = "deposits" /\ UNCHANGED <<profile, money, login, sessions, links>>
    BY <1>20 DEF CheckDeposits
  <2>2. CASE incoming # "pending" /\ TaskGoes(t, "deposits", [task[t] EXCEPT !.op = "delete"])
    <3>1. DOMAIN task' = Tasks /\ task'[t] = [task[t] EXCEPT !.op = "delete"]
          /\ \A u \in Tasks \ {t} : task'[u] = task[u]
      BY <1>g, <2>2
    <3>2. task[t] \in [op : Deleting, missed : BOOLEAN]
      BY <1>t, <2>1 DEF PurseInv, Deleting
    <3>3. /\ task'[t] \in [op : Deleting, missed : BOOLEAN]
          /\ task'[t].op = "delete" /\ task'[t].missed = task[t].missed
      <4>1. \A r \in [op : Deleting, missed : BOOLEAN] :
              /\ [r EXCEPT !.op = "delete"] \in [op : Deleting, missed : BOOLEAN]
              /\ [r EXCEPT !.op = "delete"].op = "delete"
              /\ [r EXCEPT !.op = "delete"].missed = r.missed
        BY DEF Deleting
      <4> QED BY <3>1, <3>2, <4>1
    <3>4. ~task[t].missed => purse = 0
      BY <1>t, <2>1 DEF PurseInv, Deleting
    <3>5. PurseInv'
      BY <1>t, <2>1, <2>2, <3>1, <3>3, <3>4 DEF PurseInv, money
    <3> QED BY <1>t, <2>1, <3>1, <3>3, <3>5, LinesKept, LinksKept DEF SessionsIInv
  <2>3. CASE TaskEnds(t, "deposits")
    <3>1. DOMAIN task' = Tasks /\ \A u \in Tasks : task'[u] = task[u] \/ task'[u].op = "free"
      BY <1>e, <2>3
    <3> QED BY <1>t, <2>1, <3>1, LinesKept, LinksKept, PurseKept DEF SessionsIInv, Deleting
  <2> QED BY <1>20, <2>2, <2>3 DEF CheckDeposits, NoneComing
<1>21. ASSUME NEW t \in Tasks, DeleteAccount(t) PROVE SessionsIInv'
  <2>1. /\ TaskEnds(t, "delete") /\ profile' = [profile EXCEPT !.deleted = TRUE]
        /\ sessions' = [s \in DOMAIN sessions |-> [sessions[s] EXCEPT !.status = "gone"]]
        /\ late' = (late \/ task[t].missed)
        /\ UNCHANGED <<purse, incoming, login, links>>
    BY <1>21 DEF DeleteAccount
  <2>2. /\ DOMAIN task' = Tasks /\ task[t].op = "delete"
           /\ \A u \in Tasks : task'[u] = task[u] \/ task'[u].op = "free"
    BY <1>e, <2>1
  <2>3. PICK f : f = [s \in DOMAIN sessions |-> [sessions[s] EXCEPT !.status = "gone"]]
    OBVIOUS
  <2>4. /\ f \in [DOMAIN sessions -> SessionRows]
        /\ \A r \in DOMAIN sessions : f[r].of = sessions[r].of
           /\ (f[r].status = "live" => Live(r))
    BY <1>s, <2>3 DEF SessionRows, Live
  <2>5. LinesInv'
    BY <1>t, <2>1, <2>2, <2>3, <2>4, SessionsEnd
  <2>6. /\ task[t].missed \in BOOLEAN
        /\ ~task[t].missed => purse = 0 /\ incoming # "pending"
    BY <1>t, <2>2 DEF PurseInv, Deleting
  <2>7. late' \in BOOLEAN /\ (late' <=> late \/ task[t].missed)
    BY <1>t, <2>1, <2>6 DEF PurseInv
  <2>8. profile' \in [role : {"user", "admin"}, deleted : BOOLEAN, verified : BOOLEAN]
    <3>1. profile \in [role : {"user", "admin"}, deleted : BOOLEAN, verified : BOOLEAN]
      BY <1>t DEF PurseInv
    <3> QED BY <2>1, <3>1
  <2>9. PurseInv'
    BY <1>t, <2>1, <2>2, <2>6, <2>7, <2>8 DEF PurseInv, Deleting
  <2> QED BY <1>t, <2>1, <2>2, <2>5, <2>9, LinksKept DEF SessionsIInv
<1>22. CASE UNCHANGED sessionVars
  BY <1>t, <1>22, LinesKept, LinksKept, PurseKept DEF sessionVars, SessionsIInv, money
<1> QED BY <1>1, <1>2, <1>3, <1>4, <1>5, <1>6, <1>8, <1>9, <1>10, <1>11, <1>12, <1>13,
    <1>14, <1>15, <1>16, <1>17,
        <1>18, <1>19, <1>20, <1>21, <1>22, <1>23, <1>24, <1>25, <1>26 DEF NextSessions

\* A login and a refresh token open at most one session each, a refreshed session
\* is over, a confirmation link stops working once another is sent that was asked
\* for after it, and a deleted account has an empty wallet unless money came, or was
\* announced, after the look at it.
THEOREM OneSessionPerLine == SessionsSpec => []SessionsInv
<1>1. InitSessions => SessionsIInv
  <2> SUFFICES ASSUME InitSessions PROVE SessionsIInv
    OBVIOUS
  <2>1. sessions \in Seq(SessionRows) /\ DOMAIN sessions = {} /\ Len(sessions) = 0
        /\ links \in Seq(LinkRows) /\ DOMAIN links = {} /\ Len(links) = 0
    BY EmptySeq DEF InitSessions
  <2>2. LinesInv /\ LinksInv
    BY <2>1, SessionsAssumption DEF InitSessions, LinesInv, LinksInv, AllSpent, Opens,
         OneHeir, OlderLinksStop, SendKnows, Unbusy
  <2>3. PurseInv /\ DOMAIN task = Tasks
    BY DEF InitSessions, PurseInv, Unbusy, Deleting
  <2> QED BY <2>2, <2>3 DEF SessionsIInv
<1>2. SessionsIInv => SessionsInv
  <2> SUFFICES ASSUME SessionsIInv PROVE SessionsInv
    OBVIOUS
  <2>1. \A s \in DOMAIN sessions : s \in Nat /\ s \notin Logins /\ s <= MaxSessions
                                   /\ sessions[s] \in SessionRows
    BY LenProperties, SessionsAssumption DEF SessionsIInv, LinesInv
  <2>2. \A s \in DOMAIN sessions : sessions[s].of \in Logins \cup DOMAIN sessions
    BY DEF SessionsIInv, LinesInv, AllSpent, Spent
  <2>3. OneLiveOfALine
    BY <2>1 DEF SessionsIInv, LinesInv, AllSpent, Spent, OneLiveOfALine
  <2>4. \A k \in DOMAIN links : k <= MaxLinks /\ links[k].status \in {"sent", "used"}
    <3>1. links \in Seq(LinkRows) /\ Len(links) \in Nat /\ Len(links) <= MaxLinks
          /\ DOMAIN links = 1 .. Len(links)
      BY LenProperties DEF SessionsIInv, LinksInv
    <3>2. \A k \in DOMAIN links : links[k] \in LinkRows /\ k <= MaxLinks
      BY <3>1, SessionsAssumption
    <3> QED BY <3>2 DEF LinkRows
  <2>5. SessionsTypeOK
    BY <2>1, <2>2, <2>4 DEF SessionsTypeOK, SessionsIInv, LinesInv, PurseInv, SessionRows
  <2> QED BY <2>3, <2>5 DEF SessionsInv, SessionsIInv, LinesInv, LinksInv, PurseInv,
      DeletedIsEmpty
<1> QED BY <1>1, <1>2, SessionsInductive, PTL DEF SessionsSpec

=============================================================================
