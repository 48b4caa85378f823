------------------------------ MODULE NfcTaps -------------------------------
(***************************************************************************)
(* Tap-to-pay requests: the payee creates a row with a short life and a    *)
(* signed token, a payer claims the row, pays through WalletsService and   *)
(* writes the reference of the transfer into it.  The row is used from the *)
(* claim on; it shows a payment once it has the reference.                 *)
(***************************************************************************)
EXTENDS Shared

CONSTANTS
  Taps,           \* rows of nfc_payment_requests
  TapPayee,
  TapPrice, TapCut, TapFee  \* a tap has a merchant's cut or a payer's fee

Nobody == "nobody"

ASSUME NfcTapsAssumption ==
  /\ TapPayee \in [Taps -> Users] /\ Nobody \notin Users
  /\ TapPrice \in [Taps -> Nat \ {0}]
  /\ TapCut \in [Taps -> Nat] /\ TapFee \in [Taps -> Nat]
  /\ \A t \in Taps : TapCut[t] <= TapPrice[t]
  /\ IsFiniteSet(Taps)

VARIABLES
  tap,       \* "open" until used_at is set, "paid" once there is a reference
  payer,     \* payer_user_id
  overdue,   \* taps whose expires_at has passed
  tapPaid,   \* transfers committed for each tap
  tapCall    \* the pay() handlers and how far they are

tapVars == <<tap, payer, overdue, tapPaid, tapCall>>

NfcTapsTypeOK ==
  /\ wallet \in [Users -> Row]
  /\ tap \in [Taps -> {"none", "open", "used", "paid"}]
  /\ payer \in [Taps -> Users \cup {Nobody}]
  /\ overdue \subseteq Taps
  /\ tapPaid \in [Taps -> Nat]
  /\ tapCall \in [Calls -> {Idle} \cup [op : {"read", "claimed", "funded", "sent"},
                                        id : Taps, by : Users]]

InitNfcTaps ==
  /\ tap = [t \in Taps |-> "none"]
  /\ payer = [t \in Taps |-> Nobody]
  /\ overdue = {}
  /\ tapPaid = [t \in Taps |-> 0]
  /\ tapCall = Idles

TapStep(c, from, to) ==
  /\ tapCall[c].op = from
  /\ tapCall' = [tapCall EXCEPT ![c].op = to]

TapEnd(c, op) ==
  /\ tapCall[c].op = op
  /\ tapCall' = [tapCall EXCEPT ![c] = Idle]

CreateTap(t) ==
  /\ tap[t] = "none"
  /\ tap' = [tap EXCEPT ![t] = "open"]
  /\ UNCHANGED <<wallet, payer, overdue, tapPaid, tapCall>>

TapExpires(t) ==
  /\ tap[t] # "none" /\ t \notin overdue
  /\ overdue' = overdue \cup {t}
  /\ UNCHANGED <<wallet, tap, payer, tapPaid, tapCall>>

\* pay() loads the row: used, expired and own requests are turned away, or
\* answered with the receipt.
ReadTap(c, t, u) ==
  /\ tapCall[c] = Idle
  /\ tap[t] = "open" /\ t \notin overdue /\ u # TapPayee[t]
  /\ tapCall' = [tapCall EXCEPT ![c] = [op |-> "read", id |-> t, by |-> u]]
  /\ UNCHANGED <<wallet, tap, payer, overdue, tapPaid>>

\* where: used_at null, expires_at in the future
Claimable(t) == tap[t] = "open" /\ t \notin overdue

ClaimTap(c) ==
  LET t == tapCall[c].id
  IN  /\ TapStep(c, "read", "claimed")
      /\ Claimable(t)
      /\ tap' = [tap EXCEPT ![t] = "used"]
      /\ payer' = [payer EXCEPT ![t] = tapCall[c].by]
      /\ UNCHANGED <<wallet, overdue, tapPaid>>

\* "This request was already paid or expired"
ClaimTapLost(c) ==
  /\ TapEnd(c, "read")
  /\ ~Claimable(tapCall[c].id)
  /\ UNCHANGED <<wallet, tap, payer, overdue, tapPaid>>

\* sendFunds: PIN and balance ...
FundTap(c) ==
  LET t == tapCall[c].id
  IN  /\ TapStep(c, "claimed", "funded")
      /\ CanSpend(tapCall[c].by, TapPrice[t] + TapFee[t])
      /\ UNCHANGED <<wallet, tap, payer, overdue, tapPaid>>

\* ... and its transaction.
SendTap(c) ==
  LET t == tapCall[c].id
  IN  /\ TapStep(c, "funded", "sent")
      /\ wallet' = Sell(tapCall[c].by, TapPayee[t], TapPrice[t], TapCut[t], TapFee[t])
      /\ tapPaid' = [tapPaid EXCEPT ![t] = @ + 1]
      /\ UNCHANGED <<tap, payer, overdue>>

\* Faulty: a claim is given up by whoever fails after reading the row.
ReleaseAlways(c) ==
  /\ tapCall[c].op \in {"read", "claimed", "funded"}
  /\ tapCall' = [tapCall EXCEPT ![c] = Idle]
  /\ tap' = [tap EXCEPT ![tapCall[c].id] = "open"]
  /\ payer' = [payer EXCEPT ![tapCall[c].id] = Nobody]
  /\ UNCHANGED <<wallet, overdue, tapPaid>>

\* sendFunds failed: the payer's claim is given up, unless the row has a reference.
ReleaseTap(c) ==
  LET t == tapCall[c].id
      mine == payer[t] = tapCall[c].by /\ tap[t] # "paid"
  IN  /\ tapCall[c].op \in {"claimed", "funded"}
      /\ tapCall' = [tapCall EXCEPT ![c] = Idle]
      /\ tap' = IF mine THEN [tap EXCEPT ![t] = "open"] ELSE tap
      /\ payer' = IF mine THEN [payer EXCEPT ![t] = Nobody] ELSE payer
      /\ UNCHANGED <<wallet, overdue, tapPaid>>

RecordTap(c) ==
  /\ TapEnd(c, "sent")
  /\ tap' = [tap EXCEPT ![tapCall[c].id] = "paid"]
  /\ UNCHANGED <<wallet, payer, overdue, tapPaid>>

\* The process restarts: a claim it took stays, paid or not.
TapRestart ==
  /\ \E c \in Calls : tapCall[c] # Idle
  /\ tapCall' = Idles
  /\ UNCHANGED <<wallet, tap, payer, overdue, tapPaid>>

NextNfcTaps ==
  \/ \E t \in Taps : CreateTap(t) \/ TapExpires(t)
  \/ \E c \in Calls :
       \/ \E t \in Taps, u \in Users : ReadTap(c, t, u)
       \/ ClaimTap(c) \/ ClaimTapLost(c) \/ FundTap(c) \/ SendTap(c)
       \/ ReleaseTap(c) \/ RecordTap(c)
  \/ TapRestart

----------------------------------------------------------------------------
(* Properties.                                                             *)

\* "Single use": one row leads to one transfer, whatever payers tap, fail,
\* retry or lose to a restart, and a row that can be claimed has led to none.
TapPaidOnce ==
  \A t \in Taps : tapPaid[t] <= IF tap[t] \in {"none", "open"} THEN 0 ELSE 1

\* The payee's screen shows "paid" only after the money moved.
TapShownIsPaid == \A t \in Taps : tap[t] = "paid" => tapPaid[t] = 1

\* Two payers tap one session, the job expires it and payments fail under way: it is
\* paid once, and shown as paid only when it was.
NfcTapsInv == NfcTapsTypeOK /\ TapPaidOnce /\ TapShownIsPaid

=============================================================================
