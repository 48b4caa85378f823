---------------------------- MODULE MCCollections ---------------------------
(***************************************************************************)
(* Three components that collect money, checked side by side: each         *)
(* behaviour is one of QrSales, of NfcTaps, or of WebhookIntake with the   *)
(* events of one payment.                                                  *)
(***************************************************************************)
EXTENDS QrSales, NfcTaps, WebhookIntake, TLC

CONSTANTS owner, customer, farm, shop1, shop2,
          online, till,
          coffee, lunch,
          order, topup, basket, sale_failed, sale_paid, topup_paid, topup_less,
          basket_failed, basket_paid

VARIABLE part

vars == <<part, wallet, qrVars, tapVars, hookVars>>

MCUsers == {owner, customer, farm}
MCInitialBalance == owner :> 0 @@ customer :> 3 @@ farm :> 2

MCShopOf == online :> shop1 @@ till :> shop2
MCPrice == online :> 2 @@ till :> 2
MCCut == online :> 1 @@ till :> 1
MCSurcharge == till :> 1

MCTapPayee == coffee :> owner @@ lunch :> farm
MCTapPrice == coffee :> 2 @@ lunch :> 1
MCTapCut == coffee :> 1 @@ lunch :> 0
MCTapFee == coffee :> 0 @@ lunch :> 1

MCEventOf == sale_failed :> order @@ sale_paid :> order
               @@ topup_paid :> topup @@ topup_less :> topup
               @@ basket_failed :> basket @@ basket_paid :> basket
MCSends == sale_failed :> 1 @@ sale_paid :> 2 @@ topup_paid :> 1 @@ topup_less :> 1
             @@ basket_failed :> 1 @@ basket_paid :> 2

Init ==
  /\ part \in {"sales", "taps"} \cup Payments
  /\ InitWallets /\ InitQrSales /\ InitNfcTaps /\ InitWebhookIntake

SalesStep == part = "sales" /\ NextQrSales /\ UNCHANGED <<part, tapVars, hookVars>>
TapsStep == part = "taps" /\ NextNfcTaps /\ UNCHANGED <<part, qrVars, hookVars>>

Hook == part \in Payments /\ UNCHANGED <<part, wallet, qrVars, tapVars>>
HookStep ==
  /\ Hook /\ NextWebhookIntake
  /\ \A e \in Events : sent'[e] > 0 => EventOf[e] = part

Next == SalesStep \/ TapsStep \/ HookStep

\* Some handler, job or callback that started goes on, and Bull and Node start
\* what they hold; each event is tried finitely often, so no worker needs more.
Fairness ==
  /\ WF_vars(Hook /\ \E w \in Workers : Work(w))
  /\ WF_vars(Hook /\ \E w \in Workers, e \in Events : StartJob(w, e))
  /\ WF_vars(Hook /\ \E w \in Workers, e \in Events : StartCallback(w, e))

FairSpec == Init /\ [][Next]_vars /\ Fairness

=============================================================================
