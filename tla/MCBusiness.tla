----------------------------- MODULE MCBusiness ------------------------------
(***************************************************************************)
(* Five components of a business account, checked side by side: each       *)
(* behaviour is one of Commerce, ApiPayouts, HookDeliveries, Tokens or     *)
(* Projects, there one project of two milestones with two investors, who   *)
(* each may invest twice, and two requests at a time.                      *)
(***************************************************************************)
EXTENDS Commerce, ApiPayouts, HookDeliveries, Projects, Tokens, TLC

CONSTANTS bill, donate, webBill, laterBill, webDonate, webAgain,
          ann, ben, grower, farm, i1, i2, i3, i4,
          Failing,  \* checkouts whose payment may be reported failed, a bound
          Offices   \* the components to check

VARIABLE office

vars == <<office, shopVars, payoutVars, deliveryVars, wallet, projVars, tokenVars>>

MCWebForLinks == webDonate :> donate @@ webAgain :> donate
MCWebFor == webBill :> bill @@ laterBill :> bill @@ MCWebForLinks
MCMaxUses == donate :> 1

MCUsers == {ann, ben, grower, farm}
MCInitialBalance == ann :> 6 @@ ben :> 4 @@ grower :> 0 @@ farm :> 0
MCBacker == i1 :> ann @@ i2 :> ann @@ i3 :> ben @@ i4 :> ben
MCPut == i1 :> 2 @@ i2 :> 1 @@ i3 :> 1 @@ i4 :> 1
MCPlans == {<<1, 3>>, <<2>>}

Init ==
  /\ office \in Offices
  /\ InitCommerce /\ InitApiPayouts /\ InitHookDeliveries
  /\ InitWallets /\ InitProjects /\ InitTokens

\* Nobody handles x: an invoice and a link have nothing to do with each other.
Untouched(x) ==
  /\ IF x \in Invoices THEN invoice'[x] = invoice[x] ELSE link'[x] = link[x]
  /\ \A k \in Checkouts : WebFor[k] = x => webPay'[k] = webPay[k]
  /\ \A s \in Servers : serving'[s].op = "pay" => serving'[s].id # x

ShopStep ==
  /\ office \in {"invoices", "links"} /\ NextCommerce
  /\ \A k \in Checkouts \ Failing : provider'[k] # "failed"
  /\ office = "invoices" => \A l \in Links : Untouched(l)
  /\ office = "links" => \A i \in Invoices : Untouched(i)
  /\ UNCHANGED <<payoutVars, deliveryVars, wallet, projVars, tokenVars>>

PayoutStep ==
  /\ office = "payouts" /\ NextApiPayouts
  /\ UNCHANGED <<shopVars, deliveryVars, wallet, projVars, tokenVars>>

DeliveryStep ==
  /\ office = "webhooks" /\ NextHookDeliveries
  /\ UNCHANGED <<shopVars, payoutVars, wallet, projVars, tokenVars>>

ProjectStep ==
  /\ office = "projects" /\ NextProjects
  /\ UNCHANGED <<shopVars, payoutVars, deliveryVars, tokenVars>>

TokenStep ==
  /\ office = "tokens" /\ NextTokens
  /\ UNCHANGED <<shopVars, payoutVars, deliveryVars, wallet, projVars>>

Next ==
  /\ UNCHANGED office
  /\ ShopStep \/ PayoutStep \/ DeliveryStep \/ ProjectStep \/ TokenStep

Spec == Init /\ [][Next]_vars

FairSpec == Spec /\ FairCommerce /\ FairDeliveries

=============================================================================
