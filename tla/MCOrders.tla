------------------------------ MODULE MCOrders ------------------------------
(***************************************************************************)
(* Components that move a user's FARM on an order, the two that keep it in *)
(* step with the Algorand chain, and the sessions of an account, checked   *)
(* side by side: each behaviour is one of them.                            *)
(***************************************************************************)
EXTENDS Bookings, AgentPayments, X402, AiActions, ChainTransfers, ChainDeposits,
        Sessions, TLC

CONSTANTS buyer, vendor, farm,
          flight, room,
          seeds, tools,
          tip, stay, bill, again,
          meal,
          usdc, algo,
          Parts   \* the components to check

VARIABLE part

vars ==
  <<part, wallet, bookVars, agentVars, x402Vars, aiVars, chainVars, depositVars, sessionVars>>

MCUsers == {buyer, vendor, farm}
MCInitialBalance == buyer :> 4 @@ vendor :> 0 @@ farm :> 1

MCGuest == flight :> buyer @@ room :> buyer
MCFare == flight :> 3 @@ room :> 2
MCGivenBack == room :> 1

MCAsked == seeds :> 2 @@ tools :> 1

MCCost == tip :> 2 @@ stay :> 1 @@ bill :> 1 @@ again :> 1
MCDue == meal :> 1
MCIntentOf == bill :> meal @@ again :> meal

MCPayee == usdc :> buyer @@ algo :> buyer

\* Of the four actions, a behaviour has the two that pay the intent or the other two.
OneKind ==
  \/ \A a \in DOMAIN IntentOf : action[a] = "none"
  \/ \A a \in Actions \ DOMAIN IntentOf : action[a] = "none"

Init ==
  /\ part \in Parts
  /\ InitWallets /\ InitBookings /\ InitAgentPayments /\ InitX402 /\ InitAiActions
  /\ InitChainTransfers /\ InitChainDeposits /\ InitSessions
  /\ part # "sessions" => profile.role = "user"

Next ==
  /\ UNCHANGED part
  /\ \/ /\ part = "bookings" /\ NextBookings
        /\ UNCHANGED <<agentVars, x402Vars, aiVars, chainVars, depositVars, sessionVars>>
     \/ /\ part = "agents" /\ NextAgentPayments
        /\ UNCHANGED <<bookVars, x402Vars, aiVars, chainVars, depositVars, sessionVars>>
     \/ /\ part = "x402" /\ NextX402
        /\ UNCHANGED <<wallet, bookVars, agentVars, aiVars, chainVars, depositVars, sessionVars>>
     \/ /\ part = "assistant" /\ NextAiActions
        /\ OneKind'
        /\ UNCHANGED <<bookVars, agentVars, x402Vars, chainVars, depositVars, sessionVars>>
     \/ /\ part = "outbox" /\ NextChainTransfers
        /\ UNCHANGED <<wallet, bookVars, agentVars, x402Vars, aiVars, depositVars, sessionVars>>
     \/ /\ part = "accounts" /\ NextChainDeposits
        /\ UNCHANGED <<wallet, bookVars, agentVars, x402Vars, aiVars, chainVars, sessionVars>>
     \/ /\ part = "sessions" /\ NextSessions
        /\ UNCHANGED <<wallet, bookVars, agentVars, x402Vars, aiVars, chainVars, depositVars>>

Spec == Init /\ [][Next]_vars

\* Handlers, rows that are not created yet and actions for one intent are alike.
Symmetry ==
  {p @@ q @@ r : p \in Permutations(Calls), q \in Permutations(Requests),
                 r \in Permutations({bill, again})}

=============================================================================
