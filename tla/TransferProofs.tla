--------------------------- MODULE TransferProofs ---------------------------
(***************************************************************************)
(* Transfers between users and the answers to requests lose no money and   *)
(* pay what they report, for every set of users, transfers, requests, fees *)
(* and handlers. TransfersInv is inductive.                                *)
(***************************************************************************)
EXTENDS Transfers, WalletSums

----------------------------------------------------------------------------
(* What a payment does to the wallets and to the handlers.                 *)

\* The two or three updates of a payment between users.
LEMMA TransferRows ==
  ASSUME TypeOK, NEW p \in Payments, NEW x \in Int, NEW y \in Int, NEW z \in Int
  PROVE  /\ Credit(Credit(Debit(wallet, From[p], x), To[p], y), Platform, z) \in [Users -> Row]
         /\ Total(Credit(Credit(Debit(wallet, From[p], x), To[p], y), Platform, z)) = Total(wallet) - x + y + z
         /\ Credit(Debit(wallet, From[p], x), To[p], y) \in [Users -> Row]
         /\ Total(Credit(Debit(wallet, From[p], x), To[p], y)) = Total(wallet) - x + y
         /\ Total(wallet) \in Int
<1>1. From[p] \in Users /\ To[p] \in Users /\ Platform \in Users /\ IsFiniteSet(Users)
      /\ wallet \in [Users -> Row]
  BY TransferAssumption DEF TypeOK
<1>2. Total(wallet) \in Int
  BY <1>1, IncrementTotals
<1> DEFINE a == From[p]
           b == To[p]
<1>3. a \in Users /\ b \in Users
  BY <1>1
<1> HIDE DEF a, b
<1>4. /\ Credit(Credit(Debit(wallet, a, x), b, y), Platform, z) \in [Users -> Row]
      /\ Total(Credit(Credit(Debit(wallet, a, x), b, y), Platform, z)) = Total(wallet) - x + y + z
      /\ Credit(Debit(wallet, a, x), b, y) \in [Users -> Row]
      /\ Total(Credit(Debit(wallet, a, x), b, y)) = Total(wallet) - x + y
  <2>1. /\ Credit(Credit(Debit(wallet, a, x), b, y), Platform, z) \in [Users -> Row]
        /\ Total(Credit(Credit(Debit(wallet, a, x), b, y), Platform, z)) = Total(wallet) - x + y + z
    <3>1. a \in Users /\ b \in Users /\ Platform \in Users /\ IsFiniteSet(Users)
          /\ wallet \in [Users -> Row]
          /\ x \in Int /\ y \in Int /\ z \in Int
      BY <1>1, <1>3
    <3> HIDE DEF TypeOK
    <3> QED BY ONLY <3>1, PaymentTotals
  <2>2. /\ Credit(Debit(wallet, a, x), b, y) \in [Users -> Row]
        /\ Total(Credit(Debit(wallet, a, x), b, y)) = Total(wallet) - x + y
    BY <1>1, <1>3, MoveTotals
  <2> QED BY <2>1, <2>2
<1> QED BY <1>2, <1>4 DEF a, b

\* Handlers keep the shape their place in the code gives them.
LEMMA TransfersTyped == TypeOK /\ [Next]_vars => TypeOK'
<1> SUFFICES ASSUME TypeOK, [Next]_vars PROVE TypeOK'
  OBVIOUS
<1> USE DEF TypeOK, client, Finish, Handler, Statuses
<1> DEFINE Sends == [op : {"send"}, id : Transfers, open : BOOLEAN]
           Answers == [op : {"accept", "rejected", "cancelled"}, id : Requests, open : {TRUE}]
<1>0. /\ \A c \in Calls : call[c].op = "send" => call[c] \in Sends /\ call[c].id \in Transfers
      /\ \A c \in Calls : call[c].op \in {"accept", "rejected", "cancelled"} => call[c].id \in Requests
  <2>1. \A c \in Calls : call[c] = Idle \/ call[c] \in Sends \/ call[c] \in Answers
    OBVIOUS
  <2>2. Idle.op = "idle"
    BY DEF Idle
  <2> QED BY <2>1, <2>2
<1>1. ASSUME NEW c \in Calls, NEW t \in Transfers, BeginSend(c, t) PROVE TypeOK'
  <2>1. Handler("send", t) \in Sends
    BY Zenon
  <2> QED BY <1>1, <2>1 DEF BeginSend
<1>2. /\ \A p \in Payments : Amount[p] \in Int /\ Fee[p] \in Int
       /\ \A t \in Transfers : MerchantFee[t] \in Int
  BY TransferAssumption
<1>3. ASSUME NEW c \in Calls, CommitSend(c) PROVE TypeOK'
  <2>1. call[c].id \in Transfers /\ call[c].id \in Payments
    BY <1>0, <1>3 DEF CommitSend, Payments
  <2>2. wallet' \in [Users -> Row]
    <3> DEFINE t == call[c].id
               x == Amount[t] + Fee[t]
               y == Amount[t] - MerchantFee[t]
               z == MerchantFee[t] + Fee[t]
    <3>1. x \in Int /\ y \in Int /\ z \in Int /\ t \in Payments
      BY <1>2, <2>1
    <3>2. wallet' = Credit(Credit(Debit(wallet, From[t], x), To[t], y), Platform, z)
      BY <1>3 DEF CommitSend
    <3> HIDE DEF t, x, y, z
    <3> QED BY <3>1, <3>2, TransferRows
  <2>3. /\ call' \in [Calls -> {Idle} \cup Sends \cup Answers]
        /\ transactions' \in [Payments -> Nat]
        /\ recent' \subseteq Transfers /\ key' \subseteq Transfers
           /\ unanswered' \subseteq Transfers
    <3>1. call' = [call EXCEPT ![c] = Idle]
      BY <1>3 DEF CommitSend
    <3>2. transactions' = [transactions EXCEPT ![call[c].id] = @ + 1]
      BY <1>3 DEF CommitSend
    <3>3. recent' = recent \cup {call[c].id} /\ key' \subseteq key
          /\ unanswered' \subseteq unanswered
      BY <1>3 DEF CommitSend
    <3>4. transactions \in [Payments -> Nat] /\ call[c].id \in Payments
      BY <2>1
    <3>5. transactions' \in [Payments -> Nat]
      BY ONLY <3>2, <3>4
    <3> QED BY <2>1, <3>1, <3>3, <3>5
  <2>4. request' = request /\ sweep' = sweep
    BY <1>3 DEF CommitSend
  <2> QED BY <2>2, <2>3, <2>4
<1>4. ASSUME NEW c \in Calls, Disconnect(c) PROVE TypeOK'
  <2>1. [call[c] EXCEPT !.open = FALSE] \in Sends
    BY <1>0, <1>4 DEF Disconnect
  <2> QED BY <1>4, <2>1 DEF Disconnect
<1>5. ASSUME NEW t \in Transfers, Minute(t) \/ KeyExpires(t) PROVE TypeOK'
  BY <1>5 DEF Minute, KeyExpires
<1>6. ASSUME NEW r \in Requests, RequestFunds(r) \/ Deadline(r) \/ ExpireListed(r) \/ Expire(r)
      PROVE TypeOK'
  <2>1. CASE RequestFunds(r)
    BY <2>1 DEF RequestFunds, NewRequest
  <2>2. CASE Deadline(r)
    <3>1. [request[r] EXCEPT !.due = TRUE] \in [status : Statuses, due : BOOLEAN]
      BY ZenonT(30)
    <3> QED BY <2>2, <3>1 DEF Deadline
  <2>3. CASE ExpireListed(r) \/ Expire(r)
    <3>1. [request[r] EXCEPT !.status = "expired"] \in [status : Statuses, due : BOOLEAN]
      OBVIOUS
    <3>2. request' = [request EXCEPT ![r] = [request[r] EXCEPT !.status = "expired"]]
      BY <2>3 DEF ExpireListed, Expire
    <3>3. request' \in [Requests -> [status : Statuses, due : BOOLEAN]]
      <4> HIDE DEF Statuses
      <4> QED BY <3>1, <3>2
    <3> QED BY <2>3, <3>3 DEF ExpireListed, Expire
  <2> QED BY <1>6, <2>1, <2>2, <2>3
<1>7. ASSUME NEW c \in Calls, NEW r \in Requests, BeginAccept(c, r) PROVE TypeOK'
  BY <1>7 DEF BeginAccept
<1>8. ASSUME NEW c \in Calls, NEW r \in Requests, NEW s \in {"rejected", "cancelled"},
             BeginClose(c, r, s)
      PROVE  TypeOK'
  BY <1>8 DEF BeginClose
<1>9. ASSUME NEW c \in Calls, CommitAccept(c) PROVE TypeOK'
  <2>1. call[c].id \in Requests /\ call[c].id \in Payments
    BY <1>0, <1>9 DEF CommitAccept, Payments
  <2>2. wallet' \in [Users -> Row]
    <3> DEFINE r == call[c].id
               x == Amount[r] + Fee[r]
    <3>1. x \in Int /\ Amount[r] \in Int /\ r \in Payments
      BY <1>2, <2>1
    <3>2. wallet' = Credit(Debit(wallet, From[r], x), To[r], Amount[r])
      BY <1>9 DEF CommitAccept, Paid
    <3> HIDE DEF r, x
    <3> QED BY <3>1, <3>2, TransferRows
  <2>3. /\ call' \in [Calls -> {Idle} \cup Sends \cup Answers]
        /\ transactions' \in [Payments -> Nat]
        /\ request' \in [Requests -> [status : Statuses, due : BOOLEAN]]
    <3>1. call' = [call EXCEPT ![c] = Idle]
      BY <1>9 DEF CommitAccept
    <3>2. transactions' = [transactions EXCEPT ![call[c].id] = @ + 1]
      BY <1>9 DEF CommitAccept
    <3>3. request' = [request EXCEPT ![call[c].id].status = "completed"]
      BY <1>9 DEF CommitAccept
    <3>4. transactions \in [Payments -> Nat] /\ call[c].id \in Payments
      BY <2>1
    <3>5. transactions' \in [Payments -> Nat]
      BY ONLY <3>2, <3>4
    <3> QED BY <2>1, <3>1, <3>3, <3>5
  <2> QED BY <1>9, <2>2, <2>3 DEF CommitAccept
<1>10. ASSUME NEW c \in Calls, CommitClose(c) PROVE TypeOK'
  BY ZenonT(30), <1>0, <1>10 DEF CommitClose
<1>11. ASSUME NEW c \in Calls, Fail(c) PROVE TypeOK'
  BY <1>11 DEF Fail
<1>12. CASE StartSweep
  BY <1>12 DEF StartSweep
<1>13. CASE Restart
  BY <1>13 DEF Restart
<1>14. CASE UNCHANGED vars
  BY <1>14 DEF vars
<1> HIDE DEF TypeOK, Sends, Answers
<1> QED BY <1>1, <1>3, <1>4, <1>5, <1>6, <1>7, <1>8, <1>9, <1>10, <1>11, <1>12, <1>13,
    <1>14 DEF Next

\* Sends, accepted requests and the sweep keep every payment accounted for.
LEMMA TransfersInductive == TransfersInv /\ [Next]_vars => TransfersInv'
<1> SUFFICES ASSUME TransfersInv, [Next]_vars PROVE TransfersInv'
  OBVIOUS
<1>0. TypeOK /\ TypeOK'
  BY TransfersTyped DEF TransfersInv
<1>1. ASSUME UNCHANGED <<wallet, transactions>>,
             \A r \in Requests : request'[r].status = "completed" => request[r].status = "completed"
      PROVE  TransfersInv'
  BY <1>0, <1>1 DEF TransfersInv, Conserved, CompletedIsPaid, Total
<1>2. ASSUME NEW c \in Calls, CommitSend(c) PROVE TransfersInv'
  <2>1. call[c].id \in Transfers
    BY <1>0, <1>2 DEF TypeOK, CommitSend, Idle
  <2>2. PICK t \in Transfers : t = call[c].id
    BY <2>1
  <2>3. /\ t \in Payments /\ t \notin Requests /\ IsFiniteSet(Users) /\ wallet \in [Users -> Row]
        /\ From[t] \in Users /\ To[t] \in Users /\ Platform \in Users
        /\ Amount[t] \in Int /\ Fee[t] \in Int /\ MerchantFee[t] \in Int
    BY <1>0, <2>2, TransferAssumption DEF Payments, TypeOK
  <2>4. wallet' = Credit(Credit(Debit(wallet, From[t], Amount[t] + Fee[t]), To[t], Amount[t] - MerchantFee[t]),
                          Platform, MerchantFee[t] + Fee[t])
    BY <1>2, <2>2 DEF CommitSend
  <2>6. Total(wallet') = Total(wallet)
    <3> DEFINE x == Amount[t] + Fee[t]
               y == Amount[t] - MerchantFee[t]
               z == MerchantFee[t] + Fee[t]
    <3>1. x \in Int /\ y \in Int /\ z \in Int /\ x = y + z
      BY <2>3
    <3>2. wallet' = Credit(Credit(Debit(wallet, From[t], x), To[t], y), Platform, z)
      BY <2>4
    <3> HIDE DEF x, y, z
    <3>3. Total(wallet') = Total(wallet) - x + y + z /\ Total(wallet) \in Int
      BY <1>0, <2>3, <3>1, <3>2, TransferRows
    <3> QED BY <3>1, <3>3
  <2>7. \A r \in Requests : transactions'[r] = transactions[r] /\ request' = request
    BY <1>0, <1>2, <2>2, <2>3 DEF CommitSend, TypeOK, Payments
  <2>8. [r \in Requests |-> transactions'[r] * Fee[r]] = [r \in Requests |-> transactions[r] * Fee[r]]
    BY <2>7
  <2>9. Conserved'
    BY <2>6, <2>8 DEF TransfersInv, Conserved, Total
  <2>10. CompletedIsPaid'
    BY <2>7 DEF TransfersInv, CompletedIsPaid
  <2> QED BY <1>0, <2>9, <2>10 DEF TransfersInv
<1>3. ASSUME NEW c \in Calls, CommitAccept(c) PROVE TransfersInv'
  <2>1. call[c].id \in Requests
    BY <1>0, <1>3 DEF TypeOK, CommitAccept, Idle
  <2>2. PICK q \in Requests : q = call[c].id
    BY <2>1
  <2>3. /\ q \in Payments /\ IsFiniteSet(Users) /\ IsFiniteSet(Requests)
           /\ wallet \in [Users -> Row]
        /\ From[q] \in Users /\ To[q] \in Users
        /\ Amount[q] \in Int /\ Fee[q] \in Nat
    BY <1>0, <2>2, TransferAssumption, FS_Subset DEF Payments, TypeOK
  <2>4. Total(wallet') = Total(wallet) - (Amount[q] + Fee[q]) + Amount[q] /\ Total(wallet) \in Int
    <3> DEFINE x == Amount[q] + Fee[q]
    <3>1. x \in Int /\ wallet' = Credit(Debit(wallet, From[q], x), To[q], Amount[q])
      BY <1>3, <2>2, <2>3 DEF CommitAccept, Paid
    <3> HIDE DEF x
    <3>2. Total(wallet') = Total(wallet) - x + Amount[q] /\ Total(wallet) \in Int
      BY <1>0, <2>3, <3>1, TransferRows
    <3> QED BY <3>2 DEF x
  <2>5. /\ transactions' = [transactions EXCEPT ![q] = @ + 1]
        /\ request' = [request EXCEPT ![q].status = "completed"]
        /\ transactions \in [Payments -> Nat]
    BY <1>0, <1>3, <2>2 DEF CommitAccept, TypeOK
  <2> DEFINE f == [r \in Requests |-> transactions[r] * Fee[r]]
             g == [r \in Requests |-> transactions'[r] * Fee[r]]
  <2>6. f \in [Requests -> Int] /\ g \in [Requests -> Int]
    BY <1>0, TransferAssumption DEF TypeOK, Payments
  <2>7. \A r \in Requests \ {q} : g[r] = f[r]
    BY <2>5 DEF Payments
  <2>8. g[q] - f[q] = Fee[q]
    <3>1. transactions'[q] = transactions[q] + 1 /\ transactions[q] \in Nat
      BY <2>3, <2>5
    <3>2. \A n, m \in Nat : (n + 1) * m = n * m + m /\ n * m \in Int
      OBVIOUS
    <3> QED BY <2>3, <3>1, <3>2
  <2> HIDE DEF f, g
  <2>9. SumOver(g, Requests) = SumOver(f, Requests) + Fee[q] /\ SumOver(f, Requests) \in Int
    BY <2>3, <2>6, <2>7, <2>8, SumOverUpdate, SumOverBound
  <2>10. Total(wallet) + SumOver(f, Requests) = SumOver(InitialBalance, Users)
    BY DEF TransfersInv, Conserved, f
  <2>11. Total(wallet') + SumOver(g, Requests) = SumOver(InitialBalance, Users)
    BY <2>3, <2>4, <2>9, <2>10
  <2>12. Conserved'
    BY <2>11 DEF Conserved, Total, g
  <2>13. CompletedIsPaid'
    BY <1>0, <2>2, <2>3, <2>5 DEF TransfersInv, CompletedIsPaid, TypeOK, Payments
  <2> QED BY <1>0, <2>12, <2>13 DEF TransfersInv
<1>4. ASSUME NEW c \in Calls,
             \/ \E t \in Transfers : BeginSend(c, t)
             \/ \E r \in Requests : BeginAccept(c, r) \/ \E s \in {"rejected", "cancelled"} : BeginClose(c, r, s)
             \/ Disconnect(c) \/ Fail(c)
      PROVE  TransfersInv'
  BY <1>1, <1>4 DEF BeginSend, BeginAccept, BeginClose, Disconnect, Fail
<1>5. ASSUME NEW t \in Transfers, Minute(t) \/ KeyExpires(t) PROVE TransfersInv'
  BY <1>1, <1>5 DEF Minute, KeyExpires
<1>6. ASSUME NEW r \in Requests, RequestFunds(r) \/ Deadline(r) \/ ExpireListed(r) \/ Expire(r)
      PROVE  TransfersInv'
  BY <1>0, <1>1, <1>6 DEF RequestFunds, NewRequest, Deadline, ExpireListed, Expire, TypeOK
<1>7. ASSUME NEW c \in Calls, CommitClose(c) PROVE TransfersInv'
  BY <1>0, <1>1, <1>7 DEF CommitClose, TypeOK
<1>8. CASE StartSweep \/ Restart \/ UNCHANGED vars
  BY <1>1, <1>8 DEF StartSweep, Restart, vars
<1> QED BY <1>2, <1>3, <1>4, <1>5, <1>6, <1>7, <1>8 DEF Next

\* Between sends, requests answered twice and the expiry sweep, wallets lose only
\* the fees of requests, and a request shown as completed was paid.
THEOREM NothingLost == Spec => []TransfersInv
<1>1. Init => TransfersInv
  <2> SUFFICES ASSUME Init PROVE TransfersInv
    OBVIOUS
  <2>1. TypeOK
    BY TransferAssumption DEF Init, TypeOK, Statuses, Row
  <2>2. Conserved
    <3>1. [u \in DOMAIN wallet |-> wallet[u].balance] = InitialBalance /\ DOMAIN wallet = Users
      BY TransferAssumption DEF Init
    <3>2. Total(wallet) = SumOver(InitialBalance, Users)
      BY <3>1 DEF Total
    <3> DEFINE f == [r \in Requests |-> transactions[r] * Fee[r]]
    <3>3. \A r \in Requests : f[r] = 0
      BY TransferAssumption DEF Init, Payments
    <3>4. SumOver(f, Requests) = 0
      <4>1. IsFiniteSet(Requests)
        BY TransferAssumption, FS_Subset DEF Payments
      <4> HIDE DEF f
      <4> QED BY <3>3, <4>1, SumOverZero
    <3>5. SumOver(InitialBalance, Users) \in Int
      <4>1. InitialBalance \in [Users -> Int] /\ IsFiniteSet(Users)
        BY TransferAssumption
      <4> QED BY <4>1, SumOverBound
    <3> QED BY <3>2, <3>4, <3>5 DEF Conserved
  <2>3. CompletedIsPaid
    BY DEF Init, CompletedIsPaid
  <2> QED BY <2>1, <2>2, <2>3 DEF TransfersInv
<1> QED BY <1>1, TransfersInductive, PTL DEF Spec

=============================================================================
