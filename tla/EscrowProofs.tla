---------------------------- MODULE EscrowProofs ----------------------------
(***************************************************************************)
(* The safety properties of Escrow hold for every set of users, contracts, *)
(* amounts, percentage fees and concurrent handlers.                       *)
(*                                                                         *)
(* None of Solvent, LockBacked and Settled is inductive alone: that a      *)
(* release cannot free more than is locked (Solvent) rests on the locked   *)
(* balance being the sum of what open contracts hold (LockBacked), and     *)
(* what a contract holds is an amount, never a debt, only because its      *)
(* milestones are accounted for (Settled).  IInv is their conjunction with *)
(* the remark that a contract not yet funded has released nothing.         *)
(***************************************************************************)
EXTENDS Escrow, WalletSums

\* A contract that does not exist yet has released nothing.
Fresh == \A e \in Escrows : escrow[e].status = "none" => escrow[e].released = 0

IInv == TypeOK /\ Fresh /\ Settled /\ Solvent /\ LockBacked /\ Conserved

----------------------------------------------------------------------------
(* What open contracts hold.                                               *)

\* An open contract holds a positive part of its principal, a closed one nothing.
LEMMA HeldBounds ==
  ASSUME TypeOK, Settled, NEW e \in Escrows
  PROVE  /\ Held(e) \in 0 .. MaxAmount /\ Amount[e] \in 1 .. MaxAmount
         /\ escrow[e].status \in Funded =>
              Held(e) = Remaining(e) /\ Remaining(e) \in 1 .. MaxAmount
BY EscrowAssumption DEF TypeOK, Settled, Held, Remaining, Contract, Entries, Funded

\* What a contract holds is locked in its buyer's wallet.
LEMMA HeldIsLocked ==
  TypeOK /\ Settled /\ LockBacked => \A u \in Users : 0 <= wallet[u].locked
<1> SUFFICES ASSUME TypeOK, Settled, LockBacked, NEW u \in Users
             PROVE  0 <= wallet[u].locked
  OBVIOUS
<1>1. HeldFor(u) \in [Escrows -> Int] /\ \A e \in Escrows : HeldFor(u)[e] >= 0
  BY HeldBounds, EscrowAssumption DEF HeldFor
<1>2. SumOver(HeldFor(u), Escrows) >= 0
  BY <1>1, SumOverBound, EscrowAssumption
<1> QED BY <1>2 DEF LockBacked

\* A step that changes what one contract holds, and its buyer's locked balance,
\* by the same amount keeps every locked balance backed.
LEMMA BackingStep ==
  ASSUME TypeOK, Settled, LockBacked, TypeOK', Settled',
         NEW e \in Escrows, NEW d \in Int,
         Held(e)' = Held(e) + d,
         \A x \in Escrows \ {e} : escrow'[x] = escrow[x],
         \A u \in Users : wallet'[u].locked
                            = wallet[u].locked + (IF u = Buyer[e] THEN d ELSE 0)
  PROVE  LockBacked'
<1> SUFFICES ASSUME NEW u \in Users
             PROVE  wallet'[u].locked = SumOver(HeldFor(u)', Escrows)
  BY DEF LockBacked
<1> DEFINE f == HeldFor(u)
           g == HeldFor(u)'
<1>1. f \in [Escrows -> Int]
  BY HeldBounds DEF HeldFor
<1>2. \A x \in Escrows : Held(x)' \in Int
  BY EscrowAssumption DEF TypeOK, Held, Remaining, Contract
<1>3. g \in [Escrows -> Int]
  BY <1>2 DEF HeldFor
<1>4. \A x \in Escrows \ {e} : g[x] = f[x]
  BY DEF HeldFor, Held, Remaining
<1>5. g[e] - f[e] = IF u = Buyer[e] THEN d ELSE 0
  <2>1. g[e] = (IF Buyer[e] = u THEN Held(e)' ELSE 0)
    BY DEF HeldFor
  <2>2. f[e] = (IF Buyer[e] = u THEN Held(e) ELSE 0)
    BY DEF HeldFor
  <2>3. Held(e) \in Int
    BY HeldBounds
  <2> HIDE DEF f, g
  <2> QED BY <2>1, <2>2, <2>3
<1>6. wallet[u].locked = SumOver(f, Escrows)
  BY DEF LockBacked
<1> HIDE DEF f, g
<1>7. SumOver(g, Escrows) = SumOver(f, Escrows) + (g[e] - f[e])
  BY <1>1, <1>3, <1>4, SumOverUpdate, EscrowAssumption
<1>8. wallet'[u].locked = SumOver(g, Escrows)
  BY <1>5, <1>6, <1>7
<1> QED BY <1>8 DEF g

\* A step on one contract that moves no money out of the wallets together, keeps
\* its buyer's lock in line with what it holds, and leaves every owner's
\* available balance non-negative keeps the rest of the invariant.
LEMMA MoneyStep ==
  ASSUME IInv, TypeOK', Settled', Fresh',
         NEW e \in Escrows, NEW d \in Int,
         Held(e)' = Held(e) + d,
         \A x \in Escrows \ {e} : escrow'[x] = escrow[x],
         \A u \in Users : wallet'[u].locked
                            = wallet[u].locked + (IF u = Buyer[e] THEN d ELSE 0),
         \A u \in Users : wallet'[u].locked <= wallet'[u].balance,
         Total(wallet') = Total(wallet)
  PROVE  IInv'
<1>1. LockBacked'
  BY BackingStep DEF IInv
<1>2. TypeOK' /\ Settled' /\ LockBacked' => (\A u \in Users : 0 <= wallet[u].locked)'
  BY HeldIsLocked, PTL
<1>3. Solvent'
  BY <1>1, <1>2 DEF Solvent
<1>4. Conserved'
  BY DEF Conserved, IInv
<1> QED BY <1>1, <1>3, <1>4 DEF IInv

\* A step that leaves the money and what every contract holds alone.
LEMMA QuietStep ==
  ASSUME IInv, TypeOK', wallet' = wallet, ledger' = ledger,
         \A e \in Escrows : /\ escrow'[e].released = escrow[e].released
                            /\ \/ escrow'[e].status = escrow[e].status
                               \/ escrow[e].status \in Funded /\ escrow'[e].status \in Funded
  PROVE  IInv'
<1>1. \A u \in Users : HeldFor(u)' = HeldFor(u)
  <2>1. \A e \in Escrows : Held(e)' = Held(e)
    BY DEF Held, Remaining
  <2> QED BY <2>1 DEF HeldFor
<1>2. LockBacked'
  BY <1>1 DEF IInv, LockBacked
<1>3. Settled' /\ Fresh'
  BY DEF IInv, Settled, Fresh, Funded, Terminal
<1>4. Solvent' /\ Conserved'
  BY DEF IInv, Solvent, Conserved
<1> QED BY <1>2, <1>3, <1>4 DEF IInv

----------------------------------------------------------------------------
(* What the payments do to the wallets.                                    *)

\* Paying the seller moves `amount` out of the buyer's lock, and loses nothing.
LEMMA PaySellerRows ==
  ASSUME TypeOK, NEW e \in Escrows, NEW amount \in 0 .. MaxAmount,
         PaySeller(e, amount)
  PROVE  /\ wallet' \in [Users -> Row]
         /\ Total(wallet') = Total(wallet)
         /\ \A u \in Users :
              /\ wallet'[u].locked
                   = wallet[u].locked + (IF u = Buyer[e] THEN -amount ELSE 0)
              /\ wallet[u].locked <= wallet[u].balance
                   => wallet'[u].locked <= wallet'[u].balance
<1> DEFINE fee == ReleaseFee[amount]
           net == amount - ReleaseFee[amount]
           w1 == Free(wallet, Buyer[e], amount)
           w2 == Debit(w1, Buyer[e], amount)
           w3 == Credit(w2, Seller[e], net)
           w4 == Credit(w3, Platform, fee)
           If(u, w, a) == IF u = w THEN a ELSE 0
<1>0. /\ fee \in Int /\ fee >= 0 /\ net \in Int /\ net >= 0 /\ amount = net + fee
      /\ Buyer[e] \in Users /\ Seller[e] \in Users /\ Platform \in Users
      /\ IsFiniteSet(Users) /\ wallet \in [Users -> Row] /\ amount \in Int
  <2>1. fee \in 0 .. MaxAmount /\ fee <= amount /\ MaxAmount \in Nat
    BY FeeAssumption, EscrowAssumption
  <2> HIDE DEF fee
  <2>2. net = amount - fee
    BY DEF fee
  <2> HIDE DEF net
  <2> QED BY <2>1, <2>2, EscrowAssumption DEF TypeOK
<1>5. wallet' = w4
  BY DEF PaySeller
<1> HIDE DEF fee, net
<1>1. /\ w1 \in [Users -> Row] /\ Total(w1) = Total(wallet) /\ Total(w1) \in Int
      /\ \A u \in Users : /\ w1[u].balance = wallet[u].balance
                          /\ w1[u].locked = wallet[u].locked - If(u, Buyer[e], amount)
  <2>1. w1 \in [Users -> Row]
    BY <1>0, Increments
  <2>2. Total(w1) = Total(wallet) /\ Total(wallet) \in Int
    BY <1>0, IncrementTotals
  <2>3. \A u \in Users : /\ w1[u].balance = wallet[u].balance
                      /\ w1[u].locked = wallet[u].locked - If(u, Buyer[e], amount)
    BY <1>0, Increments
  <2> HIDE DEF w1
  <2> QED BY <2>1, <2>2, <2>3, <1>0
<1> HIDE DEF w1
<1>2. /\ w2 \in [Users -> Row] /\ Total(w2) = Total(w1) - amount /\ Total(w2) \in Int
      /\ \A u \in Users : /\ w2[u].balance = w1[u].balance - If(u, Buyer[e], amount)
                          /\ w2[u].locked = w1[u].locked
  <2>1. w2 \in [Users -> Row]
    BY <1>0, <1>1, Increments
  <2>2. Total(w2) = Total(w1) - amount
    BY <1>0, <1>1, IncrementTotals
  <2>3. \A u \in Users : /\ w2[u].balance = w1[u].balance - If(u, Buyer[e], amount)
                      /\ w2[u].locked = w1[u].locked
    BY <1>0, <1>1, Increments
  <2> HIDE DEF w2
  <2> QED BY <2>1, <2>2, <2>3, <1>0, <1>1
<1> HIDE DEF w2
<1>3. /\ w3 \in [Users -> Row] /\ Total(w3) = Total(w2) + net /\ Total(w3) \in Int
      /\ \A u \in Users : /\ w3[u].balance = w2[u].balance + If(u, Seller[e], net)
                          /\ w3[u].locked = w2[u].locked
  <2>1. w3 \in [Users -> Row]
    BY <1>0, <1>2, Increments
  <2>2. Total(w3) = Total(w2) + net
    BY <1>0, <1>2, IncrementTotals
  <2>3. \A u \in Users : /\ w3[u].balance = w2[u].balance + If(u, Seller[e], net)
                      /\ w3[u].locked = w2[u].locked
    BY <1>0, <1>2 DEF Credit, Row
  <2> HIDE DEF w3
  <2> QED BY <2>1, <2>2, <2>3, <1>0, <1>2
<1> HIDE DEF w3
<1>4. /\ w4 \in [Users -> Row] /\ Total(w4) = Total(w3) + fee
      /\ \A u \in Users : /\ w4[u].balance = w3[u].balance + If(u, Platform, fee)
                          /\ w4[u].locked = w3[u].locked
  <2>1. w4 \in [Users -> Row]
    BY <1>0, <1>3, Increments
  <2>2. Total(w4) = Total(w3) + fee
    BY <1>0, <1>3, IncrementTotals
  <2>3. \A u \in Users : /\ w4[u].balance = w3[u].balance + If(u, Platform, fee)
                      /\ w4[u].locked = w3[u].locked
    BY <1>0, <1>3 DEF Credit, Row
  <2> HIDE DEF w4
  <2> QED BY <2>1, <2>2, <2>3, <1>0, <1>3
<1> HIDE DEF w4
<1>6. Total(w4) = Total(wallet)
  BY <1>0, <1>1, <1>2, <1>3, <1>4
<1>7. ASSUME NEW u \in Users
      PROVE  /\ w4[u].locked = wallet[u].locked + (IF u = Buyer[e] THEN -amount ELSE 0)
             /\ wallet[u].locked <= wallet[u].balance => w4[u].locked <= w4[u].balance
  <2> DEFINE Is(x) == x[u].balance \in Int /\ x[u].locked \in Int
  <2>1. Is(wallet) /\ Is(w1) /\ Is(w2) /\ Is(w3) /\ Is(w4)
    BY <1>0, <1>1, <1>2, <1>3, <1>4 DEF Row
  <2>2. w4[u].balance >= w2[u].balance
    BY <1>0, <1>3, <1>4, <2>1
  <2>3. w4[u].balance >= wallet[u].balance - If(u, Buyer[e], amount)
    BY <1>0, <1>1, <1>2, <2>1, <2>2
  <2>4. w4[u].locked = wallet[u].locked - If(u, Buyer[e], amount)
    BY <1>1, <1>2, <1>3, <1>4
  <2> QED BY <1>0, <2>1, <2>3, <2>4
<1> QED BY <1>4, <1>5, <1>6, <1>7

\* Creating a contract costs the buyer the fee and locks the principal.
LEMMA CreateRows ==
  ASSUME TypeOK, NEW e \in Escrows, CanFund(e),
         wallet' = Credit(Hold(Debit(wallet, Buyer[e], CreationFee[Amount[e]]),
                               Buyer[e], Amount[e]),
                          Platform, CreationFee[Amount[e]])
  PROVE  /\ wallet' \in [Users -> Row]
         /\ Total(wallet') = Total(wallet)
         /\ \A u \in Users :
              /\ wallet'[u].locked
                   = wallet[u].locked + (IF u = Buyer[e] THEN Amount[e] ELSE 0)
              /\ wallet[u].locked <= wallet[u].balance
                   => wallet'[u].locked <= wallet'[u].balance
<1> DEFINE fee == CreationFee[Amount[e]]
           w1 == Debit(wallet, Buyer[e], fee)
           w2 == Hold(w1, Buyer[e], Amount[e])
           w3 == Credit(w2, Platform, fee)
           If(u, w, a) == IF u = w THEN a ELSE 0
<1>0. /\ fee \in Int /\ fee >= 0 /\ Amount[e] \in Int
      /\ Buyer[e] \in Users /\ Platform \in Users
      /\ IsFiniteSet(Users) /\ wallet \in [Users -> Row]
  <2>1. fee \in 0 .. MaxAmount /\ MaxAmount \in Nat /\ Amount[e] \in 1 .. MaxAmount
    BY FeeAssumption, EscrowAssumption
  <2> HIDE DEF fee
  <2> QED BY <2>1, EscrowAssumption DEF TypeOK
<1>5. wallet' = w3
  OBVIOUS
<1>6. wallet[Buyer[e]].balance - wallet[Buyer[e]].locked >= Amount[e] + fee
  BY DEF CanFund, Available, Required
<1> HIDE DEF fee
<1>1. /\ w1 \in [Users -> Row] /\ Total(w1) = Total(wallet) - fee /\ Total(wallet) \in Int
      /\ \A u \in Users : /\ w1[u].balance = wallet[u].balance - If(u, Buyer[e], fee)
                          /\ w1[u].locked = wallet[u].locked
  <2>1. w1 \in [Users -> Row]
    BY <1>0, Increments
  <2>2. Total(w1) = Total(wallet) - fee /\ Total(wallet) \in Int
    BY <1>0, IncrementTotals
  <2>3. \A u \in Users : /\ w1[u].balance = wallet[u].balance - If(u, Buyer[e], fee)
                         /\ w1[u].locked = wallet[u].locked
    BY <1>0 DEF Debit, Row
  <2> HIDE DEF w1
  <2> QED BY <2>1, <2>2, <2>3
<1> HIDE DEF w1
<1>2. /\ w2 \in [Users -> Row] /\ Total(w2) = Total(w1)
      /\ \A u \in Users : /\ w2[u].balance = w1[u].balance
                          /\ w2[u].locked = w1[u].locked + If(u, Buyer[e], Amount[e])
  <2>1. w2 \in [Users -> Row]
    BY <1>0, <1>1, Increments
  <2>2. Total(w2) = Total(w1)
    BY <1>0, <1>1, IncrementTotals
  <2>3. \A u \in Users : /\ w2[u].balance = w1[u].balance
                         /\ w2[u].locked = w1[u].locked + If(u, Buyer[e], Amount[e])
    BY <1>0, <1>1 DEF Hold, Row
  <2> HIDE DEF w2
  <2> QED BY <2>1, <2>2, <2>3
<1> HIDE DEF w2
<1>3. /\ w3 \in [Users -> Row] /\ Total(w3) = Total(w2) + fee
      /\ \A u \in Users : /\ w3[u].balance = w2[u].balance + If(u, Platform, fee)
                          /\ w3[u].locked = w2[u].locked
  <2>1. w3 \in [Users -> Row]
    BY <1>0, <1>2, Increments
  <2>2. Total(w3) = Total(w2) + fee
    BY <1>0, <1>2, IncrementTotals
  <2>3. \A u \in Users : /\ w3[u].balance = w2[u].balance + If(u, Platform, fee)
                         /\ w3[u].locked = w2[u].locked
    BY <1>0, <1>2 DEF Credit, Row
  <2> HIDE DEF w3
  <2> QED BY <2>1, <2>2, <2>3
<1> HIDE DEF w3
<1>4. Total(w3) = Total(wallet)
  BY <1>0, <1>1, <1>2, <1>3
<1>7. ASSUME NEW u \in Users
      PROVE  /\ w3[u].locked = wallet[u].locked + (IF u = Buyer[e] THEN Amount[e] ELSE 0)
             /\ wallet[u].locked <= wallet[u].balance => w3[u].locked <= w3[u].balance
  <2> DEFINE Is(x) == x[u].balance \in Int /\ x[u].locked \in Int
  <2>1. Is(wallet) /\ Is(w1) /\ Is(w2) /\ Is(w3)
    BY <1>0, <1>1, <1>2, <1>3 DEF Row
  <2>2. w3[u].balance >= wallet[u].balance - If(u, Buyer[e], fee)
    BY <1>0, <1>1, <1>2, <1>3, <2>1
  <2>3. w3[u].locked = wallet[u].locked + If(u, Buyer[e], Amount[e])
    BY <1>1, <1>2, <1>3
  <2> QED BY <1>0, <1>6, <2>1, <2>2, <2>3
<1> QED BY <1>3, <1>4, <1>5, <1>7

----------------------------------------------------------------------------
(* One lemma per transaction.                                              *)

LEMMA ReleaseStep ==
  ASSUME IInv, NEW e \in Escrows, NEW from \in Funded, ExecuteRelease(e, from),
         call' \in [Calls -> {Idle} \cup
                      [op : Ops, escrow : Escrows, part : 0 .. MaxAmount]],
         sweep' \subseteq Escrows
  PROVE  IInv'
<1> DEFINE part == Remaining(e)
<1>1. /\ part \in 1 .. MaxAmount /\ Held(e) = part /\ escrow[e].status \in Funded
      /\ MaxAmount \in Nat
  BY HeldBounds, EscrowAssumption DEF IInv, ExecuteRelease
<1>2. PaySeller(e, part)
  BY DEF ExecuteRelease
<1>3. /\ escrow' = [escrow EXCEPT ![e].status = "completed"]
      /\ ledger' = [ledger EXCEPT ![e].released = @ + part]
  BY DEF ExecuteRelease
<1>4. part = Amount[e] - escrow[e].released /\ Amount[e] \in 1 .. MaxAmount
  BY EscrowAssumption DEF Remaining
<1> HIDE DEF part
<1>5. /\ wallet' \in [Users -> Row]
      /\ Total(wallet') = Total(wallet)
      /\ \A u \in Users :
           /\ wallet'[u].locked
                = wallet[u].locked + (IF u = Buyer[e] THEN -part ELSE 0)
           /\ wallet[u].locked <= wallet[u].balance
                => wallet'[u].locked <= wallet'[u].balance
  BY <1>1, <1>2, PaySellerRows DEF IInv
<1>6. TypeOK'
  BY SMTT(30), <1>1, <1>3, <1>5 DEF IInv, TypeOK, Contract, Entries, Statuses
<1>7. Settled' /\ Fresh'
  BY <1>1, <1>3, <1>4 DEF IInv, TypeOK, Contract, Entries, Settled, Fresh, Funded, Terminal
<1>8. Held(e)' = Held(e) + (-part)
  <2>1. escrow'[e].status = "completed"
    BY <1>3 DEF IInv, TypeOK, Contract
  <2>2. Held(e)' = 0
    BY <2>1 DEF Held, Funded
  <2> QED BY <1>1, <2>2
<1>9. \A x \in Escrows \ {e} : escrow'[x] = escrow[x]
  BY <1>3 DEF IInv, TypeOK
<1> QED BY <1>1, <1>5, <1>6, <1>7, <1>8, <1>9, MoneyStep DEF IInv, Solvent

LEMMA RefundStep ==
  ASSUME IInv, NEW e \in Escrows, ExecuteRefund(e),
         call' \in [Calls -> {Idle} \cup
                      [op : Ops, escrow : Escrows, part : 0 .. MaxAmount]],
         sweep' \subseteq Escrows
  PROVE  IInv'
<1> DEFINE part == Remaining(e)
<1>1. /\ part \in 1 .. MaxAmount /\ Held(e) = part /\ escrow[e].status \in Funded
      /\ MaxAmount \in Nat
  BY HeldBounds, EscrowAssumption DEF IInv, ExecuteRefund, Funded
<1>2. wallet' = Free(wallet, Buyer[e], part)
  BY DEF ExecuteRefund
<1>3. /\ escrow' = [escrow EXCEPT ![e].status = "refunded"]
      /\ ledger' = [ledger EXCEPT ![e].refunded = @ + part]
  BY DEF ExecuteRefund
<1>4. part = Amount[e] - escrow[e].released /\ Amount[e] \in 1 .. MaxAmount
  BY EscrowAssumption DEF Remaining
<1> HIDE DEF part
<1>5. /\ wallet' \in [Users -> Row]
      /\ Total(wallet') = Total(wallet)
  <2>1. /\ wallet \in [Users -> Row] /\ Buyer[e] \in Users /\ part \in Int
        /\ IsFiniteSet(Users)
    BY <1>1, EscrowAssumption DEF IInv, TypeOK
  <2>2. Free(wallet, Buyer[e], part) \in [Users -> Row]
    BY <2>1, Increments
  <2>3. Total(Free(wallet, Buyer[e], part)) = Total(wallet)
    BY <2>1, IncrementTotals
  <2> QED BY <1>2, <2>2, <2>3
<1>6. \A u \in Users :
        /\ wallet'[u].locked = wallet[u].locked + (IF u = Buyer[e] THEN -part ELSE 0)
        /\ wallet'[u].locked <= wallet'[u].balance
  BY <1>1, <1>2 DEF IInv, TypeOK, Solvent, Free, Row
<1>7. TypeOK'
  BY <1>1, <1>3, <1>5 DEF IInv, TypeOK, Contract, Entries, Statuses
<1>8. Settled' /\ Fresh'
  <2>1. /\ escrow'[e].status = "refunded"
        /\ \A x \in Escrows \ {e} : escrow'[x] = escrow[x] /\ ledger'[x] = ledger[x]
    BY <1>3 DEF IInv, TypeOK, Contract
  <2>2. /\ ledger'[e].released = ledger[e].released /\ ledger'[e].locked = ledger[e].locked
        /\ ledger'[e].refunded = ledger[e].refunded + part
    BY <1>3 DEF IInv, TypeOK, Entries
  <2>3. /\ ledger[e].locked = Amount[e] /\ ledger[e].refunded = 0
        /\ ledger[e].released = escrow[e].released /\ escrow[e].released \in Nat
    BY <1>1 DEF IInv, TypeOK, Contract, Settled
  <2>4. ledger'[e].released + ledger'[e].refunded = ledger'[e].locked
    BY <1>1, <1>4, <2>2, <2>3
  <2> QED BY <2>1, <2>4 DEF IInv, Settled, Fresh, Funded, Terminal
<1>9. Held(e)' = Held(e) + (-part)
  <2>1. escrow'[e].status = "refunded"
    BY <1>3 DEF IInv, TypeOK, Contract
  <2>2. Held(e)' = 0
    BY <2>1 DEF Held, Funded
  <2> QED BY <1>1, <2>2
<1>10. \A x \in Escrows \ {e} : escrow'[x] = escrow[x]
  BY <1>3 DEF IInv, TypeOK
<1> QED BY <1>1, <1>5, <1>6, <1>7, <1>8, <1>9, <1>10, MoneyStep

LEMMA PartialStep ==
  ASSUME IInv, NEW c \in Calls, NEW e \in Escrows, NEW part \in 1 .. MaxAmount,
         CommitPartial(c, e, part)
  PROVE  IInv'
<1>1. /\ Held(e) = Amount[e] - escrow[e].released /\ Amount[e] \in 1 .. MaxAmount
      /\ escrow[e].status = "active" /\ escrow[e].released + part <= Amount[e]
      /\ escrow[e].released \in Nat /\ MaxAmount \in Nat
  BY HeldBounds, EscrowAssumption
     DEF IInv, TypeOK, Contract, CommitPartial, Funded, Remaining
<1>2. PaySeller(e, part)
  BY DEF CommitPartial
<1>3. /\ escrow' = [escrow EXCEPT
                      ![e].released = @ + part,
                      ![e].status = IF escrow[e].released + part = Amount[e]
                                    THEN "completed" ELSE @]
      /\ ledger' = [ledger EXCEPT ![e].released = @ + part]
      /\ call' = [call EXCEPT ![c] = Idle] /\ sweep' = sweep
  BY DEF CommitPartial, Finish
<1>4. /\ wallet' \in [Users -> Row]
      /\ Total(wallet') = Total(wallet)
      /\ \A u \in Users :
           /\ wallet'[u].locked
                = wallet[u].locked + (IF u = Buyer[e] THEN -part ELSE 0)
           /\ wallet[u].locked <= wallet[u].balance
                => wallet'[u].locked <= wallet'[u].balance
  BY <1>1, <1>2, PaySellerRows DEF IInv
<1>5. /\ escrow'[e].status
           = IF escrow[e].released + part = Amount[e] THEN "completed" ELSE "active"
      /\ escrow'[e].released = escrow[e].released + part
      /\ \A x \in Escrows \ {e} : escrow'[x] = escrow[x]
  BY <1>1, <1>3 DEF IInv, TypeOK, Contract
<1>6. TypeOK'
  <2>1. escrow' \in [Escrows -> Contract]
    <3> DEFINE status == IF escrow[e].released + part = Amount[e]
                         THEN "completed" ELSE escrow[e].status
               row == [status |-> status, released |-> escrow[e].released + part,
                       due |-> escrow[e].due]
    <3>1. status \in Statuses
      BY DEF IInv, TypeOK, Contract, Statuses
    <3>2. DOMAIN escrow' = Escrows /\ escrow' = [x \in Escrows |-> escrow'[x]]
      BY <1>3 DEF IInv, TypeOK
    <3>4. escrow'[e] = row
      BY ZenonT(30), <1>1, <1>3 DEF IInv, TypeOK, Contract
    <3> HIDE DEF status
    <3>3. row \in Contract
      BY <1>1, <3>1 DEF IInv, TypeOK, Contract
    <3> HIDE DEF row
    <3> QED BY <3>2, <3>3, <3>4, <1>5 DEF IInv, TypeOK
  <2>2. ledger' \in [Escrows -> Entries]
    BY <1>1, <1>3 DEF IInv, TypeOK, Entries
  <2>3. /\ call' \in [Calls -> {Idle} \cup
                        [op : Ops, escrow : Escrows, part : 0 .. MaxAmount]]
        /\ sweep' \subseteq Escrows
    BY <1>3 DEF IInv, TypeOK
  <2> QED BY <1>4, <2>1, <2>2, <2>3 DEF TypeOK
<1>7. Settled'
  <2>1. /\ ledger'[e].released = ledger[e].released + part
        /\ ledger'[e].locked = ledger[e].locked /\ ledger'[e].refunded = ledger[e].refunded
        /\ \A x \in Escrows \ {e} : ledger'[x] = ledger[x]
    BY <1>3 DEF IInv, TypeOK, Entries
  <2>2. ledger[e].locked = Amount[e] /\ ledger[e].refunded = 0
        /\ ledger[e].released = escrow[e].released
    BY <1>1 DEF IInv, Settled, Funded
  <2>3. \A x \in Escrows \ {e} : ledger'[x] = ledger[x] /\ escrow'[x] = escrow[x]
    BY <2>1, <1>5
  <2> QED BY <1>1, <1>5, <2>1, <2>2, <2>3 DEF IInv, Settled, Funded, Terminal
<1>8. Fresh'
  BY <1>5 DEF IInv, Fresh
<1>9. Held(e)' = Held(e) + (-part)
  BY <1>1, <1>5 DEF Held, Remaining, Funded
<1> QED BY <1>1, <1>4, <1>5, <1>6, <1>7, <1>8, <1>9, MoneyStep DEF IInv, Solvent

LEMMA CreateStep ==
  ASSUME IInv, NEW c \in Calls, NEW e \in Escrows, CommitCreate(c, e)
  PROVE  IInv'
<1>1. /\ escrow[e].status = "none" /\ escrow[e].released = 0 /\ Held(e) = 0
      /\ Amount[e] \in 1 .. MaxAmount /\ MaxAmount \in Nat
      /\ ledger[e].released = 0 /\ ledger[e].refunded = 0
  BY EscrowAssumption DEF IInv, Fresh, Settled, Held, Funded, CommitCreate
<1>2. /\ escrow' = [escrow EXCEPT ![e].status = "active"]
      /\ ledger' = [ledger EXCEPT ![e].locked = Amount[e]]
      /\ call' = [call EXCEPT ![c] = Idle] /\ sweep' = sweep
  BY DEF CommitCreate, Finish
<1>3. /\ wallet' \in [Users -> Row]
      /\ Total(wallet') = Total(wallet)
      /\ \A u \in Users :
           /\ wallet'[u].locked
                = wallet[u].locked + (IF u = Buyer[e] THEN Amount[e] ELSE 0)
           /\ wallet[u].locked <= wallet[u].balance
                => wallet'[u].locked <= wallet'[u].balance
  BY CreateRows DEF IInv, CommitCreate
<1>4. /\ escrow'[e].status = "active" /\ escrow'[e].released = 0
      /\ \A x \in Escrows \ {e} : escrow'[x] = escrow[x]
  BY <1>1, <1>2 DEF IInv, TypeOK, Contract
<1>5. TypeOK'
  BY <1>1, <1>2, <1>3 DEF IInv, TypeOK, Contract, Entries, Statuses
<1>6. Settled' /\ Fresh'
  BY <1>1, <1>2, <1>4 DEF IInv, TypeOK, Entries, Settled, Fresh, Funded, Terminal
<1>7. Held(e)' = Held(e) + Amount[e]
  BY <1>1, <1>4 DEF Held, Remaining, Funded
<1> QED BY <1>1, <1>3, <1>4, <1>5, <1>6, <1>7, MoneyStep DEF IInv, Solvent

----------------------------------------------------------------------------
(* The induction.                                                          *)

LEMMA Initially == Init => IInv
<1> SUFFICES ASSUME Init PROVE IInv
  OBVIOUS
<1>1. TypeOK
  <2>1. wallet \in [Users -> Row]
    BY EscrowAssumption DEF Init, Row
  <2> QED BY <2>1 DEF Init, TypeOK, Contract, Entries, Statuses
<1>2. Fresh /\ Settled
  BY DEF Init, Fresh, Settled, Funded, Terminal
<1>3. Solvent
  BY EscrowAssumption DEF Init, Solvent
<1>4. LockBacked
  <2> SUFFICES ASSUME NEW u \in Users
               PROVE  wallet[u].locked = SumOver(HeldFor(u), Escrows)
    BY DEF LockBacked
  <2>1. \A e \in Escrows : HeldFor(u)[e] = 0
    BY DEF Init, HeldFor, Held, Funded
  <2>2. SumOver(HeldFor(u), Escrows) = 0
    BY <2>1, SumOverZero, EscrowAssumption
  <2> QED BY <2>2 DEF Init
<1>5. Conserved
  <2>1. [u \in DOMAIN wallet |-> wallet[u].balance] = InitialBalance
        /\ DOMAIN wallet = Users
    BY EscrowAssumption DEF Init
  <2> QED BY <2>1 DEF Conserved, Total
<1> QED BY <1>1, <1>2, <1>3, <1>4, <1>5 DEF IInv

LEMMA Inductive == IInv /\ [Next]_vars => IInv'
<1> SUFFICES ASSUME IInv, [Next]_vars PROVE IInv'
  OBVIOUS
<1> DEFINE CallType == [Calls -> {Idle} \cup
                         [op : Ops, escrow : Escrows, part : 0 .. MaxAmount]]
<1>0. /\ TypeOK /\ MaxAmount \in Nat /\ call \in CallType /\ sweep \subseteq Escrows
      /\ \A c \in Calls : [call EXCEPT ![c] = Idle] \in CallType
  BY EscrowAssumption DEF IInv, TypeOK
<1>1. ASSUME NEW c \in Calls, NEW op \in Ops, NEW e \in Escrows,
             NEW part \in 0 .. MaxAmount, Start(c, op, e, part)
      PROVE  IInv'
  <2>1. call' \in CallType
    BY <1>0, <1>1 DEF Start, Request
  <2> QED BY <1>1, <2>1, QuietStep DEF IInv, TypeOK, Start
<1>2. ASSUME NEW c \in Calls, NEW e \in Escrows, BeginCreate(c, e) PROVE IInv'
  BY <1>0, <1>1, <1>2 DEF BeginCreate, Ops
<1>3. ASSUME NEW c \in Calls, NEW e \in Escrows, CommitCreate(c, e) PROVE IInv'
  BY <1>3, CreateStep
<1>4. ASSUME NEW c \in Calls, NEW e \in Escrows, BeginRelease(c, e) PROVE IInv'
  BY <1>0, <1>1, <1>4 DEF BeginRelease, Ops
<1>5. ASSUME NEW c \in Calls, NEW e \in Escrows, CommitRelease(c, e) PROVE IInv'
  BY <1>0, <1>5, ReleaseStep DEF CommitRelease, Finish, Funded
<1>6. ASSUME NEW c \in Calls, NEW e \in Escrows, NEW part \in 1 .. MaxAmount,
             BeginPartial(c, e, part)
      PROVE  IInv'
  BY <1>0, <1>1, <1>6 DEF BeginPartial, Ops
<1>7. ASSUME NEW c \in Calls, NEW e \in Escrows, NEW part \in 1 .. MaxAmount,
             CommitPartial(c, e, part)
      PROVE  IInv'
  BY <1>7, PartialStep
<1>8. ASSUME NEW c \in Calls, NEW e \in Escrows, BeginDispute(c, e) PROVE IInv'
  BY <1>0, <1>1, <1>8 DEF BeginDispute, Ops
<1>9. ASSUME NEW c \in Calls, NEW e \in Escrows, CommitDispute(c, e) PROVE IInv'
  <2>1. /\ escrow[e].status = "active" /\ wallet' = wallet /\ ledger' = ledger
        /\ escrow' = [escrow EXCEPT ![e].status = "disputed"]
        /\ call' \in CallType /\ sweep' = sweep
    BY <1>0, <1>9 DEF CommitDispute, Finish
  <2>2. TypeOK'
    BY <2>1 DEF IInv, TypeOK, Contract, Statuses
  <2>3. \A x \in Escrows :
          /\ escrow'[x].released = escrow[x].released
          /\ \/ escrow'[x].status = escrow[x].status
             \/ escrow[x].status \in Funded /\ escrow'[x].status \in Funded
    BY <2>1 DEF IInv, TypeOK, Contract, Funded
  <2> QED BY <2>1, <2>2, <2>3, QuietStep
<1>10. ASSUME NEW c \in Calls, NEW e \in Escrows, NEW decision \in {"award", "refund"},
              BeginResolve(c, e, decision)
       PROVE  IInv'
  BY <1>0, <1>1, <1>10 DEF BeginResolve, Ops
<1>11. ASSUME NEW c \in Calls, NEW e \in Escrows, CommitAward(c, e) PROVE IInv'
  BY <1>0, <1>11, ReleaseStep DEF CommitAward, Finish, Funded
<1>12. ASSUME NEW c \in Calls, NEW e \in Escrows, CommitRefund(c, e) PROVE IInv'
  BY <1>0, <1>12, RefundStep DEF CommitRefund, Finish
<1>13. ASSUME NEW c \in Calls, Fail(c) PROVE IInv'
  BY <1>0, <1>13, QuietStep DEF Fail, TypeOK
<1>14. ASSUME NEW e \in Escrows, Deadline(e) PROVE IInv'
  <2>1. /\ wallet' = wallet /\ ledger' = ledger /\ call' = call /\ sweep' = sweep
        /\ escrow' = [escrow EXCEPT ![e].due = TRUE]
    BY <1>14 DEF Deadline
  <2>2. TypeOK'
    BY <2>1 DEF IInv, TypeOK, Contract
  <2>3. \A x \in Escrows : /\ escrow'[x].released = escrow[x].released
                           /\ escrow'[x].status = escrow[x].status
    BY <2>1 DEF IInv, TypeOK, Contract
  <2> QED BY <2>1, <2>2, <2>3, QuietStep
<1>15. CASE StartSweep
  BY <1>0, <1>15, QuietStep DEF StartSweep, TypeOK
<1>16. ASSUME NEW e \in Escrows, SweepRelease(e) PROVE IInv'
  BY <1>0, <1>16, ReleaseStep DEF SweepRelease, Funded
<1>17. ASSUME NEW e \in Escrows, SweepSkip(e) PROVE IInv'
  BY <1>0, <1>17, QuietStep DEF SweepSkip, TypeOK
<1>18. CASE Restart
  BY <1>0, <1>18, QuietStep DEF Restart, TypeOK
<1>19. CASE UNCHANGED vars
  BY <1>0, <1>19, QuietStep DEF vars, TypeOK
<1> QED BY <1>2, <1>3, <1>4, <1>5, <1>6, <1>7, <1>8, <1>9, <1>10, <1>11, <1>12,
           <1>13, <1>14, <1>15, <1>16, <1>17, <1>18, <1>19 DEF Next

LEMMA Invariance == Spec => []IInv
BY Initially, Inductive, PTL DEF Spec

----------------------------------------------------------------------------
(* The theorems.                                                           *)

\* Wallets, contracts, ledger and requests keep their types, whatever the
\* handlers, the job and the administrator do.
THEOREM TypeCorrect == Spec => []TypeOK
<1>1. IInv => TypeOK
  BY DEF IInv
<1> QED BY <1>1, Invariance, PTL

\* No interleaving of escrow transactions overdraws a wallet.
THEOREM Solvency == Spec => []Solvent
<1>1. IInv => Solvent
  BY DEF IInv
<1> QED BY <1>1, Invariance, PTL

\* Locked balances are at all times the sum of what the open contracts hold.
THEOREM Backing == Spec => []LockBacked
<1>1. IInv => LockBacked
  BY DEF IInv
<1> QED BY <1>1, Invariance, PTL

\* A contract's principal is accounted for once, whoever closes it.
THEOREM Settlement == Spec => []Settled
<1>1. IInv => Settled
  BY DEF IInv
<1> QED BY <1>1, Invariance, PTL

\* Escrow only moves money between wallets.
THEOREM Conservation == Spec => []Conserved
<1>1. IInv => Conserved
  BY DEF IInv
<1> QED BY <1>1, Invariance, PTL

\* Once disputed, a contract pays out only by the administrator's decision, also
\* when a release, a milestone or the job read it before the dispute.
THEOREM DisputesFreeze == Spec => DisputeFreezes
<1> DEFINE Decided(e) == \E c \in Calls, d \in {"award", "refund"} :
                           call[c] = Request(d, e, 0) /\ call'[c] = Idle
           Frozen == \A e \in Escrows :
             escrow[e].status = "disputed" /\ ledger'[e] # ledger[e] => Decided(e)
<1>1. IInv /\ [Next]_vars => [Frozen]_vars
  <2> SUFFICES ASSUME TypeOK, Next, NEW x \in Escrows,
                      escrow[x].status = "disputed", ledger'[x] # ledger[x]
               PROVE  Decided(x)
    BY DEF IInv
  <2>1. \A c \in Calls, e \in Escrows :
          /\ ~BeginCreate(c, e) /\ ~BeginRelease(c, e) /\ ~BeginDispute(c, e)
          /\ \A part \in 1 .. MaxAmount : ~BeginPartial(c, e, part)
          /\ \A decision \in {"award", "refund"} : ~BeginResolve(c, e, decision)
          /\ ~CommitDispute(c, e)
    BY DEF BeginCreate, BeginRelease, BeginDispute, BeginPartial, BeginResolve,
           Start, CommitDispute
  <2>2. /\ ~StartSweep /\ ~Restart /\ \A c \in Calls : ~Fail(c)
        /\ \A e \in Escrows : ~Deadline(e) /\ ~SweepSkip(e)
    BY DEF StartSweep, Restart, Fail, Deadline, SweepSkip
  <2>3. \A c \in Calls, e \in Escrows : ~CommitCreate(c, e)
    BY DEF CommitCreate, TypeOK, Entries
  <2>4. \A c \in Calls, e \in Escrows, part \in 1 .. MaxAmount : ~CommitPartial(c, e, part)
    BY DEF CommitPartial, TypeOK, Entries
  <2>5. \A e \in Escrows : ~SweepRelease(e) /\ \A c \in Calls : ~CommitRelease(c, e)
    BY DEF CommitRelease, SweepRelease, ExecuteRelease, TypeOK, Entries
  <2>6. ASSUME NEW c \in Calls, NEW e \in Escrows, CommitAward(c, e) \/ CommitRefund(c, e)
        PROVE  Decided(x)
    <3>1. e = x
      BY <2>6 DEF CommitAward, CommitRefund, ExecuteRelease, ExecuteRefund, TypeOK, Entries
    <3>2. PICK d \in {"award", "refund"} : call[c] = Request(d, e, 0)
      BY <2>6 DEF CommitAward, CommitRefund, Finish
    <3>3. call'[c] = Idle
      BY <2>6 DEF CommitAward, CommitRefund, Finish, TypeOK
    <3>4. call[c] = Request(d, x, 0)
      BY <3>1, <3>2
    <3> QED BY <3>3, <3>4
  <2>7. \E c \in Calls, e \in Escrows : CommitAward(c, e) \/ CommitRefund(c, e)
    BY <2>1, <2>2, <2>3, <2>4, <2>5 DEF Next
  <2> QED BY <2>6, <2>7
<1> QED BY <1>1, Invariance, PTL DEF Spec, DisputeFreezes

----------------------------------------------------------------------------
(* The contracts keep the promise of EscrowContracts.                      *)

\* What a release, by the buyer, the deadline or the administrator, does to a
\* contract: all that remains is paid.
LEMMA ReleasePromised ==
  ASSUME IInv, NEW e \in Escrows, NEW from \in Funded, ExecuteRelease(e, from)
  PROVE  /\ from = "active" => \E part \in 1 .. Amount[e] : Promised!Pay(e, part)
         /\ from = "disputed" => Promised!Award(e)
<1> DEFINE status == [x \in Escrows |-> escrow[x].status]
           paid == [x \in Escrows |-> ledger[x].released]
           refunded == [x \in Escrows |-> ledger[x].refunded]
<1>1. /\ escrow[e].status = from /\ ledger[e].released = escrow[e].released
      /\ escrow[e].released \in Nat /\ Remaining(e) \in 1 .. MaxAmount
      /\ Remaining(e) = Amount[e] - escrow[e].released
      /\ Amount[e] \in 1 .. MaxAmount /\ MaxAmount \in Nat
  BY HeldBounds, EscrowAssumption
     DEF IInv, TypeOK, Contract, Settled, Remaining, ExecuteRelease
<1>2. status' = [status EXCEPT ![e] = "completed"] /\ status[e] = from
  BY <1>1 DEF ExecuteRelease, IInv, TypeOK, Contract
<1>3. /\ paid' = [paid EXCEPT ![e] = @ + Remaining(e)]
      /\ refunded' = refunded
  BY DEF ExecuteRelease, IInv, TypeOK, Entries
<1>4. paid[e] + Remaining(e) = Amount[e] /\ Remaining(e) <= Amount[e] - paid[e]
      /\ Remaining(e) \in 1 .. Amount[e]
  BY <1>1
<1>5. paid'[e] = Amount[e] /\ paid' = [paid EXCEPT ![e] = Amount[e]]
  BY <1>3, <1>4
<1> HIDE DEF status, paid, refunded
<1>6. ASSUME from = "active" PROVE \E part \in 1 .. Amount[e] : Promised!Pay(e, part)
  <2>1. PICK part \in 1 .. Amount[e] : part = Remaining(e)
    BY <1>4
  <2>2. Promised!Pay(e, part)
    BY <1>2, <1>3, <1>4, <1>5, <1>6, <2>1
       DEF Promised!Pay, Promised!Move, status, paid, refunded
  <2> QED BY <2>2
<1>7. from = "disputed" => Promised!Award(e)
  BY <1>2, <1>3, <1>5 DEF Promised!Award, Promised!Move, status, paid, refunded
<1> QED BY <1>6, <1>7

\* Spec implements Promised!Spec: the administrator's and the parties' decisions,
\* milestones and auto-releases are the steps EscrowContracts allows.
THEOREM Refinement == Spec => ContractsKept
<1> DEFINE status == [x \in Escrows |-> escrow[x].status]
           paid == [x \in Escrows |-> ledger[x].released]
           refunded == [x \in Escrows |-> ledger[x].refunded]
<1>1. Init => Promised!Init
  BY DEF Init, Promised!Init
<1>2. IInv /\ [Next]_vars => [Promised!Next]_(Promised!contractVars)
  <2> SUFFICES ASSUME IInv, [Next]_vars
               PROVE  Promised!Next \/ UNCHANGED Promised!contractVars
    OBVIOUS
  <2>0. /\ TypeOK /\ \A e \in Escrows : Amount[e] \in 1 .. MaxAmount
        /\ MaxAmount \in Nat
    BY EscrowAssumption DEF IInv
  <2>1. ASSUME \A e \in Escrows : escrow'[e].status = escrow[e].status, ledger' = ledger
        PROVE  UNCHANGED Promised!contractVars
    BY <2>1 DEF Promised!contractVars
  <2>2. ASSUME UNCHANGED <<escrow, ledger>> PROVE UNCHANGED Promised!contractVars
    BY <2>1, <2>2
  <2>3. ASSUME NEW c \in Calls, NEW e \in Escrows, CommitCreate(c, e)
        PROVE  Promised!Fund(e)
    <3>1. status' = [status EXCEPT ![e] = "active"] /\ status[e] = "none"
      BY <2>0, <2>3 DEF CommitCreate, TypeOK, Contract
    <3>2. paid' = paid /\ refunded' = refunded
      BY <2>0, <2>3 DEF CommitCreate, TypeOK, Entries
    <3> QED BY <3>1, <3>2 DEF Promised!Fund, Promised!Move
  <2>4. ASSUME NEW c \in Calls, NEW e \in Escrows, CommitDispute(c, e)
        PROVE  Promised!Dispute(e)
    <3>1. status' = [status EXCEPT ![e] = "disputed"] /\ status[e] = "active"
      BY <2>0, <2>4 DEF CommitDispute, TypeOK, Contract
    <3>2. paid' = paid /\ refunded' = refunded
      BY <2>4 DEF CommitDispute
    <3> QED BY <3>1, <3>2 DEF Promised!Dispute, Promised!Move
  <2>5. ASSUME NEW c \in Calls, NEW e \in Escrows, NEW part \in 1 .. MaxAmount,
               CommitPartial(c, e, part)
        PROVE  part \in 1 .. Amount[e] /\ Promised!Pay(e, part)
    <3>1. /\ escrow[e].status = "active" /\ ledger[e].released = escrow[e].released
          /\ escrow[e].released \in Nat /\ escrow[e].released + part <= Amount[e]
      BY <2>5 DEF CommitPartial, IInv, TypeOK, Contract, Settled, Funded
    <3>2. /\ paid' = [paid EXCEPT ![e] = @ + part] /\ refunded' = refunded
          /\ paid'[e] = ledger[e].released + part
      BY <2>0, <2>5 DEF CommitPartial, TypeOK, Entries
    <3>3. status[e] = "active" /\ status' = [status EXCEPT ![e] =
            IF escrow[e].released + part = Amount[e] THEN "completed" ELSE "active"]
      BY <2>0, <2>5, <3>1 DEF CommitPartial, TypeOK, Contract
    <3>4. part <= Amount[e] - paid[e] /\ part \in 1 .. Amount[e]
      BY <2>0, <3>1
    <3>5. paid'[e] = escrow[e].released + part
      BY <3>1, <3>2
    <3> HIDE DEF status, paid, refunded
    <3> QED BY <3>2, <3>3, <3>4, <3>5
            DEF Promised!Pay, Promised!Move, status, paid, refunded
  <2>6. ASSUME NEW c \in Calls, NEW e \in Escrows, CommitRefund(c, e)
        PROVE  Promised!Refund(e)
    <3>1. /\ escrow[e].status = "disputed" /\ ledger[e].released = escrow[e].released
          /\ ledger[e].refunded = 0 /\ Remaining(e) = Amount[e] - escrow[e].released
          /\ escrow[e].released \in Nat
      BY <2>6 DEF CommitRefund, ExecuteRefund, IInv, TypeOK, Contract, Settled, Funded, Remaining
    <3>2. /\ refunded' = [refunded EXCEPT ![e] = @ + Remaining(e)] /\ paid' = paid
      BY <2>0, <2>6 DEF CommitRefund, ExecuteRefund, TypeOK, Entries
    <3>3. status[e] = "disputed" /\ status' = [status EXCEPT ![e] = "refunded"]
      BY <2>0, <2>6 DEF CommitRefund, ExecuteRefund, TypeOK, Contract
    <3>4. refunded[e] + Remaining(e) = Amount[e] - paid[e]
      BY <2>0, <3>1
    <3>5. refunded' = [refunded EXCEPT ![e] = Amount[e] - paid[e]]
      BY <3>2, <3>4
    <3> HIDE DEF status, paid, refunded
    <3> QED BY <3>2, <3>3, <3>5
            DEF Promised!Refund, Promised!Move, status, paid, refunded
  <2>7. ASSUME NEW e \in Escrows, ExecuteRelease(e, "active")
        PROVE  Promised!Next
    <3>1. \E part \in 1 .. Amount[e] : Promised!Pay(e, part)
      BY <2>7, ReleasePromised DEF Funded
    <3> QED BY <3>1 DEF Promised!Next
  <2>8. ASSUME NEW c \in Calls, NEW e \in Escrows, CommitAward(c, e)
        PROVE  Promised!Award(e)
    BY <2>8, ReleasePromised DEF Funded, CommitAward
  <2>9. ASSUME NEW e \in Escrows, Deadline(e)
        PROVE  UNCHANGED Promised!contractVars
    <3>1. \A x \in Escrows : escrow'[x].status = escrow[x].status
      BY <2>0, <2>9 DEF Deadline, TypeOK, Contract
    <3> QED BY <2>1, <2>9, <3>1 DEF Deadline
  <2>10. ASSUME NEW c \in Calls, NEW e \in Escrows,
                \/ BeginCreate(c, e) \/ BeginRelease(c, e) \/ BeginDispute(c, e)
                \/ \E part \in 1 .. MaxAmount : BeginPartial(c, e, part)
                \/ \E decision \in {"award", "refund"} : BeginResolve(c, e, decision)
         PROVE  UNCHANGED Promised!contractVars
    BY <2>2, <2>10 DEF BeginCreate, BeginRelease, BeginDispute, BeginPartial, BeginResolve, Start
  <2>11. ASSUME \/ \E c \in Calls : Fail(c)
                \/ \E e \in Escrows : SweepSkip(e)
                \/ StartSweep \/ Restart \/ UNCHANGED vars
         PROVE  UNCHANGED Promised!contractVars
    BY <2>2, <2>11 DEF Fail, SweepSkip, StartSweep, Restart, vars
  <2>12. ASSUME NEW e \in Escrows,
                SweepRelease(e) \/ \E c \in Calls : CommitRelease(c, e)
         PROVE  Promised!Next
    BY <2>7, <2>12 DEF SweepRelease, CommitRelease
  <2> QED BY <2>3, <2>4, <2>5, <2>6, <2>8, <2>9, <2>10, <2>11, <2>12
          DEF Next, Promised!Next
<1> QED BY <1>1, <1>2, Invariance, PTL DEF Spec, ContractsKept, Promised!Spec

=============================================================================
