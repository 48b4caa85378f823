-------------------------- MODULE WithdrawalProofs --------------------------
(***************************************************************************)
(* Theorems about Withdrawals, for every set of withdrawals, amounts, fees *)
(* and concurrent calls.                                                   *)
(*                                                                         *)
(* FundsInv is inductive once a late report is known to be handled only of *)
(* a completed withdrawal (FundsIInv): what a wallet has locked follows    *)
(* the sum of the open withdrawals, because each transition of a row out   *)
(* of Open is one update with its own guard.  That nobody is paid twice    *)
(* rests on more (PayoutsIInv): a row has at most one call between its     *)
(* claim and the note of its payout, and while that call works Paystack    *)
(* holds no payout for the row.                                            *)
(***************************************************************************)
EXTENDS Withdrawals, WalletSums

----------------------------------------------------------------------------
(* What one withdrawal changes in the sums over all of them.               *)

\* What the completed withdrawals took out of the wallets.
Debited(rows) ==
  SumOver([w \in Withdrawals |-> IF rows[w].status = "COMPLETED" THEN Amount[w] - Fee[w] ELSE 0],
          Withdrawals)

\* Moving one withdrawal changes what its owner has reserved, by its amount.
LEMMA ReservedChange ==
  ASSUME NEW rows, NEW new, NEW w \in Withdrawals, NEW u \in Users,
         \A v \in Withdrawals \ {w} : new[v].status = rows[v].status
  PROVE  /\ Reserved(new, u) = Reserved(rows, u)
              + (IF Owner[w] = u
                 THEN (IF new[w].status \in Open THEN Amount[w] ELSE 0)
                      - (IF rows[w].status \in Open THEN Amount[w] ELSE 0)
                 ELSE 0)
         /\ Reserved(rows, u) \in Nat /\ Reserved(new, u) \in Nat
         /\ Owner[w] = u /\ rows[w].status \in Open => Amount[w] <= Reserved(rows, u)
<1> DEFINE part(r) == [v \in Withdrawals |->
                         IF Owner[v] = u /\ r[v].status \in Open THEN Amount[v] ELSE 0]
<1>1. IsFiniteSet(Withdrawals) /\ \A v \in Withdrawals : Amount[v] \in Nat
  BY WithdrawalAssumption
<1>2. \A r : part(r) \in [Withdrawals -> Int] /\ \A v \in Withdrawals : part(r)[v] >= 0
  BY <1>1
<1>3. \A v \in Withdrawals \ {w} : part(new)[v] = part(rows)[v]
  OBVIOUS
<1>4. Reserved(new, u) = SumOver(part(new), Withdrawals)
      /\ Reserved(rows, u) = SumOver(part(rows), Withdrawals)
  BY DEF Reserved
<1>5. /\ part(new)[w] = IF Owner[w] = u /\ new[w].status \in Open THEN Amount[w] ELSE 0
      /\ part(rows)[w] = IF Owner[w] = u /\ rows[w].status \in Open THEN Amount[w] ELSE 0
  OBVIOUS
<1> DEFINE f == part(rows)
           g == part(new)
<1>6. f \in [Withdrawals -> Int] /\ g \in [Withdrawals -> Int]
      /\ (\A v \in Withdrawals : f[v] >= 0) /\ (\A v \in Withdrawals : g[v] >= 0)
  BY <1>2
<1>7. /\ \A v \in Withdrawals \ {w} : g[v] = f[v]
      /\ Reserved(new, u) = SumOver(g, Withdrawals) /\ Reserved(rows, u) = SumOver(f, Withdrawals)
      /\ g[w] = IF Owner[w] = u /\ new[w].status \in Open THEN Amount[w] ELSE 0
      /\ f[w] = IF Owner[w] = u /\ rows[w].status \in Open THEN Amount[w] ELSE 0
  BY <1>3, <1>4, <1>5
<1> HIDE DEF f, g
<1>8. SumOver(g, Withdrawals) = SumOver(f, Withdrawals) + (g[w] - f[w])
  BY <1>1, <1>6, <1>7, SumOverUpdate
<1>9. /\ SumOver(f, Withdrawals) \in Int /\ SumOver(f, Withdrawals) >= 0
         /\ f[w] <= SumOver(f, Withdrawals)
      /\ SumOver(g, Withdrawals) \in Int /\ SumOver(g, Withdrawals) >= 0
  BY <1>1, <1>6, SumOverBound
<1> QED BY <1>1, <1>7, <1>8, <1>9

\* Closing an open one gives its amount back.
LEMMA ReservedEnds ==
  ASSUME NEW rows, NEW new, NEW w \in Withdrawals, NEW u \in Users,
         \A v \in Withdrawals \ {w} : new[v].status = rows[v].status,
         rows[w].status \in Open, new[w].status \notin Open
  PROVE  /\ Reserved(new, u) = Reserved(rows, u) - (IF Owner[w] = u THEN Amount[w] ELSE 0)
         /\ Reserved(rows, u) \in Nat /\ Reserved(new, u) \in Nat
<1>1. /\ Reserved(new, u) = Reserved(rows, u)
              + (IF Owner[w] = u
                 THEN (IF new[w].status \in Open THEN Amount[w] ELSE 0)
                      - (IF rows[w].status \in Open THEN Amount[w] ELSE 0)
                 ELSE 0)
      /\ Reserved(rows, u) \in Nat /\ Reserved(new, u) \in Nat
  BY ZenonT(30), ReservedChange
<1>2. Amount[w] \in Nat
  BY WithdrawalAssumption
<1> QED BY <1>1, <1>2

\* Moving one withdrawal changes what completed ones took, by its net amount.
LEMMA DebitedChange ==
  ASSUME NEW rows, NEW new, NEW w \in Withdrawals,
         \A v \in Withdrawals \ {w} : new[v].status = rows[v].status
  PROVE  /\ Debited(rows) \in Int
         /\ Debited(new) = Debited(rows)
                  + ((IF new[w].status = "COMPLETED" THEN Amount[w] - Fee[w] ELSE 0)
                     - (IF rows[w].status = "COMPLETED" THEN Amount[w] - Fee[w] ELSE 0))
<1> DEFINE part(r) == [v \in Withdrawals |-> IF r[v].status = "COMPLETED" THEN Amount[v] - Fee[v] ELSE 0]
           f == part(rows)
           g == part(new)
<1>1. IsFiniteSet(Withdrawals) /\ \A v \in Withdrawals : Amount[v] \in Nat /\ Fee[v] \in Nat
  BY WithdrawalAssumption
<1>2. /\ f \in [Withdrawals -> Int] /\ g \in [Withdrawals -> Int]
      /\ \A v \in Withdrawals \ {w} : g[v] = f[v]
      /\ g[w] = IF new[w].status = "COMPLETED" THEN Amount[w] - Fee[w] ELSE 0
      /\ f[w] = IF rows[w].status = "COMPLETED" THEN Amount[w] - Fee[w] ELSE 0
  BY <1>1
<1> HIDE DEF f, g
<1>3. SumOver(g, Withdrawals) = SumOver(f, Withdrawals) + (g[w] - f[w])
      /\ SumOver(f, Withdrawals) \in Int
  BY <1>1, <1>2, SumOverUpdate, SumOverBound
<1> QED BY <1>2, <1>3 DEF f, g, Debited

\* unlockReserved takes the amount, or what there is, out of one locked balance.
LEMMA UnlockEffect ==
  ASSUME NEW rows \in [Users -> Row], NEW o \in Users, NEW amount \in Nat
  PROVE  /\ Unlock(rows, o, amount) \in [Users -> Row]
         /\ Total(Unlock(rows, o, amount)) = Total(rows)
         /\ \A u \in Users :
              /\ Unlock(rows, o, amount)[u].balance = rows[u].balance
              /\ Unlock(rows, o, amount)[u].locked =
                   IF u # o THEN rows[u].locked
                   ELSE IF rows[u].locked < amount THEN 0 ELSE rows[u].locked - amount
<1> DEFINE x == IF rows[o].locked < amount THEN rows[o].locked ELSE amount
<1>1. x \in Int /\ \A u \in Users : rows[u].locked \in Int
  BY DEF Row
<1>2. Unlock(rows, o, amount) = Free(rows, o, x)
  BY DEF Unlock
<1>3. rows[o].locked - x = IF rows[o].locked < amount THEN 0 ELSE rows[o].locked - amount
  BY <1>1
<1> HIDE DEF x
<1>4. IsFiniteSet(Users)
  BY WithdrawalAssumption
<1>5. /\ Free(rows, o, x) \in [Users -> Row]
      /\ \A u \in Users : /\ Free(rows, o, x)[u].balance = rows[u].balance
                          /\ Free(rows, o, x)[u].locked = rows[u].locked - (IF u = o THEN x ELSE 0)
  BY <1>1, Increments
<1>6. Total(Free(rows, o, x)) = Total(rows)
  BY <1>1, <1>4, IncrementTotals
<1> QED BY <1>1, <1>2, <1>3, <1>5, <1>6

\* A completed withdrawal takes its amount and its lock from the owner, and gives
\* the fee to the platform.
LEMMA CompleteEffect ==
  ASSUME TypeOK, NEW w \in Withdrawals, Complete(w)
  PROVE  /\ wallet' \in [Users -> Row]
         /\ Total(wallet) \in Int /\ Total(wallet') = Total(wallet) - (Amount[w] - Fee[w])
         /\ \A u \in Users :
              /\ wallet'[u].balance >= wallet[u].balance - (IF u = Owner[w] THEN Amount[w] ELSE 0)
              /\ wallet'[u].locked =
                   IF u # Owner[w] THEN wallet[u].locked
                   ELSE IF wallet[u].locked < Amount[w] THEN 0 ELSE wallet[u].locked - Amount[w]
<1> DEFINE o == Owner[w]
           a == Amount[w]
           f == Fee[w]
           w1 == Debit(wallet, o, a)
           w2 == Unlock(w1, o, a)
           w3 == Credit(w2, Platform, f)
<1>1. o \in Users /\ a \in Nat /\ f \in Nat /\ Platform \in Users /\ IsFiniteSet(Users)
      /\ wallet \in [Users -> Row]
  BY WithdrawalAssumption DEF TypeOK
<1>2. wallet' = w3
  BY DEF Complete, CreditPlatformFee
<1> HIDE DEF o, a, f
<1>3. /\ w1 \in [Users -> Row]
      /\ \A u \in Users : w1[u].balance = wallet[u].balance - (IF u = o THEN a ELSE 0)
                          /\ w1[u].locked = wallet[u].locked
  BY <1>1, Increments
<1>4. Total(w1) = Total(wallet) - a /\ Total(wallet) \in Int
  BY <1>1, IncrementTotals
<1> HIDE DEF w1
<1>5. /\ w2 \in [Users -> Row] /\ Total(w2) = Total(w1)
      /\ \A u \in Users :
           /\ w2[u].balance = w1[u].balance
           /\ w2[u].locked = IF u # o THEN w1[u].locked
                             ELSE IF w1[u].locked < a THEN 0 ELSE w1[u].locked - a
  BY <1>1, <1>3, UnlockEffect
<1> HIDE DEF w2
<1>6. /\ w3 \in [Users -> Row]
      /\ \A u \in Users : w3[u].balance = w2[u].balance + (IF u = Platform THEN f ELSE 0)
                          /\ w3[u].locked = w2[u].locked
  <2>1. w2 \in [Users -> Row] /\ Platform \in Users /\ f \in Int
    BY <1>1, <1>5
  <2> QED BY <2>1, Increments
<1>7. Total(w3) = Total(w2) + f
  BY <1>1, <1>5, IncrementTotals
<1> HIDE DEF w3
<1>8. \A u \in Users : wallet[u].balance \in Int /\ wallet[u].locked \in Int
  BY <1>1 DEF Row
<1>9. \A u \in Users : w3[u].balance >= wallet[u].balance - (IF u = o THEN a ELSE 0)
  BY <1>1, <1>3, <1>5, <1>6, <1>8
<1> QED BY <1>1, <1>2, <1>3, <1>4, <1>5, <1>6, <1>7, <1>9 DEF o, a, f

\* What ReservationsBacked says of u.
Backed(u) ==
  /\ wallet[u].balance >= 0
  /\ ~ReleasedLate(u) =>
       wallet[u].locked = Reserved(row, u) /\ wallet[u].locked <= wallet[u].balance

\* A step that opens, completes and fails no row leaves the reservations alone.
LEMMA SameBacking ==
  ASSUME FundsInv, TypeOK', wallet' = wallet,
         \A w \in Withdrawals :
           /\ row'[w].status \in Open <=> row[w].status \in Open
           /\ row'[w].status = "COMPLETED" <=> row[w].status = "COMPLETED"
           /\ row'[w].tx = row[w].tx
  PROVE  FundsInv'
<1>1. \A u \in Users : [w \in Withdrawals |->
             IF Owner[w] = u /\ row'[w].status \in Open THEN Amount[w] ELSE 0]
        = [w \in Withdrawals |->
             IF Owner[w] = u /\ row[w].status \in Open THEN Amount[w] ELSE 0]
  OBVIOUS
<1>2. \A u \in Users : Reserved(row', u) = Reserved(row, u)
  BY <1>1 DEF Reserved
<1>3. ReservationsBacked'
  <2>1. \A u \in Users : ReleasedLate(u)' <=> ReleasedLate(u)
    BY WithdrawalAssumption DEF ReleasedLate
  <2> QED BY <1>2, <2>1 DEF FundsInv, ReservationsBacked
<1>4. [w \in Withdrawals |-> IF row'[w].status = "COMPLETED" THEN Amount[w] - Fee[w] ELSE 0]
      = [w \in Withdrawals |-> IF row[w].status = "COMPLETED" THEN Amount[w] - Fee[w] ELSE 0]
  OBVIOUS
<1>5. Accounted'
  BY <1>4 DEF FundsInv, Accounted
<1> QED BY <1>3, <1>5 DEF FundsInv

\* The types a step on one withdrawal needs.
LEMMA RowsKept ==
  ASSUME TypeOK, NEW w \in Withdrawals
  PROVE  /\ wallet[Owner[w]] \in Row /\ Owner[w] \in Users /\ Amount[w] \in Nat \ {0}
            /\ Fee[w] \in Nat
         /\ \A u \in Users : wallet[u].locked \in Int /\ wallet[u].balance \in Int
BY WithdrawalAssumption DEF TypeOK, Row

\* The update that reserves the amount of a new withdrawal.
LEMMA ReserveStep ==
  ASSUME FundsInv, NEW w \in Withdrawals, Reserve(w), TypeOK'
  PROVE  FundsInv'
<1> DEFINE o == Owner[w]
           a == Amount[w]
<1>1. o \in Users /\ a \in Nat /\ wallet \in [Users -> Row] /\ IsFiniteSet(Users)
      /\ \A u \in Users : wallet[u].locked \in Int /\ wallet[u].balance \in Int
  BY RowsKept, WithdrawalAssumption DEF FundsInv, TypeOK
<1>2. /\ \A v \in Withdrawals : v # w => row'[v] = row[v]
      /\ row'[w].status = "PENDING" /\ row[w].status = "NONE"
  BY DEF Reserve, FundsInv, TypeOK
<1>3. /\ wallet' = Hold(wallet, o, a)
      /\ wallet[o].balance - wallet[o].locked >= a
  BY DEF Reserve, Available
<1>4. ASSUME NEW u \in Users
      PROVE  /\ Reserved(row', u) = Reserved(row, u) + (IF o = u THEN a ELSE 0)
             /\ Reserved(row, u) \in Nat
  <2>1. \A v \in Withdrawals \ {w} : row'[v].status = row[v].status
    BY <1>2
  <2>2. /\ Reserved(row', u) = Reserved(row, u)
              + (IF o = u
                 THEN (IF row'[w].status \in Open THEN a ELSE 0)
                      - (IF row[w].status \in Open THEN a ELSE 0)
                 ELSE 0)
        /\ Reserved(row, u) \in Nat
    BY ZenonT(30), <2>1, ReservedChange
  <2> QED BY <1>1, <1>2, <2>2 DEF Open
<1>5. Debited(row') = Debited(row) /\ Debited(row) \in Int
  <2>1. \A v \in Withdrawals \ {w} : row'[v].status = row[v].status
    BY <1>2
  <2>2. Debited(row') = Debited(row) + (0 - 0) /\ Debited(row) \in Int
    BY <1>2, <2>1, DebitedChange
  <2> QED BY <2>2
<1> HIDE DEF o, a
<1>6. /\ \A u \in Users : wallet'[u].balance = wallet[u].balance
                          /\ wallet'[u].locked = wallet[u].locked + (IF u = o THEN a ELSE 0)
  <2>1. wallet \in [Users -> Row] /\ o \in Users /\ a \in Int
    BY <1>1
  <2> QED BY <1>3, <2>1, Increments
<1>7. Total(wallet') = Total(wallet)
  BY <1>1, <1>3, IncrementTotals
<1>8. \A u \in Users : ReleasedLate(u) => ReleasedLate(u)'
  BY <1>2, WithdrawalAssumption DEF ReleasedLate
<1>9. \A u \in Users : Backed(u)
  BY DEF FundsInv, ReservationsBacked, Backed
<1>10. ASSUME NEW u \in Users PROVE Backed(u)'
  <2>1. wallet'[u].balance >= 0
    BY <1>6, <1>9 DEF Backed
  <2>2. ASSUME ~ReleasedLate(u)'
        PROVE  wallet'[u].locked = Reserved(row', u) /\ wallet'[u].locked <= wallet'[u].balance
    BY <1>1, <1>3, <1>4, <1>6, <1>8, <1>9, <2>2 DEF Backed
  <2> QED BY <2>1, <2>2 DEF Backed
<1>11. Accounted'
  BY <1>5, <1>7 DEF FundsInv, Accounted, Debited, Total
<1> QED BY <1>10, <1>11 DEF FundsInv, ReservationsBacked, Backed

\* The transaction that completes an open withdrawal.
LEMMA CompleteStep ==
  ASSUME FundsInv, NEW w \in Withdrawals, row[w].status \in Open,
         wallet[Owner[w]].balance >= Amount[w], Complete(w), TypeOK'
  PROVE  FundsInv'
<1> DEFINE o == Owner[w]
           a == Amount[w]
           f == Fee[w]
<1>1. o \in Users /\ a \in Nat /\ f \in Nat /\ \A u \in Users : wallet[u].locked \in Int
      /\ wallet[u].balance \in Int
  BY RowsKept DEF FundsInv
<1>2. /\ \A v \in Withdrawals : v # w => row'[v] = row[v]
      /\ row'[w].status = "COMPLETED" /\ row'[w].tx = "completed"
  BY DEF Complete, FundsInv, TypeOK
<1>4. ASSUME NEW u \in Users
      PROVE  /\ Reserved(row', u) = Reserved(row, u) - (IF o = u THEN a ELSE 0)
             /\ Reserved(row, u) \in Nat /\ Reserved(row', u) \in Nat
  <2>1. \A v \in Withdrawals \ {w} : row'[v].status = row[v].status
    BY <1>2
  <2>2. row'[w].status \notin Open
    BY <1>2 DEF Open
  <2> QED BY <2>1, <2>2, ReservedEnds
<1>5. Debited(row') = Debited(row) + (a - f) /\ Debited(row) \in Int
  <2>1. \A v \in Withdrawals \ {w} : row'[v].status = row[v].status
    BY <1>2
  <2>2. row[w].status # "COMPLETED"
    BY DEF Open
  <2>3. Debited(row') = Debited(row) + ((a - f) - 0) /\ Debited(row) \in Int
    BY <1>2, <2>1, <2>2, DebitedChange
  <2> QED BY <1>1, <2>3
<1>6. /\ Total(wallet) \in Int /\ Total(wallet') = Total(wallet) - (a - f)
      /\ \A u \in Users :
              /\ wallet'[u].balance >= wallet[u].balance - (IF u = o THEN a ELSE 0)
              /\ wallet'[u].locked =
                   IF u # o THEN wallet[u].locked
                   ELSE IF wallet[u].locked < a THEN 0 ELSE wallet[u].locked - a
  BY CompleteEffect DEF FundsInv
<1>6a. \A u \in Users : wallet'[u].balance \in Int
  BY DEF TypeOK, Row
<1> HIDE DEF o, a, f
<1>8. \A u \in Users : ReleasedLate(u) => ReleasedLate(u)'
  <2>1. row[w].status # "COMPLETED"
    BY DEF Open
  <2> QED BY <1>2, <2>1, WithdrawalAssumption DEF ReleasedLate
<1>9. \A u \in Users : Backed(u)
  BY DEF FundsInv, ReservationsBacked, Backed
<1>9a. wallet[o].balance >= a
  BY DEF o, a
<1>10. ASSUME NEW u \in Users PROVE Backed(u)'
  <2>1. wallet'[u].balance >= 0
    BY <1>1, <1>6, <1>6a, <1>9, <1>9a DEF Backed
  <2>2. ASSUME ~ReleasedLate(u)' PROVE wallet'[u].locked = Reserved(row', u)
                                         /\ wallet'[u].locked <= wallet'[u].balance
    <3>1. wallet[u].locked = Reserved(row, u) /\ wallet[u].locked <= wallet[u].balance
      BY <1>8, <1>9, <2>2 DEF Backed
    <3> QED BY <1>1, <1>4, <1>6, <1>6a, <3>1
  <2> QED BY <2>1, <2>2 DEF Backed
<1>11. Accounted'
  <2>1. Total(wallet) + Debited(row) = SumOver(InitialBalance, Users)
    BY DEF FundsInv, Accounted, Debited
  <2>2. Total(wallet') + Debited(row') = SumOver(InitialBalance, Users)
    BY <1>1, <1>5, <1>6, <2>1
  <2> QED BY <2>2 DEF Accounted, Debited, Total
<1> QED BY <1>10, <1>11 DEF FundsInv, ReservationsBacked, Backed

----------------------------------------------------------------------------
(* The reservations.                                                       *)

\* A failed withdrawal gives its lock back.
LEMMA UnlockStep ==
  ASSUME FundsInv, TypeOK', NEW w \in Withdrawals,
         wallet' = Unlock(wallet, Owner[w], Amount[w]),
         \A v \in Withdrawals \ {w} : row'[v] = row[v],
         row[w].status \in Open, row'[w].status = "FAILED"
  PROVE  FundsInv'
<1> DEFINE o == Owner[w]
           a == Amount[w]
<1>1. o \in Users /\ a \in Nat /\ wallet \in [Users -> Row]
      /\ \A u \in Users : wallet[u].locked \in Int /\ wallet[u].balance \in Int
  BY RowsKept DEF FundsInv, TypeOK
<1>2. \A v \in Withdrawals \ {w} : row'[v].status = row[v].status
  OBVIOUS
<1>3. /\ Total(wallet') = Total(wallet)
      /\ \A u \in Users :
           /\ wallet'[u].balance = wallet[u].balance
           /\ wallet'[u].locked =
                IF u # o THEN wallet[u].locked
                ELSE IF wallet[u].locked < a THEN 0 ELSE wallet[u].locked - a
  BY <1>1, UnlockEffect
<1>4. Debited(row') = Debited(row)
  <2>1. Debited(row') = Debited(row) + (0 - 0) /\ Debited(row) \in Int
    BY <1>2, DebitedChange DEF Open
  <2> QED BY <2>1
<1>5. ASSUME NEW u \in Users
      PROVE  /\ Reserved(row', u) \in Nat /\ Reserved(row, u) \in Nat
             /\ Reserved(row', u) = Reserved(row, u) - (IF o = u THEN a ELSE 0)
  <2>1. /\ Reserved(row', u) = Reserved(row, u)
              + (IF o = u
                 THEN (IF row'[w].status \in Open THEN a ELSE 0)
                      - (IF row[w].status \in Open THEN a ELSE 0)
                 ELSE 0)
        /\ Reserved(row, u) \in Nat /\ Reserved(row', u) \in Nat
    BY <1>2, ReservedChange
  <2> QED BY <1>1, <2>1 DEF Open
<1>6. \A u \in Users : ReleasedLate(u) => ReleasedLate(u)'
  <2>1. row[w].status # "COMPLETED"
    BY DEF Open
  <2> QED BY <2>1, WithdrawalAssumption DEF ReleasedLate
<1>7. \A u \in Users : Backed(u)
  BY DEF FundsInv, ReservationsBacked, Backed
<1> HIDE DEF o, a
<1>8. ASSUME NEW u \in Users PROVE Backed(u)'
  <2>1. wallet'[u].balance >= 0
    BY <1>3, <1>7 DEF Backed
  <2>2. ASSUME ~ReleasedLate(u)'
        PROVE  wallet'[u].locked = Reserved(row', u) /\ wallet'[u].locked <= wallet'[u].balance
    <3>1. wallet[u].locked = Reserved(row, u) /\ wallet[u].locked <= wallet[u].balance
      BY <1>6, <1>7, <2>2 DEF Backed
    <3>2. wallet'[u].locked = Reserved(row', u)
      BY <1>1, <1>3, <1>5, <3>1
    <3>3. o = u => a <= wallet[u].locked
      BY <1>1, <1>5, <3>1
    <3> QED BY <1>1, <1>3, <3>1, <3>2, <3>3
  <2> QED BY <2>1, <2>2 DEF Backed
<1>9. Accounted'
  BY <1>3, <1>4 DEF FundsInv, Accounted, Debited, Total
<1> QED BY <1>8, <1>9 DEF FundsInv, ReservationsBacked, Backed

\* What a late report takes off the lock of a completed legacy withdrawal disturbs
\* its owner's reservations only, and no balance.
LEMMA ReleaseStep ==
  ASSUME FundsInv, TypeOK', NEW w \in Legacy, NEW unlock \in Int,
         wallet' = Free(wallet, Owner[w], unlock),
         row[w].status = "COMPLETED", row' = [row EXCEPT ![w].tx = "failed"]
  PROVE  FundsInv'
<1> DEFINE o == Owner[w]
<1>1. o \in Users /\ wallet \in [Users -> Row] /\ w \in Withdrawals /\ IsFiniteSet(Users)
  BY RowsKept, WithdrawalAssumption DEF FundsInv, TypeOK
<1>2. /\ \A v \in Withdrawals : row'[v].status = row[v].status
      /\ \A v \in Withdrawals \ {w} : row'[v].tx = row[v].tx
      /\ row'[w].tx = "failed"
  BY <1>1 DEF FundsInv, TypeOK
<1>3. /\ \A u \in Users : wallet'[u].balance = wallet[u].balance
      /\ \A u \in Users \ {o} : wallet'[u].locked = wallet[u].locked
  <2>1. \A u \in Users :
           /\ wallet'[u].balance = wallet[u].balance
           /\ wallet'[u].locked = wallet[u].locked - (IF u = o THEN unlock ELSE 0)
    BY <1>1, Increments
  <2>2. \A u \in Users : wallet[u].locked \in Int
    BY <1>1 DEF Row
  <2> QED BY <2>1, <2>2
<1>4. Total(wallet') = Total(wallet)
  BY <1>1, IncrementTotals
<1>5. Debited(row') = Debited(row) /\ \A u \in Users : Reserved(row', u) = Reserved(row, u)
  BY <1>2 DEF Debited, Reserved
<1>6. ReleasedLate(o)'
  BY <1>2 DEF ReleasedLate
<1>7. \A u \in Users : ReleasedLate(u) => ReleasedLate(u)'
  BY <1>2, WithdrawalAssumption DEF ReleasedLate
<1>8. ASSUME NEW u \in Users PROVE Backed(u)'
  <2>1. Backed(u)
    BY DEF FundsInv, ReservationsBacked, Backed
  <2>2. CASE u = o
    BY <1>3, <1>6, <2>1, <2>2 DEF Backed
  <2>3. CASE u # o
    BY <1>3, <1>5, <1>7, <2>1, <2>3 DEF Backed
  <2> QED BY <2>2, <2>3
<1>9. Accounted'
  BY <1>4, <1>5 DEF FundsInv, Accounted, Debited, Total
<1> QED BY <1>8, <1>9 DEF FundsInv, ReservationsBacked, Backed

\* Every step of a withdrawal call, the provider and the administrator is well
\* typed.
LEMMA WithdrawalsTyped == TypeOK /\ [Next]_vars => TypeOK'
<1> SUFFICES ASSUME TypeOK, [Next]_vars PROVE TypeOK'
  OBVIOUS
<1> DEFINE Rows == [status : Statuses, tx : {"open", "completed", "failed"},
                   approval : {"pending", "approved"}, known : BOOLEAN]
           Works == [at : {"claim", "initiate", "note", "refund", "unknown"},
                     ref : Withdrawals, known : BOOLEAN]
           Lates == [at : {"late"}, ref : Legacy] \cup [at : {"release"}, ref : Legacy, unlock : Int]
           Rest ==
             /\ row \in [Withdrawals -> Rows]
             /\ payout \in [Withdrawals -> {"none", "pending"} \cup Final]
             /\ submitted \in [Withdrawals -> Nat]
             /\ queue \subseteq Withdrawals \ Crypto
             /\ call \in [Calls -> {Idle} \cup Works \cup Lates]
             /\ reports \subseteq Withdrawals \X Final
<1>0. Rest /\ wallet \in [Users -> Row] /\ (Rest' /\ wallet' \in [Users -> Row] => TypeOK')
  BY DEF TypeOK
<1>a. \A r \in Rows : /\ r.known \in BOOLEAN
                     /\ \A s \in Statuses : [r EXCEPT !.status = s] \in Rows
                     /\ \A x \in {"open", "completed", "failed"} :
                          /\ [r EXCEPT !.tx = x] \in Rows
                          /\ \A t \in Statuses : [r EXCEPT !.status = t, !.tx = x] \in Rows
                     /\ \A t \in Statuses, y \in {"pending", "approved"} :
                          [r EXCEPT !.status = t, !.approval = y] \in Rows
  OBVIOUS
<1>a2. \A r \in Rows, b \in BOOLEAN : [r EXCEPT !.known = b] \in Rows
  OBVIOUS
<1>a3. \A r \in Rows : [r EXCEPT !.tx = "failed"] \in Rows
  OBVIOUS
<1>b. \A h \in Works : /\ h.ref \in Withdrawals /\ h.known \in BOOLEAN
                      /\ \A x \in {"claim", "initiate", "note", "refund", "unknown"} :
                          [h EXCEPT !.at = x] \in Works
                          /\ \A b \in BOOLEAN : [h EXCEPT !.at = x, !.known = b] \in Works
  OBVIOUS
<1>c. \A w \in Withdrawals, b \in BOOLEAN : [at |-> "claim", ref |-> w, known |-> b] \in Works
  OBVIOUS
<1>d. {"NONE", "COMPLETED", "FAILED", "PENDING", "PROCESSING"} \subseteq Statuses
      /\ Idle \notin Works /\ Legacy \subseteq Withdrawals
  BY WithdrawalAssumption DEF Statuses, Open, Idle
<1>e. Idle.at = "idle" /\ TRUE \in BOOLEAN
  BY DEF Idle
<1>z. \A h \in Lates : h.ref \in Legacy /\ h.at \in {"late", "release"}
                      /\ (h.at = "release" => h.unlock \in Int)
  OBVIOUS
<1>y. \A w \in Legacy : [at |-> "late", ref |-> w] \in Lates
                      /\ \A n \in Int : [at |-> "release", ref |-> w, unlock |-> n] \in Lates
  OBVIOUS
<1>x. \A h \in Works : h.at \in {"claim", "initiate", "note", "refund", "unknown"}
  OBVIOUS
<1> HIDE DEF Rows, Works, Lates
<1>f. ASSUME NEW w \in Withdrawals, NEW new \in Rows, row' = [row EXCEPT ![w] = new]
      PROVE  row' \in [Withdrawals -> Rows]
  BY <1>0, <1>f
<1>g. ASSUME NEW c \in Calls, call[c].at # "idle"
      PROVE  /\ call[c].ref \in Withdrawals
             /\ call[c].at \notin {"late", "release"} =>
                  call[c] \in Works /\ call[c].known \in BOOLEAN
             /\ call[c].at \in {"late", "release"} =>
                  /\ call[c].ref \in Legacy
                  /\ call[c].at = "release" => call[c].unlock \in Int
  BY <1>0, <1>b, <1>d, <1>e, <1>g, <1>x, <1>z
<1>h. ASSUME NEW c \in Calls, NEW from, NEW to \in {"initiate", "note", "refund", "unknown"},
             from \notin {"idle", "late", "release"}, Go(c, from, to)
      PROVE  call' \in [Calls -> {Idle} \cup Works \cup Lates] /\ call[c].ref \in Withdrawals
  <2>1. call[c] \in Works
    BY <1>g, <1>h DEF Go
  <2>2. [call[c] EXCEPT !.at = to] \in Works
    BY <1>b, <2>1
  <2>3. call' = [call EXCEPT ![c] = [call[c] EXCEPT !.at = to]]
    BY <1>h DEF Go
  <2> QED BY <1>0, <1>g, <1>h, <2>2, <2>3 DEF Go
<1>i. ASSUME NEW c \in Calls, NEW from, from # "idle", End(c, from)
      PROVE  call' \in [Calls -> {Idle} \cup Works \cup Lates] /\ call[c].ref \in Withdrawals
  BY <1>0, <1>g, <1>i DEF End
<1>1. ASSUME NEW w \in Withdrawals, Reserve(w)
      PROVE  wallet' \in [Users -> Row] /\ row' \in [Withdrawals -> Rows]
  <2>1. [row[w] EXCEPT !.status = "PENDING"] \in Rows
    BY <1>0, <1>a, <1>d
  <2>2. row' = [row EXCEPT ![w] = [row[w] EXCEPT !.status = "PENDING"]]
    BY <1>1 DEF Reserve
  <2>3. Owner[w] \in Users /\ Amount[w] \in Int /\ wallet \in [Users -> Row]
    BY <1>0, RowsKept
  <2>4. wallet' \in [Users -> Row]
    BY <1>1, <2>3, Increments DEF Reserve
  <2> QED BY <1>f, <2>1, <2>2, <2>4
<1>2. ASSUME NEW w \in Withdrawals, Complete(w)
      PROVE  wallet' \in [Users -> Row] /\ row' \in [Withdrawals -> Rows]
  <2>1. wallet' \in [Users -> Row]
    BY <1>2, CompleteEffect
  <2>2. [row[w] EXCEPT !.status = "COMPLETED", !.tx = "completed"] \in Rows
    BY <1>0, <1>a, <1>d
  <2>3. row' = [row EXCEPT ![w] = [row[w] EXCEPT !.status = "COMPLETED", !.tx = "completed"]]
    BY <1>2 DEF Complete
  <2> QED BY <1>f, <2>1, <2>2, <2>3
<1>3. ASSUME NEW w \in Withdrawals, Reject(w)
      PROVE  wallet' \in [Users -> Row] /\ row' \in [Withdrawals -> Rows]
  <2>0. Owner[w] \in Users /\ Amount[w] \in Nat /\ wallet \in [Users -> Row]
    BY <1>0, RowsKept
  <2>1. wallet' \in [Users -> Row]
    BY <1>3, <2>0, UnlockEffect DEF Reject
  <2>2. [row[w] EXCEPT !.status = "FAILED", !.tx = "failed"] \in Rows
    BY <1>0, <1>a, <1>d
  <2>3. row' = [row EXCEPT ![w] = [row[w] EXCEPT !.status = "FAILED", !.tx = "failed"]]
    BY <1>3 DEF Reject
  <2> QED BY <1>f, <2>1, <2>2, <2>3
<1>4. ASSUME NEW w \in Withdrawals, CreateWithdrawal(w) \/ CreateCryptoWithdrawal(w) PROVE TypeOK'
  BY <1>0, <1>1, <1>4 DEF CreateWithdrawal, CreateCryptoWithdrawal, provider
<1>5. ASSUME NEW w \in Withdrawals, ProviderMoves(w) PROVE TypeOK'
  BY <1>0, <1>5 DEF ProviderMoves, service, Final
<1>6. ASSUME NEW w \in Withdrawals, Lookup(w) PROVE TypeOK'
  <2>1. [row[w] EXCEPT !.known = TRUE] \in Rows
    <3>1. row[w] \in Rows
      BY <1>0
    <3> QED BY <1>a2, <1>e, <3>1, Zenon
  <2>2. row' = [row EXCEPT ![w] = [row[w] EXCEPT !.known = TRUE]]
    BY <1>6 DEF Lookup
  <2> QED BY <1>0, <1>6, <1>f, <2>1, <2>2 DEF Lookup, provider
<1>7. ASSUME NEW w \in Withdrawals, Observe(w) PROVE TypeOK'
  <2>1. <<w, payout[w]>> \in Withdrawals \X Final
    BY <1>7 DEF Observe
  <2> QED BY <1>0, <1>7, <2>1 DEF Observe, provider
<1>8. ASSUME NEW c \in Calls, (\E w \in Withdrawals : LateReport(c, w)) \/ ReadLocked(c)
      PROVE  TypeOK'
  <2>1. CASE \E w \in Withdrawals : LateReport(c, w)
    BY <1>0, <1>y, <2>1 DEF LateReport, provider
  <2>2. CASE ReadLocked(c)
    <3> DEFINE w == call[c].ref
               n == IF wallet[Owner[w]].locked < Amount[w] THEN wallet[Owner[w]].locked ELSE Amount[w]
    <3>1. w \in Legacy /\ w \in Withdrawals
      BY <1>d, <1>g, <2>2 DEF ReadLocked
    <3>2. n \in Int
      BY <1>0, <3>1, RowsKept
    <3>3. call' = [call EXCEPT ![c] = [at |-> "release", ref |-> w, unlock |-> n]]
      BY <2>2 DEF ReadLocked
    <3>4. [at |-> "release", ref |-> w, unlock |-> n] \in Lates
      BY <1>y, <3>1, <3>2
    <3>5. call' \in [Calls -> {Idle} \cup Works \cup Lates]
      BY <1>0, <3>3, <3>4
    <3> QED BY <1>0, <2>2, <3>5 DEF ReadLocked, provider
  <2> QED BY <1>8, <2>1, <2>2
<1>8a. ASSUME NEW c \in Calls, FailTransaction(c) PROVE TypeOK'
  <2> DEFINE w == call[c].ref
  <2>1. w \in Withdrawals /\ call[c].unlock \in Int
        /\ call' \in [Calls -> {Idle} \cup Works \cup Lates]
    BY <1>8a, <1>g, <1>i DEF FailTransaction, End
  <2>2. Owner[w] \in Users /\ wallet \in [Users -> Row]
    BY <1>0, <2>1, RowsKept
  <2>3. wallet' \in [Users -> Row]
    BY <1>8a, <2>1, <2>2, Increments DEF FailTransaction
  <2>4. [row[w] EXCEPT !.tx = "failed"] \in Rows
    <3>1. row[w] \in Rows
      BY <1>0, <2>1
    <3> HIDE DEF w
    <3> QED BY <1>a3, <3>1
  <2>5. row' = [row EXCEPT ![w] = [row[w] EXCEPT !.tx = "failed"]]
    BY <1>8a DEF FailTransaction
  <2> QED BY <1>0, <1>8a, <1>f, <2>1, <2>3, <2>4, <2>5 DEF FailTransaction, provider
<1>9. ASSUME NEW w \in Withdrawals, CloseByHand(w) PROVE TypeOK'
  BY <1>0, <1>2, <1>3, <1>9 DEF CloseByHand, MarkAsSuccess, provider
<1>10. ASSUME NEW w \in Withdrawals, NEW outcome \in Final, Settle(w, outcome) PROVE TypeOK'
  BY <1>0, <1>2, <1>3, <1>10 DEF Settle, MarkAsSuccess, provider
<1>11. ASSUME NEW c \in Calls, NEW w \in Withdrawals, BeginSubmit(c, w) PROVE TypeOK'
  <2>1. [at |-> "claim", ref |-> w, known |-> row[w].known] \in Works
    BY <1>0, <1>a, <1>c
  <2> QED BY <1>0, <1>11, <2>1 DEF BeginSubmit, provider
<1>13. ASSUME NEW c \in Calls, Claim(c) PROVE TypeOK'
  <2> DEFINE w == call[c].ref
             new == [row[w] EXCEPT !.status = "PROCESSING",
                                   !.approval = IF w \in Crypto THEN "approved" ELSE @]
  <2>1. w \in Withdrawals /\ call' \in [Calls -> {Idle} \cup Works \cup Lates]
    BY <1>13, <1>h DEF Claim
  <2>2. row[w].approval \in {"pending", "approved"} /\ row[w] \in Rows
    BY <1>0, <2>1 DEF Rows
  <2>3. new \in Rows
    BY <1>a, <1>d, <2>2
  <2>4. row' = [row EXCEPT ![w] = new]
    BY <1>13 DEF Claim
  <2> QED BY <1>0, <1>13, <1>f, <2>1, <2>3, <2>4 DEF Claim, provider
<1>14. ASSUME NEW c \in Calls, ClaimLost(c) \/ InitiateRefused(c) PROVE TypeOK'
  BY <1>0, <1>h, <1>i, <1>14 DEF ClaimLost, InitiateRefused, provider
<1>15. ASSUME NEW w \in Withdrawals, Accept(w)
       PROVE  payout' \in [Withdrawals -> {"none", "pending"} \cup Final]
              /\ submitted' \in [Withdrawals -> Nat]
  BY <1>0, <1>15 DEF Accept
<1>16. ASSUME NEW c \in Calls, Initiate(c) PROVE TypeOK'
  BY <1>0, <1>h, <1>15, <1>16 DEF Initiate
<1>17. ASSUME NEW c \in Calls, InitiateUnknown(c) PROVE TypeOK'
  <2> DEFINE h == [call[c] EXCEPT !.at = "unknown", !.known = row[call[c].ref].known]
  <2>1. call[c] \in Works /\ call[c].ref \in Withdrawals
    BY <1>g, <1>17 DEF InitiateUnknown
  <2>2. h \in Works
    BY <1>0, <1>a, <1>b, <2>1
  <2>3. call' = [call EXCEPT ![c] = h] \/ call' = [call EXCEPT ![c] = Idle]
    BY <1>17 DEF InitiateUnknown, End
  <2>4. call' \in [Calls -> {Idle} \cup Works \cup Lates]
    BY <1>0, <2>2, <2>3
  <2> QED BY <1>0, <1>15, <1>17, <2>1, <2>4 DEF InitiateUnknown, provider
<1>18. ASSUME NEW c \in Calls, NoteUnknown(c) \/ Note(c) PROVE TypeOK'
  <2>0. call' \in [Calls -> {Idle} \cup Works \cup Lates] /\ call[c].ref \in Withdrawals
    BY <1>18, <1>i DEF NoteUnknown, Note
  <2>1. call[c].known \in BOOLEAN
    BY <1>18, <1>g DEF NoteUnknown, Note, End
  <2>2. (call[c].ref \in Crypto) \in BOOLEAN
    <3>1. CASE call[c].ref \in Crypto
      BY <3>1, Zenon
    <3>2. CASE call[c].ref \notin Crypto
      <4>1. (call[c].ref \in Crypto) = FALSE
        BY <3>2
      <4> QED BY <4>1, Zenon
    <3> QED BY <3>1, <3>2, Zenon
  <2>3. PICK b \in BOOLEAN : row' = [row EXCEPT ![call[c].ref] = [row[call[c].ref] EXCEPT !.known = b]]
    BY <1>18, <2>1, <2>2, Zenon DEF NoteUnknown, Note
  <2>4. [row[call[c].ref] EXCEPT !.known = b] \in Rows
    <3>1. row[call[c].ref] \in Rows
      BY <1>0, <2>0
    <3> QED BY <1>a2, <3>1, Zenon
  <2> QED BY <1>0, <1>18, <1>f, <2>0, <2>3, <2>4 DEF NoteUnknown, Note, provider
<1>19. ASSUME NEW c \in Calls, Refund(c) PROVE TypeOK'
  BY <1>0, <1>3, <1>i, <1>19 DEF Refund, provider
<1>20. CASE Restart
  BY <1>0, <1>20 DEF Restart, provider
<1>21. CASE UNCHANGED vars
  BY <1>0, <1>21 DEF vars
<1> QED BY <1>4, <1>5, <1>6, <1>7, <1>8, <1>8a, <1>9, <1>10, <1>11, <1>13, <1>14, <1>16, <1>17,
           <1>18, <1>19, <1>20, <1>21 DEF Next

\* A late report is handled only of a withdrawal that was completed, and no
\* completed one is opened or failed again.
FundsIInv ==
  /\ FundsInv
  /\ \A c \in Calls : call[c].at \in {"late", "release"} => row[call[c].ref].status = "COMPLETED"

\* A step changes the status only of a withdrawal that is not completed, and
\* handles late reports only of one that is.
LEMMA LateCalls == FundsIInv /\ TypeOK' /\ [Next]_vars /\ FundsInv' => FundsIInv'
<1> SUFFICES ASSUME FundsIInv, TypeOK', [Next]_vars, FundsInv',
                    NEW c \in Calls, call'[c].at \in {"late", "release"}
             PROVE  row'[call'[c].ref].status = "COMPLETED"
  BY DEF FundsIInv
<1>1. /\ row \in [Withdrawals -> [status : Statuses, tx : {"open", "completed", "failed"},
                                  approval : {"pending", "approved"}, known : BOOLEAN]]
      /\ call \in [Calls -> {Idle}
                     \cup [at : {"claim", "initiate", "note", "refund", "unknown"},
                           ref : Withdrawals, known : BOOLEAN]
                     \cup [at : {"late"}, ref : Legacy]
                     \cup [at : {"release"}, ref : Legacy, unlock : Int]]
      /\ Legacy \subseteq Withdrawals /\ Idle.at = "idle"
  BY WithdrawalAssumption DEF FundsIInv, FundsInv, TypeOK, Idle
<1>2. \A w \in Withdrawals : row[w].status = "COMPLETED" => row'[w].status = "COMPLETED"
  <2> SUFFICES ASSUME NEW w \in Withdrawals, row[w].status = "COMPLETED"
               PROVE  row'[w].status = "COMPLETED"
    OBVIOUS
  <2>1. CASE row' = row
    BY <2>1
  <2>2. ASSUME NEW v \in Withdrawals, Reserve(v) \/ MarkAsSuccess(v) \/ Reject(v)
        PROVE  row'[w].status = "COMPLETED"
    BY <1>1, <2>2 DEF Reserve, MarkAsSuccess, Complete, Reject, Open
  <2>3. ASSUME NEW v \in Withdrawals, Lookup(v) PROVE row'[w].status = "COMPLETED"
    BY <1>1, <2>3 DEF Lookup
  <2>4. ASSUME NEW d \in Calls, Claim(d) \/ NoteUnknown(d) \/ Note(d) \/ FailTransaction(d)
        PROVE  row'[w].status = "COMPLETED"
    <3>1. CASE Claim(d)
      BY <1>1, <3>1 DEF Claim
    <3>2. CASE NoteUnknown(d) \/ Note(d) \/ FailTransaction(d)
      BY <1>1, <3>2 DEF NoteUnknown, Note, FailTransaction
    <3> QED BY <2>4, <3>1, <3>2
  <2>5. ASSUME NEW d \in Calls, Refund(d) PROVE row'[w].status = "COMPLETED"
    <3>1. call[d].at # "idle"
      BY <2>5 DEF Refund, End
    <3>2. call[d].ref \in Withdrawals
      BY <1>1, <3>1
    <3> QED BY <2>1, <2>2, <2>5, <3>2 DEF Refund
  <2> QED BY <2>1, <2>2, <2>3, <2>4, <2>5 DEF Next, vars, CreateWithdrawal, CreateCryptoWithdrawal,
        ProviderMoves, service, Observe, CloseByHand, Settle, BeginSubmit, LateReport, ClaimLost,
        Initiate, InitiateRefused, InitiateUnknown, ReadLocked, Restart
<1>3. \/ call'[c] = call[c]
      \/ call'[c].ref \in Withdrawals /\ row[call'[c].ref].status = "COMPLETED"
  <2>0. \A d \in Calls : call[d].at \in {"late", "release"} =>
          call[d].ref \in Withdrawals /\ row[call[d].ref].status = "COMPLETED"
    BY <1>1 DEF FundsIInv
  <2>1. ASSUME NEW d \in Calls, NEW w \in Withdrawals, BeginSubmit(d, w)
        PROVE  call'[c] = call[c]
    BY <1>1, <2>1 DEF BeginSubmit
  <2>2. ASSUME NEW d \in Calls, NEW w \in Withdrawals, LateReport(d, w)
        PROVE  \/ call'[c] = call[c]
               \/ call'[c].ref \in Withdrawals /\ row[call'[c].ref].status = "COMPLETED"
    BY <1>1, <2>2 DEF LateReport
  <2>3. ASSUME NEW d \in Calls, ReadLocked(d)
        PROVE  \/ call'[c] = call[c]
               \/ call'[c].ref \in Withdrawals /\ row[call'[c].ref].status = "COMPLETED"
    BY <1>1, <2>0, <2>3 DEF ReadLocked
  <2>4. ASSUME NEW d \in Calls, NEW from, NEW to \in {"initiate", "note", "refund"}, Go(d, from, to)
        PROVE  call'[c] = call[c]
    BY <1>1, <2>4 DEF Go
  <2>5. ASSUME NEW d \in Calls, NEW from, End(d, from) PROVE call'[c] = call[c]
    BY <1>1, <2>5 DEF End
  <2>6. ASSUME NEW d \in Calls, InitiateUnknown(d) PROVE call'[c] = call[c]
    BY <1>1, <2>5, <2>6 DEF InitiateUnknown
  <2>7. CASE call' = call
    BY <2>7
  <2>8. CASE Restart
    BY <1>1, <2>8 DEF Restart
  <2>9. ASSUME NEW d \in Calls, Claim(d) \/ Initiate(d) \/ InitiateRefused(d) PROVE call'[c] = call[c]
    BY <2>4, <2>9 DEF Claim, Initiate, InitiateRefused
  <2>10. ASSUME NEW d \in Calls,
                ClaimLost(d) \/ NoteUnknown(d) \/ Note(d) \/ Refund(d) \/ FailTransaction(d)
         PROVE  call'[c] = call[c]
    BY <2>5, <2>10 DEF ClaimLost, NoteUnknown, Note, Refund, FailTransaction
  <2> QED BY <2>1, <2>2, <2>3, <2>6, <2>7, <2>8, <2>9, <2>10 DEF Next, vars, CreateWithdrawal,
        CreateCryptoWithdrawal, ProviderMoves, service, Lookup, Observe, CloseByHand, Settle
<1>4. call[c].at \in {"late", "release"} => call[c].ref \in Withdrawals
  BY <1>1
<1> QED BY <1>2, <1>3, <1>4 DEF FundsIInv

\* Each update of a withdrawal keeps the locks backed and the wallets accounted
\* for.
LEMMA FundsInductive == FundsIInv /\ [Next]_vars => FundsIInv'
<1> SUFFICES ASSUME FundsIInv, [Next]_vars PROVE FundsInv' /\ TypeOK'
  BY LateCalls
<1> USE DEF FundsIInv
<1>0. TypeOK /\ TypeOK'
  BY WithdrawalsTyped DEF FundsInv
<1> SUFFICES FundsInv'
  BY <1>0
<1>1. ASSUME NEW w \in Withdrawals, Reserve(w) PROVE FundsInv'
  BY <1>0, <1>1, ReserveStep
<1>2. ASSUME NEW w \in Withdrawals, MarkAsSuccess(w) PROVE FundsInv'
  BY <1>0, <1>2, CompleteStep DEF MarkAsSuccess
<1>3. ASSUME NEW w \in Withdrawals, Reject(w) PROVE FundsInv'
  <2>1. row'[w].status = "FAILED" /\ \A v \in Withdrawals \ {w} : row'[v] = row[v]
    BY <1>0, <1>3 DEF Reject, TypeOK
  <2> QED BY <1>0, <1>3, <2>1, UnlockStep DEF Reject
<1>4. ASSUME NEW c \in Calls, FailTransaction(c) PROVE FundsInv'
  <2>1. call[c].at = "release"
    BY <1>4 DEF FailTransaction, End
  <2>2. call[c].ref \in Legacy /\ call[c].unlock \in Int
    BY SMTT(30), <1>0, <2>1 DEF TypeOK, Idle
  <2>3. row[call[c].ref].status = "COMPLETED"
    BY <2>1
  <2> QED BY <1>0, <1>4, <2>2, <2>3, ReleaseStep DEF FailTransaction
<1>5. ASSUME wallet' = wallet, \A w \in Withdrawals : row'[w].status = row[w].status
             /\ row'[w].tx = row[w].tx
      PROVE  FundsInv'
  BY <1>0, <1>5, SameBacking
<1>6. ASSUME NEW w \in Withdrawals,
             \/ ProviderMoves(w) \/ Lookup(w) \/ Observe(w) \/ \E c \in Calls : BeginSubmit(c, w)
      PROVE  FundsInv'
  <2>1. CASE row' = row /\ wallet' = wallet
    BY <1>5, <2>1
  <2>2. CASE Lookup(w)
    BY <1>0, <1>5, <2>2 DEF Lookup, TypeOK
  <2> QED BY <1>6, <2>1, <2>2 DEF ProviderMoves, Observe, BeginSubmit, service
<1>7. ASSUME NEW c \in Calls, call[c].ref \in Withdrawals, Claim(c) PROVE FundsInv'
  <2>0. PICK w \in Withdrawals : w = call[c].ref
    BY <1>7
  <2>1. /\ wallet' = wallet /\ row[w].status = "PENDING" /\ row'[w].status = "PROCESSING"
        /\ \A v \in Withdrawals : row'[v].tx = row[v].tx
        /\ \A v \in Withdrawals : v # w => row'[v].status = row[v].status
    BY <1>0, <1>7, <2>0 DEF Claim, TypeOK
  <2>2. "PROCESSING" \in Open /\ "PENDING" \in Open /\ "COMPLETED" \notin Open
    BY DEF Open
  <2>3. ASSUME NEW v \in Withdrawals
        PROVE  /\ row'[v].status \in Open <=> row[v].status \in Open
               /\ row'[v].status = "COMPLETED" <=> row[v].status = "COMPLETED"
               /\ row'[v].tx = row[v].tx
    <3>1. CASE v = w BY <2>1, <2>2, <3>1
    <3>2. CASE v # w BY <2>1, <3>2
    <3> QED BY <3>1, <3>2
  <2> QED BY <1>0, <2>1, <2>3, SameBacking
<1>8. ASSUME NEW c \in Calls,
             \/ ClaimLost(c) \/ Initiate(c) \/ InitiateRefused(c) \/ InitiateUnknown(c)
             \/ NoteUnknown(c) \/ Note(c) \/ ReadLocked(c) \/ \E w \in Withdrawals : LateReport(c, w)
      PROVE  FundsInv'
  <2>1. CASE UNCHANGED <<wallet, row>>
    BY <1>5, <2>1
  <2>2. CASE NoteUnknown(c)
    <3>1. wallet' = wallet /\ row' = [row EXCEPT ![call[c].ref].known = call[c].known]
      BY <2>2 DEF NoteUnknown
    <3>2. \A w \in Withdrawals : row'[w].status = row[w].status /\ row'[w].tx = row[w].tx
      BY <1>0, <3>1 DEF TypeOK
    <3> QED BY <1>5, <3>1, <3>2
  <2>3. CASE Note(c)
    <3>1. wallet' = wallet /\ row' = [row EXCEPT ![call[c].ref].known = call[c].ref \in Crypto]
      BY <2>3 DEF Note
    <3>2. \A w \in Withdrawals : row'[w].status = row[w].status /\ row'[w].tx = row[w].tx
      BY <1>0, <3>1 DEF TypeOK
    <3> QED BY <1>5, <3>1, <3>2
  <2> QED BY <1>8, <2>1, <2>2, <2>3 DEF ClaimLost, Initiate, InitiateRefused, InitiateUnknown,
        ReadLocked, LateReport
<1>9. ASSUME NEW c \in Calls, call[c].ref \in Withdrawals, Refund(c) PROVE FundsInv'
  BY <1>0, <1>3, <1>5, <1>9 DEF Refund
<1>10. CASE Restart \/ UNCHANGED vars
  BY <1>0, <1>5, <1>10 DEF Restart, vars
<1>11. \A c \in Calls : call[c].at # "idle" => call[c].ref \in Withdrawals
  BY <1>0, WithdrawalAssumption DEF TypeOK, Idle
<1>12. \A c \in Calls : Claim(c) \/ Refund(c) => call[c].at # "idle"
  BY DEF Claim, Refund, Go, End
<1> QED BY <1>1, <1>2, <1>3, <1>4, <1>6, <1>7, <1>8, <1>9, <1>10, <1>11, <1>12
     DEF Next, CreateWithdrawal, CreateCryptoWithdrawal, CloseByHand, Settle

\* At first each wallet has locked what its legacy withdrawals reserve.
LEMMA InitialFunds == Init => FundsIInv
<1>1. Init => FundsInv
  <2> SUFFICES ASSUME Init PROVE FundsInv
    OBVIOUS
  <2>0. wallet = [u \in Users |-> [balance |-> InitialBalance[u], locked |-> Reserved(row, u)]]
        /\ \A w \in Withdrawals : row[w].status \in {"NONE", "PROCESSING"}
    BY DEF Init, InitAfter
  <2>1. ASSUME NEW u \in Users
        PROVE  Reserved(row, u) \in Int /\ Reserved(row, u) <= InitialBalance[u]
    <3> DEFINE f == [w \in Withdrawals |-> IF Owner[w] = u /\ w \in Legacy THEN Amount[w] ELSE 0]
    <3>1. f = [w \in Withdrawals |-> IF Owner[w] = u /\ row[w].status \in Open THEN Amount[w] ELSE 0]
      <4>1. \A w \in Withdrawals : row[w].status \in Open <=> w \in Legacy
        BY DEF Init, InitAfter, Open
      <4> QED BY <4>1
    <3>2. f \in [Withdrawals -> Int] /\ IsFiniteSet(Withdrawals)
      BY WithdrawalAssumption
    <3>3. SumOver(f, Withdrawals) <= InitialBalance[u]
      BY WithdrawalAssumption
    <3> HIDE DEF f
    <3>4. Reserved(row, u) = SumOver(f, Withdrawals)
      BY <3>1 DEF Reserved
    <3> QED BY <3>2, <3>3, <3>4, SumOverBound
  <2>2. TypeOK
    <3>1. wallet \in [Users -> Row]
      BY <2>0, <2>1, WithdrawalAssumption DEF Row
    <3>2. row \in [Withdrawals -> [status : Statuses, tx : {"open", "completed", "failed"},
                                  approval : {"pending", "approved"}, known : BOOLEAN]]
      BY DEF Init, InitAfter, Statuses, Open
    <3> QED BY <3>1, <3>2, WithdrawalAssumption DEF Init, InitAfter, TypeOK, Final
  <2>3. ReservationsBacked
    BY <2>0, <2>1, WithdrawalAssumption DEF ReservationsBacked
  <2>4. Accounted
    <3>1. Total(wallet) = SumOver(InitialBalance, Users)
      <4>1. [u \in DOMAIN wallet |-> wallet[u].balance] = InitialBalance /\ DOMAIN wallet = Users
        BY <2>0, WithdrawalAssumption
      <4> QED BY <4>1 DEF Total
    <3> DEFINE f == [w \in Withdrawals |-> IF row[w].status = "COMPLETED" THEN Amount[w] - Fee[w] ELSE 0]
    <3>2. \A w \in Withdrawals : f[w] = 0
      BY <2>0
    <3>3. SumOver(f, Withdrawals) = 0
      <4> HIDE DEF f
      <4> QED BY <3>2, WithdrawalAssumption, SumOverZero
    <3>4. SumOver(InitialBalance, Users) \in Int
      <4>1. InitialBalance \in [Users -> Int] /\ IsFiniteSet(Users)
        BY WithdrawalAssumption
      <4> QED BY <4>1, SumOverBound
    <3> QED BY <3>1, <3>3, <3>4 DEF Accounted
  <2> QED BY <2>2, <2>3, <2>4 DEF FundsInv
<1>2. Init => \A c \in Calls : call[c].at = "idle"
  BY DEF Init, InitAfter, Idle
<1> QED BY <1>1, <1>2 DEF FundsIInv

\* No wallet is overdrawn, what one has locked is what its open withdrawals reserve,
\* and what left the wallets is what the completed ones paid out, whatever
\* createWithdrawal, the worker, the webhooks and the administrator interleave: but
\* for the lock of an owner whose legacy payout was reported failed after it was
\* closed as paid.
THEOREM FundsBacked == Spec => []FundsInv
<1>1. FundsIInv => FundsInv
  BY DEF FundsIInv
<1> QED BY <1>1, InitialFunds, FundsInductive, PTL DEF Spec

\* The call that has claimed a withdrawal and is to pay it or to give it back.
Holder(c, w) == call[c].at \in {"initiate", "refund"} /\ call[c].ref = w

PayoutsIInv ==
  /\ TypeOK
  /\ \A w \in Withdrawals :
       row[w].status \in {"NONE", "PENDING"} => payout[w] = "none" /\ submitted[w] = 0
  /\ \A c \in Calls, w \in Withdrawals :
       Holder(c, w) =>
         /\ payout[w] = "none" /\ submitted[w] = 0
         /\ row[w].status \notin {"NONE", "PENDING"}
         /\ w \notin ByHand => row[w].status = "PROCESSING"
  /\ \A c, d \in Calls, w \in Withdrawals : Holder(c, w) /\ Holder(d, w) => c = d
  /\ \A w \in Withdrawals, outcome \in Final :
       <<w, outcome>> \in reports =>
         payout[w] = outcome \/ (outcome = "paid" /\ payout[w] = "reversed")
  /\ PayoutsInv

\* Each step keeps at most one payer for a withdrawal.
LEMMA PayoutsInductive == PayoutsIInv /\ [Next]_vars => PayoutsIInv'
<1> SUFFICES ASSUME PayoutsIInv, [Next]_vars PROVE PayoutsIInv'
  OBVIOUS
<1>0. TypeOK /\ TypeOK'
  BY WithdrawalsTyped DEF PayoutsIInv
<1> DEFINE Same == \A c \in Calls, w \in Withdrawals : Holder(c, w)' => Holder(c, w)
<1>t. /\ row \in [Withdrawals -> [status : Statuses, tx : {"open", "completed", "failed"},
                                  approval : {"pending", "approved"}, known : BOOLEAN]]
      /\ payout \in [Withdrawals -> {"none", "pending"} \cup Final]
      /\ submitted \in [Withdrawals -> Nat]
      /\ call \in [Calls -> {Idle} \cup
                     [at : {"claim", "initiate", "note", "refund", "unknown"},
                      ref : Withdrawals, known : BOOLEAN]
                     \cup [at : {"late"}, ref : Legacy]
                     \cup [at : {"release"}, ref : Legacy, unlock : Int]]
  BY <1>0 DEF TypeOK
<1>c. \A c \in Calls : call[c].at # "idle" => call[c].ref \in Withdrawals
  BY <1>t, WithdrawalAssumption DEF Idle
<1>1. ASSUME Same, UNCHANGED <<provider, reports>>, NEW w \in Withdrawals,
             \A v \in Withdrawals \ {w} : row'[v].status = row[v].status,
             \/ row'[w].status = row[w].status
             \/ row'[w].status = "PENDING" /\ row[w].status = "NONE"
             \/ /\ row'[w].status \in {"COMPLETED", "FAILED"}
                /\ w \in ByHand
             \/ /\ row'[w].status = "COMPLETED" /\ payout[w] \in {"paid", "reversed"}
             \/ /\ row'[w].status = "FAILED" /\ payout[w] \in {"failed", "reversed"}
             \/ /\ row'[w].status = "FAILED" /\ payout[w] = "none"
                /\ \A d \in Calls : ~Holder(d, w)'
      PROVE  PayoutsIInv'
  <2>0. payout' = payout /\ submitted' = submitted /\ reports' = reports
    BY <1>1 DEF provider
  <2>1. ASSUME NEW v \in Withdrawals
        PROVE  /\ row'[v].status \in {"NONE", "PENDING"} => row[v].status \in {"NONE", "PENDING"}
               /\ v \notin ByHand
                  /\ row'[v].status = "COMPLETED" => payout[v] \in {"paid", "reversed"}
               /\ v \notin ByHand
                  /\ row'[v].status = "FAILED" => payout[v] \notin {"pending", "paid"}
               /\ \/ row'[v].status = row[v].status \/ v \in ByHand \/ payout[v] # "none"
                  \/ \A d \in Calls : ~Holder(d, v)'
                  \/ row[v].status = "NONE"
               /\ row[v].status \notin {"NONE", "PENDING"} => row'[v].status \notin {"NONE", "PENDING"}
    <3>1. CASE v = w
      BY <1>1, <3>1 DEF PayoutsIInv, PayoutsInv, DebitedIsPaid, PaidIsNotRefunded
    <3>2. CASE v # w
      BY <1>1, <3>2 DEF PayoutsIInv, PayoutsInv, DebitedIsPaid, PaidIsNotRefunded
    <3> QED BY <3>1, <3>2
  <2>2. PayoutsInv'
    BY <2>0, <2>1 DEF PayoutsIInv, PayoutsInv, SubmittedOnce, DebitedIsPaid, PaidIsNotRefunded
  <2>3. ASSUME NEW c \in Calls, NEW v \in Withdrawals, Holder(c, v)'
        PROVE  /\ payout[v] = "none" /\ submitted[v] = 0
               /\ row'[v].status \notin {"NONE", "PENDING"}
               /\ v \notin ByHand => row'[v].status = "PROCESSING"
    <3>1. Holder(c, v)
      BY <1>1, <2>3
    <3> QED BY <2>1, <2>3, <3>1 DEF PayoutsIInv
  <2>4. \A c, d \in Calls, v \in Withdrawals : Holder(c, v)' /\ Holder(d, v)' => c = d
    BY <1>1 DEF PayoutsIInv
  <2>5. \A v \in Withdrawals :
          row'[v].status \in {"NONE", "PENDING"} => payout[v] = "none" /\ submitted[v] = 0
    BY <2>1 DEF PayoutsIInv
  <2>6. \A v \in Withdrawals, outcome \in Final :
       <<v, outcome>> \in reports' => payout'[v] = outcome \/ (outcome = "paid" /\ payout'[v] = "reversed")
    BY <2>0 DEF PayoutsIInv
  <2> HIDE DEF Same
  <2> QED BY <1>0, <2>0, <2>2, <2>3, <2>4, <2>5, <2>6 DEF PayoutsIInv
<1> HIDE DEF Same
<1>2. ASSUME NEW w \in Withdrawals, CreateWithdrawal(w) \/ CreateCryptoWithdrawal(w)
      PROVE PayoutsIInv'
  <2>1. row[w].status = "NONE" /\ row'[w].status = "PENDING"
        /\ \A v \in Withdrawals \ {w} : row'[v].status = row[v].status
    BY <1>t, <1>2 DEF CreateWithdrawal, CreateCryptoWithdrawal, Reserve
  <2>2. Same /\ UNCHANGED <<provider, reports>>
    BY <1>2 DEF CreateWithdrawal, CreateCryptoWithdrawal, Same, Holder
  <2> QED BY <1>1, <2>1, <2>2
<1>3. ASSUME NEW w \in Withdrawals, ProviderMoves(w) PROVE PayoutsIInv'
  <2>1. UNCHANGED <<submitted, row, call, reports>>
    BY <1>3 DEF ProviderMoves, service
  <2>2. /\ \A v \in Withdrawals \ {w} : payout'[v] = payout[v]
        /\ \/ payout[w] = "pending" /\ payout'[w] \in {"paid", "failed"}
           \/ payout[w] = "paid" /\ payout'[w] = "reversed"
    BY <1>t, <1>3 DEF ProviderMoves
  <2>3. ASSUME NEW v \in Withdrawals
        PROVE  /\ payout[v] = "none" => payout'[v] = "none"
               /\ payout[v] \in {"paid", "reversed"} => payout'[v] \in {"paid", "reversed"}
               /\ payout[v] \notin {"pending", "paid"} => payout'[v] \notin {"pending", "paid"}
               /\ \A outcome \in Final :
                    payout[v] = outcome \/ (outcome = "paid" /\ payout[v] = "reversed")
                      => payout'[v] = outcome \/ (outcome = "paid" /\ payout'[v] = "reversed")
    BY <2>2 DEF Final
  <2>4. PayoutsInv'
    BY <2>1, <2>3 DEF PayoutsIInv, PayoutsInv, SubmittedOnce, DebitedIsPaid, PaidIsNotRefunded
  <2>5. \A c \in Calls, v \in Withdrawals : Holder(c, v)' <=> Holder(c, v)
    BY <2>1 DEF Holder
  <2>6. \A c \in Calls, v \in Withdrawals :
          Holder(c, v)' =>
            /\ payout'[v] = "none" /\ submitted'[v] = 0
            /\ row'[v].status \notin {"NONE", "PENDING"}
            /\ v \notin ByHand => row'[v].status = "PROCESSING"
    BY <2>1, <2>3, <2>5 DEF PayoutsIInv
  <2>7. \A c, d \in Calls, v \in Withdrawals : Holder(c, v)' /\ Holder(d, v)' => c = d
    BY <2>5 DEF PayoutsIInv
  <2>8. \A v \in Withdrawals :
          row'[v].status \in {"NONE", "PENDING"} => payout'[v] = "none" /\ submitted'[v] = 0
    BY <2>1, <2>3 DEF PayoutsIInv
  <2>9. \A v \in Withdrawals, outcome \in Final :
          <<v, outcome>> \in reports' =>
            payout'[v] = outcome \/ (outcome = "paid" /\ payout'[v] = "reversed")
    BY <2>1, <2>3 DEF PayoutsIInv
  <2> QED BY <1>0, <2>4, <2>6, <2>7, <2>8, <2>9 DEF PayoutsIInv
<1>4. ASSUME NEW w \in Withdrawals, Lookup(w) PROVE PayoutsIInv'
  <2>1. \A v \in Withdrawals : row'[v].status = row[v].status
    BY <1>t, <1>4 DEF Lookup
  <2>2. Same /\ UNCHANGED <<provider, reports>>
    BY <1>4 DEF Lookup, Same, Holder
  <2> QED BY <1>1, <2>1, <2>2
<1>4a. ASSUME NEW c \in Calls, NEW w \in Withdrawals,
              LateReport(c, w) \/ ReadLocked(c) \/ FailTransaction(c)
       PROVE  PayoutsIInv'
  <2>1. \A v \in Withdrawals : row'[v].status = row[v].status
    BY <1>t, <1>4a DEF LateReport, ReadLocked, FailTransaction
  <2>2. Same
    BY <1>t, <1>4a DEF LateReport, ReadLocked, FailTransaction, End, Same, Holder, Idle
  <2>3. UNCHANGED <<provider, reports>>
    BY <1>4a DEF LateReport, ReadLocked, FailTransaction
  <2> QED BY <1>1, <2>1, <2>2, <2>3
<1>4b. ASSUME NEW c \in Calls, ReadLocked(c) \/ FailTransaction(c) PROVE PayoutsIInv'
  <2>1. call[c].ref \in Withdrawals
    BY <1>c, <1>4b DEF ReadLocked, FailTransaction, End
  <2> QED BY <1>4a, <1>4b, <2>1
<1>5. ASSUME NEW w \in Withdrawals, Observe(w) PROVE PayoutsIInv'
  BY <1>0, <1>5 DEF Observe, provider, Holder,
     PayoutsIInv, PayoutsInv, SubmittedOnce, DebitedIsPaid, PaidIsNotRefunded
<1>6. ASSUME NEW w \in Withdrawals, CloseByHand(w) PROVE PayoutsIInv'
  <2>1. /\ w \in ByHand /\ row'[w].status \in {"COMPLETED", "FAILED"}
        /\ \A v \in Withdrawals \ {w} : row'[v].status = row[v].status
    BY <1>t, <1>6 DEF CloseByHand, MarkAsSuccess, Complete, Reject
  <2>2. Same /\ UNCHANGED <<provider, reports>>
    BY <1>6 DEF CloseByHand, Same, Holder
  <2> QED BY <1>1, <2>1, <2>2
<1>7. ASSUME NEW w \in Withdrawals, NEW outcome \in Final, Settle(w, outcome) PROVE PayoutsIInv'
  <2>1. /\ row'[w].status = IF outcome = "paid" THEN "COMPLETED" ELSE "FAILED"
        /\ \A v \in Withdrawals \ {w} : row'[v].status = row[v].status
    BY <1>t, <1>7 DEF Settle, MarkAsSuccess, Complete, Reject
  <2>2. Same /\ UNCHANGED <<provider, reports>>
    BY <1>7 DEF Settle, Same, Holder
  <2>3. IF outcome = "paid" THEN payout[w] \in {"paid", "reversed"} ELSE payout[w] \in {"failed", "reversed"}
    BY <1>7 DEF Settle, PayoutsIInv, Final
  <2> QED BY <1>1, <2>1, <2>2, <2>3
<1>8. ASSUME NEW c \in Calls, NEW w \in Withdrawals, BeginSubmit(c, w) PROVE PayoutsIInv'
  <2>1. Same /\ UNCHANGED <<provider, reports, row>>
    BY <1>t, <1>8 DEF BeginSubmit, Same, Holder, Idle
  <2> QED BY <1>1, <2>1
<1>9. ASSUME NEW c \in Calls, Claim(c) PROVE PayoutsIInv'
  <2>0. PICK w \in Withdrawals : w = call[c].ref
    BY <1>c, <1>9 DEF Claim, Go
  <2>1. /\ row[w].status = "PENDING" /\ row'[w].status = "PROCESSING"
        /\ \A v \in Withdrawals \ {w} : row'[v].status = row[v].status
        /\ UNCHANGED <<provider, reports>>
    BY <1>t, <1>9, <2>0 DEF Claim
  <2>2. \A d \in Calls, v \in Withdrawals : Holder(d, v)' => Holder(d, v) \/ (d = c /\ v = w)
    BY <1>t, <1>9, <2>0 DEF Claim, Go, Holder
  <2>3. payout[w] = "none" /\ submitted[w] = 0 /\ \A d \in Calls : ~Holder(d, w)
    BY <2>1 DEF PayoutsIInv
  <2> QED BY <1>0, <2>1, <2>2, <2>3 DEF PayoutsIInv, PayoutsInv, SubmittedOnce,
      DebitedIsPaid, PaidIsNotRefunded, provider
<1>10. ASSUME NEW c \in Calls, ClaimLost(c) \/ InitiateRefused(c) PROVE PayoutsIInv'
  <2>1. Same /\ UNCHANGED <<provider, reports, row>>
    BY <1>t, <1>10 DEF ClaimLost, InitiateRefused, Go, End, Same, Holder, Idle
  <2>2. Withdrawals # {} => PayoutsIInv'
    BY <1>1, <2>1
  <2> QED BY <1>c, <1>10, <2>2 DEF ClaimLost, InitiateRefused, Go, End
<1>11. ASSUME NEW c \in Calls, NEW w \in Withdrawals, w = call[c].ref, call[c].at = "initiate",
              Accept(w), UNCHANGED <<row, reports>>, \A d \in Calls \ {c} : call'[d] = call[d],
              call'[c].at \notin {"initiate", "refund"}
       PROVE  PayoutsIInv'
  <2>1. \A d \in Calls, v \in Withdrawals : Holder(d, v)' => Holder(d, v) /\ d # c
    BY <1>11 DEF Holder
  <2>2. payout[w] = "none" /\ submitted[w] = 0
        /\ (w \notin ByHand => row[w].status = "PROCESSING")
        /\ row[w].status \notin {"NONE", "PENDING"} /\ \A d \in Calls : Holder(d, w) => d = c
    BY <1>11 DEF PayoutsIInv, Holder
  <2>3. /\ payout'[w] = "pending" /\ submitted'[w] = 1
        /\ \A v \in Withdrawals \ {w} : payout'[v] = payout[v] /\ submitted'[v] = submitted[v]
    BY <1>t, <1>11, <2>2 DEF Accept
  <2>4. \A outcome \in Final : <<w, outcome>> \notin reports
    BY <2>2 DEF PayoutsIInv, Final
  <2> QED BY <1>0, <1>11, <2>1, <2>2, <2>3, <2>4 DEF PayoutsIInv, PayoutsInv, SubmittedOnce,
      DebitedIsPaid, PaidIsNotRefunded
<1>12. ASSUME NEW c \in Calls, Initiate(c) PROVE PayoutsIInv'
  BY <1>11, <1>12, <1>c, <1>t DEF Initiate, Go
<1>13. ASSUME NEW c \in Calls, InitiateUnknown(c) PROVE PayoutsIInv'
  <2>1. /\ \A d \in Calls \ {c} : call'[d] = call[d]
        /\ call'[c].at \notin {"initiate", "refund"} /\ call[c].at = "initiate"
        /\ UNCHANGED <<row, reports>> /\ call[c].ref \in Withdrawals
        /\ Accept(call[c].ref) \/ UNCHANGED provider
    BY <1>13, <1>c, <1>t DEF InitiateUnknown, End, Idle
  <2>2. CASE UNCHANGED provider
    BY <1>1, <2>1, <2>2 DEF Same, Holder
  <2> QED BY <1>11, <2>1, <2>2
<1>14. ASSUME NEW c \in Calls, NoteUnknown(c) \/ Note(c) PROVE PayoutsIInv'
  <2>1. Same /\ UNCHANGED <<provider, reports>> /\ call[c].ref \in Withdrawals
    BY SMTT(30), <1>t, <1>c, <1>14 DEF NoteUnknown, Note, End, Same, Holder, Idle
  <2>2. \A v \in Withdrawals : row'[v].status = row[v].status
    BY SMTT(30), <1>t, <1>14 DEF NoteUnknown, Note
  <2> QED BY <1>1, <2>1, <2>2
<1>15. ASSUME NEW c \in Calls, Refund(c) PROVE PayoutsIInv'
  <2>0. PICK w \in Withdrawals : w = call[c].ref
    BY <1>c, <1>15 DEF Refund, End
  <2>1. Same /\ UNCHANGED <<provider, reports>> /\ Holder(c, w) /\ ~Holder(c, w)'
    BY <1>t, <1>15, <2>0 DEF Refund, End, Same, Holder, Idle
  <2>2. /\ row'[w].status = row[w].status \/ row'[w].status = "FAILED"
        /\ \A v \in Withdrawals \ {w} : row'[v].status = row[v].status
    BY <1>t, <1>15, <2>0 DEF Refund, Reject
  <2>3. payout[w] = "none" /\ \A d \in Calls : ~Holder(d, w)'
    BY <2>1 DEF PayoutsIInv, Same
  <2> QED BY <1>1, <2>1, <2>2, <2>3
<1>16. CASE Restart
  BY <1>0, <1>16 DEF Restart, provider, Holder, Idle,
     PayoutsIInv, PayoutsInv, SubmittedOnce, DebitedIsPaid, PaidIsNotRefunded
<1>17. CASE UNCHANGED vars
  BY <1>17 DEF vars, Holder, TypeOK, PayoutsIInv, PayoutsInv, SubmittedOnce, DebitedIsPaid,
       PaidIsNotRefunded
<1> QED BY <1>2, <1>3, <1>4, <1>4a, <1>4b, <1>5, <1>6, <1>7, <1>8, <1>9, <1>10, <1>12, <1>13, <1>14, <1>15,
           <1>16, <1>17 DEF Next

\* A withdrawal is submitted to Paystack at most once, debited only when it is
\* paid and refunded only when it is not, although the worker, retries and
\* webhooks race: but for those an administrator closes by hand.
THEOREM PaidOnce == Spec => []PayoutsInv
<1>1. Init => PayoutsIInv
  <2>1. Init => TypeOK
    BY InitialFunds DEF FundsIInv, FundsInv
  <2> SUFFICES ASSUME Init PROVE PayoutsIInv
    OBVIOUS
  <2>2. ASSUME NEW w \in Withdrawals
        PROVE  /\ row[w].status = IF w \in Legacy THEN "PROCESSING" ELSE "NONE"
               /\ payout[w] = IF w \in Legacy THEN "pending" ELSE "none"
               /\ submitted[w] = 0
    BY DEF Init, InitAfter
  <2>3. \A c \in Calls, w \in Withdrawals : ~Holder(c, w)
    BY DEF Init, InitAfter, Holder, Idle
  <2>4. reports = {}
    BY DEF Init, InitAfter
  <2>5. PayoutsInv
    BY <2>2 DEF PayoutsInv, SubmittedOnce, DebitedIsPaid, PaidIsNotRefunded
  <2> QED BY <2>1, <2>2, <2>3, <2>4, <2>5 DEF PayoutsIInv
<1>2. PayoutsIInv => PayoutsInv
  BY DEF PayoutsIInv
<1> QED BY <1>1, <1>2, PayoutsInductive, PTL DEF Spec

=============================================================================
