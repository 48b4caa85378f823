------------------------------ MODULE Wallets ------------------------------
(***************************************************************************)
(* Rows of the wallets table and the increments the services apply to them *)
(* inside a database transaction.  A row holds a balance and a locked      *)
(* balance, the part of the balance that is reserved for an escrow or for  *)
(* a withdrawal in flight.  No CHECK constraint bounds either column, so   *)
(* both range over the integers.  Amounts are whole numbers of the         *)
(* smallest unit the decimal columns hold.                                 *)
(***************************************************************************)
EXTENDS Integers, FiniteSets

Row == [balance : Int, locked : Int]

\* What the owner may still spend or reserve.
Available(row) == row.balance - row.locked

\* balance: { increment: amount }
Credit(rows, w, amount) == [rows EXCEPT ![w].balance = @ + amount]

\* balance: { decrement: amount }
Debit(rows, w, amount) == [rows EXCEPT ![w].balance = @ - amount]

\* locked_balance: { increment: amount }
Hold(rows, w, amount) == [rows EXCEPT ![w].locked = @ + amount]

\* locked_balance: { decrement: amount }
Free(rows, w, amount) == [rows EXCEPT ![w].locked = @ - amount]

----------------------------------------------------------------------------
(* The sum of f over a finite set, which the statements about totals use.  *)

SumOver(f, S) ==
  LET sum[T \in SUBSET S] ==
        IF T = {} THEN 0
                  ELSE LET x == CHOOSE x \in T : TRUE
                       IN  sum[T \ {x}] + f[x]
  IN  sum[S]

\* All the money the rows hold.
Total(rows) == SumOver([w \in DOMAIN rows |-> rows[w].balance], DOMAIN rows)

=============================================================================
