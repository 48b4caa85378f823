--------------------------- MODULE DepositProofs ----------------------------
(***************************************************************************)
(* A deposit is credited once for each way its payment reaches the code,   *)
(* and only when it was paid, for every set of deposits and handlers: the  *)
(* service, the webhook and the sweeping job, for Paystack's deposits      *)
(* (Deposits) and IvoryPay's (IvoryDeposits).                              *)
(*                                                                         *)
(* Each invariant adds to the property what a handler still knows of the   *)
(* rows it read before: a status it saw as final is final, one it saw as   *)
(* open may have moved on.                                                 *)
(***************************************************************************)
EXTENDS Deposits, IvoryDeposits, Integers, TLAPS

----------------------------------------------------------------------------
(* Deposits by card and mobile money.                                      *)

\* What a handler knows of the deposit it read: the end it saw stands, a guest's
\* row is linked, and an uncredited deposit it may still close was pending when
\* it read.
CallKnows(c) ==
  LET d == call[c].ref
  IN  call[c] # Idle =>
        /\ call[c].deposit = "FAILED" => deposit[d] = "FAILED"
        /\ call[c].deposit = "SUCCESS" \/ call[c].tx = "completed" => credits[d] > 0
        /\ call[c].guest => Linked(d)
        /\ call[c].at = "act" /\ credits[d] > 0
           /\ deposit[d] \in {"none", "PENDING"} => call[c].tx # "pending"

DepositsIInv ==
  /\ DepositsInv
  /\ \A d \in Deposits : credits[d] > 0 => txn[d] # "pending"
  /\ \A d \in Deposits : Linked(d) => charge[d] # "none"
  /\ \A c \in Calls : CallKnows(c)

\* Every handler of a deposit keeps what it and the others know.
LEMMA DepositsInductive == DepositsIInv /\ [Next]_vars => DepositsIInv'
<1> SUFFICES ASSUME DepositsIInv, [Next]_vars PROVE DepositsIInv'
  OBVIOUS
<1> DEFINE Work == [at : {"read", "act"}, job : {"finalize", "sweep", "fail"}, ref : Deposits,
                    deposit : DepositStatuses, tx : TxStatuses, guest : BOOLEAN]
           Elsewhere(d) ==
             \A e \in Deposits \ {d} :
               /\ deposit'[e] = deposit[e] /\ txn'[e] = txn[e] /\ credits'[e] = credits[e]
               /\ charge'[e] = charge[e] /\ sale'[e] = sale[e]
                  /\ (e \in feeTaken' <=> e \in feeTaken)
<1>t. /\ deposit \in [Deposits -> DepositStatuses]
      /\ txn \in [Deposits -> TxStatuses]
      /\ credits \in [Deposits -> Nat]
      /\ charge \in [Deposits -> {"none", "open", "refused", "paid"}]
      /\ reported \subseteq Deposits
      /\ sale \in [Deposits -> {"none", "due", "pending", "completed", "failed"}]
      /\ feeTaken \subseteq Deposits
      /\ call \in [Calls -> {Idle} \cup Work]
      /\ cuts \in 0 .. MaxCuts
  BY DEF DepositsIInv, DepositsInv, TypeOK
<1>r. Idle \notin Work
  BY DEF Idle
<1>w. \A c \in Calls : call[c] # Idle =>
        call[c] \in Work /\ call[c].ref \in Deposits /\ call[c].deposit \in DepositStatuses
        /\ call[c].tx \in TxStatuses
  BY <1>t
<1>k. \A c \in Calls : CallKnows(c)
  BY DEF DepositsIInv
<1>i. \A d \in Deposits :
        /\ credits[d] <= 2
        /\ credits[d] = 2 => sale[d] # "none" /\ d \in feeTaken
        /\ credits[d] > 0 => charge[d] = "paid" /\ txn[d] # "pending"
        /\ deposit[d] = "SUCCESS" \/ txn[d] = "completed" => credits[d] > 0
        /\ sale[d] = "completed" => credits[d] > 0
        /\ d \in feeTaken => sale[d] = "completed"
        /\ Linked(d) => charge[d] # "none"
  BY DEF DepositsIInv, DepositsInv, CreditedOncePerWay, CreditedIsPaid, SuccessIsCredited,
       SaleIsCredited
\* Only a handler changes.
<1>1. ASSUME NEW c \in Calls, NEW h \in {Idle} \cup Work, call' = [call EXCEPT ![c] = h],
             UNCHANGED <<rows, charge, reported, sales>>, cuts' \in 0 .. MaxCuts, CallKnows(c)'
      PROVE  DepositsIInv'
  <2>1. /\ call'[c] = h /\ call' \in [Calls -> {Idle} \cup Work]
        /\ \A x \in Calls \ {c} : call'[x] = call[x]
    BY <1>t, <1>1
  <2>2. TypeOK'
    BY <1>t, <1>1, <2>1 DEF TypeOK, rows, sales
  <2>3. \A x \in Calls : CallKnows(x)'
    BY <1>1, <1>k, <2>1 DEF CallKnows, Linked, rows, sales
  <2> QED BY <1>1, <1>i, <2>2, <2>3 DEF DepositsIInv, DepositsInv, CreditedOncePerWay,
      CreditedIsPaid,
          SuccessIsCredited, SaleIsCredited, Linked, rows, sales
\* What is written about one deposit changes, and no handler does but to end.
<1>2. ASSUME NEW d \in Deposits, TypeOK', Elsewhere(d),
             \A x \in Calls : call'[x] \in {Idle, call[x]},
             credits'[d] >= credits[d], credits'[d] <= 2,
             credits'[d] = 2 => sale'[d] # "none" /\ d \in feeTaken',
             credits'[d] > 0 => charge'[d] = "paid" /\ txn'[d] # "pending",
             deposit'[d] = "SUCCESS" \/ txn'[d] = "completed" \/ sale'[d] = "completed" => credits'[d] > 0,
             d \in feeTaken' => sale'[d] = "completed",
             sale'[d] \notin {"none", "due"} => charge'[d] # "none",
             Linked(d) => sale'[d] \notin {"none", "due"},
             \A x \in Calls : call'[x] # Idle /\ call[x].ref = d =>
                /\ call[x].deposit = "FAILED" => deposit'[d] = "FAILED"
                /\ call[x].at = "act" /\ credits'[d] > 0
                   /\ deposit'[d] \in {"none", "PENDING"} => call[x].tx # "pending"
      PROVE  DepositsIInv'
  <2>1. credits'[d] \in Nat /\ credits[d] \in Nat
    BY <1>t, <1>2 DEF TypeOK
  <2>2. \A x \in Calls : CallKnows(x)'
    <3> SUFFICES ASSUME NEW x \in Calls, call'[x] # Idle PROVE CallKnows(x)'
      BY DEF CallKnows
    <3>1. call'[x] = call[x] /\ call[x].ref \in Deposits
      BY <1>2, <1>w
    <3>2. PICK e \in Deposits : e = call[x].ref
      BY <3>1
    <3>3. /\ call[x].deposit = "SUCCESS" \/ call[x].tx = "completed" => credits[e] > 0
          /\ call[x].deposit = "FAILED" => deposit[e] = "FAILED"
          /\ call[x].guest => Linked(e)
          /\ call[x].at = "act" /\ credits[e] > 0
             /\ deposit[e] \in {"none", "PENDING"} => call[x].tx # "pending"
      BY <1>k, <3>1, <3>2 DEF CallKnows
    <3>4. CASE e = d
      <4>1. (credits[d] > 0 => credits'[d] > 0) /\ (Linked(d) => Linked(d)')
        BY <1>2, <2>1 DEF Linked
      <4> QED BY <1>2, <3>1, <3>2, <3>3, <3>4, <4>1 DEF CallKnows
    <3>5. CASE e # d
      BY <1>2, <3>1, <3>2, <3>3, <3>5 DEF CallKnows, Linked
    <3> QED BY <3>4, <3>5
  <2>4. \A e \in Deposits :
        /\ credits'[e] <= 2
        /\ credits'[e] = 2 => sale'[e] # "none" /\ e \in feeTaken'
        /\ credits'[e] > 0 => charge'[e] = "paid" /\ txn'[e] # "pending"
        /\ deposit'[e] = "SUCCESS" \/ txn'[e] = "completed" => credits'[e] > 0
        /\ sale'[e] = "completed" => credits'[e] > 0
        /\ e \in feeTaken' => sale'[e] = "completed"
        /\ sale'[e] \notin {"none", "due"} => charge'[e] # "none"
    <3> SUFFICES ASSUME NEW e \in Deposits PROVE
        /\ credits'[e] <= 2
        /\ credits'[e] = 2 => sale'[e] # "none" /\ e \in feeTaken'
        /\ credits'[e] > 0 => charge'[e] = "paid" /\ txn'[e] # "pending"
        /\ deposit'[e] = "SUCCESS" \/ txn'[e] = "completed" => credits'[e] > 0
        /\ sale'[e] = "completed" => credits'[e] > 0
        /\ e \in feeTaken' => sale'[e] = "completed"
        /\ sale'[e] \notin {"none", "due"} => charge'[e] # "none"
      OBVIOUS
    <3>1. CASE e = d
      BY <1>2, <3>1
    <3>2. CASE e # d
      BY <1>2, <1>i, <3>2 DEF Linked
    <3> QED BY <3>1, <3>2
  <2> QED BY <1>2, <2>2, <2>4 DEF DepositsIInv, DepositsInv, CreditedOncePerWay, CreditedIsPaid,
          SuccessIsCredited, SaleIsCredited, Linked
<1>s. \A d \in Deposits : /\ deposit[d] \in DepositStatuses /\ txn[d] \in TxStatuses
                             /\ credits[d] \in Nat
                          /\ deposit = [deposit EXCEPT ![d] = deposit[d]]
                             /\ txn = [txn EXCEPT ![d] = txn[d]]
                          /\ credits = [credits EXCEPT ![d] = credits[d]]
                             /\ charge = [charge EXCEPT ![d] = charge[d]]
                          /\ sale = [sale EXCEPT ![d] = sale[d]]
                          /\ charge[d] \in {"none", "open", "refused", "paid"}
                          /\ sale[d] \in {"none", "due", "pending", "completed", "failed"}
  BY <1>t
<1>u. \A d \in Deposits : charge[d] # "paid" => credits[d] = 0 /\ d \notin feeTaken
                          /\ sale[d] # "completed"
  BY <1>i, <1>s
\* A step that writes only what belongs to an uncollected deposit.
<1>3. ASSUME NEW d \in Deposits, TypeOK', Elsewhere(d), charge[d] # "paid",
             deposit'[d] # "SUCCESS", txn'[d] # "completed", sale'[d] # "completed",
             UNCHANGED <<credits, feeTaken, call>>,
             deposit[d] = "FAILED" => deposit'[d] = "FAILED",
             sale'[d] \notin {"none", "due"} => charge'[d] # "none",
             Linked(d) => sale'[d] \notin {"none", "due"}
      PROVE  DepositsIInv'
  <2>1. credits'[d] = 0 /\ credits[d] = 0 /\ d \notin feeTaken'
    BY <1>u, <1>3
  <2>2. \A x \in Calls : call'[x] # Idle
                         /\ call[x].ref = d => (call[x].deposit = "FAILED" => deposit'[d] = "FAILED")
    BY <1>k, <1>3 DEF CallKnows
  <2>3. \A x \in Calls : call'[x] \in {Idle, call[x]}
    BY <1>3
  <2> QED BY <1>2, <1>3, <2>1, <2>2, <2>3
<1>4. ASSUME NEW d \in Deposits,
             \/ InitiateDeposit(d) \/ InitiateInvoice(d) \/ HandOut(d)
             \/ CreateDeposit(d) \/ AddTransaction(d) \/ CreateCrypto(d)
             \/ Open(d) \/ OpenCrypto(d) \/ OpenFails(d)
      PROVE  DepositsIInv'
  <2>1. charge[d] = "none" /\ deposit[d] \in {"none", "PENDING"} /\ ~Linked(d)
        /\ UNCHANGED <<credits, feeTaken, call, cuts, reported>>
    BY <1>4, <1>i DEF InitiateDeposit, InitiateInvoice, HandOut, CreateDeposit,
         AddTransaction, CreateCrypto,
       Open, OpenCrypto, OpenFails, AskProvider, Unused, sales, rows
  <2>2. PICK dep \in {"none", "PENDING", "FAILED"}, tx \in {"none", "pending", "failed"} :
          deposit' = [deposit EXCEPT ![d] = dep] /\ txn' = [txn EXCEPT ![d] = tx]
    <3>1. CASE InitiateDeposit(d) \/ InitiateInvoice(d) \/ HandOut(d)
      BY <3>1 DEF InitiateDeposit, InitiateInvoice, HandOut, Write
    <3>2. CASE CreateDeposit(d) \/ AddTransaction(d) \/ CreateCrypto(d) \/ OpenFails(d)
      BY <3>2 DEF CreateDeposit, AddTransaction, CreateCrypto, OpenFails, Write
    <3>3. CASE Open(d) \/ OpenCrypto(d)
      BY <3>3, <1>s DEF Open, OpenCrypto, AskProvider, rows
    <3> QED BY <1>4, <3>1, <3>2, <3>3
  <2>3. PICK ch \in {"none", "open"}, s \in {"none", "due"} :
          charge' = [charge EXCEPT ![d] = ch] /\ sale' = [sale EXCEPT ![d] = s]
    <3>1. sale[d] \in {"none", "due"}
      BY <2>1 DEF Linked
    <3>2. CASE InitiateDeposit(d) \/ InitiateInvoice(d)
      BY <1>s, <2>1, <3>2 DEF InitiateDeposit, InitiateInvoice, ForWhom
    <3>3. CASE HandOut(d) \/ Open(d) \/ OpenCrypto(d)
      BY <1>s, <3>1, <3>3 DEF HandOut, Open, OpenCrypto, AskProvider, sales
    <3>4. CASE CreateDeposit(d) \/ AddTransaction(d) \/ CreateCrypto(d) \/ OpenFails(d)
      BY <1>s, <2>1, <3>1, <3>4 DEF CreateDeposit, AddTransaction, CreateCrypto, OpenFails,
           sales
    <3> QED BY <1>4, <3>2, <3>3, <3>4
  <2>4. TypeOK'
    BY <1>t, <2>1, <2>2, <2>3 DEF TypeOK, DepositStatuses, TxStatuses
  <2>5. deposit'[d] = dep /\ txn'[d] = tx /\ charge'[d] = ch /\ sale'[d] = s /\ Elsewhere(d)
    BY <1>t, <2>1, <2>2, <2>3
  <2>6. charge[d] # "paid" /\ deposit[d] # "FAILED"
    BY <2>1
  <2> QED BY <1>3, <2>1, <2>4, <2>5, <2>6
<1>5. ASSUME NEW d \in Deposits, ProviderMoves(d) PROVE DepositsIInv'
  <2>1. PICK next \in {"refused", "paid"} : charge' = [charge EXCEPT ![d] = next]
    BY <1>5 DEF ProviderMoves
  <2>2. charge[d] \in {"open", "refused"}
        /\ UNCHANGED <<deposit, txn, credits, reported, sale, feeTaken, call, cuts>>
    BY <1>5 DEF ProviderMoves, rows, sales
  <2>3. deposit[d] # "SUCCESS" /\ txn[d] # "completed" /\ sale[d] # "completed"
    BY <1>u, <1>i, <1>s, <2>2
  <2>4. TypeOK'
    BY <1>t, <2>1, <2>2 DEF TypeOK
  <2>5. charge'[d] = next /\ Elsewhere(d)
    BY <1>t, <2>1, <2>2
  <2> QED BY <1>3, <2>2, <2>3, <2>4, <2>5 DEF Linked
<1>6. ASSUME NEW d \in Deposits, Report(d) PROVE DepositsIInv'
  <2>1. UNCHANGED <<deposit, txn, credits, charge, sale, feeTaken, call, cuts>>
        /\ reported' \subseteq Deposits
    BY <1>6, <1>t DEF Report, rows, sales
  <2>2. TypeOK'
    BY <1>t, <2>1 DEF TypeOK
  <2> QED BY <2>1, <2>2, <1>i, <1>k DEF DepositsIInv, DepositsInv, CreditedOncePerWay,
      CreditedIsPaid,
          SuccessIsCredited, SaleIsCredited, Linked, CallKnows
<1>7. ASSUME NEW d \in Deposits, Link(d) \/ PollSale(d) PROVE DepositsIInv'
  <2>1. PICK s \in {"pending", "completed"} : sale' = [sale EXCEPT ![d] = s]
    BY <1>7 DEF Link, PollSale
  <2>2. UNCHANGED <<deposit, txn, credits, charge, reported, feeTaken, call, cuts>>
    BY <1>7 DEF Link, PollSale, rows
  <2>3. charge[d] # "none" /\ sale[d] # "completed" /\ (s = "completed" => credits[d] > 0)
    <3>1. CASE Link(d)
      <4>1. sale' = [sale EXCEPT ![d] = "pending"] /\ sale[d] = "due" /\ charge[d] # "none"
        BY <3>1 DEF Link
      <4>2. sale'[d] = "pending" /\ sale'[d] = s
        BY <1>t, <2>1, <4>1
      <4> QED BY <4>1, <4>2
    <3>2. CASE PollSale(d)
      BY <1>i, <3>2 DEF PollSale
    <3> QED BY <1>7, <3>1, <3>2
  <2>4. d \notin feeTaken
    BY <1>i, <2>3
  <2>5. TypeOK'
    BY <1>t, <2>1, <2>2 DEF TypeOK
  <2>6. sale'[d] = s /\ Elsewhere(d)
    BY <1>t, <2>1, <2>2
  <2>7. \A x \in Calls : call'[x] # Idle /\ call[x].ref = d =>
                /\ call[x].deposit = "FAILED" => deposit'[d] = "FAILED"
                /\ call[x].at = "act" /\ credits'[d] > 0
                   /\ deposit'[d] \in {"none", "PENDING"} => call[x].tx # "pending"
    BY <1>k, <2>2 DEF CallKnows
  <2>8. \A x \in Calls : call'[x] \in {Idle, call[x]}
    BY <2>2
  <2>9. credits'[d] = credits[d] /\ credits[d] \in Nat /\ deposit'[d] = deposit[d]
        /\ txn'[d] = txn[d] /\ charge'[d] = charge[d]
        /\ feeTaken' = feeTaken
    BY <1>s, <2>2
  <2> QED BY <1>2, <1>i, <2>1, <2>3, <2>4, <2>5, <2>6, <2>7, <2>8, <2>9
<1>8. ASSUME NEW d \in Deposits, Cleanup(d) PROVE DepositsIInv'
  <2>1. PICK tx \in {txn[d], "none"} : txn' = [txn EXCEPT ![d] = tx]
    BY <1>8, <1>s DEF Cleanup
  <2>2. deposit' = [deposit EXCEPT ![d] = "none"]
        /\ UNCHANGED <<credits, charge, reported, sale, feeTaken, call, cuts>>
    BY <1>8 DEF Cleanup, sales
  <2>3. \A x \in Calls : call'[x] # Idle => call[x].ref # d
    BY <1>8, <2>2 DEF Cleanup
  <2>4. \A x \in Calls : call'[x] \in {Idle, call[x]}
    BY <2>2
  <2>5. TypeOK'
    <3>1. cuts' \in 0 .. MaxCuts
      BY <1>8, <1>t DEF Cleanup
    <3> QED BY <1>t, <2>1, <2>2, <3>1 DEF TypeOK, TxStatuses, DepositStatuses
  <2>6. deposit'[d] = "none" /\ txn'[d] = tx /\ Elsewhere(d)
    BY <1>t, <2>1, <2>2
  <2>7. credits'[d] = credits[d] /\ credits[d] \in Nat /\ sale'[d] = sale[d]
        /\ charge'[d] = charge[d] /\ feeTaken' = feeTaken
    BY <1>s, <2>2
  <2> QED BY <1>2, <1>i, <2>1, <2>3, <2>4, <2>5, <2>6, <2>7 DEF Linked
<1>9. ASSUME NEW c \in Calls, NEW d \in Deposits, NEW job \in {"finalize", "sweep", "fail"},
             Begin(c, job, d)
      PROVE  DepositsIInv'
  <2>1. PICK h : h = [at |-> "read", job |-> job, ref |-> d, deposit |-> deposit[d], tx |-> "none", guest |-> FALSE]
    OBVIOUS
  <2>2. h \in Work
    BY <1>s, <2>1 DEF TxStatuses
  <2>3. call' = [call EXCEPT ![c] = h] /\ UNCHANGED <<rows, charge, reported, sales, cuts>>
    BY <1>9, <2>1 DEF Begin
  <2>4. call'[c] = h
    BY <1>t, <2>3
  <2>5. CallKnows(c)'
    BY <1>i, <2>1, <2>3, <2>4 DEF CallKnows, rows
  <2> HIDE DEF Work
  <2> QED BY <1>1, <1>t, <2>2, <2>3, <2>5
<1>10. ASSUME NEW c \in Calls, NEW d \in Deposits,
              BeginFinalize(c, d) \/ Sweep(c, d) \/ BeginFail(c, d)
       PROVE  DepositsIInv'
  BY <1>9, <1>10 DEF BeginFinalize, Sweep, BeginFail
<1>11. ASSUME NEW c \in Calls, NEW d \in Deposits, AskCrypto(c, d) PROVE DepositsIInv'
  <2>1. CASE Begin(c, "finalize", d)
    BY <1>9, <2>1
  <2>2. CASE /\ charge[d] = "refused" /\ FailPending(d)
             /\ UNCHANGED <<credits, charge, reported, feeTaken, call, cuts>>
    <3>1. PICK dep \in {deposit[d], "FAILED"}, tx \in {txn[d], "failed"}, s \in {sale[d], "failed"} :
            /\ deposit' = [deposit EXCEPT ![d] = dep] /\ txn' = [txn EXCEPT ![d] = tx]
               /\ sale' = [sale EXCEPT ![d] = s]
            /\ s = "failed" => sale[d] \in {"pending", "failed"}
      BY <1>s, <2>2 DEF FailPending
    <3>2. deposit[d] # "SUCCESS" /\ txn[d] # "completed" /\ sale[d] # "completed"
      BY <1>u, <1>i, <1>s, <2>2
    <3>3. TypeOK'
      BY <1>t, <2>2, <3>1 DEF TypeOK, DepositStatuses, TxStatuses
    <3>4. deposit'[d] = dep /\ txn'[d] = tx /\ sale'[d] = s /\ charge'[d] = "refused"
          /\ Elsewhere(d)
      BY <1>t, <2>2, <3>1
    <3>5. (deposit[d] = "FAILED" => dep = "FAILED") /\ (Linked(d) => s \notin {"none", "due"})
          /\ UNCHANGED <<credits, feeTaken, call>> /\ charge[d] # "paid"
      BY <2>2, <3>1 DEF Linked
    <3> QED BY <1>3, <3>1, <3>2, <3>3, <3>4, <3>5
  <2> QED BY <1>11, <2>1, <2>2 DEF AskCrypto, Answer
<1>12. ASSUME NEW c \in Calls, ReadTransaction(c) PROVE DepositsIInv'
  <2>0. PICK d : d = call[c].ref
    OBVIOUS
  <2>1. UNCHANGED <<rows, charge, reported, sales, cuts>>
    BY <1>12 DEF ReadTransaction
  <2>2. call[c] # Idle /\ call[c] \in Work /\ d \in Deposits
    BY <1>12, <1>w, <2>0 DEF ReadTransaction, Idle
  <2>3. CASE call' = [call EXCEPT ![c] = Idle]
    <3>1. call'[c] = Idle
      BY <1>t, <2>3
    <3> QED BY <1>1, <1>t, <2>1, <2>3, <3>1 DEF CallKnows
  <2>4. CASE call' = [call EXCEPT ![c] = [call[c] EXCEPT !.at = "act", !.tx = txn[d], !.guest = Linked(d)]]
    <3>1. PICK g \in BOOLEAN : g = Linked(d)
      BY DEF Linked
    <3>2. PICK h : h = [call[c] EXCEPT !.at = "act", !.tx = txn[d], !.guest = g]
      OBVIOUS
    <3>3. \A r \in Work, b \in BOOLEAN : [r EXCEPT !.guest = b] \in Work
                                         /\ [r EXCEPT !.guest = b].guest = b
      OBVIOUS
    <3>4. h \in Work /\ h.at = "act" /\ h.tx = txn[d] /\ h.guest = g /\ h.ref = d
          /\ h.deposit = call[c].deposit
      BY <1>s, <2>0, <2>2, <3>2
    <3>5. call' = [call EXCEPT ![c] = h]
      BY <2>4, <3>1, <3>2
    <3>6. call'[c] = h
      BY <1>t, <3>5
    <3>7. CallKnows(c)'
      BY <1>i, <1>k, <2>0, <2>1, <2>2, <3>1, <3>4, <3>6 DEF CallKnows, rows, sales, Linked
    <3> HIDE DEF Work
    <3> QED BY <1>1, <1>t, <2>1, <3>4, <3>5, <3>7
  <2>5. call' = [call EXCEPT ![c] = Idle]
        \/ call' = [call EXCEPT ![c] = [call[c] EXCEPT !.at = "act", !.tx = txn[d], !.guest = Linked(d)]]
    BY <1>12, <2>0 DEF ReadTransaction
  <2> QED BY <2>3, <2>4, <2>5
<1>13. ASSUME NEW c \in Calls, Reconstruct(c) PROVE DepositsIInv'
  <2>0. PICK d : d = call[c].ref
    OBVIOUS
  <2>1. /\ call[c] # Idle /\ call[c] \in Work /\ d \in Deposits /\ charge[d] = "paid"
        /\ UNCHANGED <<txn, credits, charge, reported, sales, cuts>>
    BY <1>13, <1>w, <2>0 DEF Reconstruct, Acting, Idle
  <2>2. CASE deposit[d] # "none"
    <3>1. call' = [call EXCEPT ![c] = Idle] /\ UNCHANGED rows
      BY <1>13, <2>0, <2>1, <2>2 DEF Reconstruct, rows
    <3>2. call'[c] = Idle
      BY <1>t, <3>1
    <3>3. CallKnows(c)'
      BY <3>2 DEF CallKnows
    <3> QED BY <1>1, <1>t, <2>1, <3>1, <3>3
  <2>3. CASE deposit[d] = "none"
    <3>1. PICK h : h = [call[c] EXCEPT !.deposit = "PENDING"]
      OBVIOUS
    <3>2. call' = [call EXCEPT ![c] = h] /\ deposit' = [deposit EXCEPT ![d] = "PENDING"]
      BY <1>13, <2>0, <2>3, <3>1 DEF Reconstruct
    <3>3. h \in Work /\ h.deposit = "PENDING" /\ h.at = call[c].at /\ h.ref = d
          /\ h.tx = call[c].tx /\ h.guest = call[c].guest
      BY <2>0, <2>1, <3>1 DEF DepositStatuses
    <3>4. /\ deposit'[d] = "PENDING" /\ deposit' \in [Deposits -> DepositStatuses]
          /\ \A e \in Deposits \ {d} : deposit'[e] = deposit[e]
      <4>1. "PENDING" \in DepositStatuses
        BY DEF DepositStatuses
      <4> QED BY <1>t, <2>1, <3>2, <4>1
    <3>5. /\ call'[c] = h /\ call' \in [Calls -> {Idle} \cup Work]
          /\ \A x \in Calls \ {c} : call'[x] = call[x]
      BY <1>t, <3>2, <3>3
    <3>6. \A x \in Calls : CallKnows(x)'
      <4> SUFFICES ASSUME NEW x \in Calls PROVE CallKnows(x)'
        OBVIOUS
      <4>1. CASE x = c
        BY <1>k, <2>0, <2>1, <2>3, <3>3, <3>4, <3>5, <4>1 DEF CallKnows, sales, Linked
      <4>2. CASE x # c
        BY <1>k, <1>w, <2>1, <2>3, <3>4, <3>5, <4>2 DEF CallKnows, sales, Linked
      <4> QED BY <4>1, <4>2
    <3>7. TypeOK'
      BY <1>t, <2>1, <3>4, <3>5 DEF TypeOK, sales
    <3> QED BY <1>i, <2>1, <3>4, <3>6, <3>7 DEF DepositsIInv, DepositsInv,
        CreditedOncePerWay, CreditedIsPaid,
          SuccessIsCredited, SaleIsCredited, Linked, sales
  <2> QED BY <2>2, <2>3
<1>14. ASSUME NEW c \in Calls, Finalize(c) PROVE DepositsIInv'
  <2>0. PICK d : d = call[c].ref
    OBVIOUS
  <2>1. /\ call[c] # Idle /\ call[c] \in Work /\ d \in Deposits /\ call[c].at = "act"
        /\ UNCHANGED <<charge, reported, cuts>> /\ call' = [call EXCEPT ![c] = Idle]
        /\ ~(call[c].deposit = "none" /\ charge[d] = "paid")
        /\ CallKnows(c)
    BY <1>14, <1>w, <1>k, <2>0 DEF Finalize, Acting, Idle, End
  <2>2. /\ call'[c] = Idle /\ call' \in [Calls -> {Idle} \cup Work]
        /\ \A x \in Calls : call'[x] \in {Idle, call[x]}
    BY <1>t, <2>1
  <2>3. CASE UNCHANGED <<rows, sales>>
    BY <1>1, <1>t, <2>1, <2>2, <2>3 DEF CallKnows
  \* A credit leaves the deposit settled, or failed as it was read.
  <2>4. ASSUME NEW dep \in {deposit[d], "SUCCESS"}, NEW n \in {credits[d], credits[d] + 1},
               NEW s \in {sale[d], "completed"},
               deposit' = [deposit EXCEPT ![d] = dep], txn' = [txn EXCEPT ![d] = "completed"],
               credits' = [credits EXCEPT ![d] = n], sale' = [sale EXCEPT ![d] = s],
               feeTaken' \in {feeTaken, feeTaken \cup {d}}, charge[d] = "paid",
               dep = "SUCCESS" => deposit[d] # "FAILED",
               n > 0, n <= 2, n = 2 => s # "none"
               /\ d \in feeTaken', d \in feeTaken' => s = "completed",
               dep \in {"none", "PENDING"} => credits[d] > 0
        PROVE  DepositsIInv'
    <3>1. TypeOK'
      <4>1. dep \in DepositStatuses /\ "completed" \in TxStatuses
        BY <1>s, <2>1 DEF DepositStatuses, TxStatuses
      <4>2. n \in Nat /\ s \in {"none", "due", "pending", "completed", "failed"}
            /\ feeTaken' \subseteq Deposits
        BY <1>s, <1>t, <2>1, <2>4
      <4> QED BY <1>t, <2>1, <2>2, <2>4, <4>1, <4>2 DEF TypeOK
    <3>2. /\ deposit'[d] = dep /\ txn'[d] = "completed" /\ credits'[d] = n /\ sale'[d] = s
             /\ charge'[d] = "paid"
          /\ Elsewhere(d)
      BY <1>t, <2>1, <2>4
    <3>3. \A x \in Calls : call'[x] # Idle /\ call[x].ref = d =>
                /\ call[x].deposit = "FAILED" => dep = "FAILED"
                /\ call[x].at = "act" /\ n > 0
                   /\ dep \in {"none", "PENDING"} => call[x].tx # "pending"
      BY <1>k, <2>2, <2>4 DEF CallKnows
    <3>4. credits[d] \in Nat /\ n >= credits[d] /\ (Linked(d) => s \notin {"none", "due"})
      BY <1>s, <2>1, <2>4 DEF Linked
    <3> QED BY <1>2, <2>1, <2>2, <2>4, <3>1, <3>2, <3>3, <3>4
  <2>5. CASE /\ charge[d] = "paid" /\ call[c].tx \in {"pending", "completed"}
             /\ call[c].tx = "completed" => d \notin feeTaken
             /\ call[c].deposit = "PENDING" /\ deposit[d] = "PENDING"
             /\ call[c].guest /\ SettleSale(c)
    <3>1. /\ deposit' = [deposit EXCEPT ![d] = "SUCCESS"]
             /\ txn' = [txn EXCEPT ![d] = "completed"]
          /\ credits' = [credits EXCEPT ![d] = credits[d] + 1]
          /\ sale' = [sale EXCEPT ![d] = "completed"] /\ feeTaken' = feeTaken \cup {d}
      BY <2>0, <2>5 DEF SettleSale, Write
    <3>2. credits[d] + 1 <= 2 /\ credits[d] + 1 > 0
      BY <1>i, <1>s, <2>0, <2>1, <2>5 DEF CallKnows
    <3> HIDE DEF Work
    <3> QED BY <2>4, <2>5, <3>1, <3>2
  <2>6. CASE /\ call[c].tx = "pending" /\ charge[d] = "paid" /\ Claimed(c) /\ UNCHANGED sales
             /\ CreditIf(charge[call[c].ref] = "paid" /\ Claimed(c), c)
    <3>1. PICK dep \in {deposit[d], "SUCCESS"}, n \in {credits[d], credits[d] + 1} :
          /\ deposit' = [deposit EXCEPT ![d] = dep] /\ txn' = [txn EXCEPT ![d] = "completed"]
          /\ credits' = [credits EXCEPT ![d] = n]
          /\ dep = IF call[c].deposit = "PENDING" THEN "SUCCESS" ELSE deposit[d]
          /\ n = IF call[c].deposit = "SUCCESS" THEN credits[d] ELSE credits[d] + 1
      BY <2>0, <2>6 DEF CreditIf
    <3>2. call[c].deposit # "none" /\ call[c].deposit \in DepositStatuses
      BY <1>w, <2>1, <2>6
    <3>3. call[c].deposit # "SUCCESS" => credits[d] = 0
      BY <1>i, <1>s, <2>0, <2>1, <2>6 DEF CallKnows, Claimed
    <3>4. call[c].deposit = "SUCCESS" => credits[d] > 0
      BY <2>0, <2>1 DEF CallKnows
    <3>5. call[c].deposit = "FAILED" => deposit[d] = "FAILED"
      BY <2>0, <2>1 DEF CallKnows
    <3>6. call[c].deposit = "PENDING" => deposit[d] = "PENDING"
      BY <2>0, <2>6 DEF Claimed
    <3>7. n > 0 /\ n <= 2 /\ (n = 2 => sale[d] # "none" /\ d \in feeTaken)
      <4>1. credits[d] \in Nat /\ credits[d] <= 2
            /\ (credits[d] = 2 => sale[d] # "none" /\ d \in feeTaken)
        BY <1>i, <1>s, <2>1
      <4> QED BY <3>1, <3>3, <3>4, <4>1
    <3>8. (dep = "SUCCESS" => deposit[d] # "FAILED")
          /\ (dep \in {"none", "PENDING"} => credits[d] > 0)
      BY <3>1, <3>2, <3>4, <3>5, <3>6 DEF DepositStatuses
    <3>9. sale' = [sale EXCEPT ![d] = sale[d]] /\ feeTaken' = feeTaken
          /\ (d \in feeTaken => sale[d] = "completed")
      BY <1>i, <1>s, <2>1, <2>6 DEF sales
    <3> HIDE DEF Work
    <3> QED BY <2>4, <2>6, <3>1, <3>7, <3>8, <3>9
  <2>7. CASE call[c].guest /\ call[c].job = "finalize"
    <3>1. SettleSale(c)
      BY <1>14, <2>7 DEF Finalize
    <3> QED BY <2>0, <2>3, <2>5, <2>7, <3>1 DEF SettleSale
  <2>8. CASE ~(call[c].guest /\ call[c].job = "finalize")
    <3>1. CreditIf(charge[call[c].ref] = "paid" /\ Claimed(c), c) /\ UNCHANGED sales
      BY <1>14, <2>8 DEF Finalize
    <3> QED BY <2>0, <2>3, <2>6, <3>1 DEF CreditIf
  <2> QED BY <2>7, <2>8
<1>15. ASSUME NEW c \in Calls, Fail(c) PROVE DepositsIInv'
  <2>0. PICK d : d = call[c].ref
    OBVIOUS
  <2>1. /\ call[c] # Idle /\ call[c] \in Work /\ d \in Deposits
        /\ UNCHANGED <<credits, charge, reported, sales, cuts>>
           /\ call' = [call EXCEPT ![c] = Idle]
    BY <1>15, <1>w, <2>0 DEF Fail, Acting, Idle, End
  <2>2. /\ call'[c] = Idle /\ call' \in [Calls -> {Idle} \cup Work]
        /\ \A x \in Calls : call'[x] \in {Idle, call[x]}
    BY <1>t, <2>1
  <2>3. PICK dep \in {deposit[d], "FAILED"}, tx \in {txn[d], "failed"} :
          deposit' = [deposit EXCEPT ![d] = dep] /\ txn' = [txn EXCEPT ![d] = tx]
    BY <1>15, <2>0 DEF Fail
  <2>4. \A x \in Calls : call'[x] # Idle /\ call[x].ref = d =>
                /\ call[x].deposit = "FAILED" => dep = "FAILED"
                /\ call[x].at = "act" /\ credits[d] > 0
                   /\ dep \in {"none", "PENDING"} => call[x].tx # "pending"
    BY <1>k, <2>2, <2>3 DEF CallKnows
  <2>5. TypeOK'
    BY <1>t, <2>1, <2>2, <2>3 DEF TypeOK, TxStatuses, DepositStatuses, sales
  <2>6. deposit'[d] = dep /\ txn'[d] = tx /\ Elsewhere(d)
    BY <1>t, <2>1, <2>3 DEF sales
  <2>7. credits'[d] = credits[d] /\ credits[d] \in Nat /\ sale'[d] = sale[d]
        /\ charge'[d] = charge[d] /\ feeTaken' = feeTaken
    BY <1>s, <2>1 DEF sales
  <2> QED BY <1>2, <1>i, <2>1, <2>2, <2>3, <2>4, <2>5, <2>6, <2>7 DEF Linked
<1>16. ASSUME NEW c \in Calls, Cut(c) PROVE DepositsIInv'
  <2>1. call' = [call EXCEPT ![c] = Idle] /\ UNCHANGED <<rows, charge, reported, sales>>
        /\ cuts' \in 0 .. MaxCuts
    BY <1>16, <1>t, DepositAssumption DEF Cut, End
  <2>2. call'[c] = Idle
    BY <1>t, <2>1
  <2>3. CallKnows(c)'
    BY <2>2 DEF CallKnows
  <2> QED BY <1>1, <2>1, <2>3
<1>17. CASE UNCHANGED vars
  BY <1>17 DEF vars, DepositsIInv, DepositsInv, TypeOK, CreditedOncePerWay, CreditedIsPaid,
     SuccessIsCredited, SaleIsCredited, Linked, CallKnows
<1> HIDE DEF Work
<1> QED BY <1>4, <1>5, <1>6, <1>7, <1>8, <1>10, <1>11, <1>12, <1>13, <1>14, <1>15, <1>16,
    <1>17 DEF Next, Step

\* finalizeSuccessfulDeposit, failDeposit and the sweep credit a deposit once for
\* each way it is paid, and only when it is.
THEOREM DepositsCredited == Spec => []DepositsInv
<1>1. Init => DepositsIInv
  <2> SUFFICES ASSUME Init PROVE DepositsIInv
    OBVIOUS
  <2>1. TypeOK
    BY DepositAssumption DEF Init, TypeOK, DepositStatuses, TxStatuses
  <2> QED BY <2>1 DEF Init, DepositsIInv, DepositsInv, CreditedOncePerWay, CreditedIsPaid,
     SuccessIsCredited, SaleIsCredited, Linked, CallKnows
<1>2. DepositsIInv => DepositsInv
  BY DEF DepositsIInv
<1> QED BY <1>1, <1>2, DepositsInductive, PTL DEF Spec

----------------------------------------------------------------------------
(* Deposits through IvoryPay, whose events and rows are written apart.     *)

IvoryDepositsSpec == InitIvory /\ [][NextIvory]_ivoryVars

\* Until IvoryPay reports a failure, the two rows of a deposit and its ledger
\* entries agree.
NotFailed(d) ==
  "failed" \notin told[d] /\ payment[d] # "none" =>
    \/ recorded[d] = [deposit |-> "PENDING", txn |-> "pending"] /\ entries[d] = 0
    \/ recorded[d] = [deposit |-> "SUCCESS", txn |-> "completed"] /\ entries[d] = 1

\* What a handler of an event knows: IvoryPay said so, and the deposit it read
\* was open or paid.
SettlerKnows(s) ==
  LET d == settler[s].ref
  IN  settler[s] # Resting =>
        /\ settler[s].outcome \in told[d]
        /\ "failed" \notin told[d] =>
             /\ settler[s].at \in {"deposit", "txn", "act"}
             /\ settler[s].at # "deposit" => settler[s].seen.deposit \in {"PENDING", "SUCCESS"}
        /\ settler[s].at = "claim" => settler[s].outcome = "paid"

IvoryIInv ==
  /\ IvoryDepositsInv
  /\ \A d \in Ivories : payment[d] = "paid" <=> "paid" \in told[d]
  /\ \A d \in Ivories : payment[d] = "none" => told[d] = {}
  /\ \A d \in Ivories : payment[d] = "failed" => "failed" \in told[d]
  /\ \A d \in Ivories : NotFailed(d)
  /\ \A s \in Settlers : SettlerKnows(s)

\* Each write of one of a deposit's rows keeps the rows and the ledger in
\* agreement, as far as IvoryPay's events agree.
LEMMA IvoryInductive == IvoryIInv /\ [NextIvory]_ivoryVars => IvoryIInv'
<1> SUFFICES ASSUME IvoryIInv, [NextIvory]_ivoryVars PROVE IvoryIInv'
  OBVIOUS
<1> DEFINE At == {"deposit", "txn", "act", "claim", "finish"}
           Work == [at : At, by : {"service", "webhook", "job"},
                    outcome : Outcomes, ref : Ivories, seen : IvoryRows]
<1>t. /\ recorded \in [Ivories -> IvoryRows]
      /\ payment \in [Ivories -> {"none", "open", "failed", "paid"}]
      /\ told \in [Ivories -> SUBSET Outcomes]
      /\ entries \in [Ivories -> 0 .. MaxEntries]
      /\ settler \in [Settlers -> {Resting} \cup Work]
      /\ MaxEntries \in Nat
  BY IvoryAssumption DEF IvoryIInv, IvoryDepositsInv, IvoryTypeOK
<1>r. Resting \notin Work
  BY DEF Resting
<1>w. \A s \in Settlers : settler[s] # Resting =>
        /\ settler[s] \in Work /\ settler[s].ref \in Ivories /\ settler[s].outcome \in Outcomes
        /\ settler[s].seen \in IvoryRows
  BY <1>t
\* Rows and the ledger change, the payment and every handler but one do not.
<1>1. ASSUME NEW d \in Ivories, UNCHANGED <<payment, told>>,
             NEW row \in IvoryRows, recorded' = [recorded EXCEPT ![d] = row],
             NEW n \in 0 .. MaxEntries, entries' = [entries EXCEPT ![d] = n],
             settler' \in [Settlers -> {Resting} \cup Work],
             \A s \in Settlers : settler'[s] = settler[s] \/ SettlerKnows(s)',
             "failed" \notin told[d] /\ payment[d] # "none" =>
               \/ row = [deposit |-> "PENDING", txn |-> "pending"] /\ n = 0
               \/ row = [deposit |-> "SUCCESS", txn |-> "completed"] /\ n = 1,
             n > 0 => payment[d] = "paid",
             row.deposit = "SUCCESS" \/ row.txn = "completed" => n > 0
      PROVE  IvoryIInv'
  <2>1. /\ recorded'[d] = row /\ entries'[d] = n
        /\ \A e \in Ivories : e # d => recorded'[e] = recorded[e] /\ entries'[e] = entries[e]
    BY <1>t, <1>1
  <2>2. IvoryTypeOK'
    BY <1>t, <1>1 DEF IvoryTypeOK
  <2>3. EnteredIsPaid' /\ SettledIsEntered'
    BY <1>1, <2>1 DEF IvoryIInv, IvoryDepositsInv, EnteredIsPaid, SettledIsEntered
  <2>4. \A e \in Ivories : NotFailed(e)'
    <3> SUFFICES ASSUME NEW e \in Ivories PROVE NotFailed(e)'
      OBVIOUS
    <3>1. CASE e = d
      BY <1>1, <2>1, <3>1 DEF NotFailed
    <3>2. CASE e # d
      BY <1>1, <2>1, <3>2 DEF NotFailed, IvoryIInv
    <3> QED BY <3>1, <3>2
  <2>5. \A s \in Settlers : SettlerKnows(s)'
    BY <1>1 DEF SettlerKnows, IvoryIInv
  <2>6. EnteredOnce'
    <3> SUFFICES ASSUME NEW e \in Ivories, told'[e] # Outcomes PROVE entries'[e] <= 1
      BY DEF EnteredOnce
    <3>1. told[e] \in SUBSET Outcomes /\ told'[e] = told[e] /\ entries'[e] \in Int
          /\ entries'[e] >= 0
      BY <1>t, <1>1, <2>1
    <3>2. CASE "failed" \in told[e]
      <4>1. "paid" \notin told[e]
        BY <3>1, <3>2 DEF Outcomes
      <4> QED BY <1>1, <2>3, <3>1, <4>1 DEF IvoryIInv, EnteredIsPaid
    <3>3. CASE "failed" \notin told[e]
      BY <1>1, <2>3, <2>4, <3>1, <3>3 DEF NotFailed, EnteredIsPaid
    <3> QED BY <3>2, <3>3
  <2> QED BY <1>1, <2>2, <2>3, <2>4, <2>5, <2>6 DEF IvoryIInv, IvoryDepositsInv
\* Only a handler changes.
<1>2. ASSUME NEW s \in Settlers, NEW h \in {Resting} \cup Work,
             settler' = [settler EXCEPT ![s] = h],
             UNCHANGED <<recorded, payment, told, entries>>, SettlerKnows(s)'
      PROVE  IvoryIInv'
  <2>1. /\ settler'[s] = h /\ settler' \in [Settlers -> {Resting} \cup Work]
        /\ \A x \in Settlers \ {s} : settler'[x] = settler[x]
    BY <1>t, <1>2
  <2>2. \A x \in Settlers : SettlerKnows(x)'
    BY <1>2, <2>1 DEF SettlerKnows, IvoryIInv
  <2>3. IvoryTypeOK'
    BY <1>t, <1>2, <2>1 DEF IvoryTypeOK
  <2>4. EnteredOnce' /\ EnteredIsPaid' /\ SettledIsEntered'
    BY <1>2 DEF IvoryIInv, IvoryDepositsInv, EnteredOnce, EnteredIsPaid, SettledIsEntered
  <2>5. \A e \in Ivories : NotFailed(e)'
    BY <1>2 DEF NotFailed, IvoryIInv
  <2> QED BY <1>2, <2>2, <2>3, <2>4, <2>5 DEF IvoryIInv, IvoryDepositsInv
<1>f. \A r \in IvoryRows :
        /\ \A x \in {"none", "PENDING", "SUCCESS", "FAILED"} : [r EXCEPT !.deposit = x] \in IvoryRows
        /\ \A x \in {"none", "pending", "completed", "failed"} : [r EXCEPT !.txn = x] \in IvoryRows
  BY DEF IvoryRows
<1>3. ASSUME NEW d \in Ivories, AskIvory(d) \/ IvoryRefuses(d) PROVE IvoryIInv'
  <2>1. PICK row \in IvoryRows : recorded' = [recorded EXCEPT ![d] = row]
             /\ row.deposit \in {"PENDING", "FAILED"}
                                 /\ row.txn = recorded[d].txn
    <3>1. [recorded[d] EXCEPT !.deposit = "PENDING"] \in IvoryRows
          /\ [recorded[d] EXCEPT !.deposit = "FAILED"] \in IvoryRows
      BY <1>t, <1>f
    <3>2. recorded' = [recorded EXCEPT ![d] = [recorded[d] EXCEPT !.deposit = "PENDING"]]
          \/ recorded' = [recorded EXCEPT ![d] = [recorded[d] EXCEPT !.deposit = "FAILED"]]
      BY <1>3 DEF AskIvory, IvoryRefuses
    <3> QED BY <1>t, <3>1, <3>2 DEF IvoryRows
  <2>2. /\ entries' = [entries EXCEPT ![d] = entries[d]] /\ entries[d] \in 0 .. MaxEntries
        /\ UNCHANGED <<payment, told, settler>> /\ payment[d] = "none"
    BY <1>t, <1>3 DEF AskIvory, IvoryRefuses
  <2> QED BY <1>1, <1>t, <2>1, <2>2 DEF IvoryIInv, IvoryDepositsInv, EnteredIsPaid,
      SettledIsEntered
<1>4. ASSUME NEW d \in Ivories, IvoryOpens(d) PROVE IvoryIInv'
  <2>1. /\ recorded[d].deposit = "PENDING" /\ payment[d] = "none" /\ told[d] = {}
        /\ payment' = [payment EXCEPT ![d] = "open"]
        /\ recorded' = [recorded EXCEPT ![d] = [recorded[d] EXCEPT !.txn = "pending"]]
        /\ UNCHANGED <<told, entries, settler>>
    BY <1>4 DEF IvoryOpens, IvoryIInv
  <2>2. entries[d] = 0
    BY <1>t, <2>1 DEF IvoryIInv, IvoryDepositsInv, EnteredIsPaid
  <2>3. recorded'[d] = [deposit |-> "PENDING", txn |-> "pending"]
        /\ \A e \in Ivories : e # d => recorded'[e] = recorded[e] /\ payment'[e] = payment[e]
        /\ payment'[d] = "open"
    BY <1>t, <2>1 DEF IvoryRows
  <2>4. IvoryTypeOK'
    BY <1>t, <1>f, <2>1 DEF IvoryTypeOK
  <2>5. \A e \in Ivories : NotFailed(e)'
    BY <2>1, <2>2, <2>3 DEF NotFailed, IvoryIInv
  <2>6. \A s \in Settlers : SettlerKnows(s)'
    BY <2>1 DEF SettlerKnows, IvoryIInv
  <2>7. EnteredOnce' /\ EnteredIsPaid' /\ SettledIsEntered'
    BY <2>1, <2>2, <2>3 DEF IvoryIInv, IvoryDepositsInv, EnteredOnce, EnteredIsPaid,
         SettledIsEntered
  <2>8. \A e \in Ivories : (payment'[e] = "paid" <=> "paid" \in told'[e])
                           /\ (payment'[e] = "none" => told'[e] = {})
                               /\ (payment'[e] = "failed" => "failed" \in told'[e])
    BY <2>1, <2>3 DEF IvoryIInv
  <2> QED BY <2>4, <2>5, <2>6, <2>7, <2>8 DEF IvoryIInv, IvoryDepositsInv
<1>5. ASSUME NEW d \in Ivories, PaymentMoves(d) PROVE IvoryIInv'
  <2>1. PICK outcome \in Outcomes \ {payment[d]} :
          /\ payment' = [payment EXCEPT ![d] = outcome]
          /\ told' = [told EXCEPT ![d] = @ \cup {outcome}]
    BY <1>5 DEF PaymentMoves
  <2>2. UNCHANGED <<recorded, entries, settler>> /\ payment[d] \in {"open", "failed"}
    BY <1>5 DEF PaymentMoves
  <2>3. entries[d] = 0 /\ "paid" \notin told[d]
    BY <1>t, <2>2 DEF IvoryIInv, IvoryDepositsInv, EnteredIsPaid
  <2>4. /\ payment'[d] = outcome /\ told'[d] = told[d] \cup {outcome}
        /\ \A e \in Ivories : e # d => payment'[e] = payment[e] /\ told'[e] = told[e]
        /\ outcome \in {"failed", "paid"} /\ (payment[d] = "failed" => outcome = "paid")
    BY <1>t, <2>1, <2>2 DEF Outcomes
  <2>5. IvoryTypeOK'
    BY <1>t, <2>1, <2>2 DEF IvoryTypeOK, Outcomes
  <2>6. \A e \in Ivories : NotFailed(e)'
    BY <2>2, <2>4 DEF NotFailed, IvoryIInv
  <2>7. \A s \in Settlers : SettlerKnows(s)'
    <3> SUFFICES ASSUME NEW s \in Settlers, settler'[s] # Resting PROVE SettlerKnows(s)'
      BY DEF SettlerKnows
    <3>1. settler'[s] = settler[s] /\ settler[s].ref \in Ivories /\ SettlerKnows(s)
      BY <1>w, <2>2 DEF IvoryIInv
    <3>2. settler[s].ref # d => told'[settler[s].ref] = told[settler[s].ref]
      BY <2>4, <3>1
    <3>3. settler[s].ref = d => told[d] \subseteq told'[settler[s].ref]
      BY <2>4
    <3> QED BY <3>1, <3>2, <3>3 DEF SettlerKnows
  <2>8. EnteredOnce' /\ EnteredIsPaid' /\ SettledIsEntered'
    BY <2>2, <2>3, <2>4 DEF IvoryIInv, IvoryDepositsInv, EnteredOnce, EnteredIsPaid,
         SettledIsEntered
  <2>9. \A e \in Ivories : (payment'[e] = "paid" <=> "paid" \in told'[e])
                           /\ (payment'[e] = "none" => told'[e] = {})
                               /\ (payment'[e] = "failed" => "failed" \in told'[e])
    BY <2>2, <2>3, <2>4 DEF IvoryIInv
  <2> QED BY <2>5, <2>6, <2>7, <2>8, <2>9 DEF IvoryIInv, IvoryDepositsInv
<1>6. ASSUME NEW s \in Settlers, NEW by \in {"service", "webhook", "job"}, NEW d \in Ivories,
             NEW outcome \in told[d], Start(s, by, outcome, d)
      PROVE  IvoryIInv'
  <2>1. PICK h : h = [at |-> "deposit", by |-> by, outcome |-> outcome, ref |-> d,
                    seen |-> [deposit |-> "none", txn |-> "none"]]
    OBVIOUS
  <2>2. h \in Work
    BY <1>t, <2>1 DEF IvoryRows
  <2>3. settler' = [settler EXCEPT ![s] = h] /\ UNCHANGED <<recorded, payment, told, entries>>
    BY <1>6, <2>1 DEF Start
  <2>4. settler'[s] = h
    BY <1>t, <2>3
  <2>5. SettlerKnows(s)'
    BY <2>1, <2>3, <2>4 DEF SettlerKnows
  <2> QED BY <1>2, <2>2, <2>3, <2>5
<1>7. ASSUME NEW s \in Settlers, NEW d \in Ivories,
             Ask(s, d) \/ Notice(s, d) \/ Hook(s, d) \/ Fix(s, d)
      PROVE  IvoryIInv'
  <2>1. payment[d] \in Outcomes => payment[d] \in told[d]
    BY DEF Outcomes, IvoryIInv
  <2> QED BY <1>6, <1>7, <2>1 DEF Ask, Notice, Hook, Fix
<1>8. ASSUME NEW s \in Settlers, ReadDeposit(s) PROVE IvoryIInv'
  <2>0. PICK d \in Ivories : d = settler[s].ref
    BY <1>w, <1>8 DEF ReadDeposit, SettlerAt
  <2>1. PICK h : h = [settler[s] EXCEPT !.at = "txn", !.seen = [settler[s].seen EXCEPT !.deposit = recorded[d].deposit]]
    OBVIOUS
  <2>2. settler[s] \in Work /\ SettlerKnows(s) /\ settler[s] # Resting
    BY <1>w, <1>8 DEF ReadDeposit, SettlerAt, IvoryIInv
  <2>3. recorded[d].deposit \in {"none", "PENDING", "SUCCESS", "FAILED"}
        /\ recorded[d] \in IvoryRows
    BY <1>t DEF IvoryRows
  <2>4. h \in Work /\ h.at = "txn" /\ h.ref = d /\ h.outcome = settler[s].outcome
        /\ h.seen.deposit = recorded[d].deposit
    <3> DEFINE v == [settler[s].seen EXCEPT !.deposit = recorded[d].deposit]
    <3>1. v \in IvoryRows /\ v.deposit = recorded[d].deposit
      BY <1>w, <2>2, <2>3 DEF IvoryRows
    <3> HIDE DEF v
    <3>2. h = [settler[s] EXCEPT !.at = "txn", !.seen = v]
      BY <2>1 DEF v
    <3> QED BY <2>0, <2>2, <3>1, <3>2
  <2>5. settler' = [settler EXCEPT ![s] = h] /\ UNCHANGED <<recorded, payment, told, entries>>
    <3>1. settler' = [settler EXCEPT ![s] = [settler[s] EXCEPT !.at = "txn", !.seen.deposit = recorded[d].deposit]]
      BY <1>8, <2>0 DEF ReadDeposit
    <3>2. UNCHANGED <<recorded, payment, told, entries>>
      BY <1>8 DEF ReadDeposit
    <3> QED BY <2>1, <3>1, <3>2
  <2>6. settler'[s] = h
    BY <1>t, <2>5
  <2>7. "failed" \notin told[d] => recorded[d].deposit \in {"PENDING", "SUCCESS"}
    BY <2>0, <2>2, <2>3 DEF SettlerKnows, NotFailed, IvoryIInv
  <2>8. SettlerKnows(s)'
    BY <2>0, <2>2, <2>4, <2>5, <2>6, <2>7 DEF SettlerKnows
  <2> QED BY <1>2, <2>4, <2>5, <2>8
<1>9. ASSUME NEW s \in Settlers, ReadTxn(s) PROVE IvoryIInv'
  <2>0. PICK d \in Ivories : d = settler[s].ref
    BY <1>w, <1>9 DEF ReadTxn, SettlerAt
  <2>1. PICK h : h = [settler[s] EXCEPT !.at = "act", !.seen = [settler[s].seen EXCEPT !.txn = recorded[d].txn]]
    OBVIOUS
  <2>2. settler[s] \in Work /\ SettlerKnows(s) /\ settler[s] # Resting /\ settler[s].at = "txn"
    BY <1>w, <1>9 DEF ReadTxn, SettlerAt, IvoryIInv
  <2>3. recorded[d].txn \in {"none", "pending", "completed", "failed"}
    BY <1>t DEF IvoryRows
  <2>4. h \in Work /\ h.at = "act" /\ h.ref = d /\ h.outcome = settler[s].outcome
        /\ h.seen.deposit = settler[s].seen.deposit
    <3> DEFINE v == [settler[s].seen EXCEPT !.txn = recorded[d].txn]
    <3>1. v \in IvoryRows /\ v.deposit = settler[s].seen.deposit
      BY <1>w, <2>2, <2>3 DEF IvoryRows
    <3> HIDE DEF v
    <3>2. h = [settler[s] EXCEPT !.at = "act", !.seen = v]
      BY <2>1 DEF v
    <3> QED BY <2>0, <2>2, <3>1, <3>2
  <2>5. settler' = [settler EXCEPT ![s] = h] /\ UNCHANGED <<recorded, payment, told, entries>>
    BY <1>9, <2>0, <2>1 DEF ReadTxn
  <2>6. settler'[s] = h
    BY <1>t, <2>5
  <2>8. SettlerKnows(s)'
    BY <2>0, <2>2, <2>4, <2>5, <2>6 DEF SettlerKnows
  <2> QED BY <1>2, <2>4, <2>5, <2>8
<1>10. ASSUME NEW s \in Settlers, Leave(s) PROVE IvoryIInv'
  <2>1. settler' = [settler EXCEPT ![s] = Resting]
        /\ UNCHANGED <<recorded, payment, told, entries>>
    BY <1>10 DEF Leave, Rests
  <2>2. SettlerKnows(s)'
    BY <1>t, <2>1 DEF SettlerKnows
  <2> QED BY <1>2, <2>1, <2>2
<1>11. ASSUME NEW s \in Settlers, ReadAgain(s) PROVE IvoryIInv'
  <2>1. PICK h : h = [settler[s] EXCEPT !.at = "claim"]
    OBVIOUS
  <2>2. /\ settler[s] \in Work /\ SettlerKnows(s) /\ settler[s] # Resting /\ settler[s].at = "act"
        /\ settler[s].outcome = "paid" /\ settler[s].seen.deposit = "FAILED"
    BY <1>w, <1>11 DEF ReadAgain, Finalizing, Acts, SettlerAt, Saw, IvoryIInv
  <2>3. h \in Work /\ h.at = "claim" /\ h.ref = settler[s].ref /\ h.outcome = "paid"
    BY <2>1, <2>2
  <2>4. settler' = [settler EXCEPT ![s] = h] /\ UNCHANGED <<recorded, payment, told, entries>>
    BY <1>11, <2>1 DEF ReadAgain
  <2>5. settler'[s] = h
    BY <1>t, <2>4
  <2>6. SettlerKnows(s)'
    BY <2>2, <2>3, <2>4, <2>5 DEF SettlerKnows
  <2> QED BY <1>2, <2>3, <2>4, <2>6
\* A credit that claims the pending deposit, which writes both rows.
<1>12. ASSUME NEW s \in Settlers, CreditClaimed(s) \/ CreditBoth(s) PROVE IvoryIInv'
  <2>0. PICK d \in Ivories : d = settler[s].ref
    BY <1>w, <1>12 DEF CreditClaimed, CreditBoth, Finalizing, Acts, SettlerAt
  <2>1. /\ settler[s] # Resting /\ settler[s].outcome = "paid"
           /\ recorded[d].deposit = "PENDING" /\ Settle(s, d)
    BY <1>12, <2>0 DEF CreditClaimed, CreditBoth, Finalizing, Acts, SettlerAt
  <2>2. "paid" \in told[d] /\ payment[d] = "paid"
    BY <2>0, <2>1 DEF IvoryIInv, SettlerKnows
  <2>3. "failed" \notin told[d] => entries[d] = 0
    BY <2>1, <2>2 DEF IvoryIInv, NotFailed
  <2>4. PICK n : n = entries[d] + 1
    OBVIOUS
  <2>5. n \in 0 .. MaxEntries /\ n > 0 /\ ("failed" \notin told[d] => n = 1)
    BY <1>t, <2>1, <2>3, <2>4 DEF Settle
  <2>6. PICK row : row = [deposit |-> "SUCCESS", txn |-> "completed"]
    OBVIOUS
  <2>7. row \in IvoryRows /\ recorded' = [recorded EXCEPT ![d] = row]
        /\ entries' = [entries EXCEPT ![d] = n]
        /\ UNCHANGED <<payment, told>> /\ settler' = [settler EXCEPT ![s] = Resting]
    BY <2>1, <2>4, <2>6 DEF Settle, Rests, IvoryRows
  <2>8. settler' \in [Settlers -> {Resting} \cup Work]
        /\ \A x \in Settlers : settler'[x] = settler[x] \/ SettlerKnows(x)'
    BY <1>t, <2>7 DEF SettlerKnows
  <2> HIDE DEF Work
  <2> QED BY <1>1, <2>2, <2>5, <2>6, <2>7, <2>8
<1>13. ASSUME NEW s \in Settlers, CreditTransaction(s) PROVE IvoryIInv'
  <2>0. PICK d \in Ivories : d = settler[s].ref
    BY <1>w, <1>13 DEF CreditTransaction, SettlerAt
  <2>1. /\ settler[s] # Resting /\ settler[s].at = "claim" /\ SettlerKnows(s)
        /\ entries[d] < MaxEntries /\ entries' = [entries EXCEPT ![d] = entries[d] + 1]
        /\ recorded' = [recorded EXCEPT ![d] = [recorded[d] EXCEPT !.txn = "completed"]]
        /\ UNCHANGED <<payment, told>> /\ settler' = [settler EXCEPT ![s] = Resting]
    BY <1>13, <2>0 DEF CreditTransaction, SettlerAt, Rests, IvoryIInv
  <2>2. "failed" \in told[d] /\ payment[d] = "paid"
    BY <2>0, <2>1 DEF SettlerKnows, IvoryIInv
  <2>3. [recorded[d] EXCEPT !.txn = "completed"] \in IvoryRows
        /\ entries[d] + 1 \in 0 .. MaxEntries /\ entries[d] + 1 > 0
    <3>1. [recorded[d] EXCEPT !.txn = "completed"] \in IvoryRows
      BY <1>t, <1>f
    <3>2. entries[d] + 1 \in 0 .. MaxEntries /\ entries[d] + 1 > 0
      BY <1>t, <2>1
    <3> QED BY <3>1, <3>2
  <2>4. settler' \in [Settlers -> {Resting} \cup Work]
        /\ \A x \in Settlers : settler'[x] = settler[x] \/ SettlerKnows(x)'
    BY <1>t, <2>1 DEF SettlerKnows
  <2> HIDE DEF Work
  <2> QED BY <1>1, <2>1, <2>2, <2>3, <2>4
\* The ways a failure and a deletion are written: only after IvoryPay gave up once.
<1>14. ASSUME NEW d \in Ivories, "failed" \in told[d] \/ payment[d] = "none",
              NEW row \in IvoryRows, recorded' = [recorded EXCEPT ![d] = row],
              row.deposit = "SUCCESS" => recorded[d].deposit = "SUCCESS",
              row.txn = "completed" => recorded[d].txn = "completed",
              UNCHANGED <<payment, told, entries>>,
              settler' \in [Settlers -> {Resting} \cup Work],
              \A x \in Settlers : settler'[x] = settler[x] \/ SettlerKnows(x)'
       PROVE  IvoryIInv'
  <2>1. entries' = [entries EXCEPT ![d] = entries[d]] /\ entries[d] \in 0 .. MaxEntries
    BY <1>t, <1>14
  <2>2. /\ entries[d] > 0 => payment[d] = "paid"
        /\ row.deposit = "SUCCESS" \/ row.txn = "completed" => entries[d] > 0
    BY <1>14 DEF IvoryIInv, IvoryDepositsInv, EnteredIsPaid, SettledIsEntered
  <2> HIDE DEF Work
  <2> QED BY <1>1, <1>14, <2>1, <2>2
<1>15. ASSUME NEW s \in Settlers, FailDeposit(s) \/ PutBack(s) PROVE IvoryIInv'
  <2>0. PICK d \in Ivories : d = settler[s].ref
    BY <1>w, <1>15 DEF FailDeposit, PutBack, Finalizing, Acts, SettlerAt
  <2>1. PICK h : h = IF FailDeposit(s) THEN [settler[s] EXCEPT !.at = "finish"]
                     ELSE [settler[s] EXCEPT !.seen = [settler[s].seen EXCEPT !.deposit = "PENDING"]]
    OBVIOUS
  <2>2. settler[s] \in Work /\ settler[s] # Resting /\ SettlerKnows(s) /\ settler[s].at = "act"
    BY <1>w, <1>15 DEF FailDeposit, PutBack, Finalizing, Acts, SettlerAt, IvoryIInv
  <2>3. h \in Work /\ h.ref = d /\ h.outcome = settler[s].outcome /\ h.at \in {"act", "finish"}
    <3>1. [settler[s].seen EXCEPT !.deposit = "PENDING"] \in IvoryRows
      BY <1>w, <2>2, <1>f
    <3> QED BY <2>0, <2>1, <2>2, <3>1
  <2>4. "failed" \in told[d]
    <3>1. CASE FailDeposit(s)
      BY <2>0, <2>2, <3>1 DEF FailDeposit, Acts, SettlerKnows
    <3>2. CASE PutBack(s)
      BY <2>0, <2>2, <3>2 DEF PutBack, SettlerKnows
    <3> QED BY <1>15, <3>1, <3>2
  <2>5. settler' = [settler EXCEPT ![s] = h] /\ UNCHANGED <<payment, told, entries>>
    BY <1>15, <2>1 DEF FailDeposit, PutBack
  <2>6. settler'[s] = h /\ settler' \in [Settlers -> {Resting} \cup Work]
        /\ \A x \in Settlers \ {s} : settler'[x] = settler[x]
    BY <1>t, <2>3, <2>5
  <2>7. SettlerKnows(s)'
    BY <2>0, <2>2, <2>3, <2>4, <2>5, <2>6 DEF SettlerKnows
  <2>8. PICK row \in IvoryRows : recorded' = [recorded EXCEPT ![d] = row]
             /\ row.deposit # "SUCCESS"
                                 /\ row.txn = recorded[d].txn
    <3>1. [recorded[d] EXCEPT !.deposit = "PENDING"] \in IvoryRows
          /\ [recorded[d] EXCEPT !.deposit = "FAILED"] \in IvoryRows
      BY <1>t, <1>f
    <3>2. recorded' = [recorded EXCEPT ![d] = [recorded[d] EXCEPT !.deposit = "PENDING"]]
          \/ recorded' = [recorded EXCEPT ![d] = [recorded[d] EXCEPT !.deposit = "FAILED"]]
      BY <1>15, <2>0 DEF FailDeposit, PutBack
    <3> QED BY <1>t, <3>1, <3>2 DEF IvoryRows
  <2> HIDE DEF Work
  <2> QED BY <1>14, <2>4, <2>5, <2>6, <2>7, <2>8
<1>16. ASSUME NEW s \in Settlers, FailTxn(s) \/ FailBoth(s) PROVE IvoryIInv'
  <2>0. PICK d \in Ivories : d = settler[s].ref
    BY <1>w, <1>16 DEF FailTxn, FailBoth, Acts, SettlerAt
  <2>1. "failed" \in told[d]
    BY <2>0, <1>16 DEF FailTxn, FailBoth, Acts, SettlerAt, IvoryIInv, SettlerKnows
  <2>2. settler' = [settler EXCEPT ![s] = Resting] /\ UNCHANGED <<payment, told, entries>>
    BY <1>16 DEF FailTxn, FailBoth, Rests
  <2>3. settler' \in [Settlers -> {Resting} \cup Work]
        /\ \A x \in Settlers : settler'[x] = settler[x] \/ SettlerKnows(x)'
    BY <1>t, <2>2 DEF SettlerKnows
  <2>4. PICK row \in IvoryRows : /\ recorded' = [recorded EXCEPT ![d] = row]
                                 /\ row.deposit = "SUCCESS" => recorded[d].deposit = "SUCCESS"
                                 /\ row.txn = "completed" => recorded[d].txn = "completed"
    <3>1. recorded[d] \in IvoryRows
      BY <1>t
    <3>2. PICK a \in {recorded[d].deposit, "FAILED"}, b \in {recorded[d].txn, "failed"} :
            recorded' = [recorded EXCEPT ![d] = [recorded[d] EXCEPT !.deposit = a, !.txn = b]]
      <4>1. CASE FailTxn(s)
        <5>1. \E b \in {recorded[d].txn, "failed"} : recorded' = [recorded EXCEPT ![d] = [recorded[d] EXCEPT !.txn = b]]
          BY <2>0, <4>1 DEF FailTxn
        <5>2. \A b : [recorded[d] EXCEPT !.txn = b] = [recorded[d] EXCEPT !.deposit = recorded[d].deposit, !.txn = b]
          BY <3>1 DEF IvoryRows
        <5> QED BY <5>1, <5>2
      <4>2. CASE FailBoth(s)
        <5>1. recorded' = [recorded EXCEPT ![d] = [recorded[d] EXCEPT
                    !.deposit = IF settler[s].seen.deposit = "PENDING" THEN "FAILED" ELSE recorded[d].deposit,
                    !.txn = IF settler[s].seen.txn = "pending" THEN "failed" ELSE recorded[d].txn]]
          BY <2>0, <4>2 DEF FailBoth
        <5> QED BY <5>1
      <4> QED BY <1>16, <4>1, <4>2
    <3>3. [recorded[d] EXCEPT !.deposit = a, !.txn = b] \in IvoryRows
      BY <3>1 DEF IvoryRows
    <3>4. /\ [recorded[d] EXCEPT !.deposit = a, !.txn = b].deposit = a
          /\ [recorded[d] EXCEPT !.deposit = a, !.txn = b].txn = b
      BY <3>1 DEF IvoryRows
    <3> QED BY <3>2, <3>3, <3>4
  <2> HIDE DEF Work
  <2> QED BY <1>14, <2>1, <2>2, <2>3, <2>4
<1>17. ASSUME NEW d \in Ivories, CleanUp(d) PROVE IvoryIInv'
  <2>1. "failed" \in told[d] \/ payment[d] = "none"
    <3>1. recorded[d] # [deposit |-> "PENDING", txn |-> "pending"]
          /\ recorded[d] # [deposit |-> "SUCCESS", txn |-> "completed"]
      BY <1>17 DEF CleanUp
    <3> QED BY <3>1 DEF IvoryIInv, NotFailed
  <2>2. UNCHANGED <<payment, told, entries>> /\ settler' = settler
    BY <1>17 DEF CleanUp
  <2>3. PICK row \in IvoryRows : /\ recorded' = [recorded EXCEPT ![d] = row]
                                 /\ row.deposit = "none" /\ row.txn \in {"none", recorded[d].txn}
    <3>1. [deposit |-> "none", txn |-> "none"] \in IvoryRows
          /\ [recorded[d] EXCEPT !.deposit = "none"] \in IvoryRows
      <4>1. [deposit |-> "none", txn |-> "none"] \in IvoryRows
        BY DEF IvoryRows
      <4> QED BY <1>t, <1>f, <4>1
    <3>2. [recorded[d] EXCEPT !.deposit = "none"].deposit = "none"
          /\ [recorded[d] EXCEPT !.deposit = "none"].txn = recorded[d].txn
      BY <1>t DEF IvoryRows
    <3>3. recorded' = [recorded EXCEPT ![d] = [recorded[d] EXCEPT !.deposit = "none"]]
          \/ recorded' = [recorded EXCEPT ![d] = [deposit |-> "none", txn |-> "none"]]
      BY <1>17 DEF CleanUp
    <3> QED BY <3>1, <3>2, <3>3
  <2> QED BY <1>14, <1>t, <2>1, <2>2, <2>3
<1>18. CASE UNCHANGED ivoryVars
  BY <1>18 DEF ivoryVars, IvoryIInv, IvoryDepositsInv, IvoryTypeOK, EnteredOnce,
       EnteredIsPaid, SettledIsEntered,
     NotFailed, SettlerKnows
<1> HIDE DEF Work
<1> QED BY <1>3, <1>4, <1>5, <1>7, <1>8, <1>9, <1>10, <1>11, <1>12, <1>13, <1>15, <1>16,
    <1>17, <1>18
        DEF NextIvory, Duplicate, GiveUp

\* creditDeposit enters an IvoryPay deposit once, unless IvoryPay reported both
\* outcomes, only when it was paid; and what is settled was entered.
THEOREM IvoryCreditsOnce == IvoryDepositsSpec => []IvoryDepositsInv
<1>1. InitIvory => IvoryIInv
  <2> SUFFICES ASSUME InitIvory PROVE IvoryIInv
    OBVIOUS
  <2>1. IvoryTypeOK
    BY IvoryAssumption DEF InitIvory, IvoryTypeOK, IvoryRows, Outcomes
  <2> QED BY <2>1 DEF InitIvory, IvoryIInv, IvoryDepositsInv, EnteredOnce, EnteredIsPaid,
      SettledIsEntered,
     NotFailed, SettlerKnows
<1>2. IvoryIInv => IvoryDepositsInv
  BY DEF IvoryIInv
<1> QED BY <1>1, <1>2, IvoryInductive, PTL DEF IvoryDepositsSpec

=============================================================================
