--------------------------- MODULE RequestProofs ----------------------------
(***************************************************************************)
(* A business escrow request is funded in one contract and reports         *)
(* released only what was paid, an application has one verdict, and a user *)
(* is verified for a reason: for every set of requests, milestones,        *)
(* submissions, documents and handlers.                                    *)
(*                                                                         *)
(* A request's handlers read the row, call the escrow service and write    *)
(* the row back. IInv says of each place a handler can be in what it may   *)
(* still rely on, whatever other handlers did since it read (Knows), and   *)
(* of each row what follows from the contracts made for it (RowSound).     *)
(***************************************************************************)
EXTENDS BusinessEscrow, Applications, Verifications, FiniteSetTheorems, SequenceTheorems, TLAPS

----------------------------------------------------------------------------
(* Business escrow requests.                                               *)

\* A row of a request.
RowType(r) == [status : Statuses, link : Contracts \cup {NoContract}, due : BOOLEAN, ms : Plans(r)]

\* What is paid out of a contract never exceeds its principal, and completes it.
Accounts ==
  \A k \in Contracts :
    paid[k] <= Principal[k] /\ (status[k] = "completed" => paid[k] = Principal[k])

\* What a row of a request may say, given the contracts made for it.
RowSound(r, row) ==
  /\ row.link # NoContract => row.link \in ContractsOf(r)
  /\ row.status \in OPEN => row.link = NoContract /\ (r \notin reopened => ContractsOf(r) = {})
  /\ row.status = "released" => row.link # NoContract /\ status[row.link] = "completed"
  /\ row.status = "expired" /\ r \notin reopened
       => \A k \in ContractsOf(r) : status[k] \notin {"active", "disputed"}
  /\ \A i \in Points(r) : row.ms[i] = "released" => payments[r][i] >= 1

\* What a handler that has read and written before still may rely on.
Knows(h) ==
  LET row == request[h.req]
  IN  /\ h.at \in {"create", "link"} => row.link = NoContract /\ row.status \in MILESTONE_OPEN
      /\ h.at = "create" => h.req \in reopened \/ ContractsOf(h.req) = {}
      /\ h.at = "link" => h.contract \in ContractsOf(h.req)
      /\ h.at \in {"release", "pay", "record", "close", "sync"} => row.link # NoContract
      /\ h.at = "close" => status[row.link] = "completed"
      /\ h.at = "sync" =>
           /\ h.next \in {"released", "expired", "disputed"}
           /\ h.next = "released" => status[row.link] = "completed"
           /\ h.next = "expired" => status[row.link] = "refunded"
      /\ h.at \in {"ask", "release", "pay", "record", "close"} =>
           \A i \in Points(h.req) : h.read[i] = "released" => payments[h.req][i] >= 1
      /\ h.at \in {"record", "close"} => payments[h.req][h.index] >= 1

\* The handler that is about to create the contract of a request, or to link it.
Funding(c, r) == call[c].at \in {"create", "link"} /\ call[c].req = r

\* A request has at most one contract, but for one that was opened again.
OneContract == \A r \in Requests \ reopened : \A k, l \in ContractsOf(r) : k = l

IInv ==
  /\ TypeOK /\ Accounts /\ OneContract
  /\ \A r \in Requests : RowSound(r, request[r])
  /\ \A c \in Calls : call[c] # Idle => Knows(call[c])
  /\ \A c, d \in Calls, r \in Requests : Funding(c, r) /\ Funding(d, r) => c = d

\* A handler's place says which fields it has.
LEMMA HandlerShape ==
  ASSUME NEW h \in Handlers
  PROVE  /\ h.req \in Requests /\ h # Idle
         /\ h.at \in {"claim", "create", "link", "ask", "release", "pay", "record", "close", "sync"}
         /\ h.at \in {"claim", "create", "link"} =>
              h \in [at : {"claim", "create", "link"}, req : Requests, contract : Contracts \cup {NoContract}]
         /\ h.at \in {"ask", "release", "pay", "record", "close"} =>
              h.index \in Points(h.req) /\ h.read \in Plans(h.req)
         /\ h.at = "sync" => h.next \in Statuses
BY DEF Handlers, Idle

\* The handlers that begin.
LEMMA HandlersBuilt ==
  ASSUME NEW r \in Requests
  PROVE  /\ \A at \in {"claim", "create", "link"}, k \in Contracts \cup {NoContract} :
              [at |-> at, req |-> r, contract |-> k] \in Handlers
         /\ \A at \in {"ask", "release", "pay", "record", "close"}, i \in Points(r), p \in Plans(r) :
              [at |-> at, req |-> r, index |-> i, read |-> p] \in Handlers
         /\ \A s \in Statuses : [at |-> "sync", req |-> r, next |-> s] \in Handlers
BY DEF Handlers

\* The handlers that go on.
LEMMA HandlersMove ==
  ASSUME NEW h \in Handlers
  PROVE  /\ h.at \in {"claim", "create", "link"} =>
              \A at \in {"claim", "create", "link"}, k \in Contracts \cup {NoContract} :
                 [h EXCEPT !.at = at] \in Handlers
                 /\ [h EXCEPT !.at = at, !.contract = k] \in Handlers
         /\ h.at \in {"ask", "release", "pay", "record", "close"} =>
              \A at \in {"ask", "release", "pay", "record", "close"} : [h EXCEPT !.at = at] \in Handlers
<1>1. PICK r \in Requests :
        \/ h \in [at : {"claim", "create", "link"}, req : {r}, contract : Contracts \cup {NoContract}]
        \/ h \in [at : {"ask", "release", "pay", "record", "close"},
                  req : {r}, index : Points(r), read : Plans(r)]
        \/ h \in [at : {"sync"}, req : {r}, next : Statuses]
  BY DEF Handlers
<1>2. ASSUME h.at \in {"claim", "create", "link"}, NEW at \in {"claim", "create", "link"},
             NEW k \in Contracts \cup {NoContract}
      PROVE  [h EXCEPT !.at = at] \in Handlers
             /\ [h EXCEPT !.at = at, !.contract = k] \in Handlers
  <2> DEFINE R == [at : {"claim", "create", "link"}, req : {r}, contract : Contracts \cup {NoContract}]
  <2>1. h \in R
    BY <1>1, <1>2
  <2>2. [h EXCEPT !.at = at] \in R
    BY <2>1
  <2>3. [h EXCEPT !.at = at, !.contract = k] \in R
    BY <2>1
  <2> QED BY <2>2, <2>3 DEF Handlers
<1>3. ASSUME h.at \in {"ask", "release", "pay", "record", "close"},
             NEW at \in {"ask", "release", "pay", "record", "close"}
      PROVE  [h EXCEPT !.at = at] \in Handlers
  <2> DEFINE R == [at : {"ask", "release", "pay", "record", "close"},
               req : {r}, index : Points(r), read : Plans(r)]
  <2>1. h \in R
    BY <1>1, <1>3
  <2>2. [h EXCEPT !.at = at] \in R
    BY <2>1
  <2> QED BY <2>2 DEF Handlers
<1> QED BY <1>2, <1>3

\* Principals and milestones are positive amounts.
LEMMA Amounts ==
  /\ \A k \in Contracts : Principal[k] \in Nat \ {0}
  /\ \A r \in Requests, i \in Nat : i \in Points(r) => Milestones[r][i] \in Nat \ {0}
  /\ \A r \in Requests : Points(r) \subseteq Nat
<1>1. \A k \in Contracts : Principal[k] \in Nat \ {0}
  BY RequestAssumption DEF Contracts, Principal
<1>2. ASSUME NEW r \in Requests
      PROVE  Points(r) \subseteq Nat /\ \A i \in Points(r) : Milestones[r][i] \in Nat \ {0}
  <2>1. Milestones[r] \in Seq(Nat \ {0})
    BY RequestAssumption
  <2>2. Len(Milestones[r]) \in Nat /\ DOMAIN Milestones[r] = 1 .. Len(Milestones[r])
        /\ Milestones[r] \in [1 .. Len(Milestones[r]) -> Nat \ {0}]
    BY <2>1, LenProperties
  <2> QED BY <2>2 DEF Points
<1> QED BY <1>1, <1>2

\* sync: what a row says of its contract after it, and what it leaves alone.
LEMMA SyncedRow ==
  ASSUME TypeOK, OneContract, NEW r \in Requests, NEW row \in RowType(r), RowSound(r, row)
  PROVE  LET new == Synced(row)
         IN  /\ new \in RowType(r) /\ RowSound(r, new)
             /\ new.link = row.link /\ new.ms = row.ms /\ new.due = row.due
             /\ row.link = NoContract /\ row.status \in MILESTONE_OPEN => new.status = row.status
             /\ new.status \in OPEN => row.status \in OPEN
<1> DEFINE now == Expired(row)
<1>1. /\ now \in RowType(r)
      /\ now.link = row.link /\ now.ms = row.ms /\ now.due = row.due
      /\ now.status = row.status \/ (row.status \in OPEN /\ now.status = "expired")
  BY DEF Expired, RowType, Statuses
<1>2. RowSound(r, now)
  BY <1>1 DEF RowSound, OPEN
<1> DEFINE to == Mirrored(now)
<1>3. Synced(row) = [now EXCEPT !.status = to]
  BY DEF Synced
<1> HIDE DEF now
<1>4. /\ to = now.status
         \/ /\ row.link # NoContract
            /\ to = CASE status[now.link] = "completed" -> "released"
                   [] status[now.link] = "disputed"  -> "disputed"
                   [] status[now.link] = "refunded"  -> "expired"
                   [] OTHER -> now.status
  BY <1>1 DEF Mirrored
<1>5. to \in Statuses
  BY <1>1, <1>4 DEF RowType, Statuses
<1>6. RowSound(r, [now EXCEPT !.status = to])
  BY <1>1, <1>2, <1>4 DEF RowSound, RowType, OPEN, OneContract
<1> HIDE DEF to
<1>7. [now EXCEPT !.status = to] \in RowType(r)
  BY <1>1, <1>5 DEF RowType
<1> QED BY <1>1, <1>3, <1>4, <1>6, <1>7 DEF RowType, OPEN, MILESTONE_OPEN

\* The escrow service's contracts are well typed.
ContractsTyped ==
  /\ status \in [Contracts -> {"none", "active", "disputed", "completed", "refunded"}]
  /\ paid \in [Contracts -> Nat] /\ refunded \in [Contracts -> Nat]

\* What no step on contracts undoes.
Settles ==
  \A k \in Contracts :
    /\ status'[k] = "none" <=> status[k] = "none"
    /\ status[k] \in {"completed", "refunded"} => status'[k] = status[k]

\* Paying a part of a contract stays within its principal, and completes it at
\* the principal.
LEMMA PayEffect ==
  ASSUME ContractsTyped, Accounts, NEW k \in Contracts, NEW part \in Nat, Deal!Pay(k, part)
  PROVE  ContractsTyped' /\ Accounts' /\ Settles
<1>1. Principal[k] \in Nat /\ paid[k] \in Nat
  BY Amounts DEF ContractsTyped
<1>2. paid' \in [Contracts -> Nat] /\ paid'[k] = paid[k] + part /\ paid'[k] <= Principal[k]
      /\ \A l \in Contracts \ {k} : paid'[l] = paid[l]
  BY <1>1 DEF Deal!Pay, ContractsTyped
<1>3. /\ status[k] = "active"
      /\ status' = [status EXCEPT ![k] = IF paid'[k] = Principal[k] THEN "completed" ELSE "active"]
      /\ refunded' = refunded
  BY DEF Deal!Pay, Deal!Move
<1> QED BY <1>2, <1>3 DEF ContractsTyped, Accounts, Settles

\* A dispute, an award and a refund keep the accounts of a contract.
LEMMA DecisionEffect ==
  ASSUME ContractsTyped, Accounts, NEW k \in Contracts,
         Deal!Dispute(k) \/ Deal!Award(k) \/ Deal!Refund(k)
  PROVE  ContractsTyped' /\ Accounts' /\ Settles
<1>1. Principal[k] \in Nat /\ paid[k] \in Nat /\ paid[k] <= Principal[k]
  BY Amounts DEF ContractsTyped, Accounts
<1>2. CASE Deal!Dispute(k)
  BY <1>1, <1>2 DEF Deal!Dispute, Deal!Move, ContractsTyped, Accounts, Settles
<1>3. CASE Deal!Award(k)
  BY <1>1, <1>3 DEF Deal!Award, Deal!Move, ContractsTyped, Accounts, Settles
<1>4. CASE Deal!Refund(k)
  BY <1>1, <1>4 DEF Deal!Refund, Deal!Move, ContractsTyped, Accounts, Settles
<1> QED BY <1>2, <1>3, <1>4

\* A step that writes one row and moves handlers keeps the invariant, if the row
\* is sound and the handlers know what they rely on.
LEMMA RowStep ==
  ASSUME IInv, NEW r \in Requests, NEW row \in RowType(r), RowSound(r, row),
         UNCHANGED <<contracts, missing, payments>>, request' = [request EXCEPT ![r] = row],
         request[r].link # NoContract => row.link = request[r].link,
         call' \in [Calls -> {Idle} \cup Handlers],
         \A c \in Calls : call'[c] = call[c] \/ call'[c] = Idle \/ Knows(call[c])',
         \A c \in Calls : Funding(c, r)' => row.status \in MILESTONE_OPEN
                          /\ row.link = NoContract,
         \A c, d \in Calls, s \in Requests : Funding(c, s)' /\ Funding(d, s)' => c = d
  PROVE  IInv'
<1>1. TypeOK'
  BY DEF IInv, TypeOK, RowType, contracts, missing
<1>2. \A s \in Requests : ContractsOf(s)' = ContractsOf(s)
  BY DEF ContractsOf, contracts, missing
<1>3. /\ request'[r] = row
      /\ \A s \in Requests \ {r} : request'[s] = request[s]
  BY DEF IInv, TypeOK
<1>4. Accounts' /\ OneContract'
  BY <1>2 DEF IInv, Accounts, OneContract, contracts, missing
<1>5. \A s \in Requests : RowSound(s, request[s])'
  BY <1>2, <1>3 DEF IInv, RowSound, contracts, missing
<1>6. ASSUME NEW c \in Calls, call'[c] # Idle
      PROVE  Knows(call[c])'
  <2> SUFFICES ASSUME call'[c] = call[c] PROVE Knows(call[c])'
    BY <1>6
  <2>1. call[c] \in Handlers /\ Knows(call[c])
    BY <1>6 DEF IInv, TypeOK
  <2>2. call[c].req \in Requests
    BY <2>1, HandlerShape
  <2>3. call'[c].at \in {"create", "link"} /\ call'[c].req = r => row.status \in MILESTONE_OPEN
        /\ row.link = NoContract
    BY DEF Funding
  <2> QED BY <1>2, <1>3, <2>1, <2>2, <2>3 DEF Knows, contracts, missing
<1> QED BY <1>1, <1>4, <1>5, <1>6 DEF IInv

\* A step on the contracts that undoes no end and no payment keeps the invariant.
LEMMA ContractStep ==
  ASSUME IInv, request' = request, reopened' = reopened, TypeOK', Accounts', Settles,
         \A r \in Requests : \A i \in Points(r) : payments'[r][i] >= payments[r][i],
         \A c \in Calls : call'[c] = call[c] \/ call'[c] = Idle \/ Knows(call[c])',
         \A c \in Calls, r \in Requests : Funding(c, r)' => Funding(c, r)
  PROVE  IInv'
<1>1. \A r \in Requests : ContractsOf(r)' = ContractsOf(r)
  BY DEF ContractsOf, Settles
<1>2. OneContract'
  BY <1>1 DEF IInv, OneContract
<1>3. \A r \in Requests : \A i \in Points(r) :
        /\ payments[r][i] \in Nat /\ payments'[r][i] \in Nat
        /\ payments[r][i] >= 1 => payments'[r][i] >= 1
  BY DEF IInv, TypeOK
<1>4. \A r \in Requests : \A k \in ContractsOf(r) :
        /\ k \in Contracts /\ status[k] \in {"active", "disputed", "completed", "refunded"}
        /\ status'[k] \in {"active", "disputed", "completed", "refunded"}
  BY <1>1 DEF IInv, TypeOK, ContractsOf
<1>5. ASSUME NEW r \in Requests PROVE RowSound(r, request[r])'
  BY <1>1, <1>3, <1>4 DEF IInv, RowSound, Settles
<1>6. ASSUME NEW c \in Calls, call'[c] # Idle
      PROVE  Knows(call[c])'
  <2> SUFFICES ASSUME call'[c] = call[c] PROVE Knows(call[c])'
    BY <1>6
  <2> DEFINE h == call[c]
             row == request[h.req]
  <2>1. h \in Handlers /\ Knows(h)
    BY <1>6 DEF IInv, TypeOK
  <2>2. h.req \in Requests /\ (h.at \in {"record", "close"} => h.index \in Points(h.req))
    BY <2>1, HandlerShape
  <2>3. row.link # NoContract => row.link \in Contracts
    BY <2>2 DEF IInv, TypeOK
  <2>4. row' = row /\ h' = h
    OBVIOUS
  <2> QED BY <1>1, <1>3, <2>1, <2>2, <2>3 DEF Knows, Settles
<1> QED BY <1>2, <1>5, <1>6 DEF IInv

\* What the invariant says of one request and of a handler in flight.
LEMMA RowFacts ==
  ASSUME IInv, NEW r \in Requests
  PROVE  /\ request[r] \in RowType(r) /\ RowSound(r, request[r])
         /\ Row(r) \in RowType(r) /\ RowSound(r, Row(r))
         /\ Row(r).link = request[r].link /\ Row(r).ms = request[r].ms
         /\ \A c \in Calls : Funding(c, r) =>
              /\ request[r].status \in MILESTONE_OPEN /\ request[r].link = NoContract
              /\ Row(r).status = request[r].status
<1>1. request[r] \in RowType(r) /\ RowSound(r, request[r])
  BY DEF IInv, TypeOK, RowType
<1>2. ASSUME NEW c \in Calls, Funding(c, r)
      PROVE  request[r].status \in MILESTONE_OPEN /\ request[r].link = NoContract
  BY <1>2 DEF IInv, Funding, Knows, Idle
<1> QED BY <1>1, <1>2, SyncedRow DEF IInv, Row

\* A handler at work is of some request, and knows what its place implies.
LEMMA CallFacts ==
  ASSUME IInv, NEW c \in Calls, call[c].at # "idle"
  PROVE  call[c] \in Handlers /\ call[c].req \in Requests /\ Knows(call[c])
<1>1. call[c] # Idle
  BY DEF Idle
<1> QED BY <1>1, HandlerShape DEF IInv, TypeOK

\* A row changes and no handler starts or moves to a creation.
LEMMA QuietRow ==
  ASSUME IInv, NEW r \in Requests, NEW row \in RowType(r), RowSound(r, row),
         UNCHANGED <<contracts, missing, payments>>, request' = [request EXCEPT ![r] = row],
         request[r].link # NoContract => row.link = request[r].link,
         \A c \in Calls : Funding(c, r) => row.status \in MILESTONE_OPEN /\ row.link = NoContract,
         call' = call \/ \E c \in Calls, h \in {Idle} \cup Handlers :
            call' = [call EXCEPT ![c] = h] /\ h.at \notin {"create", "link"} /\ (h = Idle \/ Knows(h)')
  PROVE  IInv'
<1>1. call \in [Calls -> {Idle} \cup Handlers]
  BY DEF IInv, TypeOK
<1>2. call' \in [Calls -> {Idle} \cup Handlers]
  BY <1>1
<1>3. \A c \in Calls : call'[c] = call[c] \/ call'[c] = Idle \/ Knows(call[c])'
  <2>1. CASE call' = call
    BY <2>1
  <2>2. ASSUME NEW d \in Calls, NEW h \in {Idle} \cup Handlers,
               call' = [call EXCEPT ![d] = h], h = Idle \/ Knows(h)', NEW c \in Calls
        PROVE  call'[c] = call[c] \/ call'[c] = Idle \/ Knows(call[c])'
    <3>1. CASE c # d BY <1>1, <2>2, <3>1
    <3>2. CASE c = d
      <4>1. call'[c] = h
        BY <1>1, <2>2, <3>2
      <4>2. CASE h = Idle
        BY <4>1, <4>2
      <4>3. CASE Knows(h)'
        BY ZenonT(30), <4>1, <4>3 DEF Knows
      <4> QED BY <2>2, <4>2, <4>3
    <3> QED BY <3>1, <3>2
  <2> QED BY <2>1, <2>2
<1>4. \A c \in Calls, s \in Requests : Funding(c, s)' => Funding(c, s)
  BY <1>1 DEF Funding
<1>5. \A c \in Calls : Funding(c, r)' => row.status \in MILESTONE_OPEN /\ row.link = NoContract
  BY <1>4
<1>6. \A c, d \in Calls, s \in Requests : Funding(c, s)' /\ Funding(d, s)' => c = d
  BY <1>4 DEF IInv
<1> HIDE DEF RowType, RowSound, Funding, Knows
<1> QED BY <1>2, <1>3, <1>5, <1>6, RowStep

\* Reading a request back: the row is synced, the rest is as given.
LEMMA SavedRow ==
  ASSUME IInv, NEW r \in Requests, NEW row \in RowType(r), RowSound(r, row),
         row.link = request[r].link,
         \A c \in Calls : Funding(c, r) => row.status \in MILESTONE_OPEN
  PROVE  /\ Synced(row) \in RowType(r) /\ RowSound(r, Synced(row))
         /\ Synced(row).link = request[r].link
         /\ \A c \in Calls : Funding(c, r) =>
              Synced(row).status \in MILESTONE_OPEN /\ Synced(row).link = NoContract
<1>1. \A c \in Calls : Funding(c, r) => request[r].link = NoContract
  BY RowFacts
<1> QED BY <1>1, SyncedRow DEF IInv

\* The statements that write a row at once: send, start, requestRelease, cancel
\* and the deadline.
LEMMA UpdateStep ==
  ASSUME IInv, NEW r \in Requests,
         \/ Send(r) \/ Start(r) \/ RequestRelease(r) \/ Cancel(r) \/ Deadline(r)
  PROVE  IInv'
<1> USE RowFacts
<1>1. CASE Cancel(r)
  <2> DEFINE row == [request[r] EXCEPT !.status = "expired"]
  <2>1. row \in RowType(r) /\ RowSound(r, row) /\ row.link = request[r].link
    BY <1>1 DEF Cancel, RowType, RowSound, Statuses, OPEN
  <2>2. \A c \in Calls : ~Funding(c, r)
    BY <1>1 DEF Cancel, OPEN, MILESTONE_OPEN
  <2>3. UNCHANGED <<contracts, missing, payments>> /\ call' = call
        /\ request' = [request EXCEPT ![r] = row]
    BY <1>1 DEF Cancel
  <2> HIDE DEF row
  <2> QED BY <2>1, <2>2, <2>3, QuietRow
<1>2. CASE Deadline(r)
  <2> DEFINE row == [request[r] EXCEPT !.due = TRUE]
  <2>1. row \in RowType(r) /\ RowSound(r, row) /\ row.link = request[r].link
        /\ row.status = request[r].status
    BY <1>2 DEF RowType, RowSound
  <2>3. UNCHANGED <<contracts, missing, payments>> /\ call' = call
        /\ request' = [request EXCEPT ![r] = row]
    BY <1>2 DEF Deadline
  <2> HIDE DEF row
  <2> QED BY <2>1, <2>3, QuietRow
<1>3. ASSUME NEW from, NEW to, Update(r, from, to),
             \/ from = {"created"} /\ to = "awaiting_payment"
             \/ from \subseteq MILESTONE_OPEN /\ to \in MILESTONE_OPEN
      PROVE  IInv'
  <2> DEFINE row == [Row(r) EXCEPT !.status = to]
  <2>1. row \in RowType(r) /\ RowSound(r, row) /\ row.link = request[r].link
    BY <1>3 DEF Update, RowType, RowSound, Statuses, OPEN, MILESTONE_OPEN
  <2>2. \A c \in Calls : Funding(c, r) => row.status \in MILESTONE_OPEN
    BY <1>3 DEF Update, OPEN, MILESTONE_OPEN, RowType
  <2>3. UNCHANGED <<contracts, missing, payments>> /\ call' = call
        /\ request' = [request EXCEPT ![r] = Synced(row)]
    BY <1>3 DEF Update, Save
  <2> HIDE DEF row
  <2> DEFINE new == Synced(row)
  <2>4. /\ new \in RowType(r) /\ RowSound(r, new) /\ new.link = request[r].link
        /\ \A c \in Calls : Funding(c, r) => new.status \in MILESTONE_OPEN
           /\ new.link = NoContract
    BY <2>1, <2>2, SavedRow
  <2> HIDE DEF new
  <2>5. request' = [request EXCEPT ![r] = new]
    BY <2>3 DEF new
  <2> QED BY <2>3, <2>4, <2>5, QuietRow
<1> QED BY <1>1, <1>2, <1>3 DEF Send, Start, RequestRelease, MILESTONE_OPEN

\* The handlers that read a row and begin.
LEMMA BeginStep ==
  ASSUME IInv, NEW c \in Calls, NEW r \in Requests,
         \/ BeginSync(c, r) \/ BeginFund(c, r)
         \/ \E i \in Points(r) : BeginAsk(c, r, i) \/ BeginMilestone(c, r, i)
  PROVE  IInv'
<1> USE RowFacts
<1>1. \A h : h.at \notin {"create", "link"} /\ Begin(c, h) /\ h \in Handlers /\ Knows(h)' =>
        \E d \in Calls, g \in {Idle} \cup Handlers :
            call' = [call EXCEPT ![d] = g] /\ g.at \notin {"create", "link"} /\ (g = Idle \/ Knows(g)')
  BY DEF Begin
<1>2. /\ \A i \in Points(r) : request[r].ms[i] = "released" => payments[r][i] >= 1
      /\ request[r].ms \in Plans(r)
  BY DEF RowSound, RowType
<1>3. ASSUME request' = [request EXCEPT ![r] = Row(r)], UNCHANGED <<contracts, missing, payments>>,
             NEW h \in Handlers, Begin(c, h), h.at \notin {"create", "link"}, Knows(h)'
      PROVE  IInv'
  <2> DEFINE row == Row(r)
  <2>1. request' = [request EXCEPT ![r] = row]
    BY <1>3
  <2>2. /\ row \in RowType(r) /\ RowSound(r, row) /\ row.link = request[r].link
        /\ \A d \in Calls : Funding(d, r) => row.status \in MILESTONE_OPEN
           /\ row.link = NoContract
    OBVIOUS
  <2> HIDE DEF row
  <2> QED BY <1>1, <1>3, <2>1, <2>2, QuietRow
<1>4. request' = [request EXCEPT ![r] = Row(r)] => request'[r] = Row(r)
  BY DEF IInv, TypeOK
<1>5. CASE BeginFund(c, r)
  <2>0. PICK h : h = [at |-> "claim", req |-> r, contract |-> NoContract]
    OBVIOUS
  <2>1. h \in Handlers
    BY <2>0, HandlersBuilt
  <2>2. Knows(h)'
    BY <2>0 DEF Knows
  <2> QED BY <1>3, <1>5, <2>0, <2>1, <2>2 DEF BeginFund
<1>6. ASSUME NEW i \in Points(r), BeginAsk(c, r, i)
      PROVE  IInv'
  <2>0. PICK h : h = [at |-> "ask", req |-> r, index |-> i, read |-> Row(r).ms]
    OBVIOUS
  <2>1. h \in Handlers
    BY <1>2, <2>0, HandlersBuilt
  <2>2. Knows(h)'
    BY <1>2, <1>6, <2>0 DEF Knows, BeginAsk
  <2> QED BY <1>3, <1>6, <2>0, <2>1, <2>2 DEF BeginAsk
<1>7. ASSUME NEW i \in Points(r), BeginMilestone(c, r, i)
      PROVE  IInv'
  <2>0. PICK h : h = [at |-> "release", req |-> r, index |-> i, read |-> Row(r).ms]
    OBVIOUS
  <2>1. h \in Handlers
    BY <1>2, <2>0, HandlersBuilt
  <2>2. Knows(h)'
    BY <1>2, <1>4, <1>7, <2>0 DEF Knows, BeginMilestone
  <2> QED BY <1>3, <1>7, <2>0, <2>1, <2>2 DEF BeginMilestone
<1>8. CASE BeginSync(c, r)
  <2> DEFINE row == Expired(request[r])
             next == Mirrored(row)
  <2>0. PICK h : h = [at |-> "sync", req |-> r, next |-> next]
    OBVIOUS
  <2>1. /\ row \in RowType(r) /\ RowSound(r, row) /\ row.link = request[r].link
        /\ \A d \in Calls : Funding(d, r) => row.status \in MILESTONE_OPEN
           /\ row.link = NoContract
    BY DEF Expired, RowType, RowSound, Statuses, OPEN, MILESTONE_OPEN
  <2>2. request' = [request EXCEPT ![r] = row] /\ UNCHANGED <<contracts, missing, payments>>
    BY <1>8 DEF BeginSync
  <2>3. call' = call \/ (next # row.status /\ Begin(c, h))
    BY <1>8, <2>0 DEF BeginSync
  <2>4. request'[r] = row
    BY <2>2 DEF IInv, TypeOK
  <2>5. next # row.status =>
          /\ row.link # NoContract
          /\ \/ next = "released" /\ status[row.link] = "completed"
             \/ next = "disputed" /\ status[row.link] = "disputed"
             \/ next = "expired" /\ status[row.link] = "refunded"
    BY DEF Mirrored
  <2>7. next # row.status => h \in Handlers /\ Knows(h)'
    <3> SUFFICES ASSUME next # row.status PROVE h \in Handlers /\ Knows(h)'
      OBVIOUS
    <3> HIDE DEF next, row
    <3>1. next \in Statuses /\ next \in {"released", "expired", "disputed"}
      BY <2>5 DEF Statuses
    <3>2. h \in Handlers
      BY <2>0, <3>1, HandlersBuilt
    <3>3. h.req = r /\ h.at = "sync" /\ h.next = next
      BY <2>0
    <3>4. status' = status
      BY <2>2 DEF contracts, missing
    <3>5. Knows(h)'
      BY <2>4, <2>5, <3>1, <3>3, <3>4 DEF Knows
    <3> QED BY <3>2, <3>5
  <2> HIDE DEF row
  <2> QED BY <1>1, <2>0, <2>1, <2>2, <2>3, <2>7, QuietRow
<1> QED BY <1>5, <1>6, <1>7, <1>8

\* The handlers that end with a statement on the row.
LEMMA EndStep ==
  ASSUME IInv, NEW c \in Calls,
         \/ CommitSync(c) \/ CommitAsk(c) \/ LinkContract(c) \/ FundFails(c)
         \/ RecordMilestone(c) \/ MilestoneFails(c)
  PROVE  IInv'
<1> DEFINE h == call[c]
           r == h.req
           old == request[r]
<1>1. h \in Handlers /\ r \in Requests /\ Knows(h)
  BY CallFacts DEF CommitSync, CommitAsk, LinkContract, FundFails, RecordMilestone,
       MilestoneFails, End
<1>2. /\ old \in RowType(r) /\ RowSound(r, old)
      /\ \A d \in Calls : Funding(d, r) =>
           old.status \in MILESTONE_OPEN /\ old.link = NoContract
  BY <1>1, RowFacts
<1>3. call' = [call EXCEPT ![c] = Idle] /\ UNCHANGED <<contracts, missing, payments>>
  BY DEF CommitSync, CommitAsk, LinkContract, FundFails, RecordMilestone, MilestoneFails, End
<1>4. \E d \in Calls, g \in {Idle} \cup Handlers :
        call' = [call EXCEPT ![d] = g] /\ g.at \notin {"create", "link"} /\ (g = Idle \/ Knows(g)')
  BY <1>3 DEF Idle
<1>5. ASSUME NEW row \in RowType(r), RowSound(r, row), request' = [request EXCEPT ![r] = row],
             old.link # NoContract => row.link = old.link,
             \A d \in Calls : Funding(d, r) => row.status \in MILESTONE_OPEN
                              /\ row.link = NoContract
      PROVE  IInv'
  BY <1>1, <1>3, <1>4, <1>5, QuietRow
<1>6. \A d \in Calls : Funding(d, r) => d = c \/ h.at \notin {"create", "link"}
  BY <1>1 DEF Funding, IInv
<1>7. CASE CommitSync(c)
  <2>0. PICK row : row = [old EXCEPT !.status = h.next]
    OBVIOUS
  <2>1. h.at = "sync" /\ h.next \in Statuses
    BY <1>1, <1>7, HandlerShape DEF CommitSync, End
  <2>2. row \in RowType(r)
    BY <1>2, <2>0, <2>1 DEF RowType
  <2>3. RowSound(r, row)
    BY <1>1, <1>2, <2>0, <2>1 DEF RowSound, Knows, RowType, OPEN, OneContract, IInv
  <2>4. old.link # NoContract /\ row.link = old.link
    BY <1>1, <1>2, <2>0, <2>1 DEF Knows, RowType
  <2>5. request' = [request EXCEPT ![r] = row]
    BY <1>7, <2>0 DEF CommitSync
  <2> HIDE DEF h, r, old
  <2> QED BY <1>2, <1>5, <2>2, <2>3, <2>4, <2>5
<1>8. CASE CommitAsk(c)
  <2>1. h.at = "ask" /\ h.index \in Points(r)
    BY <1>1, <1>8, HandlerShape DEF CommitAsk, End
  <2>0. PICK row : row = [old EXCEPT !.ms[h.index] = "release_requested"]
    OBVIOUS
  <2>2. row \in RowType(r)
    BY <1>2, <2>0, <2>1 DEF RowType, Plans, MilestoneStatuses
  <2>3. RowSound(r, row)
    BY <1>2, <2>0, <2>1 DEF RowSound, RowType, Plans
  <2>4. row.link = old.link /\ row.status = old.status
    BY <1>2, <2>0 DEF RowType
  <2>5. request' = [request EXCEPT ![r] = Synced(row)]
    BY <1>8, <2>0 DEF CommitAsk, Save
  <2>6. /\ Synced(row) \in RowType(r) /\ RowSound(r, Synced(row))
        /\ Synced(row).link = old.link
        /\ \A d \in Calls : Funding(d, r) =>
              Synced(row).status \in MILESTONE_OPEN /\ Synced(row).link = NoContract
    BY <1>1, <1>2, <2>2, <2>3, <2>4, SavedRow
  <2> HIDE DEF h, r, old
  <2> QED BY <1>5, <2>5, <2>6
<1>c. ASSUME h.at \in {"create", "link"}, NEW row \in RowType(r), RowSound(r, row),
             request' = [request EXCEPT ![r] = row]
      PROVE  IInv'
  <2>1. Funding(c, r) /\ old.link = NoContract
    BY <1>1, <1>c DEF Knows, Funding
  <2>2. call \in [Calls -> {Idle} \cup Handlers]
    BY DEF IInv, TypeOK
  <2>3. \A d \in Calls, s \in Requests : Funding(d, s)' => Funding(d, s) /\ s # r
    BY <1>1, <1>3, <2>1, <2>2 DEF Funding, IInv, Idle
  <2>4. \A d \in Calls : call'[d] = call[d] \/ call'[d] = Idle
    BY <1>3, <2>2
  <2>5. call' \in [Calls -> {Idle} \cup Handlers]
    BY <1>3, <2>2
  <2>6. \A d, e \in Calls, s \in Requests : Funding(d, s)' /\ Funding(e, s)' => d = e
    BY <2>3 DEF IInv
  <2> HIDE DEF h, r, old
  <2> QED BY <1>1, <1>3, <1>c, <2>1, <2>3, <2>4, <2>5, <2>6, RowStep DEF old
<1>9. CASE LinkContract(c)
  <2>0. PICK row : row = [old EXCEPT !.link = h.contract]
    OBVIOUS
  <2>1. h.at = "link" /\ h.contract \in ContractsOf(r) /\ old.status \in MILESTONE_OPEN
    BY <1>1, <1>9 DEF LinkContract, End, Knows
  <2>2. row \in RowType(r)
    BY <1>2, <2>0, <2>1 DEF RowType, ContractsOf
  <2>3. RowSound(r, row)
    BY <1>1, <1>2, <2>0, <2>1 DEF RowSound, RowType, OneContract, IInv, MILESTONE_OPEN, OPEN
  <2>5. request' = [request EXCEPT ![r] = row]
    BY <1>9, <2>0 DEF LinkContract
  <2> HIDE DEF h, r, old
  <2> QED BY <1>c, <2>1, <2>2, <2>3, <2>5
<1>10. CASE FundFails(c)
  <2>0. PICK row : row = [old EXCEPT !.status = "awaiting_payment"]
    OBVIOUS
  <2>1. h.at = "create" /\ (r \in reopened \/ ContractsOf(r) = {}) /\ old.link = NoContract
    BY <1>1, <1>10 DEF FundFails, End, Knows
  <2>2. row \in RowType(r) /\ RowSound(r, row)
    BY <1>2, <2>0, <2>1 DEF RowType, RowSound, Statuses, OPEN
  <2>5. request' = [request EXCEPT ![r] = row]
    BY <1>10, <2>0 DEF FundFails, PutBack
  <2> HIDE DEF h, r, old
  <2> QED BY <1>c, <2>1, <2>2, <2>5
<1>11. CASE RecordMilestone(c)
  <2>1. h.at \in {"record", "close"} /\ h.index \in Points(r) /\ h.read \in Plans(r)
    BY <1>1, <1>11, HandlerShape DEF RecordMilestone, End
  <2>0. PICK row : row = [old EXCEPT !.ms = [h.read EXCEPT ![h.index] = "released"],
                                     !.status = IF h.at = "close" THEN "released" ELSE @]
    OBVIOUS
  <2>2. row \in RowType(r)
    BY <1>2, <2>0, <2>1 DEF RowType, Plans, MilestoneStatuses, Statuses
  <2>3. RowSound(r, row)
    BY <1>1, <1>2, <2>0, <2>1 DEF RowSound, RowType, Plans, Knows, OPEN
  <2>4. old.link # NoContract /\ row.link = old.link
    BY <1>1, <1>2, <2>0, <2>1 DEF Knows, RowType
  <2>5. request' = [request EXCEPT ![r] = row]
    BY <1>11, <2>0 DEF RecordMilestone
  <2> HIDE DEF h, r, old
  <2> QED BY <1>2, <1>5, <2>2, <2>3, <2>4, <2>5
<1>12. CASE MilestoneFails(c)
  <2>1. h.at \in {"pay", "record", "close"} /\ h.read \in Plans(r)
    BY <1>1, <1>12, HandlerShape DEF MilestoneFails, End
  <2>0. PICK row : row = [old EXCEPT !.ms = h.read]
    OBVIOUS
  <2>2. row \in RowType(r)
    BY <1>2, <2>0, <2>1 DEF RowType
  <2>3. RowSound(r, row)
    BY <1>1, <1>2, <2>0, <2>1 DEF RowSound, RowType, Knows
  <2>4. old.link # NoContract /\ row.link = old.link
    BY <1>1, <1>2, <2>0, <2>1 DEF Knows, RowType
  <2>5. request' = [request EXCEPT ![r] = row]
    BY <1>12, <2>0 DEF MilestoneFails
  <2> HIDE DEF h, r, old
  <2> QED BY <1>2, <1>5, <2>2, <2>3, <2>4, <2>5
<1> QED BY <1>7, <1>8, <1>9, <1>10, <1>11, <1>12

\* The catch block opens a request again that has a contract.
LEMMA LinkFailsStep ==
  ASSUME IInv, NEW c \in Calls, LinkFails(c)
  PROVE  IInv'
<1>1. call[c].at = "link" /\ call[c] \in Handlers /\ Knows(call[c])
  BY CallFacts DEF LinkFails, End
<1>2. PICK r \in Requests : r = call[c].req
  BY <1>1, HandlerShape
<1>3. PICK row : row = [request[r] EXCEPT !.status = "awaiting_payment"]
  OBVIOUS
<1>4. /\ request' = [request EXCEPT ![r] = row] /\ call' = [call EXCEPT ![c] = Idle]
      /\ unlinked' = unlinked \cup {r} /\ reopened' = reopened \cup {r}
      /\ UNCHANGED <<contracts, payments>>
  BY <1>2, <1>3 DEF LinkFails, PutBack, End
<1>5. /\ request[r] \in RowType(r) /\ RowSound(r, request[r])
      /\ request[r].link = NoContract /\ Funding(c, r)
  BY <1>1, <1>2, RowFacts DEF Knows, Funding
<1>6. /\ row \in RowType(r) /\ row.link = NoContract /\ row.ms = request[r].ms
      /\ row.status = "awaiting_payment"
  BY <1>3, <1>5 DEF RowType, Statuses, OPEN
<1>7. /\ request'[r] = row /\ \A s \in Requests \ {r} : request'[s] = request[s]
      /\ call'[c] = Idle /\ \A d \in Calls \ {c} : call'[d] = call[d]
      /\ call' \in [Calls -> {Idle} \cup Handlers]
  BY <1>2, <1>4 DEF IInv, TypeOK
<1>8. TypeOK'
  BY <1>4, <1>6, <1>7 DEF IInv, TypeOK, RowType, contracts
<1>9. \A s \in Requests : ContractsOf(s)' = ContractsOf(s)
  BY <1>4 DEF ContractsOf, contracts
<1>10. Accounts' /\ OneContract'
  BY <1>4, <1>9 DEF IInv, Accounts, OneContract, contracts
<1>11. ASSUME NEW s \in Requests PROVE RowSound(s, request[s])'
  <2>1. CASE s = r
    BY <1>4, <1>5, <1>6, <1>7, <1>9, <2>1 DEF RowSound, OPEN, contracts
  <2>2. CASE s # r
    BY <1>4, <1>7, <1>9, <2>2 DEF IInv, RowSound, contracts
  <2> QED BY <2>1, <2>2
<1>12. ASSUME NEW d \in Calls, call'[d] # Idle PROVE Knows(call[d])'
  <2>1. d # c /\ call'[d] = call[d] /\ call[d] \in Handlers /\ Knows(call[d])
    BY <1>7, <1>12 DEF IInv, TypeOK
  <2>2. call[d].req \in Requests
    BY <2>1, HandlerShape
  <2>3. call[d].req = r => call[d].at \notin {"create", "link"}
    BY <1>2, <1>5, <2>1 DEF IInv, Funding
  <2>4. call[d].req = r => call[d].at \notin {"release", "pay", "record", "close", "sync"}
    BY <1>5, <2>1 DEF Knows
  <2>5. CASE call[d].req = r
    BY <1>4, <2>1, <2>3, <2>4, <2>5 DEF Knows, contracts
  <2>6. CASE call[d].req # r
    BY <1>4, <1>7, <1>9, <2>1, <2>2, <2>6 DEF Knows, contracts
  <2> QED BY <2>5, <2>6
<1>13. \A d, e \in Calls, s \in Requests : Funding(d, s)' /\ Funding(e, s)' => d = e
  BY <1>7 DEF IInv, Funding, Idle
<1> QED BY <1>8, <1>10, <1>11, <1>12, <1>13 DEF IInv

\* The handlers that go on after a conditional update.
LEMMA ClaimStep ==
  ASSUME IInv, NEW c \in Calls, ClaimFund(c) \/ ClaimMilestone(c)
  PROVE  IInv'
<1> DEFINE h == call[c]
           r == h.req
           old == request[r]
<1>1. h \in Handlers /\ r \in Requests /\ Knows(h)
  BY CallFacts DEF ClaimFund, ClaimMilestone, Claim, Go
<1>2. /\ old \in RowType(r) /\ RowSound(r, old)
      /\ \A d \in Calls : Funding(d, r) =>
           old.status \in MILESTONE_OPEN /\ old.link = NoContract
  BY <1>1, RowFacts
<1>3. UNCHANGED <<contracts, missing, payments>>
  BY DEF ClaimFund, ClaimMilestone, Claim
<1>4. call \in [Calls -> {Idle} \cup Handlers]
  BY DEF IInv, TypeOK
<1>5. CASE ClaimFund(c)
  <2>0. PICK row : row = [old EXCEPT !.status = "funded"]
    OBVIOUS
  <2>00. PICK g : g = [h EXCEPT !.at = "create"]
    OBVIOUS
  <2>1. h.at = "claim" /\ old.status = "awaiting_payment" /\ call' = [call EXCEPT ![c] = g]
        /\ request' = [request EXCEPT ![r] = row]
    BY <1>5, <2>0, <2>00 DEF ClaimFund, Go
  <2>2. g \in Handlers
    BY <1>1, <2>00, <2>1, HandlersMove
  <2>3. g.at = "create" /\ g.req = r
    BY <1>1, <2>00, <2>1, HandlerShape
  <2>4. (r \in reopened \/ ContractsOf(r) = {}) /\ old.link = NoContract
    BY <1>2, <2>1 DEF RowSound, OPEN
  <2>5. row \in RowType(r) /\ RowSound(r, row) /\ row.status = "funded" /\ row.link = NoContract
    BY <1>2, <2>0, <2>4 DEF RowType, RowSound, Statuses, OPEN, MILESTONE_OPEN
  <2>6. \A d \in Calls : ~Funding(d, r)
    BY <1>2, <2>1 DEF MILESTONE_OPEN
  <2>7. request'[r] = row
    BY <1>1, <2>1 DEF IInv, TypeOK
  <2>8. call' \in [Calls -> {Idle} \cup Handlers] /\ call'[c] = g
        /\ \A d \in Calls \ {c} : call'[d] = call[d]
    BY <1>4, <2>1, <2>2
  <2>9. g.req \in reopened' \/ ContractsOf(g.req)' = {}
    BY <1>3, <2>3, <2>4 DEF ContractsOf, contracts, missing
  <2>10. Knows(g)'
    BY <2>3, <2>5, <2>7, <2>9 DEF Knows, MILESTONE_OPEN
  <2>10a. Knows(call[c])'
    BY <2>8, <2>10 DEF Knows
  <2>11. \A d \in Calls : call'[d] = call[d] \/ call'[d] = Idle \/ Knows(call[d])'
    BY <2>8, <2>10a
  <2>12. \A d, e \in Calls, s \in Requests : Funding(d, s)' /\ Funding(e, s)' => d = e
    BY <1>1, <2>3, <2>6, <2>8 DEF Funding, IInv
  <2>13. row.status \in MILESTONE_OPEN
    BY <2>5 DEF MILESTONE_OPEN
  <2> HIDE DEF h, r, old
  <2> QED BY <1>1, <1>3, <2>1, <2>4, <2>5, <2>8, <2>11, <2>12, <2>13, RowStep DEF old
<1>6. CASE ClaimMilestone(c)
  <2>0. PICK row : row = [old EXCEPT !.ms[h.index] = "releasing"]
    OBVIOUS
  <2>00. PICK g : g = [h EXCEPT !.at = "pay"]
    OBVIOUS
  <2>1. h.at = "release" /\ call' = [call EXCEPT ![c] = g]
        /\ request' = [request EXCEPT ![r] = row]
    BY <1>6, <2>0, <2>00 DEF ClaimMilestone, Claim, Go
  <2>2. g \in Handlers /\ h.index \in Points(r)
    BY <1>1, <2>00, <2>1, HandlersMove, HandlerShape
  <2>3. g.at = "pay" /\ g.req = r /\ g.read = h.read
    BY <1>1, <2>00, <2>1, HandlerShape
  <2>5. row \in RowType(r) /\ RowSound(r, row) /\ row.status = old.status /\ row.link = old.link
    BY <1>2, <2>0, <2>2 DEF RowType, RowSound, Plans, MilestoneStatuses
  <2>7. request'[r] = row
    BY <1>1, <2>1 DEF IInv, TypeOK
  <2>10. Knows(g)'
    BY <1>1, <1>3, <2>1, <2>3, <2>5, <2>7 DEF Knows
  <2>11. g.at \notin {"create", "link"}
    BY <2>3
  <2> HIDE DEF h, r
  <2> QED BY <1>1, <1>2, <1>3, <2>1, <2>2, <2>5, <2>10, <2>11, QuietRow
<1> QED BY <1>5, <1>6

\* Handlers that are lost, and a restart.
LEMMA LeaveStep ==
  ASSUME IInv, Restart \/ \E c \in Calls : Lost(c)
  PROVE  IInv'
<1>1. call \in [Calls -> {Idle} \cup Handlers]
  BY DEF IInv, TypeOK
<1>2. UNCHANGED <<contracts, request, payments, reopened>> /\ call' \in [Calls -> {Idle} \cup Handlers]
      /\ \A c \in Calls : call'[c] = call[c] \/ call'[c] = Idle
  BY <1>1 DEF Restart, Lost, End, missing
<1>a. unlinked \subseteq unlinked' /\ unlinked' \subseteq Requests
  <2>1. \A c \in Calls : call[c].at = "link" => call[c].req \in Requests
    BY CallFacts
  <2> QED BY <2>1 DEF Restart, Lost, missing, IInv, TypeOK
<1>3. TypeOK'
  BY <1>2, <1>a DEF IInv, TypeOK, contracts
<1>4. Accounts' /\ Settles
  BY <1>2 DEF IInv, Accounts, Settles, contracts, missing
<1>5. \A c \in Calls, r \in Requests : Funding(c, r)' => Funding(c, r)
  BY <1>2 DEF Funding, Idle
<1>6. \A r \in Requests : \A i \in Points(r) : payments'[r][i] >= payments[r][i]
  BY <1>2 DEF IInv, TypeOK
<1> QED BY <1>2, <1>3, <1>4, <1>5, <1>6, ContractStep

\* fund creates the one contract of a request nobody else can be funding.
LEMMA CreateStep ==
  ASSUME IInv, NEW c \in Calls, NEW k \in Contracts, CreateContract(c, k)
  PROVE  IInv'
<1>1. call[c].at = "create" /\ k[1] = call[c].req /\ UNCHANGED <<request, payments, unlinked, reopened>>
  BY DEF CreateContract, missing
<1>2. PICK r \in Requests : r = call[c].req
  BY <1>1, CallFacts
<1>3. PICK g : g = [call[c] EXCEPT !.at = "link", !.contract = k]
  OBVIOUS
<1>4. /\ call[c] \in Handlers /\ request[r].link = NoContract
         /\ request[r].status \in MILESTONE_OPEN
      /\ r \in reopened \/ ContractsOf(r) = {}
      /\ Funding(c, r)
  BY <1>1, <1>2, CallFacts DEF Knows, Funding
<1>5. /\ status' = [status EXCEPT ![k] = "active"] /\ status[k] = "none"
      /\ paid' = paid /\ refunded' = refunded
  BY DEF CreateContract, Deal!Fund, Deal!Move
<1>6. g \in Handlers /\ g.at = "link" /\ g.req = r /\ g.contract = k
  <2>1. call[c].at = "create" /\ g \in Handlers
    BY <1>1, <1>3, <1>4, HandlersMove
  <2>2. call[c] \in [at : {"claim", "create", "link"}, req : Requests, contract : Contracts \cup {NoContract}]
    BY <1>1, <1>4, HandlerShape
  <2> QED BY <1>2, <1>3, <2>1, <2>2
<1>7. /\ call \in [Calls -> {Idle} \cup Handlers]
      /\ status \in [Contracts -> {"none", "active", "disputed", "completed", "refunded"}]
  BY DEF IInv, TypeOK
<1>8. call' = [call EXCEPT ![c] = g]
  BY <1>3 DEF CreateContract
<1>9. /\ call' \in [Calls -> {Idle} \cup Handlers] /\ call'[c] = g
      /\ \A d \in Calls \ {c} : call'[d] = call[d]
  BY <1>6, <1>7, <1>8
<1>10. /\ status' \in [Contracts -> {"none", "active", "disputed", "completed", "refunded"}]
       /\ status'[k] = "active" /\ \A l \in Contracts \ {k} : status'[l] = status[l]
  BY <1>5, <1>7
<1>11. TypeOK'
  BY <1>1, <1>5, <1>9, <1>10 DEF IInv, TypeOK
<1>12. Accounts'
  BY <1>5, <1>10 DEF IInv, Accounts
<1>13. ContractsOf(r)' = ContractsOf(r) \cup {k} /\ \A s \in Requests \ {r} : ContractsOf(s)' = ContractsOf(s)
  BY <1>1, <1>2, <1>4, <1>5, <1>10 DEF ContractsOf
<1>14. OneContract'
  BY <1>1, <1>4, <1>13 DEF IInv, OneContract
<1>15. ASSUME NEW s \in Requests PROVE RowSound(s, request[s])'
  <2>1. RowSound(s, request[s]) /\ request[s].link \in Contracts \cup {NoContract}
    BY DEF IInv, TypeOK
  <2>2. CASE s = r
    BY <1>1, <1>4, <1>10, <1>13, <2>1, <2>2 DEF RowSound, OPEN, MILESTONE_OPEN
  <2>3. CASE s # r
    <3>1. ContractsOf(s)' = ContractsOf(s) /\ \A l \in ContractsOf(s) : status'[l] = status[l]
      BY <1>2, <1>10, <1>13, <1>1, <2>3 DEF ContractsOf
    <3> QED BY <1>1, <2>1, <3>1 DEF RowSound
  <2> QED BY <2>2, <2>3
<1>16. Knows(g)'
  BY <1>1, <1>4, <1>6, <1>13 DEF Knows
<1>17. ASSUME NEW d \in Calls, d # c, call[d] # Idle
       PROVE  Knows(call[d])'
  <2> DEFINE h == call[d]
  <2>1. h \in Handlers /\ Knows(h) /\ h.req \in Requests /\ h' = h
    BY <1>7, <1>9, <1>17, HandlerShape DEF IInv
  <2>2. request[h.req].link = NoContract \/ request[h.req].link \in ContractsOf(h.req)
    BY <2>1 DEF IInv, RowSound
  <2>3. h.at \in {"create", "link"} => h.req # r
    BY <1>2, <1>4, <1>17, <2>1 DEF IInv, Funding
  <2>4. \A l \in ContractsOf(h.req) : l # k /\ l \in ContractsOf(h.req)' /\ status'[l] = status[l]
    BY <1>4, <1>10, <1>13, <2>1, <1>5 DEF ContractsOf
  <2>5. h.at = "create" => h.req \in reopened' \/ ContractsOf(h.req)' = {}
    BY <1>1, <1>13, <2>1, <2>3 DEF Knows
  <2>6. request' = request /\ payments' = payments
    BY <1>1
  <2>7. h.at = "link" => h.contract \in ContractsOf(h.req)'
    BY <2>1, <2>4 DEF Knows
  <2>8. request[h.req].link # NoContract => status'[request[h.req].link] = status[request[h.req].link]
    BY <2>2, <2>4
  <2> QED BY <2>1, <2>5, <2>6, <2>7, <2>8 DEF Knows
<1>18. \A d \in Calls : call'[d] # Idle => Knows(call[d])'
  BY <1>9, <1>16, <1>17 DEF Knows
<1>19. \A d, e \in Calls, s \in Requests : Funding(d, s)' /\ Funding(e, s)' => d = e
  <2>1. \A d \in Calls, s \in Requests : Funding(d, s)' => Funding(d, s)
    BY <1>4, <1>6, <1>9 DEF Funding
  <2> QED BY <2>1 DEF IInv
<1> QED BY <1>11, <1>12, <1>14, <1>15, <1>18, <1>19 DEF IInv

\* releaseMilestone pays the milestone it claimed.
LEMMA PayStep ==
  ASSUME IInv, NEW c \in Calls, PayMilestone(c)
  PROVE  IInv'
<1>1. call[c].at = "pay" /\ call[c] \in Handlers /\ call[c].req \in Requests /\ Knows(call[c])
  BY CallFacts DEF PayMilestone
<1>2. PICK r \in Requests : r = call[c].req
  BY <1>1
<1>3. PICK i : i = call[c].index
  OBVIOUS
<1>4. PICK k : k = request[r].link
  OBVIOUS
<1>5. i \in Points(r) /\ i \in Nat /\ Milestones[r][i] \in Nat
  BY <1>1, <1>2, <1>3, HandlerShape, Amounts
<1>6. k \in Contracts
  BY <1>1, <1>2, <1>4 DEF Knows, IInv, TypeOK
<1>7. /\ Deal!Pay(k, Milestones[r][i]) /\ request' = request /\ UNCHANGED <<unlinked, reopened>>
      /\ payments' = [payments EXCEPT ![r][i] = @ + 1]
  BY <1>2, <1>3, <1>4 DEF PayMilestone, missing
<1>8a. PICK to : to = IF status'[k] = "completed" THEN "close" ELSE "record"
  OBVIOUS
<1>8. PICK g : g = [call[c] EXCEPT !.at = to]
  OBVIOUS
<1>9. call' = [call EXCEPT ![c] = g]
  BY <1>2, <1>4, <1>8a, <1>8 DEF PayMilestone, Go
<1>10. ContractsTyped' /\ Accounts' /\ Settles
  BY <1>5, <1>6, <1>7, PayEffect DEF IInv, TypeOK, ContractsTyped
<1>11. /\ g \in Handlers /\ g.at \in {"record", "close"} /\ g.req = r /\ g.index = i
       /\ g.read = call[c].read /\ (g.at = "close" => status'[k] = "completed")
  <2>1. to \in {"record", "close"} /\ (to = "close" => status'[k] = "completed")
    BY <1>8a
  <2>2. g \in Handlers
    BY <1>1, <1>8, <2>1, HandlersMove
  <2>3. g.at = to /\ g.req = r /\ g.index = i /\ g.read = call[c].read
    <3>1. call[c] \in [at : {"ask", "release", "pay", "record", "close"}, req : {r}, index : Points(r), read : Plans(r)]
      BY <1>1, <1>2 DEF Handlers
    <3> QED BY <1>3, <1>8, <3>1
  <2> QED BY <2>1, <2>2, <2>3
<1>12. call \in [Calls -> {Idle} \cup Handlers]
  BY DEF IInv, TypeOK
<1>13. /\ call' \in [Calls -> {Idle} \cup Handlers] /\ call'[c] = g
       /\ \A d \in Calls \ {c} : call'[d] = call[d]
  BY <1>9, <1>11, <1>12
<1>14. /\ \A s \in Requests : payments'[s] \in [Points(s) -> Nat]
       /\ \A s \in Requests : \A j \in Points(s) : payments'[s][j] >= payments[s][j]
       /\ payments'[r][i] >= 1 /\ DOMAIN payments' = Requests
  BY <1>5, <1>7 DEF IInv, TypeOK
<1>15. TypeOK'
  BY <1>7, <1>10, <1>13, <1>14 DEF IInv, TypeOK, ContractsTyped
<1>16. \A j \in Points(r) : g.read[j] = "released" => payments'[r][j] >= 1
  <2>1. \A j \in Points(r) : g.read[j] = "released" => payments[r][j] >= 1
    BY <1>1, <1>2, <1>11 DEF Knows
  <2>2. \A j \in Points(r) : payments[r][j] \in Nat /\ payments'[r][j] \in Nat
    BY <1>14 DEF IInv, TypeOK
  <2> QED BY <1>14, <2>1, <2>2
<1>17. k # NoContract
  BY <1>1, <1>2, <1>4 DEF Knows
<1>18. Knows(g)'
  BY <1>4, <1>7, <1>11, <1>14, <1>16, <1>17 DEF Knows
<1>19. \A d \in Calls : call'[d] = call[d] \/ call'[d] = Idle \/ Knows(call[d])'
  BY <1>13, <1>18 DEF Knows
<1>20. \A d \in Calls, s \in Requests : Funding(d, s)' => Funding(d, s)
  BY <1>11, <1>13 DEF Funding
<1> QED BY <1>7, <1>10, <1>14, <1>15, <1>19, <1>20, ContractStep

\* The parties and the administrator act on the contract in the escrow service.
LEMMA ElsewhereStep ==
  ASSUME IInv, NEW k \in Contracts, Elsewhere(k)
  PROVE  IInv'
<1>1. Principal[k] - paid[k] \in Nat
  BY Amounts DEF IInv, TypeOK, Accounts
<1>2. ContractsTyped
  BY DEF IInv, TypeOK, ContractsTyped
<1>3. ContractsTyped' /\ Accounts' /\ Settles
  BY <1>1, <1>2, PayEffect, DecisionEffect DEF IInv, Elsewhere
<1>4. UNCHANGED <<request, payments, call, unlinked, reopened>>
  BY DEF Elsewhere, missing
<1>5. TypeOK'
  BY <1>3, <1>4 DEF IInv, TypeOK, ContractsTyped
<1>6. \A r \in Requests : \A i \in Points(r) : payments'[r][i] >= payments[r][i]
  BY <1>4 DEF IInv, TypeOK
<1> QED BY <1>3, <1>4, <1>5, <1>6, ContractStep DEF Funding

\* Spec keeps IInv.
LEMMA Inductive == Spec => []IInv
<1>1. Init => IInv
  <2> SUFFICES ASSUME Init PROVE IInv
    OBVIOUS
  <2>1. TypeOK
    BY RequestAssumption DEF Init, Deal!Init, TypeOK, Statuses, OPEN, Plans, MilestoneStatuses
  <2>2. Accounts
    BY Amounts DEF Init, Deal!Init, Accounts
  <2>3. \A r \in Requests : ContractsOf(r) = {}
    BY DEF Init, Deal!Init, ContractsOf
  <2>4. \A r \in Requests : RowSound(r, request[r])
    BY <2>3 DEF Init, RowSound
  <2> QED BY <2>1, <2>2, <2>3, <2>4 DEF Init, IInv, OneContract, Funding, Idle
<1>2. IInv /\ [Next]_vars => IInv'
  <2> SUFFICES ASSUME IInv, [Next]_vars PROVE IInv'
    OBVIOUS
  <2>1. CASE UNCHANGED vars
    BY <2>1 DEF vars, IInv, TypeOK, Accounts, OneContract, RowSound, Knows, Funding, ContractsOf
  <2>2. CASE \E r \in Requests :
               Send(r) \/ Start(r) \/ RequestRelease(r) \/ Cancel(r) \/ Deadline(r)
    BY <2>2, UpdateStep
  <2>3. CASE \E c \in Calls, r \in Requests :
               \/ BeginSync(c, r) \/ BeginFund(c, r)
               \/ \E i \in Points(r) : BeginAsk(c, r, i) \/ BeginMilestone(c, r, i)
    BY <2>3, BeginStep
  <2>4. CASE \E c \in Calls :
               \/ CommitSync(c) \/ CommitAsk(c) \/ LinkContract(c) \/ FundFails(c)
               \/ RecordMilestone(c) \/ MilestoneFails(c)
    BY <2>4, EndStep
  <2>10. CASE \E c \in Calls : LinkFails(c)
    BY <2>10, LinkFailsStep
  <2>5. CASE \E c \in Calls : ClaimFund(c) \/ ClaimMilestone(c)
    BY <2>5, ClaimStep
  <2>6. CASE Restart \/ \E c \in Calls : Lost(c)
    BY <2>6, LeaveStep
  <2>7. CASE \E c \in Calls, k \in Contracts : CreateContract(c, k)
    BY <2>7, CreateStep
  <2>8. CASE \E c \in Calls : PayMilestone(c)
    BY <2>8, PayStep
  <2>9. CASE \E k \in Contracts : Elsewhere(k)
    BY <2>9, ElsewhereStep
  <2> QED BY <2>1, <2>2, <2>3, <2>4, <2>5, <2>6, <2>7, <2>8, <2>9, <2>10 DEF Next
<1> QED BY <1>1, <1>2, PTL DEF Spec

\* Its contract is the one a request names, or a handler is about to write so.
Linked ==
  \A r \in Requests \ unlinked : \A k \in ContractsOf(r) :
    request[r].link = k \/ \E c \in Calls : call[c].at = "link" /\ call[c].contract = k

\* No other step touches the link, and none but Restart and the catch block takes a
\* contract out of the hands of who is to link it.
LEMMA LinkedKept == IInv /\ Linked /\ [Next]_vars => Linked'
<1> SUFFICES ASSUME IInv, Linked, [Next]_vars PROVE Linked'
  OBVIOUS
<1>t. /\ call \in [Calls -> {Idle} \cup Handlers] /\ DOMAIN request = Requests
      /\ \A r \in Requests : request[r] \in RowType(r)
  BY DEF IInv, TypeOK, RowType
<1>1. ASSUME \A r \in Requests : ContractsOf(r)' = ContractsOf(r) /\ request'[r].link = request[r].link,
             unlinked \subseteq unlinked',
             \A c \in Calls : call[c].at = "link" => call'[c] = call[c] \/ call[c].req \in unlinked'
      PROVE  Linked'
  <2>1. \A c \in Calls : call[c].at = "link" => call[c] \in Handlers /\ Knows(call[c])
    BY CallFacts
  <2>2. \A c \in Calls, r \in Requests : call[c].at = "link" /\ call[c].contract \in ContractsOf(r)
                                         => call[c].req = r
    BY <2>1 DEF Knows, ContractsOf
  <2> QED BY <1>1, <2>2 DEF Linked
<1>2. CASE UNCHANGED vars
  BY <1>1, <1>2 DEF vars, ContractsOf
<1>3. ASSUME NEW r \in Requests, NEW row, row.link = request[r].link,
             request' = [request EXCEPT ![r] = row], UNCHANGED <<contracts, missing>>,
             \A c \in Calls : call[c].at = "link" => call'[c] = call[c]
      PROVE  Linked'
  <2>1. \A s \in Requests : ContractsOf(s)' = ContractsOf(s) /\ request'[s].link = request[s].link
    BY <1>t, <1>3 DEF ContractsOf, contracts
  <2> QED BY <1>1, <1>3, <2>1 DEF missing
<1>4. ASSUME NEW r \in Requests, NEW row \in RowType(r), RowSound(r, row), row.link = request[r].link
      PROVE  Synced(row).link = request[r].link
  BY <1>4, SyncedRow DEF IInv
<1>5. ASSUME NEW r \in Requests, Send(r) \/ Start(r) \/ RequestRelease(r)
      PROVE  Linked'
  <2>1. PICK to : /\ to = "awaiting_payment" \/ to \in MILESTONE_OPEN
                  /\ request' = [request EXCEPT ![r] = Synced([Row(r) EXCEPT !.status = to])]
                  /\ to = "awaiting_payment" => Row(r).status = "created"
                  /\ to # "awaiting_payment" => Row(r).status \in MILESTONE_OPEN
    BY <1>5 DEF Send, Start, RequestRelease, Update, Save, MILESTONE_OPEN
  <2>2. PICK row : row = [Row(r) EXCEPT !.status = to]
    OBVIOUS
  <2>3. row \in RowType(r) /\ row.link = request[r].link /\ RowSound(r, row)
    BY <2>1, <2>2, RowFacts DEF RowType, Statuses, OPEN, MILESTONE_OPEN, RowSound
  <2>4. Synced(row).link = request[r].link
    BY <1>4, <2>3
  <2>5. UNCHANGED <<contracts, missing, call>>
    BY <1>5 DEF Send, Start, RequestRelease, Update
  <2> QED BY <1>3, <2>1, <2>2, <2>4, <2>5
<1>6. ASSUME NEW r \in Requests, Cancel(r) \/ Deadline(r) PROVE Linked'
  <2>1. \E row : row.link = request[r].link /\ request' = [request EXCEPT ![r] = row]
    <3>1. CASE Cancel(r)
      <4>1. [request[r] EXCEPT !.status = "expired"].link = request[r].link
        BY <1>t DEF RowType
      <4> QED BY <3>1, <4>1 DEF Cancel
    <3>2. CASE Deadline(r)
      <4>1. [request[r] EXCEPT !.due = TRUE].link = request[r].link
        BY <1>t DEF RowType
      <4> QED BY <3>2, <4>1 DEF Deadline
    <3> QED BY <1>6, <3>1, <3>2
  <2>2. UNCHANGED <<contracts, missing, call>>
    BY <1>6 DEF Cancel, Deadline
  <2> QED BY <1>3, <2>1, <2>2
<1>7. ASSUME NEW c \in Calls, NEW r \in Requests,
             \/ BeginSync(c, r) \/ BeginFund(c, r)
             \/ \E i \in Points(r) : BeginAsk(c, r, i) \/ BeginMilestone(c, r, i)
      PROVE  Linked'
  <2>1. \A d \in Calls : call[d].at = "link" => call'[d] = call[d]
    BY <1>t, <1>7 DEF BeginSync, BeginFund, BeginAsk, BeginMilestone, Begin, Idle
  <2>2. UNCHANGED <<contracts, missing>>
    BY <1>7 DEF BeginSync, BeginFund, BeginAsk, BeginMilestone
  <2>3. Row(r).link = request[r].link
    BY RowFacts
  <2>4. Expired(request[r]).link = request[r].link
    BY <1>t DEF Expired, RowType
  <2>5. request' = [request EXCEPT ![r] = Row(r)] \/ request' = [request EXCEPT ![r] = Expired(request[r])]
    BY <1>7 DEF BeginSync, BeginFund, BeginAsk, BeginMilestone
  <2>6. PICK row : row.link = request[r].link /\ request' = [request EXCEPT ![r] = row]
    BY <2>3, <2>4, <2>5
  <2> QED BY <1>3, <2>1, <2>2, <2>6
<1>8. ASSUME NEW c \in Calls,
             \/ CommitSync(c) \/ CommitAsk(c) \/ FundFails(c) \/ RecordMilestone(c)
             \/ MilestoneFails(c) \/ ClaimFund(c) \/ ClaimMilestone(c)
      PROVE  Linked'
  <2>1. call[c].at \notin {"idle", "link"} /\ \A d \in Calls \ {c} : call'[d] = call[d]
    BY <1>t, <1>8 DEF CommitSync, CommitAsk, FundFails, RecordMilestone, MilestoneFails,
       ClaimFund, ClaimMilestone, Claim, End, Go
  <2>2. call[c].req \in Requests /\ call[c] \in Handlers /\ Knows(call[c])
    BY <2>1, CallFacts
  <2>3. PICK r \in Requests : r = call[c].req
    BY <2>2
  <2>4. PICK old : old = request[r]
    OBVIOUS
  <2>5. old \in RowType(r) /\ RowSound(r, old)
    BY <2>4, RowFacts
  <2>6. /\ \A st : [old EXCEPT !.status = st].link = old.link
        /\ \A p : [old EXCEPT !.ms = p].link = old.link
        /\ \A i, m : [old EXCEPT !.ms[i] = m].link = old.link
        /\ \A p, st : [old EXCEPT !.ms = p, !.status = st].link = old.link
    BY <2>5 DEF RowType
  <2>7. CASE CommitAsk(c)
    <3>1. PICK row : row = [old EXCEPT !.ms[call[c].index] = "release_requested"]
      OBVIOUS
    <3>2. call[c].index \in Points(r)
      BY <2>2, <2>3, <2>7, HandlerShape DEF CommitAsk, End
    <3>3. row \in RowType(r) /\ RowSound(r, row) /\ row.link = old.link
      BY <2>5, <3>1, <3>2 DEF RowType, Plans, MilestoneStatuses, RowSound
    <3>4. request' = [request EXCEPT ![r] = Synced(row)]
      BY <2>3, <2>4, <2>7, <3>1 DEF CommitAsk, Save
    <3> QED BY <1>3, <1>4, <2>1, <2>4, <2>7, <3>3, <3>4 DEF CommitAsk
  <2>8. CASE CommitSync(c) \/ FundFails(c) \/ ClaimFund(c)
    <3>1. \E st : request' = [request EXCEPT ![r] = [old EXCEPT !.status = st]]
      BY <2>3, <2>4, <2>8 DEF CommitSync, FundFails, PutBack, ClaimFund
    <3>2. UNCHANGED <<contracts, missing>>
      BY <2>8 DEF CommitSync, FundFails, ClaimFund
    <3>3. PICK row : row.link = request[r].link /\ request' = [request EXCEPT ![r] = row]
      BY <2>4, <2>6, <3>1
    <3> QED BY <1>3, <2>1, <3>2, <3>3
  <2>9. CASE MilestoneFails(c) \/ ClaimMilestone(c)
    <3>1. \/ \E p : request' = [request EXCEPT ![r] = [old EXCEPT !.ms = p]]
          \/ \E i, m : request' = [request EXCEPT ![r] = [old EXCEPT !.ms[i] = m]]
      BY <2>3, <2>4, <2>9 DEF MilestoneFails, ClaimMilestone, Claim
    <3>2. UNCHANGED <<contracts, missing>>
      BY <2>9 DEF MilestoneFails, ClaimMilestone, Claim
    <3>3. PICK row : row.link = request[r].link /\ request' = [request EXCEPT ![r] = row]
      BY <2>4, <2>6, <3>1
    <3> QED BY <1>3, <2>1, <3>2, <3>3
  <2>10. CASE RecordMilestone(c)
    <3>1. \E p, st : request' = [request EXCEPT ![r] = [old EXCEPT !.ms = p, !.status = st]]
      BY <2>3, <2>4, <2>10 DEF RecordMilestone
    <3>2. UNCHANGED <<contracts, missing>>
      BY <2>10 DEF RecordMilestone
    <3>3. PICK row : row.link = request[r].link /\ request' = [request EXCEPT ![r] = row]
      BY <2>4, <2>6, <3>1
    <3> QED BY <1>3, <2>1, <3>2, <3>3
  <2> QED BY <1>8, <2>7, <2>8, <2>9, <2>10
<1>9. ASSUME NEW c \in Calls, LinkContract(c) PROVE Linked'
  <2>1. call[c].at = "link" /\ Knows(call[c]) /\ call[c].req \in Requests
    BY <1>9, CallFacts DEF LinkContract, End
  <2>2. PICK r \in Requests : r = call[c].req
    BY <2>1
  <2>3. /\ request'[r].link = call[c].contract /\ call[c].contract \in ContractsOf(r)
        /\ \A s \in Requests \ {r} : request'[s] = request[s]
        /\ \A d \in Calls \ {c} : call'[d] = call[d]
        /\ \A s \in Requests : ContractsOf(s)' = ContractsOf(s)
        /\ unlinked' = unlinked
    <3>1. request'[r] = [request[r] EXCEPT !.link = call[c].contract]
      BY <1>t, <1>9, <2>2 DEF LinkContract
    <3>2. request'[r].link = call[c].contract
      BY <1>t, <3>1 DEF RowType
    <3> QED BY <1>t, <1>9, <2>1, <2>2, <3>2 DEF LinkContract, End, Knows, ContractsOf, contracts, missing
  <2>4. ASSUME NEW s \in Requests, s \notin unlinked', NEW k \in ContractsOf(s)'
        PROVE  request'[s].link = k \/ \E d \in Calls : call'[d].at = "link" /\ call'[d].contract = k
    <3>1. CASE s = r
      <4>1. r \notin reopened
        BY <2>3, <2>4, <3>1 DEF IInv, TypeOK
      <4> QED BY <2>3, <2>4, <3>1, <4>1 DEF IInv, OneContract
    <3>2. CASE s # r
      <4>1. k # call[c].contract
        BY <2>3, <2>4, <3>2 DEF ContractsOf
      <4> QED BY <2>3, <2>4, <3>2, <4>1 DEF Linked
    <3> QED BY <3>1, <3>2
  <2> QED BY <2>4 DEF Linked
<1>10. ASSUME NEW c \in Calls, LinkFails(c) PROVE Linked'
  <2>1. call[c].at = "link" /\ call[c].req \in Requests
    BY <1>10, CallFacts DEF LinkFails, End
  <2>2. PICK r \in Requests : r = call[c].req
    BY <2>1
  <2>3. request'[r] = [request[r] EXCEPT !.status = "awaiting_payment"]
        /\ \A s \in Requests \ {r} : request'[s] = request[s]
    BY <1>t, <1>10, <2>2 DEF LinkFails, PutBack
  <2>4. request'[r].link = request[r].link
    BY <1>t, <2>3 DEF RowType
  <2>5. \A s \in Requests : ContractsOf(s)' = ContractsOf(s) /\ request'[s].link = request[s].link
    BY <1>10, <2>3, <2>4 DEF LinkFails, ContractsOf, contracts
  <2>6. unlinked \subseteq unlinked' /\ call[c].req \in unlinked'
        /\ \A d \in Calls \ {c} : call'[d] = call[d]
    BY <1>t, <1>10 DEF LinkFails, End
  <2> QED BY <1>1, <2>5, <2>6
<1>11. ASSUME NEW c \in Calls, NEW k \in Contracts, CreateContract(c, k) PROVE Linked'
  <2>1. PICK g : g = [call[c] EXCEPT !.at = "link", !.contract = k]
    OBVIOUS
  <2>2. /\ call[c].at = "create" /\ call'[c] = g
        /\ request' = request /\ unlinked' = unlinked
        /\ \A d \in Calls \ {c} : call'[d] = call[d]
    BY <1>t, <1>11, <2>1 DEF CreateContract, missing
  <2>3. g.at = "link" /\ g.contract = k
    <3>1. call[c] \in [at : {"claim", "create", "link"}, req : Requests, contract : Contracts \cup {NoContract}]
      BY <2>2, CallFacts, HandlerShape
    <3> QED BY <2>1, <3>1
  <2>4. status' = [status EXCEPT ![k] = "active"]
    BY <1>11 DEF CreateContract, Deal!Fund, Deal!Move
  <2>5. \A r \in Requests : ContractsOf(r)' \subseteq ContractsOf(r) \cup {k}
    BY <2>4 DEF ContractsOf, IInv, TypeOK
  <2>6. ASSUME NEW r \in Requests, r \notin unlinked, NEW j \in ContractsOf(r)'
        PROVE  request[r].link = j \/ \E d \in Calls : call'[d].at = "link" /\ call'[d].contract = j
    <3>1. CASE j = k
      BY <2>2, <2>3, <3>1
    <3>2. CASE j # k
      <4>1. request[r].link = j \/ \E d \in Calls : call[d].at = "link" /\ call[d].contract = j
        BY <2>5, <2>6, <3>2 DEF Linked
      <4>2. \A d \in Calls : call[d].at = "link" => call'[d] = call[d]
        BY <2>2
      <4> QED BY <4>1, <4>2
    <3> QED BY <3>1, <3>2
  <2> QED BY <2>2, <2>6 DEF Linked
<1>12. ASSUME \/ \E c \in Calls : PayMilestone(c)
              \/ \E k \in Contracts : Elsewhere(k)
       PROVE  Linked'
  <2>1. \A r \in Requests : ContractsOf(r)' = ContractsOf(r)
    <3>1. ASSUME NEW k \in Contracts, NEW v, status[k] # "none", v # "none",
                 status' = [status EXCEPT ![k] = v]
          PROVE  \A r \in Requests : ContractsOf(r)' = ContractsOf(r)
      BY <3>1 DEF ContractsOf, IInv, TypeOK
    <3>2. ASSUME NEW k \in Contracts, NEW part, Deal!Pay(k, part)
          PROVE  \A r \in Requests : ContractsOf(r)' = ContractsOf(r)
      <4>1. PICK v : v = IF paid'[k] = Principal[k] THEN "completed" ELSE "active"
        OBVIOUS
      <4>2. status[k] # "none" /\ v # "none" /\ status' = [status EXCEPT ![k] = v]
        BY <3>2, <4>1 DEF Deal!Pay, Deal!Move
      <4> QED BY <3>1, <4>2
    <3>3. ASSUME NEW c \in Calls, PayMilestone(c)
          PROVE  \A r \in Requests : ContractsOf(r)' = ContractsOf(r)
      <4>1. PICK k \in Contracts : k = request[call[c].req].link
        <5>1. call[c].at = "pay" /\ call[c].req \in Requests /\ Knows(call[c])
          BY <3>3, CallFacts DEF PayMilestone
        <5> QED BY <1>t, <5>1 DEF Knows, RowType
      <4> QED BY <3>2, <3>3, <4>1 DEF PayMilestone
    <3>4. ASSUME NEW k \in Contracts, Elsewhere(k)
          PROVE  \A r \in Requests : ContractsOf(r)' = ContractsOf(r)
      <4>1. CASE Deal!Dispute(k) \/ Deal!Award(k) \/ Deal!Refund(k)
        <5>1. PICK v \in {"disputed", "completed", "refunded"} : status' = [status EXCEPT ![k] = v]
          BY <4>1 DEF Deal!Dispute, Deal!Award, Deal!Refund, Deal!Move
        <5>2. status[k] # "none"
          BY <4>1 DEF Deal!Dispute, Deal!Award, Deal!Refund, Deal!Move
        <5> QED BY <3>1, <5>1, <5>2
      <4>2. CASE Deal!Pay(k, Principal[k] - paid[k])
        BY <3>2, <4>2
      <4> QED BY <3>4, <4>1, <4>2 DEF Elsewhere
    <3> QED BY <1>12, <3>3, <3>4
  <2>2. request' = request /\ unlinked' = unlinked
    BY <1>12 DEF PayMilestone, Elsewhere, missing
  <2>3. \A d \in Calls : call[d].at = "link" => call'[d] = call[d]
    BY <1>t, <1>12 DEF PayMilestone, Elsewhere, Go
  <2> QED BY <1>1, <2>1, <2>2, <2>3
<1>13. CASE Restart
  <2>1. \A c \in Calls : call[c].at = "link" => call[c].req \in unlinked'
    BY <1>13 DEF Restart
  <2> QED BY <1>1, <1>13, <2>1 DEF Restart, ContractsOf, contracts
<1>14. ASSUME NEW c \in Calls, Lost(c) PROVE Linked'
  <2>1. \A d \in Calls : call[d].at = "link" => call'[d] = call[d]
    BY <1>t, <1>14 DEF Lost, End
  <2> QED BY <1>1, <1>14, <2>1 DEF Lost, ContractsOf, contracts, missing
<1> QED BY <1>2, <1>5, <1>6, <1>7, <1>8, <1>9, <1>10, <1>11, <1>12, <1>13, <1>14 DEF Next

\* A request is funded in at most one contract, which it names as soon as the handler
\* that made it has written so, although two fund calls and a cancellation race; it
\* is not so when that write fails or is never reached.
THEOREM FundedInOneContract == Spec => []RequestsInv
<1>1. ASSUME IInv, Linked PROVE RequestsInv
  <2>1. ASSUME NEW r \in Requests \ reopened PROVE Cardinality(ContractsOf(r)) <= 1
    <3>1. CASE ContractsOf(r) = {}
      BY <3>1, FS_EmptySet
    <3>2. CASE ContractsOf(r) # {}
      <4>1. PICK k : k \in ContractsOf(r)
        BY <3>2
      <4>2. ContractsOf(r) = {k}
        BY <1>1, <4>1 DEF IInv, OneContract
      <4> QED BY <4>2, FS_Singleton
    <3> QED BY <3>1, <3>2
  <2>2. ExpiredHoldsNothing
    BY <1>1 DEF IInv, RowSound, ExpiredHoldsNothing
  <2>3. NamesItsContract
    BY <1>1 DEF IInv, RowSound, Linked, NamesItsContract
  <2> QED BY <1>1, <2>1, <2>2, <2>3 DEF RequestsInv, FundedOnce, IInv
<1>2. Init => Linked
  BY DEF Init, Deal!Init, Linked, ContractsOf
<1>3. Spec => []Linked
  BY <1>2, Inductive, LinkedKept, PTL DEF Spec
<1> QED BY <1>1, <1>3, Inductive, PTL

\* What a request or a milestone reports as released was paid out of its
\* contract.
THEOREM ReleasedWasPaid == Spec => []ReleasesInv
<1>1. ASSUME IInv PROVE ReleasesInv
  <2>1. ReleasedIsPaid
    BY <1>1 DEF IInv, RowSound, Accounts, ReleasedIsPaid, ContractsOf
  <2>2. ReleasedMilestoneIsPaid
    BY <1>1 DEF IInv, RowSound, ReleasedMilestoneIsPaid
  <2> QED BY <2>1, <2>2 DEF ReleasesInv
<1> QED BY <1>1, Inductive, PTL

----------------------------------------------------------------------------
(* Applications for a business account.                                    *)

\* One submission of the application, and its verdict.
Submission == [details : 0 .. MaxEdits, verdict : Decisions \cup {"under_review"}]

\* Handlers by what they have read.
DeskWork ==
  [op : {"edit"}, read : Editable] \cup [op : {"apply"}, details : 0 .. MaxEdits]
  \cup [op : {"decide"}] \cup [op : {"session"}, session : Checks]
  \cup [op : {"event"}, session : Checks, status : KybStatuses]

\* What is under review is the last submission.
ReviewIsOfLast ==
  application = "under_review" =>
    submissions # <<>> /\ submissions[Len(submissions)].verdict = "under_review"

\* An event under way is of the session on record, or of one that was replaced.
EventsConcern ==
  \A d \in Desks : desk[d].op = "event" => desk[d].session \in {kyb.session} \cup crossed

ApplicationsIInv ==
  /\ ApplicationsTypeOK
  /\ desk \in [Desks -> {Vacant} \cup DeskWork]
  /\ ReviewIsOfLast /\ DecisionIsRecorded /\ OneUndecided
  /\ EventsConcern /\ KybIsOfSession

\* Submissions without a verdict are some of the submissions.
LEMMA UndecidedBound ==
  ASSUME ApplicationsTypeOK
  PROVE  /\ IsFiniteSet(Undecided) /\ Cardinality(Undecided) \in Nat
         /\ Cardinality(Undecided) <= Len(submissions)
         /\ DOMAIN submissions = 1 .. Len(submissions) /\ Len(submissions) \in Nat
<1> DEFINE n == Len(submissions)
<1>1. n \in Nat /\ DOMAIN submissions = 1 .. n
  BY LenProperties DEF ApplicationsTypeOK
<1>2. Undecided \in SUBSET (1 .. n)
  BY <1>1 DEF Undecided
<1> HIDE DEF n
<1>3. IsFiniteSet(1 .. n) /\ Cardinality(1 .. n) = n
  <2>1. n \in Int /\ 1 \in Int
    BY <1>1
  <2>2. IsFiniteSet(1 .. n) /\ Cardinality(1 .. n) = IF 1 > n THEN 0 ELSE n - 1 + 1
    BY <2>1, FS_Interval
  <2> QED BY <1>1, <2>2
<1>4. IsFiniteSet(Undecided) /\ Cardinality(Undecided) <= n
  BY <1>2, <1>3, FS_Subset
<1> QED BY <1>1, <1>4, FS_CardinalityType DEF n

\* A step that leaves the application, its submissions and their number alone.
LEMMA NoVerdict ==
  ASSUME ReviewIsOfLast, DecisionIsRecorded, OneUndecided,
         UNCHANGED <<application, submissions, takenBack>>
  PROVE  ReviewIsOfLast' /\ DecisionIsRecorded' /\ OneUndecided'
BY DEF ReviewIsOfLast, DecisionIsRecorded, OneUndecided, Undecided

\* A step that starts no event and changes nothing about the check.
LEMMA NoCheckup ==
  ASSUME EventsConcern, KybIsOfSession, UNCHANGED <<kyb, crossed>>,
         \A d \in Desks : desk'[d] = desk[d] \/ desk'[d].op # "event"
  PROVE  EventsConcern' /\ KybIsOfSession'
BY DEF EventsConcern, KybIsOfSession

\* saveDraft, read as rejected: a submission under review is taken out of it.
LEMMA DraftStep ==
  ASSUME ApplicationsIInv, NEW d \in Desks, SaveDraft(d)
  PROVE  ApplicationsIInv'
<1> USE DEF ApplicationsIInv
<1>1. desk' \in [Desks -> {Vacant} \cup DeskWork]
      /\ \A e \in Desks : desk'[e] = desk[e] \/ desk'[e].op # "event"
  BY DEF SaveDraft, Finishes, Vacant
<1>2. EventsConcern' /\ KybIsOfSession'
  BY <1>1, NoCheckup DEF SaveDraft
<1>3. Undecided' = Undecided /\ submissions' = submissions
  BY DEF SaveDraft, Undecided
<1>4. OneUndecided' /\ ReviewIsOfLast' /\ DecisionIsRecorded'
  <2>1. CASE desk[d].read = "rejected"
    BY <1>3, <2>1 DEF SaveDraft, OneUndecided, ReviewIsOfLast, DecisionIsRecorded,
         ApplicationsTypeOK
  <2>2. CASE desk[d].read # "rejected"
    BY <2>2, NoVerdict DEF SaveDraft
  <2> QED BY <2>1, <2>2
<1>5. takenBack' \in 0 .. MaxSubmissions
  <2>1. takenBack' <= Cardinality(Undecided)
    BY <1>3, <1>4, UndecidedBound DEF OneUndecided, SaveDraft, ApplicationsTypeOK
  <2>2. takenBack' \in Nat
    BY DEF SaveDraft, ApplicationsTypeOK
  <2>3. Cardinality(Undecided) \in Nat /\ Cardinality(Undecided) <= MaxSubmissions
    BY UndecidedBound, ApplicationsAssumption DEF ApplicationsTypeOK
  <2> QED BY <2>1, <2>2, <2>3, ApplicationsAssumption
<1>6. ApplicationsTypeOK'
  BY <1>3, <1>5, ApplicationsAssumption DEF SaveDraft, ApplicationsTypeOK, Editable, Finishes
<1> QED BY <1>1, <1>2, <1>4, <1>6

\* submit: the submission it makes is the one under review.
LEMMA ApplyStep ==
  ASSUME ApplicationsIInv, NEW d \in Desks, Apply(d)
  PROVE  ApplicationsIInv'
<1> USE DEF ApplicationsIInv
<1>1. desk' \in [Desks -> {Vacant} \cup DeskWork]
      /\ \A e \in Desks : desk'[e] = desk[e] \/ desk'[e].op # "event"
  BY DEF Apply, Finishes, Vacant
<1>2. EventsConcern' /\ KybIsOfSession'
  BY <1>1, NoCheckup DEF Apply
<1>3. CASE MayApply
  <2> DEFINE new == [details |-> desk[d].details, verdict |-> "under_review"]
             n == Len(submissions)
  <2>1. desk[d].details \in 0 .. MaxEdits
    BY DEF Apply, Finishes, Vacant, DeskWork
  <2>2. new \in Submission /\ submissions \in Seq(Submission) /\ n \in Nat
        /\ DOMAIN submissions = 1 .. n
    BY <2>1, UndecidedBound DEF Submission, ApplicationsTypeOK
  <2>3. submissions' = Append(submissions, new) /\ application' = "under_review"
        /\ takenBack' = takenBack
    BY <1>3 DEF Apply
  <2> HIDE DEF new, n
  <2>4. /\ submissions' \in Seq(Submission) /\ submissions' # <<>> /\ Len(submissions') = n + 1
        /\ \A i \in 1 .. n : submissions'[i] = submissions[i]
        /\ submissions'[n + 1] = new
    BY <2>2, <2>3, AppendProperties DEF n
  <2>5. DOMAIN submissions' = 1 .. n + 1
    BY <2>4, LenProperties
  <2>6. new.verdict = "under_review"
    BY DEF new
  <2>7. Undecided' = Undecided \cup {n + 1} /\ n + 1 \notin Undecided
    BY <2>2, <2>4, <2>5, <2>6 DEF Undecided
  <2>8. Cardinality(Undecided') = Cardinality(Undecided) + 1
    BY <2>7, UndecidedBound, FS_AddElement
  <2>9. OneUndecided' /\ ReviewIsOfLast' /\ DecisionIsRecorded'
    BY <1>3, <2>3, <2>4, <2>6, <2>8, UndecidedBound
    DEF OneUndecided, ReviewIsOfLast, DecisionIsRecorded, MayApply, Editable, ApplicationsTypeOK
  <2>10. ApplicationsTypeOK'
    <3>1. Len(submissions') <= MaxSubmissions
      BY <2>2, <2>4, ApplicationsAssumption DEF Apply, n
    <3>2. UNCHANGED <<details, takenBack, kyb, issued, told, crossed>>
      BY DEF Apply
    <3> QED BY <1>1, <2>3, <2>4, <3>1, <3>2 DEF ApplicationsTypeOK, Submission
  <2> QED BY <1>1, <1>2, <2>9, <2>10
<1>4. CASE ~MayApply
  BY <1>1, <1>2, <1>4, NoVerdict DEF Apply, ApplicationsTypeOK
<1> QED BY <1>3, <1>4

\* adminReview: the verdict goes to the last submission.
LEMMA DecisionStep ==
  ASSUME ApplicationsIInv, NEW d \in Desks, AdminReview(d)
  PROVE  ApplicationsIInv'
<1> USE DEF ApplicationsIInv
<1>1. desk' \in [Desks -> {Vacant} \cup DeskWork]
      /\ \A e \in Desks : desk'[e] = desk[e] \/ desk'[e].op # "event"
  BY DEF AdminReview, Finishes, Vacant
<1>2. EventsConcern' /\ KybIsOfSession'
  BY <1>1, NoCheckup DEF AdminReview
<1>3. CASE MayDecide
  <2> DEFINE n == Len(submissions)
  <2>1. PICK decision \in Decisions :
          /\ application' = decision
          /\ submissions' =
               [i \in DOMAIN submissions |->
                  IF i \in Undecided /\ \A j \in Undecided : j <= i
                  THEN [submissions[i] EXCEPT !.verdict = decision]
                  ELSE submissions[i]]
    BY <1>3 DEF AdminReview
  <2>2. /\ n \in Nat /\ DOMAIN submissions = 1 .. n /\ n \in 1 .. n
        /\ submissions \in [1 .. n -> Submission] /\ submissions[n].verdict = "under_review"
    <3>1. submissions \in Seq(Submission) /\ submissions # <<>>
          /\ submissions[n].verdict = "under_review"
      BY <1>3 DEF ApplicationsTypeOK, MayDecide, ReviewIsOfLast, Submission
    <3>2. n \in Nat /\ DOMAIN submissions = 1 .. n /\ submissions \in [1 .. n -> Submission]
      BY <3>1, LenProperties
    <3>3. n # 0
      BY <3>1, EmptySeq
    <3> QED BY <3>1, <3>2, <3>3
  <2>3. n \in Undecided /\ Undecided \subseteq 1 .. n
    BY <2>2 DEF Undecided
  <2> HIDE DEF n
  <2>4. \A i \in 1 .. n : (i \in Undecided /\ \A j \in Undecided : j <= i) <=> i = n
    BY <2>2, <2>3
  <2>5. /\ DOMAIN submissions' = 1 .. n
        /\ \A i \in 1 .. n : i # n => submissions'[i] = submissions[i]
        /\ submissions'[n] = [submissions[n] EXCEPT !.verdict = decision]
    BY <2>1, <2>2, <2>4
  <2>6. submissions'[n].verdict = decision /\ decision # "under_review"
        /\ submissions'[n] \in Submission
    BY <2>2, <2>5 DEF Submission, Decisions
  <2>7. submissions' \in [1 .. n -> Submission]
    BY <2>1, <2>2, <2>5, <2>6
  <2>8. submissions' \in Seq(Submission) /\ Len(submissions') = n
    BY <2>2, <2>7, SeqDef, LenProperties
  <2>9. Undecided' = Undecided \ {n}
    BY <2>2, <2>3, <2>5, <2>6 DEF Undecided
  <2>10. Cardinality(Undecided') = Cardinality(Undecided) - 1
    BY <2>3, <2>9, UndecidedBound, FS_RemoveElement
  <2>11. OneUndecided' /\ ReviewIsOfLast' /\ DecisionIsRecorded'
    <3>1. submissions' # <<>>
      BY <2>2, <2>8, EmptySeq
    <3> QED BY <1>3, <2>1, <2>6, <2>8, <2>10, <3>1, UndecidedBound
        DEF OneUndecided, ReviewIsOfLast, DecisionIsRecorded, MayDecide, AdminReview,
             ApplicationsTypeOK
  <2>12. ApplicationsTypeOK'
    BY <1>1, <2>1, <2>8 DEF AdminReview, ApplicationsTypeOK, Submission, n
  <2> QED BY <1>1, <1>2, <2>11, <2>12
<1>4. CASE ~MayDecide
  BY <1>1, <1>2, <1>4, NoVerdict DEF AdminReview, ApplicationsTypeOK
<1> QED BY <1>3, <1>4

\* Drafts, submissions, verdicts and Didit's events keep the last submission the
\* one under review.
LEMMA ApplicationsInductive ==
  ApplicationsIInv /\ [NextApplications]_applyVars => ApplicationsIInv'
<1> SUFFICES ASSUME ApplicationsIInv, [NextApplications]_applyVars
             PROVE  ApplicationsIInv'
  OBVIOUS
<1>1. CASE UpgradeFromMerchant
  BY <1>1, NoCheckup DEF UpgradeFromMerchant, ApplicationsIInv, ApplicationsTypeOK, Editable,
     ReviewIsOfLast, DecisionIsRecorded, OneUndecided, Undecided
<1>2. ASSUME NEW d \in Desks, BeginEdit(d) \/ BeginApply(d) \/ BeginDecision(d)
      PROVE  ApplicationsIInv'
  <2>1. /\ desk' \in [Desks -> {Vacant} \cup DeskWork]
        /\ \A e \in Desks : desk'[e] = desk[e] \/ desk'[e].op # "event"
    BY <1>2 DEF BeginEdit, BeginApply, BeginDecision, Takes, DeskWork, ApplicationsIInv,
         ApplicationsTypeOK
  <2> QED BY <1>2, <2>1, NoVerdict, NoCheckup
      DEF BeginEdit, BeginApply, BeginDecision, ApplicationsIInv, ApplicationsTypeOK
<1>3. ASSUME NEW d \in Desks, SaveDraft(d) \/ Apply(d) \/ AdminReview(d) PROVE ApplicationsIInv'
  BY <1>3, DraftStep, ApplyStep, DecisionStep
<1>4. ASSUME NEW d \in Desks, NEW s \in Checks, RequestSession(d, s) PROVE ApplicationsIInv'
  <2>1. /\ desk' \in [Desks -> {Vacant} \cup DeskWork]
        /\ \A e \in Desks : desk'[e] = desk[e] \/ desk'[e].op # "event"
    BY <1>4 DEF RequestSession, Takes, DeskWork, ApplicationsIInv
  <2> QED BY <1>4, <2>1, NoVerdict, NoCheckup DEF RequestSession, ApplicationsIInv,
      ApplicationsTypeOK
<1>5. ASSUME NEW d \in Desks, CreateKybSession(d) PROVE ApplicationsIInv'
  <2>1. desk[d].session \in Checks
    BY <1>5 DEF CreateKybSession, Finishes, DeskWork, Vacant, ApplicationsIInv
  <2>2. desk' \in [Desks -> {Vacant} \cup DeskWork]
    BY <1>5 DEF CreateKybSession, Finishes, ApplicationsIInv
  <2>3. EventsConcern'
    <3> SUFFICES ASSUME NEW e \in Desks, desk'[e].op = "event"
                 PROVE  desk'[e].session \in crossed'
      BY DEF EventsConcern
    <3>1. desk'[e] = desk[e] /\ desk[e] \in DeskWork
      BY <1>5 DEF CreateKybSession, Finishes, Vacant, ApplicationsIInv
    <3>2. desk[e].session \in Checks
      BY <3>1 DEF DeskWork
    <3> QED BY <1>5, <3>1, <3>2 DEF CreateKybSession
  <2>4. KybIsOfSession' /\ ApplicationsTypeOK'
    BY <1>5, <2>1, <2>2 DEF CreateKybSession, KybIsOfSession, ApplicationsIInv,
         ApplicationsTypeOK
  <2> QED BY <1>5, <2>2, <2>3, <2>4, NoVerdict DEF CreateKybSession, ApplicationsIInv
<1>6. ASSUME NEW d \in Desks, NEW s \in Checks, NEW st \in KybStatuses, BeginKybEvent(d, s, st)
      PROVE  ApplicationsIInv'
  <2>1. desk' \in [Desks -> {Vacant} \cup DeskWork]
    BY <1>6 DEF BeginKybEvent, Takes, DeskWork, ApplicationsIInv
  <2>2. EventsConcern' /\ KybIsOfSession'
    BY <1>6 DEF BeginKybEvent, Takes, Concerns, ApplicationsIInv, EventsConcern, KybIsOfSession
  <2>3. ApplicationsTypeOK'
    BY <1>6, <2>1 DEF BeginKybEvent, ApplicationsIInv, ApplicationsTypeOK
  <2> QED BY <1>6, <2>1, <2>2, <2>3, NoVerdict DEF BeginKybEvent, ApplicationsIInv
<1>7. ASSUME NEW d \in Desks, ProcessKybWebhook(d) PROVE ApplicationsIInv'
  <2>1. desk[d].session \in Checks /\ desk[d].status \in KybStatuses
    BY <1>7 DEF ProcessKybWebhook, Finishes, DeskWork, Vacant, ApplicationsIInv
  <2>2. desk' \in [Desks -> {Vacant} \cup DeskWork]
    BY <1>7 DEF ProcessKybWebhook, Finishes, ApplicationsIInv
  <2>3. kyb' = [session |-> kyb.session, of |-> desk[d].session, status |-> desk[d].status]
    BY <1>7 DEF ProcessKybWebhook, ApplicationsIInv, ApplicationsTypeOK
  <2>4. EventsConcern' /\ KybIsOfSession'
    BY <1>7, <2>3 DEF ProcessKybWebhook, Finishes, Vacant, ApplicationsIInv, EventsConcern,
         KybIsOfSession
  <2>5. ApplicationsTypeOK'
    BY <1>7, <2>1, <2>2, <2>3 DEF ProcessKybWebhook, ApplicationsIInv, ApplicationsTypeOK
  <2> QED BY <1>7, <2>2, <2>4, <2>5, NoVerdict DEF ProcessKybWebhook, ApplicationsIInv
<1>8. ASSUME NEW d \in Desks, Leave(d) PROVE ApplicationsIInv'
  <2>1. /\ desk' \in [Desks -> {Vacant} \cup DeskWork]
        /\ \A e \in Desks : desk'[e] = desk[e] \/ desk'[e].op # "event"
    BY <1>8 DEF Leave, Vacant, ApplicationsIInv
  <2> QED BY <1>8, <2>1, NoVerdict, NoCheckup DEF Leave, ApplicationsIInv, ApplicationsTypeOK
<1>9. CASE UNCHANGED applyVars
  BY <1>9, NoVerdict, NoCheckup DEF applyVars, ApplicationsIInv, ApplicationsTypeOK
<1> QED BY <1>1, <1>2, <1>3, <1>4, <1>5, <1>6, <1>7, <1>8, <1>9 DEF NextApplications

\* The verdict of an application is on its last submission, one submission waits
\* while it is under review, and the check's result is of the session on record,
\* but for sessions that crossed.
THEOREM OneVerdict == SpecApplications => []ApplicationsInv
<1>1. InitApplications => ApplicationsIInv
  <2> SUFFICES ASSUME InitApplications PROVE ApplicationsIInv
    OBVIOUS
  <2>1. submissions \in Seq(Submission) /\ Len(submissions) = 0 /\ Undecided = {}
    BY EmptySeq DEF InitApplications, Undecided
  <2>2. Cardinality(Undecided) = 0
    BY <2>1, FS_EmptySet
  <2> QED BY <2>1, <2>2, ApplicationsAssumption DEF InitApplications, ApplicationsIInv,
      ApplicationsTypeOK,
      ReviewIsOfLast, DecisionIsRecorded, OneUndecided, EventsConcern, KybIsOfSession, Submission,
      Vacant, DeskWork, Editable, Decisions
<1>2. ApplicationsIInv => ApplicationsInv
  BY DEF ApplicationsIInv, ApplicationsInv
<1> QED BY <1>1, <1>2, ApplicationsInductive, PTL DEF SpecApplications

----------------------------------------------------------------------------
(* Identity checks.                                                        *)

\* A document a user has sent in.
HasPaper(u) == \E p \in Papers : paper[p].status # "none" /\ paper[p].of = u

\* What a handler in each slot knows for good: whose document it writes, and why.
ClerkKnows(c) ==
  /\ clerk[c].at = "paper" =>
       /\ clerk[c].status # "verified"
       /\ clerk[c].job = "review" \/ clerk[c].paper # NoPaper =>
            /\ clerk[c].paper \in Papers
            /\ paper[clerk[c].paper].status # "none"
            /\ paper[clerk[c].paper].of = clerk[c].of
  /\ clerk[c].at = "user" =>
       /\ HasPaper(clerk[c].of)
       /\ clerk[c].status = "verified" => clerk[c].of \in passed

VerificationsIInv ==
  /\ VerificationsTypeOK
  /\ \A c \in Clerks : ClerkKnows(c)
  /\ VerifiedHasReason
  /\ ApprovalOutlastsNotices

\* A document once sent in stays that user's.
LEMMA PapersStay ==
  ASSUME VerificationsIInv, [NextVerifications]_verifyVars
  PROVE  /\ \A u \in Applicants : HasPaper(u) => HasPaper(u)'
         /\ \A p \in Papers : paper[p].status # "none" =>
              paper'[p].status # "none" /\ paper'[p].of = paper[p].of
<1> USE DEF VerificationsIInv, VerificationsTypeOK
<1> SUFFICES \A p \in Papers : paper[p].status # "none" =>
               paper'[p].status # "none" /\ paper'[p].of = paper[p].of
  BY DEF HasPaper
<1>1. ASSUME NEW c \in Clerks, SavePaper(c)
      PROVE  \A p \in Papers : paper[p].status # "none" =>
               paper'[p].status # "none" /\ paper'[p].of = paper[p].of
  BY <1>1 DEF SavePaper, ClerkKnows, Blank, AtEase
<1>2. ASSUME NEW c \in Clerks, JudgePaper(c)
      PROVE  \A p \in Papers : paper[p].status # "none" =>
               paper'[p].status # "none" /\ paper'[p].of = paper[p].of
  BY <1>2 DEF JudgePaper, ClerkKnows, Blank, AtEase, Verdicts
<1> QED BY <1>1, <1>2 DEF NextVerifications, verifyVars, CreateSession, ProcessWebhook,
    BeginSubmit, BeginReview, WriteStanding, GiveUp

\* Sessions, webhooks, documents and reviews keep what the handlers know.
LEMMA VerificationsInductive ==
  VerificationsIInv /\ [NextVerifications]_verifyVars => VerificationsIInv'
<1> SUFFICES ASSUME VerificationsIInv, [NextVerifications]_verifyVars
             PROVE  VerificationsIInv'
  OBVIOUS
<1>0. /\ \A u \in Applicants : HasPaper(u) => HasPaper(u)'
      /\ \A p \in Papers : paper[p].status # "none" =>
           paper'[p].status # "none" /\ paper'[p].of = paper[p].of
  BY PapersStay
<1>t. VerificationsTypeOK /\ VerifiedHasReason /\ ApprovalOutlastsNotices
      /\ \A c \in Clerks : ClerkKnows(c)
  BY DEF VerificationsIInv
<1>a. ApprovalOutlastsNotices <=>
        \A u \in Applicants : ApprovedByDidit(u) /\ ~HasPaper(u) => standing[u] = "verified"
  BY DEF ApprovalOutlastsNotices, HasPaper
<1>b. ApprovalOutlastsNotices' <=>
        \A u \in Applicants : ApprovedByDidit(u)' /\ ~HasPaper(u)' => standing'[u] = "verified"
  BY DEF ApprovalOutlastsNotices, HasPaper
\* A step that leaves the users, the notices and the reviewers' list alone.
<1>c. ASSUME UNCHANGED <<standing, noted>>, passed \subseteq passed'
      PROVE  VerifiedHasReason' /\ ApprovalOutlastsNotices'
  <2>1. \A u \in Applicants : ApprovedByDidit(u)' = ApprovedByDidit(u)
    BY <1>c DEF ApprovedByDidit
  <2> QED BY <1>0, <1>a, <1>b, <1>c, <1>t, <2>1 DEF VerifiedHasReason
\* A handler that is not at work in a step knows what it knew.
<1>d. ASSUME passed \subseteq passed', \A d \in Clerks : clerk'[d] = clerk[d] \/ ClerkKnows(d)'
      PROVE  \A d \in Clerks : ClerkKnows(d)'
  <2> SUFFICES ASSUME NEW d \in Clerks, clerk'[d] = clerk[d] PROVE ClerkKnows(d)'
    BY <1>d
  <2>1. clerk[d].at \in {"paper", "user"} => clerk[d].of \in Applicants
    BY <1>t DEF VerificationsTypeOK, AtEase
  <2> QED BY <1>0, <1>d, <1>t, <2>1 DEF ClerkKnows
<1>1. ASSUME NEW u \in Applicants, CreateSession(u) PROVE VerificationsIInv'
  <2>1. VerificationsTypeOK'
    BY <1>t, <1>1 DEF CreateSession, VerificationsTypeOK
  <2> QED BY <1>1, <1>c, <1>d, <2>1 DEF CreateSession, VerificationsIInv
<1>2. ASSUME NEW u \in Applicants, NEW n \in Notices, ProcessWebhook(n, u)
      PROVE  VerificationsIInv'
  <2>1. PICK found \in DiditStatuses :
          /\ noted' = [noted EXCEPT ![n] = [status |-> found, of |-> u]]
          /\ IF found \in DOMAIN KycStatusFor /\ Allows(u, found)
             THEN standing' = [standing EXCEPT ![u] = KycStatusFor[found]]
             ELSE UNCHANGED standing
    BY <1>2 DEF ProcessWebhook
  <2>2. \A v \in Applicants :
          ApprovedByDidit(v)' <=> ApprovedByDidit(v) \/ (v = u /\ found = "Approved")
    BY <1>2, <1>t, <2>1 DEF ApprovedByDidit, ProcessWebhook, Blank, VerificationsTypeOK
  <2>3. /\ found = "Approved" => standing'[u] = "verified"
        /\ standing[u] = "verified" => standing'[u] = "verified"
        /\ standing'[u] = "verified" => standing[u] = "verified" \/ found = "Approved"
        /\ standing' \in [Applicants -> KycStatuses]
        /\ \A v \in Applicants : v # u => standing'[v] = standing[v]
    BY <1>t, <2>1 DEF Allows, KycStatusFor, DiditStatuses, KycStatuses, Verdicts,
         VerificationsTypeOK
  <2>4. passed' = passed
    BY <1>2 DEF ProcessWebhook
  <2>5. VerifiedHasReason' /\ ApprovalOutlastsNotices'
    BY <1>0, <1>a, <1>b, <1>t, <2>2, <2>3, <2>4 DEF VerifiedHasReason
  <2>6. VerificationsTypeOK'
    BY <1>2, <1>t, <2>1, <2>3 DEF VerificationsTypeOK, ProcessWebhook
  <2> QED BY <1>2, <1>d, <2>5, <2>6 DEF ProcessWebhook, VerificationsIInv
<1>3. ASSUME NEW c \in Clerks, NEW u \in Applicants, BeginSubmit(c, u) PROVE VerificationsIInv'
  <2>1. PICK p \in Papers \cup {NoPaper} :
          /\ p = NoPaper \/ (p \in Papers /\ paper[p].status \in StillOpen /\ paper[p].of = u)
          /\ clerk' = [clerk EXCEPT ![c] = [at |-> "paper", job |-> "submit", of |-> u,
                                            paper |-> p, status |-> "pending"]]
          /\ UNCHANGED <<standing, asked, noted, paper, passed>>
    BY <1>3 DEF BeginSubmit
  <2>2. VerificationsTypeOK'
    BY <1>t, <2>1 DEF VerificationsTypeOK, KycStatuses
  <2>3. \A d \in Clerks : clerk'[d] = clerk[d] \/ ClerkKnows(d)'
    BY <1>t, <2>1 DEF ClerkKnows, VerificationsTypeOK, StillOpen
  <2> QED BY <1>c, <1>d, <2>1, <2>2, <2>3 DEF VerificationsIInv
<1>4. ASSUME NEW c \in Clerks, NEW p \in Papers, BeginReview(c, p) PROVE VerificationsIInv'
  <2>1. VerificationsTypeOK'
    BY <1>4, <1>t DEF BeginReview, VerificationsTypeOK, KycStatuses, Blank
  <2>2. \A d \in Clerks : clerk'[d] = clerk[d] \/ ClerkKnows(d)'
    BY <1>4, <1>t DEF BeginReview, ClerkKnows, VerificationsTypeOK
  <2> QED BY <1>4, <1>c, <1>d, <2>1, <2>2 DEF BeginReview, VerificationsIInv
<1>5. ASSUME NEW c \in Clerks, SavePaper(c) PROVE VerificationsIInv'
  <2>1. PICK p \in Papers : paper' = [paper EXCEPT ![p] = [status |-> "pending", of |-> clerk[c].of]]
    BY <1>5, <1>t DEF SavePaper, ClerkKnows
  <2>2. VerificationsTypeOK'
    <3>1. clerk[c] \in [at : {"paper", "user"}, job : {"submit", "review"}, of : Applicants,
                        paper : Papers \cup {NoPaper}, status : KycStatuses]
      BY <1>5, <1>t DEF SavePaper, VerificationsTypeOK, AtEase
    <3>2. paper' \in [Papers -> {Blank} \cup [status : KycStatuses \ {"none"}, of : Applicants]]
      BY <1>t, <2>1, <3>1 DEF VerificationsTypeOK, KycStatuses
    <3>3. clerk' \in [Clerks -> {AtEase} \cup
                  [at : {"paper", "user"}, job : {"submit", "review"}, of : Applicants,
                   paper : Papers \cup {NoPaper}, status : KycStatuses]]
      BY <1>5, <1>t, <3>1 DEF SavePaper, VerificationsTypeOK
    <3> QED BY <1>5, <1>t, <3>2, <3>3 DEF SavePaper, VerificationsTypeOK
  <2>3. HasPaper(clerk[c].of)'
    BY <1>5, <1>t, <2>1 DEF HasPaper, VerificationsTypeOK, SavePaper
  <2>4. \A d \in Clerks : clerk'[d] = clerk[d] \/ ClerkKnows(d)'
    BY <1>5, <1>t, <2>3 DEF SavePaper, ClerkKnows, VerificationsTypeOK, AtEase
  <2> QED BY <1>5, <1>c, <1>d, <2>2, <2>4 DEF SavePaper, VerificationsIInv
<1>6. ASSUME NEW c \in Clerks, JudgePaper(c) PROVE VerificationsIInv'
  <2>1. PICK verdict \in Verdicts :
          /\ paper' = [paper EXCEPT ![clerk[c].paper].status = verdict]
          /\ passed' = passed \cup (IF verdict = "verified" THEN {clerk[c].of} ELSE {})
          /\ clerk' = [clerk EXCEPT ![c].at = "user", ![c].paper = NoPaper, ![c].status = verdict]
          /\ UNCHANGED <<standing, asked, noted>>
    BY <1>6 DEF JudgePaper
  <2>2. /\ clerk[c].at = "paper" /\ clerk[c].job = "review" /\ clerk[c].of \in Applicants
        /\ clerk[c].paper \in Papers /\ paper[clerk[c].paper].status # "none"
        /\ paper[clerk[c].paper].of = clerk[c].of
    BY <1>6, <1>t DEF JudgePaper, ClerkKnows, VerificationsTypeOK, AtEase
  <2>3. VerificationsTypeOK'
    <3>1. paper' \in [Papers -> {Blank} \cup [status : KycStatuses \ {"none"}, of : Applicants]]
      BY <1>t, <2>1, <2>2 DEF VerificationsTypeOK, Blank, KycStatuses, Verdicts
    <3>2. clerk' \in [Clerks -> {AtEase} \cup
                  [at : {"paper", "user"}, job : {"submit", "review"}, of : Applicants,
                   paper : Papers \cup {NoPaper}, status : KycStatuses]]
      <4>1. clerk[c] \in [at : {"paper", "user"}, job : {"submit", "review"}, of : Applicants,
                          paper : Papers \cup {NoPaper}, status : KycStatuses]
        BY <1>t, <2>2 DEF VerificationsTypeOK, AtEase
      <4> QED BY <1>t, <2>1, <4>1 DEF VerificationsTypeOK, KycStatuses
    <3> QED BY <1>t, <2>1, <2>2, <3>1, <3>2 DEF VerificationsTypeOK
  <2>4. HasPaper(clerk[c].of)'
    <3>1. clerk'[c].of = clerk[c].of
      BY <1>t, <2>1 DEF VerificationsTypeOK
    <3> QED BY <1>0, <2>2, <3>1 DEF HasPaper
  <2>5. \A d \in Clerks : clerk'[d] = clerk[d] \/ ClerkKnows(d)'
    BY <1>t, <2>1, <2>2, <2>4 DEF ClerkKnows, VerificationsTypeOK, AtEase
  <2> QED BY <1>c, <1>d, <2>1, <2>3, <2>5 DEF VerificationsIInv
<1>7. ASSUME NEW c \in Clerks, WriteStanding(c) PROVE VerificationsIInv'
  <2> DEFINE u == clerk[c].of
  <2>1. u \in Applicants /\ clerk[c].status \in KycStatuses /\ HasPaper(u)
    BY <1>7, <1>t DEF WriteStanding, ClerkKnows, VerificationsTypeOK, AtEase
  <2>2. VerificationsTypeOK'
    BY <1>7, <1>t, <2>1 DEF WriteStanding, VerificationsTypeOK
  <2>3. \A d \in Clerks : clerk'[d] = clerk[d] \/ ClerkKnows(d)'
    BY <1>7, <1>t DEF WriteStanding, ClerkKnows, VerificationsTypeOK, AtEase
  <2>4. \A v \in Applicants : ApprovedByDidit(v)' = ApprovedByDidit(v)
    BY <1>7 DEF WriteStanding, ApprovedByDidit
  <2>5. ApprovalOutlastsNotices'
    BY <1>0, <1>7, <1>a, <1>b, <1>t, <2>1, <2>4 DEF WriteStanding, VerificationsTypeOK
  <2>6. VerifiedHasReason'
    BY <1>7, <1>t, <2>1, <2>4 DEF WriteStanding, VerifiedHasReason, VerificationsTypeOK,
         ClerkKnows
  <2> QED BY <1>7, <1>d, <2>2, <2>3, <2>5, <2>6 DEF WriteStanding, VerificationsIInv
<1>8. ASSUME NEW c \in Clerks, GiveUp(c) PROVE VerificationsIInv'
  <2>1. VerificationsTypeOK' /\ \A d \in Clerks : clerk'[d] = clerk[d] \/ ClerkKnows(d)'
    BY <1>8, <1>t DEF GiveUp, VerificationsTypeOK, ClerkKnows, AtEase
  <2> QED BY <1>8, <1>c, <1>d, <2>1 DEF GiveUp, VerificationsIInv
<1>9. CASE UNCHANGED verifyVars
  <2>1. VerificationsTypeOK'
    BY <1>9, <1>t DEF verifyVars, VerificationsTypeOK
  <2> QED BY <1>9, <1>c, <1>d, <2>1 DEF verifyVars, VerificationsIInv
<1> QED BY <1>1, <1>2, <1>3, <1>4, <1>5, <1>6, <1>7, <1>8, <1>9 DEF NextVerifications

\* Nobody is verified whom neither Didit approved nor a reviewer passed, and
\* Didit's approval outlasts its later notices.
THEOREM VerifiedForAReason == SpecVerifications => []VerificationsInv
<1>1. InitVerifications => VerificationsIInv
  BY DEF InitVerifications, VerificationsIInv, VerificationsTypeOK, ClerkKnows,
       VerifiedHasReason,
     ApprovalOutlastsNotices, ApprovedByDidit, KycStatuses, AtEase, Blank
<1>2. VerificationsIInv => VerificationsInv
  BY DEF VerificationsIInv, VerificationsInv
<1> QED BY <1>1, <1>2, VerificationsInductive, PTL DEF SpecVerifications

=============================================================================
