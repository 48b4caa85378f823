------------------------------ MODULE Projects -------------------------------
(***************************************************************************)
(* A project of a business: its plan of milestones and its review, the     *)
(* round in which investors put money in, and what becomes of the money.   *)
(* Part of it is set aside in the platform's wallet as a reserve; the rest *)
(* is in no wallet until it is released to the business, milestone by      *)
(* milestone, or given back to the investors when the project is           *)
(* cancelled.  Any user whose identity is verified may invest.             *)
(***************************************************************************)
EXTENDS Shared, Sequences

CONSTANTS
  Stakes, Backer, Put,   \* investments, who makes them, and their amounts
  BusinessOwner,
  Target, MaxPerBacker,
  INVESTMENT_FEE,        \* added to each investment
  RESERVE_PERCENT,       \* the rule project_listing
  Plans                  \* amounts of milestones

ASSUME ProjectsAssumption ==
  /\ IsFiniteSet(Stakes) /\ Backer \in [Stakes -> Users] /\ BusinessOwner \in Users
  /\ Put \in [Stakes -> Nat \ {0}]
  /\ Target \in Nat \ {0} /\ MaxPerBacker \in Nat
  /\ INVESTMENT_FEE \in Nat /\ RESERVE_PERCENT \in 0 .. 100
  /\ Plans \subseteq Seq(Nat \ {0}) /\ <<>> \notin Plans

VARIABLES
  project,   \* the investment_projects row
  stones,    \* the project_milestones rows, in order
  stake,     \* status of the user_investments rows
  got,       \* given back for an investment: what was held, and of the reserve,
             \* and whether of the reserve more than once
  hasty,     \* a milestone was released after the project was cancelled
  cut,       \* a refund of all investors was not finished
  projCall

projVars == <<project, stones, stake, got, hasty, cut, projCall>>

EDITABLE == {"draft", "more_info_required"}
RELEASABLE == {"funded", "closed"}

\* ADMIN_TRANSITIONS; 'open' projects are older than this code.
Transitions ==
  [start_review |-> [from |-> {"submitted"}, to |-> "submitted"],
   request_info |-> [from |-> {"submitted"}, to |-> "more_info_required"],
   approve |-> [from |-> {"submitted"}, to |-> "approved"],
   reject |-> [from |-> {"submitted", "more_info_required", "approved"}, to |-> "rejected"],
   list |-> [from |-> {"approved"}, to |-> "listed"],
   unlist |-> [from |-> {"listed"}, to |-> "approved"],
   close |-> [from |-> {"listed", "funded"}, to |-> "closed"],
   cancel |-> [from |-> {"approved", "listed", "funded"}, to |-> "cancelled"]]

ProjectsTypeOK ==
  /\ project \in [status : EDITABLE \cup RELEASABLE \cup
                           {"submitted", "approved", "rejected", "listed", "cancelled"},
                  raised : Nat, released : Nat,
                  settled : BOOLEAN, fee : Nat, refunded : Nat, revenue : Nat]
  /\ stones \in Seq([amount : Nat, status : {"planned", "requested", "returned", "released"}])
  /\ stake \in [Stakes -> {"none", "committed", "active", "refunded", "partially_refunded"}]
  /\ got \in [Stakes -> [held : Nat, reserve : Nat, again : BOOLEAN]]
  /\ hasty \in BOOLEAN /\ cut \in BOOLEAN /\ DOMAIN projCall = Calls

InitProjects ==
  /\ project = [status |-> "draft", raised |-> 0, released |-> 0,
                settled |-> FALSE, fee |-> 0, refunded |-> 0, revenue |-> 0]
  /\ stones = <<>>
  /\ stake = [i \in Stakes |-> "none"]
  /\ got = [i \in Stakes |-> [held |-> 0, reserve |-> 0, again |-> FALSE]]
  /\ hasty = FALSE /\ cut = FALSE
  /\ projCall = Idles

ProjBegin(c, call) == projCall[c] = Idle /\ projCall' = [projCall EXCEPT ![c] = call]

ProjGoes(c, from, call) ==
  projCall[c].op = from /\ projCall' = [projCall EXCEPT ![c] = call]

ProjEnds(c, op) == ProjGoes(c, op, Idle)

AtLeast0(n) == IF n > 0 THEN n ELSE 0
Smaller(m, n) == IF m < n THEN m ELSE n

\* Faulty: what was released is not taken off.
HeldBeforeReleases(p) == AtLeast0(p.raised - p.fee)

\* heldFunds
Held(p) == AtLeast0(p.raised - p.fee - p.released)

\* reserveLeft
ReserveLeft(p) == AtLeast0(p.fee - p.refunded - p.revenue)

\* chargeConsolidationInTx, "taken ONCE when the funding round closes".
Settle(p) ==
  IF p.settled THEN p
  ELSE [p EXCEPT !.settled = TRUE, !.fee = (p.raised * RESERVE_PERCENT) \div 100]

\* What it credits to the platform.
Charged(p) == IF p.settled THEN 0 ELSE Settle(p).fee

----------------------------------------------------------------------------
(* The business.                                                           *)

AddsUp(s) == SumOver([m \in DOMAIN s |-> s[m].amount], DOMAIN s) = Target

\* setMilestones: the status is read, then the rows are replaced, although the
\* project has been submitted; that it was not approved either is a bound.
BeginPlan(c, plan) ==
  /\ project.status \in EDITABLE
  /\ ProjBegin(c, [op |-> "plan", plan |-> plan])
  /\ UNCHANGED <<project, stones, stake, got, hasty, cut, wallet>>

CommitPlan(c) ==
  LET plan == projCall[c].plan
  IN  /\ ProjEnds(c, "plan") /\ project.status \in EDITABLE \cup {"submitted"}
      /\ stones' = [m \in DOMAIN plan |-> [amount |-> plan[m], status |-> "planned"]]
      /\ UNCHANGED <<project, stake, got, hasty, cut, wallet>>

BeginSubmit(c) ==
  /\ project.status \in EDITABLE /\ stones # <<>> /\ AddsUp(stones)
  /\ ProjBegin(c, [op |-> "submit"])
  /\ UNCHANGED <<project, stones, stake, got, hasty, cut, wallet>>

CommitSubmit(c) ==
  /\ ProjEnds(c, "submit")
  /\ project' = IF project.status \in EDITABLE
                THEN [project EXCEPT !.status = "submitted"] ELSE project
  /\ UNCHANGED <<stones, stake, got, hasty, cut, wallet>>

AllReleasedBefore(m) == \A k \in 1 .. m - 1 : stones[k].status = "released"

RequestMilestone(m) ==
  /\ project.status \in RELEASABLE /\ AllReleasedBefore(m)
  /\ stones[m].status \in {"planned", "returned"}
  /\ stones' = [stones EXCEPT ![m].status = "requested"]
  /\ UNCHANGED <<project, stake, got, hasty, cut, projCall, wallet>>

----------------------------------------------------------------------------
(* The investors.                                                          *)

Holding(i) == stake[i] \in {"committed", "active"}

Already(u) ==
  LET theirs == {i \in Stakes : Backer[i] = u /\ Holding(i)}
  IN  SumOver(Put, theirs)

BeginInvest(c, i) ==
  /\ stake[i] = "none" /\ project.status = "listed"
  /\ Already(Backer[i]) + Put[i] <= MaxPerBacker
  /\ ProjBegin(c, [op |-> "invest", id |-> i])
  /\ UNCHANGED <<project, stones, stake, got, hasty, cut, wallet>>

\* Faulty: the status that was read, before the PIN was checked, stands.
RoomAsRead(i) == project.raised + Put[i] <= Target

\* "Atomic capacity claim: never oversubscribe, only while still investable."
Room(i) == project.status = "listed" /\ project.raised + Put[i] <= Target

Invests(i) ==
  stake[i] = "none" /\ Room(i) /\ CanSpend(Backer[i], Put[i] + INVESTMENT_FEE)

\* The one that reaches the target closes the round.
CommitInvest(c) ==
  LET i == projCall[c].id
      more == [project EXCEPT !.raised = @ + Put[i]]
      full == more.raised >= Target
      paid == Credit(Debit(wallet, Backer[i], Put[i] + INVESTMENT_FEE), Platform, INVESTMENT_FEE)
  IN  /\ ProjEnds(c, "invest") /\ Invests(i)
      /\ stake' = [stake EXCEPT ![i] = "committed"]
      /\ project' = IF full THEN Settle([more EXCEPT !.status = "funded"]) ELSE more
      /\ wallet' = IF full THEN Credit(paid, Platform, Charged(more)) ELSE paid
      /\ UNCHANGED <<stones, got, hasty, cut>>

InvestRefused(c) ==
  /\ ProjEnds(c, "invest") /\ ~Invests(projCall[c].id)
  /\ UNCHANGED <<project, stones, stake, got, hasty, cut, wallet>>

----------------------------------------------------------------------------
(* The administrators.                                                     *)

BeginTransition(c, action) ==
  /\ project.status \in Transitions[action].from
  /\ ProjBegin(c, [op |-> "review", action |-> action, was |-> project.status])
  /\ UNCHANGED <<project, stones, stake, got, hasty, cut, wallet>>

\* updateMany where { status: p.status }
CommitTransition(c) ==
  LET call == projCall[c]
  IN  /\ ProjGoes(c, "review",
             CASE call.action = "close" -> [op |-> "closing"]
               [] call.action = "cancel" -> [op |-> "cancelling"]
               [] OTHER -> Idle)
      /\ project.status = call.was
      /\ project' = [project EXCEPT !.status = Transitions[call.action].to]
      /\ UNCHANGED <<stones, stake, got, hasty, cut, wallet>>

TransitionLost(c) ==
  /\ ProjEnds(c, "review") /\ project.status # projCall[c].was
  /\ UNCHANGED <<project, stones, stake, got, hasty, cut, wallet>>

ChargeNow ==
  /\ project' = Settle(project)
  /\ wallet' = Credit(wallet, Platform, Charged(project))

CloseRound(c) ==
  /\ ProjEnds(c, "closing") /\ ChargeNow
  /\ UNCHANGED <<stones, stake, got, hasty, cut>>

\* refundAll: shares and rows are read once, and each investor is paid in a
\* transaction of his own.
BeginRefundAll(c) ==
  /\ ProjGoes(c, "cancelling",
       [op |-> "refunding", raised |-> project.raised, held |-> Held(project),
        reserve |-> ReserveLeft(project),
        todo |-> {<<i, stake[i]>> : i \in {j \in Stakes : Holding(j)}}])
  /\ UNCHANGED <<project, stones, stake, got, hasty, cut, wallet>>

Given(g, held, reserve) ==
  [held |-> g.held + held, reserve |-> g.reserve + reserve,
   again |-> g.again \/ (g.reserve > 0 /\ reserve > 0)]

\* Credits what was held, and pays the other part out of the reserve.
GiveBack(i, held, reserve) ==
  /\ got' = [got EXCEPT ![i] = Given(@, held, reserve)]
  /\ wallet' = Debit(Credit(wallet, Backer[i], held + reserve), Platform, reserve)
  /\ project' = [project EXCEPT !.refunded = @ + reserve]

CanPayFromReserve(p, amount) == p.refunded + p.revenue + amount <= p.fee

RefundStake(c) ==
  LET call == projCall[c]
  IN  /\ call.op = "refunding"
      /\ \E row \in call.todo :
           LET i == row[1]
               held == IF call.raised > 0
                       THEN (Put[i] * Smaller(call.held, call.raised)) \div call.raised ELSE Put[i]
               reserve == IF call.raised > 0 THEN (Put[i] * call.reserve) \div call.raised ELSE 0
           IN  /\ projCall' = [projCall EXCEPT ![c].todo = @ \ {row}]
               /\ IF stake[i] # row[2]
                  THEN UNCHANGED <<project, stake, got, wallet>>
                  ELSE /\ CanPayFromReserve(project, reserve)
                       /\ stake' = [stake EXCEPT ![i] =
                            IF call.held + call.reserve >= call.raised
                            THEN "refunded" ELSE "partially_refunded"]
                       /\ GiveBack(i, held, reserve)
      /\ UNCHANGED <<stones, hasty, cut>>

\* "Consolidation reserve exhausted" or "Investor wallet missing", which this model
\* leaves open: nobody further is refunded.
RefundAborts(c) ==
  /\ ProjEnds(c, "refunding") /\ cut' = TRUE
  /\ \E row \in projCall[c].todo : stake[row[1]] = row[2]
  /\ UNCHANGED <<project, stones, stake, got, hasty, wallet>>

RefundAllEnds(c) ==
  /\ ProjEnds(c, "refunding") /\ projCall[c].todo = {}
  /\ UNCHANGED <<project, stones, stake, got, hasty, cut, wallet>>

\* refundReserveForLoss: "One time per project, all-or-nothing."
BeginLoss(c) ==
  /\ project.settled /\ project.revenue = 0 /\ project.refunded = 0
  /\ ReserveLeft(project) > 0 /\ project.raised > 0
  /\ ProjBegin(c, [op |-> "loss", part |->
       [i \in {j \in Stakes : stake[j] \in {"committed", "active", "partially_refunded"}} |->
          (Put[i] * ReserveLeft(project)) \div project.raised]])
  /\ UNCHANGED <<project, stones, stake, got, hasty, cut, wallet>>

CommitLoss(c) ==
  LET part == projCall[c].part
      total == SumOver(part, DOMAIN part)
      back(u) == SumOver(part, {i \in DOMAIN part : Backer[i] = u})
  IN  /\ ProjEnds(c, "loss")
      /\ IF CanPayFromReserve(project, total)
         THEN /\ project' = [project EXCEPT !.refunded = @ + total]
              /\ got' = [i \in Stakes |-> IF i \in DOMAIN part
                           THEN Given(got[i], 0, part[i]) ELSE got[i]]
              /\ wallet' = Debit([u \in Users |->
                              [wallet[u] EXCEPT !.balance = @ + back(u)]], Platform, total)
         ELSE UNCHANGED <<project, got, wallet>>
      /\ UNCHANGED <<stones, stake, hasty, cut>>

\* releaseReserveToFarm: the money stays in the platform's wallet.
BeginRevenue(c) ==
  /\ project.settled /\ project.status \in RELEASABLE /\ Held(project) = 0
  /\ project.refunded = 0 /\ ReserveLeft(project) > 0
  /\ ProjBegin(c, [op |-> "revenue", amount |-> ReserveLeft(project)])
  /\ UNCHANGED <<project, stones, stake, got, hasty, cut, wallet>>

CommitRevenue(c) ==
  LET amount == projCall[c].amount
  IN  /\ ProjEnds(c, "revenue")
      /\ project' = IF CanPayFromReserve(project, amount)
                    THEN [project EXCEPT !.revenue = @ + amount] ELSE project
      /\ UNCHANGED <<stones, stake, got, hasty, cut, wallet>>

ReturnMilestone(m) ==
  /\ stones[m].status = "requested"
  /\ stones' = [stones EXCEPT ![m].status = "returned"]
  /\ UNCHANGED <<project, stake, got, hasty, cut, projCall, wallet>>

\* releaseMilestone: the project is read; the fee is taken first if it was not.
BeginRelease(c, m) ==
  /\ project.status \in RELEASABLE
  /\ stones[m].status = "requested" /\ AllReleasedBefore(m)
  /\ ProjBegin(c, [op |-> "release", id |-> m, last |-> m = Len(stones),
                   amount |-> stones[m].amount,
                   raised |-> project.raised, released |-> project.released])
  /\ project' = Settle(project)
  /\ wallet' = Credit(wallet, Platform, Charged(project))
  /\ UNCHANGED <<stones, stake, got, hasty, cut>>

\* "last milestone sweeps any rounding remainder"
Payout(call) ==
  LET held == Held([project EXCEPT !.raised = call.raised, !.released = call.released])
  IN  IF call.last THEN held
      ELSE Smaller((call.amount * (call.raised - project.fee)) \div Target, held)

WithinHeld(amount) == project.released + amount <= project.raised - project.fee

CommitRelease(c) ==
  LET call == projCall[c]
      amount == Payout(call)
  IN  /\ ProjEnds(c, "release")
      /\ IF amount > 0 /\ stones[call.id].status = "requested" /\ WithinHeld(amount)
         THEN /\ stones' = [stones EXCEPT ![call.id].status = "released"]
              /\ project' = [project EXCEPT !.released = @ + amount]
              /\ wallet' = Credit(wallet, BusinessOwner, amount)
              /\ stake' = [i \in Stakes |-> IF stake[i] = "committed" THEN "active" ELSE stake[i]]
              /\ hasty' = (hasty \/ project.status = "cancelled")
         ELSE UNCHANGED <<project, stones, stake, hasty, wallet>>
      /\ UNCHANGED <<got, cut>>

ProjectsRestart ==
  /\ projCall # Idles /\ projCall' = Idles
  /\ cut' = (cut \/ \E c \in Calls : projCall[c].op \in {"cancelling", "refunding"})
  /\ UNCHANGED <<project, stones, stake, got, hasty, wallet>>

NextProjects ==
  \/ \E c \in Calls :
       \/ \E plan \in Plans : BeginPlan(c, plan)
       \/ \E i \in Stakes : BeginInvest(c, i)
       \/ \E action \in DOMAIN Transitions : BeginTransition(c, action)
       \/ \E m \in DOMAIN stones : BeginRelease(c, m)
       \/ BeginSubmit(c) \/ BeginLoss(c) \/ BeginRevenue(c)
       \/ CommitPlan(c) \/ CommitSubmit(c) \/ CommitInvest(c) \/ InvestRefused(c)
       \/ CommitTransition(c) \/ TransitionLost(c) \/ CloseRound(c)
       \/ BeginRefundAll(c) \/ RefundStake(c) \/ RefundAborts(c) \/ RefundAllEnds(c)
       \/ CommitLoss(c) \/ CommitRevenue(c) \/ CommitRelease(c)
  \/ \E m \in DOMAIN stones : RequestMilestone(m) \/ ReturnMilestone(m)
  \/ ProjectsRestart

----------------------------------------------------------------------------
(* Properties.                                                             *)

\* What is neither in a wallet nor given away.
Custody ==
  project.raised - project.fee - project.released
    - SumOver([i \in Stakes |-> got[i].held], Stakes)

\* A project raises what was invested in it, never more than its target, however
\* many invest at once; what is not in its custody is in the wallets.
RaisedIsInvested ==
  /\ project.raised <= Target
  /\ project.raised = SumOver(Put, {i \in Stakes : stake[i] # "none"})
  /\ Holds(-Custody)

\* Investors and business are together paid what the project holds and no more,
\* unless a milestone is released while the project is being cancelled.
HeldCoversPayments == hasty \/ Custody >= 0

\* The release of a milestone is "never above what is still held".
NeverAboveHeld == Custody >= 0

\* Nobody is given back more than he invested, by a cancellation or a loss, unless he
\* was given of the reserve twice: what rounding left of it is divided once more.
RefundWithinStake ==
  \A i \in Stakes : got[i].again \/ got[i].held + got[i].reserve <= Put[i]

\* The reserve is refunded "one time per project": a loss and a cancellation
\* together give nobody more than he invested.
NobodyGains ==
  \A i \in Stakes : got[i].held + got[i].reserve <= Put[i]

\* The reserve is given back to investors or kept, never both in full, and what
\* counts as given back is what they were given.
ReserveSpentOnce ==
  /\ project.refunded + project.revenue <= project.fee
  /\ project.refunded = SumOver([i \in Stakes |-> got[i].reserve], Stakes)

\* "Cancelled project: each investor gets back their pro-rata share", unless the
\* refund was interrupted.
EachInvestorRefunded ==
  \/ project.status # "cancelled" \/ cut
  \/ \E c \in Calls : projCall[c].op \in {"cancelling", "refunding"}
  \/ \A i \in Stakes : ~Holding(i)

\* No investment is left behind in a cancelled project, not even one that was
\* being made, if no milestone is released at the same time.
CancelledIsRefunded == hasty \/ EachInvestorRefunded

\* A milestone is released after those before it, although it is written from a
\* plan that was read earlier.
StonesInOrder ==
  \A m \in DOMAIN stones : stones[m].status = "released" => AllReleasedBefore(m)

\* When every milestone is released, everything the round raised is.
ReleasedInFull ==
  stones # <<>> /\ (\A m \in DOMAIN stones : stones[m].status = "released")
    => hasty \/ Held(project) = 0

\* A funding round with its reserve: investments, releases, revenue, losses and
\* refunds interleave, and the project never pays out more than it holds, spends its
\* reserve twice, releases milestones out of order or keeps back what is released.
ProjectsInv ==
  /\ ProjectsTypeOK
  /\ RaisedIsInvested /\ HeldCoversPayments /\ RefundWithinStake
  /\ ReserveSpentOnce /\ StonesInOrder /\ ReleasedInFull

=============================================================================
