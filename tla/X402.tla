-------------------------------- MODULE X402 --------------------------------
(***************************************************************************)
(* x402 payments: a client sends a signed transfer with its request, FARM  *)
(* verifies it, calls the business's service, and settles the transfer on  *)
(* chain if the service answered.  A facilitator's client settles without  *)
(* the service.  The row of a transfer is the claim on it.                 *)
(***************************************************************************)
EXTENDS Integers, FiniteSets

CONSTANTS
  Signed,       \* signed transfers, each with its transaction id
  Facilitated,  \* those that are settled through the facilitator
  Handlers      \* requests in flight

ASSUME X402Assumption == Facilitated \subseteq Signed

VARIABLES
  settling,   \* status of the x402_payments row
  ledger,     \* the transfer on chain
  served,     \* the service ran and answered
  delivered,  \* answers given to clients for the transfer
  x402Call

x402Vars == <<settling, ledger, served, delivered, x402Call>>

Waiting == [op |-> "idle"]

X402TypeOK ==
  /\ settling \in [Signed -> {"none", "settling", "settled", "pending", "failed"}]
  /\ ledger \in [Signed -> {"absent", "broadcast", "confirmed"}]
  /\ served \subseteq Signed
  /\ delivered \in [Signed -> Nat]
  /\ x402Call \in [Handlers -> {Waiting} \cup
                     [op : {"verified", "answered", "claimed", "sent"}, id : Signed]]

InitX402 ==
  /\ settling = [t \in Signed |-> "none"]
  /\ ledger = [t \in Signed |-> "absent"]
  /\ served = {} /\ delivered = [t \in Signed |-> 0]
  /\ x402Call = [c \in Handlers |-> Waiting]

Advance(c, from, to) ==
  /\ x402Call[c].op = from
  /\ x402Call' = [x402Call EXCEPT ![c].op = to]

Answer(c, from) ==
  /\ x402Call[c].op = from
  /\ x402Call' = [x402Call EXCEPT ![c] = Waiting]

\* verify: the requirements, the group and the row are looked at, and the node
\* simulates the transfer, which fails when it is on chain.
Verify(c, t) ==
  /\ x402Call[c] = Waiting
  /\ settling[t] \in {"none", "failed"} /\ ledger[t] # "confirmed"
  /\ x402Call' = [x402Call EXCEPT ![c] = [op |-> "verified", id |-> t]]
  /\ UNCHANGED <<settling, ledger, served, delivered>>

ServiceAnswers(c) ==
  LET t == x402Call[c].id
  IN  /\ Advance(c, "verified", "answered")
      /\ served' = IF t \in Facilitated THEN served ELSE served \cup {t}
      /\ UNCHANGED <<settling, ledger, delivered>>

\* "You were not charged."
ServiceFails(c) ==
  /\ Answer(c, "verified") /\ x402Call[c].id \notin Facilitated
  /\ UNCHANGED <<settling, ledger, served, delivered>>

\* Faulty: a row that another request settles is taken over.
OpenUnlessSettled(t) == settling[t] # "settled"

\* create, or updateMany where { status: 'failed' }
Open(t) == settling[t] \in {"none", "failed"}

ClaimTransfer(c) ==
  LET t == x402Call[c].id
  IN  /\ Advance(c, "answered", "claimed") /\ Open(t)
      /\ settling' = [settling EXCEPT ![t] = "settling"]
      /\ UNCHANGED <<ledger, served, delivered>>

\* "This payment was already used"
ClaimTransferLost(c) ==
  /\ Answer(c, "answered") /\ ~Open(x402Call[c].id)
  /\ UNCHANGED <<settling, ledger, served, delivered>>

\* sendRawTransaction and waitForConfirmation.
Confirmed(c) ==
  LET t == x402Call[c].id
  IN  /\ Advance(c, "claimed", "sent")
      /\ ledger[t] # "confirmed"
      /\ ledger' = [ledger EXCEPT ![t] = "confirmed"]
      /\ UNCHANGED <<settling, served, delivered>>

\* The rounds are over before the transfer is confirmed, or the connection is
\* lost after the broadcast: only the first is told from a refusal.
NotConfirmed(c) ==
  LET t == x402Call[c].id
  IN  /\ Answer(c, "claimed")
      /\ \/ settling' = [settling EXCEPT ![t] = "pending"]
         \/ settling' = [settling EXCEPT ![t] = "failed"]
      /\ ledger' = [ledger EXCEPT ![t] = IF @ = "absent" THEN "broadcast" ELSE @]
      /\ UNCHANGED <<served, delivered>>

\* The node refuses it; it has always refused one that it has.
Refused(c) ==
  LET t == x402Call[c].id
  IN  /\ Answer(c, "claimed")
      /\ settling' = [settling EXCEPT ![t] = "failed"]
      /\ UNCHANGED <<ledger, served, delivered>>

\* The chain takes a transfer that was broadcast.
ConfirmedLate(t) ==
  /\ ledger[t] = "broadcast"
  /\ ledger' = [ledger EXCEPT ![t] = "confirmed"]
  /\ UNCHANGED <<settling, served, delivered, x402Call>>

RecordSettled(c) ==
  LET t == x402Call[c].id
  IN  /\ Answer(c, "sent")
      /\ settling' = [settling EXCEPT ![t] = "settled"]
      /\ delivered' = [delivered EXCEPT ![t] = @ + 1]
      /\ UNCHANGED <<ledger, served>>

\* That write fails, and the payment is taken for a failed one.
RecordSettledFails(c) ==
  /\ Answer(c, "sent")
  /\ settling' = [settling EXCEPT ![x402Call[c].id] = "failed"]
  /\ UNCHANGED <<ledger, served, delivered>>

X402Restart ==
  /\ \E c \in Handlers : x402Call[c] # Waiting
  /\ x402Call' = [c \in Handlers |-> Waiting]
  /\ UNCHANGED <<settling, ledger, served, delivered>>

NextX402 ==
  \/ \E c \in Handlers :
       \/ \E t \in Signed : Verify(c, t)
       \/ ServiceAnswers(c) \/ ServiceFails(c) \/ ClaimTransfer(c) \/ ClaimTransferLost(c)
       \/ Confirmed(c) \/ NotConfirmed(c) \/ Refused(c)
       \/ RecordSettled(c) \/ RecordSettledFails(c)
  \/ \E t \in Signed : ConfirmedLate(t)
  \/ X402Restart

----------------------------------------------------------------------------
(* Properties.                                                             *)

\* "A second settle of the same payment can never broadcast twice": one transfer
\* buys one answer, and only after it was confirmed, whatever requests carry it
\* at the same time and however earlier attempts ended.
DeliveredOnce ==
  \A t \in Signed :
    /\ delivered[t] <= 1
    /\ delivered[t] = 1 => ledger[t] = "confirmed" /\ settling[t] = "settled"

\* "The payer is charged only when the service answers 2xx/3xx."
ChargedIsServed ==
  \A t \in Signed \ Facilitated : ledger[t] # "absent" => t \in served

\* A signed payment delivers once, however many requests carry it, and charges only for
\* a service that answered.
X402Inv == X402TypeOK /\ DeliveredOnce /\ ChargedIsServed

=============================================================================
