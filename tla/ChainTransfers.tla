--------------------------- MODULE ChainTransfers ----------------------------
(***************************************************************************)
(* FARM moved on the Algorand chain for every completed transaction of the *)
(* ledger: rows are put into an outbox, and a job of each server, or an    *)
(* administrator, sends those that are due.  The id of the transfer is     *)
(* stored before it is sent, and a later attempt asks the chain about it.  *)
(***************************************************************************)
EXTENDS Integers, FiniteSets

CONSTANTS
  Legs,     \* completed transactions, and the fees of some: rows of the outbox
  Senders,  \* calls of process(), by the job or by an administrator
  Attempts  \* bound on the transfers built for a row

ASSUME ChainTransfersAssumption == Attempts \in Nat \ {0}

VARIABLES
  enqueued,  \* transactions that have their rows: chain_enqueued_at
  outbox,    \* status and attempt, the transfer whose tx_id is stored, 0 before the first
  onChain,   \* transfers of a row: "built" until they are confirmed or expire
  misled,    \* rows sent again on an answer or a row that was out of date
  sending

chainVars == <<enqueued, outbox, onChain, misled, sending>>

Asleep == [op |-> "idle"]

SENDABLE == {"pending", "failed", "blocked"}

ChainTransfersTypeOK ==
  /\ enqueued \subseteq Legs
  /\ outbox \in [Legs -> [status : {"none", "sending", "sent"} \cup SENDABLE, tx : 0 .. Attempts]]
  /\ onChain \in [Legs -> [1 .. Attempts -> {"none", "built", "pending", "confirmed", "expired"}]]
  /\ misled \subseteq Legs
  /\ DOMAIN sending = Senders

InitChainTransfers ==
  /\ enqueued = {}
  /\ outbox = [l \in Legs |-> [status |-> "none", tx |-> 0]]
  /\ onChain = [l \in Legs |-> [a \in 1 .. Attempts |-> "none"]]
  /\ misled = {}
  /\ sending = [s \in Senders |-> Asleep]

SenderGoes(s, from, call) ==
  sending[s].op = from /\ sending' = [sending EXCEPT ![s] = call]

\* createMany with skipDuplicates: (transaction_id, leg) is unique.
EnqueueLeg(l) ==
  outbox' = IF outbox[l].status = "none"
            THEN [outbox EXCEPT ![l].status = "pending"] ELSE outbox

\* enqueue, and the marker in the same transaction; another worker may have found
\* the transaction before it was marked.
Enqueue(l) ==
  /\ EnqueueLeg(l)
  /\ enqueued' = enqueued \cup {l}
  /\ UNCHANGED <<onChain, misled, sending>>

\* process: the row is read ...
ReadRow(s, l) ==
  /\ outbox[l].status \in SENDABLE
  /\ SenderGoes(s, "idle", [op |-> "claim", id |-> l, row |-> outbox[l]])
  /\ UNCHANGED <<enqueued, outbox, onChain, misled>>

\* Faulty: a row another attempt has in hand is claimed.
ClaimableUnlessSent(s) == outbox[sending[s].id].status # "sent"

\* updateMany where { status: r.status }
ClaimableRow(s) == outbox[sending[s].id].status = sending[s].row.status

\* ... and claimed by its status alone: what is known of it may be out of date.
ClaimRow(s) ==
  LET call == sending[s]
  IN  /\ SenderGoes(s, "claim", [call EXCEPT !.op = IF call.row.tx > 0 THEN "ask" ELSE "build"])
      /\ ClaimableRow(s)
      /\ outbox' = [outbox EXCEPT ![call.id].status = "sending"]
      /\ misled' = IF outbox[call.id].tx # call.row.tx THEN misled \cup {call.id} ELSE misled
      /\ UNCHANGED <<enqueued, onChain>>

ClaimRowLost(s) ==
  /\ SenderGoes(s, "claim", Asleep) /\ ~ClaimableRow(s)
  /\ UNCHANGED <<enqueued, outbox, onChain, misled>>

Write(s, from, status) ==
  /\ SenderGoes(s, from, Asleep)
  /\ outbox' = [outbox EXCEPT ![sending[s].id].status = status]

\* txStatus and currentRound: sent, wait for it, or build it anew.
FoundConfirmed(s) ==
  /\ Write(s, "ask", "sent")
  /\ onChain[sending[s].id][sending[s].row.tx] = "confirmed"
  /\ UNCHANGED <<enqueued, onChain, misled>>

MayStillConfirm(status) == status \in {"built", "pending"}

FoundUndecided(s) ==
  /\ Write(s, "ask", "failed")
  /\ MayStillConfirm(onChain[sending[s].id][sending[s].row.tx])
  /\ UNCHANGED <<enqueued, onChain, misled>>

FoundExpired(s) ==
  LET l == sending[s].id
      status == onChain[l][sending[s].row.tx]
  IN  /\ SenderGoes(s, "ask", [sending[s] EXCEPT !.op = "build"])
      /\ status # "confirmed" /\ ~MayStillConfirm(status)
      /\ UNCHANGED <<enqueued, outbox, onChain, misled>>

\* The question fails, which is taken for "unknown", after last_valid.
FoundUnknown(s) ==
  LET l == sending[s].id
  IN  /\ SenderGoes(s, "ask", [sending[s] EXCEPT !.op = "build"])
      /\ onChain[l][sending[s].row.tx] = "confirmed"
      /\ misled' = misled \cup {l}
      /\ UNCHANGED <<enqueued, outbox, onChain>>

\* The sender has too little FARM on chain, is not ready, or the receiver is no
\* account of FARM's.
BuildRefused(s, status) ==
  /\ Write(s, "build", status)
  /\ UNCHANGED <<enqueued, onChain, misled>>

StoreTx(l, a) == outbox' = [outbox EXCEPT ![l].tx = a]

Built(l) == {a \in 1 .. Attempts : onChain[l][a] # "none"}

\* prepareFarmTransfer; tx_id and last_valid are stored before send().
Prepare(s) ==
  LET l == sending[s].id
      a == Cardinality(Built(l)) + 1
  IN  /\ sending[s].op = "build" /\ a <= Attempts
      /\ SenderGoes(s, "build", [op |-> "send", id |-> l, tx |-> a])
      /\ onChain' = [onChain EXCEPT ![l][a] = "built"]
      /\ StoreTx(l, a)
      /\ UNCHANGED <<enqueued, misled>>

\* send() ends with a confirmation, or fails with the transfer in the pool or not.
SendTransfer(s, arrives, status) ==
  LET call == sending[s]
  IN  /\ SenderGoes(s, "send", [op |-> "written", id |-> call.id, status |-> status])
      /\ onChain[call.id][call.tx] = "built"
      /\ onChain' = [onChain EXCEPT ![call.id][call.tx] = arrives]
      /\ UNCHANGED <<enqueued, outbox, misled>>

\* last_valid passed before send().
SendTooLate(s) ==
  LET call == sending[s]
  IN  /\ SenderGoes(s, "send", [op |-> "written", id |-> call.id, status |-> "failed"])
      /\ onChain[call.id][call.tx] = "expired"
      /\ UNCHANGED <<enqueued, outbox, onChain, misled>>

WriteSent(s) ==
  /\ Write(s, "written", sending[s].status)
  /\ UNCHANGED <<enqueued, onChain, misled>>

\* The chain: what is in the pool is confirmed, and what is not expires.
ChainDecides(l, a) ==
  /\ onChain[l][a] \in {"built", "pending"}
  /\ onChain' = [onChain EXCEPT ![l][a] =
       IF onChain[l][a] = "pending" THEN "confirmed" ELSE "expired"]
  /\ UNCHANGED <<enqueued, outbox, misled, sending>>

\* A row that was being sent is not looked at again.
SenderRestart ==
  /\ \E s \in Senders : sending[s] # Asleep
  /\ sending' = [s \in Senders |-> Asleep]
  /\ UNCHANGED <<enqueued, outbox, onChain, misled>>

NextChainTransfers ==
  \/ \E l \in Legs : Enqueue(l) \/ \E a \in 1 .. Attempts : ChainDecides(l, a)
  \/ \E s \in Senders :
       \/ \E l \in Legs : ReadRow(s, l)
       \/ ClaimRow(s) \/ ClaimRowLost(s)
       \/ FoundConfirmed(s) \/ FoundUndecided(s) \/ FoundExpired(s) \/ FoundUnknown(s)
       \/ \E status \in {"failed", "blocked"} : BuildRefused(s, status)
       \/ Prepare(s)
       \/ SendTransfer(s, "confirmed", "sent")
       \/ SendTransfer(s, "pending", "failed") \/ SendTransfer(s, "built", "failed")
       \/ SendTooLate(s) \/ WriteSent(s)
  \/ SenderRestart

----------------------------------------------------------------------------
(* Properties.                                                             *)

ConfirmedOf(l) == {a \in 1 .. Attempts : onChain[l][a] = "confirmed"}

\* "so a transfer is never sent twice"
TransferSentOnce == \A l \in Legs : Cardinality(ConfirmedOf(l)) <= 1

\* A row is moved once on the chain, and one that is shown as sent was, if nobody
\* acted on an answer or a row that was out of date.
SentIsMoved ==
  \A l \in Legs \ misled :
    /\ Cardinality(ConfirmedOf(l)) <= 1
    /\ outbox[l].status = "sent" => ConfirmedOf(l) # {}

\* However often the outbox retries a leg, what it shows as sent moved on chain, once,
\* unless the status of an earlier attempt could not be had.
ChainTransfersInv == ChainTransfersTypeOK /\ SentIsMoved

=============================================================================
