------------------------------- MODULE Tokens --------------------------------
(***************************************************************************)
(* Tokenization of one funded project: the business asks for it, and an    *)
(* administrator rejects it or has the asset created on the Algorand       *)
(* TestNet, with an allocation for each investment.  The request is one    *)
(* row of project_tokens.                                                  *)
(***************************************************************************)
EXTENDS Naturals, FiniteSets

CONSTANTS
  Clerks,     \* handlers that can be in flight at once
  MaxAssets   \* bound: assets created

ASSUME TokensAssumption == IsFiniteSet(Clerks) /\ MaxAssets \in Nat

VARIABLES
  token,      \* status of the row
  assets,     \* assets created on the chain,
  unkept,     \* those of them the row was never told of
  allotted,   \* the allocations were written
  overlap,    \* a request was written over a row that had moved on
  denied,     \* a creation that was written down was then called failed
  clerk

tokenVars == <<token, assets, unkept, allotted, overlap, denied, clerk>>

NoWork == [op |-> "off"]

TokensTypeOK ==
  /\ token \in {"none", "requested", "rejected", "creating", "created", "failed"}
  /\ assets \in 0 .. MaxAssets /\ unkept \in 0 .. MaxAssets
  /\ allotted \in BOOLEAN /\ overlap \in BOOLEAN /\ denied \in BOOLEAN
  /\ clerk \in [Clerks -> {NoWork, [op |-> "create"], [op |-> "record"], [op |-> "answer"]} \cup
                  [op : {"request"}, seen : {"none", "rejected"}]]

InitTokens ==
  /\ token = "none" /\ assets = 0 /\ unkept = 0 /\ allotted = FALSE
  /\ overlap = FALSE /\ denied = FALSE
  /\ clerk = [c \in Clerks |-> NoWork]

ClerkGoes(c, from, to) ==
  /\ clerk[c].op = from
  /\ clerk' = [clerk EXCEPT ![c] = to]

\* request looks at the row,
ReadToken(c) ==
  /\ token \in {"none", "rejected"}
  /\ ClerkGoes(c, "off", [op |-> "request", seen |-> token])
  /\ UNCHANGED <<token, assets, unkept, allotted, overlap, denied>>

\* and creates it, or writes over it.
WriteToken(c) ==
  /\ ClerkGoes(c, "request", NoWork)
  /\ token' = IF clerk[c].seen = "none" /\ token # "none" THEN token ELSE "requested"
  /\ overlap' = (overlap \/ (clerk[c].seen = "rejected" /\ token # "rejected"))
  /\ UNCHANGED <<assets, unkept, allotted, denied>>

RejectToken ==
  /\ token \in {"requested", "failed"}
  /\ token' = "rejected"
  /\ UNCHANGED <<assets, unkept, allotted, overlap, denied, clerk>>

\* Faulty: a creation that has not ended may be repeated.
Unfinished == token \in {"requested", "failed", "creating"}

\* What approveAndMint claims.
Approvable == token \in {"requested", "failed"}

Approve(c) ==
  /\ Approvable
  /\ token' = "creating"
  /\ ClerkGoes(c, "off", [op |-> "create"])
  /\ UNCHANGED <<assets, unkept, allotted, overlap, denied>>

\* The project is no longer funded, nobody holds an investment, or the node refuses.
NotCreated(c) ==
  /\ ClerkGoes(c, "create", NoWork)
  /\ token' = "failed"
  /\ UNCHANGED <<assets, unkept, allotted, overlap, denied>>

\* createAsset: the asset is on the chain, confirmed in time or not.
CreateAsset(c) ==
  /\ assets < MaxAssets
  /\ assets' = assets + 1
  /\ \/ ClerkGoes(c, "create", [op |-> "record"]) /\ UNCHANGED <<token, unkept>>
     \/ ClerkGoes(c, "create", NoWork) /\ token' = "failed" /\ unkept' = unkept + 1
  /\ UNCHANGED <<allotted, overlap, denied>>

\* One transaction writes the asset, the allocations and the review; an investment
\* has one allocation.
RecordAsset(c) ==
  /\ ClerkGoes(c, "record", [op |-> "answer"]) /\ ~allotted
  /\ token' = "created"
  /\ allotted' = TRUE
  /\ UNCHANGED <<assets, unkept, overlap, denied>>

\* Or it fails, and the row says that the creation did.
AssetNotRecorded(c) ==
  /\ ClerkGoes(c, "record", NoWork)
  /\ token' = "failed" /\ unkept' = unkept + 1
  /\ UNCHANGED <<assets, allotted, overlap, denied>>

\* The row is read again for the answer.
AnswerToken(c) ==
  /\ ClerkGoes(c, "answer", NoWork)
  /\ UNCHANGED <<token, assets, unkept, allotted, overlap, denied>>

\* Or that read fails: the catch is still about all of it, and the row that was
\* written says that the creation failed.
AnswerFails(c) ==
  /\ ClerkGoes(c, "answer", NoWork)
  /\ token' = "failed" /\ denied' = TRUE
  /\ UNCHANGED <<assets, unkept, allotted, overlap>>

\* The process restarts.  Nothing takes up a row that says creating.
ClerkStops(c) ==
  /\ clerk[c].op \in {"create", "record", "answer"} /\ ClerkGoes(c, clerk[c].op, NoWork)
  /\ unkept' = IF clerk[c].op = "record" THEN unkept + 1 ELSE unkept
  /\ UNCHANGED <<token, assets, allotted, overlap, denied>>

NextTokens ==
  \/ RejectToken
  \/ \E c \in Clerks :
       \/ ReadToken(c) \/ WriteToken(c) \/ Approve(c) \/ NotCreated(c)
       \/ CreateAsset(c) \/ RecordAsset(c) \/ AssetNotRecorded(c)
       \/ AnswerToken(c) \/ AnswerFails(c) \/ ClerkStops(c)

----------------------------------------------------------------------------
(* Properties.                                                             *)

\* A project has one asset, whatever administrators do at the same time: a second is
\* created only when the first was not written down, or was called failed after it
\* was, or when a request was written over one that had moved on.
MintedOnce == ~overlap /\ ~denied => assets <= 1 + unkept

\* Allocations are what the row that names their asset stands for, for good, unless
\* the row was called failed after they were written.
AllottedIsCreated ==
  /\ token = "created" => allotted
  /\ allotted /\ ~overlap /\ ~denied => token = "created"

\* approveAndMint and reject decide on a request once, and what approveAndMint
\* writes at the end is about the only asset of the project.
TokensInv == TokensTypeOK /\ MintedOnce /\ AllottedIsCreated

=============================================================================
