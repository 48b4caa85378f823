--------------------------- MODULE Verifications ----------------------------
(***************************************************************************)
(* Whether a user's identity is verified: users.kyc_status, written by     *)
(* Didit's notices, by the user who sends documents and by reviewers.      *)
(* Documents are saved and judged in two writes, the document's and then   *)
(* the user's, from what was read before an upload.  Didit is outside: it  *)
(* sends its notices in any order and more than once.                      *)
(***************************************************************************)
EXTENDS Naturals

CONSTANTS
  Applicants,   \* users
  Notices,      \* events of Didit, each with an identifier of its own
  Papers,       \* rows of kyc_documents
  Clerks,       \* handlers that can be in flight at once
  NoPaper

VARIABLES
  standing,   \* kyc_status of a user
  asked,      \* users who were given a session at Didit
  noted,      \* the didit_webhook_events rows: whom one is about, and the status
  paper,      \* whose a document is and its status
  passed,   \* users a reviewer has passed
  clerk       \* the handler in each slot

verifyVars == <<standing, asked, noted, paper, passed, clerk>>

AtEase == [at |-> "ease"]
Blank == [status |-> "none"]

\* kycStatusForDiditStatus: every other status is ignored.
KycStatusFor ==
  [Approved |-> "verified", Declined |-> "rejected", InReview |-> "under_review",
   Resubmitted |-> "additional_info_required", KycExpired |-> "none",
   InProgress |-> "pending"]

DiditStatuses == DOMAIN KycStatusFor \cup {"Unknown"}

Verdicts == {"under_review", "verified", "rejected", "additional_info_required"}
KycStatuses == Verdicts \cup {"none", "pending"}
StillOpen == {"pending", "under_review", "additional_info_required"}

VerificationsTypeOK ==
  /\ standing \in [Applicants -> KycStatuses]
  /\ asked \subseteq Applicants
  /\ noted \in [Notices -> {Blank} \cup [status : DiditStatuses, of : Applicants]]
  /\ paper \in [Papers -> {Blank} \cup [status : KycStatuses \ {"none"}, of : Applicants]]
  /\ passed \subseteq Applicants
  /\ clerk \in [Clerks -> {AtEase} \cup
                  [at : {"paper", "user"}, job : {"submit", "review"}, of : Applicants,
                   paper : Papers \cup {NoPaper}, status : KycStatuses]]

InitVerifications ==
  /\ standing = [u \in Applicants |-> "none"]
  /\ asked = {} /\ passed = {}
  /\ noted = [n \in Notices |-> Blank]
  /\ paper = [p \in Papers |-> Blank]
  /\ clerk = [c \in Clerks |-> AtEase]

----------------------------------------------------------------------------
(* Didit.                                                                  *)

\* createSession: whatever his status, unless he is verified.
CreateSession(u) ==
  /\ standing[u] # "verified" /\ u \notin asked
  /\ asked' = asked \cup {u}
  /\ UNCHANGED <<standing, noted, paper, passed, clerk>>

\* Faulty: the last notice counts.
AllowsAny(u, status) == TRUE

\* Only an approval changes the status of a verified user.
Allows(u, status) == status = "Approved" \/ standing[u] # "verified"

\* processWebhook, in one transaction: an event that has its row was processed, and
\* a second delivery changes nothing.  A session, or one of several, may be given
\* any status.
ProcessWebhook(n, u) ==
  /\ u \in asked /\ noted[n] = Blank
  /\ \E status \in DiditStatuses :
       /\ noted' = [noted EXCEPT ![n] = [status |-> status, of |-> u]]
       /\ IF status \in DOMAIN KycStatusFor /\ Allows(u, status)
          THEN standing' = [standing EXCEPT ![u] = KycStatusFor[status]]
          ELSE UNCHANGED standing
  /\ UNCHANGED <<asked, paper, passed, clerk>>

----------------------------------------------------------------------------
(* Documents.                                                              *)

\* submit reads the user and a document of his that is still open,
BeginSubmit(c, u) ==
  /\ clerk[c] = AtEase /\ standing[u] # "verified"
  /\ LET open == {p \in Papers : paper[p].status \in StillOpen /\ paper[p].of = u}
     IN  \E p \in IF open = {} THEN {NoPaper} ELSE open :
           clerk' = [clerk EXCEPT ![c] = [at |-> "paper", job |-> "submit", of |-> u,
                                          paper |-> p, status |-> "pending"]]
  /\ UNCHANGED <<standing, asked, noted, paper, passed>>

\* A reviewer, or an administrator, reads a document that is pending,
BeginReview(c, p) ==
  /\ clerk[c] = AtEase /\ paper[p].status = "pending"
  /\ clerk' = [clerk EXCEPT ![c] = [at |-> "paper", job |-> "review", of |-> paper[p].of,
                                    paper |-> p, status |-> "none"]]
  /\ UNCHANGED <<standing, asked, noted, paper, passed>>

\* and writes it by its id, or a new one, when the images are uploaded,
SavePaper(c) ==
  /\ clerk[c].at = "paper" /\ clerk[c].job = "submit"
  /\ \E p \in IF clerk[c].paper = NoPaper THEN {q \in Papers : paper[q] = Blank} ELSE {clerk[c].paper} :
       paper' = [paper EXCEPT ![p] = [status |-> "pending", of |-> clerk[c].of]]
  /\ clerk' = [clerk EXCEPT ![c].at = "user", ![c].paper = NoPaper]
  /\ UNCHANGED <<standing, asked, noted, passed>>

\* or with his verdict,
JudgePaper(c) ==
  /\ clerk[c].at = "paper" /\ clerk[c].job = "review"
  /\ \E verdict \in Verdicts :
       /\ paper' = [paper EXCEPT ![clerk[c].paper].status = verdict]
       /\ passed' = passed \cup (IF verdict = "verified" THEN {clerk[c].of} ELSE {})
       /\ clerk' = [clerk EXCEPT ![c].at = "user", ![c].paper = NoPaper, ![c].status = verdict]
  /\ UNCHANGED <<standing, asked, noted>>

\* and then the user, as he may be by now.
WriteStanding(c) ==
  /\ clerk[c].at = "user"
  /\ standing' = [standing EXCEPT ![clerk[c].of] = clerk[c].status]
  /\ clerk' = [clerk EXCEPT ![c] = AtEase]
  /\ UNCHANGED <<asked, noted, paper, passed>>

\* An upload or a write fails, or the process restarts.
GiveUp(c) ==
  /\ clerk[c] # AtEase
  /\ clerk' = [clerk EXCEPT ![c] = AtEase]
  /\ UNCHANGED <<standing, asked, noted, paper, passed>>

NextVerifications ==
  \/ \E u \in Applicants : CreateSession(u) \/ \E n \in Notices : ProcessWebhook(n, u)
  \/ \E c \in Clerks :
       \/ \E u \in Applicants : BeginSubmit(c, u)
       \/ \E p \in Papers : BeginReview(c, p)
       \/ SavePaper(c) \/ JudgePaper(c) \/ WriteStanding(c) \/ GiveUp(c)

SpecVerifications == InitVerifications /\ [][NextVerifications]_verifyVars

----------------------------------------------------------------------------
(* Properties.                                                             *)

ApprovedByDidit(u) == \E n \in Notices : noted[n] = [status |-> "Approved", of |-> u]

\* Nobody is verified whom neither Didit approved nor a reviewer passed.
VerifiedHasReason ==
  \A u \in Applicants :
    standing[u] = "verified" =>
      ApprovedByDidit(u) \/ u \in passed

\* "A user who is already verified ... is never downgraded by a non-approval Didit
\* event", in whatever order the notices come: only documents can take away what
\* Didit has approved.
ApprovalOutlastsNotices ==
  \A u \in Applicants :
    ApprovedByDidit(u) /\ (\A p \in Papers : paper[p].status = "none" \/ paper[p].of # u)
      => standing[u] = "verified"

\* "a manual approval is never overwritten": by Didit it is not, but a submission or
\* a second verdict that was under way still is written over one.
PassedStaysVerified ==
  (\A c \in Clerks : clerk[c] = AtEase) =>
    \A p \in Papers : paper[p].status = "verified" => standing[paper[p].of] = "verified"

\* Verification of identities: a user is verified for a reason that is on record,
\* and Didit's later notices take nothing from him.
VerificationsInv == VerificationsTypeOK /\ VerifiedHasReason /\ ApprovalOutlastsNotices

=============================================================================
