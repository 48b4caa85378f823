---------------------------- MODULE Applications ----------------------------
(***************************************************************************)
(* A merchant's application for a business account: its draft, which the   *)
(* owner edits, its submissions, which administrators decide, and Didit's  *)
(* check of the business, which only advises them.  An edit, a submission, *)
(* a decision and a Didit event all read the row first; an edit and the    *)
(* two of Didit then write it by its id.                                   *)
(***************************************************************************)
EXTENDS Naturals, FiniteSets, Sequences

CONSTANTS
  Checks,           \* sessions of Didit for the business
  Desks,            \* handlers that can be in flight at once
  MaxSubmissions, MaxEdits, MaxEvents   \* bounds

ASSUME ApplicationsAssumption == {MaxSubmissions, MaxEdits, MaxEvents} \subseteq Nat

VARIABLES
  application,   \* status of the businesses row
  details,       \* how often its details were edited
  submissions,   \* the business_verifications rows: the details they hold, and the verdict
  takenBack,     \* submissions an edit took out of review
  kyb,           \* didit_kyb_session_id, didit_kyb_status, and whose status that is
  issued,        \* sessions Didit has opened
  told,          \* events of sessions that were processed
  crossed,       \* a session was replaced while an event of it was processed
  desk

applyVars == <<application, details, submissions, takenBack, kyb, issued, told, crossed, desk>>

Vacant == [op |-> "vacant"]
NoCheck == "no session"

Editable == {"draft", "more_information_required", "rejected"}
Decisions == {"approved", "rejected", "more_information_required"}
KybStatuses == {"in_review", "approved", "declined"}

ApplicationsTypeOK ==
  /\ application \in {"none", "under_review"} \cup Editable \cup Decisions
  /\ details \in 0 .. MaxEdits
  /\ submissions \in Seq([details : 0 .. MaxEdits, verdict : Decisions \cup {"under_review"}])
  /\ Len(submissions) <= MaxSubmissions /\ takenBack \in 0 .. MaxSubmissions
  /\ kyb \in [session : Checks \cup {NoCheck}, of : Checks \cup {NoCheck},
              status : KybStatuses \cup {"none", "not_started"}]
  /\ issued \subseteq Checks /\ told \subseteq Checks \X KybStatuses /\ crossed \subseteq Checks
  /\ DOMAIN desk = Desks

InitApplications ==
  /\ application = "none" /\ details = 0 /\ submissions = <<>> /\ takenBack = 0
  /\ kyb = [session |-> NoCheck, of |-> NoCheck, status |-> "none"]
  /\ issued = {} /\ told = {} /\ crossed = {}
  /\ desk = [d \in Desks |-> Vacant]

Takes(d, job) == desk[d] = Vacant /\ desk' = [desk EXCEPT ![d] = job]
Finishes(d, op) == desk[d].op = op /\ desk' = [desk EXCEPT ![d] = Vacant]

----------------------------------------------------------------------------
(* The owner.                                                              *)

\* Two requests for the draft of one owner: the second finds his row taken.
UpgradeFromMerchant ==
  /\ application = "none"
  /\ application' = "draft"
  /\ UNCHANGED <<details, submissions, takenBack, kyb, issued, told, crossed, desk>>

\* saveDraft reads the status,
BeginEdit(d) ==
  /\ application \in Editable
  /\ Takes(d, [op |-> "edit", read |-> application])
  /\ UNCHANGED <<application, details, submissions, takenBack, kyb, issued, told, crossed>>

\* and writes the details by id; what it read as rejected it makes a draft again.
SaveDraft(d) ==
  /\ details < MaxEdits
  /\ Finishes(d, "edit")
  /\ details' = details + 1
  /\ IF desk[d].read = "rejected"
     THEN /\ application' = "draft"
          /\ takenBack' = takenBack + (IF application = "under_review" THEN 1 ELSE 0)
     ELSE UNCHANGED <<application, takenBack>>
  /\ UNCHANGED <<submissions, kyb, issued, told, crossed>>

\* submit reads the row, which must be complete,
BeginApply(d) ==
  /\ application \in Editable
  /\ Takes(d, [op |-> "apply", details |-> details])
  /\ UNCHANGED <<application, details, submissions, takenBack, kyb, issued, told, crossed>>

\* claims it, "so double-taps cannot create two submissions",
MayApply == application \in Editable

\* and keeps what it read with the submission.
Apply(d) ==
  /\ Len(submissions) < MaxSubmissions
  /\ Finishes(d, "apply")
  /\ IF MayApply
     THEN /\ application' = "under_review"
          /\ submissions' = Append(submissions, [details |-> desk[d].details, verdict |-> "under_review"])
     ELSE UNCHANGED <<application, submissions>>
  /\ UNCHANGED <<details, takenBack, kyb, issued, told, crossed>>

----------------------------------------------------------------------------
(* The administrators.                                                     *)

\* adminReview reads an application under review,
BeginDecision(d) ==
  /\ application = "under_review"
  /\ Takes(d, [op |-> "decide"])
  /\ UNCHANGED <<application, details, submissions, takenBack, kyb, issued, told, crossed>>

Undecided == {i \in DOMAIN submissions : submissions[i].verdict = "under_review"}

\* Faulty: as read.
MayDecideAsRead == TRUE

\* claims it,
MayDecide == application = "under_review"

\* and gives the latest submission without a verdict his own.
AdminReview(d) ==
  /\ Finishes(d, "decide")
  /\ IF MayDecide
     THEN \E decision \in Decisions :
            /\ application' = decision
            /\ submissions' =
                 [i \in DOMAIN submissions |->
                    IF i \in Undecided /\ \A j \in Undecided : j <= i
                    THEN [submissions[i] EXCEPT !.verdict = decision]
                    ELSE submissions[i]]
     ELSE UNCHANGED <<application, submissions>>
  /\ UNCHANGED <<details, takenBack, kyb, issued, told, crossed>>

----------------------------------------------------------------------------
(* Didit.                                                                  *)

\* createKybSession reads what allows a session, and asks Didit for one,
RequestSession(d, s) ==
  /\ application \in Editable \cup {"under_review"}
  /\ kyb.status \notin {"approved", "in_review"}
  /\ s \notin issued
  /\ issued' = issued \cup {s}
  /\ Takes(d, [op |-> "session", session |-> s])
  /\ UNCHANGED <<application, details, submissions, takenBack, kyb, told, crossed>>

\* and replaces the one on record.
CreateKybSession(d) ==
  /\ Finishes(d, "session")
  /\ kyb' = [session |-> desk[d].session, of |-> NoCheck, status |-> "not_started"]
  /\ crossed' = crossed \cup {s \in Checks : \E e \in Desks : desk[e].op = "event" /\ desk[e].session = s}
  /\ UNCHANGED <<application, details, submissions, takenBack, issued, told>>

\* "Session events must belong to the session we created for this business".
Concerns(s) == kyb.session = s

\* processKybWebhook adds the row of the event, which makes a second delivery wait,
\* and reads the session on record,
BeginKybEvent(d, s, status) ==
  /\ s \in issued /\ <<s, status>> \notin told /\ Cardinality(told) < MaxEvents
  /\ told' = told \cup {<<s, status>>}
  /\ IF Concerns(s)
     THEN Takes(d, [op |-> "event", session |-> s, status |-> status])
     ELSE UNCHANGED desk
  /\ UNCHANGED <<application, details, submissions, takenBack, kyb, issued, crossed>>

\* and writes the status of the business by its id.
ProcessKybWebhook(d) ==
  /\ Finishes(d, "event")
  /\ kyb' = [kyb EXCEPT !.status = desk[d].status, !.of = desk[d].session]
  /\ UNCHANGED <<application, details, submissions, takenBack, issued, told, crossed>>

\* A handler dies; the transaction of an event takes its row back with it.
Leave(d) ==
  /\ desk[d] # Vacant
  /\ desk' = [desk EXCEPT ![d] = Vacant]
  /\ told' = IF desk[d].op = "event" THEN told \ {<<desk[d].session, desk[d].status>>} ELSE told
  /\ UNCHANGED <<application, details, submissions, takenBack, kyb, issued, crossed>>

NextApplications ==
  \/ UpgradeFromMerchant
  \/ \E d \in Desks :
       \/ BeginEdit(d) \/ SaveDraft(d) \/ BeginApply(d) \/ Apply(d)
       \/ BeginDecision(d) \/ AdminReview(d)
       \/ CreateKybSession(d) \/ ProcessKybWebhook(d) \/ Leave(d)
       \/ \E s \in Checks :
            RequestSession(d, s) \/ \E status \in KybStatuses : BeginKybEvent(d, s, status)

SpecApplications == InitApplications /\ [][NextApplications]_applyVars

----------------------------------------------------------------------------
(* Properties.                                                             *)

\* The verdict of an application is the verdict on record of its last submission,
\* whoever else was deciding it.
DecisionIsRecorded ==
  application \in {"approved", "rejected"} =>
    submissions # <<>> /\ submissions[Len(submissions)].verdict = application

\* "Guarded transition so double-taps cannot create two submissions": one waits for
\* a verdict while the application is under review, besides those a late edit left.
OneUndecided ==
  Cardinality(Undecided) = takenBack + (IF application = "under_review" THEN 1 ELSE 0)

\* "so a stale or foreign session cannot overwrite it": what Didit is said to have
\* found is of the session on record, unless that was replaced meanwhile.
KybIsOfSession == kyb.of \in {NoCheck, kyb.session} \cup crossed

\* "This application is under review and cannot be edited", "Approved business details
\* can no longer be edited here": an edit that read the row before does both.
ApprovedAsSubmitted ==
  application = "approved" => submissions[Len(submissions)].details = details

\* Applications for business accounts: however the owner, administrators and Didit
\* interleave, each application has one submission to decide, the verdict on record,
\* and the advice of its own check.
ApplicationsInv == ApplicationsTypeOK /\ DecisionIsRecorded /\ OneUndecided /\ KybIsOfSession

=============================================================================
