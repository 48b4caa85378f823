------------------------------ MODULE Sessions -------------------------------
(***************************************************************************)
(* One account: how it is signed in to, in two steps for a user and in one *)
(* for an administrator; its sessions, each with a refresh token that is   *)
(* good once; the links that confirm its e-mail address; and its deletion. *)
(* Passwords, tokens and the phone are right wherever they are checked:    *)
(* what is modelled is what becomes of requests that are.                  *)
(***************************************************************************)
EXTENDS Naturals, Sequences

CONSTANTS
  Logins,      \* rows of pending_login_verifications
  Tasks,       \* handlers that can be in flight at once
  MaxSessions, MaxLinks   \* bounds: sessions opened, links sent

\* Logins and sessions are rows of two tables: what one was opened for says which.
ASSUME SessionsAssumption ==
  MaxSessions \in Nat /\ MaxLinks \in Nat /\ \A l \in Logins : l \notin Nat

VARIABLES
  profile,   \* the account: its role, whether it is deleted, and its e-mail verified
  purse,     \* what its wallet holds
  incoming,  \* its deposit: "none", "pending", "failed" or "credited"
  late,      \* money came, or was announced, that the deletion did not look at
  login,     \* status of the pending_login_verifications rows
  sessions,  \* the user_sessions rows, and what each was opened for: a login, or
             \* the session that was refreshed
  links,     \* the email_verification_tokens rows, and how many there were when each
             \* was asked for
  task

sessionVars ==
  <<profile, purse, incoming, late, login, sessions, links, task>>

Unbusy == [op |-> "free"]

\* An administrator needs no second step.
Trusted == profile.role = "admin"

SessionsTypeOK ==
  /\ profile \in [role : {"user", "admin"}, deleted : BOOLEAN, verified : BOOLEAN]
  /\ purse \in {0, 1} /\ late \in BOOLEAN
  /\ incoming \in {"none", "pending", "failed", "credited"}
  /\ login \in [Logins -> {"none", "pending", "verified", "gone"}]
  /\ \A s \in DOMAIN sessions :
       /\ s <= MaxSessions
       /\ sessions[s].status \in {"live", "used", "revoked", "gone"}
       /\ sessions[s].of \in Logins \cup DOMAIN sessions
  /\ \A k \in DOMAIN links : k <= MaxLinks /\ links[k].status \in {"sent", "used"}
  /\ DOMAIN task = Tasks

InitSessions ==
  /\ profile \in [role : {"user", "admin"}, deleted : {FALSE}, verified : {FALSE}]
  /\ purse = 0 /\ incoming = "none" /\ late = FALSE
  /\ login = [l \in Logins |-> "none"]
  /\ sessions = <<>> /\ links = <<>>
  /\ task = [t \in Tasks |-> Unbusy]

TaskGoes(t, from, to) ==
  /\ task[t].op = from
  /\ task' = [task EXCEPT ![t] = to]

TaskEnds(t, from) == TaskGoes(t, from, Unbusy)

money == <<purse, incoming, late>>

----------------------------------------------------------------------------
(* Signing in.                                                             *)

\* A new row for what was presented.
OpenSession(origin) ==
  /\ Len(sessions) < MaxSessions
  /\ sessions' = Append(sessions, [status |-> "live", of |-> origin])

\* An administrator's password, or Firebase token, is enough.
SignIn(l) ==
  /\ login[l] = "none" /\ ~profile.deleted /\ Trusted
  /\ login' = [login EXCEPT ![l] = "verified"]
  /\ OpenSession(l)
  /\ UNCHANGED <<profile, money, links, task>>

\* A user's is the first step.
FirstStep(l) ==
  /\ login[l] = "none" /\ ~profile.deleted /\ ~Trusted
  /\ login' = [login EXCEPT ![l] = "pending"]
  /\ UNCHANGED <<profile, money, sessions, links, task>>

\* verifyPhone reads the pending login with its user,
VerifyPhone(t, l) ==
  /\ login[l] = "pending"
  /\ TaskGoes(t, "free", [op |-> "verify", login |-> l, deleted |-> profile.deleted])
  /\ UNCHANGED <<profile, money, login, sessions, links>>

\* claims it,
StillPending(l) == login[l] = "pending"

ClaimLogin(t) ==
  /\ task[t].op = "verify"
  /\ LET l == task[t].login
     IN  IF StillPending(l)
         THEN /\ login' = [login EXCEPT ![l] = "verified"]
              /\ TaskGoes(t, "verify", IF task[t].deleted THEN Unbusy ELSE [op |-> "open", for |-> l])
         ELSE UNCHANGED login /\ TaskEnds(t, "verify")
  /\ UNCHANGED <<profile, money, sessions, links>>

\* and opens a session for it.
IssueSession(t) ==
  /\ TaskEnds(t, "open")
  /\ OpenSession(task[t].for)
  /\ UNCHANGED <<profile, money, login, links>>

----------------------------------------------------------------------------
(* Refreshing.                                                             *)

Live(s) == sessions[s].status = "live"

\* refresh finds the live session of the token,
FindSession(t, s) ==
  /\ Live(s)
  /\ TaskGoes(t, "free", [op |-> "claim", session |-> s])
  /\ UNCHANGED <<profile, money, login, sessions, links>>

\* Faulty: as read.
UnusedAsRead(s) == TRUE

\* and claims it, unused and not revoked.
Unused(s) == Live(s)

ClaimSession(t) ==
  /\ task[t].op = "claim"
  /\ Unused(task[t].session)
  /\ sessions' = [sessions EXCEPT ![task[t].session].status = "used"]
  /\ TaskGoes(t, "claim", [op |-> "open", for |-> task[t].session])
  /\ UNCHANGED <<profile, money, login, links>>

Revoked(those) ==
  [s \in DOMAIN sessions |->
     IF s \in those /\ Live(s) THEN [sessions[s] EXCEPT !.status = "revoked"] ELSE sessions[s]]

\* Another request has just used the token: this one is turned away.
RefreshRace(t) ==
  /\ task[t].op = "claim" /\ sessions[task[t].session].status = "used"
  /\ TaskEnds(t, "claim")
  /\ UNCHANGED <<profile, money, login, sessions, links>>

\* The session is gone or was revoked meanwhile, or was used a while ago: all the
\* sessions of the account are revoked.
HandleTokenTheft(t) ==
  /\ task[t].op = "claim" /\ ~Live(task[t].session)
  /\ TaskEnds(t, "claim")
  /\ sessions' = Revoked(DOMAIN sessions)
  /\ UNCHANGED <<profile, money, login, links>>

----------------------------------------------------------------------------
(* Ending sessions.                                                        *)

\* logout, revokeSession, or all but the one that asks.
Logout(s) ==
  /\ Live(s)
  /\ sessions' = Revoked({s})
  /\ UNCHANGED <<profile, money, login, links, task>>

\* changePassword and revokeOtherSessions keep the session that asks.
RevokeOthers(s) ==
  /\ Live(s) /\ ~profile.deleted
  /\ sessions' = Revoked(DOMAIN sessions \ {s})
  /\ UNCHANGED <<profile, money, login, links, task>>

\* completePasswordReset.
RevokeAll ==
  /\ sessions' = Revoked(DOMAIN sessions)
  /\ UNCHANGED <<profile, money, login, links, task>>

\* What has expired is of no more use, and cleanupExpiredSessions deletes it.
ExpireSession(s) ==
  /\ sessions[s].status # "gone"
  /\ sessions' = [sessions EXCEPT ![s].status = "gone"]
  /\ UNCHANGED <<profile, money, login, links, task>>

ExpireLogin(l) ==
  /\ login[l] = "pending"
  /\ login' = [login EXCEPT ![l] = "gone"]
  /\ UNCHANGED <<profile, money, sessions, links, task>>

----------------------------------------------------------------------------
(* The e-mail address.                                                     *)

\* resendEmailVerification looks at the account, and at the links of the last minute
\* and day; MaxLinks stands for the limit of a day.
BeginSend(t) ==
  /\ Len(links) < MaxLinks /\ ~profile.verified /\ ~profile.deleted
  /\ TaskGoes(t, "free", [op |-> "send", after |-> Len(links)])
  /\ UNCHANGED <<profile, money, login, sessions, links>>

\* The first statement of its transaction finds the links that are committed,
FindOlder(t) ==
  /\ task[t].op = "send"
  /\ TaskGoes(t, "send", [op |-> "sending", after |-> task[t].after, older |-> Len(links)])
  /\ UNCHANGED <<profile, money, login, sessions, links>>

\* which stop working when it commits, with a new one.
SendLink(t) ==
  /\ TaskEnds(t, "sending")
  /\ Len(links) < MaxLinks
  /\ links' = Append([k \in DOMAIN links |->
                        IF k <= task[t].older THEN [links[k] EXCEPT !.status = "used"]
                        ELSE links[k]],
                     [status |-> "sent", after |-> task[t].after])
  /\ UNCHANGED <<profile, money, login, sessions>>

\* verifyEmail looks at the link,
ReadLink(t, k) ==
  /\ links[k].status = "sent"
  /\ TaskGoes(t, "free", [op |-> "mail", link |-> k])
  /\ UNCHANGED <<profile, money, login, sessions, links>>

\* and claims it, and the address, if the account has it still.  An account that is
\* deleted has none.
VerifyEmail(t) ==
  /\ TaskEnds(t, "mail")
  /\ IF links[task[t].link].status = "sent" /\ ~profile.deleted
     THEN /\ links' = [links EXCEPT ![task[t].link].status = "used"]
          /\ profile' = [profile EXCEPT !.verified = TRUE]
     ELSE UNCHANGED <<links, profile>>
  /\ UNCHANGED <<money, login, sessions>>

----------------------------------------------------------------------------
(* Deleting the profile.                                                   *)

\* The deletions under way that are at one of these places have missed something.
Missing(ops) ==
  [t \in Tasks |-> IF task[t].op \in ops THEN [task[t] EXCEPT !.missed = TRUE] ELSE task[t]]

Deleting == {"deposits", "delete"}

\* Deposits, Transfers, Escrow and Projects model what fills a wallet.  Here, a
\* deposit of the user is made, also by a request that was let in before the
\* deletion; one that is made before deposits are counted is.
DepositPending ==
  /\ incoming = "none" /\ incoming' = "pending"
  /\ task' = Missing({"delete"}) /\ late' = (late \/ profile.deleted)
  /\ UNCHANGED <<profile, purse, login, sessions, links>>

DepositFails ==
  /\ incoming = "pending" /\ incoming' = "failed"
  /\ UNCHANGED <<profile, purse, late, login, sessions, links, task>>

\* A payment can follow a reported failure.
DepositCredited ==
  /\ incoming \in {"pending", "failed"} /\ incoming' = "credited"
  /\ purse' = 1
  /\ task' = Missing(IF incoming = "pending" THEN {"deposits"} ELSE Deleting)
  /\ late' = (late \/ (profile.deleted /\ incoming = "failed"))
  /\ UNCHANGED <<profile, login, sessions, links>>

\* Another user's payment, an escrow that is released, an investment or a payout
\* that comes back: nothing announces it.
MoneyIn ==
  /\ purse' = 1
  /\ task' = Missing(Deleting) /\ late' = (late \/ profile.deleted)
  /\ UNCHANGED <<profile, incoming, login, sessions, links>>

\* It is spent to the last coin.
MoneyOut ==
  /\ purse = 1 /\ purse' = 0
  /\ UNCHANGED <<profile, incoming, late, login, sessions, links, task>>

\* deleteAccount reads the balance, which must be zero,
CheckBalance(t) ==
  /\ ~profile.deleted /\ purse = 0
  /\ TaskGoes(t, "free", [op |-> "deposits", missed |-> FALSE])
  /\ UNCHANGED <<profile, money, login, sessions, links>>

\* then counts the withdrawals and deposits that are pending,
NoneComing == incoming # "pending"

CheckDeposits(t) ==
  /\ task[t].op = "deposits"
  /\ IF NoneComing THEN TaskGoes(t, "deposits", [task[t] EXCEPT !.op = "delete"])
     ELSE TaskEnds(t, "deposits")
  /\ UNCHANGED <<profile, money, login, sessions, links>>

\* and deletes: the sessions are revoked, and expire, and the user loses his name,
\* address and password.
DeleteAccount(t) ==
  /\ TaskEnds(t, "delete")
  /\ profile' = [profile EXCEPT !.deleted = TRUE]
  /\ sessions' = [s \in DOMAIN sessions |-> [sessions[s] EXCEPT !.status = "gone"]]
  /\ late' = (late \/ task[t].missed)
  /\ UNCHANGED <<purse, incoming, login, links>>

NextSessions ==
  \/ \E l \in Logins : SignIn(l) \/ FirstStep(l) \/ ExpireLogin(l)
  \/ \E s \in DOMAIN sessions : Logout(s) \/ RevokeOthers(s) \/ ExpireSession(s)
  \/ RevokeAll \/ DepositPending \/ DepositFails \/ DepositCredited \/ MoneyIn \/ MoneyOut
  \/ \E t \in Tasks :
       \/ \E l \in Logins : VerifyPhone(t, l)
       \/ \E s \in DOMAIN sessions : FindSession(t, s)
       \/ \E k \in DOMAIN links : ReadLink(t, k)
       \/ ClaimLogin(t) \/ IssueSession(t) \/ ClaimSession(t)
       \/ RefreshRace(t) \/ HandleTokenTheft(t) \/ VerifyEmail(t)
       \/ BeginSend(t) \/ FindOlder(t) \/ SendLink(t)
       \/ CheckBalance(t) \/ CheckDeposits(t) \/ DeleteAccount(t)

----------------------------------------------------------------------------
(* Properties.                                                             *)

\* A login and a refresh token are good once: no two sessions were opened for the
\* same, however often and at whatever moment they were presented.
OneHeir ==
  \A s, r \in DOMAIN sessions : s # r => sessions[s].of # sessions[r].of

\* The device that refreshed goes on with the new session: the one before is over.
OneLiveOfALine ==
  \A s, r \in DOMAIN sessions : sessions[s].of = r => ~Live(r)

\* "Any older unused link stops working once a new one is issued": those sent before
\* the new one was asked for.  (Two requests that overlap leave two links that work.)
OlderLinksStop ==
  \A k, m \in DOMAIN links : k <= links[m].after => links[k].status = "used"

\* "Account cannot be deleted while wallet balance is not zero": and neither a deposit
\* that was pending nor a balance that a check had seen is in it afterwards, unless it
\* came or was announced after the check.
DeletedIsEmpty == profile.deleted /\ ~late => purse = 0

\* What sign-in, refresh, confirmation and deletion promise, with requests repeated,
\* at the same time and after what they read has changed.
SessionsInv ==
  SessionsTypeOK /\ OneHeir /\ OneLiveOfALine /\ OlderLinksStop /\ DeletedIsEmpty

=============================================================================
