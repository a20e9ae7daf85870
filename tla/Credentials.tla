----------------------------- MODULE Credentials -----------------------------
(***************************************************************************)
(* Passwords and sessions: logins, password changes, administrative and    *)
(* emailed password resets, email binding and status changes, as they      *)
(* interleave on one users row and its sessions rows.                      *)
(*                                                                         *)
(* A login reads the users row, verifies the password and inserts the      *)
(* session, with nothing that ties the two statements together.  The other *)
(* requests update the users row, which locks it, then revoke the sessions *)
(* they see, then commit: what they wrote shows only then.                 *)
(*                                                                         *)
(* A password is a number that grows with every hash stored.  epoch counts *)
(* the commits that must have ended every session of the user, and overlap *)
(* remembers that such a commit fell between two steps of a request: both  *)
(* are history, no step depends on them.                                   *)
(***************************************************************************)
EXTENDS Naturals, FiniteSets

CONSTANTS
  User,      \* users, and names not registered yet
  Session,   \* sessions rows that can be inserted (a bound)
  Request,   \* slots for concurrent requests
  NoUser,
  MaxEpoch   \* bound: commits that revoke the sessions of a user

ASSUME CredentialsAssumption == MaxEpoch \in Nat /\ NoUser \notin User

VARIABLES
  status,     \* users.status, "absent" before the row is inserted
  password,   \* users.password_hash
  mustChange, \* users.must_change_password
  verified,   \* users.email_verified_at is set
  resetCode,  \* a reset_password challenge is waiting for its code
  session,    \* the sessions rows
  request,    \* the request in each slot
  epoch       \* history: commits that had to revoke the user's sessions

vars == <<status, password, mustChange, verified, resetCode, session, request, epoch>>

Statuses == {"active", "disabled", "deleted"}

\* user is NoUser before the INSERT; live: revoked_at IS NULL; epoch: when the
\* password was verified.
SessionRow == [user : User \cup {NoUser}, live : BOOLEAN, epoch : Nat, overlap : BOOLEAN]

Kinds == {"login", "change", "bind", "reset", "temporary", "status"}

\* known: the password that was verified; to: the status to write; row: the
\* UPDATE of users found the row; revoked: the sessions that the transaction revokes.
RequestState ==
  [step : {"idle", "admitted", "verified", "updated", "revoked"}, kind : Kinds,
   user : User \cup {NoUser}, known : Nat, to : Statuses, row : BOOLEAN,
   revoked : SUBSET Session, epoch : Nat, overlap : BOOLEAN]

NoSession == [user |-> NoUser, live |-> FALSE, epoch |-> 0, overlap |-> FALSE]
Free == [step |-> "idle", kind |-> "login", user |-> NoUser, known |-> 0, to |-> "active",
         row |-> FALSE, revoked |-> {}, epoch |-> 0, overlap |-> FALSE]

TypeOK ==
  /\ status \in [User -> Statuses \cup {"absent"}]
  /\ password \in [User -> Nat]
  /\ mustChange \in [User -> BOOLEAN]
  /\ verified \in [User -> BOOLEAN]
  /\ resetCode \in [User -> BOOLEAN]
  /\ session \in [Session -> SessionRow]
  /\ request \in [Request -> RequestState]
  /\ epoch \in [User -> Nat]
  /\ \A r \in Request : request[r].step # "idle" => request[r].user \in User

Init ==
  /\ status = [u \in User |-> "absent"]
  /\ password = [u \in User |-> 0]
  /\ mustChange = [u \in User |-> FALSE]
  /\ verified = [u \in User |-> FALSE]
  /\ resetCode = [u \in User |-> FALSE]
  /\ session = [s \in Session |-> NoSession]
  /\ request = [r \in Request |-> Free]
  /\ epoch = [u \in User |-> 0]

users == <<status, password, mustChange, verified>>

\* A request of this kind about u enters a slot at a step.
Start(step, kind, u) ==
  [Free EXCEPT !.step = step, !.kind = kind, !.user = u, !.epoch = epoch[u]]

Exists(u) == status[u] # "absent"
Live(s) == session[s].user # NoUser /\ session[s].live

\* A status change to active revokes nothing.
Revokes(r) == ~(request[r].kind = "status" /\ request[r].to = "active")

-----------------------------------------------------------------------------
(* New accounts and logins.                                                *)

\* createUser, by an administrator: a temporary password.
CreateUser(u) ==
  /\ ~Exists(u)
  /\ status' = [status EXCEPT ![u] = "active"]
  /\ password' = [password EXCEPT ![u] = 1]
  /\ mustChange' = [mustChange EXCEPT ![u] = TRUE]
  /\ UNCHANGED <<verified, resetCode, session, request, epoch>>

\* registerDesktop: INSERT of the user; issueDesktopSession follows.
Register(r, u) ==
  /\ request[r].step = "idle" /\ ~Exists(u)
  /\ status' = [status EXCEPT ![u] = "active"]
  /\ password' = [password EXCEPT ![u] = 1]
  /\ request' = [request EXCEPT ![r] = [Start("verified", "login", u) EXCEPT !.known = 1]]
  /\ verified' = [verified EXCEPT ![u] = TRUE]
  /\ UNCHANGED <<mustChange, resetCode, session, epoch>>

\* login and desktopLogin: SELECT of an active user, whose password is right.
Login(r, u) ==
  /\ request[r].step = "idle" /\ status[u] = "active"
  /\ request' = [request EXCEPT ![r] = [Start("verified", "login", u) EXCEPT
                                          !.known = password[u]]]
  /\ UNCHANGED <<users, resetCode, session, epoch>>

\* INSERT INTO sessions, committed at once.
OpenSession(r, s) ==
  LET u == request[r].user IN
  /\ request[r].step = "verified" /\ request[r].kind = "login"
  /\ session[s].user = NoUser
  /\ session' = [session EXCEPT ![s] =
       [user |-> u, live |-> TRUE, epoch |-> request[r].epoch,
        overlap |-> \/ request[r].overlap
                    \/ \E q \in Request :
                         request[q].user = u /\ request[q].step = "revoked" /\ Revokes(q)]]
  /\ request' = [request EXCEPT ![r] = Free]
  /\ UNCHANGED <<users, resetCode, epoch>>

\* logout and desktopLogout of an authenticated session.
Logout(s) ==
  /\ Live(s) /\ status[session[s].user] = "active"
  /\ session' = [session EXCEPT ![s].live = FALSE]
  /\ UNCHANGED <<users, resetCode, request, epoch>>

-----------------------------------------------------------------------------
(* Plausible slips in the code, not used by the specification.             *)

\* The password is verified against a hash that was cached.
VerifyCachedPassword(r) ==
  LET u == request[r].user IN
  /\ request[r].step = "admitted"
  /\ \E k \in 1..password[u] :
       request' = [request EXCEPT ![r].step = "verified", ![r].known = k,
                                  ![r].epoch = epoch[u], ![r].overlap = FALSE]
  /\ UNCHANGED <<users, resetCode, session, epoch>>

\* Only deletion ends the sessions; a disabled user could not use them anyway.
RevokeUnlessDisabled(r) ==
  /\ request[r].step = "updated"
  /\ request' = [request EXCEPT ![r].step = "revoked",
       ![r].revoked = IF request[r].kind = "status" /\ request[r].to # "deleted" THEN {}
                      ELSE {s \in Session : session[s].user = request[r].user}]
  /\ UNCHANGED <<users, resetCode, session, epoch>>

-----------------------------------------------------------------------------
(* Requests that change a users row and revoke its sessions.               *)

\* requireAuthentication or requireDesktopAuthentication let the session through
\* to changePassword, desktopChangePassword or (behind requireDesktopReady) bindEmail.
Admit(r, s, kind) ==
  LET u == session[s].user IN
  /\ request[r].step = "idle"
  /\ Live(s) /\ status[u] = "active"
  /\ kind = "bind" => ~mustChange[u]
  /\ request' = [request EXCEPT ![r] = Start("admitted", kind, u)]
  /\ UNCHANGED <<users, resetCode, session, epoch>>

\* SELECT password_hash, and the current password is right.
VerifyPassword(r) ==
  LET u == request[r].user IN
  /\ request[r].step = "admitted"
  /\ request' = [request EXCEPT ![r].step = "verified", ![r].known = password[u],
                                ![r].epoch = epoch[u], ![r].overlap = FALSE]
  /\ UNCHANGED <<users, resetCode, session, epoch>>

\* resetPasswordCode mails a code to the verified address of an active user.
ResetPasswordCode(u) ==
  /\ status[u] = "active" /\ verified[u]
  /\ resetCode' = [resetCode EXCEPT ![u] = TRUE]
  /\ UNCHANGED <<users, session, request, epoch>>

\* resetPassword: Verify uses up the code, in a transaction of its own.
ResetPassword(r, u) ==
  /\ request[r].step = "idle" /\ resetCode[u]
  /\ request' = [request EXCEPT ![r] = Start("verified", "reset", u)]
  /\ resetCode' = [resetCode EXCEPT ![u] = FALSE]
  /\ UNCHANGED <<users, session, epoch>>

\* resetUserPassword: an administrator makes a temporary password.
ResetUserPassword(r, u) ==
  /\ request[r].step = "idle" /\ Exists(u)
  /\ request' = [request EXCEPT ![r] = Start("verified", "temporary", u)]
  /\ UNCHANGED <<users, resetCode, session, epoch>>

\* updateUserStatus, by an administrator.
UpdateUserStatus(r, u, to) ==
  /\ request[r].step = "idle" /\ Exists(u)
  /\ request' = [request EXCEPT ![r] = [Start("verified", "status", u) EXCEPT !.to = to]]
  /\ UNCHANGED <<users, resetCode, session, epoch>>

\* A transaction that has updated the users row and not yet ended locks it.
Locked(u) ==
  \E q \in Request : request[q].user = u /\ request[q].step \in {"updated", "revoked"}

\* The WHERE clause of the handler's UPDATE of users.
Matches(r) ==
  LET u == request[r].user IN
  CASE request[r].kind = "reset" -> status[u] = "active"
    [] request[r].kind = "temporary" -> status[u] # "deleted"
    [] OTHER -> TRUE

\* UPDATE users, once the row is free.  resetUserPassword gives up when no row
\* matched, resetPassword does not look.
UpdateUser(r) ==
  /\ request[r].step = "verified" /\ request[r].kind # "login"
  /\ ~Locked(request[r].user)
  /\ request[r].kind = "temporary" => Matches(r)
  /\ request' = [request EXCEPT ![r].step = "updated", ![r].row = Matches(r)]
  /\ UNCHANGED <<users, resetCode, session, epoch>>

\* UPDATE sessions SET revoked_at, of the sessions inserted so far.
Revoke(r) ==
  /\ request[r].step = "updated"
  /\ request' = [request EXCEPT ![r].step = "revoked",
       ![r].revoked = IF Revokes(r) THEN {s \in Session : session[s].user = request[r].user}
                      ELSE {}]
  /\ UNCHANGED <<users, resetCode, session, epoch>>

SetsPassword(r) == request[r].kind \in {"change", "reset", "temporary"} /\ request[r].row

\* COMMIT, and the answer to the client.
Commit(r) ==
  LET u == request[r].user IN
  /\ request[r].step = "revoked"
  /\ Revokes(r) => epoch[u] < MaxEpoch
  /\ status' = [status EXCEPT ![u] = IF request[r].kind = "status" THEN request[r].to ELSE @]
  /\ password' = [password EXCEPT ![u] = IF SetsPassword(r) THEN @ + 1 ELSE @]
  /\ mustChange' = [mustChange EXCEPT ![u] =
                      IF SetsPassword(r) THEN request[r].kind = "temporary" ELSE @]
  /\ verified' = [verified EXCEPT ![u] = @ \/ request[r].kind = "bind"]
  /\ session' = [s \in Session |->
                   IF s \in request[r].revoked THEN [session[s] EXCEPT !.live = FALSE]
                   ELSE session[s]]
  /\ epoch' = [epoch EXCEPT ![u] = IF Revokes(r) THEN @ + 1 ELSE @]
  /\ request' = [q \in Request |->
                   IF q = r THEN Free
                   ELSE IF request[q].user = u /\ Revokes(r)
                   THEN [request[q] EXCEPT !.overlap = TRUE]
                   ELSE request[q]]
  /\ UNCHANGED resetCode

\* A wrong password or code, an error, a cancelled request or a crash.
Abort(r) ==
  /\ request[r].step # "idle"
  /\ request' = [request EXCEPT ![r] = Free]
  /\ UNCHANGED <<users, resetCode, session, epoch>>

Next ==
  \/ \E u \in User : CreateUser(u) \/ ResetPasswordCode(u)
  \/ \E s \in Session : Logout(s)
  \/ \E r \in Request :
       \/ \E u \in User : Register(r, u) \/ Login(r, u)
       \/ \E u \in User : ResetPassword(r, u) \/ ResetUserPassword(r, u)
       \/ \E u \in User, to \in Statuses : UpdateUserStatus(r, u, to)
       \/ \E s \in Session : OpenSession(r, s)
       \/ \E s \in Session, kind \in {"change", "bind"} : Admit(r, s, kind)
       \/ VerifyPassword(r) \/ UpdateUser(r) \/ Revoke(r) \/ Commit(r) \/ Abort(r)

Spec == Init /\ [][Next]_vars

-----------------------------------------------------------------------------
(* Properties.                                                             *)

\* A session opened before a password change, reset, email binding, disabling
\* or deletion and still alive after it is one whose login overlapped it: the
\* revocation misses no session of a login that was answered before it began.
SurvivorsOverlapped ==
  \A s \in Session : Live(s) /\ session[s].epoch # epoch[session[s].user] => session[s].overlap

\* A password is replaced by an administrator, with an emailed code, or by
\* someone who gave that very password; only a change that was already verified
\* when another one committed overwrites a password it never saw.
ReplacedKnowingly ==
  [][\A u \in User : password[u] # 0 /\ password'[u] # password[u] =>
       \E r \in Request :
         /\ request[r].step = "revoked" /\ request'[r].step = "idle" /\ request[r].user = u
         /\ \/ request[r].kind \in {"reset", "temporary"}
            \/ request[r].known = password[u]
            \/ request[r].overlap]_vars

\* "Password changed and all sessions revoked", "Password reset and all sessions
\* revoked", "Email verified and all sessions revoked": no session of the user
\* is alive when the answer is sent.
AllSessionsRevoked ==
  [][\A r \in Request : request[r].kind \in {"change", "reset", "bind"} /\ Commit(r) =>
       \A s \in Session : session[s].user = request[r].user => ~session'[s].live]_vars
=============================================================================
