------------------------------ MODULE Identities ------------------------------
(***************************************************************************)
(* Who is who: user names, email addresses and the accounts they name,     *)
(* from the request for a code to the registration or binding it allows,   *)
(* with the accounts that administrators and mhedctl create and delete.    *)
(*                                                                         *)
(* Each handler looks before it acts: that a name or an address is free is *)
(* found out before a code is mailed, and decided by the unique indexes    *)
(* when the code is back.  What a code does in between is VerificationCode *)
(* (which EmailOutbox implements).  mhedctl writes the new password into a *)
(* file of its own before it inserts the account.                          *)
(*                                                                         *)
(* Names and addresses that differ in case only are one here: every        *)
(* statement compares lower(...).  Passwords and sessions are Credentials. *)
(***************************************************************************)
EXTENDS Naturals, FiniteSets

CONSTANTS
  Account,     \* users rows that can be inserted (a bound)
  Name,        \* user names
  Email,       \* email addresses: no name is one
  Code,        \* challenges that can be inserted (a bound)
  Request,     \* slots for concurrent requests and commands
  MaxGuesses,  \* wrong guesses that void a code
  NoAccount, NoName, NoEmail, NoFile, Orphan

ASSUME IdentitiesAssumption ==
  /\ MaxGuesses \in Nat \ {0}
  /\ Name \cap Email = {} /\ NoAccount \notin Account
  /\ {NoName, NoEmail} \cap (Name \cup Email) = {}
  /\ Request \cap Account = {} /\ NoFile # Orphan
  /\ {NoFile, Orphan} \cap (Request \cup Account) = {}

VARIABLES
  account,  \* the users rows
  code,     \* what each challenge was mailed for
  phase,    \* the life of its code, see VerificationCode
  wrong,
  request,  \* the request or command in each slot
  file      \* the credential file: whose password it holds, if there is one

identityVars == <<account, code, phase, wrong, request, file>>

Codes == INSTANCE VerificationCode
codes == <<phase, wrong>>

\* name is NoName before the row is inserted; proved: email_verified_at is set.
User == [name : Name \cup {NoName}, email : Email \cup {NoEmail}, proved : BOOLEAN,
        status : {"active", "disabled", "deleted"}]
NoUser == [name |-> NoName, email |-> NoEmail, proved |-> FALSE, status |-> "active"]

\* What a challenge, or the request that asks for or uses it, is about.  rival is
\* history: another account took the name or address since it was found free.
Claim == [kind : {"none", "register", "bind", "local"}, account : Account \cup {NoAccount},
          name : Name \cup {NoName}, email : Email \cup {NoEmail}, rival : BOOLEAN]
NoClaim == [kind |-> "none", account |-> NoAccount, name |-> NoName, email |-> NoEmail,
            rival |-> FALSE]

\* A request has found its claim free ("checked"), has spent the code for it
\* ("redeemed"), or has written the password for it ("filed").
Slot == [step : {"idle", "checked", "redeemed", "filed"}, claim : Claim]
Free == [step |-> "idle", claim |-> NoClaim]

IdentitiesTypeOK ==
  /\ account \in [Account -> User]
  /\ code \in [Code -> Claim]
  /\ Codes!TypeOK
  /\ request \in [Request -> Slot]
  /\ file \in Request \cup Account \cup {NoFile, Orphan}

IdentitiesInit ==
  /\ account = [a \in Account |-> NoUser]
  /\ code = [c \in Code |-> NoClaim]
  /\ Codes!Init
  /\ request = [r \in Request |-> Free]
  /\ file = NoFile

Exists(a) == account[a].name # NoName

-----------------------------------------------------------------------------
(* The unique indexes, and the history of claims.                          *)

\* users_username_unique_ci
NameTaken(n) == \E a \in Account : account[a].name = n

\* Wrong: the index covers active accounts only.
EmailTakenByActive(e, own) ==
  e # NoEmail /\ \E a \in Account \ {own} : account[a].email = e /\ account[a].status = "active"

\* users_email_unique_ci, for the row of account own.
EmailTaken(e, own) ==
  e # NoEmail /\ \E a \in Account \ {own} : account[a].email = e /\ account[a].status # "deleted"

\* A row that account a has stands in the way of a claim.
Blocks(a, row, claim) ==
  /\ claim.kind \in {"register", "bind"} /\ a # claim.account
  /\ \/ claim.kind = "register" /\ row.name = claim.name
     \/ row.email = claim.email /\ row.status # "deleted"

Overtaken(claim, a, row) ==
  [claim EXCEPT !.rival = @ \/ (Blocks(a, row, claim) /\ ~Blocks(a, account[a], claim))]

\* Account a gets a row, in a step after which the requests are as next has them.
Put(a, row, next) ==
  /\ account' = [account EXCEPT ![a] = row]
  /\ code' = [c \in Code |-> Overtaken(code[c], a, row)]
  /\ request' = [r \in Request |-> [next[r] EXCEPT !.claim = Overtaken(@, a, row)]]

Ended(r) == [request EXCEPT ![r] = Free]
Proceed(r, step, claim) == request' = [request EXCEPT ![r] = [step |-> step, claim |-> claim]]

-----------------------------------------------------------------------------
(* Administrators.                                                         *)

\* Wrong: a status the CHECK constraint of the table does not know.
CreateUserInvited(a, n, e) ==
  /\ ~Exists(a) /\ ~NameTaken(n) /\ ~EmailTaken(e, a)
  /\ Put(a, [NoUser EXCEPT !.name = n, !.email = e, !.status = "invited"], request)
  /\ UNCHANGED <<codes, file>>

\* createUser: an address nobody proved, or none.
CreateUser(a, n, e) ==
  /\ ~Exists(a) /\ ~NameTaken(n) /\ ~EmailTaken(e, a)
  /\ Put(a, [NoUser EXCEPT !.name = n, !.email = e], request)
  /\ UNCHANGED <<codes, file>>

\* updateUserStatus; a deleted account comes back if its address is still free.
UpdateUserStatus(a, to) ==
  /\ Exists(a)
  /\ to # "deleted" => ~EmailTaken(account[a].email, a)
  /\ Put(a, [account[a] EXCEPT !.status = to], request)
  /\ UNCHANGED <<codes, file>>

-----------------------------------------------------------------------------
(* Codes: looked up, mailed, spent.                                        *)

\* Wrong: the name of a deleted account is taken for free.
RegisterCodeIgnoringDeleted(r, n, e) ==
  /\ request[r].step = "idle"
  /\ \A a \in Account : account[a].name = n => account[a].status = "deleted"
  /\ ~EmailTaken(e, NoAccount)
  /\ Proceed(r, "checked", [NoClaim EXCEPT !.kind = "register", !.name = n, !.email = e])
  /\ UNCHANGED <<account, code, codes, file>>

\* registerCode finds name and address free.
RegisterCode(r, n, e) ==
  /\ request[r].step = "idle"
  /\ ~NameTaken(n) /\ ~EmailTaken(e, NoAccount)
  /\ Proceed(r, "checked", [NoClaim EXCEPT !.kind = "register", !.name = n, !.email = e])
  /\ UNCHANGED <<account, code, codes, file>>

\* bindEmailCode, of a user who is logged in, finds the address free.
BindEmailCode(r, a, e) ==
  /\ request[r].step = "idle"
  /\ Exists(a) /\ account[a].status = "active" /\ ~EmailTaken(e, a)
  /\ Proceed(r, "checked", [NoClaim EXCEPT !.kind = "bind", !.account = a, !.email = e])
  /\ UNCHANGED <<account, code, codes, file>>

\* enqueueCode.
EnqueueCode(r, c) ==
  /\ request[r].step = "checked" /\ request[r].claim.kind # "local"
  /\ Codes!Issue(c)
  /\ code' = [code EXCEPT ![c] = request[r].claim]
  /\ request' = Ended(r)
  /\ UNCHANGED <<account, file>>

\* Mails are sent or given up, codes are guessed and expire.
MailAndTime ==
  /\ \/ \E c \in Code : Codes!Activate(c) \/ Codes!Abandon(c) \/ Codes!Guess(c)
     \/ \E c \in Code : Codes!Lapse({c})
  /\ UNCHANGED <<account, code, request, file>>

\* Verify for registerDesktop: a code for a registration.
RedeemRegistration(r, c) ==
  /\ request[r].step = "idle"
  /\ code[c].kind = "register"
  /\ Codes!Redeem(c)
  /\ Proceed(r, "redeemed", code[c])
  /\ UNCHANGED <<account, code, file>>

\* Wrong: Verify does not look whose code it is.
RedeemAnyBinding(r, c, a) ==
  /\ request[r].step = "idle"
  /\ Exists(a) /\ account[a].status = "active"
  /\ code[c].kind = "bind"
  /\ Codes!Redeem(c)
  /\ Proceed(r, "redeemed", [code[c] EXCEPT !.account = a])
  /\ UNCHANGED <<account, code, file>>

\* Verify for bindEmail: a code for this user's binding.
RedeemBinding(r, c, a) ==
  /\ request[r].step = "idle"
  /\ Exists(a) /\ account[a].status = "active"
  /\ code[c].kind = "bind" /\ code[c].account = a
  /\ Codes!Redeem(c)
  /\ Proceed(r, "redeemed", code[c])
  /\ UNCHANGED <<account, code, file>>

\* The indexes refuse what a request has spent a code for.
Refused(r) ==
  LET claim == request[r].claim IN
  IF claim.kind = "register"
  THEN NameTaken(claim.name) \/ EmailTaken(claim.email, NoAccount)
  ELSE account[claim.account].status # "deleted" /\ EmailTaken(claim.email, claim.account)

\* registerDesktop: INSERT INTO users.
InsertRegistered(r, a) ==
  LET claim == request[r].claim IN
  /\ request[r].step = "redeemed" /\ claim.kind = "register"
  /\ ~Exists(a) /\ ~Refused(r)
  /\ Put(a, [NoUser EXCEPT !.name = claim.name, !.email = claim.email, !.proved = TRUE], Ended(r))
  /\ UNCHANGED <<codes, file>>

\* bindEmail: UPDATE users ... WHERE id, whatever the account has become.
BindEmail(r) ==
  LET a == request[r].claim.account IN
  /\ request[r].step = "redeemed" /\ request[r].claim.kind = "bind"
  /\ ~Refused(r)
  /\ Put(a, [account[a] EXCEPT !.email = request[r].claim.email, !.proved = TRUE], Ended(r))
  /\ UNCHANGED <<codes, file>>

\* The statement is refused, or the request fails or dies: a code is lost.
Abort(r) ==
  /\ request[r].step \in {"checked", "redeemed"}
  /\ request' = Ended(r)
  /\ UNCHANGED <<account, code, codes, file>>

-----------------------------------------------------------------------------
(* mhedctl create-local-user and bootstrap-super-admin.                    *)

\* The name is found free; otherwise the command ends.
CheckLocal(r, n) ==
  /\ request[r].step = "idle" /\ ~NameTaken(n)
  /\ Proceed(r, "checked", [NoClaim EXCEPT !.kind = "local", !.name = n])
  /\ UNCHANGED <<account, code, codes, file>>

\* Wrong: without O_EXCL the file of another command is written over.
WriteFileOver(r) ==
  /\ request[r].step = "checked" /\ request[r].claim.kind = "local"
  /\ file' = r
  /\ Proceed(r, "filed", request[r].claim)
  /\ UNCHANGED <<account, code, codes>>

\* O_CREATE|O_EXCL: the password goes into a file that was not there.
WriteFile(r) ==
  /\ request[r].step = "checked" /\ request[r].claim.kind = "local"
  /\ file = NoFile
  /\ file' = r
  /\ Proceed(r, "filed", request[r].claim)
  /\ UNCHANGED <<account, code, codes>>

\* INSERT, committed, and the command knows it.
InsertLocal(r, a) ==
  LET n == request[r].claim.name IN
  /\ request[r].step = "filed"
  /\ ~Exists(a) /\ ~NameTaken(n)
  /\ Put(a, [NoUser EXCEPT !.name = n], Ended(r))
  /\ file' = IF file = r THEN a ELSE file
  /\ UNCHANGED codes

\* INSERT, committed, but the answer is lost: the file is removed.
InsertUnanswered(r, a) ==
  LET n == request[r].claim.name IN
  /\ request[r].step = "filed"
  /\ ~Exists(a) /\ ~NameTaken(n)
  /\ Put(a, [NoUser EXCEPT !.name = n], Ended(r))
  /\ file' = NoFile
  /\ UNCHANGED codes

\* The INSERT fails, since the name was taken meanwhile or for any other reason.
InsertFails(r) ==
  /\ request[r].step = "filed"
  /\ request' = Ended(r)
  /\ file' = NoFile
  /\ UNCHANGED <<account, code, codes>>

\* The command dies after it wrote the file.
DieWithFile(r) ==
  /\ request[r].step = "filed"
  /\ request' = Ended(r)
  /\ file' = IF file = r THEN Orphan ELSE file
  /\ UNCHANGED <<account, code, codes>>

\* External: the operator reads the password and removes the file.
TakeFile ==
  /\ file \in Account \cup {Orphan}
  /\ file' = NoFile
  /\ UNCHANGED <<account, code, codes, request>>

IdentitiesNext ==
  \/ \E a \in Account, n \in Name, e \in Email \cup {NoEmail} : CreateUser(a, n, e)
  \/ \E a \in Account, to \in {"active", "disabled", "deleted"} : UpdateUserStatus(a, to)
  \/ \E r \in Request :
       \/ \E n \in Name, e \in Email : RegisterCode(r, n, e)
       \/ \E a \in Account, e \in Email : BindEmailCode(r, a, e)
       \/ \E c \in Code : EnqueueCode(r, c) \/ RedeemRegistration(r, c)
       \/ \E c \in Code, a \in Account : RedeemBinding(r, c, a)
       \/ \E a \in Account : InsertRegistered(r, a) \/ InsertLocal(r, a) \/ InsertUnanswered(r, a)
       \/ \E n \in Name : CheckLocal(r, n)
       \/ BindEmail(r) \/ Abort(r) \/ WriteFile(r) \/ InsertFails(r) \/ DieWithFile(r)
  \/ MailAndTime
  \/ TakeFile

IdentitiesSpec == IdentitiesInit /\ [][IdentitiesNext]_identityVars

-----------------------------------------------------------------------------
(* Properties.                                                             *)

\* The rows desktopLogin's SELECT may take for what was typed, in any order.
Selected(typed) ==
  {a \in Account : account[a].name = typed \/ (account[a].proved /\ account[a].email = typed)}

Active(a) == Exists(a) /\ account[a].status = "active"

\* Every address an account holds as verified was proved for that account: a code
\* mailed to it for this user's binding, or for the registration of this name, was
\* spent, whatever became of the account and of other claims on the way.
AddressProved ==
  \A a \in Account : account[a].proved =>
    \E c \in Code :
      /\ phase[c] = "redeemed" /\ code[c].email = account[a].email
      /\ \/ code[c].kind = "bind" /\ code[c].account = a
         \/ code[c].kind = "register" /\ code[c].name = account[a].name

\* A code that was spent is lost to the unique indexes only if another account
\* took the name or the address after it was found free: what registerCode and
\* bindEmailCode look up is what the indexes will ask for.
CodeLostOnlyToRival ==
  \A r \in Request : request[r].step = "redeemed" /\ Refused(r) => request[r].claim.rival

\* What an active account can log in with, its name or its verified address,
\* selects besides it only accounts that were deleted.
ShadowedOnlyByDeleted ==
  \A a \in Account : Active(a) =>
    \A typed \in {account[a].name} \cup (IF account[a].proved THEN {account[a].email} ELSE {}) :
      \A b \in Selected(typed) : b = a \/ account[b].status = "deleted"

\* A mhedctl command that reports a new account leaves its password in the file,
\* however many of them run.
PasswordLeftInFile ==
  [][\A r \in Request, a \in Account : InsertLocal(r, a) => file' = a]_identityVars

\* "username or verified email": the address an active account has verified
\* selects that account for a login, and no other.
LoginFindsAccount ==
  \A a \in Account : Active(a) /\ account[a].proved => Selected(account[a].email) = {a}
=============================================================================
