-------------------------- MODULE CredentialsProofs --------------------------
(***************************************************************************)
(* What revoking sessions guarantees, and whose password a password change *)
(* replaces, for any number of users, sessions and concurrent requests.    *)
(***************************************************************************)
EXTENDS Credentials, TLAPS

\* A request newly in its slot.
LEMMA StartType ==
  ASSUME TypeOK, NEW step \in {"admitted", "verified"}, NEW kind \in Kinds, NEW u \in User
  PROVE  /\ Start(step, kind, u) \in RequestState
         /\ Start(step, kind, u).step = step /\ Start(step, kind, u).user = u
         /\ Start(step, kind, u).kind = kind /\ Start(step, kind, u).epoch = epoch[u]
BY DEF Start, Free, RequestState, TypeOK, Statuses, Kinds

\* The slot after each step that starts a request: all the steps but Commit
\* change at most one slot.
LEMMA FreeType == Free \in RequestState /\ Free.step = "idle" /\ Free.user = NoUser
BY DEF Free, RequestState, Statuses, Kinds

\* COMMIT frees its slot and at most marks the others.
LEMMA CommitEffect ==
  ASSUME TypeOK, NEW r \in Request, Commit(r)
  PROVE  /\ request' \in [Request -> RequestState]
         /\ request'[r] = Free
         /\ \A q \in Request \ {r} :
              /\ request'[q].step = request[q].step /\ request'[q].kind = request[q].kind
              /\ request'[q].user = request[q].user /\ request'[q].known = request[q].known
              /\ request'[q].to = request[q].to /\ request'[q].revoked = request[q].revoked
              /\ request'[q].epoch = request[q].epoch
              /\ request[q].overlap => request'[q].overlap
              /\ request[q].user = request[r].user /\ Revokes(r) => request'[q].overlap
<1>1. \A f \in RequestState : LET m == [f EXCEPT !.overlap = TRUE] IN
        /\ m \in RequestState
        /\ m.step = f.step /\ m.kind = f.kind /\ m.user = f.user /\ m.known = f.known
        /\ m.to = f.to /\ m.revoked = f.revoked /\ m.epoch = f.epoch /\ m.overlap = TRUE
  BY DEF RequestState
<1>2. request' = [q \in Request |->
                   IF q = r THEN Free
                   ELSE IF request[q].user = request[r].user /\ Revokes(r)
                   THEN [request[q] EXCEPT !.overlap = TRUE]
                   ELSE request[q]]
  BY DEF Commit
<1>3. \A q \in Request : request[q] \in RequestState
  BY DEF TypeOK
<1> DEFINE marked(q) == [request[q] EXCEPT !.overlap = TRUE]
<1>4. \A q \in Request :
        /\ marked(q) \in RequestState
        /\ marked(q).step = request[q].step /\ marked(q).kind = request[q].kind
        /\ marked(q).user = request[q].user /\ marked(q).known = request[q].known
        /\ marked(q).to = request[q].to /\ marked(q).revoked = request[q].revoked
        /\ marked(q).epoch = request[q].epoch /\ marked(q).overlap = TRUE
  BY <1>1, <1>3
<1>5. request' = [q \in Request |->
                   IF q = r THEN Free
                   ELSE IF request[q].user = request[r].user /\ Revokes(r) THEN marked(q)
                   ELSE request[q]]
  BY <1>2
<1> HIDE DEF marked
<1>6. \A q \in Request : request'[q] = IF q = r THEN Free
                   ELSE IF request[q].user = request[r].user /\ Revokes(r) THEN marked(q)
                   ELSE request[q]
  BY <1>5
<1>7. QED
  BY <1>3, <1>4, <1>5, <1>6, FreeType

\* A step that starts a request about u: its slot, and no other.
LEMMA BeginEffect ==
  ASSUME TypeOK, NEW r \in Request, NEW u \in User,
         \/ Register(r, u) \/ Login(r, u) \/ ResetPassword(r, u) \/ ResetUserPassword(r, u)
         \/ \E to \in Statuses : UpdateUserStatus(r, u, to)
         \/ \E s \in Session, kind \in {"change", "bind"} : Admit(r, s, kind) /\ session[s].user = u
  PROVE  /\ request' \in [Request -> RequestState]
         /\ \A q \in Request \ {r} : request'[q] = request[q]
         /\ request'[r].user = u /\ request'[r].epoch = epoch[u]
         /\ request'[r].step \in {"admitted", "verified"}
         /\ request'[r].kind = "change" => request'[r].step = "admitted"
<1>0. epoch[u] \in Nat /\ password[u] \in Nat
  BY DEF TypeOK
<1>1. PICK f \in RequestState : /\ request' = [request EXCEPT ![r] = f]
                                /\ f.user = u /\ f.epoch = epoch[u]
                                /\ f.step \in {"admitted", "verified"}
                                /\ f.kind = "change" => f.step = "admitted"
  <2>1. CASE Register(r, u)
    <3> DEFINE f == [Start("verified", "login", u) EXCEPT !.known = 1]
    <3>1. f \in RequestState /\ f.user = u /\ f.epoch = epoch[u] /\ f.step \in {"admitted", "verified"}
          /\ (f.kind = "change" => f.step = "admitted")
      BY <1>0 DEF Start, Free, RequestState, Statuses, Kinds
    <3>2. request' = [request EXCEPT ![r] = f]
      BY <2>1 DEF Register
    <3> HIDE DEF f
    <3>3. QED
      BY <3>1, <3>2
  <2>2. CASE Login(r, u)
    <3> DEFINE f == [Start("verified", "login", u) EXCEPT !.known = password[u]]
    <3>1. f \in RequestState /\ f.user = u /\ f.epoch = epoch[u] /\ f.step \in {"admitted", "verified"}
          /\ (f.kind = "change" => f.step = "admitted")
      BY <1>0 DEF Start, Free, RequestState, Statuses, Kinds
    <3>2. request' = [request EXCEPT ![r] = f]
      BY <2>2 DEF Login
    <3> HIDE DEF f
    <3>3. QED
      BY <3>1, <3>2
  <2>3. CASE ResetPassword(r, u) \/ ResetUserPassword(r, u)
    BY <2>3, StartType DEF ResetPassword, ResetUserPassword, Kinds
  <2>4. CASE \E to \in Statuses : UpdateUserStatus(r, u, to)
    <3>0. PICK to \in Statuses : UpdateUserStatus(r, u, to)
      BY <2>4
    <3> DEFINE f == [Start("verified", "status", u) EXCEPT !.to = to]
    <3>1. f \in RequestState /\ f.user = u /\ f.epoch = epoch[u] /\ f.step \in {"admitted", "verified"}
          /\ (f.kind = "change" => f.step = "admitted")
      BY <1>0 DEF Start, Free, RequestState, Statuses, Kinds
    <3>2. request' = [request EXCEPT ![r] = f]
      BY <3>0 DEF UpdateUserStatus
    <3> HIDE DEF f
    <3>3. QED
      BY <3>1, <3>2
  <2>5. CASE \E s \in Session, kind \in {"change", "bind"} : Admit(r, s, kind) /\ session[s].user = u
    <3>0. PICK s \in Session, kind \in {"change", "bind"} :
                 Admit(r, s, kind) /\ session[s].user = u
      BY <2>5
    <3> DEFINE f == Start("admitted", kind, u)
    <3>1. f \in RequestState /\ f.user = u /\ f.epoch = epoch[u] /\ f.step \in {"admitted", "verified"}
          /\ (f.kind = "change" => f.step = "admitted")
      BY <1>0 DEF Start, Free, RequestState, Statuses, Kinds
    <3>2. request' = [request EXCEPT ![r] = f]
      BY <3>0 DEF Admit
    <3> HIDE DEF f
    <3>3. QED
      BY <3>1, <3>2
  <2>6. QED
    BY <2>1, <2>2, <2>3, <2>4, <2>5
<1>2. request \in [Request -> RequestState]
  BY DEF TypeOK
<1>3. QED
  BY <1>1, <1>2

\* A step of a request that stays in its slot.
LEMMA StayEffect ==
  ASSUME TypeOK, NEW r \in Request, VerifyPassword(r) \/ UpdateUser(r) \/ Revoke(r)
  PROVE  /\ request' \in [Request -> RequestState]
         /\ \A q \in Request \ {r} : request'[q] = request[q]
         /\ request[r].user \in User
         /\ request'[r].user = request[r].user /\ request'[r].kind = request[r].kind
         /\ request'[r].to = request[r].to
         /\ request[r].step = "admitted" =>
              /\ request'[r].step = "verified"
              /\ request'[r].known = password[request[r].user]
              /\ request'[r].epoch = epoch[request[r].user]
         /\ request[r].step # "admitted" =>
              /\ request'[r].known = request[r].known
              /\ request'[r].overlap = request[r].overlap
         /\ request[r].step = "verified" => request'[r].step = "updated"
         /\ request[r].step = "updated" =>
              /\ request'[r].step = "revoked"
              /\ Revokes(r) => request'[r].revoked =
                                {s \in Session : session[s].user = request[r].user}
<1>1. request \in [Request -> RequestState] /\ request[r].user \in User
  BY DEF TypeOK, VerifyPassword, UpdateUser, Revoke
<1>2. CASE VerifyPassword(r)
  <2>1. password[request[r].user] \in Nat /\ epoch[request[r].user] \in Nat
    BY <1>1 DEF TypeOK
  <2> DEFINE k == password[request[r].user]
             e == epoch[request[r].user]
  <2>2. request' = [request EXCEPT ![r].step = "verified", ![r].known = k, ![r].epoch = e,
                                   ![r].overlap = FALSE]
    BY <1>2 DEF VerifyPassword
  <2>3. k \in Nat /\ e \in Nat
    BY <2>1
  <2> HIDE DEF k, e
  <2> DEFINE f == [request[r] EXCEPT !.step = "verified", !.known = k, !.epoch = e, !.overlap = FALSE]
  <2>4. f \in RequestState /\ f.user = request[r].user /\ f.kind = request[r].kind
        /\ f.to = request[r].to /\ f.step = "verified" /\ f.known = k /\ f.epoch = e
    BY <1>1, <2>3 DEF RequestState
  <2>5. request' = [request EXCEPT ![r] = f]
    BY <1>1, <2>2 DEF RequestState
  <2> HIDE DEF f
  <2>6. request[r].step = "admitted"
    BY <1>2 DEF VerifyPassword
  <2>7. request'[r] = f /\ request' \in [Request -> RequestState]
        /\ \A q \in Request \ {r} : request'[q] = request[q]
    BY <1>1, <2>4, <2>5
  <2>8. QED
    BY <1>1, <2>4, <2>6, <2>7 DEF k, e
<1>3. CASE UpdateUser(r)
  <2>1. Matches(r) \in BOOLEAN
    BY DEF Matches
  <2>2. request' = [request EXCEPT ![r].step = "updated", ![r].row = Matches(r)]
    BY <1>3 DEF UpdateUser
  <2> DEFINE f == [request[r] EXCEPT !.step = "updated", !.row = Matches(r)]
  <2>3. f \in RequestState /\ f.user = request[r].user /\ f.kind = request[r].kind
        /\ f.to = request[r].to /\ f.step = "updated" /\ f.known = request[r].known
        /\ f.overlap = request[r].overlap
    BY <1>1, <2>1 DEF RequestState
  <2>4. request' = [request EXCEPT ![r] = f]
    BY <1>1, <2>2 DEF RequestState
  <2> HIDE DEF f
  <2>5. request[r].step = "verified"
    BY <1>3 DEF UpdateUser
  <2>6. request'[r] = f /\ request' \in [Request -> RequestState]
        /\ \A q \in Request \ {r} : request'[q] = request[q]
    BY <1>1, <2>3, <2>4
  <2>7. QED
    BY <1>1, <2>3, <2>5, <2>6
<1>4. CASE Revoke(r)
  <2> DEFINE R == IF Revokes(r) THEN {s \in Session : session[s].user = request[r].user} ELSE {}
  <2>1. R \in SUBSET Session
    OBVIOUS
  <2>2. request' = [request EXCEPT ![r].step = "revoked", ![r].revoked = R]
    BY <1>4 DEF Revoke
  <2>3. Revokes(r) => R = {s \in Session : session[s].user = request[r].user}
    OBVIOUS
  <2> HIDE DEF R
  <2> DEFINE f == [request[r] EXCEPT !.step = "revoked", !.revoked = R]
  <2>4. f \in RequestState /\ f.user = request[r].user /\ f.kind = request[r].kind
        /\ f.to = request[r].to /\ f.step = "revoked" /\ f.known = request[r].known
        /\ f.overlap = request[r].overlap /\ f.revoked = R
    BY <1>1, <2>1 DEF RequestState
  <2>5. request' = [request EXCEPT ![r] = f]
    BY <1>1, <2>2 DEF RequestState
  <2> HIDE DEF f
  <2>6. request[r].step = "updated"
    BY <1>4 DEF Revoke
  <2>7. request'[r] = f /\ request' \in [Request -> RequestState]
        /\ \A q \in Request \ {r} : request'[q] = request[q]
    BY <1>1, <2>4, <2>5
  <2>8. QED
    BY <1>1, <2>3, <2>4, <2>6, <2>7
<1>5. QED
  BY <1>2, <1>3, <1>4

\* A request that ends frees its slot.
LEMMA EndEffect ==
  ASSUME TypeOK, NEW r \in Request, Abort(r) \/ \E s \in Session : OpenSession(r, s)
  PROVE  /\ request' \in [Request -> RequestState]
         /\ \A q \in Request \ {r} : request'[q] = request[q]
         /\ request'[r] = Free
<1>1. request \in [Request -> RequestState]
  BY DEF TypeOK
<1>2. request' = [request EXCEPT ![r] = Free]
  BY DEF Abort, OpenSession
<1>3. QED
  BY <1>1, <1>2, FreeType

\* Every step keeps the types.
LEMMA TypeStep == ASSUME TypeOK, [Next]_vars PROVE TypeOK'
<1> USE DEF TypeOK, users
<1>1. ASSUME NEW u \in User, CreateUser(u) PROVE TypeOK'
  BY <1>1 DEF CreateUser, Statuses
<1>2. ASSUME NEW u \in User, ResetPasswordCode(u) PROVE TypeOK'
  BY <1>2 DEF ResetPasswordCode
<1>3. ASSUME NEW s \in Session, Logout(s) PROVE TypeOK'
  <2>1. session' \in [Session -> SessionRow]
    BY <1>3, ZenonT(60) DEF Logout, SessionRow
  <2>2. QED
    BY <1>3, <2>1 DEF Logout
<1>4. ASSUME NEW r \in Request, NEW u \in User, Register(r, u) PROVE TypeOK'
  <2>1. request' \in [Request -> RequestState]
        /\ \A q \in Request : request'[q].step # "idle" => request'[q].user \in User
    BY <1>4, BeginEffect
  <2>2. QED
    BY <1>4, <2>1 DEF Register, Statuses
<1>5. ASSUME NEW r \in Request, NEW u \in User,
             \/ Login(r, u) \/ ResetPassword(r, u) \/ ResetUserPassword(r, u)
             \/ \E to \in Statuses : UpdateUserStatus(r, u, to)
      PROVE  TypeOK'
  <2>1. request' \in [Request -> RequestState]
        /\ \A q \in Request : request'[q].step # "idle" => request'[q].user \in User
    BY <1>5, BeginEffect
  <2>2. UNCHANGED <<users, session, epoch>> /\ resetCode' \in [User -> BOOLEAN]
    BY <1>5 DEF Login, ResetPassword, ResetUserPassword, UpdateUserStatus
  <2>3. QED
    BY <2>1, <2>2
<1>6. ASSUME NEW r \in Request, NEW s \in Session, NEW kind \in {"change", "bind"},
             Admit(r, s, kind)
      PROVE  TypeOK'
  <2>1. session[s].user \in User
    BY <1>6 DEF Admit, Live, SessionRow
  <2>2. request' \in [Request -> RequestState]
        /\ \A q \in Request : request'[q].step # "idle" => request'[q].user \in User
    BY <1>6, <2>1, BeginEffect
  <2>3. QED
    BY <1>6, <2>2 DEF Admit
<1>7. ASSUME NEW r \in Request, NEW s \in Session, OpenSession(r, s) PROVE TypeOK'
  <2>1. request[r].user \in User /\ request[r] \in RequestState
    BY <1>7 DEF OpenSession
  <2> DEFINE row == [user |-> request[r].user, live |-> TRUE, epoch |-> request[r].epoch,
                     overlap |-> \/ request[r].overlap
                                 \/ \E q \in Request : /\ request[q].user = request[r].user
                                                       /\ request[q].step = "revoked"
                                                       /\ Revokes(q)]
  <2>2. row \in SessionRow
    BY <2>1 DEF SessionRow, RequestState
  <2>3. session' = [session EXCEPT ![s] = row]
    BY <1>7 DEF OpenSession
  <2> HIDE DEF row
  <2>4. session' \in [Session -> SessionRow]
    BY <2>2, <2>3, SMTT(30)
  <2>5. QED
    BY <1>7, <2>4, EndEffect, FreeType DEF OpenSession
<1>8. ASSUME NEW r \in Request, VerifyPassword(r) \/ UpdateUser(r) \/ Revoke(r) PROVE TypeOK'
  BY <1>8, StayEffect, ZenonT(60) DEF VerifyPassword, UpdateUser, Revoke
<1>9. ASSUME NEW r \in Request, Commit(r) PROVE TypeOK'
  <2>1. request[r].user \in User /\ request[r].to \in Statuses /\ request[r] \in RequestState
    BY <1>9 DEF Commit, RequestState
  <2>2. status' \in [User -> Statuses \cup {"absent"}]
    BY <1>9, <2>1 DEF Commit
  <2>3. password' \in [User -> Nat] /\ mustChange' \in [User -> BOOLEAN]
    <3> HIDE DEF users
    <3>1. password' \in [User -> Nat]
      BY <1>9, <2>1 DEF Commit
    <3>2. \E b \in BOOLEAN : mustChange' = [mustChange EXCEPT ![request[r].user] = b]
      <4>1. mustChange[request[r].user] \in BOOLEAN
        BY <2>1
      <4>2. QED
        BY <1>9, <4>1, Zenon DEF Commit
    <3>3. QED
      BY <3>1, <3>2
  <2>4. verified' \in [User -> BOOLEAN]
    <3>1. verified' = [verified EXCEPT ![request[r].user] =
                         verified[request[r].user] \/ request[r].kind = "bind"]
      BY <1>9 DEF Commit
    <3>2. QED
      BY <2>1, <3>1
  <2>5. epoch' \in [User -> Nat] /\ resetCode' \in [User -> BOOLEAN]
    BY <1>9, <2>1 DEF Commit
  <2>6. session' \in [Session -> SessionRow]
    <3>1. \A s \in Session : [session[s] EXCEPT !.live = FALSE] \in SessionRow
      BY DEF SessionRow
    <3>2. QED
      BY <1>9, <3>1 DEF Commit
  <2>7. QED
    BY <1>9, <2>2, <2>3, <2>4, <2>5, <2>6, CommitEffect, FreeType
<1>10. ASSUME NEW r \in Request, Abort(r) PROVE TypeOK'
  BY <1>10, EndEffect, FreeType DEF Abort
<1>11. CASE UNCHANGED vars
  BY <1>11 DEF vars
<1>12. QED
  BY <1>1, <1>2, <1>3, <1>4, <1>5, <1>6, <1>7, <1>8, <1>9, <1>10, <1>11 DEF Next

\* Types of the users and sessions tables and of the requests in flight.
THEOREM TypeCorrect == Spec => []TypeOK
<1>1. Init => TypeOK
  BY FreeType DEF Init, TypeOK, NoSession, SessionRow
<1>2. TypeOK /\ [Next]_vars => TypeOK'
  BY TypeStep
<1>3. QED
  BY <1>1, <1>2, PTL DEF Spec

-----------------------------------------------------------------------------
(* The inductive invariant.                                                *)

\* A login still to be answered saw the user's present epoch or was overlapped.
LoginsKnown ==
  \A r \in Request : request[r].kind = "login" /\ request[r].step = "verified" =>
    request[r].epoch = epoch[request[r].user] \/ request[r].overlap

\* So did a change of password see the present password.
ChangesKnown ==
  \A r \in Request : request[r].kind = "change" /\ request[r].step \notin {"idle", "admitted"} =>
    request[r].known = password[request[r].user] \/ request[r].overlap

\* What a transaction is about to leave alive was opened after it looked.
RevocationsComplete ==
  \A r \in Request : request[r].step = "revoked" /\ Revokes(r) =>
    \A s \in Session : Live(s) /\ session[s].user = request[r].user =>
      s \in request[r].revoked \/ session[s].overlap

\* Requests are about users there are; there is no password before the user.
UsersExist ==
  /\ \A r \in Request : request[r].step # "idle" => Exists(request[r].user)
  /\ \A u \in User : Exists(u) \/ (password[u] = 0 /\ ~resetCode[u])

Known == LoginsKnown /\ ChangesKnown /\ RevocationsComplete /\ UsersExist
IInv == TypeOK /\ Known /\ SurvivorsOverlapped

LEMMA KnownStep == ASSUME IInv, [Next]_vars PROVE (Known /\ SurvivorsOverlapped)'
<1> DEFINE Goal == (Known /\ SurvivorsOverlapped)'
<1> USE DEF IInv, Known, LoginsKnown, ChangesKnown, RevocationsComplete, UsersExist,
            SurvivorsOverlapped
<1>0. TypeOK'
  BY TypeStep
<1>1. ASSUME NEW u \in User, CreateUser(u) PROVE Goal
  BY <1>1 DEF CreateUser, Exists, TypeOK, Live, Revokes
<1>2. ASSUME NEW u \in User, ResetPasswordCode(u) PROVE Goal
  BY <1>2 DEF ResetPasswordCode, users, Exists, Live, Revokes, TypeOK
<1>3. ASSUME NEW s \in Session, Logout(s) PROVE Goal
  BY <1>3 DEF Logout, users, Exists, Live, Revokes, TypeOK, SessionRow
<1>4. ASSUME NEW r \in Request, NEW u \in User, Register(r, u) PROVE Goal
  <2>1. ~Exists(u) /\ UNCHANGED <<resetCode, session, epoch>>
        /\ status' = [status EXCEPT ![u] = "active"] /\ password' = [password EXCEPT ![u] = 1]
    BY <1>4 DEF Register
  <2>2. /\ \A q \in Request \ {r} : request'[q] = request[q]
        /\ request'[r].user = u /\ request'[r].epoch = epoch[u]
        /\ request'[r].step \in {"admitted", "verified"}
        /\ request'[r].kind = "change" => request'[r].step = "admitted"
    BY <1>4, BeginEffect
  <2>3. LoginsKnown' /\ RevocationsComplete' /\ SurvivorsOverlapped'
    BY <2>1, <2>2 DEF Live, Revokes, TypeOK
  <2>4. UsersExist'
    BY <2>1, <2>2 DEF Exists, TypeOK
  <2>5. ChangesKnown'
    BY <2>1, <2>2 DEF TypeOK
  <2>6. QED
    BY <2>3, <2>4, <2>5
<1>5. ASSUME NEW r \in Request, NEW u \in User, Exists(u),
             UNCHANGED <<status, password, session, epoch>>,
             \A v \in User : resetCode'[v] => resetCode[v],
             \A q \in Request \ {r} : request'[q] = request[q],
             request'[r].user = u, request'[r].epoch = epoch[u],
             request'[r].step \in {"admitted", "verified"},
             request'[r].kind = "change" => request'[r].step = "admitted"
      PROVE  Goal
  BY <1>5 DEF Live, Revokes, Exists, TypeOK
<1>6. ASSUME NEW r \in Request, NEW u \in User,
             \/ Login(r, u) \/ ResetUserPassword(r, u) \/ ResetPassword(r, u)
             \/ \E to \in Statuses : UpdateUserStatus(r, u, to)
             \/ \E s \in Session, kind \in {"change", "bind"} :
                  Admit(r, s, kind) /\ session[s].user = u
      PROVE  Goal
  <2>1. Exists(u) /\ UNCHANGED <<status, password, session, epoch>>
        /\ \A v \in User : resetCode'[v] => resetCode[v]
    BY <1>6 DEF Login, ResetUserPassword, ResetPassword, UpdateUserStatus, Admit, users, Exists,
                TypeOK
  <2>2. /\ \A q \in Request \ {r} : request'[q] = request[q]
        /\ request'[r].user = u /\ request'[r].epoch = epoch[u]
        /\ request'[r].step \in {"admitted", "verified"}
        /\ request'[r].kind = "change" => request'[r].step = "admitted"
    BY <1>6, BeginEffect
  <2>3. QED
    BY <2>1, <2>2, <1>5
<1>7. ASSUME NEW r \in Request, NEW s \in Session, OpenSession(r, s) PROVE Goal
  BY <1>7, EndEffect, FreeType DEF OpenSession, users, Exists, Live, Revokes, TypeOK
<1>8. ASSUME NEW r \in Request, VerifyPassword(r) \/ UpdateUser(r) \/ Revoke(r) PROVE Goal
  <2>1. UNCHANGED <<status, password, resetCode, session, epoch>>
        /\ request[r].step \in {"admitted", "verified", "updated"}
    BY <1>8 DEF VerifyPassword, UpdateUser, Revoke, users
  <2>2. UsersExist'
    BY <1>8, <2>1, StayEffect DEF Exists
  <2>3. LoginsKnown'
    BY <1>8, <2>1, StayEffect
  <2>4. ChangesKnown'
    BY <1>8, <2>1, StayEffect
  <2>5. RevocationsComplete'
    BY <1>8, <2>1, StayEffect DEF Live, Revokes
  <2>6. SurvivorsOverlapped'
    BY <2>1 DEF Live
  <2>7. QED
    BY <2>2, <2>3, <2>4, <2>5, <2>6
<1>9. ASSUME NEW r \in Request, Commit(r) PROVE Goal
  <2> DEFINE u == request[r].user
  <2>1. u \in User /\ request[r].step = "revoked" /\ request[r] \in RequestState
    BY <1>9 DEF Commit, TypeOK
  <2>2. /\ \A v \in User \ {u} : password'[v] = password[v] /\ epoch'[v] = epoch[v]
        /\ \A v \in User : Exists(v) => Exists(v)'
        /\ ~Revokes(r) => epoch'[u] = epoch[u] /\ password'[u] = password[u]
        /\ resetCode' = resetCode
    BY <1>9, <2>1 DEF Commit, Revokes, SetsPassword, Exists, TypeOK, RequestState, Statuses
  <2>3. \A s \in Session : /\ session'[s].user = session[s].user
                           /\ session'[s].epoch = session[s].epoch
                           /\ session'[s].overlap = session[s].overlap
                           /\ session'[s].live => session[s].live /\ s \notin request[r].revoked
    <3>1. \A s \in Session : LET d == [session[s] EXCEPT !.live = FALSE] IN
            d.user = session[s].user /\ d.epoch = session[s].epoch
              /\ d.overlap = session[s].overlap /\ d.live = FALSE
      BY DEF TypeOK, SessionRow
    <3>2. \A s \in Session : session'[s] = IF s \in request[r].revoked
                                           THEN [session[s] EXCEPT !.live = FALSE]
                                           ELSE session[s]
      BY <1>9 DEF Commit
    <3>3. QED
      BY <3>1, <3>2
  <2>4. request'[r].step = "idle" /\ request'[r].user = NoUser
    BY <1>9, CommitEffect, FreeType
  <2> HIDE DEF u
  <2>5. \A q \in Request \ {r} :
              /\ request'[q].step = request[q].step /\ request'[q].kind = request[q].kind
              /\ request'[q].user = request[q].user /\ request'[q].known = request[q].known
              /\ request'[q].to = request[q].to /\ request'[q].revoked = request[q].revoked
              /\ request'[q].epoch = request[q].epoch
              /\ request[q].overlap => request'[q].overlap
              /\ request[q].user = u /\ Revokes(r) => request'[q].overlap
    BY <1>9, CommitEffect DEF u
  <2>6. UsersExist'
    <3>1. \A v \in User : ~Exists(v)' => v # u /\ ~Exists(v)
      BY <2>1, <2>2 DEF u
    <3>2. QED
      BY <2>1, <2>2, <2>4, <2>5, <3>1 DEF TypeOK
  <2>7. LoginsKnown' /\ ChangesKnown'
    BY <2>1, <2>2, <2>4, <2>5 DEF TypeOK
  <2>8. RevocationsComplete'
    BY <2>3, <2>4, <2>5 DEF Live, Revokes
  <2>9. SurvivorsOverlapped'
    <3>1. SUFFICES ASSUME NEW s \in Session, Live(s)', session'[s].epoch # epoch'[session'[s].user]
                   PROVE  session'[s].overlap
      OBVIOUS
    <3>2. Live(s) /\ s \notin request[r].revoked /\ session[s].user \in User
      BY <2>3, <3>1 DEF Live, TypeOK, SessionRow
    <3>3. CASE session[s].user = u /\ Revokes(r)
      BY <2>1, <2>3, <3>2, <3>3 DEF u
    <3>4. CASE ~(session[s].user = u /\ Revokes(r))
      BY <2>2, <2>3, <3>1, <3>2, <3>4
    <3>5. QED
      BY <3>3, <3>4
  <2>10. QED
    BY <2>6, <2>7, <2>8, <2>9
<1>10. ASSUME NEW r \in Request, Abort(r) PROVE Goal
  BY <1>10, EndEffect, FreeType DEF Abort, users, Exists, Live, Revokes, TypeOK
<1>11. CASE UNCHANGED vars
  BY <1>11 DEF vars, Exists, Live, Revokes
<1>12. ASSUME NEW r \in Request, NEW s \in Session, NEW kind \in {"change", "bind"},
              Admit(r, s, kind)
       PROVE  session[s].user \in User
  BY <1>12 DEF Admit, Live, TypeOK, SessionRow
<1>13. QED
  BY <1>1, <1>2, <1>3, <1>4, <1>6, <1>7, <1>8, <1>9, <1>10, <1>11, <1>12 DEF Next

\* IInv is an invariant of the specification.
THEOREM InductiveInvariant == Spec => []IInv
<1>1. Init => Known /\ SurvivorsOverlapped
  BY FreeType DEF Init, Known, LoginsKnown, ChangesKnown, RevocationsComplete, UsersExist,
         SurvivorsOverlapped, Live, NoSession, Exists
<1>2. Init => TypeOK
  BY FreeType DEF Init, TypeOK, NoSession, SessionRow
<1>3. IInv /\ [Next]_vars => IInv'
  BY TypeStep, KnownStep DEF IInv
<1>4. QED
  BY <1>1, <1>2, <1>3, PTL DEF Spec, IInv

\* Every session that survives the revocation of its user's sessions is one
\* whose login overlapped the transaction that revoked them.
THEOREM RevocationMissesOnlyOverlaps == Spec => []SurvivorsOverlapped
<1>1. IInv => SurvivorsOverlapped
  BY DEF IInv
<1>2. QED
  BY <1>1, InductiveInvariant, PTL

\* A password is never replaced by a change that verified an older one, unless
\* the two overlapped.
THEOREM PasswordsReplacedKnowingly == Spec => ReplacedKnowingly
<1> DEFINE By(u, r) ==
      /\ request[r].step = "revoked" /\ request'[r].step = "idle" /\ request[r].user = u
      /\ \/ request[r].kind \in {"reset", "temporary"}
         \/ request[r].known = password[u]
         \/ request[r].overlap
    Step == \A u \in User : password[u] # 0 /\ password'[u] # password[u] =>
              \E r \in Request : By(u, r)
<1>1. IInv /\ [Next]_vars => [Step]_vars
  <2> SUFFICES ASSUME IInv, Next, NEW u \in User, password[u] # 0, password'[u] # password[u]
               PROVE  \E r \in Request : By(u, r)
    OBVIOUS
  <2> USE DEF IInv
  <2>1. \A v \in User : ~CreateUser(v)
    BY DEF CreateUser, Known, UsersExist, TypeOK
  <2>2. \A v \in User, r \in Request : ~Register(r, v)
    BY DEF Register, Known, UsersExist, TypeOK
  <2>3. PICK r \in Request : Commit(r)
    BY <2>1, <2>2 DEF Next, ResetPasswordCode, Logout, Login, ResetPassword, ResetUserPassword,
                      UpdateUserStatus, OpenSession, Admit, VerifyPassword, UpdateUser, Revoke,
                      Abort, users
  <2>4. request[r].step = "revoked" /\ request'[r].step = "idle"
    BY <2>3, CommitEffect, FreeType DEF Commit
  <2>5. SetsPassword(r) /\ request[r].user = u
    BY <2>3, <2>4 DEF Commit, TypeOK
  <2>6. request[r].kind = "change" => request[r].known = password[u] \/ request[r].overlap
    BY <2>4, <2>5 DEF Known, ChangesKnown
  <2>7. QED
    BY <2>4, <2>5, <2>6 DEF SetsPassword
<1>2. QED
  BY <1>1, InductiveInvariant, PTL DEF Spec, ReplacedKnowingly
=============================================================================
