----------------------------- MODULE SuperAdmins -----------------------------
(***************************************************************************)
(* Who can administer the platform: users.status, the super_admin rows of  *)
(* user_roles, and the transactions of updateUserStatus and                *)
(* replaceUserRoles under READ COMMITTED, with row locks and the deferred  *)
(* constraint triggers that call ensure_active_super_admin.                *)
(*                                                                         *)
(* A trigger counts what its transaction sees when COMMIT starts, and the  *)
(* transaction becomes visible later: a step each.  Roles other than       *)
(* super_admin are left out; user_roles rows carry a number, because a     *)
(* DELETE skips rows inserted after its statement began.                   *)
(***************************************************************************)
EXTENDS Naturals, FiniteSets

CONSTANTS
  User,      \* users and free user names
  Txn,       \* slots for concurrent administrative requests
  NoUser,    \* the target of an empty slot
  MaxRows    \* bound: super_admin rows ever inserted into user_roles

ASSUME AdminAssumption == MaxRows \in Nat /\ NoUser \notin User

VARIABLES
  status,   \* users.status, "absent" before the row is inserted
  super,    \* the number of the user's super_admin row in user_roles, or 0
  rowsUsed, \* rows inserted so far
  txn       \* per slot: the transaction in it

vars == <<status, super, rowsUsed, txn>>

Statuses == {"active", "disabled", "deleted"}

\* A request is admitted by requireAdmin, runs its statements ("updated"; or
\* "deleting" while it waits for a row lock, "deleted", "replaced"), and is
\* "checked" once its triggers have passed.
Steps == {"idle", "admitted", "deleting", "deleted", "updated", "replaced", "checked"}

\* op: which handler; to: the new status; keep: the new roles include
\* super_admin; seen: the row the DELETE found; hit: whether it deleted it;
\* stale: another transaction committed after the triggers ran.
Slot == [step : Steps, op : {"status", "roles"}, user : User \cup {NoUser}, to : Statuses,
         keep : BOOLEAN, seen : Nat, hit : BOOLEAN, stale : BOOLEAN]

Empty == [step |-> "idle", op |-> "status", user |-> NoUser, to |-> "active",
          keep |-> FALSE, seen |-> 0, hit |-> FALSE, stale |-> FALSE]

TypeOK ==
  /\ status \in [User -> Statuses \cup {"absent"}]
  /\ super \in [User -> Nat]
  /\ rowsUsed \in Nat
  /\ txn \in [Txn -> Slot]
  /\ \A t \in Txn : txn[t].step # "idle" => txn[t].user \in User

ActiveAdmins(st, su) == {u \in User : st[u] = "active" /\ su[u] # 0}
Admins == ActiveAdmins(status, super)

\* The first administrator has been bootstrapped.
Init ==
  /\ \E u \in User : /\ status = [v \in User |-> IF v = u THEN "active" ELSE "absent"]
                     /\ super = [v \in User |-> IF v = u THEN 1 ELSE 0]
  /\ rowsUsed = 1
  /\ txn = [t \in Txn |-> Empty]

-----------------------------------------------------------------------------
(* Rows inserted without any trigger.                                      *)

\* Wrong: a status the CHECK constraint of the table does not know.
CreateUserInvited(u) ==
  /\ status[u] = "absent"
  /\ status' = [status EXCEPT ![u] = "invited"]
  /\ UNCHANGED <<super, rowsUsed, txn>>

\* registerDesktop and createUser insert an ordinary user.
CreateUser(u) ==
  /\ status[u] = "absent"
  /\ status' = [status EXCEPT ![u] = "active"]
  /\ UNCHANGED <<super, rowsUsed, txn>>

\* mhedctl bootstrap-super-admin inserts a user under a free name, with the role.
Bootstrap(u) ==
  /\ status[u] = "absent" /\ rowsUsed < MaxRows
  /\ status' = [status EXCEPT ![u] = "active"]
  /\ super' = [super EXCEPT ![u] = rowsUsed + 1]
  /\ rowsUsed' = rowsUsed + 1
  /\ UNCHANGED txn

-----------------------------------------------------------------------------
(* A plausible slip in the code, not used by the specification.            *)

\* No trigger on user_roles.
FiresOnStatus(t) == txn[t].op = "status"

-----------------------------------------------------------------------------
(* Administrative requests.                                                *)

At(t, step, op) == txn[t].step = step /\ txn[t].op = op
Goto(t, step) == txn' = [txn EXCEPT ![t].step = step]

\* requireAdmin: some active super administrator sent the request, about a user
\* there is; rows of users are never removed.
Admit(t, u) ==
  /\ txn[t].step = "idle"
  /\ Admins # {}
  /\ status[u] # "absent"
  /\ \/ \E s \in Statuses :
          txn' = [txn EXCEPT ![t] = [Empty EXCEPT !.step = "admitted", !.user = u, !.to = s]]
     \/ \E k \in BOOLEAN :
          txn' = [txn EXCEPT ![t] = [Empty EXCEPT !.step = "admitted", !.user = u,
                                                !.op = "roles", !.keep = k]]
  /\ UNCHANGED <<status, super, rowsUsed>>

\* An error, a cancelled request or a crash: ROLLBACK.
Abort(t) ==
  /\ txn[t].step # "idle"
  /\ txn' = [txn EXCEPT ![t] = Empty]
  /\ UNCHANGED <<status, super, rowsUsed>>

\* A transaction that has updated the user's row and not yet ended locks it.
UserLocked(u) ==
  \E q \in Txn : txn[q].op = "status" /\ txn[q].step \in {"updated", "checked"} /\ txn[q].user = u

\* updateUserStatus: UPDATE users waits for the row lock.
UpdateStatus(t) ==
  /\ At(t, "admitted", "status")
  /\ ~UserLocked(txn[t].user)
  /\ Goto(t, "updated")
  /\ UNCHANGED <<status, super, rowsUsed>>

\* A transaction that has deleted the user's role row locks it.
RoleLocked(u) ==
  \E q \in Txn : txn[q].op = "roles" /\ txn[q].user = u /\ txn[q].hit

\* replaceUserRoles: DELETE deletes the row it finds, if any, or waits for the
\* transaction that locks it ...
DeleteRoles(t) ==
  LET u == txn[t].user IN
  /\ At(t, "admitted", "roles")
  /\ IF RoleLocked(u)
     THEN txn' = [txn EXCEPT ![t].step = "deleting", ![t].seen = super[u]]
     ELSE txn' = [txn EXCEPT ![t].step = "deleted", ![t].hit = super[u] # 0]
  /\ UNCHANGED <<status, super, rowsUsed>>

\* ... and when that one has ended deletes the row it found if it is still
\* there; a row inserted meanwhile is not looked at.
ResumeDelete(t) ==
  LET u == txn[t].user IN
  /\ At(t, "deleting", "roles")
  /\ ~RoleLocked(u)
  /\ txn' = [txn EXCEPT ![t].step = "deleted", ![t].hit = super[u] = txn[t].seen]
  /\ UNCHANGED <<status, super, rowsUsed>>

\* A transaction that has inserted the user's role row and not yet ended.
RoleInserting(u) ==
  \E q \in Txn : /\ txn[q].op = "roles" /\ txn[q].user = u /\ txn[q].keep
                 /\ txn[q].step \in {"replaced", "checked"}

\* INSERT of the new roles.  The primary key makes it wait for an uncommitted
\* row of the same user and fail on a committed one it did not delete.
InsertRoles(t) ==
  LET u == txn[t].user IN
  /\ At(t, "deleted", "roles")
  /\ txn[t].keep => /\ ~RoleInserting(u) /\ rowsUsed < MaxRows
                    /\ super[u] # 0 => txn[t].hit
  /\ rowsUsed' = IF txn[t].keep THEN rowsUsed + 1 ELSE rowsUsed
  /\ txn' = [txn EXCEPT ![t].step = "replaced", ![t].seen = rowsUsed']
  /\ UNCHANGED <<status, super>>

\* The tables as the transaction sees them: committed rows and its own changes.
StatusSeen(t) ==
  IF txn[t].op = "status" THEN [status EXCEPT ![txn[t].user] = txn[t].to] ELSE status
SuperSeen(t) ==
  IF txn[t].op = "roles" /\ txn[t].keep
  THEN [super EXCEPT ![txn[t].user] = txn[t].seen]
  ELSE IF txn[t].hit THEN [super EXCEPT ![txn[t].user] = 0] ELSE super

Fires(t) == txn[t].op = "status" \/ txn[t].hit

\* COMMIT first runs the deferred triggers of the rows updated or deleted.
CheckTriggers(t) ==
  /\ txn[t].step \in {"updated", "replaced"}
  /\ Fires(t) => ActiveAdmins(StatusSeen(t), SuperSeen(t)) # {}
  /\ Goto(t, "checked")
  /\ UNCHANGED <<status, super, rowsUsed>>

\* Then the transaction becomes visible to all others.
Commit(t) ==
  /\ txn[t].step = "checked"
  /\ status' = StatusSeen(t)
  /\ super' = SuperSeen(t)
  /\ txn' = [q \in Txn |->
               IF q = t THEN Empty
               ELSE IF txn[q].step = "checked" THEN [txn[q] EXCEPT !.stale = TRUE]
               ELSE txn[q]]
  /\ UNCHANGED rowsUsed

Request(t) ==
  \/ \E u \in User : Admit(t, u)
  \/ UpdateStatus(t) \/ DeleteRoles(t) \/ ResumeDelete(t) \/ InsertRoles(t)
  \/ CheckTriggers(t) \/ Commit(t) \/ Abort(t)

Next ==
  \/ \E u \in User : CreateUser(u) \/ Bootstrap(u)
  \/ \E t \in Txn : Request(t)

Spec == Init /\ [][Next]_vars

-----------------------------------------------------------------------------
(* Properties.                                                             *)

\* An existing user changes status or loses or exchanges the super_admin role.
Touched(u) == \/ status[u] # "absent" /\ status'[u] # status[u]
              \/ super[u] # 0 /\ super'[u] # super[u]

\* A change of users or roles leaves the platform without an active super
\* administrator only if another transaction committed between its triggers and
\* its own commit: the triggers never let a transaction through on their own.
EmptiedOnlyByOverlap ==
  [][(\E u \in User : Touched(u)) /\ Admins' = {} =>
       \E t \in Txn : txn[t].step = "checked" /\ txn[t].stale /\ txn'[t].step = "idle"]_vars

\* "the final active super administrator cannot be disabled or stripped".
AlwaysAnAdmin == Admins # {}
=============================================================================
